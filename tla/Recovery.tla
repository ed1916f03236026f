------------------------------ MODULE Recovery ------------------------------
(***************************************************************************)
(* The files of a leveldb database: logs, tables, MANIFESTs and CURRENT;   *)
(* LogAndApply, which commits a change of them; DeleteObsoleteFiles; and   *)
(* DB::Open after a crash of the process or of the machine at any step.    *)
(*                                                                         *)
(* DBImpl.tla has the threads.  Here a write is one step, and the          *)
(* background thread works step by step: one step per file it creates or   *)
(* syncs.  All keys overlap, so a compaction takes all tables there are;   *)
(* what it may drop is in LSM.tla.                                         *)
(*                                                                         *)
(* A file is the sequence of its records, of which the first synced[f]     *)
(* are on stable storage.  A record is a write (log), the whole contents   *)
(* of a table, or an edit (MANIFEST).  Names are created, renamed and      *)
(* unlinked in the order of the calls, as a journaling file system does;   *)
(* a crash of the machine may undo the last ones.                          *)
(*                                                                         *)
(* A definition that stands right before another one with the same         *)
(* parameters, and is used nowhere, is a faulty variant of it.             *)
(***************************************************************************)
EXTENDS Integers, Sequences, FiniteSets, FiniteSetsExt

CONSTANTS
    None,           \* no compaction under way
    CrashWhenNew,   \* BOOLEAN: the machine may crash before the first MANIFEST is on disk
    ReuseFrom,      \* options_.reuse_logs may be set after this many faults
    MaxFile,        \* bound: file numbers
    MaxWrites,      \* bound: writes
    MaxFaults       \* bound: crashes and failed calls

ASSUME OptionsAssumption ==
    /\ CrashWhenNew \in BOOLEAN
    /\ ReuseFrom \in Nat
    /\ None \notin [base : SUBSET (1..MaxFile), output : 1..MaxFile]

ASSUME BoundsAssumption ==
    /\ MaxFile \in Nat \ {0} /\ MaxWrites \in Nat /\ MaxFaults \in Nat

VARIABLES
    dir,            \* the directory: its files and the MANIFEST that CURRENT names
    older,          \* earlier directories that a machine crash may bring back
    data, synced,   \* the records of each file, and how many are on stable storage
    phase,          \* progress of DB::Open
    reuse,          \* options_.reuse_logs
    todo,           \* logs that Recover has yet to read
    mem_, imm_, has_imm_,
    logfile_number_, log_number_, manifest_file_number_, next_file_number_,
    has_descriptor_,    \* descriptor_log_ # NULL
    last_sequence_,
    current_,       \* the tables of the current version
    pinned,         \* the tables of a version that a reader holds
    pending_outputs_,
    flush,          \* the table CompactMemTable builds, or 0
    c,              \* the compaction under way
    apply,          \* progress of LogAndApply
    bg_error_,      \* BOOLEAN
    writes,         \* history: writes so far
    hard,           \* history: synced writes
    faults          \* crashes and failed calls so far; bounds the behaviour

diskVars == <<dir, older, data, synced>>
numberVars == <<log_number_, manifest_file_number_, next_file_number_, has_descriptor_>>
memVars == <<mem_, imm_, has_imm_, logfile_number_, last_sequence_>>
openVars == <<phase, reuse, todo>>
versionVars == <<current_, pinned, pending_outputs_>>
bgVars == <<flush, c, apply, bg_error_>>
historyVars == <<writes, hard, faults>>
vars == <<diskVars, numberVars, memVars, openVars, versionVars, bgVars, historyVars>>

-----------------------------------------------------------------------------
(***************************************************************************)
(* Files.                                                                  *)
(***************************************************************************)
Numbers == 1..MaxFile
Log(n) == <<"log", n>>
TableFile(n) == <<"table", n>>
Manifest(n) == <<"manifest", n>>
Files == {"log", "table", "manifest"} \X Numbers

Of(type, files) == {f[2] : f \in {g \in files : g[1] = type}}

\* The directory becomes d.
ChangeDir(d) ==
    dir' = d /\ older' = IF d = dir THEN older ELSE older \cup {dir}

Create(f) == [dir EXCEPT !.files = @ \cup {f}]

WrittenOver(f, r) == data' = [data EXCEPT ![f] = r] /\ UNCHANGED synced

\* fopen(f, "w"), then records r of which none is synced.
Written(f, r) == data' = [data EXCEPT ![f] = r] /\ synced' = [synced EXCEPT ![f] = 0]

NotSynced(f) == UNCHANGED <<synced, older>>

\* fdatasync, which also commits the journal of the file system.
SyncFile(f) == synced' = [synced EXCEPT ![f] = Len(data'[f])] /\ older' = {}

\* A table, and what is in it; deep if a compaction has made it.
TableOf(entries, deep) == [entries |-> entries, deep |-> deep]
Contents(n) == IF data[TableFile(n)] = <<>> THEN {} ELSE data[TableFile(n)][1].entries
IsDeep(n) == data[TableFile(n)] # <<>> /\ data[TableFile(n)][1].deep

InTables(tables) == UNION {Contents(n) : n \in tables}
InLog(n) == {data[Log(n)][i] : i \in DOMAIN data[Log(n)]}
Store == mem_ \cup imm_ \cup InTables(current_)

\* Edits.  A field that an edit lacks is 0.
Edit(log, next, last, add, del) ==
    [log |-> log, next |-> next, last |-> last, add |-> add, del |-> del]

\* VersionSet::Recover: what the records of a MANIFEST come to.
LastOf(records, field) ==
    LET having == {i \in DOMAIN records : records[i][field] # 0}
    IN  IF having = {} THEN 0 ELSE records[Max(having)][field]
ReplayedTables(records) ==
    UNION {{n \in records[i].add :
               \A j \in i + 1..Len(records) : n \notin records[j].del} : i \in DOMAIN records}
ReplayedLog(records)  == LastOf(records, "log")
ReplayedNext(records) == LastOf(records, "next")
ReplayedLast(records) == LastOf(records, "last")

\* The logs that DBImpl::Recover reads.
LogsFrom(d, log) == {n \in Of("log", d.files) : n >= log}

\* What the next DB::Open would find, if no crash of the machine comes first.
Recoverable ==
    IF dir.current = 0 THEN {}
    ELSE LET records == data[Manifest(dir.current)]
         IN  InTables(ReplayedTables(records))
             \cup UNION {InLog(n) : n \in LogsFrom(dir, ReplayedLog(records))}

-----------------------------------------------------------------------------
NoApply == [pc |-> "none", owner |-> "open", edit |-> Edit(0, 0, 0, {}, {})]

Init ==
    /\ dir = [files |-> {}, current |-> 0] /\ older = {}
    /\ data = [f \in Files |-> <<>>] /\ synced = [f \in Files |-> 0]
    /\ phase = "down" /\ reuse = FALSE /\ todo = {}
    /\ mem_ = {} /\ imm_ = {} /\ has_imm_ = FALSE
    /\ logfile_number_ = 0 /\ log_number_ = 0 /\ manifest_file_number_ = 0
    /\ next_file_number_ = 2 /\ has_descriptor_ = FALSE /\ last_sequence_ = 0
    /\ current_ = {} /\ pinned = {} /\ pending_outputs_ = {}
    /\ flush = 0 /\ c = None /\ apply = NoApply /\ bg_error_ = FALSE
    /\ writes = 0 /\ hard = {} /\ faults = 0

Fault == faults < MaxFaults /\ faults' = faults + 1

-----------------------------------------------------------------------------
(***************************************************************************)
(* LogAndApply: append the edit to the MANIFEST, sync it, make CURRENT     *)
(* name it if it is new, and install the version.                          *)
(***************************************************************************)
StartApply(owner, edit) == apply' = [pc |-> "append", owner |-> owner, edit |-> edit]

\* AddLiveFiles of the versions that are still referenced, and what is being
\* written.
LiveCurrentOnly == current_' \cup pending_outputs_'
Live == current_' \cup pinned' \cup pending_outputs_' \cup (IF c' = None THEN {} ELSE c'.base)

Obsolete ==
    {f \in dir.files :
        \/ f[1] = "log" /\ f[2] < log_number_'
        \/ f[1] = "manifest" /\ f[2] < manifest_file_number_'
        \/ f[1] = "table" /\ f[2] \notin Live}

\* DeleteObsoleteFiles does nothing after an error.  It ignores what unlink says;
\* a file that stays is as one that a crash brings back.
DeleteObsoleteFiles ==
    IF bg_error_' THEN UNCHANGED <<dir, older>>
    ELSE ChangeDir([dir EXCEPT !.files = @ \ Obsolete])

\* The first LogAndApply of a process that does not reuse the MANIFEST creates
\* one, with a snapshot of the version in it.
AppendEdit(found) ==
    LET f == Manifest(manifest_file_number_)
    IN  IF has_descriptor_
        THEN /\ data' = [data EXCEPT ![f] = @ \o found]
             /\ UNCHANGED <<dir, older, synced>>
        ELSE /\ Written(f, <<Edit(0, 0, 0, current_, {})>> \o found)
             /\ ChangeDir(Create(f))

ApplyAppend ==
    /\ apply.pc = "append"
    /\ AppendEdit(<<apply.edit>>)
    /\ apply' = [apply EXCEPT !.pc = "sync"]
    /\ UNCHANGED <<numberVars, memVars, openVars, versionVars, flush, c, bg_error_,
                   historyVars>>

NextAfterSync == IF has_descriptor_ THEN "install" ELSE "current"

\* Sync of a MANIFEST syncs the directory first.
ApplySync ==
    /\ apply.pc = "sync"
    /\ UNCHANGED <<dir, data>>
    /\ SyncFile(Manifest(manifest_file_number_))
    /\ apply' = [apply EXCEPT !.pc = NextAfterSync]
    /\ UNCHANGED <<numberVars, memVars, openVars, versionVars, flush, c, bg_error_,
                   historyVars>>

\* SetCurrentFile: a synced temporary file is renamed to CURRENT.
SetCurrentFile ==
    /\ apply.pc = "current"
    /\ ChangeDir([dir EXCEPT !.current = manifest_file_number_])
    /\ has_descriptor_' = TRUE
    /\ apply' = [apply EXCEPT !.pc = "install"]
    /\ UNCHANGED <<data, synced, log_number_, manifest_file_number_, next_file_number_,
                   memVars, openVars, versionVars, flush, c, bg_error_, historyVars>>

Install ==
    /\ apply.pc = "install"
    /\ apply' = NoApply
    /\ current_' = (current_ \ apply.edit.del) \cup apply.edit.add
    /\ log_number_' = apply.edit.log

\* The end of DB::Open.
InstallOpen ==
    /\ apply.owner = "open"
    /\ Install
    /\ phase' = "up"
    /\ UNCHANGED <<data, synced, manifest_file_number_, next_file_number_, has_descriptor_,
                   memVars, reuse, todo, pinned, pending_outputs_, flush, c, bg_error_,
                   historyVars>>
    /\ DeleteObsoleteFiles

\* The end of CompactMemTable.
InstallFlush ==
    /\ apply.owner = "flush"
    /\ Install
    /\ imm_' = {} /\ has_imm_' = FALSE /\ flush' = 0
    /\ UNCHANGED <<data, synced, manifest_file_number_, next_file_number_, has_descriptor_,
                   mem_, logfile_number_, last_sequence_, openVars, pinned,
                   pending_outputs_, c, bg_error_, historyVars>>
    /\ DeleteObsoleteFiles

\* The end of BackgroundCompaction, with CleanupCompaction.
InstallCompaction ==
    /\ apply.owner = "compaction"
    /\ Install
    /\ c' = None
    /\ pending_outputs_' = pending_outputs_ \ {c.output}
    /\ UNCHANGED <<data, synced, manifest_file_number_, next_file_number_, has_descriptor_,
                   memVars, openVars, pinned, flush, bg_error_, historyVars>>
    /\ DeleteObsoleteFiles

\* What a process knows is gone.
Forget ==
    /\ phase' = "down" /\ reuse' = FALSE /\ todo' = {}
    /\ mem_' = {} /\ imm_' = {} /\ has_imm_' = FALSE
    /\ logfile_number_' = 0 /\ log_number_' = 0 /\ manifest_file_number_' = 0
    /\ next_file_number_' = 2 /\ has_descriptor_' = FALSE /\ last_sequence_' = 0
    /\ current_' = {} /\ pinned' = {} /\ pending_outputs_' = {}
    /\ flush' = 0 /\ c' = None /\ apply' = NoApply /\ bg_error_' = FALSE

\* A call of LogAndApply fails at one of its steps.  The record may be in the
\* file all the same.  A new MANIFEST is deleted.
ApplyError == apply.pc \in {"append", "sync", "current"} /\ Fault

RecordOfFailedApply ==
    IF apply.pc = "append" /\ has_descriptor_
    THEN /\ \E found \in {<<>>, <<apply.edit>>} : AppendEdit(found)
    ELSE UNCHANGED <<data, synced>>

\* The open fails.
ApplyFailsOpen ==
    /\ apply.owner = "open" /\ ApplyError
    /\ RecordOfFailedApply
    /\ IF has_descriptor_ THEN UNCHANGED <<dir, older>>
       ELSE ChangeDir([dir EXCEPT !.files = @ \ {Manifest(manifest_file_number_)}])
    /\ Forget
    /\ UNCHANGED <<writes, hard>>

\* RecordBackgroundError; imm_ stays, a compaction gives up.
ApplyFailsBackground ==
    /\ apply.owner # "open" /\ ApplyError
    /\ RecordOfFailedApply
    /\ UNCHANGED <<dir, older>>
    /\ apply' = NoApply
    /\ bg_error_' = TRUE
    /\ flush' = 0
    /\ IF apply.owner = "compaction"
       THEN c' = None /\ pending_outputs_' = pending_outputs_ \ {c.output}
       ELSE UNCHANGED <<c, pending_outputs_>>
    /\ UNCHANGED <<numberVars, memVars, openVars, current_, pinned, writes, hard>>

-----------------------------------------------------------------------------
(***************************************************************************)
(* An open database.                                                       *)
(***************************************************************************)
NewFileNumber(n) ==
    /\ n = next_file_number_ /\ n < MaxFile
    /\ next_file_number_' = n + 1

Put(sync) ==
    /\ phase = "up" /\ ~bg_error_ /\ writes < MaxWrites
    /\ LET e == [seq |-> last_sequence_ + 1, id |-> writes + 1]
       IN  /\ data' = [data EXCEPT ![Log(logfile_number_)] = Append(@, e)]
           /\ mem_' = mem_ \cup {e}
           /\ hard' = IF sync THEN hard \cup {e} ELSE hard
    /\ IF sync THEN SyncFile(Log(logfile_number_)) ELSE UNCHANGED <<synced, older>>
    /\ last_sequence_' = last_sequence_ + 1
    /\ writes' = writes + 1
    /\ UNCHANGED <<dir, numberVars, imm_, has_imm_, logfile_number_, openVars, versionVars,
                   bgVars, faults>>

\* MakeRoomForWrite: a new log and a new memtable.
SwitchMemTable ==
    /\ phase = "up" /\ ~bg_error_ /\ ~has_imm_ /\ mem_ # {}
    /\ \E n \in Numbers :
           /\ NewFileNumber(n)
           /\ ChangeDir(Create(Log(n))) /\ Written(Log(n), <<>>)
           /\ logfile_number_' = n
    /\ imm_' = mem_ /\ has_imm_' = TRUE /\ mem_' = {}
    /\ UNCHANGED <<log_number_, manifest_file_number_, has_descriptor_, last_sequence_,
                   openVars, versionVars, bgVars, historyVars>>

\* The background thread may start on imm_: in BackgroundCall, if there is no
\* error, or in the loop of DoCompactionWork, whatever bg_error_ is.
MayFlush ==
    /\ phase = "up" /\ has_imm_ /\ flush = 0 /\ apply = NoApply
    /\ c = None => ~bg_error_

\* CompactMemTable: WriteLevel0Table takes a number and creates the table.
StartFlush ==
    /\ MayFlush
    /\ \E n \in Numbers :
           /\ NewFileNumber(n)
           /\ ChangeDir(Create(TableFile(n))) /\ Written(TableFile(n), <<>>)
           /\ flush' = n
           /\ pending_outputs_' = pending_outputs_ \cup {n}
    /\ UNCHANGED <<log_number_, manifest_file_number_, has_descriptor_, memVars, openVars,
                   current_, pinned, c, apply, bg_error_, historyVars>>

FlushEditNextLog ==
    Edit(logfile_number_ + 1, next_file_number_, last_sequence_, {flush}, {})

\* "Earlier logs no longer needed".
FlushEdit == Edit(logfile_number_, next_file_number_, last_sequence_, {flush}, {})

\* The table is complete and synced; it is taken out of pending_outputs_ before
\* LogAndApply.
FinishFlush ==
    /\ flush # 0 /\ apply = NoApply
    /\ data' = [data EXCEPT ![TableFile(flush)] = <<TableOf(imm_, FALSE)>>]
    /\ SyncFile(TableFile(flush))
    /\ pending_outputs_' = pending_outputs_ \ {flush}
    /\ StartApply("flush", FlushEdit)
    /\ UNCHANGED <<dir, numberVars, memVars, openVars, current_, pinned, flush, c,
                   bg_error_, historyVars>>

\* BuildTable fails and deletes the file.
FlushFails ==
    /\ flush # 0 /\ apply = NoApply /\ Fault
    /\ ChangeDir([dir EXCEPT !.files = @ \ {TableFile(flush)}])
    /\ pending_outputs_' = pending_outputs_ \ {flush}
    /\ flush' = 0 /\ bg_error_' = TRUE
    /\ UNCHANGED <<data, synced, numberVars, memVars, openVars, current_, pinned, c, apply,
                   writes, hard>>

\* DoCompactionWork, on all tables of the version, opens its output.
StartCompaction ==
    /\ phase = "up" /\ ~bg_error_ /\ c = None /\ ~has_imm_ /\ flush = 0 /\ apply = NoApply
    /\ \E n \in current_ : ~IsDeep(n)
    /\ \E n \in Numbers :
           /\ NewFileNumber(n)
           /\ ChangeDir(Create(TableFile(n))) /\ Written(TableFile(n), <<>>)
           /\ c' = [base |-> current_, output |-> n]
           /\ pending_outputs_' = pending_outputs_ \cup {n}
    /\ UNCHANGED <<log_number_, manifest_file_number_, has_descriptor_, memVars, openVars,
                   current_, pinned, flush, apply, bg_error_, historyVars>>

\* The output is complete and synced, and stays in pending_outputs_.
FinishCompaction ==
    /\ c # None /\ flush = 0 /\ apply = NoApply
    /\ data' = [data EXCEPT ![TableFile(c.output)] = <<TableOf(InTables(c.base), TRUE)>>]
    /\ SyncFile(TableFile(c.output))
    /\ StartApply("compaction",
           Edit(log_number_, next_file_number_, last_sequence_, {c.output}, c.base))
    /\ UNCHANGED <<dir, numberVars, memVars, openVars, versionVars, flush, c, bg_error_,
                   historyVars>>

\* The output stays behind.
CompactionFails ==
    /\ c # None /\ flush = 0 /\ apply = NoApply /\ Fault
    /\ c' = None
    /\ pending_outputs_' = pending_outputs_ \ {c.output}
    /\ bg_error_' = TRUE
    /\ UNCHANGED <<diskVars, numberVars, memVars, openVars, current_, pinned, flush, apply,
                   writes, hard>>

\* An iterator takes a reference on the current version, or drops it.
Pin == /\ phase = "up" /\ pinned = {} /\ current_ # {}
       /\ pinned' = current_
       /\ UNCHANGED <<diskVars, numberVars, memVars, openVars, current_, pending_outputs_,
                      bgVars, historyVars>>
Unpin == /\ pinned # {}
         /\ pinned' = {}
         /\ UNCHANGED <<diskVars, numberVars, memVars, openVars, current_, pending_outputs_,
                        bgVars, historyVars>>

-----------------------------------------------------------------------------
(***************************************************************************)
(* DB::Open.                                                               *)
(***************************************************************************)
\* NewDB writes MANIFEST 1, without a sync, and makes CURRENT name it.
NewDB ==
    /\ phase = "down" /\ dir.current = 0
    /\ Written(Manifest(1), <<Edit(0, 2, 0, {}, {})>>)
    /\ LET created == Create(Manifest(1))
       IN  /\ dir' = [created EXCEPT !.current = 1]
           /\ older' = older \cup {dir, created}
    /\ UNCHANGED <<numberVars, memVars, openVars, versionVars, bgVars, historyVars>>

\* The MANIFEST can be read and every table is there.  Recover looks for the
\* numbers of the tables among the files of all types.
Readable(records) ==
    /\ ReplayedNext(records) # 0
    /\ \A n \in ReplayedTables(records) : \E f \in dir.files : f[2] = n

\* VersionSet::Recover, and the choice of the logs to read.  With reuse_logs,
\* the MANIFEST is reused too unless it has grown too big.
OpenManifest ==
    /\ phase = "down" /\ dir.current # 0
    /\ LET records == data[Manifest(dir.current)]
       IN  IF ~Readable(records)
           THEN /\ phase' = "broken"
                /\ UNCHANGED <<numberVars, memVars, reuse, todo, current_, apply>>
           ELSE \E r \in BOOLEAN, keep \in BOOLEAN :
                /\ ReplayedNext(records) < MaxFile
                /\ r => faults >= ReuseFrom
                /\ keep => r
                /\ phase' = "open" /\ reuse' = r
                /\ todo' = LogsFrom(dir, ReplayedLog(records))
                /\ current_' = ReplayedTables(records)
                /\ log_number_' = ReplayedLog(records)
                /\ has_descriptor_' = keep
                /\ manifest_file_number_' =
                       IF keep THEN dir.current ELSE ReplayedNext(records)
                /\ next_file_number_' = ReplayedNext(records) + 1
                /\ last_sequence_' = ReplayedLast(records)
                /\ apply' = NoApply
                /\ UNCHANGED <<mem_, imm_, has_imm_, logfile_number_>>
    /\ UNCHANGED <<diskVars, pinned, pending_outputs_, flush, c, bg_error_, historyVars>>

MaxSequence(entries) == Max({last_sequence_} \cup {e.seq : e \in entries})

\* The logs are read in the order of their numbers.
AnyLog(n)  == n \in todo
NextLog(n) == n \in todo /\ \A m \in todo : n <= m

\* RecoverLogFile, of the last log, which goes on to be written.
ReuseLog ==
    /\ phase = "open" /\ reuse
    /\ \E n \in todo :
           /\ todo = {n}
           /\ mem_' = InLog(n)
           /\ last_sequence_' = MaxSequence(InLog(n))
           /\ logfile_number_' = n
           /\ next_file_number_' = Max({next_file_number_, n + 1})
    /\ todo' = {}
    /\ UNCHANGED <<diskVars, imm_, has_imm_, log_number_, manifest_file_number_,
                   has_descriptor_, phase, reuse, versionVars, bgVars, historyVars>>

\* RecoverLogFile, of a log that becomes a table; with reuse_logs too, if it
\* is not the last one or has outgrown the write buffer.
RecoverLogFile ==
    /\ phase = "open"
    /\ \E n \in Numbers :
           /\ NextLog(n)
           /\ todo' = todo \ {n}
           /\ last_sequence_' = MaxSequence(InLog(n))
           /\ IF InLog(n) = {}
              THEN /\ next_file_number_' = Max({next_file_number_, n + 1})
                   /\ UNCHANGED <<diskVars, apply>>
              ELSE LET t == next_file_number_
                   IN  /\ t < MaxFile
                       /\ next_file_number_' = Max({t, n}) + 1
                       /\ dir' = Create(TableFile(t))
                       /\ data' = [data EXCEPT ![TableFile(t)] = <<TableOf(InLog(n), FALSE)>>]
                       /\ SyncFile(TableFile(t))
                       /\ apply' = [apply EXCEPT !.edit.add = @ \cup {t}]
    /\ UNCHANGED <<mem_, imm_, has_imm_, logfile_number_, log_number_,
                   manifest_file_number_, has_descriptor_, phase, reuse, versionVars,
                   flush, c, bg_error_, historyVars>>

\* A call before LogAndApply fails, and the open with it.
OpenFails ==
    /\ phase = "open" /\ apply.pc = "none" /\ Fault
    /\ Forget
    /\ UNCHANGED <<diskVars, writes, hard>>

\* All logs are read: a new log unless one is reused.
NewLog ==
    /\ phase = "open" /\ todo = {} /\ logfile_number_ = 0
    /\ \E n \in Numbers :
           /\ NewFileNumber(n)
           /\ ChangeDir(Create(Log(n))) /\ Written(Log(n), <<>>)
           /\ logfile_number_' = n
    /\ UNCHANGED <<mem_, imm_, has_imm_, last_sequence_, log_number_, manifest_file_number_,
                   has_descriptor_, openVars, versionVars, bgVars, historyVars>>

Opened == phase = "open" /\ todo = {} /\ logfile_number_ # 0 /\ apply.pc = "none"

\* save_manifest: the MANIFEST is new, or logs have become tables.
SaveManifest == ~has_descriptor_ \/ apply.edit.add # {}

OpenApply ==
    /\ Opened /\ SaveManifest
    /\ StartApply("open",
           Edit(logfile_number_, next_file_number_, last_sequence_, apply.edit.add, {}))
    /\ UNCHANGED <<diskVars, numberVars, memVars, openVars, versionVars, flush, c, bg_error_,
                   historyVars>>

OpenWithoutApply ==
    /\ Opened /\ ~SaveManifest
    /\ phase' = "up"
    /\ UNCHANGED <<data, synced, numberVars, memVars, reuse, todo, versionVars, bgVars,
                   historyVars>>
    /\ DeleteObsoleteFiles

-----------------------------------------------------------------------------
(***************************************************************************)
(* Crashes.                                                                *)
(***************************************************************************)
ProcessCrash ==
    /\ phase \notin {"down", "broken"} /\ Fault
    /\ Forget
    /\ UNCHANGED <<diskVars, writes, hard>>

FirstManifestOnDisk(d) == d.current = 1 => synced[Manifest(1)] > 0

\* Any record that is not synced may be lost, with all that follow it; the last
\* changes of the directory may be undone.
MachineCrash ==
    /\ phase # "broken" /\ Fault
    /\ dir' \in {d \in older \cup {dir} : CrashWhenNew \/ FirstManifestOnDisk(d)}
    /\ older' = {}
    /\ LET unsynced == {f \in dir'.files : synced[f] < Len(data[f])}
           longest == Max({Len(data[f]) : f \in Files})
       IN  \E left \in [unsynced -> 0..longest] :
           /\ \A f \in unsynced : left[f] \in synced[f]..Len(data[f])
           /\ data' = [f \in Files |-> IF f \in unsynced THEN SubSeq(data[f], 1, left[f])
                                       ELSE IF f \in dir'.files THEN data[f] ELSE <<>>]
    /\ synced' = [f \in Files |-> Len(data'[f])]
    /\ Forget
    /\ UNCHANGED <<writes, hard>>

LogAndApply ==
    \/ ApplyAppend \/ ApplySync \/ SetCurrentFile
    \/ apply.pc = "install" /\ (InstallOpen \/ InstallFlush \/ InstallCompaction)
    \/ ApplyFailsOpen \/ ApplyFailsBackground

Running ==
    \/ \E sync \in BOOLEAN : Put(sync)
    \/ SwitchMemTable \/ StartFlush \/ FinishFlush \/ FlushFails
    \/ StartCompaction \/ FinishCompaction \/ CompactionFails
    \/ Pin \/ Unpin

Opening ==
    \/ NewDB \/ OpenManifest \/ ReuseLog \/ RecoverLogFile \/ OpenFails
    \/ NewLog \/ OpenApply \/ OpenWithoutApply

Next == LogAndApply \/ Running \/ Opening \/ ProcessCrash \/ MachineCrash

Spec == Init /\ [][Next]_vars

-----------------------------------------------------------------------------
(***************************************************************************)
(* Properties.                                                             *)
(***************************************************************************)
Entry == [seq : 1..MaxWrites, id : 1..MaxWrites]
EditType == [log : Nat, next : Nat, last : Nat, add : SUBSET Numbers, del : SUBSET Numbers]

\* Every field has its type.
TypeOK ==
    /\ dir \in [files : SUBSET Files, current : Nat]
    /\ \A d \in older : d.files \subseteq Files /\ d.current \in Nat
    /\ \A f \in Files : synced[f] \in 0..Len(data[f])
    /\ phase \in {"down", "open", "up", "broken"} /\ reuse \in BOOLEAN
    /\ todo \subseteq Numbers
    /\ mem_ \subseteq Entry /\ imm_ \subseteq Entry /\ has_imm_ \in BOOLEAN
    /\ {logfile_number_, log_number_, manifest_file_number_, next_file_number_} \subseteq Nat
    /\ has_descriptor_ \in BOOLEAN
    /\ last_sequence_ \in 0..MaxWrites /\ writes \in 0..MaxWrites
    /\ current_ \subseteq Numbers /\ pinned \subseteq Numbers
    /\ pending_outputs_ \subseteq Numbers
    /\ flush \in Nat
    /\ c = None \/ c \in [base : SUBSET Numbers, output : Numbers]
    /\ apply.edit \in EditType
    /\ bg_error_ \in BOOLEAN
    /\ hard \subseteq Entry /\ faults \in 0..MaxFaults

\* DB::Open always finds a MANIFEST that it can read, and all its tables.
Openable == phase # "broken"

\* DeleteObsoleteFiles leaves every table that the current version, a reader or
\* the compaction under way may read, and what is in it is complete.
TablesOnDisk ==
    phase = "up" =>
        \A n \in current_ \cup pinned \cup (IF c = None THEN {} ELSE c.base) :
            TableFile(n) \in dir.files /\ Contents(n) # {}

Older(S, T) == \A e \in S, d \in T : e.seq < d.seq

\* Memtables are newer than tables, and tables of level 0 newer than deep ones.  In
\* level 0, a table of a greater number is newer, or repeats a part of the other:
\* a flush may be done again, and a log read again that became a table before.
LevelZero == {n \in current_ : ~IsDeep(n)}
TablesInOrder ==
    phase = "up" =>
        /\ Older(InTables(current_), imm_ \cup mem_) /\ Older(imm_, mem_)
        /\ \A n \in current_ \ LevelZero, m \in LevelZero : Older(Contents(n), Contents(m))
        /\ \A n, m \in LevelZero :
               n < m => Older(Contents(n), Contents(m)) \/ Contents(m) \subseteq Contents(n)

\* "Process them in order from newest to oldest": of two tables of level 0, what
\* Version::Get finds in the one it looks into first, that of the greater number,
\* is newer than what else the other one holds.
NewestFirst ==
    phase = "up" =>
        \A n, m \in LevelZero : n < m => Older(Contents(n) \ Contents(m), Contents(m))

\* A crash of the process loses nothing, a crash of the machine nothing that
\* was synced, and opening the database, interrupted or not, neither loses nor
\* invents anything: whatever happens, the disk holds what readers see.
DS == INSTANCE DurableStore WITH
          Writes <- Entry,
          up <- phase = "up",
          store <- IF phase = "up" THEN Store ELSE Recoverable,
          hard <- hard
RecoversWhatWasWritten == DS!Spec
=============================================================================
