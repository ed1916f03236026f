---------------------------- MODULE RecoveryStore ----------------------------
(***************************************************************************)
(* Recovery implements DurableStore, for any number of files, writes and   *)
(* faults: what a crash leaves, DB::Open finds, and nothing else.  And it  *)
(* is in order: a newer table has newer entries, or some of an older one.  *)
(***************************************************************************)
EXTENDS RecoveryProofs

(***************************************************************************)
(* The entries in files.                                                   *)
(***************************************************************************)
TableEntries(n, D) == IF D[TableFile(n)] = <<>> THEN {} ELSE D[TableFile(n)][1].entries
EntriesOf(T, D) == UNION {TableEntries(n, D) : n \in T}
LogEntries(n, D) == {D[Log(n)][i] : i \in DOMAIN D[Log(n)]}
SyncedLog(n, D, S) == {D[Log(n)][i] : i \in 1..S[Log(n)]}
LogsIn(d) == Of("log", d.files)

\* What opening d finds if its MANIFEST ends with record k: at most, and at least.
Most(k, d, D) ==
    LET R == D[Manifest(d.current)]
    IN  EntriesOf(TablesAt(R, k), D) \cup UNION {LogEntries(n, D) : n \in LogsFrom(d, R[k].log)}
Least(k, d, D, S) ==
    LET R == D[Manifest(d.current)]
    IN  EntriesOf(TablesAt(R, k), D) \cup UNION {SyncedLog(n, D, S) : n \in LogsFrom(d, R[k].log)}

\* Record k says from which log on to read.
LogAt(k, R) ==
    /\ R[k].log <= R[k].next
    /\ R[k].log # 0 \/ \A i \in 1..k : R[i].log = 0

\* A directory that yields all of h, and nothing that is not in W.
Keeps(d, D, S, W, h) ==
    IF d.current = 0 THEN LogsIn(d) = {} /\ h = {}
    ELSE LET R == D[Manifest(d.current)]
         IN  \A k \in 1..Len(R) : S[Manifest(d.current)] <= k =>
                 h \subseteq Least(k, d, D, S) /\ Most(k, d, D) \subseteq W /\ LogAt(k, R)
AllKeep(ds, D, S, W, h) == \A d \in ds : Keeps(d, D, S, W, h)

Held == IF phase = "up" THEN Store ELSE Recoverable
Promise == MayCrash => AllKeep(Dirs, data, synced, Held, hard)

\* Logs have numbers that have been used.
LogsDown ==
    MayCrash /\ dir.current # 0 =>
        \A d \in Dirs : \A n \in LogsIn(d) : n < Here[Len(Here)].next \/ n \in LogsIn(dir)
LogBelow(n) ==
    IF logfile_number_ = 0 THEN n < next_file_number_ \/ n \in todo ELSE n <= logfile_number_
LogsBelow ==
    Runs =>
        /\ logfile_number_ < next_file_number_
        /\ phase = "open" => \A n \in LogsIn(dir) : LogBelow(n)
        /\ MayCrash => \A d \in Dirs : \A n \in LogsIn(d) : LogBelow(n)
NextInv ==
    MayCrash /\ Runs =>
        /\ Here[Len(Here)].next <= next_file_number_
        /\ apply.pc # "none" => /\ Here[Len(Here)].next <= apply.edit.next
                                /\ apply.edit.next <= next_file_number_
                                /\ apply.edit.log # 0 /\ apply.edit.log <= apply.edit.next

TablesMade ==
    /\ ~has_imm_ => imm_ = {}
    /\ phase # "up" => imm_ = {} /\ ~has_imm_ /\ ~bg_error_
    /\ phase = "down" => mem_ = {}
    /\ c # None => c.base \subseteq current_
    /\ apply.owner = "flush" => has_imm_ /\ Contents(flush) = imm_ /\ apply.edit.log = logfile_number_
    /\ apply.owner = "compaction" =>
           Contents(c.output) = InTables(c.base) /\ apply.edit.log = log_number_

\* DB::Open has in tables and in mem_ what it has read, and in todo what is left.
Committed == has_descriptor_ /\ apply.pc \notin {"none", "append"}
OpenFinds ==
    phase = "open" =>
        /\ dir.current # 0
        /\ IF has_descriptor_ THEN dir.current = manifest_file_number_
           ELSE dir.current < manifest_file_number_
        /\ Recoverable = mem_ \cup InTables(current_ \cup apply.edit.add)
                              \cup UNION {InLog(n) : n \in todo}
        /\ todo \subseteq LogsIn(dir)
        /\ \A m \in LogsIn(dir) \ todo, n \in todo : m < n
        /\ IF logfile_number_ = 0 THEN mem_ = {}
           ELSE logfile_number_ \in LogsIn(dir) /\ mem_ = InLog(logfile_number_)
        /\ mem_ # {} => reuse
        /\ apply.pc # "none" => apply.edit.log = logfile_number_ /\ apply.edit.next = next_file_number_
        /\ ReplayedTables(Here) = IF Committed THEN current_ \cup apply.edit.add ELSE current_
        /\ Committed => Here[Len(Here)] = apply.edit
        /\ ~has_descriptor_ /\ apply.pc \in {"sync", "current"} =>
               Mine = <<Edit(0, 0, 0, current_, {}), apply.edit>>

\* An open database that may crash: its logs hold what is in its memtables, and
\* each directory and record of the MANIFEST what is in the tables.
UpMem ==
    /\ logfile_number_ \in LogsIn(dir) /\ InLog(logfile_number_) = mem_
    /\ IF has_imm_
       THEN /\ log_number_ < logfile_number_ /\ log_number_ \in LogsIn(dir)
            /\ InLog(log_number_) = imm_
       ELSE log_number_ = logfile_number_
UpDir(d) ==
    /\ LogsFrom(d, log_number_) \subseteq {log_number_, logfile_number_}
    /\ hard \subseteq InTables(current_)
                      \cup UNION {SyncedLog(n, data, synced) : n \in LogsFrom(d, log_number_)}
Top == Len(Here)
UpTop ==
    /\ InTables(current_) \subseteq InTables(TablesAt(Here, Top))
    /\ has_imm_ => Here[Top].log <= log_number_ \/ imm_ \subseteq InTables(TablesAt(Here, Top))
    /\ \A k \in 1..Top :
           synced[Manifest(manifest_file_number_)] <= k => Here[k].log <= logfile_number_
    /\ apply.pc \in {"sync", "install"} => Here[Top].log = apply.edit.log
UpLogs ==
    phase = "up" /\ MayCrash =>
        UpMem /\ (\A d \in Dirs : d.current = manifest_file_number_ => UpDir(d)) /\ UpTop

HeldInv ==
    /\ Promise /\ LogsDown /\ LogsBelow /\ NextInv /\ TablesMade /\ OpenFinds /\ UpLogs
StoreInv == DiskInv /\ LogsRead /\ HeldInv

\* A step that changes nothing of what is held.
Stutters == (phase' = "up" <=> phase = "up") /\ Held' = Held /\ hard' = hard

-----------------------------------------------------------------------------
(***************************************************************************)
(* Entries of files that a step leaves alone.                              *)
(***************************************************************************)
LEMMA InTablesAre ==
    /\ \A T : InTables(T) = EntriesOf(T, data)
    /\ \A n : InLog(n) = LogEntries(n, data)
    /\ \A n : Contents(n) = TableEntries(n, data)
BY DEF InTables, Contents, EntriesOf, TableEntries, InLog, LogEntries

LEMMA InTablesNext ==
    /\ \A T : InTables(T)' = EntriesOf(T, data')
    /\ \A n : InLog(n)' = LogEntries(n, data')
    /\ \A n : Contents(n)' = TableEntries(n, data')
BY DEF InTables, Contents, EntriesOf, TableEntries, InLog, LogEntries

LEMMA EntriesKept ==
    ASSUME NEW D, NEW E, NEW T, \A n \in T : E[TableFile(n)] = D[TableFile(n)]
    PROVE  EntriesOf(T, E) = EntriesOf(T, D)
BY DEF EntriesOf, TableEntries

LEMMA EntriesOfUnion ==
    ASSUME NEW D, NEW T, NEW U
    PROVE  EntriesOf(T \cup U, D) = EntriesOf(T, D) \cup EntriesOf(U, D)
BY DEF EntriesOf

LEMMA EntriesOfSubset ==
    ASSUME NEW D, NEW U, NEW T \in SUBSET U
    PROVE  EntriesOf(T, D) \subseteq EntriesOf(U, D)
BY DEF EntriesOf

LEMMA EntriesOfOne ==
    ASSUME NEW D, NEW n
    PROVE  EntriesOf({n}, D) = TableEntries(n, D)
BY DEF EntriesOf

\* A directory, or one with more files, keeps what it promises if logs only gain
\* what is stored.
LEMMA KeepsOn ==
    ASSUME NEW d, NEW e, NEW D, NEW S, NEW E, NEW T, NEW W, NEW X, NEW h,
           Keeps(d, D, S, W, h), e.current = d.current, W \subseteq X,
           d.current = 0 => LogsIn(e) = {},
           d.current # 0 =>
               /\ E[Manifest(d.current)] = D[Manifest(d.current)]
               /\ S[Manifest(d.current)] \in Nat /\ T[Manifest(d.current)] \in Nat
               /\ S[Manifest(d.current)] <= T[Manifest(d.current)]
               /\ Len(D[Manifest(d.current)]) \in Nat
               /\ DOMAIN D[Manifest(d.current)] = 1..Len(D[Manifest(d.current)]),
           \A n \in NamedIn(d, D) : E[TableFile(n)] = D[TableFile(n)],
           LogsIn(d) \subseteq LogsIn(e),
           \A n \in LogsIn(d) : SyncedLog(n, D, S) \subseteq SyncedLog(n, E, T),
           \A n \in LogsIn(e) :
               \/ LogEntries(n, E) \subseteq X
               \/ n \in LogsIn(d) /\ LogEntries(n, E) \subseteq LogEntries(n, D) \cup X
    PROVE  Keeps(e, E, T, X, h)
<1>1. CASE d.current = 0
  BY <1>1 DEF Keeps
<1>2. CASE d.current # 0
  <2> DEFINE R == D[Manifest(d.current)]
  <2>1. SUFFICES ASSUME NEW k \in 1..Len(R), T[Manifest(d.current)] <= k
                 PROVE  h \subseteq Least(k, e, E, T) /\ Most(k, e, E) \subseteq X /\ LogAt(k, R)
    BY <1>2 DEF Keeps
  <2>2. h \subseteq Least(k, d, D, S) /\ Most(k, d, D) \subseteq W /\ LogAt(k, R)
    BY <1>2, <2>1 DEF Keeps
  <2>3. EntriesOf(TablesAt(R, k), E) = EntriesOf(TablesAt(R, k), D)
    BY <1>2, TablesNamed, EntriesKept
  <2>4. LogsFrom(d, R[k].log) \subseteq LogsFrom(e, R[k].log)
    BY DEF LogsFrom, LogsIn
  <2>5. Least(k, d, D, S) \subseteq Least(k, e, E, T)
    BY <1>2, <2>3, <2>4 DEF Least, LogsFrom, LogsIn
  <2>6. ASSUME NEW n \in LogsFrom(e, R[k].log)
        PROVE  LogEntries(n, E) \subseteq X
    <3>1. n \in LogsIn(e) /\ (n \in LogsIn(d) => n \in LogsFrom(d, R[k].log))
      BY DEF LogsFrom, LogsIn
    <3>2. n \in LogsIn(d) => LogEntries(n, D) \subseteq X
      BY <2>2, <3>1 DEF Most
    <3> QED BY <3>1, <3>2
  <2>7. EntriesOf(TablesAt(R, k), D) \subseteq X
    BY <2>2 DEF Most
  <2>8. Most(k, e, E) \subseteq X
    BY <1>2, <2>3, <2>6, <2>7 DEF Most
  <2> QED BY <2>2, <2>5, <2>8
<1> QED BY <1>1, <1>2

\* The last record with a log says from which log on to read.
LEMMA LogIsLast ==
    ASSUME NEW R, Len(R) \in Nat, DOMAIN R = 1..Len(R), Len(R) > 0,
           R[Len(R)].log # 0 \/ \A i \in 1..Len(R) : R[i].log = 0
    PROVE  ReplayedLog(R) = R[Len(R)].log
<1> DEFINE having == {i \in DOMAIN R : R[i].log # 0}
<1>1. ReplayedLog(R) = IF having = {} THEN 0 ELSE R[Max(having)].log
  BY DEF ReplayedLog, LastOf
<1>2. CASE R[Len(R)].log # 0
  <2>1. having \subseteq 0..Len(R) /\ Len(R) \in having
    BY <1>2
  <2> HIDE DEF having
  <2>2. Max(having) \in having /\ Max(having) >= Len(R)
    BY <2>1, RangeMax
  <2>3. Max(having) \in 0..Len(R)
    BY <2>1, <2>2
  <2>4. Max(having) = Len(R)
    BY <2>2, <2>3
  <2> QED BY <1>1, <2>1, <2>4
<1>3. CASE R[Len(R)].log = 0
  <2>1. having = {}
    BY <1>3
  <2> QED BY <1>1, <1>3, <2>1
<1> QED BY <1>2, <1>3

\* What DB::Open finds, where the directory keeps its promise.
LEMMA RecoverableIs ==
    ASSUME TypeInv, dir.current # 0, GoodDir(dir, data, synced),
           NEW W, NEW h, Keeps(dir, data, synced, W, h)
    PROVE  /\ Recoverable = Most(Len(Here), dir, data)
           /\ Len(Here) \in Nat /\ Len(Here) > 0 /\ synced[Manifest(dir.current)] <= Len(Here)
           /\ LogAt(Len(Here), Here) /\ ReplayedLog(Here) = Here[Len(Here)].log
           /\ h \subseteq Recoverable /\ Recoverable \subseteq W
<1>1. /\ Len(Here) \in Nat /\ DOMAIN Here = 1..Len(Here)
      /\ synced[Manifest(dir.current)] <= Len(Here)
  BY ManifestOf, DirsAre DEF Here
<1>2. Len(Here) > 0
  BY DEF GoodDir, GoodManifest, Here
<1>3. Len(Here) \in 1..Len(Here)
  BY <1>1, <1>2
<1>4. /\ h \subseteq Least(Len(Here), dir, data, synced) /\ Most(Len(Here), dir, data) \subseteq W
      /\ LogAt(Len(Here), Here)
  BY <1>1, <1>3 DEF Keeps, Here
<1>5. ReplayedLog(Here) = Here[Len(Here)].log
  BY <1>1, <1>2, <1>4, LogIsLast DEF LogAt
<1>6. ReplayedTables(Here) = TablesAt(Here, Len(Here))
  BY <1>1, TablesAtFull
<1>7. Recoverable = InTables(ReplayedTables(Here))
                    \cup UNION {InLog(n) : n \in LogsFrom(dir, ReplayedLog(Here))}
  BY DEF Recoverable, Here
<1>8. Recoverable = Most(Len(Here), dir, data)
  BY <1>5, <1>6, <1>7, InTablesAre DEF Most, Here
<1>9. Least(Len(Here), dir, data, synced) \subseteq Most(Len(Here), dir, data)
  <2>1. \A n \in LogsFrom(dir, Here[Len(Here)].log) : SyncedLog(n, data, synced) \subseteq LogEntries(n, data)
    <3> SUFFICES ASSUME NEW n \in LogsFrom(dir, Here[Len(Here)].log)
                 PROVE  SyncedLog(n, data, synced) \subseteq LogEntries(n, data)
      OBVIOUS
    <3>1. Log(n) \in Files
      BY DEF LogsFrom, Of, TypeInv, DirsOK, DirType, Files, Log
    <3>2. /\ data[Log(n)] \in Seq(Records(Log(n), writes)) /\ synced[Log(n)] \in Nat
          /\ synced[Log(n)] <= Len(data[Log(n)])
      BY <3>1 DEF TypeInv, DiskType, FilesOK
    <3>3. Len(data[Log(n)]) \in Nat /\ DOMAIN data[Log(n)] = 1..Len(data[Log(n)])
      BY <3>2, LenProperties
    <3>4. 1..synced[Log(n)] \subseteq DOMAIN data[Log(n)]
      BY <3>2, <3>3
    <3> QED BY <3>4 DEF SyncedLog, LogEntries
  <2> QED BY <2>1 DEF Least, Most, Here
<1> QED BY <1>1, <1>2, <1>4, <1>5, <1>8, <1>9

-----------------------------------------------------------------------------
(***************************************************************************)
(* Steps that touch one file, which no directory reads.                    *)
(***************************************************************************)
Just(f) == Only(f) /\ \A g \in dir'.files : g # f => g \in dir.files

\* If it is a log, it is new and empty.
NoLogOf(ds, f) == \A m : f = Log(m) => data'[f] = <<>> /\ \A d \in ds : m \notin LogsIn(d)

LEMMA JustIs ==
    ASSUME TypeInv, NEW f \in Files, NEW x, NEW y,
           data' = [data EXCEPT ![f] = x] \/ data' = data,
           synced' = [synced EXCEPT ![f] = y] \/ synced' = synced,
           dir' \in {dir, Create(f), [dir EXCEPT !.files = @ \ {f}]},
           Dirs' \subseteq Dirs \cup {dir'}
    PROVE  Just(f)
<1>1. Only(f)
  BY OnlyIs
<1>2. \A g \in dir'.files : g # f => g \in dir.files
  BY DEF TypeInv, DirsOK, DirType, Create
<1> QED BY <1>1, <1>2 DEF Just

LEMMA JustNothing ==
    ASSUME TypeInv, UNCHANGED diskVars
    PROVE  Just(Manifest(1)) /\ Dirs' = Dirs
<1>1. Manifest(1) \in Files
  BY NumbersAre, FileIs DEF Numbers
<1>2. dir' = dir /\ older' = older /\ data' = data /\ synced' = synced
  BY DEF diskVars
<1>3. Dirs' = Dirs
  BY <1>2 DEF Dirs
<1> QED BY <1>1, <1>2, <1>3, JustIs

LEMMA LogsAre ==
    ASSUME NEW d \in DirType
    PROVE  LogsIn(d) \subseteq Numbers /\ \A n : n \in LogsIn(d) <=> Log(n) \in d.files
<1>1. d.files \subseteq Files
  BY DEF DirType
<1>2. \A f \in d.files : f = <<f[1], f[2]>> /\ f[2] \in Numbers
  BY <1>1 DEF Files
<1>3. \A n : n \in LogsIn(d) => Log(n) \in d.files
  BY <1>2 DEF LogsIn, Of, Log
<1>4. \A n : Log(n) \in d.files => n \in LogsIn(d)
  <2> SUFFICES ASSUME NEW n, Log(n) \in d.files
               PROVE  n \in LogsIn(d)
    OBVIOUS
  <2>1. Log(n) \in {g \in d.files : g[1] = "log"} /\ Log(n)[2] = n
    BY DEF Log
  <2> QED BY <2>1 DEF LogsIn, Of
<1>5. LogsIn(d) \subseteq Numbers
  BY <1>2 DEF LogsIn, Of
<1> QED BY <1>3, <1>4, <1>5

LEMMA LogsJust ==
    ASSUME TypeInv, TypeInv', NEW f, Just(f)
    PROVE  /\ \A n : Log(n) # f => (n \in LogsIn(dir') <=> n \in LogsIn(dir))
           /\ (\A n : Log(n) # f) => LogsIn(dir') = LogsIn(dir)
           /\ \A e \in Dirs' : e \in Dirs \/ e = dir'
           /\ dir' \in Dirs'
<1>1. dir \in DirType /\ dir' \in DirType
  BY DEF TypeInv, DirsOK
<1>2. \A n : Log(n) # f => (Log(n) \in dir'.files <=> Log(n) \in dir.files)
  <2> SUFFICES ASSUME NEW n, Log(n) # f
               PROVE  Log(n) \in dir'.files <=> Log(n) \in dir.files
    OBVIOUS
  <2>1. dir.files \subseteq Files
    BY <1>1 DEF DirType
  <2> QED BY <2>1 DEF Just, Only
<1>3. \A n : Log(n) # f => (n \in LogsIn(dir') <=> n \in LogsIn(dir))
  BY <1>1, <1>2, LogsAre
<1>4. \A e \in Dirs' : e \in Dirs \/ e = dir'
  BY DEF Just, Only
<1>5. dir' \in Dirs'
  BY DEF Dirs
<1> QED BY <1>3, <1>4, <1>5

LEMMA FilesJust ==
    ASSUME TypeInv, TypeInv', NEW f, Just(f)
    PROVE  /\ \A n \in Numbers : f # TableFile(n) => TableEntries(n, data') = TableEntries(n, data)
           /\ \A n \in Numbers : f # Manifest(n) => data'[Manifest(n)] = data[Manifest(n)]
                                                    /\ synced'[Manifest(n)] = synced[Manifest(n)]
           /\ \A n \in Numbers : f # Log(n) =>
                  /\ LogEntries(n, data') = LogEntries(n, data)
                  /\ SyncedLog(n, data', synced') = SyncedLog(n, data, synced)
BY FileIs DEF Just, Only, TableEntries, LogEntries, SyncedLog

LEMMA PromiseFramed ==
    ASSUME TypeInv, TypeInv', NEW f, Just(f), dir.current # 0,
           \A d \in Dirs : f \notin Uses(d, data), NoLogOf(Dirs, f),
           NEW W, NEW X, W \subseteq X, NEW h, AllKeep(Dirs, data, synced, W, h)
    PROVE  AllKeep(Dirs', data', synced', X, h)
<1>1. ASSUME NEW d \in Dirs, NEW e, e.current = d.current, LogsIn(e) \subseteq Numbers,
             \A n : Log(n) # f => (n \in LogsIn(e) <=> n \in LogsIn(d)),
             LogsIn(d) \subseteq LogsIn(e), d.current = 0 => e = d
      PROVE  Keeps(e, data', synced', X, h)
  <2>1. Keeps(d, data, synced, W, h)
    BY DEF AllKeep
  <2>2. d.current # 0 =>
            /\ data'[Manifest(d.current)] = data[Manifest(d.current)]
            /\ synced[Manifest(d.current)] \in Nat /\ synced'[Manifest(d.current)] \in Nat
            /\ synced[Manifest(d.current)] <= synced'[Manifest(d.current)]
            /\ Len(data[Manifest(d.current)]) \in Nat
            /\ DOMAIN data[Manifest(d.current)] = 1..Len(data[Manifest(d.current)])
    <3> SUFFICES ASSUME d.current # 0
                 PROVE  /\ data'[Manifest(d.current)] = data[Manifest(d.current)]
                        /\ synced'[Manifest(d.current)] = synced[Manifest(d.current)]
      BY ManifestOf
    <3>1. d.current \in Numbers /\ f # Manifest(d.current)
      BY ManifestOf DEF Uses
    <3> QED BY <3>1, FilesJust
  <2>3. \A n \in NamedIn(d, data) : data'[TableFile(n)] = data[TableFile(n)]
    <3> SUFFICES ASSUME NEW n \in NamedIn(d, data)
                 PROVE  data'[TableFile(n)] = data[TableFile(n)]
      OBVIOUS
    <3>1. n \in Numbers /\ d.current # 0
      BY NamedNumbers DEF NamedIn
    <3>2. f # TableFile(n)
      BY <3>1 DEF Uses
    <3> QED BY <3>1, <3>2, FileIs DEF Just, Only
  <2>4. \A n \in LogsIn(d) : n \in Numbers /\ f # Log(n)
    BY <1>1 DEF NoLogOf
  <2>5. \A n \in LogsIn(d) : /\ LogEntries(n, data') = LogEntries(n, data)
                             /\ SyncedLog(n, data', synced') = SyncedLog(n, data, synced)
    BY <2>4, FilesJust
  <2>6. \A n \in LogsIn(e) : LogEntries(n, data') \subseteq X \/ n \in LogsIn(d)
    <3> SUFFICES ASSUME NEW n \in LogsIn(e), n \notin LogsIn(d)
                 PROVE  LogEntries(n, data') \subseteq X
      OBVIOUS
    <3>1. data'[Log(n)] = <<>>
      BY <1>1 DEF NoLogOf
    <3> QED BY <3>1 DEF LogEntries
  <2>7. d.current = 0 => LogsIn(e) = {}
    BY <1>1, <2>1 DEF Keeps
  <2> QED BY <1>1, <2>1, <2>2, <2>3, <2>5, <2>6, <2>7, KeepsOn
<1>2. ASSUME NEW e \in Dirs'
      PROVE  Keeps(e, data', synced', X, h)
  <2>1. CASE e \in Dirs
    <3>1. LogsIn(e) \subseteq Numbers
      BY <2>1, DirsAre, LogsAre
    <3> QED BY <1>1, <2>1, <3>1
  <2>2. CASE e = dir'
    <3>1. dir \in Dirs /\ dir' \in DirType /\ dir'.current = dir.current
      BY DirsAre DEF Just, Only, TypeInv, DirsOK
    <3>2. LogsIn(dir') \subseteq Numbers /\ LogsIn(dir) \subseteq Numbers
      BY <3>1, DirsAre, LogsAre
    <3>3. \A n : Log(n) # f => (n \in LogsIn(dir') <=> n \in LogsIn(dir))
      BY LogsJust
    <3>4. LogsIn(dir) \subseteq LogsIn(dir')
      BY <3>1, <3>3 DEF NoLogOf
    <3> QED BY <1>1, <2>2, <3>1, <3>2, <3>3, <3>4
  <2> QED BY <2>1, <2>2, LogsJust
<1> QED BY <1>2 DEF AllKeep

LEMMA RecoverableFramed ==
    ASSUME TypeInv, TypeInv', NEW f, Just(f), dir.current # 0, f # Manifest(dir.current),
           \A n \in ReplayedTables(Here) : f # TableFile(n), NoLogOf({dir}, f)
    PROVE  Recoverable' = Recoverable /\ Here' = Here
<1>1. /\ dir \in Dirs /\ dir.current \in Numbers /\ dir'.current = dir.current
      /\ Len(Here) \in Nat /\ DOMAIN Here = 1..Len(Here)
  BY DirsAre, ManifestOf DEF Here, Just, Only
<1>2. Here' = Here
  BY <1>1, FilesJust DEF Here
<1>3. ReplayedTables(Here) \subseteq Numbers
  BY <1>1, TablesAtFull, TablesNamed, NamedNumbers DEF Here
<1>4. EntriesOf(ReplayedTables(Here), data') = EntriesOf(ReplayedTables(Here), data)
  BY <1>3, FilesJust DEF EntriesOf
<1> DEFINE l == ReplayedLog(Here)
           Read(d, D) == UNION {LogEntries(n, D) : n \in LogsFrom(d, l)}
<1>5. Recoverable = EntriesOf(ReplayedTables(Here), data) \cup Read(dir, data)
  BY InTablesAre DEF Recoverable, Here
<1>6. Recoverable' = EntriesOf(ReplayedTables(Here'), data')
                     \cup UNION {LogEntries(n, data') : n \in LogsFrom(dir', ReplayedLog(Here'))}
  BY <1>1, InTablesNext DEF Recoverable, Here
<1>7. Read(dir', data') = Read(dir, data)
  <2>1. LogsIn(dir) \subseteq Numbers /\ LogsIn(dir') \subseteq Numbers
    BY LogsAre DEF TypeInv, DirsOK
  <2>2. \A n \in LogsIn(dir) : f # Log(n)
    BY DEF NoLogOf
  <2>3. \A n \in LogsIn(dir) : n \in LogsIn(dir') /\ LogEntries(n, data') = LogEntries(n, data)
    BY <2>1, <2>2, LogsJust, FilesJust
  <2>4. \A n \in LogsIn(dir') : n \in LogsIn(dir) \/ LogEntries(n, data') = {}
    <3> SUFFICES ASSUME NEW n \in LogsIn(dir'), n \notin LogsIn(dir)
                 PROVE  LogEntries(n, data') = {}
      OBVIOUS
    <3>1. f = Log(n)
      BY LogsJust
    <3>2. data'[Log(n)] = <<>>
      BY <3>1 DEF NoLogOf
    <3> QED BY <3>2 DEF LogEntries
  <2>5. /\ \A n : n \in LogsFrom(dir, l) <=> n \in LogsIn(dir) /\ n >= l
        /\ \A n : n \in LogsFrom(dir', l) <=> n \in LogsIn(dir') /\ n >= l
    BY DEF LogsFrom, LogsIn
  <2>6. Read(dir, data) \subseteq Read(dir', data')
    BY <2>3, <2>5
  <2>7. Read(dir', data') \subseteq Read(dir, data)
    BY <2>3, <2>4, <2>5
  <2> QED BY <2>6, <2>7
<1> QED BY <1>2, <1>4, <1>5, <1>6, <1>7

LEMMA StoreFramed ==
    ASSUME TypeInv, TypeInv', NEW f, Just(f), \A n \in current_ : f # TableFile(n),
           UNCHANGED <<mem_, imm_, current_>>
    PROVE  Store' = Store /\ InTables(current_)' = InTables(current_)
<1>1. current_ \subseteq Numbers
  BY DEF TypeInv, VersionType
<1>2. EntriesOf(current_, data') = EntriesOf(current_, data)
  BY <1>1, FilesJust DEF EntriesOf
<1>3. InTables(current_)' = EntriesOf(current_', data')
  BY DEF InTables, Contents, EntriesOf, TableEntries
<1>4. InTables(current_)' = InTables(current_)
  BY <1>2, <1>3, InTablesAre
<1> QED BY <1>4 DEF Store

LEMMA LogsDownFramed ==
    ASSUME TypeInv, TypeInv', LogsDown, dir.current # 0, MayCrash' => MayCrash,
           Dirs' \subseteq Dirs \cup {dir'}, LogsIn(dir) \subseteq LogsIn(dir'),
           MayCrash => Here[Len(Here)].next <= Here'[Len(Here')].next /\ Here[Len(Here)].next \in Nat
                       /\ Here'[Len(Here')].next \in Nat
    PROVE  LogsDown'
<1> SUFFICES ASSUME MayCrash, dir'.current # 0, NEW e \in Dirs', NEW n \in LogsIn(e)
             PROVE  n < Here'[Len(Here')].next \/ n \in LogsIn(dir')
  BY DEF LogsDown
<1>1. CASE e = dir'
  BY <1>1
<1>2. CASE e \in Dirs
  <2>1. n \in Nat
    BY <1>2, DirsAre, LogsAre, NumbersAre
  <2>2. n < Here[Len(Here)].next \/ n \in LogsIn(dir)
    BY <1>2 DEF LogsDown
  <2> QED BY <2>1, <2>2
<1> QED BY <1>1, <1>2

LEMMA LogsBelowFramed ==
    ASSUME TypeInv, TypeInv', LogsBelow, Runs, phase' \in {phase, "down"}, MayCrash' => MayCrash,
           Dirs' \subseteq Dirs \cup {dir'}, LogsIn(dir') \subseteq LogsIn(dir),
           phase' = phase => /\ UNCHANGED <<logfile_number_, todo>>
                             /\ next_file_number_ <= next_file_number_'
    PROVE  LogsBelow'
<1> SUFFICES ASSUME phase' = phase
             PROVE  LogsBelow'
  BY DEF LogsBelow, Runs
<1>1. /\ logfile_number_ \in Nat /\ next_file_number_ \in Nat /\ next_file_number_' \in Nat
  BY NumbersAre DEF TypeInv, NumberType
<1>2. \A n \in Numbers : LogBelow(n) => LogBelow(n)'
  BY <1>1, NumbersAre DEF LogBelow
<1>3. \A d \in Dirs \cup {dir'} : LogsIn(d) \subseteq Numbers
  BY DirsAre, LogsAre DEF TypeInv, DirsOK
<1>4. ASSUME phase = "open", NEW n \in LogsIn(dir')
      PROVE  LogBelow(n)'
  BY <1>2, <1>3, <1>4 DEF LogsBelow, Runs
<1>5. ASSUME MayCrash, NEW d \in Dirs', NEW n \in LogsIn(d)
      PROVE  LogBelow(n)'
  <2>1. PICK e \in Dirs : n \in LogsIn(e)
    BY <1>5 DEF Dirs
  <2>2. n \in Numbers /\ LogBelow(n)
    BY <1>3, <1>5, <2>1 DEF LogsBelow
  <2> QED BY <1>2, <2>2
<1> QED BY <1>1, <1>4, <1>5 DEF LogsBelow, Runs

-----------------------------------------------------------------------------
(***************************************************************************)
(* An open database.                                                       *)
(***************************************************************************)
\* CURRENT names the MANIFEST of the process.
LEMMA UpIs ==
    ASSUME DiskInv, phase = "up", MayCrash
    PROVE  /\ Runs /\ dir \in Dirs /\ dir.current # 0 /\ dir.current = manifest_file_number_
           /\ has_descriptor_ /\ Here = Mine /\ dir.current \in Numbers
           /\ Top \in Nat /\ Top > 0 /\ DOMAIN Here = 1..Top /\ Here \in Seq(EditsTo(writes))
           /\ synced[Manifest(dir.current)] \in Nat /\ synced[Manifest(dir.current)] <= Top
           /\ TablesAt(Here, Top) \subseteq NamedIn(dir, data)
           /\ NamedIn(dir, data) \subseteq Numbers
           /\ \A k \in 1..Top : Here[k].log \in Nat /\ Here[k].next \in Nat
<1>1. Runs /\ dir \in Dirs /\ has_descriptor_ /\ dir.current = manifest_file_number_
  BY DirsAre DEF DiskInv, Runs, Descriptor
<1>2. dir.current # 0 /\ TypeInv
  BY <1>1 DEF DiskInv, TypeInv, PhaseType
<1>3. /\ dir.current \in Numbers /\ Here \in Seq(EditsTo(writes))
      /\ synced[Manifest(dir.current)] \in Nat
      /\ synced[Manifest(dir.current)] <= Len(Here) /\ Len(Here) \in Nat
      /\ DOMAIN Here = 1..Len(Here)
  BY <1>1, <1>2, ManifestOf DEF Here
<1>4. Len(Here) > 0
  BY <1>1, <1>2 DEF DiskInv, DirsGood, AllGood, GoodDir, GoodManifest, Here
<1>5. TablesAt(Here, Len(Here)) \subseteq NamedIn(dir, data) /\ NamedIn(dir, data) \subseteq Numbers
  BY <1>1, <1>2, <1>3, TablesNamed, NamedNumbers DEF Here
<1>6. \A k \in 1..Len(Here) : Here[k] \in EditsTo(writes)
  BY <1>3, ElementOfSeq
<1>7. \A k \in 1..Len(Here) : Here[k].log \in Nat /\ Here[k].next \in Nat
  BY <1>6 DEF EditsTo
<1> QED BY <1>1, <1>2, <1>3, <1>4, <1>5, <1>7 DEF Top, Here, Mine

LEMMA UpFramed ==
    ASSUME StoreInv, TypeInv', phase = "up", phase' = "up", faults <= faults',
           NEW f, Just(f), \A n : f # Log(n),
           MayCrash => \A d \in Dirs : f \notin Uses(d, data), \A n \in current_ : f # TableFile(n),
           UNCHANGED <<mem_, imm_, has_imm_, logfile_number_, log_number_,
                       manifest_file_number_, current_, hard, todo>>,
           next_file_number_ <= next_file_number_',
           apply'.pc \in {"sync", "install"} => apply' = apply
    PROVE  /\ Promise' /\ LogsDown' /\ LogsBelow' /\ OpenFinds' /\ UpLogs' /\ Store' = Store
           /\ MayCrash' => MayCrash /\ Here' = Here
<1>1. TypeInv /\ DiskInv /\ (MayCrash' => MayCrash) /\ Runs
  BY MayCrashBefore DEF StoreInv, DiskInv, Runs
<1>2. /\ LogsIn(dir') = LogsIn(dir) /\ dir'.current = dir.current
      /\ \A e \in Dirs' : e \in Dirs \/ e = dir'
  BY <1>1, LogsJust DEF Just, Only
<1>3. Store' = Store /\ InTables(current_)' = InTables(current_)
  BY <1>1, StoreFramed
<1>4. LogsBelow' /\ OpenFinds'
  <2>1. LogsBelow /\ Dirs' \subseteq Dirs \cup {dir'}
    BY <1>2 DEF StoreInv, HeldInv
  <2> QED BY <1>1, <1>2, <2>1, LogsBelowFramed DEF OpenFinds
<1>5. CASE ~MayCrash
  BY <1>1, <1>3, <1>4, <1>5 DEF Promise, LogsDown, UpLogs
<1>6. CASE MayCrash
  <2>1. /\ dir \in Dirs /\ dir.current # 0 /\ dir.current = manifest_file_number_
        /\ dir.current \in Numbers /\ Top \in Nat /\ Top > 0
        /\ TablesAt(Here, Top) \subseteq NamedIn(dir, data)
        /\ NamedIn(dir, data) \subseteq Numbers
    BY <1>1, <1>6, UpIs
  <2>2. f # Manifest(dir.current) /\ \A n \in NamedIn(dir, data) : f # TableFile(n)
    BY <1>6, <2>1 DEF Uses
  <2>3. /\ Here' = Here
        /\ synced'[Manifest(manifest_file_number_)] = synced[Manifest(manifest_file_number_)]
    BY <1>1, <1>2, <2>1, <2>2, FilesJust DEF Here
  <2>4. NoLogOf(Dirs, f)
    BY DEF NoLogOf
  <2>5. Promise'
    <3>1. PICK W : W = Held
      OBVIOUS
    <3>2. PICK h : h = hard
      OBVIOUS
    <3>3. AllKeep(Dirs, data, synced, W, h)
      BY <1>6, <3>1, <3>2 DEF StoreInv, HeldInv, Promise
    <3>4. Held' = W /\ hard' = h
      BY <1>3, <3>1, <3>2 DEF Held
    <3>5. AllKeep(Dirs', data', synced', W, h)
      BY <1>1, <1>6, <2>1, <2>4, <3>3, PromiseFramed
    <3> QED BY <3>4, <3>5 DEF Promise
  <2>6. LogsDown'
    <3>1. Here[Top].next \in Nat
      BY <1>1, <1>6, UpIs
    <3>2. LogsDown /\ Dirs' \subseteq Dirs \cup {dir'}
      BY <1>2 DEF StoreInv, HeldInv
    <3> QED BY <1>1, <1>2, <2>1, <2>3, <3>1, <3>2, LogsDownFramed DEF Top
  <2>7. ASSUME NEW T, T \subseteq Numbers, \A n \in T : f # TableFile(n)
        PROVE  EntriesOf(T, data') = EntriesOf(T, data)
    BY <1>1, <2>7, FilesJust DEF EntriesOf
  <2>8. InTables(TablesAt(Here, Top))' = InTables(TablesAt(Here, Top))
    <3>1. PICK T : T = TablesAt(Here, Top)
      OBVIOUS
    <3>2. EntriesOf(T, data') = EntriesOf(T, data)
      BY <2>1, <2>2, <2>7, <3>1
    <3>3. TablesAt(Here, Top)' = T
      BY <2>3, <3>1 DEF Top
    <3>4. InTables(TablesAt(Here, Top))' = EntriesOf(TablesAt(Here, Top)', data')
      BY DEF InTables, Contents, EntriesOf, TableEntries
    <3> QED BY <3>1, <3>2, <3>3, <3>4, InTablesAre
  <2>9. UpMem /\ (\A d \in Dirs : d.current = manifest_file_number_ => UpDir(d)) /\ UpTop
    BY <1>6 DEF StoreInv, HeldInv, UpLogs
  <2>10. \A n \in Numbers : /\ LogEntries(n, data') = LogEntries(n, data)
                            /\ SyncedLog(n, data', synced') = SyncedLog(n, data, synced)
    BY <1>1, FilesJust
  <2>11. UpMem'
    <3>1. LogsIn(dir) \subseteq Numbers
      BY <1>1, <2>1, DirsAre, LogsAre
    <3>2. \A n \in LogsIn(dir) : InLog(n)' = InLog(n)
      BY <2>10, <3>1, InTablesAre, InTablesNext
    <3>3. InLog(logfile_number_)' = InLog(logfile_number_)
      BY <2>9, <3>2 DEF UpMem, InLog
    <3>4. has_imm_ => InLog(log_number_)' = InLog(log_number_)
      BY <2>9, <3>2 DEF UpMem, InLog
    <3> QED BY <1>2, <2>9, <3>3, <3>4 DEF UpMem
  <2>12. ASSUME NEW e \in Dirs', e.current = manifest_file_number_
         PROVE  UpDir(e)'
    <3>1. PICK d \in Dirs : d.current = manifest_file_number_ /\ LogsIn(d) = LogsIn(e)
      BY <1>2, <2>1, <2>12
    <3>2. UpDir(d) /\ LogsIn(d) \subseteq Numbers
      BY <1>1, <2>9, <3>1, DirsAre, LogsAre
    <3>3. \A l : LogsFrom(e, l) = LogsFrom(d, l) /\ LogsFrom(e, l) \subseteq Numbers
      BY <3>1, <3>2 DEF LogsFrom, LogsIn
    <3>4. UNION {SyncedLog(n, data', synced') : n \in LogsFrom(e, log_number_)}
          = UNION {SyncedLog(n, data, synced) : n \in LogsFrom(d, log_number_)}
      BY <2>10, <3>3
    <3> QED BY <1>3, <3>2, <3>3, <3>4 DEF UpDir
  <2>13. UpTop'
    <3>1. Top' = Top
      BY <2>3 DEF Top
    <3> QED BY <1>3, <2>3, <2>8, <2>9, <3>1 DEF UpTop
  <2>14. UpLogs'
    BY <2>11, <2>12, <2>13 DEF UpLogs
  <2> QED BY <1>1, <1>3, <1>4, <2>3, <2>5, <2>6, <2>14
<1> QED BY <1>5, <1>6

LEMMA NextKept ==
    ASSUME StoreInv, TypeInv', MayCrash' => MayCrash /\ Here' = Here, Runs' => Runs,
           next_file_number_ <= next_file_number_',
           \/ apply' = apply \/ apply'.pc = "none"
           \/ /\ apply.pc = "none" /\ apply'.edit.next = next_file_number_'
              /\ MayCrash => apply'.edit.log # 0 /\ apply'.edit.log <= apply'.edit.next
    PROVE  NextInv'
<1> SUFFICES ASSUME MayCrash', Runs'
             PROVE  NextInv'
  BY DEF NextInv
<1>1. NextInv /\ DiskInv /\ TypeInv /\ Here' = Here /\ dir.current # 0
  BY DEF StoreInv, HeldInv, DiskInv, NoDir, Runs
<1>2. PICK N : N = Here[Len(Here)].next
  OBVIOUS
<1>3. N \in Nat
  <2>1. dir \in Dirs
    BY <1>1, DirsAre
  <2>2. Len(Here) \in Nat /\ DOMAIN Here = 1..Len(Here) /\ Here \in Seq(EditsTo(writes))
    BY <1>1, <2>1, ManifestOf DEF Here
  <2>3. Len(Here) > 0
    BY <1>1, <2>1 DEF DiskInv, DirsGood, AllGood, GoodDir, GoodManifest, Here
  <2>4. Here[Len(Here)] \in EditsTo(writes)
    BY <2>2, <2>3, ElementOfSeq
  <2> QED BY <1>2, <2>4 DEF EditsTo
<1>4. next_file_number_ \in Nat /\ next_file_number_' \in Nat
  BY <1>1, NumbersAre DEF TypeInv, NumberType
<1>5. apply.edit.next \in Nat /\ N <= next_file_number_
  BY <1>1, <1>2 DEF TypeInv, BgType, ApplyType, EditsTo, NextInv
<1>6. N <= next_file_number_'
  BY <1>3, <1>4, <1>5
<1>7. CASE apply'.pc = "none"
  BY <1>1, <1>2, <1>6, <1>7 DEF NextInv
<1>8. CASE apply' = apply /\ apply.pc # "none"
  <2>1. N <= apply.edit.next /\ apply.edit.next <= next_file_number_
        /\ apply.edit.log # 0 /\ apply.edit.log <= apply.edit.next
    BY <1>1, <1>2, <1>8 DEF NextInv
  <2>2. apply.edit.next <= next_file_number_'
    BY <1>4, <1>5, <2>1
  <2> QED BY <1>1, <1>2, <1>6, <1>8, <2>1, <2>2 DEF NextInv
<1>9. CASE apply.pc = "none" /\ apply'.edit.next = next_file_number_'
           /\ apply'.edit.log # 0 /\ apply'.edit.log <= apply'.edit.next
  BY <1>1, <1>2, <1>4, <1>6, <1>9 DEF NextInv
<1> QED BY <1>7, <1>8, <1>9

\* Steps of the background thread that write a table nobody reads.
LEMMA UpTable ==
    ASSUME StoreInv, TypeInv', phase = "up", phase' = "up", faults <= faults',
           NEW n \in Numbers, Just(TableFile(n)), n \notin current_,
           MayCrash => FreshIn(n, Dirs, data),
           UNCHANGED <<mem_, imm_, has_imm_, logfile_number_, log_number_,
                       manifest_file_number_, current_, hard, todo>>,
           next_file_number_ <= next_file_number_', apply.pc = "none",
           \/ apply' = apply
           \/ /\ apply'.pc = "append" /\ apply'.edit.next = next_file_number_'
              /\ MayCrash => apply'.edit.log # 0 /\ apply'.edit.log <= apply'.edit.next,
           TablesMade'
    PROVE  HeldInv' /\ Stutters
<1>1. PICK f : f = TableFile(n)
  OBVIOUS
<1>2. /\ \A m : f # Log(m)
      /\ \A m \in current_ : f # TableFile(m)
      /\ MayCrash => \A d \in Dirs : f \notin Uses(d, data)
  BY <1>1, FilesApart, NotUsed DEF StoreInv, DiskInv
<1>3. /\ Promise' /\ LogsDown' /\ LogsBelow' /\ OpenFinds' /\ UpLogs' /\ Store' = Store
      /\ MayCrash' => MayCrash /\ Here' = Here
  BY <1>1, <1>2, UpFramed
<1>4. Stutters
  BY <1>3 DEF Stutters, Held
<1>5. NextInv'
  BY <1>3, NextKept DEF Runs
<1> QED BY <1>3, <1>4, <1>5 DEF HeldInv

-----------------------------------------------------------------------------
(***************************************************************************)
(* Steps that create a file or write a table.                              *)
(***************************************************************************)

LEMMA NextNumber ==
    ASSUME StoreInv, Runs, NEW n, NewFileNumber(n)
    PROVE  /\ n = next_file_number_ /\ next_file_number_' = n + 1 /\ n \in Numbers
           /\ next_file_number_ <= next_file_number_' /\ n < next_file_number_'
           /\ n \notin current_ /\ (MayCrash => FreshIn(n, Dirs, data))
<1>1. n = next_file_number_ /\ next_file_number_' = n + 1 /\ n \in Nat /\ n # 0 /\ n < MaxFile
  BY DEF NewFileNumber, StoreInv, DiskInv, TypeInv, NumberType
<1>2. n \in Numbers
  BY <1>1, NumbersAre DEF Numbers
<1>3. n \notin current_ /\ (MayCrash => FreshIn(n, Dirs, data))
  BY <1>1, NextIsFresh DEF StoreInv, LiveTables
<1> QED BY <1>1, <1>2, <1>3

LEMMA HeldStartFlush ==
    ASSUME StoreInv, TypeInv', StartFlush
    PROVE  HeldInv' /\ Stutters
<1>1. PICK n \in Numbers :
           /\ NewFileNumber(n) /\ ChangeDir(Create(TableFile(n))) /\ Written(TableFile(n), <<>>)
  BY DEF StartFlush
<1>2. /\ phase = "up" /\ apply = NoApply
      /\ UNCHANGED <<log_number_, manifest_file_number_, has_descriptor_, memVars, openVars,
                   current_, pinned, c, apply, bg_error_, historyVars>>
  BY DEF StartFlush, MayFlush
<1>3. TypeInv /\ Runs /\ faults <= faults'
  BY <1>2, NumbersKept DEF StoreInv, DiskInv, Runs, historyVars
<1>4. Just(TableFile(n))
  BY <1>1, <1>3, FileIs, ChangeDirIs, JustIs DEF Written
<1>5. apply.owner = "open" /\ apply.pc = "none"
  BY <1>2 DEF NoApply
<1>6. TablesMade'
  BY <1>2, <1>5 DEF StoreInv, HeldInv, TablesMade, openVars, memVars
<1>7. /\ n \notin current_ /\ (MayCrash => FreshIn(n, Dirs, data))
      /\ next_file_number_ <= next_file_number_'
  BY <1>1, <1>3, NextNumber
<1> QED BY <1>2, <1>3, <1>4, <1>5, <1>6, <1>7, UpTable DEF openVars, memVars, historyVars

LEMMA HeldStartCompaction ==
    ASSUME StoreInv, TypeInv', StartCompaction
    PROVE  HeldInv' /\ Stutters
<1>1. PICK n \in Numbers :
           /\ NewFileNumber(n) /\ ChangeDir(Create(TableFile(n))) /\ Written(TableFile(n), <<>>)
           /\ c' = [base |-> current_, output |-> n]
  BY DEF StartCompaction
<1>2. /\ phase = "up" /\ apply = NoApply
      /\ UNCHANGED <<log_number_, manifest_file_number_, has_descriptor_, memVars, openVars,
                     current_, pinned, flush, apply, bg_error_, historyVars>>
  BY DEF StartCompaction
<1>3. TypeInv /\ Runs /\ faults <= faults'
  BY <1>2, NumbersKept DEF StoreInv, DiskInv, Runs, historyVars
<1>4. Just(TableFile(n))
  BY <1>1, <1>3, FileIs, ChangeDirIs, JustIs DEF Written
<1>5. apply.owner = "open" /\ apply.pc = "none"
  BY <1>2 DEF NoApply
<1>6. TablesMade'
  BY <1>1, <1>2, <1>5 DEF StoreInv, HeldInv, TablesMade, openVars, memVars
<1>7. /\ n \notin current_ /\ (MayCrash => FreshIn(n, Dirs, data))
      /\ next_file_number_ <= next_file_number_'
  BY <1>1, <1>3, NextNumber
<1> QED BY <1>2, <1>3, <1>4, <1>5, <1>6, <1>7, UpTable DEF openVars, memVars, historyVars

LEMMA HeldFlushFails ==
    ASSUME StoreInv, TypeInv', FlushFails
    PROVE  HeldInv' /\ Stutters
<1>1. /\ flush # 0 /\ apply = NoApply /\ faults' = faults + 1
      /\ ChangeDir([dir EXCEPT !.files = @ \ {TableFile(flush)}])
      /\ UNCHANGED <<data, synced, numberVars, memVars, openVars, current_, pinned, c, apply,
                     writes, hard>>
  BY DEF FlushFails, Fault
<1>2. apply.owner = "open" /\ apply.pc = "none" /\ phase = "up" /\ flush \in Numbers /\ TypeInv
  BY <1>1, NumbersAre
  DEF NoApply, StoreInv, DiskInv, TypeInv, PhaseType, BgType, Numbers
<1>3. flush \notin current_ /\ (MayCrash => FreshIn(flush, Dirs, data))
  BY <1>1, <1>2 DEF StoreInv, DiskInv, FlushInv, Fresh, Runs, LiveTables
<1>4. Just(TableFile(flush))
  BY <1>1, <1>2, FileIs, ChangeDirIs, JustIs
<1>5. faults <= faults' /\ next_file_number_ <= next_file_number_'
  BY <1>1, <1>2, NumbersKept DEF TypeInv, HistoryType, numberVars
<1>6. TablesMade'
  BY <1>1, <1>2 DEF StoreInv, HeldInv, TablesMade, openVars, memVars
<1> QED BY <1>1, <1>2, <1>3, <1>4, <1>5, <1>6, UpTable
        DEF openVars, memVars, numberVars

\* The table that a step completes.
LEMMA TableWritten ==
    ASSUME TypeInv, NEW n \in Numbers, NEW entries, NEW deep,
           data' = [data EXCEPT ![TableFile(n)] = <<TableOf(entries, deep)>>]
    PROVE  Contents(n)' = entries
<1>1. PICK r : r = <<TableOf(entries, deep)>>
  OBVIOUS
<1>2. r # <<>> /\ r[1].entries = entries
  BY <1>1 DEF TableOf
<1>3. TableFile(n) \in Files
  BY FileIs
<1>4. data'[TableFile(n)] = r
  BY <1>1, <1>3 DEF TypeInv, DiskType, FilesOK
<1>5. TableEntries(n, data') = entries
  BY <1>2, <1>4 DEF TableEntries
<1> QED BY <1>5, InTablesNext

LEMMA HeldFinishFlush ==
    ASSUME StoreInv, TypeInv', FinishFlush
    PROVE  HeldInv' /\ Stutters
<1>1. /\ flush # 0 /\ apply = NoApply
      /\ data' = [data EXCEPT ![TableFile(flush)] = <<TableOf(imm_, FALSE)>>]
      /\ SyncFile(TableFile(flush))
      /\ apply' = [pc |-> "append", owner |-> "flush", edit |-> FlushEdit]
      /\ UNCHANGED <<dir, numberVars, memVars, openVars, current_, pinned, flush, c,
                     bg_error_, historyVars>>
  BY DEF FinishFlush, StartApply
<1>2. /\ apply'.pc = "append" /\ apply'.owner = "flush" /\ apply'.edit.next = next_file_number_
      /\ apply'.edit.log = logfile_number_
  BY <1>1 DEF Edit, FlushEdit
<1>3. apply.owner = "open" /\ apply.pc = "none" /\ phase = "up" /\ flush \in Numbers /\ TypeInv
  BY <1>1, NumbersAre
  DEF NoApply, StoreInv, DiskInv, TypeInv, PhaseType, BgType, Numbers
<1>4. /\ flush \notin current_ /\ (MayCrash => FreshIn(flush, Dirs, data)) /\ has_imm_
  BY <1>1, <1>3 DEF StoreInv, DiskInv, FlushInv, Fresh, Runs, LiveTables
<1>5. Just(TableFile(flush))
  <2>1. Dirs' \subseteq Dirs \cup {dir'}
    BY <1>1 DEF SyncFile, Dirs
  <2> QED BY <1>1, <1>3, <2>1, FileIs, JustIs DEF SyncFile
<1>6. /\ faults <= faults' /\ next_file_number_ <= next_file_number_'
      /\ next_file_number_' = next_file_number_
  BY <1>1, <1>3, NumbersKept DEF historyVars, numberVars
<1>7. TablesMade'
  <2>1. Contents(flush)' = imm_
    BY <1>1, <1>3, TableWritten
  <2>2. Contents(flush)' = imm_' /\ apply'.edit.log = logfile_number_' /\ has_imm_'
        /\ phase' = "up" /\ c' = c /\ current_' = current_ /\ imm_' = imm_
    BY <1>1, <1>2, <1>3, <1>4, <2>1 DEF memVars, openVars
  <2> QED BY <1>2, <1>4, <2>2 DEF StoreInv, HeldInv, TablesMade
<1>8. apply'.edit.log # 0 /\ apply'.edit.log <= apply'.edit.next
  <2>1. logfile_number_ # 0 /\ logfile_number_ < next_file_number_
    BY <1>3 DEF StoreInv, HeldInv, LogsBelow, Runs, TypeInv, PhaseType
  <2>2. logfile_number_ \in Nat /\ next_file_number_ \in Nat
    BY <1>3, NumbersAre DEF TypeInv, NumberType
  <2> QED BY <1>2, <2>1, <2>2
<1> QED BY <1>1, <1>2, <1>3, <1>4, <1>5, <1>6, <1>7, <1>8, UpTable
        DEF openVars, memVars, numberVars, historyVars

LEMMA HeldFinishCompaction ==
    ASSUME StoreInv, TypeInv', FinishCompaction
    PROVE  HeldInv' /\ Stutters
<1>1. /\ c # None /\ flush = 0 /\ apply = NoApply
      /\ data' = [data EXCEPT ![TableFile(c.output)] = <<TableOf(InTables(c.base), TRUE)>>]
      /\ SyncFile(TableFile(c.output))
      /\ apply' = [pc |-> "append", owner |-> "compaction",
                   edit |-> Edit(log_number_, next_file_number_, last_sequence_,
                                 {c.output}, c.base)]
      /\ UNCHANGED <<dir, numberVars, memVars, openVars, versionVars, flush, c, bg_error_,
                     historyVars>>
  BY DEF FinishCompaction, StartApply
<1>2. /\ apply'.pc = "append" /\ apply'.owner = "compaction"
      /\ apply'.edit.next = next_file_number_ /\ apply'.edit.log = log_number_
  BY <1>1 DEF Edit
<1>3. /\ apply.owner = "open" /\ apply.pc = "none" /\ phase = "up" /\ TypeInv
      /\ c.output \in Numbers /\ c.base \subseteq Numbers
  BY <1>1, CompactionIs DEF NoApply, StoreInv, DiskInv
<1>4. /\ c.output \notin current_ \cup c.base /\ (MayCrash => FreshIn(c.output, Dirs, data))
  BY <1>1, <1>3 DEF StoreInv, DiskInv, CompactionInv, Fresh, Runs
<1>5. Just(TableFile(c.output))
  <2>1. Dirs' \subseteq Dirs \cup {dir'}
    BY <1>1 DEF SyncFile, Dirs
  <2> QED BY <1>1, <1>3, <2>1, FileIs, JustIs DEF SyncFile
<1>6. /\ faults <= faults' /\ next_file_number_ <= next_file_number_'
      /\ next_file_number_' = next_file_number_
  BY <1>1, <1>3, NumbersKept DEF historyVars, numberVars
<1>7. TablesMade'
  <2>1. Contents(c.output)' = InTables(c.base)
    BY <1>1, <1>3, TableWritten
  <2>2. \A n \in c.base : TableEntries(n, data') = TableEntries(n, data)
    BY <1>3, <1>4, <1>5, FilesApart, FilesJust
  <2>3. EntriesOf(c.base, data') = EntriesOf(c.base, data)
    BY <2>2 DEF EntriesOf
  <2>4. InTables(c.base)' = EntriesOf(c.base', data')
    BY DEF InTables, Contents, EntriesOf, TableEntries
  <2>5. c' = c
    BY <1>1
  <2>6. InTables(c.base)' = InTables(c.base) /\ Contents(c.output)' = TableEntries(c'.output, data')
        /\ TableEntries(c.output, data') = InTables(c.base)
    BY <2>1, <2>3, <2>4, <2>5, InTablesAre, InTablesNext
  <2>7. Contents(c.output)' = InTables(c.base)' /\ apply'.edit.log = log_number_'
    BY <1>1, <1>2, <2>5, <2>6 DEF numberVars
  <2> QED BY <1>1, <1>2, <2>7 DEF StoreInv, HeldInv, TablesMade, memVars, openVars, versionVars
<1>8. MayCrash => apply'.edit.log # 0 /\ apply'.edit.log <= apply'.edit.next
  <2> SUFFICES ASSUME MayCrash
               PROVE  log_number_ # 0 /\ log_number_ <= next_file_number_
    BY <1>2
  <2>1. UpMem
    BY <1>3 DEF StoreInv, HeldInv, UpLogs
  <2>2. logfile_number_ # 0 /\ logfile_number_ < next_file_number_
    BY <1>3 DEF StoreInv, HeldInv, LogsBelow, Runs, TypeInv, PhaseType
  <2>3. logfile_number_ \in Nat /\ next_file_number_ \in Nat /\ log_number_ \in Nat
    BY <1>3, NumbersAre DEF TypeInv, NumberType
  <2>4. log_number_ # 0 /\ log_number_ <= logfile_number_
    <3>1. LogsIn(dir) \subseteq Numbers
      BY <1>3, DirsAre, LogsAre
    <3> QED BY <2>1, <2>2, <2>3, <3>1, NumbersAre DEF UpMem
  <2> QED BY <2>2, <2>3, <2>4
<1> QED BY <1>1, <1>2, <1>3, <1>4, <1>5, <1>6, <1>7, <1>8, UpTable
        DEF openVars, memVars, numberVars, historyVars, versionVars

\* The disk, and what is held in memory, stay as they are.
LEMMA HeldQuiet ==
    ASSUME StoreInv, TypeInv', phase = "up", phase' = "up", faults <= faults', UNCHANGED diskVars,
           UNCHANGED <<mem_, imm_, has_imm_, logfile_number_, log_number_, next_file_number_,
                       manifest_file_number_, current_, flush, apply, hard, todo>>,
           c' = c \/ (c' = None /\ apply.owner # "compaction")
    PROVE  HeldInv' /\ Stutters
<1>1. TypeInv /\ Runs /\ (MayCrash' => MayCrash)
  BY MayCrashBefore DEF StoreInv, DiskInv, Runs
<1>2. /\ dir' = dir /\ data' = data /\ synced' = synced /\ older' = older
      /\ Dirs' = Dirs /\ Here' = Here
  BY DEF diskVars, Dirs, Here
<1>3. Store' = Store /\ InTables(current_)' = InTables(current_)
  BY <1>2 DEF Store, InTables, Contents
<1>4. Promise' /\ Stutters
  <2>1. Held' = Held
    BY <1>3 DEF Held
  <2> QED BY <1>1, <1>2, <2>1 DEF StoreInv, HeldInv, Promise, Stutters
<1>5. LogsDown'
  BY <1>1, <1>2 DEF StoreInv, HeldInv, LogsDown
<1>6. LogsBelow'
  BY <1>1, <1>2 DEF StoreInv, HeldInv, LogsBelow, LogBelow, Runs
<1>7. NextInv'
  BY <1>1, <1>2 DEF StoreInv, HeldInv, NextInv, Runs
<1>8. TablesMade'
  <2>1. TablesMade
    BY DEF StoreInv, HeldInv
  <2>2. apply.owner = "flush" => Contents(flush)' = imm_'
    BY <1>2, <2>1 DEF TablesMade, Contents
  <2>3. apply.owner = "compaction" => Contents(c.output)' = InTables(c.base)'
    BY <1>2, <2>1 DEF TablesMade, InTables, Contents
  <2>4. c' # None => c'.base \subseteq current_'
    BY <2>1 DEF TablesMade
  <2> QED BY <2>1, <2>2, <2>3, <2>4 DEF TablesMade
<1>9. OpenFinds'
  BY DEF OpenFinds
<1>10. UpLogs'
  <2>1. UpMem => UpMem'
    BY <1>2 DEF UpMem, InLog
  <2>2. \A d : UpDir(d) => UpDir(d)'
    BY <1>2, <1>3 DEF UpDir
  <2>3. UpTop => UpTop'
    BY <1>2 DEF UpTop, Top, InTables, Contents
  <2> QED BY <1>1, <1>2, <2>1, <2>2, <2>3 DEF StoreInv, HeldInv, UpLogs
<1> QED BY <1>4, <1>5, <1>6, <1>7, <1>8, <1>9, <1>10 DEF HeldInv

LEMMA HeldQuietBackground ==
    ASSUME StoreInv, TypeInv', CompactionFails \/ Pin \/ Unpin
    PROVE  HeldInv' /\ Stutters
<1>1. faults <= faults + 1 /\ faults <= faults /\ TypeInv
  BY NumbersAre DEF StoreInv, DiskInv, TypeInv, HistoryType
<1>2. CASE CompactionFails
  <2>1. phase = "up" /\ apply.owner = "open"
    BY <1>1, <1>2 DEF CompactionFails, TypeInv, PhaseType, NoApply
  <2> QED BY <1>1, <1>2, <2>1, HeldQuiet
          DEF CompactionFails, Fault, openVars, memVars, numberVars
<1>3. CASE Pin \/ Unpin
  <2>1. phase = "up"
    BY <1>1, <1>3 DEF Pin, Unpin, TypeInv, PhaseType
  <2> QED BY <1>1, <1>3, <2>1, HeldQuiet
          DEF Pin, Unpin, openVars, memVars, numberVars, bgVars, historyVars
<1> QED BY <1>2, <1>3

-----------------------------------------------------------------------------
(***************************************************************************)
(* Writes.                                                                 *)
(***************************************************************************)
\* The entry e is appended to the log of the process.
LEMMA PutIs ==
    ASSUME StoreInv, TypeInv', NEW sync \in BOOLEAN, Put(sync)
    PROVE  \E e \in Entry :
               /\ data' = [data EXCEPT ![Log(logfile_number_)] = Append(@, e)]
               /\ mem_' = mem_ \cup {e}
               /\ hard' = IF sync THEN hard \cup {e} ELSE hard
               /\ logfile_number_ \in Numbers
               /\ InLog(logfile_number_)' = InLog(logfile_number_) \cup {e}
               /\ Just(Log(logfile_number_))
               /\ sync => Dirs' = {dir} /\ SyncedLog(logfile_number_, data', synced')
                                            = InLog(logfile_number_)'
               /\ ~sync => SyncedLog(logfile_number_, data', synced')
                           = SyncedLog(logfile_number_, data, synced)
<1>1. PICK e : e = [seq |-> last_sequence_ + 1, id |-> writes + 1]
  OBVIOUS
<1>2. PICK f : f = Log(logfile_number_)
  OBVIOUS
<1>3. /\ phase = "up" /\ dir' = dir /\ writes < MaxWrites
      /\ data' = [data EXCEPT ![f] = Append(@, e)]
      /\ mem_' = mem_ \cup {e} /\ hard' = IF sync THEN hard \cup {e} ELSE hard
      /\ IF sync THEN SyncFile(f) ELSE UNCHANGED <<synced, older>>
  BY <1>1, <1>2 DEF Put
<1>4. TypeInv
  BY DEF StoreInv, DiskInv
<1>5. logfile_number_ \in Numbers /\ f \in Files
  <2>1. logfile_number_ \in Numbers
    BY <1>3, <1>4, NumbersAre DEF TypeInv, PhaseType, NumberType, Numbers
  <2> QED BY <1>2, <2>1, FileIs
<1>6. e \in Entry
  BY <1>1, <1>3, <1>4, NumbersAre DEF TypeInv, MemType, HistoryType, Entry
<1>7. data[f] \in Seq(Entries(writes))
  BY <1>2, <1>4, <1>5, LogIs
<1>8. PICK R \in Seq(Entries(writes)) : R = data[f]
  BY <1>7
<1>9. PICK Q : Q = Append(R, e)
  OBVIOUS
<1>10. /\ Len(R) \in Nat /\ DOMAIN R = 1..Len(R)
       /\ DOMAIN Q = 1..Len(R) + 1 /\ Len(Q) = Len(R) + 1
       /\ Q[Len(R) + 1] = e /\ \A i \in 1..Len(R) : Q[i] = R[i]
  <2>1. R \in Seq(Entries(writes) \cup {e}) /\ e \in Entries(writes) \cup {e}
    BY SeqMonotonic
  <2>2. /\ Len(R) \in Nat /\ DOMAIN R = 1..Len(R) /\ Q \in Seq(Entries(writes) \cup {e})
        /\ Len(Q) = Len(R) + 1
    BY <1>9, <2>1, LenProperties, AppendProperties
  <2>3. DOMAIN Q = 1..Len(R) + 1
    BY <2>2, LenProperties
  <2> QED BY <1>9, <2>1, <2>2, <2>3, AppendProperties
<1>11. data'[f] = Q /\ data[f] = R
  BY <1>3, <1>4, <1>5, <1>8, <1>9, FunctionChanges DEF TypeInv, DiskType, FilesOK
<1>12. InLog(logfile_number_)' = InLog(logfile_number_) \cup {e}
  <2>1. LogEntries(logfile_number_, data') = {Q[i] : i \in 1..Len(R) + 1}
    BY <1>2, <1>10, <1>11 DEF LogEntries
  <2>2. LogEntries(logfile_number_, data) = {R[i] : i \in 1..Len(R)}
    BY <1>2, <1>10, <1>11 DEF LogEntries
  <2>3. 1..Len(R) + 1 = (1..Len(R)) \cup {Len(R) + 1}
    BY <1>10
  <2>4. {Q[i] : i \in 1..Len(R) + 1} = {R[i] : i \in 1..Len(R)} \cup {e}
    BY <1>10, <2>3
  <2>5. LogEntries(logfile_number_, data') = LogEntries(logfile_number_, data) \cup {e}
    BY <2>1, <2>2, <2>4
  <2>6. InLog(logfile_number_)' = LogEntries(logfile_number_, data')
    BY <1>3 DEF InLog, LogEntries, Put
  <2> QED BY <2>5, <2>6, InTablesAre
<1>13. Just(f)
  <2>1. Dirs' \subseteq Dirs \cup {dir'}
    BY <1>3 DEF SyncFile, Dirs
  <2> QED BY <1>3, <1>4, <1>5, <2>1, JustIs DEF SyncFile
<1>14. ASSUME sync
       PROVE  Dirs' = {dir} /\ SyncedLog(logfile_number_, data', synced') = InLog(logfile_number_)'
  <2>1. older' = {} /\ synced'[f] = Len(Q)
    BY <1>3, <1>4, <1>5, <1>11, <1>14 DEF SyncFile, TypeInv, DiskType, FilesOK
  <2>2. SyncedLog(logfile_number_, data', synced') = LogEntries(logfile_number_, data')
    BY <1>2, <1>10, <1>11, <2>1 DEF SyncedLog, LogEntries
  <2>3. InLog(logfile_number_)' = LogEntries(logfile_number_, data')
    BY <1>3 DEF InLog, LogEntries, Put
  <2> QED BY <1>3, <2>1, <2>2, <2>3 DEF Dirs
<1>15. ASSUME ~sync
       PROVE  SyncedLog(logfile_number_, data', synced') = SyncedLog(logfile_number_, data, synced)
  <2>1. synced' = synced /\ synced[f] \in Nat /\ synced[f] <= Len(R)
    BY <1>3, <1>4, <1>5, <1>8, <1>15 DEF TypeInv, DiskType, FilesOK
  <2>2. \A i \in 1..synced[f] : Q[i] = R[i]
    BY <1>10, <2>1
  <2>3. {Q[i] : i \in 1..synced[f]} = {R[i] : i \in 1..synced[f]}
    BY <2>2
  <2>4. SyncedLog(logfile_number_, data', synced') = {Q[i] : i \in 1..synced[f]}
    <3>1. /\ data'[Log(logfile_number_)] = Q
          /\ synced'[Log(logfile_number_)] = synced[f]
      BY <1>2, <1>11, <2>1
    <3> QED BY <3>1 DEF SyncedLog
  <2>5. SyncedLog(logfile_number_, data, synced) = {R[i] : i \in 1..synced[f]}
    <3>1. /\ data[Log(logfile_number_)] = R
          /\ synced[Log(logfile_number_)] = synced[f]
      BY <1>2, <1>11
    <3> QED BY <3>1 DEF SyncedLog
  <2> QED BY <2>3, <2>4, <2>5
<1> QED BY <1>2, <1>3, <1>5, <1>6, <1>12, <1>13, <1>14, <1>15

LEMMA SyncedIn ==
    ASSUME TypeInv, NEW n \in Numbers
    PROVE  SyncedLog(n, data, synced) \subseteq LogEntries(n, data)
<1>1. Log(n) \in Files
  BY FileIs
<1>2. /\ data[Log(n)] \in Seq(Records(Log(n), writes)) /\ synced[Log(n)] \in Nat
      /\ synced[Log(n)] <= Len(data[Log(n)])
  BY <1>1 DEF TypeInv, DiskType, FilesOK
<1>3. Len(data[Log(n)]) \in Nat /\ DOMAIN data[Log(n)] = 1..Len(data[Log(n)])
  BY <1>2, LenProperties
<1>4. 1..synced[Log(n)] \subseteq DOMAIN data[Log(n)]
  BY <1>2, <1>3
<1> QED BY <1>4 DEF SyncedLog, LogEntries

\* A synced entry of the log that every record says to read.
LEMMA KeepsMore ==
    ASSUME NEW d, NEW D, NEW S, NEW W, NEW h, NEW e, NEW l,
           d.current # 0, Keeps(d, D, S, W, h), l \in LogsIn(d), e \in SyncedLog(l, D, S),
           \A k \in 1..Len(D[Manifest(d.current)]) :
               S[Manifest(d.current)] <= k => l >= D[Manifest(d.current)][k].log
    PROVE  Keeps(d, D, S, W, h \cup {e})
<1> DEFINE R == D[Manifest(d.current)]
<1>1. SUFFICES ASSUME NEW k \in 1..Len(R), S[Manifest(d.current)] <= k
               PROVE  /\ h \cup {e} \subseteq Least(k, d, D, S) /\ Most(k, d, D) \subseteq W
                      /\ LogAt(k, R)
  BY DEF Keeps
<1>2. h \subseteq Least(k, d, D, S) /\ Most(k, d, D) \subseteq W /\ LogAt(k, R)
  BY <1>1 DEF Keeps
<1>3. l \in LogsFrom(d, R[k].log)
  BY <1>1 DEF LogsFrom, LogsIn
<1>4. e \in Least(k, d, D, S)
  BY <1>3 DEF Least
<1> QED BY <1>2, <1>4

\* A step touches a log, which is of all directories that have it, or is new and empty.
LEMMA LogFramed ==
    ASSUME TypeInv, TypeInv', NEW l \in Numbers, Just(Log(l)), dir.current \in Numbers
    PROVE  /\ Here' = Here
           /\ synced'[Manifest(dir.current)] = synced[Manifest(dir.current)]
           /\ \A T \in SUBSET Numbers : EntriesOf(T, data') = EntriesOf(T, data)
           /\ \A n \in Numbers : n # l =>
                  /\ LogEntries(n, data') = LogEntries(n, data)
                  /\ SyncedLog(n, data', synced') = SyncedLog(n, data, synced)
           /\ \A d \in Dirs : d.current # 0 =>
                  /\ data'[Manifest(d.current)] = data[Manifest(d.current)]
                  /\ synced'[Manifest(d.current)] = synced[Manifest(d.current)]
           /\ \A n \in Numbers : data'[TableFile(n)] = data[TableFile(n)]
<1>1. PICK f : f = Log(l)
  OBVIOUS
<1>2. /\ \A n : f # TableFile(n) /\ f # Manifest(n)
      /\ \A n : n # l => f # Log(n)
  BY <1>1, FilesApart DEF Log
<1>3. Here' = Here /\ synced'[Manifest(dir.current)] = synced[Manifest(dir.current)]
  BY <1>1, <1>2, FilesJust DEF Here, Just, Only
<1>4. \A T \in SUBSET Numbers : EntriesOf(T, data') = EntriesOf(T, data)
  BY <1>1, <1>2, FilesJust DEF EntriesOf
<1>5. \A n \in Numbers : n # l =>
          /\ LogEntries(n, data') = LogEntries(n, data)
          /\ SyncedLog(n, data', synced') = SyncedLog(n, data, synced)
  BY <1>1, <1>2, FilesJust
<1>6. \A d \in Dirs : d.current # 0 =>
          /\ data'[Manifest(d.current)] = data[Manifest(d.current)]
          /\ synced'[Manifest(d.current)] = synced[Manifest(d.current)]
  BY <1>1, <1>2, FilesJust, ManifestOf
<1>7. \A n \in Numbers : data'[TableFile(n)] = data[TableFile(n)]
  BY <1>1, <1>2, FileIs DEF Just, Only
<1> QED BY <1>3, <1>4, <1>5, <1>6, <1>7

\* What the MANIFEST comes to, where no table has changed.
LEMMA UpTopKept ==
    ASSUME TypeInv, NEW T, T = TablesAt(Here, Top), T \subseteq Numbers,
           EntriesOf(T, data') = EntriesOf(T, data), Here' = Here
    PROVE  InTables(TablesAt(Here, Top))' = InTables(TablesAt(Here, Top))
<1>1. TablesAt(Here, Top)' = T
  BY DEF Top
<1>2. InTables(TablesAt(Here, Top))' = EntriesOf(TablesAt(Here, Top)', data')
  BY DEF InTables, Contents, EntriesOf, TableEntries
<1> QED BY <1>1, <1>2, InTablesAre

\* What memory and the edit say of tables, where tables stay.
LEMMA TablesMadeKept ==
    ASSUME StoreInv, TypeInv', \A T \in SUBSET Numbers : EntriesOf(T, data') = EntriesOf(T, data),
           phase' = "up", UNCHANGED <<current_, flush, c, apply>>,
           ~has_imm_' => imm_' = {},
           apply.owner = "flush" => UNCHANGED <<imm_, has_imm_, logfile_number_>>,
           log_number_' = log_number_
    PROVE  TablesMade' /\ InTables(current_)' = InTables(current_)
<1>1. TablesMade /\ TypeInv
  BY DEF StoreInv, HeldInv, DiskInv
<1>2. InTables(current_)' = InTables(current_)
  <2>1. current_ \subseteq Numbers
    BY <1>1 DEF TypeInv, VersionType
  <2>2. InTables(current_)' = EntriesOf(current_', data')
    BY DEF InTables, Contents, EntriesOf, TableEntries
  <2> QED BY <2>1, <2>2, InTablesAre
<1>3. ASSUME NEW n \in Numbers
      PROVE  TableEntries(n, data') = TableEntries(n, data)
  BY <1>3, EntriesOfOne
<1>4. ASSUME apply.owner = "flush"
      PROVE  Contents(flush)' = imm_'
  <2>1. flush \in Numbers
    BY <1>1, <1>4, NumbersAre DEF TypeInv, PhaseType, BgType, Numbers
  <2>2. Contents(flush)' = TableEntries(flush', data')
    BY InTablesNext DEF Contents, TableEntries
  <2> QED BY <1>1, <1>3, <1>4, <2>1, <2>2, InTablesAre DEF TablesMade
<1>5. ASSUME apply.owner = "compaction"
      PROVE  Contents(c.output)' = InTables(c.base)'
  <2>1. c.output \in Numbers /\ c.base \subseteq Numbers
    BY <1>1, <1>5, CompactionIs DEF TypeInv, PhaseType
  <2>2. Contents(c.output)' = TableEntries(c'.output, data')
    BY DEF Contents, TableEntries
  <2>3. InTables(c.base)' = EntriesOf(c'.base, data')
    BY DEF InTables, Contents, EntriesOf, TableEntries
  <2>4. Contents(c.output) = InTables(c.base)
    BY <1>1, <1>5 DEF TablesMade
  <2>5. EntriesOf(c.base, data') = EntriesOf(c.base, data)
    BY <2>1
  <2> QED BY <1>3, <2>1, <2>2, <2>3, <2>4, <2>5, InTablesAre
<1> QED BY <1>1, <1>2, <1>4, <1>5 DEF TablesMade

LEMMA PutKeeps ==
    ASSUME StoreInv, TypeInv', NEW sync \in BOOLEAN, Put(sync), MayCrash, NEW e,
           mem_' = mem_ \cup {e}, hard' = IF sync THEN hard \cup {e} ELSE hard,
           InLog(logfile_number_)' = InLog(logfile_number_) \cup {e},
           Just(Log(logfile_number_)), logfile_number_ \in Numbers,
           sync => Dirs' = {dir} /\ SyncedLog(logfile_number_, data', synced')
                                    = InLog(logfile_number_)',
           ~sync => SyncedLog(logfile_number_, data', synced')
                    = SyncedLog(logfile_number_, data, synced),
           NEW W, W = Store, NEW X, X = Store', W \subseteq X
    PROVE  AllKeep(Dirs', data', synced', X, hard')
<1>1. /\ phase = "up" /\ dir' = dir /\ TypeInv /\ (\A d \in Dirs' : d \in Dirs) /\ e \in X
      /\ UNCHANGED <<imm_, logfile_number_, current_>>
  BY DEF Put, SyncFile, Dirs, StoreInv, DiskInv, Store, openVars, versionVars
<1>2. PICK l \in Numbers : l = logfile_number_
  OBVIOUS
<1>3. /\ dir \in Dirs /\ dir.current # 0 /\ dir.current = manifest_file_number_
      /\ dir.current \in Numbers /\ Top = Len(Here)
  BY <1>1, UpIs DEF StoreInv, Top
<1>4. /\ synced'[Manifest(dir.current)] = synced[Manifest(dir.current)]
      /\ \A n \in Numbers : n # l =>
             /\ LogEntries(n, data') = LogEntries(n, data)
             /\ SyncedLog(n, data', synced') = SyncedLog(n, data, synced)
      /\ \A d \in Dirs : d.current # 0 =>
             /\ data'[Manifest(d.current)] = data[Manifest(d.current)]
             /\ synced'[Manifest(d.current)] = synced[Manifest(d.current)]
      /\ \A n \in Numbers : data'[TableFile(n)] = data[TableFile(n)]
  BY <1>1, <1>2, <1>3, LogFramed
<1>5. /\ LogEntries(l, data') = LogEntries(l, data) \cup {e}
      /\ SyncedLog(l, data, synced) \subseteq LogEntries(l, data)
      /\ SyncedLog(l, data, synced) \subseteq SyncedLog(l, data', synced')
      /\ sync => e \in SyncedLog(l, data', synced')
  <2>1. InLog(logfile_number_)' = LogEntries(l, data')
    BY <1>1, <1>2 DEF InLog, LogEntries
  <2>2. LogEntries(l, data') = LogEntries(l, data) \cup {e}
    BY <1>2, <2>1, InTablesAre
  <2>3. SyncedLog(l, data, synced) \subseteq LogEntries(l, data)
    BY <1>1, SyncedIn
  <2> QED BY <1>2, <2>1, <2>2, <2>3
<1>6. AllKeep(Dirs, data, synced, W, hard)
  BY <1>1 DEF StoreInv, HeldInv, Promise, Held
<1>7. ASSUME NEW d \in Dirs
      PROVE  Keeps(d, data', synced', X, hard)
  <2>1. Keeps(d, data, synced, W, hard)
    BY <1>6 DEF AllKeep
  <2>2. d.current # 0 =>
            /\ data'[Manifest(d.current)] = data[Manifest(d.current)]
            /\ synced[Manifest(d.current)] \in Nat /\ synced'[Manifest(d.current)] \in Nat
            /\ synced[Manifest(d.current)] <= synced'[Manifest(d.current)]
            /\ Len(data[Manifest(d.current)]) \in Nat
            /\ DOMAIN data[Manifest(d.current)] = 1..Len(data[Manifest(d.current)])
    BY <1>1, <1>4, ManifestOf
  <2>3. \A n \in NamedIn(d, data) : data'[TableFile(n)] = data[TableFile(n)]
    BY <1>1, <1>4, NamedNumbers
  <2>4. LogsIn(d) \subseteq Numbers
    BY <1>1, DirsAre, LogsAre
  <2>5. \A n \in LogsIn(d) : SyncedLog(n, data, synced) \subseteq SyncedLog(n, data', synced')
    BY <1>4, <1>5, <2>4
  <2>6. \A n \in LogsIn(d) : LogEntries(n, data') \subseteq LogEntries(n, data) \cup X
    BY <1>1, <1>4, <1>5, <2>4
  <2>7. d.current = 0 => LogsIn(d) = {}
    BY <2>1 DEF Keeps
  <2> QED BY <2>1, <2>2, <2>3, <2>5, <2>6, <2>7, KeepsOn
<1>8. CASE ~sync
  BY <1>1, <1>7, <1>8 DEF AllKeep
<1>9. CASE sync
  <2>1. Keeps(dir, data', synced', X, hard) /\ hard' = hard \cup {e} /\ Dirs' = {dir}
    BY <1>3, <1>7, <1>9
  <2>2. l \in LogsIn(dir) /\ e \in SyncedLog(l, data', synced')
    BY <1>1, <1>2, <1>5, <1>9 DEF StoreInv, HeldInv, UpLogs, UpMem
  <2>3. \A k \in 1..Len(data'[Manifest(dir.current)]) :
            synced'[Manifest(dir.current)] <= k => l >= data'[Manifest(dir.current)][k].log
    <3>1. UpTop
      BY <1>1 DEF StoreInv, HeldInv, UpLogs
    <3>2. data'[Manifest(dir.current)] = Here
      BY <1>3, <1>4 DEF Here
    <3> SUFFICES ASSUME NEW k \in 1..Len(Here), synced[Manifest(dir.current)] <= k
                 PROVE  l >= Here[k].log
      BY <1>4, <3>2
    <3>3. Here[k].log <= l
      BY <1>2, <1>3, <3>1 DEF UpTop
    <3> QED BY <3>3
  <2>4. Keeps(dir, data', synced', X, hard \cup {e})
    BY <1>3, <2>1, <2>2, <2>3, KeepsMore
  <2> QED BY <2>1, <2>4 DEF AllKeep
<1> QED BY <1>8, <1>9

LEMMA HeldPut ==
    ASSUME StoreInv, TypeInv', NEW sync \in BOOLEAN, Put(sync)
    PROVE  /\ HeldInv'
           /\ phase = "up" /\ phase' = "up"
           /\ \E e \in Entry : /\ Held' = Held \cup {e}
                               /\ hard' = IF sync THEN hard \cup {e} ELSE hard
<1>1. PICK e \in Entry :
           /\ mem_' = mem_ \cup {e}
           /\ hard' = IF sync THEN hard \cup {e} ELSE hard
           /\ logfile_number_ \in Numbers
           /\ InLog(logfile_number_)' = InLog(logfile_number_) \cup {e}
           /\ Just(Log(logfile_number_))
           /\ sync => Dirs' = {dir} /\ SyncedLog(logfile_number_, data', synced')
                                        = InLog(logfile_number_)'
           /\ ~sync => SyncedLog(logfile_number_, data', synced')
                       = SyncedLog(logfile_number_, data, synced)
  BY PutIs
<1>2. PICK l \in Numbers : l = logfile_number_
  BY <1>1
<1>3. /\ phase = "up" /\ phase' = "up" /\ dir' = dir /\ TypeInv /\ (\A d \in Dirs' : d \in Dirs)
      /\ UNCHANGED <<numberVars, imm_, has_imm_, logfile_number_, openVars, versionVars,
                     bgVars, faults>>
  BY DEF Put, SyncFile, Dirs, StoreInv, DiskInv, openVars
<1>4. /\ dir \in Dirs /\ dir.current # 0 /\ dir.current \in Numbers /\ Runs
  <2>1. Runs /\ dir.current # 0
    BY <1>3 DEF StoreInv, DiskInv, NoDir, Runs
  <2> QED BY <1>3, <2>1, DirsAre, ManifestOf
<1>5. /\ Here' = Here
      /\ synced'[Manifest(dir.current)] = synced[Manifest(dir.current)]
      /\ \A T \in SUBSET Numbers : EntriesOf(T, data') = EntriesOf(T, data)
      /\ \A n \in Numbers : n # l =>
             /\ LogEntries(n, data') = LogEntries(n, data)
             /\ SyncedLog(n, data', synced') = SyncedLog(n, data, synced)
  BY <1>1, <1>2, <1>3, <1>4, LogFramed
<1>6. MayCrash' = MayCrash
  BY <1>3 DEF MayCrash
<1>7. TablesMade' /\ InTables(current_)' = InTables(current_)
  <2>1. ~has_imm_' => imm_' = {}
    BY <1>3 DEF StoreInv, HeldInv, TablesMade
  <2> QED BY <1>3, <1>5, <2>1, TablesMadeKept DEF versionVars, bgVars, numberVars
<1>8. Store' = Store \cup {e}
  BY <1>1, <1>3, <1>7 DEF Store
<1>9. Promise'
  <2> SUFFICES ASSUME MayCrash
               PROVE  AllKeep(Dirs', data', synced', Held', hard')
    BY <1>6 DEF Promise
  <2>1. PICK W : W = Store
    OBVIOUS
  <2>2. PICK X : X = Store'
    OBVIOUS
  <2>3. AllKeep(Dirs', data', synced', X, hard')
    BY <1>1, <1>8, <2>1, <2>2, PutKeeps
  <2> QED BY <1>3, <2>2, <2>3 DEF Held
<1>10. LogsDown' /\ LogsBelow' /\ NextInv' /\ OpenFinds'
  <2>1. LogsDown'
    BY <1>3, <1>5, <1>6 DEF StoreInv, HeldInv, LogsDown
  <2>2. LogsBelow'
    BY <1>3, <1>6
    DEF StoreInv, HeldInv, LogsBelow, LogBelow, Runs, numberVars, openVars
  <2>3. NextInv'
    BY <1>3, <1>5, <1>6 DEF StoreInv, HeldInv, NextInv, Runs, numberVars, openVars, bgVars
  <2> QED BY <1>3, <2>1, <2>2, <2>3 DEF OpenFinds
<1>11. ASSUME MayCrash
       PROVE  UpLogs'
  <2>1. UpMem /\ (\A d \in Dirs : d.current = manifest_file_number_ => UpDir(d)) /\ UpTop
    BY <1>3, <1>11 DEF StoreInv, HeldInv, UpLogs
  <2>2. /\ dir.current = manifest_file_number_ /\ NamedIn(dir, data) \subseteq Numbers
        /\ TablesAt(Here, Top) \subseteq NamedIn(dir, data)
        /\ Top' = Top
    BY <1>3, <1>5, <1>11, UpIs DEF StoreInv, Top
  <2>3. InTables(TablesAt(Here, Top))' = InTables(TablesAt(Here, Top))
    <3>1. PICK T : T = TablesAt(Here, Top)
      OBVIOUS
    <3>2. EntriesOf(T, data') = EntriesOf(T, data)
      BY <1>5, <2>2, <3>1
    <3> QED BY <1>3, <1>5, <2>2, <3>1, <3>2, UpTopKept
  <2>4. UpTop'
    BY <1>3, <1>5, <1>7, <2>1, <2>2, <2>3 DEF UpTop, numberVars, bgVars
  <2>5. UpMem'
    <3>1. has_imm_ => log_number_ \in Numbers /\ log_number_ # l
      <4>1. LogsIn(dir) \subseteq Numbers
        BY <1>3, <1>4, DirsAre, LogsAre
      <4> QED BY <1>2, <2>1, <4>1, NumbersAre DEF UpMem
    <3>2. has_imm_ => InLog(log_number_)' = InLog(log_number_)
      <4> SUFFICES ASSUME has_imm_
                   PROVE  InLog(log_number_)' = InLog(log_number_)
        OBVIOUS
      <4>1. InLog(log_number_)' = LogEntries(log_number_, data')
        BY <1>3 DEF InLog, LogEntries, numberVars
      <4> QED BY <1>5, <3>1, <4>1, InTablesAre
    <3>3. InLog(logfile_number_)' = mem_'
      BY <1>1, <2>1 DEF UpMem
    <3>4. LogsIn(dir)' = LogsIn(dir)
      BY <1>3
    <3> QED BY <1>3, <2>1, <3>2, <3>3, <3>4 DEF UpMem, numberVars
  <2>6. ASSUME NEW d \in Dirs', d.current = manifest_file_number_'
        PROVE  UpDir(d)'
    <3>1. UpDir(d) /\ log_number_' = log_number_ /\ d \in Dirs
      BY <1>3, <2>1, <2>6 DEF numberVars
    <3>2. LogsFrom(d, log_number_) \subseteq Numbers
      BY <1>3, <3>1, DirsAre, LogsAre DEF LogsFrom, LogsIn
    <3> DEFINE U == UNION {SyncedLog(n, data, synced) : n \in LogsFrom(d, log_number_)}
               V == UNION {SyncedLog(n, data', synced') : n \in LogsFrom(d, log_number_)}
    <3>3. SyncedLog(l, data, synced) \subseteq SyncedLog(l, data', synced')
      <4>1. SyncedLog(l, data, synced) \subseteq InLog(l)
        BY <1>3, SyncedIn, InTablesAre
      <4> QED BY <1>1, <1>2, <4>1
    <3>4. U \subseteq V
      BY <1>5, <3>2, <3>3
    <3>5. sync => e \in V
      <4> SUFFICES ASSUME sync
                   PROVE  e \in V
        OBVIOUS
      <4>1. d = dir
        BY <1>1, <2>6
      <4>2. l \in LogsIn(dir) /\ e \in SyncedLog(l, data', synced')
        BY <1>1, <1>2, <2>1 DEF UpMem
      <4>3. log_number_ <= l
        BY <1>2, <1>3, <2>1, NumbersAre DEF UpMem, TypeInv, NumberType
      <4>4. l \in LogsFrom(dir, log_number_)
        BY <4>2, <4>3 DEF LogsFrom, LogsIn
      <4> QED BY <4>1, <4>2, <4>4
    <3>6. hard' \subseteq InTables(current_) \cup V
      BY <1>1, <3>1, <3>4, <3>5 DEF UpDir
    <3> QED BY <1>3, <1>7, <3>1, <3>6 DEF UpDir
  <2> QED BY <2>4, <2>5, <2>6 DEF UpLogs
<1>12. UpLogs'
  BY <1>6, <1>11 DEF UpLogs
<1>13. Held' = Held \cup {e}
  BY <1>3, <1>8 DEF Held
<1> QED BY <1>1, <1>3, <1>7, <1>9, <1>10, <1>12, <1>13 DEF HeldInv

-----------------------------------------------------------------------------
(***************************************************************************)
(* A new log and a new memtable.                                           *)
(***************************************************************************)

\* A new log.
LEMMA LogCreated ==
    ASSUME StoreInv, TypeInv', Runs, NEW n \in Numbers,
           NewFileNumber(n), ChangeDir(Create(Log(n))), Written(Log(n), <<>>)
    PROVE  /\ Just(Log(n)) /\ data'[Log(n)] = <<>> /\ LogEntries(n, data') = {}
           /\ LogsIn(dir') = LogsIn(dir) \cup {n} /\ Dirs' \subseteq Dirs \cup {dir'}
           /\ dir'.current = dir.current
           /\ \A N \in Nat : N < next_file_number_ => N # n
<1>1. TypeInv /\ n = next_file_number_ /\ n \in Nat
  BY NextNumber, NumbersAre DEF StoreInv, DiskInv
<1>2. Dirs' \subseteq Dirs \cup {dir'} /\ dir' = Create(Log(n))
  BY ChangeDirIs
<1>3. Just(Log(n)) /\ data'[Log(n)] = <<>>
  <2>1. Log(n) \in Files
    BY FileIs
  <2> QED BY <1>1, <1>2, <2>1, JustIs DEF Written, TypeInv, DiskType, FilesOK
<1>4. LogEntries(n, data') = {}
  BY <1>3 DEF LogEntries
<1>5. LogsIn(dir') = LogsIn(dir) \cup {n}
  <2>1. dir \in DirType /\ dir' \in DirType
    BY <1>1 DEF TypeInv, DirsOK
  <2>2. dir'.files = dir.files \cup {Log(n)}
    BY <1>2, <2>1 DEF Create, DirType
  <2>3. \A m : Log(m) = Log(n) => m = n
    BY DEF Log
  <2>4. \A m : m \in LogsIn(dir') <=> m \in LogsIn(dir) \cup {n}
    BY <2>1, <2>2, <2>3, LogsAre
  <2> QED BY <2>4
<1> QED BY <1>1, <1>2, <1>3, <1>4, <1>5 DEF Just, Only

LEMMA HeldSwitchMemTable ==
    ASSUME StoreInv, TypeInv', SwitchMemTable
    PROVE  HeldInv' /\ Stutters
<1>1. PICK n \in Numbers :
           /\ NewFileNumber(n) /\ ChangeDir(Create(Log(n))) /\ Written(Log(n), <<>>)
           /\ logfile_number_' = n
  BY DEF SwitchMemTable
<1>2. /\ phase = "up" /\ phase' = "up" /\ ~has_imm_ /\ imm_' = mem_ /\ has_imm_' = TRUE
      /\ mem_' = {}
      /\ UNCHANGED <<log_number_, manifest_file_number_, has_descriptor_, last_sequence_,
                   openVars, versionVars, bgVars, historyVars>>
  BY DEF SwitchMemTable, openVars
<1>3. TypeInv /\ Runs /\ dir.current # 0 /\ dir \in Dirs /\ dir.current \in Numbers
  <2>1. TypeInv /\ Runs /\ dir.current # 0
    BY <1>2 DEF StoreInv, DiskInv, NoDir, Runs
  <2> QED BY <2>1, DirsAre, ManifestOf
<1>4. /\ Just(Log(n)) /\ data'[Log(n)] = <<>> /\ LogEntries(n, data') = {}
      /\ LogsIn(dir') = LogsIn(dir) \cup {n} /\ Dirs' \subseteq Dirs \cup {dir'}
      /\ dir'.current = dir.current
  BY <1>1, <1>3, LogCreated
<1>5. /\ n = next_file_number_ /\ next_file_number_' = n + 1 /\ n \in Nat
      /\ next_file_number_ <= next_file_number_' /\ n < next_file_number_'
      /\ logfile_number_ \in Nat /\ logfile_number_ < n /\ logfile_number_ # 0
      /\ log_number_ \in Nat
  BY <1>1, <1>2, <1>3, NextNumber, NumbersAre
  DEF StoreInv, HeldInv, LogsBelow, TypeInv, NumberType, PhaseType
<1>6. /\ Here' = Here
      /\ synced'[Manifest(dir.current)] = synced[Manifest(dir.current)]
      /\ \A T \in SUBSET Numbers : EntriesOf(T, data') = EntriesOf(T, data)
      /\ \A m \in Numbers : m # n =>
             /\ LogEntries(m, data') = LogEntries(m, data)
             /\ SyncedLog(m, data', synced') = SyncedLog(m, data, synced)
  BY <1>3, <1>4, LogFramed
<1>7. MayCrash' = MayCrash
  BY <1>2 DEF MayCrash, historyVars
<1>8. ASSUME MayCrash, NEW d \in Dirs, NEW m \in LogsIn(d)
      PROVE  m \in Numbers /\ m < n /\ m <= logfile_number_
  <2>1. m \in Numbers /\ m \in Nat
    BY <1>3, <1>8, DirsAre, LogsAre, NumbersAre
  <2>2. m <= logfile_number_
    BY <1>2, <1>3, <1>5, <1>8 DEF StoreInv, HeldInv, LogsBelow, LogBelow
  <2> QED BY <1>5, <2>1, <2>2
<1>9. TablesMade' /\ InTables(current_)' = InTables(current_)
  <2>1. apply.owner # "flush"
    BY <1>2 DEF StoreInv, HeldInv, TablesMade
  <2> QED BY <1>2, <1>6, <2>1, TablesMadeKept DEF versionVars, bgVars
<1>10. Store' = Store
  <2>1. imm_ = {}
    BY <1>2 DEF StoreInv, HeldInv, TablesMade
  <2> QED BY <1>2, <1>9, <2>1 DEF Store
<1>11. Stutters
  BY <1>2, <1>10 DEF Stutters, Held, historyVars
<1>12. Promise'
  <2> SUFFICES ASSUME MayCrash
               PROVE  AllKeep(Dirs', data', synced', Held', hard')
    BY <1>7 DEF Promise
  <2>1. PICK W : W = Held
    OBVIOUS
  <2>2. PICK h : h = hard
    OBVIOUS
  <2>3. PICK f : f = Log(n)
    OBVIOUS
  <2>4. AllKeep(Dirs, data, synced, W, h)
    BY <2>1, <2>2 DEF StoreInv, HeldInv, Promise
  <2>5. NoLogOf(Dirs, f)
    <3>1. \A d \in Dirs : n \notin LogsIn(d)
      BY <1>5, <1>8
    <3>2. \A m : f = Log(m) => m = n
      BY <2>3 DEF Log
    <3> QED BY <1>4, <2>3, <3>1, <3>2 DEF NoLogOf
  <2>6. \A d \in Dirs : f \notin Uses(d, data)
    BY <1>3, <2>3, NotUsed
  <2>7. AllKeep(Dirs', data', synced', W, h)
    BY <1>3, <1>4, <2>3, <2>4, <2>5, <2>6, PromiseFramed
  <2> QED BY <1>11, <2>1, <2>2, <2>7 DEF Stutters
<1>13. LogsDown'
  <2>1. MayCrash => Here[Len(Here)].next \in Nat
    BY <1>2, UpIs DEF StoreInv, Top
  <2> QED BY <1>3, <1>4, <1>6, <1>7, <2>1, LogsDownFramed DEF StoreInv, HeldInv
<1>14. LogsBelow'
  <2>1. ASSUME MayCrash, NEW d \in Dirs', NEW m \in LogsIn(d)
        PROVE  m <= n
    <3>1. m = n \/ \E e \in Dirs : m \in LogsIn(e)
      BY <1>3, <1>4, <2>1
    <3>2. m = n \/ (m \in Nat /\ m < n)
      BY <1>8, <2>1, <3>1, NumbersAre
    <3> QED BY <1>5, <3>2
  <2> QED BY <1>1, <1>2, <1>5, <1>7, <2>1, NumbersAre DEF LogsBelow, LogBelow
<1>15. NextInv'
  BY <1>2, <1>5, <1>6, <1>7, NextKept DEF Runs, bgVars
<1>16. ASSUME MayCrash
       PROVE  UpLogs'
  <2>1. UpMem /\ (\A d \in Dirs : d.current = manifest_file_number_ => UpDir(d)) /\ UpTop
    BY <1>2, <1>16 DEF StoreInv, HeldInv, UpLogs
  <2>2. log_number_ = logfile_number_ /\ InLog(log_number_) = mem_ /\ log_number_ \in LogsIn(dir)
    BY <1>2, <2>1 DEF UpMem
  <2>3. /\ dir.current = manifest_file_number_ /\ NamedIn(dir, data) \subseteq Numbers
        /\ TablesAt(Here, Top) \subseteq NamedIn(dir, data)
        /\ Top' = Top /\ Top \in Nat /\ Top > 0 /\ synced[Manifest(dir.current)] <= Top
        /\ \A k \in 1..Top : Here[k].log \in Nat
    BY <1>2, <1>6, <1>16, UpIs DEF StoreInv, Top
  <2>4. UpMem'
    <3>1. log_number_ \in Numbers /\ log_number_ # n
      BY <1>3, <1>5, <1>8, <1>16, <2>2
    <3>2. InLog(log_number_)' = InLog(log_number_)
      <4>1. InLog(log_number_)' = LogEntries(log_number_, data')
        BY <1>2 DEF InLog, LogEntries
      <4> QED BY <1>6, <3>1, <4>1, InTablesAre
    <3>3. InLog(logfile_number_)' = {}
      <4>1. InLog(logfile_number_)' = LogEntries(n, data')
        BY <1>1 DEF InLog, LogEntries
      <4> QED BY <1>4, <4>1
    <3>4. log_number_' < logfile_number_' /\ log_number_' \in LogsIn(dir') /\ n \in LogsIn(dir')
      BY <1>1, <1>2, <1>4, <1>5, <2>2
    <3> QED BY <1>1, <1>2, <2>2, <3>2, <3>3, <3>4 DEF UpMem
  <2>5. ASSUME NEW e \in Dirs', e.current = manifest_file_number_'
        PROVE  UpDir(e)'
    <3>1. PICK d \in Dirs : /\ d.current = manifest_file_number_ /\ LogsIn(d) \subseteq LogsIn(e)
                            /\ LogsIn(e) \subseteq LogsIn(d) \cup {n}
      BY <1>2, <1>3, <1>4, <2>3, <2>5
    <3>2. UpDir(d) /\ LogsFrom(d, log_number_) \subseteq LogsFrom(e, log_number_)
          /\ LogsFrom(e, log_number_) \subseteq LogsFrom(d, log_number_) \cup {n}
      BY <2>1, <3>1 DEF LogsFrom, LogsIn
    <3>3. \A m \in LogsFrom(d, log_number_) : m \in Numbers /\ m # n
      BY <1>5, <1>8, <1>16, <3>1 DEF LogsFrom, LogsIn
    <3> DEFINE U == UNION {SyncedLog(m, data, synced) : m \in LogsFrom(d, log_number_)}
               V == UNION {SyncedLog(m, data', synced') : m \in LogsFrom(e, log_number_)}
    <3>4. U \subseteq V
      BY <1>6, <3>2, <3>3
    <3>5. hard \subseteq InTables(current_) \cup U
      BY <3>2 DEF UpDir
    <3>6. LogsFrom(e, log_number_) \subseteq {log_number_, n}
      BY <2>2, <3>2 DEF UpDir
    <3>7. hard' \subseteq InTables(current_)' \cup V
      BY <1>2, <1>9, <3>4, <3>5 DEF historyVars
    <3> QED BY <1>1, <1>2, <3>6, <3>7 DEF UpDir
  <2>6. UpTop'
    <3>1. InTables(TablesAt(Here, Top))' = InTables(TablesAt(Here, Top))
      <4>1. PICK T : T = TablesAt(Here, Top)
        OBVIOUS
      <4>2. EntriesOf(T, data') = EntriesOf(T, data)
        BY <1>6, <2>3, <4>1
      <4> QED BY <1>3, <1>6, <2>3, <4>1, <4>2, UpTopKept
    <3>2. ASSUME NEW k \in 1..Top, synced[Manifest(dir.current)] <= k
          PROVE  Here[k].log <= n /\ Here[k].log <= log_number_
      <4>1. Here[k].log <= logfile_number_ /\ Here[k].log \in Nat
        BY <2>1, <2>3, <3>2 DEF UpTop
      <4> QED BY <1>5, <2>2, <4>1
    <3>3. Here[Top].log <= log_number_
      BY <2>3, <3>2
    <3> QED BY <1>1, <1>2, <1>6, <1>9, <2>1, <2>3, <3>1, <3>2, <3>3 DEF UpTop, bgVars
  <2> QED BY <2>4, <2>5, <2>6 DEF UpLogs
<1>17. UpLogs' /\ OpenFinds'
  BY <1>2, <1>7, <1>16 DEF UpLogs, OpenFinds
<1> QED BY <1>9, <1>11, <1>12, <1>13, <1>14, <1>15, <1>17 DEF HeldInv

-----------------------------------------------------------------------------
(***************************************************************************)
(* LogAndApply ends.                                                       *)
(***************************************************************************)

\* DeleteObsoleteFiles leaves the logs from log_number_ on.
LEMMA DeleteLogs ==
    ASSUME TypeInv, TypeInv', DeleteObsoleteFiles
    PROVE  /\ LogsIn(dir') \subseteq LogsIn(dir) /\ dir'.current = dir.current
           /\ \A n \in LogsIn(dir) : n >= log_number_' => n \in LogsIn(dir')
           /\ bg_error_' => dir' = dir /\ Dirs' = Dirs
           /\ Dirs' \subseteq Dirs \cup {dir'}
<1>1. dir'.current = dir.current /\ Dirs' \subseteq Dirs \cup {dir'}
  BY DeleteLeaves
<1>2. CASE bg_error_'
  BY <1>2 DEF DeleteObsoleteFiles, Dirs
<1>3. CASE ~bg_error_'
  <2>1. PICK d : d = [dir EXCEPT !.files = @ \ Obsolete]
    OBVIOUS
  <2>2. dir' = d
    BY <1>3, <2>1, ChangeDirIs DEF DeleteObsoleteFiles
  <2>3. dir' \in DirType /\ dir \in DirType /\ dir'.files = dir.files \ Obsolete
    BY <2>1, <2>2 DEF TypeInv, DirsOK, DirType
  <2>4. ASSUME NEW n, n \in LogsIn(dir), n >= log_number_'
        PROVE  Log(n) \notin Obsolete
    <3>1. n \in Nat /\ log_number_' \in Nat
      BY <2>3, <2>4, LogsAre, NumbersAre DEF TypeInv, NumberType
    <3>2. Log(n)[1] = "log" /\ Log(n)[2] = n
      BY DEF Log
    <3> QED BY <2>4, <3>1, <3>2 DEF Obsolete
  <2>5. \A n : n \in LogsIn(dir') => n \in LogsIn(dir)
    BY <2>3, LogsAre
  <2>6. \A n \in LogsIn(dir) : n >= log_number_' => n \in LogsIn(dir')
    BY <2>3, <2>4, LogsAre
  <2> QED BY <1>1, <1>3, <2>5, <2>6
<1> QED BY <1>2, <1>3, <1>1

LEMMA KeepsDeleted ==
    ASSUME NEW d, NEW e, NEW D, NEW S, NEW W, NEW h, NEW l, Keeps(d, D, S, W, h),
           d.current # 0, e.current = d.current,
           Len(D[Manifest(d.current)]) \in Nat,
           S[Manifest(d.current)] = Len(D[Manifest(d.current)]),
           D[Manifest(d.current)][Len(D[Manifest(d.current)])].log = l,
           LogsIn(e) \subseteq LogsIn(d), \A n \in LogsIn(d) : n >= l => n \in LogsIn(e)
    PROVE  Keeps(e, D, S, W, h)
<1> DEFINE R == D[Manifest(d.current)]
<1>1. SUFFICES ASSUME NEW k \in 1..Len(R), S[Manifest(d.current)] <= k
               PROVE  /\ h \subseteq Least(k, e, D, S) /\ Most(k, e, D) \subseteq W
                      /\ LogAt(k, R)
  BY DEF Keeps
<1>2. k = Len(R)
  BY <1>1
<1>3. LogsFrom(e, R[k].log) = LogsFrom(d, R[k].log)
  BY <1>2 DEF LogsFrom, LogsIn
<1>4. h \subseteq Least(k, d, D, S) /\ Most(k, d, D) \subseteq W /\ LogAt(k, R)
  BY <1>1 DEF Keeps
<1> QED BY <1>3, <1>4 DEF Least, Most

\* A version is installed, from the last record of the MANIFEST.
LEMMA InstallHeld ==
    ASSUME StoreInv, TypeInv', apply.pc = "install", apply'.pc = "none", Runs, phase' = "up",
           DeleteObsoleteFiles,
           UNCHANGED <<data, synced, manifest_file_number_, next_file_number_, logfile_number_,
                       faults, bg_error_, hard>>,
           Held' = Held, MayCrash => Here[Len(Here)].log = log_number_'
    PROVE  Promise' /\ LogsDown' /\ LogsBelow' /\ NextInv' /\ OpenFinds'
<1>1. TypeInv /\ dir \in Dirs /\ dir.current # 0 /\ dir.current \in Numbers
      /\ (MayCrash' => MayCrash) /\ logfile_number_ # 0
  <2>1. TypeInv /\ dir.current # 0 /\ (MayCrash' => MayCrash) /\ logfile_number_ # 0
    BY DEF StoreInv, DiskInv, NoDir, Runs, MayCrash, TypeInv, PhaseType
  <2> QED BY <2>1, DirsAre, ManifestOf
<1>2. /\ LogsIn(dir') \subseteq LogsIn(dir) /\ dir'.current = dir.current
      /\ \A n \in LogsIn(dir) : n >= log_number_' => n \in LogsIn(dir')
      /\ bg_error_ => dir' = dir /\ Dirs' = Dirs
      /\ \A e \in Dirs' : e \in Dirs \/ e = dir'
  BY <1>1, DeleteLogs
<1>3. Here' = Here
  BY <1>2 DEF Here
<1>4. ASSUME MayCrash
      PROVE  /\ GoodDir(dir, data, synced) /\ Keeps(dir, data, synced, Held, hard)
             /\ AllKeep(Dirs, data, synced, Held, hard)
  BY <1>1, <1>4 DEF StoreInv, HeldInv, Promise, AllKeep, DiskInv, DirsGood, AllGood
<1>5. ASSUME MayCrash
      PROVE  /\ Len(Here) \in Nat /\ Len(Here) > 0 /\ LogAt(Len(Here), Here)
             /\ synced[Manifest(dir.current)] <= Len(Here)
             /\ ~bg_error_ => synced[Manifest(dir.current)] = Len(Here)
             /\ Here[Len(Here)].next \in Nat /\ Here[Len(Here)].log \in Nat
  <2>1. PICK W : W = Held
    OBVIOUS
  <2>2. PICK h : h = hard
    OBVIOUS
  <2>3. Keeps(dir, data, synced, W, h)
    BY <1>4, <1>5, <2>1, <2>2
  <2>4. /\ Len(Here) \in Nat /\ Len(Here) > 0 /\ LogAt(Len(Here), Here)
        /\ synced[Manifest(dir.current)] <= Len(Here)
    BY <1>1, <1>4, <1>5, <2>3, RecoverableIs
  <2>5. dir.current = manifest_file_number_ /\ has_descriptor_
    BY <1>5 DEF StoreInv, DiskInv, Descriptor, Runs
  <2>6. ~bg_error_ => synced[Manifest(dir.current)] = Len(Here)
    BY <1>5, <2>5 DEF StoreInv, DiskInv, Replay, Here, Mine
  <2>7. Here[Len(Here)] \in EditsTo(writes)
    <3>1. Here \in Seq(EditsTo(writes)) /\ DOMAIN Here = 1..Len(Here)
      BY <1>1, ManifestOf DEF Here
    <3> QED BY <2>4, <3>1, ElementOfSeq
  <2> QED BY <2>4, <2>6, <2>7 DEF EditsTo
<1>6. Promise'
  <2> SUFFICES ASSUME MayCrash, NEW e \in Dirs'
               PROVE  Keeps(e, data, synced, Held, hard)
    BY <1>1 DEF Promise, AllKeep
  <2>1. CASE e \in Dirs
    BY <1>4, <2>1 DEF AllKeep
  <2>2. CASE e = dir' /\ ~bg_error_
    BY <1>1, <1>2, <1>4, <1>5, <2>2, KeepsDeleted DEF Here
  <2> QED BY <1>2, <2>1, <2>2
<1>7. LogsDown'
  <2> SUFFICES ASSUME MayCrash, NEW e \in Dirs', NEW n \in LogsIn(e)
               PROVE  n < Here[Len(Here)].next \/ n \in LogsIn(dir')
    BY <1>1, <1>3 DEF LogsDown
  <2>1. PICK d \in Dirs : n \in LogsIn(d)
    BY <1>1, <1>2
  <2>2. n < Here[Len(Here)].next \/ n \in LogsIn(dir)
    BY <1>1, <2>1 DEF StoreInv, HeldInv, LogsDown
  <2>3. n \in Nat
    BY <1>1, <2>1, DirsAre, LogsAre, NumbersAre
  <2>4. Here[Len(Here)].log = log_number_' /\ Here[Len(Here)].log <= Here[Len(Here)].next
    BY <1>5 DEF LogAt
  <2>5. CASE n >= log_number_'
    BY <1>2, <2>2, <2>5
  <2>6. CASE n < log_number_'
    BY <1>5, <2>3, <2>4, <2>6
  <2> QED BY <1>5, <2>3, <2>4, <2>5, <2>6
<1>8. LogsBelow'
  <2>1. LogsBelow /\ logfile_number_ < next_file_number_
    BY DEF StoreInv, HeldInv, LogsBelow
  <2>2. ASSUME MayCrash, NEW e \in Dirs', NEW n \in LogsIn(e)
        PROVE  n <= logfile_number_
    <3>1. PICK d \in Dirs : n \in LogsIn(d)
      BY <1>1, <1>2, <2>2
    <3> QED BY <1>1, <2>1, <2>2, <3>1 DEF LogsBelow, LogBelow
  <2> QED BY <1>1, <2>1, <2>2 DEF LogsBelow, LogBelow
<1>9. NextInv'
  <2>1. next_file_number_ <= next_file_number_
    BY <1>1, NumbersKept
  <2> QED BY <1>1, <1>3, <2>1, NextKept
<1> QED BY <1>6, <1>7, <1>8, <1>9 DEF OpenFinds

LEMMA TablesOfFew ==
    /\ \A S, T : InTables(S \cup T) = InTables(S) \cup InTables(T)
    /\ \A n : InTables({n}) = Contents(n)
    /\ \A S, T : S \subseteq T => InTables(S) \subseteq InTables(T)
    /\ InTables({}) = {}
BY DEF InTables

LEMMA SameTables ==
    ASSUME data' = data, NEW T
    PROVE  /\ InTables(T)' = InTables(T') /\ (\A n : InLog(n)' = InLog(n'))
BY DEF InTables, Contents, InLog

\* Directories of the MANIFEST of the process, after DeleteObsoleteFiles.
LEMMA DirsDeleted ==
    ASSUME StoreInv, TypeInv', phase = "up", MayCrash, DeleteObsoleteFiles,
           manifest_file_number_' = manifest_file_number_,
           NEW e \in Dirs', e.current = manifest_file_number_
    PROVE  \E d \in Dirs : /\ d.current = manifest_file_number_ /\ UpDir(d)
                           /\ LogsIn(e) \subseteq LogsIn(d) /\ LogsIn(d) \subseteq Numbers
                           /\ \A n \in LogsIn(d) : n >= log_number_' => n \in LogsIn(e)
<1>1. TypeInv /\ dir \in Dirs
  BY DirsAre DEF StoreInv, DiskInv
<1>2. /\ LogsIn(dir') \subseteq LogsIn(dir) /\ dir'.current = dir.current
      /\ \A n \in LogsIn(dir) : n >= log_number_' => n \in LogsIn(dir')
      /\ e \in Dirs \/ e = dir'
  BY <1>1, DeleteLogs
<1>3. \A d \in Dirs : d.current = manifest_file_number_ => UpDir(d)
  BY DEF StoreInv, HeldInv, UpLogs
<1>4. \A d \in Dirs : LogsIn(d) \subseteq Numbers
  BY <1>1, DirsAre, LogsAre
<1>5. CASE e \in Dirs
  BY <1>3, <1>4, <1>5
<1>6. CASE e = dir'
  BY <1>1, <1>2, <1>3, <1>4, <1>6
<1> QED BY <1>2, <1>5, <1>6

LEMMA HeldInstallFlush ==
    ASSUME StoreInv, TypeInv', InstallFlush
    PROVE  HeldInv' /\ Stutters
<1>1. /\ apply.owner = "flush" /\ apply.pc = "install" /\ DeleteObsoleteFiles
      /\ apply' = NoApply /\ log_number_' = apply.edit.log
      /\ current_' = (current_ \ apply.edit.del) \cup apply.edit.add
      /\ imm_' = {} /\ has_imm_' = FALSE /\ flush' = 0
      /\ UNCHANGED <<data, synced, manifest_file_number_, next_file_number_, has_descriptor_,
                     mem_, logfile_number_, last_sequence_, openVars, pinned,
                     pending_outputs_, c, bg_error_, historyVars>>
  BY DEF InstallFlush, Install
<1>2. TypeInv /\ phase = "up" /\ phase' = "up" /\ Runs
  BY <1>1 DEF StoreInv, DiskInv, TypeInv, PhaseType, openVars, Runs
<1>3. /\ has_imm_ /\ Contents(flush) = imm_ /\ log_number_' = logfile_number_
      /\ apply.edit.log = logfile_number_
      /\ current_' = current_ \cup {flush}
      /\ apply'.pc = "none" /\ apply'.owner = "open"
  BY <1>1 DEF StoreInv, HeldInv, TablesMade, DiskInv, EditInv, NoApply
<1>4. InTables(current_)' = InTables(current_) \cup imm_
  <2>1. InTables(current_)' = InTables(current_')
    BY <1>1 DEF InTables, Contents
  <2>2. InTables(current_') = InTables(current_) \cup InTables({flush})
    BY <1>3, TablesOfFew
  <2> QED BY <1>3, <2>1, <2>2, TablesOfFew
<1>5. Store' = Store
  BY <1>1, <1>4 DEF Store
<1>6. Held' = Held /\ hard' = hard /\ Stutters
  BY <1>1, <1>2, <1>5 DEF Held, Stutters, historyVars
<1>7. MayCrash => Here[Len(Here)].log = log_number_'
  BY <1>1, <1>2 DEF StoreInv, HeldInv, UpLogs, UpTop, Top
<1>8. Promise' /\ LogsDown' /\ LogsBelow' /\ NextInv' /\ OpenFinds'
  BY <1>1, <1>2, <1>3, <1>6, <1>7, InstallHeld DEF historyVars
<1>9. TablesMade'
  <2>1. c # None => c.base \subseteq current_'
    BY <1>3 DEF StoreInv, HeldInv, TablesMade
  <2> QED BY <1>1, <1>2, <1>3, <2>1 DEF TablesMade
<1>10. ASSUME MayCrash
       PROVE  UpLogs'
  <2>1. UpMem /\ UpTop
    BY <1>2, <1>10 DEF StoreInv, HeldInv, UpLogs
  <2>2. /\ dir.current = manifest_file_number_ /\ Here' = Here /\ Top' = Top /\ dir \in Dirs
        /\ LogsIn(dir) \subseteq Numbers
        /\ LogsIn(dir') \subseteq LogsIn(dir)
        /\ \A n \in LogsIn(dir) : n >= log_number_' => n \in LogsIn(dir')
    <3>1. dir.current = manifest_file_number_ /\ dir \in Dirs
      BY <1>2, <1>10, UpIs DEF StoreInv
    <3>2. dir'.current = dir.current
      BY <1>1, <1>2, DeleteLogs
    <3>3. Here' = Here
      BY <1>1, <3>2 DEF Here
    <3> QED BY <1>1, <1>2, <3>1, <3>3, DirsAre, LogsAre, DeleteLogs DEF Top
  <2>3. /\ logfile_number_ \in LogsIn(dir) /\ InLog(logfile_number_) = mem_
        /\ log_number_ < logfile_number_ /\ log_number_ \in LogsIn(dir)
        /\ InLog(log_number_) = imm_
        /\ logfile_number_ \in Nat /\ log_number_ \in Nat
        /\ log_number_ \in Numbers
    BY <1>3, <2>1, <2>2, NumbersAre DEF UpMem
  <2>4. UpMem'
    <3>1. logfile_number_ \in LogsIn(dir')
      BY <1>3, <2>2, <2>3
    <3>2. InLog(logfile_number_)' = mem_'
      BY <1>1, <2>3 DEF InLog
    <3> QED BY <1>1, <1>3, <3>1, <3>2 DEF UpMem
  <2>5. ASSUME NEW e \in Dirs', e.current = manifest_file_number_'
        PROVE  UpDir(e)'
    <3>1. PICK d \in Dirs :
              /\ UpDir(d) /\ LogsIn(e) \subseteq LogsIn(d) /\ LogsIn(d) \subseteq Numbers
              /\ \A n \in LogsIn(d) : n >= log_number_' => n \in LogsIn(e)
      BY <1>1, <1>2, <1>10, <2>5, DirsDeleted
    <3>2. LogsFrom(e, logfile_number_) \subseteq {logfile_number_}
      <4>1. \A n \in LogsFrom(e, logfile_number_) :
                n \in LogsFrom(d, log_number_) /\ n >= logfile_number_
        <5>1. \A n \in LogsFrom(e, logfile_number_) : n \in LogsIn(d) /\ n >= logfile_number_ /\ n \in Nat
          BY <3>1, NumbersAre DEF LogsFrom, LogsIn
        <5>2. \A n \in LogsFrom(e, logfile_number_) : n >= log_number_
          BY <2>3, <5>1
        <5> QED BY <5>1, <5>2 DEF LogsFrom, LogsIn
      <4> QED BY <2>3, <3>1, <4>1 DEF UpDir
    <3>3. SyncedLog(log_number_, data, synced) \subseteq imm_
      BY <1>2, <2>3, SyncedIn, InTablesAre
    <3>4. logfile_number_ \in LogsFrom(d, log_number_) =>
              logfile_number_ \in LogsFrom(e, logfile_number_)
      BY <1>3, <2>3, <3>1 DEF LogsFrom, LogsIn
    <3> DEFINE U == UNION {SyncedLog(n, data, synced) : n \in LogsFrom(d, log_number_)}
               V == UNION {SyncedLog(n, data, synced) : n \in LogsFrom(e, logfile_number_)}
    <3>5. U \subseteq imm_ \cup V
      BY <3>1, <3>3, <3>4 DEF UpDir
    <3>6. hard \subseteq InTables(current_) \cup imm_ \cup V
      BY <3>1, <3>5 DEF UpDir
    <3>7. hard' \subseteq InTables(current_)' \cup V
      BY <1>4, <1>6, <3>6
    <3> QED BY <1>1, <1>3, <3>2, <3>7 DEF UpDir
  <2>6. UpTop'
    <3>1. Here[Top].log = logfile_number_
      BY <1>1, <1>3, <2>1 DEF UpTop
    <3>2. imm_ \subseteq InTables(TablesAt(Here, Top))
      BY <1>3, <2>1, <2>3, <3>1 DEF UpTop
    <3>3. InTables(TablesAt(Here, Top))' = InTables(TablesAt(Here, Top))
      BY <1>1, <2>2 DEF InTables, Contents
    <3>4. InTables(current_)' \subseteq InTables(TablesAt(Here, Top))'
      BY <1>4, <2>1, <3>2, <3>3 DEF UpTop
    <3> QED BY <1>1, <1>3, <2>1, <2>2, <3>4 DEF UpTop
  <2> QED BY <2>4, <2>5, <2>6 DEF UpLogs
<1>11. UpLogs'
  BY <1>1, <1>10 DEF UpLogs, MayCrash, openVars, historyVars
<1> QED BY <1>6, <1>8, <1>9, <1>11 DEF HeldInv

LEMMA HeldInstallCompaction ==
    ASSUME StoreInv, TypeInv', InstallCompaction
    PROVE  HeldInv' /\ Stutters
<1>1. /\ apply.owner = "compaction" /\ apply.pc = "install" /\ DeleteObsoleteFiles
      /\ apply' = NoApply /\ log_number_' = apply.edit.log
      /\ current_' = (current_ \ apply.edit.del) \cup apply.edit.add
      /\ c' = None
      /\ UNCHANGED <<data, synced, manifest_file_number_, next_file_number_, has_descriptor_,
                     memVars, openVars, pinned, flush, bg_error_, historyVars>>
  BY DEF InstallCompaction, Install
<1>2. TypeInv /\ phase = "up" /\ phase' = "up" /\ Runs /\ c # None
  BY <1>1 DEF StoreInv, DiskInv, TypeInv, PhaseType, openVars, Runs
<1>3. /\ Contents(c.output) = InTables(c.base) /\ log_number_' = log_number_
      /\ apply.edit.log = log_number_ /\ c.base \subseteq current_
      /\ current_' = (current_ \ c.base) \cup {c.output}
      /\ apply'.pc = "none" /\ apply'.owner = "open"
  BY <1>1, <1>2 DEF StoreInv, HeldInv, TablesMade, DiskInv, EditInv, NoApply
<1>4. InTables(current_)' = InTables(current_)
  <2>1. InTables(current_)' = InTables(current_')
    BY <1>1 DEF InTables, Contents
  <2>2. InTables(current_') = InTables(current_ \ c.base) \cup InTables({c.output})
    BY <1>3, TablesOfFew
  <2>3. InTables((current_ \ c.base) \cup c.base) = InTables(current_ \ c.base) \cup InTables(c.base)
    BY TablesOfFew
  <2>4. (current_ \ c.base) \cup c.base = current_
    BY <1>3
  <2> QED BY <1>3, <2>1, <2>2, <2>3, <2>4, TablesOfFew
<1>5. Store' = Store
  BY <1>1, <1>4 DEF Store, memVars
<1>6. Held' = Held /\ hard' = hard /\ Stutters
  BY <1>1, <1>2, <1>5 DEF Held, Stutters, historyVars
<1>7. MayCrash => Here[Len(Here)].log = log_number_'
  BY <1>1, <1>2 DEF StoreInv, HeldInv, UpLogs, UpTop, Top
<1>8. Promise' /\ LogsDown' /\ LogsBelow' /\ NextInv' /\ OpenFinds'
  BY <1>1, <1>2, <1>3, <1>6, <1>7, InstallHeld DEF historyVars, memVars
<1>9. TablesMade'
  BY <1>1, <1>2, <1>3 DEF StoreInv, HeldInv, TablesMade, memVars
<1>10. ASSUME MayCrash
       PROVE  UpLogs'
  <2>1. UpMem /\ UpTop
    BY <1>2, <1>10 DEF StoreInv, HeldInv, UpLogs
  <2>2. /\ dir.current = manifest_file_number_ /\ Here' = Here /\ Top' = Top /\ dir \in Dirs
        /\ LogsIn(dir) \subseteq Numbers
        /\ LogsIn(dir') \subseteq LogsIn(dir)
        /\ \A n \in LogsIn(dir) : n >= log_number_' => n \in LogsIn(dir')
    <3>1. dir.current = manifest_file_number_ /\ dir \in Dirs
      BY <1>2, <1>10, UpIs DEF StoreInv
    <3>2. dir'.current = dir.current
      BY <1>1, <1>2, DeleteLogs
    <3>3. Here' = Here
      BY <1>1, <3>2 DEF Here
    <3> QED BY <1>1, <1>2, <3>1, <3>3, DirsAre, LogsAre, DeleteLogs DEF Top
  <2>3. /\ logfile_number_ \in LogsIn(dir) /\ InLog(logfile_number_) = mem_
        /\ log_number_ \in LogsIn(dir) /\ log_number_ <= logfile_number_
        /\ logfile_number_ \in Nat /\ log_number_ \in Nat
    <3>1. log_number_ \in LogsIn(dir) /\ logfile_number_ \in LogsIn(dir)
      BY <2>1 DEF UpMem
    <3>2. log_number_ \in Nat /\ logfile_number_ \in Nat
      BY <2>2, <3>1, NumbersAre
    <3> QED BY <2>1, <3>1, <3>2 DEF UpMem
  <2>4. UpMem'
    <3>1. logfile_number_ \in LogsIn(dir') /\ log_number_ \in LogsIn(dir')
      BY <1>3, <2>2, <2>3
    <3>2. InLog(logfile_number_)' = InLog(logfile_number_) /\ InLog(log_number_)' = InLog(log_number_)
      BY <1>1, <1>3 DEF InLog, memVars
    <3> QED BY <1>1, <1>3, <2>1, <3>1, <3>2 DEF UpMem, memVars
  <2>5. ASSUME NEW e \in Dirs', e.current = manifest_file_number_'
        PROVE  UpDir(e)'
    <3>1. PICK d \in Dirs :
              /\ UpDir(d) /\ LogsIn(e) \subseteq LogsIn(d)
              /\ \A n \in LogsIn(d) : n >= log_number_' => n \in LogsIn(e)
      BY <1>1, <1>2, <1>10, <2>5, DirsDeleted
    <3>2. LogsFrom(e, log_number_) = LogsFrom(d, log_number_)
      BY <1>3, <3>1 DEF LogsFrom, LogsIn
    <3> QED BY <1>1, <1>3, <1>4, <1>6, <3>1, <3>2 DEF UpDir, memVars
  <2>6. UpTop'
    <3>1. InTables(TablesAt(Here, Top))' = InTables(TablesAt(Here, Top))
      BY <1>1, <2>2 DEF InTables, Contents
    <3> QED BY <1>1, <1>3, <1>4, <2>1, <2>2, <3>1 DEF UpTop, memVars
  <2> QED BY <2>4, <2>5, <2>6 DEF UpLogs
<1>11. UpLogs'
  BY <1>1, <1>10 DEF UpLogs, MayCrash, openVars, historyVars
<1> QED BY <1>6, <1>8, <1>9, <1>11 DEF HeldInv

\* The end of DB::Open.
OpensUp == phase # "up" /\ phase' = "up" /\ Held' = Held /\ hard' = hard

LEMMA HeldInstallOpen ==
    ASSUME StoreInv, TypeInv', InstallOpen
    PROVE  HeldInv' /\ OpensUp
<1>1. /\ apply.owner = "open" /\ apply.pc = "install" /\ DeleteObsoleteFiles
      /\ apply' = NoApply /\ log_number_' = apply.edit.log
      /\ current_' = (current_ \ apply.edit.del) \cup apply.edit.add
      /\ phase' = "up"
      /\ UNCHANGED <<data, synced, manifest_file_number_, next_file_number_, has_descriptor_,
                     memVars, reuse, todo, pinned, pending_outputs_, flush, c, bg_error_,
                     historyVars>>
  BY DEF InstallOpen, Install
<1>2. /\ TypeInv /\ phase = "open" /\ Runs /\ c = None /\ logfile_number_ # 0 /\ todo = {}
      /\ imm_ = {} /\ ~has_imm_ /\ ~bg_error_
  BY <1>1 DEF StoreInv, HeldInv, DiskInv, TypeInv, PhaseType, Runs, LogsRead, TablesMade
<1>3. OpenFinds /\ apply.edit.log = logfile_number_
  BY <1>1, <1>2 DEF StoreInv, HeldInv, OpenFinds
<1>4. /\ current_' = current_ \cup apply.edit.add
      /\ apply'.pc = "none" /\ apply'.owner = "open" /\ log_number_' = logfile_number_
  BY <1>1, <1>3 DEF StoreInv, DiskInv, EditInv, NoApply
<1>5. Recoverable = mem_ \cup InTables(current_ \cup apply.edit.add)
  BY <1>2, <1>3 DEF OpenFinds
<1>6. InTables(current_)' = InTables(current_ \cup apply.edit.add)
  BY <1>1, <1>4 DEF InTables, Contents
<1>7. Store' = Recoverable
  BY <1>1, <1>2, <1>5, <1>6 DEF Store, memVars
<1>8. Held' = Held /\ hard' = hard /\ OpensUp
  BY <1>1, <1>2, <1>7 DEF Held, OpensUp, historyVars
<1>9. ASSUME MayCrash
      PROVE  /\ has_descriptor_ /\ dir.current = manifest_file_number_ /\ ~reuse
             /\ Here[Len(Here)] = apply.edit
             /\ ReplayedTables(Here) = current_ \cup apply.edit.add
             /\ dir.current # 0 /\ dir \in Dirs
             /\ Len(Here) \in Nat /\ DOMAIN Here = 1..Len(Here)
             /\ synced[Manifest(dir.current)] = Len(Here)
             /\ hard \subseteq InTables(current_)'
  <2>1. /\ has_descriptor_ /\ dir.current = manifest_file_number_ /\ ~reuse
    BY <1>1, <1>2, <1>9 DEF StoreInv, DiskInv, Descriptor
  <2>2. /\ Here[Len(Here)] = apply.edit
        /\ ReplayedTables(Here) = current_ \cup apply.edit.add
    BY <1>1, <1>2, <1>3, <2>1 DEF OpenFinds, Committed
  <2>3. dir.current # 0 /\ dir \in Dirs /\ mem_ = {}
    BY <1>2, <1>3, <2>1, DirsAre DEF OpenFinds
  <2>4. Len(Here) \in Nat /\ DOMAIN Here = 1..Len(Here)
    BY <1>2, <2>3, ManifestOf DEF Here
  <2>5. synced[Manifest(dir.current)] = Len(Here)
    BY <1>1, <1>2, <1>9, <2>1 DEF StoreInv, DiskInv, Replay, Mine, Here
  <2>6. hard \subseteq Recoverable
    <3>1. PICK W : W = Held
      OBVIOUS
    <3>2. PICK h : h = hard
      OBVIOUS
    <3>3. Keeps(dir, data, synced, W, h) /\ GoodDir(dir, data, synced)
      BY <1>9, <2>3, <3>1, <3>2
      DEF StoreInv, HeldInv, Promise, AllKeep, DiskInv, DirsGood, AllGood
    <3> QED BY <1>2, <2>3, <3>2, <3>3, RecoverableIs
  <2> QED BY <1>5, <1>6, <2>1, <2>2, <2>3, <2>4, <2>5, <2>6
<1>10. Promise' /\ LogsDown' /\ LogsBelow' /\ NextInv' /\ OpenFinds'
  BY <1>1, <1>2, <1>3, <1>4, <1>8, <1>9, InstallHeld DEF historyVars, memVars
<1>11. TablesMade'
  BY <1>1, <1>2, <1>4 DEF TablesMade, memVars
<1>12. ASSUME MayCrash
       PROVE  UpLogs'
  <2>1. /\ LogsIn(dir') \subseteq LogsIn(dir) /\ dir'.current = dir.current
        /\ \A n \in LogsIn(dir) : n >= log_number_' => n \in LogsIn(dir')
        /\ Here' = Here /\ Top' = Len(Here)
    BY <1>1, <1>2, DeleteLogs DEF Here, Top
  <2>2. UpMem'
    <3>1. logfile_number_ \in LogsIn(dir) /\ mem_ = InLog(logfile_number_)
      BY <1>2, <1>3 DEF OpenFinds
    <3>2. logfile_number_ \in Nat
      BY <1>2, NumbersAre DEF TypeInv, NumberType
    <3>3. logfile_number_ \in LogsIn(dir')
      BY <1>4, <2>1, <3>1, <3>2
    <3>4. InLog(logfile_number_)' = InLog(logfile_number_)
      BY <1>1 DEF InLog, memVars
    <3> QED BY <1>1, <1>2, <1>4, <3>1, <3>3, <3>4 DEF UpMem, memVars
  <2>3. ASSUME NEW e \in Dirs'
        PROVE  UpDir(e)'
    <3>1. PICK d \in Dirs : LogsIn(e) \subseteq LogsIn(d)
      <4>1. \A x \in Dirs' : x \in Dirs \/ x = dir'
        BY <1>1, <1>2, DeleteLogs
      <4> QED BY <1>9, <1>12, <2>1, <2>3, <4>1
    <3>2. \A n \in LogsIn(d) : n <= logfile_number_ /\ n \in Nat
      <4>1. LogsIn(d) \subseteq Numbers
        BY <1>2, DirsAre, LogsAre
      <4> QED BY <1>2, <1>12, <4>1, NumbersAre DEF StoreInv, HeldInv, LogsBelow, LogBelow
    <3>3. logfile_number_ \in Nat
      BY <1>2, NumbersAre DEF TypeInv, NumberType
    <3>4. LogsFrom(e, logfile_number_) \subseteq {logfile_number_}
      <4>1. \A n \in LogsFrom(e, logfile_number_) : n \in LogsIn(d) /\ n >= logfile_number_
        BY <3>1 DEF LogsFrom, LogsIn
      <4> QED BY <3>2, <3>3, <4>1
    <3> QED BY <1>1, <1>4, <1>8, <1>9, <1>12, <3>4 DEF UpDir, memVars
  <2>4. UpTop'
    <3>1. TablesAt(Here, Len(Here)) = current_'
      BY <1>4, <1>9, <1>12, TablesAtFull
    <3>2. TablesAt(Here, Top)' = current_'
      BY <2>1, <3>1
    <3>3. InTables(TablesAt(Here, Top))' = InTables(current_)'
      <4>1. InTables(TablesAt(Here, Top))' = EntriesOf(TablesAt(Here, Top)', data')
        BY DEF InTables, Contents, EntriesOf, TableEntries
      <4>2. InTables(current_)' = EntriesOf(current_', data')
        BY DEF InTables, Contents, EntriesOf, TableEntries
      <4> QED BY <3>2, <4>1, <4>2
    <3>4. ASSUME NEW k \in 1..Len(Here), synced[Manifest(dir.current)] <= k
          PROVE  Here[k].log <= logfile_number_
      <4>1. k = Len(Here)
        BY <1>9, <1>12, <3>4
      <4>2. logfile_number_ \in Nat
        BY <1>2, NumbersAre DEF TypeInv, NumberType
      <4> QED BY <1>3, <1>9, <1>12, <4>1, <4>2
    <3> QED BY <1>1, <1>2, <1>4, <1>9, <1>12, <2>1, <3>3, <3>4 DEF UpTop, memVars
  <2> QED BY <2>2, <2>3, <2>4 DEF UpLogs
<1>13. UpLogs'
  <2>1. MayCrash' => MayCrash
    BY <1>1, <1>2 DEF MayCrash, historyVars
  <2> QED BY <1>12, <2>1 DEF UpLogs
<1> QED BY <1>8, <1>10, <1>11, <1>13 DEF HeldInv

LEMMA HeldOpenWithoutApply ==
    ASSUME StoreInv, TypeInv', OpenWithoutApply
    PROVE  HeldInv' /\ OpensUp
<1>1. /\ phase = "open" /\ phase' = "up" /\ apply.pc = "none" /\ has_descriptor_
      /\ apply.edit.add = {} /\ DeleteObsoleteFiles /\ logfile_number_ # 0 /\ todo = {}
      /\ UNCHANGED <<data, synced, numberVars, memVars, reuse, todo, versionVars, bgVars,
                   historyVars>>
  BY DEF OpenWithoutApply, Opened, SaveManifest
<1>2. /\ TypeInv /\ Runs /\ apply.owner = "open" /\ c = None
      /\ imm_ = {} /\ ~has_imm_
  BY <1>1 DEF Runs, StoreInv, DiskInv, TypeInv, PhaseType, HeldInv, TablesMade
<1>3. ~MayCrash'
  <2>1. ~MayCrash
    BY <1>1, <1>2 DEF StoreInv, DiskInv, Descriptor
  <2> QED BY <1>1, <2>1 DEF MayCrash, historyVars
<1>4. Recoverable = mem_ \cup InTables(current_)
  BY <1>1 DEF StoreInv, HeldInv, OpenFinds
<1>5. Store' = Recoverable
  <2>1. InTables(current_)' = InTables(current_)
    BY <1>1 DEF InTables, Contents, versionVars
  <2> QED BY <1>1, <1>2, <1>4, <2>1 DEF Store, memVars
<1>6. OpensUp
  BY <1>1, <1>5 DEF OpensUp, Held, historyVars
<1>7. LogsBelow'
  BY <1>1, <1>2, <1>3 DEF StoreInv, HeldInv, LogsBelow, numberVars, memVars
<1>8. TablesMade'
  BY <1>1, <1>2 DEF TablesMade, memVars, bgVars
<1> QED BY <1>1, <1>3, <1>6, <1>7, <1>8 DEF HeldInv, Promise, LogsDown, NextInv, OpenFinds, UpLogs

-----------------------------------------------------------------------------
(***************************************************************************)
(* LogAndApply appends, in an open database.                               *)
(***************************************************************************)

\* The edit of a flush or a compaction keeps what the tables hold, and adds what
\* is in memory or in tables.
LEMMA UpEdit ==
    ASSUME StoreInv, phase = "up", MayCrash, apply.pc # "none",
           NEW T, NEW U, U = Applied(T, apply.edit)
    PROVE  /\ EntriesOf(T, data) \subseteq EntriesOf(U, data)
           /\ EntriesOf(U, data) \subseteq EntriesOf(T, data) \cup Store
           /\ log_number_ \in Numbers /\ logfile_number_ \in Numbers
           /\ log_number_ <= logfile_number_ /\ apply.edit.log <= logfile_number_
           /\ \/ apply.edit.log = log_number_
              \/ /\ has_imm_ /\ apply.edit.log = logfile_number_ /\ log_number_ < logfile_number_
                 /\ imm_ \subseteq EntriesOf(U, data)
<1>1. TypeInv /\ TablesMade /\ EditInv /\ UpMem
  BY DEF StoreInv, HeldInv, DiskInv, UpLogs
<1>2. /\ log_number_ \in Numbers /\ logfile_number_ \in Numbers
      /\ log_number_ \in Nat /\ logfile_number_ \in Nat
      /\ log_number_ <= logfile_number_
  <2>1. LogsIn(dir) \subseteq Numbers
    BY <1>1, DirsAre, LogsAre
  <2> QED BY <1>1, <2>1, NumbersAre DEF UpMem
<1>3. CASE apply.owner = "flush"
  <2>1. /\ has_imm_ /\ Contents(flush) = imm_ /\ apply.edit.log = logfile_number_
        /\ apply.edit.add = {flush} /\ apply.edit.del = {}
    BY <1>1, <1>3 DEF TablesMade, EditInv
  <2>2. U = T \cup {flush}
    BY <2>1 DEF Applied
  <2>3. EntriesOf(U, data) = EntriesOf(T, data) \cup imm_
    <3>1. TableEntries(flush, data) = imm_
      BY <2>1, InTablesAre
    <3>2. EntriesOf({flush}, data) = imm_
      BY <3>1, EntriesOfOne
    <3> QED BY <2>2, <3>2, EntriesOfUnion
  <2>4. log_number_ < logfile_number_
    BY <1>1, <2>1 DEF UpMem
  <2> QED BY <1>2, <2>1, <2>3, <2>4 DEF Store
<1>4. CASE apply.owner = "compaction"
  <2>1. /\ Contents(c.output) = InTables(c.base) /\ apply.edit.log = log_number_
        /\ apply.edit.add = {c.output} /\ apply.edit.del = c.base
        /\ c.base \subseteq current_
    BY <1>1, <1>4 DEF TablesMade, EditInv, TypeInv, PhaseType
  <2>2. PICK B : B = c.base
    OBVIOUS
  <2>3. U = (T \ B) \cup {c.output}
    BY <2>1, <2>2 DEF Applied
  <2>4. EntriesOf(U, data) = EntriesOf(T \ B, data) \cup EntriesOf(B, data)
    <3>1. TableEntries(c.output, data) = EntriesOf(B, data)
      BY <2>1, <2>2, InTablesAre
    <3>2. EntriesOf({c.output}, data) = EntriesOf(B, data)
      BY <3>1, EntriesOfOne
    <3>3. EntriesOf((T \ B) \cup {c.output}, data)
          = EntriesOf(T \ B, data) \cup EntriesOf({c.output}, data)
      BY EntriesOfUnion
    <3> QED BY <2>3, <3>2, <3>3
  <2>5. EntriesOf(U, data) = EntriesOf(T \cup B, data)
    <3>1. (T \ B) \cup B = T \cup B
      OBVIOUS
    <3> QED BY <2>4, <3>1, EntriesOfUnion
  <2>6. EntriesOf(U, data) = EntriesOf(T, data) \cup EntriesOf(B, data)
    BY <2>5, EntriesOfUnion
  <2>7. EntriesOf(B, data) \subseteq Store
    <3>1. EntriesOf(B, data) \subseteq EntriesOf(current_, data)
      BY <2>1, <2>2, EntriesOfSubset
    <3> QED BY <3>1, InTablesAre DEF Store
  <2> QED BY <1>2, <2>1, <2>6, <2>7
<1> QED BY <1>1, <1>3, <1>4 DEF TypeInv, PhaseType, BgType, ApplyType

\* With this edit, a directory yields what it has to.
LEMMA UpEditDir ==
    ASSUME StoreInv, phase = "up", MayCrash, apply.pc # "none",
           NEW T, InTables(current_) \subseteq EntriesOf(T, data),
           NEW U, U = Applied(T, apply.edit),
           NEW d \in Dirs, d.current = manifest_file_number_, NEW l, l = apply.edit.log
    PROVE  /\ hard \subseteq EntriesOf(U, data)
                             \cup UNION {SyncedLog(n, data, synced) : n \in LogsFrom(d, l)}
           /\ \A n \in LogsFrom(d, l) : LogEntries(n, data) \subseteq Store
<1>1. /\ EntriesOf(T, data) \subseteq EntriesOf(U, data)
      /\ log_number_ \in Numbers /\ logfile_number_ \in Numbers
      /\ log_number_ <= logfile_number_
      /\ \/ l = log_number_
         \/ /\ has_imm_ /\ l = logfile_number_ /\ log_number_ < logfile_number_
            /\ imm_ \subseteq EntriesOf(U, data)
  BY UpEdit
<1>2. UpMem /\ UpDir(d) /\ TypeInv
  BY DEF StoreInv, HeldInv, UpLogs, DiskInv
<1>3. LogsIn(d) \subseteq Numbers
  BY <1>2, DirsAre, LogsAre
<1>4. \A n \in LogsFrom(d, log_number_) : LogEntries(n, data) \subseteq Store
  <2>1. LogEntries(logfile_number_, data) \subseteq Store
    BY <1>2, InTablesAre DEF UpMem, Store
  <2>2. LogEntries(log_number_, data) \subseteq Store
    BY <1>2, InTablesAre DEF UpMem, Store
  <2> QED BY <1>2, <2>1, <2>2 DEF UpDir
<1>5. LogsFrom(d, l) \subseteq LogsFrom(d, log_number_)
  BY <1>1, <1>3, NumbersAre DEF LogsFrom, LogsIn
<1>6. UNION {SyncedLog(n, data, synced) : n \in LogsFrom(d, log_number_)}
      \subseteq EntriesOf(U, data) \cup UNION {SyncedLog(n, data, synced) : n \in LogsFrom(d, l)}
  <2> SUFFICES ASSUME NEW n \in LogsFrom(d, log_number_)
               PROVE  \/ n \in LogsFrom(d, l)
                      \/ SyncedLog(n, data, synced) \subseteq EntriesOf(U, data)
    OBVIOUS
  <2>1. CASE l = log_number_
    BY <2>1
  <2>2. CASE /\ has_imm_ /\ l = logfile_number_ /\ log_number_ < logfile_number_
             /\ imm_ \subseteq EntriesOf(U, data)
    <3>1. CASE n = logfile_number_
      BY <2>2, <3>1, <1>1, NumbersAre DEF LogsFrom, LogsIn
    <3>2. CASE n = log_number_
      <4>1. InLog(log_number_) = imm_
        BY <1>2, <2>2 DEF UpMem
      <4> QED BY <1>1, <1>2, <2>2, <3>2, <4>1, SyncedIn, InTablesAre
    <3> QED BY <1>2, <3>1, <3>2 DEF UpDir
  <2> QED BY <1>1, <2>1, <2>2
<1>7. hard \subseteq EntriesOf(U, data)
                     \cup UNION {SyncedLog(n, data, synced) : n \in LogsFrom(d, l)}
  <2>1. hard \subseteq InTables(current_)
                     \cup UNION {SyncedLog(n, data, synced) : n \in LogsFrom(d, log_number_)}
    BY <1>2 DEF UpDir
  <2> QED BY <1>1, <1>6, <2>1
<1> QED BY <1>4, <1>5, <1>7

\* The MANIFEST of an open database gets the edit of LogAndApply.
LEMMA AppendIs ==
    ASSUME StoreInv, phase = "up", MayCrash, apply.pc # "none", AppendsEdit
    PROVE  /\ Len(Here') = Top + 1 /\ Here'[Top + 1] = apply.edit
           /\ \A i \in 1..Top : Here'[i] = Here[i]
           /\ \A k \in 1..Top : TablesAt(Here', k) = TablesAt(Here, k)
           /\ TablesAt(Here', Top + 1) = Applied(TablesAt(Here, Top), apply.edit)
           /\ Dirs' = Dirs /\ dir' = dir /\ synced' = synced
           /\ \A n \in Numbers : n # manifest_file_number_ => data'[Manifest(n)] = data[Manifest(n)]
           /\ \A n \in Numbers : data'[TableFile(n)] = data[TableFile(n)]
           /\ \A n \in Numbers : data'[Log(n)] = data[Log(n)]
           /\ \A T \in SUBSET Numbers : EntriesOf(T, data') = EntriesOf(T, data)
           /\ \A n \in Numbers : LogEntries(n, data') = LogEntries(n, data)
                              /\ SyncedLog(n, data', synced') = SyncedLog(n, data, synced)
<1>1. /\ TypeInv /\ dir.current = manifest_file_number_ /\ dir.current \in Numbers
      /\ Here \in Seq(EditsTo(writes)) /\ apply.edit \in EditsTo(writes)
  BY UpIs DEF StoreInv, DiskInv, TypeInv, BgType, ApplyType
<1>2. PICK M : M = Manifest(manifest_file_number_)
  OBVIOUS
<1>3. M \in Files /\ M = Manifest(dir.current)
  BY <1>1, <1>2, FileIs
<1>4. data' = [data EXCEPT ![M] = data[M] \o <<apply.edit>>] /\ UNCHANGED <<dir, older, synced>>
  BY <1>2 DEF AppendsEdit
<1>5. data = [g \in Files |-> data[g]]
  BY <1>1 DEF TypeInv, DiskType, FilesOK
<1>6. data'[M] = data[M] \o <<apply.edit>> /\ \A g \in Files : g # M => data'[g] = data[g]
  BY <1>3, <1>4, <1>5, FunctionChanges
<1>7. PICK Q : Q = Here'
  OBVIOUS
<1>8. Appended(Q, Here, apply.edit)
  BY <1>3, <1>4, <1>6, <1>7 DEF Appended, Here
<1>9. /\ Len(Q) = Top + 1 /\ Q[Top + 1] = apply.edit
      /\ \A i \in 1..Top : Q[i] = Here[i]
      /\ \A k \in 1..Top : TablesAt(Q, k) = TablesAt(Here, k)
      /\ TablesAt(Q, Top + 1) = Applied(TablesAt(Here, Top), apply.edit)
  BY <1>1, <1>8, RecordAppended DEF Top
<1>10. ASSUME NEW n \in Numbers
       PROVE  /\ data'[TableFile(n)] = data[TableFile(n)] /\ data'[Log(n)] = data[Log(n)]
              /\ n # manifest_file_number_ => data'[Manifest(n)] = data[Manifest(n)]
  <2>1. Log(n) \in Files /\ TableFile(n) \in Files /\ Manifest(n) \in Files
    BY FileIs
  <2>2. Log(n) # M /\ TableFile(n) # M /\ (n # manifest_file_number_ => Manifest(n) # M)
    BY <1>2, FilesApart
  <2> QED BY <1>6, <2>1, <2>2
<1>12. \A T \in SUBSET Numbers : EntriesOf(T, data') = EntriesOf(T, data)
  BY <1>10 DEF EntriesOf, TableEntries
<1>13. \A n \in Numbers : LogEntries(n, data') = LogEntries(n, data)
                       /\ SyncedLog(n, data', synced') = SyncedLog(n, data, synced)
  BY <1>4, <1>10 DEF LogEntries, SyncedLog
<1> QED BY <1>4, <1>7, <1>9, <1>10, <1>12, <1>13 DEF Dirs

LEMMA AppendPromised ==
    ASSUME StoreInv, phase = "up", MayCrash, apply.pc # "none", AppendsEdit,
           NEW W, W = Store, NEW h, h = hard
    PROVE  AllKeep(Dirs', data', synced', W, h)
<1>1. /\ Len(Here') = Top + 1 /\ Here'[Top + 1] = apply.edit
      /\ \A i \in 1..Top : Here'[i] = Here[i]
      /\ \A k \in 1..Top : TablesAt(Here', k) = TablesAt(Here, k)
      /\ TablesAt(Here', Top + 1) = Applied(TablesAt(Here, Top), apply.edit)
      /\ Dirs' = Dirs /\ dir' = dir /\ synced' = synced
      /\ \A n \in Numbers : n # manifest_file_number_ => data'[Manifest(n)] = data[Manifest(n)]
      /\ \A n \in Numbers : data'[TableFile(n)] = data[TableFile(n)]
      /\ \A T \in SUBSET Numbers : EntriesOf(T, data') = EntriesOf(T, data)
      /\ \A n \in Numbers : LogEntries(n, data') = LogEntries(n, data)
                         /\ SyncedLog(n, data', synced') = SyncedLog(n, data, synced)
  BY AppendIs
<1>2. /\ TypeInv /\ dir.current = manifest_file_number_ /\ dir.current \in Numbers
      /\ dir.current # 0 /\ Top \in Nat /\ Top > 0
      /\ synced[Manifest(dir.current)] \in Nat /\ synced[Manifest(dir.current)] <= Top
      /\ TablesAt(Here, Top) \subseteq Numbers
  BY UpIs DEF StoreInv, DiskInv
<1>3. AllKeep(Dirs, data, synced, W, h)
  BY DEF StoreInv, HeldInv, Promise, Held
<1>4. ASSUME NEW d \in Dirs, d.current # manifest_file_number_
      PROVE  Keeps(d, data', synced', W, h)
  <2>1. Keeps(d, data, synced, W, h)
    BY <1>3 DEF AllKeep
  <2>2. d.current # 0 =>
            /\ data'[Manifest(d.current)] = data[Manifest(d.current)]
            /\ synced[Manifest(d.current)] \in Nat
            /\ Len(data[Manifest(d.current)]) \in Nat
            /\ DOMAIN data[Manifest(d.current)] = 1..Len(data[Manifest(d.current)])
    BY <1>1, <1>2, <1>4, ManifestOf
  <2>3. \A n \in NamedIn(d, data) : data'[TableFile(n)] = data[TableFile(n)]
    BY <1>1, <1>2, NamedNumbers
  <2>4. LogsIn(d) \subseteq Numbers
    BY <1>2, DirsAre, LogsAre
  <2>5. d.current = 0 => LogsIn(d) = {}
    BY <2>1 DEF Keeps
  <2> QED BY <1>1, <2>1, <2>2, <2>3, <2>4, <2>5, KeepsOn
<1>5. ASSUME NEW d \in Dirs, d.current = manifest_file_number_
      PROVE  Keeps(d, data', synced', W, h)
  <2>1. PICK R : R = Here
    OBVIOUS
  <2>2. PICK Q : Q = Here'
    OBVIOUS
  <2>3. data[Manifest(d.current)] = R /\ data'[Manifest(d.current)] = Q
    BY <1>1, <1>2, <1>5, <2>1, <2>2 DEF Here
  <2>4. \A k \in 1..Top : synced[Manifest(d.current)] <= k =>
            h \subseteq Least(k, d, data, synced) /\ Most(k, d, data) \subseteq W /\ LogAt(k, R)
    BY <1>2, <1>3, <1>5, <2>1, <2>3 DEF AllKeep, Keeps, Top
  <2>5. LogsIn(d) \subseteq Numbers
    BY <1>2, DirsAre, LogsAre
  <2>6. SUFFICES ASSUME NEW k \in 1..Top + 1, synced[Manifest(d.current)] <= k
                 PROVE  /\ h \subseteq Least(k, d, data', synced') /\ Most(k, d, data') \subseteq W
                        /\ LogAt(k, Q)
    BY <1>1, <1>2, <1>5, <2>2, <2>3 DEF Keeps
  <2>7. ASSUME NEW l
        PROVE  /\ UNION {SyncedLog(n, data', synced') : n \in LogsFrom(d, l)}
                  = UNION {SyncedLog(n, data, synced) : n \in LogsFrom(d, l)}
               /\ UNION {LogEntries(n, data') : n \in LogsFrom(d, l)}
                  = UNION {LogEntries(n, data) : n \in LogsFrom(d, l)}
    <3>1. \A n \in LogsFrom(d, l) : n \in Numbers
      BY <2>5 DEF LogsFrom, LogsIn
    <3> QED BY <1>1, <3>1
  <2>8. CASE k \in 1..Top
    <3>1. TablesAt(Q, k) = TablesAt(R, k) /\ Q[k] = R[k]
      BY <1>1, <2>1, <2>2, <2>8
    <3>2. TablesAt(R, k) \subseteq Numbers
      <4>1. TablesAt(R, k) \subseteq NamedIn(d, data)
        BY <1>2, <1>5, <2>1, <2>3, <2>8, TablesNamed, ManifestOf DEF Top
      <4> QED BY <1>2, <4>1, NamedNumbers
    <3>3. EntriesOf(TablesAt(R, k), data') = EntriesOf(TablesAt(R, k), data)
      BY <1>1, <3>2
    <3>4. Least(k, d, data', synced') = Least(k, d, data, synced)
      BY <2>3, <2>7, <3>1, <3>3 DEF Least
    <3>5. Most(k, d, data') = Most(k, d, data)
      BY <2>3, <2>7, <3>1, <3>3 DEF Most
    <3>6. LogAt(k, Q)
      <4>1. LogAt(k, R)
        BY <2>4, <2>6, <2>8
      <4>2. \A i \in 1..k : Q[i] = R[i]
        BY <1>1, <1>2, <2>1, <2>2, <2>8
      <4> QED BY <3>1, <4>1, <4>2 DEF LogAt
    <3> QED BY <2>4, <2>6, <2>8, <3>4, <3>5, <3>6
  <2>9. CASE k = Top + 1
    <3>1. PICK T : T = TablesAt(R, Top)
      OBVIOUS
    <3>2. PICK U : U = Applied(T, apply.edit)
      OBVIOUS
    <3>3. PICK l : l = apply.edit.log
      OBVIOUS
    <3>4. TablesAt(Q, k) = U /\ Q[k] = apply.edit /\ Q[k].log = l
      BY <1>1, <2>1, <2>2, <2>9, <3>1, <3>2, <3>3
    <3>5. T \subseteq Numbers /\ U \subseteq Numbers
      <4>1. T \subseteq Numbers
        BY <1>2, <2>1, <3>1
      <4> QED BY <1>2, <3>2, <4>1 DEF Applied, TypeInv, BgType, ApplyType, EditsTo
    <3>6. InTables(current_) \subseteq EntriesOf(T, data)
      BY <2>1, <3>1, InTablesAre DEF StoreInv, HeldInv, UpLogs, UpTop
    <3>7. /\ h \subseteq EntriesOf(U, data)
                         \cup UNION {SyncedLog(n, data, synced) : n \in LogsFrom(d, l)}
          /\ \A n \in LogsFrom(d, l) : LogEntries(n, data) \subseteq W
      BY <1>5, <3>2, <3>3, <3>6, UpEditDir
    <3>8. EntriesOf(U, data) \subseteq W
      <4>1. EntriesOf(U, data) \subseteq EntriesOf(T, data) \cup W
        BY <3>2, UpEdit
      <4>2. Most(Top, d, data) \subseteq W
        BY <1>2, <1>5, <2>4
      <4>3. EntriesOf(T, data) \subseteq W
        BY <2>3, <3>1, <4>2 DEF Most
      <4> QED BY <4>1, <4>3
    <3>9. EntriesOf(U, data') = EntriesOf(U, data)
      BY <1>1, <3>5
    <3>10. h \subseteq Least(k, d, data', synced')
      BY <2>3, <2>7, <3>4, <3>7, <3>9 DEF Least
    <3>11. Most(k, d, data') \subseteq W
      BY <2>3, <2>7, <3>4, <3>7, <3>8, <3>9 DEF Most
    <3>12. LogAt(k, Q)
      <4>1. apply.edit.log # 0 /\ apply.edit.log <= apply.edit.next
        BY DEF StoreInv, HeldInv, NextInv, Runs
      <4> QED BY <3>4, <4>1 DEF LogAt
    <3> QED BY <3>10, <3>11, <3>12
  <2> QED BY <1>2, <2>6, <2>8, <2>9
<1> QED BY <1>1, <1>4, <1>5 DEF AllKeep

LEMMA UpAppended ==
    ASSUME StoreInv, TypeInv', phase = "up", phase' = "up", MayCrash,
           apply.pc # "none", AppendsEdit,
           UNCHANGED <<mem_, imm_, has_imm_, logfile_number_, log_number_,
                       manifest_file_number_, next_file_number_, current_, hard, todo>>,
           apply'.pc = "none" \/ (apply'.pc = "sync" /\ apply'.edit = apply.edit)
    PROVE  /\ Promise' /\ LogsDown' /\ LogsBelow' /\ NextInv' /\ OpenFinds' /\ UpLogs' /\ Stutters
           /\ \A T \in SUBSET Numbers : EntriesOf(T, data') = EntriesOf(T, data)
<1>1. /\ Len(Here') = Top + 1 /\ Here'[Top + 1] = apply.edit
      /\ \A i \in 1..Top : Here'[i] = Here[i]
      /\ TablesAt(Here', Top + 1) = Applied(TablesAt(Here, Top), apply.edit)
      /\ Dirs' = Dirs /\ dir' = dir /\ synced' = synced
      /\ \A T \in SUBSET Numbers : EntriesOf(T, data') = EntriesOf(T, data)
      /\ \A n \in Numbers : LogEntries(n, data') = LogEntries(n, data)
                         /\ SyncedLog(n, data', synced') = SyncedLog(n, data, synced)
  BY AppendIs
<1>2. /\ TypeInv /\ Runs /\ dir.current = manifest_file_number_ /\ dir.current \in Numbers
      /\ dir \in Dirs /\ dir.current # 0 /\ Top \in Nat /\ Top > 0
      /\ synced[Manifest(dir.current)] \in Nat /\ synced[Manifest(dir.current)] <= Top
      /\ TablesAt(Here, Top) \subseteq Numbers /\ Here[Top].next \in Nat
  BY UpIs DEF StoreInv, DiskInv
<1>3. /\ UpMem /\ (\A d \in Dirs : d.current = manifest_file_number_ => UpDir(d)) /\ UpTop
  BY DEF StoreInv, HeldInv, UpLogs
<1>4. /\ Here[Top].next <= apply.edit.next /\ apply.edit.next <= next_file_number_
      /\ apply.edit.log # 0 /\ apply.edit.log <= apply.edit.next
      /\ apply.edit.next \in Nat
  BY <1>2 DEF StoreInv, HeldInv, NextInv, Top, TypeInv, BgType, ApplyType, EditsTo
<1>5. current_ \subseteq Numbers /\ InTables(current_)' = InTables(current_) /\ Store' = Store
  <2>1. current_ \subseteq Numbers
    BY <1>2 DEF TypeInv, VersionType
  <2>2. InTables(current_)' = EntriesOf(current_', data')
    BY DEF InTables, Contents, EntriesOf, TableEntries
  <2>3. InTables(current_)' = InTables(current_)
    BY <1>1, <2>1, <2>2, InTablesAre
  <2> QED BY <2>1, <2>3 DEF Store
<1>6. Stutters /\ Held' = Store
  BY <1>5 DEF Stutters, Held
<1>7. Promise'
  <2>1. PICK W : W = Store
    OBVIOUS
  <2>2. PICK h : h = hard
    OBVIOUS
  <2>3. AllKeep(Dirs', data', synced', W, h)
    BY <2>1, <2>2, AppendPromised
  <2> QED BY <1>6, <2>1, <2>2, <2>3 DEF Promise
<1>8. LogsDown'
  <2> SUFFICES ASSUME NEW d \in Dirs, NEW n \in LogsIn(d)
               PROVE  n < apply.edit.next \/ n \in LogsIn(dir)
    BY <1>1 DEF LogsDown
  <2>1. n < Here[Top].next \/ n \in LogsIn(dir)
    BY <1>2 DEF StoreInv, HeldInv, LogsDown, Top
  <2>2. n \in Nat
    BY <1>2, DirsAre, LogsAre, NumbersAre
  <2> QED BY <1>2, <1>4, <2>1, <2>2
<1>9. LogsBelow'
  <2>1. LogsBelow
    BY DEF StoreInv, HeldInv
  <2> QED BY <1>1, <1>2, <2>1 DEF LogsBelow, LogBelow
<1>10. NextInv'
  <2>1. apply.edit.next <= apply.edit.next
    BY <1>4
  <2>2. next_file_number_' = next_file_number_
    OBVIOUS
  <2>3. Here'[Len(Here')] = apply.edit
    BY <1>1
  <2> QED BY <1>4, <2>1, <2>2, <2>3 DEF NextInv
<1>11. PICK T : T = TablesAt(Here, Top)
  OBVIOUS
<1>12. PICK U : U = Applied(T, apply.edit)
  OBVIOUS
<1>13. /\ EntriesOf(T, data) \subseteq EntriesOf(U, data)
       /\ apply.edit.log <= logfile_number_
       /\ \/ apply.edit.log = log_number_
          \/ has_imm_ /\ imm_ \subseteq EntriesOf(U, data)
       /\ log_number_ \in Numbers
  BY <1>12, UpEdit
<1>14. U \subseteq Numbers
  BY <1>2, <1>11, <1>12 DEF Applied, TypeInv, BgType, ApplyType, EditsTo
<1>15. InTables(TablesAt(Here, Top))' = EntriesOf(U, data)
  <2>1. TablesAt(Here, Top)' = U
    BY <1>1, <1>11, <1>12 DEF Top
  <2>2. InTables(TablesAt(Here, Top))' = EntriesOf(TablesAt(Here, Top)', data')
    BY DEF InTables, Contents, EntriesOf, TableEntries
  <2> QED BY <1>1, <1>14, <2>1, <2>2
<1>16. UpTop'
  <2>1. Top' = Top + 1 /\ Here'[Top'] = apply.edit
    BY <1>1 DEF Top
  <2>2. InTables(current_)' \subseteq EntriesOf(U, data)
    BY <1>3, <1>5, <1>11, <1>13, InTablesAre DEF UpTop
  <2>3. has_imm_ => apply.edit.log <= log_number_ \/ imm_ \subseteq EntriesOf(U, data)
    BY <1>13, NumbersAre
  <2>4. ASSUME NEW k \in 1..Top + 1, synced[Manifest(manifest_file_number_)] <= k
        PROVE  Here'[k].log <= logfile_number_
    <3>1. CASE k = Top + 1
      BY <1>1, <1>13, <3>1
    <3>2. CASE k \in 1..Top
      BY <1>1, <1>3, <2>4, <3>2 DEF UpTop
    <3> QED BY <1>2, <3>1, <3>2
  <2> QED BY <1>1, <1>15, <2>1, <2>2, <2>3, <2>4 DEF UpTop
<1>17. UpMem'
  <2>1. LogsIn(dir) \subseteq Numbers
    BY <1>2, DirsAre, LogsAre
  <2>2. InLog(logfile_number_)' = InLog(logfile_number_)
    <3>1. InLog(logfile_number_)' = LogEntries(logfile_number_, data')
      BY DEF InLog, LogEntries
    <3> QED BY <1>1, <1>3, <2>1, <3>1, InTablesAre DEF UpMem
  <2>3. has_imm_ => InLog(log_number_)' = InLog(log_number_)
    <3>1. InLog(log_number_)' = LogEntries(log_number_, data')
      BY DEF InLog, LogEntries
    <3> QED BY <1>1, <1>13, <3>1, InTablesAre
  <2> QED BY <1>1, <1>3, <2>2, <2>3 DEF UpMem
<1>18. ASSUME NEW d \in Dirs', d.current = manifest_file_number_
       PROVE  UpDir(d)'
  <2>1. UpDir(d) /\ d \in Dirs
    BY <1>1, <1>3, <1>18
  <2>2. LogsFrom(d, log_number_) \subseteq Numbers
    BY <1>2, <2>1, DirsAre, LogsAre DEF LogsFrom, LogsIn
  <2>3. UNION {SyncedLog(n, data', synced') : n \in LogsFrom(d, log_number_)}
        = UNION {SyncedLog(n, data, synced) : n \in LogsFrom(d, log_number_)}
    BY <1>1, <2>2
  <2> QED BY <1>5, <2>1, <2>3 DEF UpDir
<1>19. UpLogs'
  BY <1>16, <1>17, <1>18 DEF UpLogs
<1> QED BY <1>1, <1>6, <1>7, <1>8, <1>9, <1>10, <1>19 DEF OpenFinds

\* What memory and the edit say of tables, when tables stay and LogAndApply goes on or ends.
LEMMA TablesStillMade ==
    ASSUME StoreInv, \A T \in SUBSET Numbers : EntriesOf(T, data') = EntriesOf(T, data),
           phase' = phase, phase # "down",
           UNCHANGED <<mem_, imm_, has_imm_, current_, logfile_number_, log_number_>>,
           phase # "up" => bg_error_' = bg_error_,
           c' = c \/ c' = None,
           \/ apply'.owner = "open"
           \/ apply'.owner = apply.owner /\ apply'.edit = apply.edit /\ UNCHANGED <<flush, c>>
    PROVE  TablesMade'
<1>1. TablesMade /\ TypeInv
  BY DEF StoreInv, HeldInv, DiskInv
<1>2. ASSUME NEW n \in Numbers
      PROVE  TableEntries(n, data') = TableEntries(n, data)
  BY <1>2, EntriesOfOne
<1>3. c' # None => c'.base \subseteq current_'
  BY <1>1 DEF TablesMade
<1>4. ASSUME apply'.owner = "flush"
      PROVE  Contents(flush)' = imm_' /\ has_imm_' /\ apply'.edit.log = logfile_number_'
  <2>1. flush \in Numbers /\ flush' = flush
    BY <1>1, <1>4, NumbersAre DEF TypeInv, PhaseType, BgType, Numbers
  <2>2. Contents(flush)' = TableEntries(flush', data')
    BY DEF Contents, TableEntries
  <2> QED BY <1>1, <1>2, <1>4, <2>1, <2>2, InTablesAre DEF TablesMade
<1>5. ASSUME apply'.owner = "compaction"
      PROVE  Contents(c.output)' = InTables(c.base)' /\ apply'.edit.log = log_number_'
  <2>1. c.output \in Numbers /\ c.base \subseteq Numbers /\ c' = c
    BY <1>1, <1>5, CompactionIs DEF TypeInv, PhaseType
  <2>2. Contents(c.output)' = TableEntries(c'.output, data')
    BY DEF Contents, TableEntries
  <2>3. InTables(c.base)' = EntriesOf(c'.base, data')
    BY DEF InTables, Contents, EntriesOf, TableEntries
  <2>4. Contents(c.output) = InTables(c.base) /\ apply.edit.log = log_number_
    BY <1>1, <1>5 DEF TablesMade
  <2>5. EntriesOf(c.base, data') = EntriesOf(c.base, data)
    BY <2>1
  <2>6. TableEntries(c.output, data') = TableEntries(c.output, data)
    BY <1>2, <2>1
  <2> QED BY <1>5, <2>1, <2>2, <2>3, <2>4, <2>5, <2>6, InTablesAre
<1> QED BY <1>1, <1>3, <1>4, <1>5 DEF TablesMade

\* A step that touches a MANIFEST only.
LEMMA ManifestFramed ==
    ASSUME TypeInv, TypeInv', NEW m, Just(Manifest(m))
    PROVE  /\ \A T \in SUBSET Numbers : EntriesOf(T, data') = EntriesOf(T, data)
           /\ \A n \in Numbers : LogEntries(n, data') = LogEntries(n, data)
                              /\ SyncedLog(n, data', synced') = SyncedLog(n, data, synced)
           /\ LogsIn(dir') = LogsIn(dir) /\ dir'.current = dir.current
           /\ \A e \in Dirs' : e \in Dirs \/ e = dir'
           /\ \A T \in SUBSET Numbers : InTables(T)' = EntriesOf(T', data')
           /\ InTables(current_)' = EntriesOf(current_', data')
<1>1. PICK f : f = Manifest(m)
  OBVIOUS
<1>2. \A n : f # TableFile(n) /\ f # Log(n)
  BY <1>1, FilesApart
<1>3. \A T \in SUBSET Numbers : EntriesOf(T, data') = EntriesOf(T, data)
  BY <1>1, <1>2, FilesJust DEF EntriesOf
<1>4. \A n \in Numbers : LogEntries(n, data') = LogEntries(n, data)
                      /\ SyncedLog(n, data', synced') = SyncedLog(n, data, synced)
  BY <1>1, <1>2, FilesJust
<1>5. LogsIn(dir') = LogsIn(dir) /\ dir'.current = dir.current
      /\ \A e \in Dirs' : e \in Dirs \/ e = dir'
  BY <1>1, <1>2, LogsJust DEF Just, Only
<1> QED BY <1>3, <1>4, <1>5, InTablesNext DEF InTables, Contents, EntriesOf, TableEntries

LEMMA AppendJust ==
    ASSUME DiskInv, ApplyAppend
    PROVE  Just(Manifest(manifest_file_number_))
<1>1. PICK f : f = Manifest(manifest_file_number_)
  OBVIOUS
<1>2. f \in Files
  BY <1>1, AppendGoesOn, FileIs
<1>3. CASE has_descriptor_
  <2>1. PICK x : data' = [data EXCEPT ![f] = x]
    BY <1>1, <1>3 DEF ApplyAppend, AppendEdit
  <2>2. UNCHANGED <<dir, older, synced>>
    BY <1>3 DEF ApplyAppend, AppendEdit
  <2> QED BY <1>1, <1>2, <2>1, <2>2, JustIs DEF DiskInv, Dirs
<1>4. CASE ~has_descriptor_
  <2>1. PICK r : Written(f, r) /\ ChangeDir(Create(f))
    BY <1>1, <1>4 DEF ApplyAppend, AppendEdit
  <2> QED BY <1>1, <1>2, <2>1, JustIs, ChangeDirIs DEF DiskInv, Written
<1> QED BY <1>3, <1>4

\* The last fault is spent: nothing is asked of the disk.
LEMMA UpCareless ==
    ASSUME StoreInv, phase = "up", phase' = "up", ~MayCrash',
           \A T \in SUBSET Numbers : EntriesOf(T, data') = EntriesOf(T, data),
           UNCHANGED <<mem_, imm_, logfile_number_, next_file_number_, current_, hard>>,
           TablesMade'
    PROVE  HeldInv' /\ Stutters
<1>1. current_ \subseteq Numbers
  BY DEF StoreInv, DiskInv, TypeInv, VersionType
<1>2. InTables(current_)' = EntriesOf(current_', data')
  BY DEF InTables, Contents, EntriesOf, TableEntries
<1>3. InTables(current_)' = InTables(current_)
  BY <1>1, <1>2, InTablesAre
<1>4. Stutters
  BY <1>3 DEF Stutters, Held, Store
<1>5. LogsBelow'
  BY DEF StoreInv, HeldInv, LogsBelow, Runs
<1> QED BY <1>4, <1>5 DEF HeldInv, Promise, LogsDown, NextInv, OpenFinds, UpLogs

LEMMA HeldAppendUp ==
    ASSUME StoreInv, TypeInv', ApplyAppend, phase = "up"
    PROVE  HeldInv' /\ Stutters
<1>1. /\ apply.pc = "append" /\ apply'.pc = "sync" /\ SameEdit
      /\ UNCHANGED <<numberVars, memVars, openVars, versionVars, flush, c, bg_error_,
                   historyVars>>
      /\ manifest_file_number_ \in Numbers
  BY AppendGoesOn DEF StoreInv
<1>2. /\ phase' = "up" /\ MayCrash' = MayCrash
      /\ UNCHANGED <<mem_, imm_, has_imm_, logfile_number_, log_number_,
                     manifest_file_number_, next_file_number_, current_, hard, todo, flush, c>>
      /\ apply'.owner = apply.owner /\ apply'.edit = apply.edit
  BY <1>1 DEF numberVars, memVars, openVars, versionVars, historyVars, MayCrash, SameEdit
<1>3. \A T \in SUBSET Numbers : EntriesOf(T, data') = EntriesOf(T, data)
  BY AppendJust, ManifestFramed DEF StoreInv, DiskInv
<1>4. TablesMade'
  BY <1>2, <1>3, TablesStillMade
<1>5. CASE ~MayCrash
  BY <1>2, <1>3, <1>4, <1>5, UpCareless
<1>6. CASE MayCrash
  <2>1. AppendsEdit
    <3>1. has_descriptor_
      BY <1>6, UpIs DEF StoreInv
    <3> QED BY <3>1 DEF ApplyAppend, AppendEdit, AppendsEdit
  <2> QED BY <1>1, <1>2, <1>4, <1>6, <2>1, UpAppended DEF HeldInv
<1> QED BY <1>5, <1>6

LEMMA HeldApplyFailsBackground ==
    ASSUME StoreInv, TypeInv', ApplyFailsBackground
    PROVE  HeldInv' /\ Stutters
<1>1. /\ apply.owner # "open" /\ apply.pc \in {"append", "sync", "current"}
      /\ faults < MaxFaults /\ faults' = faults + 1
      /\ RecordOfFailedApply /\ UNCHANGED <<dir, older>>
      /\ apply' = NoApply /\ bg_error_' = TRUE /\ flush' = 0
      /\ c' = c \/ c' = None
      /\ UNCHANGED <<numberVars, memVars, openVars, current_, pinned, writes, hard>>
  BY DEF ApplyFailsBackground, ApplyError, Fault
<1>2. apply'.pc = "none" /\ apply'.owner = "open"
  BY <1>1 DEF NoApply
<1>3. /\ phase = "up" /\ phase' = "up" /\ MayCrash /\ TypeInv
      /\ UNCHANGED <<mem_, imm_, has_imm_, logfile_number_, log_number_,
                     manifest_file_number_, next_file_number_, current_, hard, todo>>
  BY <1>1 DEF StoreInv, DiskInv, TypeInv, PhaseType, MayCrash,
              numberVars, memVars, openVars
<1>4. /\ has_descriptor_ /\ dir.current = manifest_file_number_ /\ dir.current \in Numbers
  BY <1>3, UpIs DEF StoreInv
<1>5. PICK M : M = Manifest(manifest_file_number_)
  OBVIOUS
<1>6. M \in Files
  BY <1>4, <1>5, FileIs
<1>7. AppendsEdit \/ UNCHANGED diskVars
  <2>1. CASE apply.pc = "append"
    <3>1. PICK found \in {<<>>, <<apply.edit>>} : AppendEdit(found)
      BY <1>1, <1>4, <2>1 DEF RecordOfFailedApply
    <3>3. data' = [data EXCEPT ![M] = @ \o found] /\ UNCHANGED <<dir, older, synced>>
      BY <1>4, <1>5, <3>1 DEF AppendEdit
    <3>4. CASE found = <<>>
      <4>2. data[M] \o <<>> = data[M]
        BY <1>6, ConcatEmptySeq DEF StoreInv, DiskInv, TypeInv, DiskType, FilesOK
      <4>3. data = [g \in Files |-> data[g]]
        BY DEF StoreInv, DiskInv, TypeInv, DiskType, FilesOK
      <4>4. data' = [data EXCEPT ![M] = data[M]]
        BY <3>3, <3>4, <4>2
      <4>5. data' = data
        BY <1>6, <4>3, <4>4
      <4> QED BY <3>3, <4>5 DEF diskVars
    <3>5. CASE found = <<apply.edit>>
      BY <1>5, <3>3, <3>5 DEF AppendsEdit
    <3> QED BY <3>1, <3>4, <3>5
  <2>2. CASE apply.pc # "append"
    BY <1>1, <2>2 DEF RecordOfFailedApply, diskVars
  <2> QED BY <2>1, <2>2
<1>8. CASE AppendsEdit
  <2>1. /\ Promise' /\ LogsDown' /\ LogsBelow' /\ NextInv' /\ OpenFinds' /\ UpLogs' /\ Stutters
        /\ \A T \in SUBSET Numbers : EntriesOf(T, data') = EntriesOf(T, data)
    BY <1>1, <1>2, <1>3, <1>8, UpAppended
  <2>2. TablesMade'
    BY <1>1, <1>2, <1>3, <2>1, TablesStillMade
  <2> QED BY <2>1, <2>2 DEF HeldInv
<1>9. CASE UNCHANGED diskVars
  <2>1. Just(Manifest(1)) /\ Dirs' = Dirs
    BY <1>3, <1>9, JustNothing
  <2>2. \A T \in SUBSET Numbers : EntriesOf(T, data') = EntriesOf(T, data)
    BY <1>9 DEF diskVars
  <2>3. TablesMade'
    BY <1>1, <1>2, <1>3, <2>2, TablesStillMade
  <2>4. dir' = dir /\ data' = data /\ synced' = synced /\ Here' = Here /\ Runs
    BY <1>3, <1>9 DEF diskVars, Here, Runs
  <2>5. InTables(current_)' = InTables(current_) /\ Store' = Store
    BY <1>3, <2>4 DEF InTables, Contents, Store
  <2>6. Stutters /\ Promise'
    BY <1>3, <2>1, <2>4, <2>5 DEF Stutters, Held, StoreInv, HeldInv, Promise
  <2>7. LogsDown' /\ LogsBelow' /\ NextInv'
    BY <1>2, <1>3, <2>1, <2>4 DEF StoreInv, HeldInv, LogsDown, LogsBelow, LogBelow, NextInv, Runs
  <2>8. UpLogs'
    <3>1. UpMem /\ (\A d \in Dirs : d.current = manifest_file_number_ => UpDir(d)) /\ UpTop
      BY <1>3 DEF StoreInv, HeldInv, UpLogs
    <3>2. UpMem'
      BY <1>3, <2>4, <3>1 DEF UpMem, InLog
    <3>3. \A d \in Dirs : UpDir(d) => UpDir(d)'
      BY <1>3, <2>4, <2>5 DEF UpDir
    <3>4. UpTop'
      BY <1>2, <1>3, <2>4, <2>5, <3>1 DEF UpTop, Top, InTables, Contents
    <3> QED BY <1>3, <2>1, <3>1, <3>2, <3>3, <3>4 DEF UpLogs
  <2> QED BY <1>3, <2>3, <2>6, <2>7, <2>8 DEF HeldInv, OpenFinds
<1> QED BY <1>7, <1>8, <1>9

LEMMA HeldApplySync ==
    ASSUME StoreInv, TypeInv', ApplySync
    PROVE  HeldInv' /\ Stutters
<1>1. /\ apply.pc = "sync" /\ dir' = dir /\ data' = data
      /\ apply' = [apply EXCEPT !.pc = NextAfterSync] /\ NextAfterSync \in {"install", "current"}
      /\ UNCHANGED <<numberVars, memVars, openVars, versionVars, flush, c, bg_error_,
                     historyVars>>
  BY DEF ApplySync, NextAfterSync
<1>2. /\ apply'.pc = NextAfterSync /\ apply'.owner = apply.owner /\ apply'.edit = apply.edit
      /\ TypeInv /\ dir \in Dirs
  BY <1>1, ApplyGoesOn, DirsAre DEF StoreInv, DiskInv, historyVars
<1>3. PICK M : M = Manifest(manifest_file_number_)
  OBVIOUS
<1>4. M \in Files /\ (\A n : M # Log(n)) /\ Runs /\ dir.current # 0 /\ dir.current \in Numbers
  <2>1. manifest_file_number_ \in Numbers /\ Runs
    BY <1>1, <1>2, ApplyRuns DEF Runs
  <2>2. dir.current # 0
    BY <2>1 DEF StoreInv, DiskInv, NoDir, Runs
  <2> QED BY <1>2, <1>3, <2>1, <2>2, FileIs, FilesApart, ManifestOf
<1>5. synced' = [synced EXCEPT ![M] = Len(data[M])] /\ Dirs' = {dir}
  BY <1>1, <1>3 DEF ApplySync, SyncFile, Dirs
<1>6. \A g \in Files : synced[g] \in Nat /\ synced'[g] \in Nat /\ synced[g] <= synced'[g]
                       /\ (g # M => synced'[g] = synced[g])
  <2>1. synced = [g \in Files |-> synced[g]] /\ \A g \in Files : synced[g] \in Nat /\ synced[g] <= Len(data[g])
    BY <1>2 DEF TypeInv, DiskType, FilesOK
  <2>2. \A g \in Files : Len(data[g]) \in Nat
    BY <1>2, LenProperties DEF TypeInv, DiskType, FilesOK
  <2>3. /\ synced'[M] = Len(data[M])
        /\ \A g \in Files : g # M => synced'[g] = synced[g]
    BY <1>4, <1>5, <2>1, FunctionChanges
  <2>4. ASSUME NEW g \in Files, g # M
        PROVE  synced[g] \in Nat /\ synced'[g] \in Nat /\ synced[g] <= synced'[g]
    BY <2>1, <2>3, <2>4
  <2> QED BY <1>4, <2>1, <2>2, <2>3, <2>4
<1>7. \A n \in Numbers : SyncedLog(n, data', synced') = SyncedLog(n, data, synced)
  BY <1>1, <1>4, <1>6, FileIs DEF SyncedLog
<1>8. MayCrash' = MayCrash /\ Here' = Here /\ Mine' = Mine /\ Recoverable' = Recoverable
  BY <1>1 DEF MayCrash, Here, Mine, Recoverable, InTables, Contents, InLog,
              openVars, historyVars, numberVars
<1>9. Store' = Store /\ InTables(current_)' = InTables(current_)
  BY <1>1 DEF Store, InTables, Contents, memVars, versionVars
<1>10. Stutters
  BY <1>1, <1>8, <1>9 DEF Stutters, Held, openVars, historyVars
<1>11. LogsIn(dir) \subseteq Numbers
  BY <1>2, DirsAre, LogsAre
<1>12. Promise'
  <2> SUFFICES ASSUME MayCrash
               PROVE  Keeps(dir, data', synced', Held', hard')
    BY <1>5, <1>8 DEF Promise, AllKeep
  <2>1. PICK W : W = Held
    OBVIOUS
  <2>2. PICK h : h = hard
    OBVIOUS
  <2>3. Keeps(dir, data, synced, W, h)
    BY <1>2, <2>1, <2>2 DEF StoreInv, HeldInv, Promise, AllKeep
  <2>4. /\ synced[Manifest(dir.current)] \in Nat /\ synced'[Manifest(dir.current)] \in Nat
        /\ synced[Manifest(dir.current)] <= synced'[Manifest(dir.current)]
        /\ Len(data[Manifest(dir.current)]) \in Nat
        /\ DOMAIN data[Manifest(dir.current)] = 1..Len(data[Manifest(dir.current)])
    BY <1>2, <1>4, <1>6, ManifestOf
  <2>5. Keeps(dir, data', synced', W, h)
    BY <1>1, <1>4, <1>7, <1>11, <2>3, <2>4, KeepsOn
  <2> QED BY <1>10, <2>1, <2>2, <2>5 DEF Stutters
<1>13. LogsDown' /\ NextInv'
  <2>1. LogsDown'
    BY <1>1, <1>5, <1>8 DEF LogsDown
  <2>2. NextInv'
    BY <1>1, <1>2, <1>4, <1>8 DEF StoreInv, HeldInv, NextInv, Runs, numberVars
  <2> QED BY <2>1, <2>2
<1>14. LogsBelow'
  BY <1>1, <1>2, <1>4, <1>5, <1>8
  DEF StoreInv, HeldInv, LogsBelow, LogBelow, Runs, numberVars, memVars, openVars
<1>15. TablesMade'
  <2>1. \A T \in SUBSET Numbers : EntriesOf(T, data') = EntriesOf(T, data)
    BY <1>1
  <2> QED BY <1>1, <1>2, <1>4, <2>1, TablesStillMade
          DEF openVars, memVars, numberVars, versionVars, Runs
<1>16. OpenFinds'
  <2> SUFFICES ASSUME phase = "open"
               PROVE  OpenFinds'
    BY <1>1 DEF OpenFinds, openVars
  <2>1. OpenFinds
    BY DEF StoreInv, HeldInv
  <2>2. Committed' = Committed
    BY <1>1, <1>2 DEF Committed, numberVars
  <2>3. InTables(current_ \cup apply.edit.add)' = InTables(current_ \cup apply.edit.add)
        /\ UNION {InLog(n) : n \in todo}' = UNION {InLog(n) : n \in todo}
        /\ InLog(logfile_number_)' = InLog(logfile_number_)
    BY <1>1, <1>2 DEF InTables, Contents, InLog, versionVars, openVars, memVars
  <2> QED BY <1>1, <1>2, <1>8, <2>1, <2>2, <2>3
          DEF OpenFinds, openVars, numberVars, memVars, versionVars
<1>17. UpLogs'
  <2> SUFFICES ASSUME phase = "up", MayCrash
               PROVE  UpLogs'
    BY <1>1, <1>8 DEF UpLogs, openVars
  <2>1. UpMem /\ (\A d \in Dirs : d.current = manifest_file_number_ => UpDir(d)) /\ UpTop
    BY DEF StoreInv, HeldInv, UpLogs
  <2>2. UpMem'
    BY <1>1, <2>1 DEF UpMem, InLog, numberVars, memVars
  <2>3. dir.current = manifest_file_number_ => UpDir(dir)'
    <3> SUFFICES ASSUME dir.current = manifest_file_number_
                 PROVE  UpDir(dir)'
      OBVIOUS
    <3>1. UpDir(dir)
      BY <1>2, <2>1
    <3>2. LogsFrom(dir, log_number_) \subseteq Numbers
      BY <1>11 DEF LogsFrom, LogsIn
    <3>3. UNION {SyncedLog(n, data', synced') : n \in LogsFrom(dir, log_number_)}
          = UNION {SyncedLog(n, data, synced) : n \in LogsFrom(dir, log_number_)}
      BY <1>7, <3>2
    <3> QED BY <1>1, <1>9, <3>1, <3>3 DEF UpDir, numberVars, memVars, historyVars
  <2>4. UpTop'
    <3>1. InTables(TablesAt(Here, Top))' = InTables(TablesAt(Here, Top)) /\ Top' = Top
      BY <1>1, <1>8 DEF InTables, Contents, Top
    <3>2. ASSUME NEW k \in 1..Top, synced'[M] <= k
          PROVE  Here[k].log <= logfile_number_
      <4>1. dir.current = manifest_file_number_ /\ Top \in Nat
        BY UpIs DEF StoreInv
      <4>2. synced[M] <= synced'[M] /\ synced[M] \in Nat /\ synced'[M] \in Nat
        BY <1>4, <1>6
      <4>3. synced[M] <= k
        BY <3>2, <4>1, <4>2
      <4> QED BY <1>3, <2>1, <4>3 DEF UpTop
    <3> QED BY <1>1, <1>2, <1>3, <1>8, <1>9, <2>1, <3>1, <3>2
            DEF UpTop, numberVars, memVars
  <2> QED BY <1>1, <1>5, <2>2, <2>3, <2>4 DEF UpLogs, numberVars
<1> QED BY <1>10, <1>12, <1>13, <1>14, <1>15, <1>16, <1>17 DEF HeldInv

-----------------------------------------------------------------------------
(***************************************************************************)
(* LogAndApply of DB::Open.                                                *)
(***************************************************************************)

\* DB::Open at work.
LEMMA OpenIs ==
    ASSUME StoreInv, phase = "open"
    PROVE  /\ TypeInv /\ Runs /\ dir \in Dirs /\ dir.current # 0 /\ dir.current \in Numbers
           /\ Here \in Seq(EditsTo(writes)) /\ Len(Here) \in Nat /\ DOMAIN Here = 1..Len(Here)
           /\ LogsIn(dir) \subseteq Numbers /\ ReplayedTables(Here) \subseteq Numbers
           /\ manifest_file_number_ \in Numbers
           /\ apply.owner = "open" /\ apply.edit.del = {} /\ c = None /\ flush = 0 /\ ~has_imm_
           /\ imm_ = {} /\ ~bg_error_
           /\ current_ \cup apply.edit.add \subseteq Numbers
           /\ apply.pc # "none" => todo = {} /\ logfile_number_ # 0
           /\ MayCrash => ~reuse /\ mem_ = {}
           /\ MayCrash => Len(Here) > 0 /\ Here[Len(Here)].next \in Nat
<1>1. TypeInv /\ Runs /\ dir.current # 0
  BY DEF StoreInv, DiskInv, NoDir, Runs
<1>2. /\ dir \in Dirs /\ dir.current \in Numbers /\ Here \in Seq(EditsTo(writes))
      /\ Len(Here) \in Nat /\ DOMAIN Here = 1..Len(Here) /\ LogsIn(dir) \subseteq Numbers
  BY <1>1, DirsAre, ManifestOf, LogsAre DEF Here
<1>3. ReplayedTables(Here) \subseteq Numbers /\ manifest_file_number_ \in Numbers
  BY <1>1, <1>2, TablesAtFull, TablesNamed, NamedNumbers, NumbersAre
  DEF Here, TypeInv, PhaseType, NumberType, Numbers
<1>4. /\ apply.owner = "open" /\ apply.edit.del = {} /\ c = None /\ flush = 0 /\ ~has_imm_
      /\ imm_ = {} /\ ~bg_error_ /\ current_ \cup apply.edit.add \subseteq Numbers
      /\ apply.pc # "none" => todo = {} /\ logfile_number_ # 0
  <2>1. apply.owner = "open"
    BY <1>1 DEF TypeInv, PhaseType, BgType, ApplyType
  <2> QED BY <1>1, <2>1
          DEF TypeInv, PhaseType, BgType, ApplyType, EditsTo, VersionType,
              StoreInv, DiskInv, EditInv, LogsRead, HeldInv, TablesMade
<1>5. MayCrash => ~reuse /\ mem_ = {}
  BY <1>1 DEF StoreInv, DiskInv, Descriptor, HeldInv, OpenFinds
<1>6. ASSUME MayCrash
      PROVE  Len(Here) > 0 /\ Here[Len(Here)].next \in Nat
  <2>1. Len(Here) > 0
    BY <1>1, <1>2, <1>6 DEF StoreInv, DiskInv, DirsGood, AllGood, GoodDir, GoodManifest, Here
  <2>2. Here[Len(Here)] \in EditsTo(writes)
    BY <1>2, <2>1, ElementOfSeq
  <2> QED BY <2>1, <2>2 DEF EditsTo
<1> QED BY <1>1, <1>2, <1>3, <1>4, <1>5, <1>6

\* DB::Open writes a file that it does not read.
LEMMA OpenFramed ==
    ASSUME StoreInv, TypeInv', phase = "open", phase' = "open", UNCHANGED <<faults, hard>>,
           NEW f, Just(f), f # Manifest(dir.current),
           \A n \in ReplayedTables(Here) : f # TableFile(n), NoLogOf({dir}, f),
           MayCrash => NoLogOf(Dirs, f) /\ \A d \in Dirs : f \notin Uses(d, data)
    PROVE  /\ Promise' /\ LogsDown' /\ Stutters
           /\ Here' = Here /\ Recoverable' = Recoverable /\ MayCrash' = MayCrash
           /\ dir'.current = dir.current /\ LogsIn(dir) \subseteq LogsIn(dir')
<1>1. /\ TypeInv /\ dir \in Dirs /\ dir.current # 0 /\ dir.current \in Numbers
      /\ LogsIn(dir) \subseteq Numbers
      /\ MayCrash => Here[Len(Here)].next \in Nat
  BY OpenIs
<1>2. Recoverable' = Recoverable /\ Here' = Here
  BY <1>1, RecoverableFramed
<1>3. MayCrash' = MayCrash /\ Stutters
  BY <1>2 DEF MayCrash, Stutters, Held
<1>4. /\ dir'.current = dir.current /\ LogsIn(dir) \subseteq LogsIn(dir')
      /\ Dirs' \subseteq Dirs \cup {dir'}
  <2>1. \A n \in LogsIn(dir) : f # Log(n)
    BY DEF NoLogOf
  <2> QED BY <1>1, <2>1, LogsJust DEF Just, Only
<1>5. Promise'
  <2> SUFFICES ASSUME MayCrash
               PROVE  AllKeep(Dirs', data', synced', Held', hard')
    BY <1>3 DEF Promise
  <2>1. PICK W : W = Held
    OBVIOUS
  <2>2. PICK h : h = hard
    OBVIOUS
  <2>3. AllKeep(Dirs, data, synced, W, h)
    BY <2>1, <2>2 DEF StoreInv, HeldInv, Promise
  <2>4. AllKeep(Dirs', data', synced', W, h)
    BY <1>1, <2>3, PromiseFramed
  <2> QED BY <1>3, <2>1, <2>2, <2>4 DEF Stutters
<1>6. LogsDown'
  <2>1. LogsDown
    BY DEF StoreInv, HeldInv
  <2>2. MayCrash => Here[Len(Here)].next <= Here'[Len(Here')].next
    BY <1>1, <1>2
  <2> QED BY <1>1, <1>2, <1>3, <1>4, <2>1, <2>2, LogsDownFramed
<1> QED BY <1>2, <1>3, <1>4, <1>5, <1>6

LEMMA HeldAppendOpenNew ==
    ASSUME StoreInv, TypeInv', ApplyAppend, phase = "open", ~has_descriptor_
    PROVE  HeldInv' /\ Stutters
<1>1. /\ apply.pc = "append" /\ apply'.pc = "sync" /\ SameEdit
      /\ UNCHANGED <<numberVars, memVars, openVars, versionVars, flush, c, bg_error_,
                   historyVars>>
      /\ apply'.owner = apply.owner /\ apply'.edit = apply.edit
  BY AppendGoesOn DEF StoreInv, SameEdit
<1>2. PICK f : f = Manifest(manifest_file_number_)
  OBVIOUS
<1>3. /\ TypeInv /\ Runs /\ dir \in Dirs /\ dir.current # 0 /\ dir.current \in Numbers
      /\ LogsIn(dir) \subseteq Numbers /\ manifest_file_number_ \in Numbers
      /\ todo = {} /\ logfile_number_ # 0 /\ current_ \cup apply.edit.add \subseteq Numbers
  BY <1>1, OpenIs
<1>4. OpenFinds
  BY DEF StoreInv, HeldInv
<1>5. Just(f)
  BY <1>2, AppendJust DEF StoreInv
<1>6. f # Manifest(dir.current) /\ (\A n : f # TableFile(n) /\ f # Log(n))
  <2>1. dir.current < manifest_file_number_
    BY <1>4 DEF OpenFinds
  <2> QED BY <1>2, <1>3, <2>1, FilesApart, NumbersAre
<1>7. NoLogOf(Dirs, f) /\ NoLogOf({dir}, f)
  BY <1>6 DEF NoLogOf
<1>8. MayCrash => \A d \in Dirs : f \notin Uses(d, data)
  <2> SUFFICES ASSUME MayCrash
               PROVE  \A d \in Dirs : f \notin Uses(d, data)
    OBVIOUS
  <2>1. \A d \in Dirs : d.current # manifest_file_number_
    <3>1. \A d \in Dirs : d.current < manifest_file_number_
      BY <1>3 DEF StoreInv, DiskInv, Descriptor
    <3> QED BY <1>3, <3>1, NumbersAre
  <2> QED BY <1>2, <1>3, <2>1, NotUsed
<1>9. phase' = "open" /\ UNCHANGED <<faults, hard, todo, current_, next_file_number_,
                                     logfile_number_, log_number_, mem_, imm_, has_imm_,
                                     has_descriptor_, reuse, manifest_file_number_, flush, c,
                                     bg_error_>>
  BY <1>1 DEF openVars, historyVars, versionVars, numberVars, memVars
<1>10. /\ Promise' /\ LogsDown' /\ Stutters
       /\ Here' = Here /\ Recoverable' = Recoverable /\ MayCrash' = MayCrash
       /\ dir'.current = dir.current /\ LogsIn(dir) \subseteq LogsIn(dir')
  BY <1>5, <1>6, <1>7, <1>8, <1>9, OpenFramed
<1>11. /\ \A T \in SUBSET Numbers : EntriesOf(T, data') = EntriesOf(T, data)
       /\ \A n \in Numbers : LogEntries(n, data') = LogEntries(n, data)
       /\ LogsIn(dir') = LogsIn(dir) /\ \A e \in Dirs' : e \in Dirs \/ e = dir'
  BY <1>2, <1>3, <1>5, ManifestFramed
<1>12. TablesMade'
  BY <1>1, <1>9, <1>11, TablesStillMade
<1>13. NextInv'
  BY <1>1, <1>3, <1>9, <1>10 DEF StoreInv, HeldInv, NextInv, Runs
<1>14. LogsBelow'
  <2>1. next_file_number_ <= next_file_number_' /\ LogsBelow
    BY <1>3, <1>9, NumbersKept DEF StoreInv, HeldInv
  <2>2. Dirs' \subseteq Dirs \cup {dir'}
    BY <1>11
  <2> QED BY <1>3, <1>9, <1>10, <1>11, <2>1, <2>2, LogsBelowFramed
<1>15. Mine' = <<Edit(0, 0, 0, current_', {}), apply'.edit>>
  <2>1. PICK r : r = <<Edit(0, 0, 0, current_, {}), apply.edit>>
    OBVIOUS
  <2>2. <<Edit(0, 0, 0, current_, {})>> \o <<apply.edit>> = r
    BY <2>1, TwoRecords
  <2>3. Written(f, r)
    BY <1>2, <2>2 DEF ApplyAppend, AppendEdit
  <2>4. f \in Files
    BY <1>2, <1>3, FileIs
  <2>5. data'[f] = r
    BY <1>3, <2>3, <2>4, FunctionChanges DEF Written, TypeInv, DiskType, FilesOK
  <2> QED BY <1>1, <1>2, <1>9, <2>1, <2>5 DEF Mine
<1>16. OpenFinds'
  <2>1. InTables(current_ \cup apply.edit.add)' = InTables(current_ \cup apply.edit.add)
    <3>1. InTables(current_ \cup apply.edit.add)' = EntriesOf(current_' \cup apply'.edit.add, data')
      BY DEF InTables, Contents, EntriesOf, TableEntries
    <3> QED BY <1>1, <1>3, <1>9, <1>11, <3>1, InTablesAre
  <2>2. logfile_number_ \in LogsIn(dir) /\ mem_ = InLog(logfile_number_)
    BY <1>3, <1>4 DEF OpenFinds
  <2>3. InLog(logfile_number_)' = InLog(logfile_number_)
    <3>1. InLog(logfile_number_)' = LogEntries(logfile_number_, data')
      BY <1>9 DEF InLog, LogEntries
    <3> QED BY <1>3, <1>11, <2>2, <3>1, InTablesAre
  <2>4. UNION {InLog(n) : n \in todo}' = UNION {InLog(n) : n \in todo}
    BY <1>3, <1>9
  <2>5. ~Committed' /\ ~Committed
    BY <1>9 DEF Committed
  <2>6. Recoverable' = mem_' \cup InTables(current_ \cup apply.edit.add)'
                        \cup UNION {InLog(n) : n \in todo}'
    BY <1>4, <1>9, <1>10, <2>1, <2>4 DEF OpenFinds
  <2>7. ReplayedTables(Here)' = current_'
    BY <1>4, <1>9, <1>10, <2>5 DEF OpenFinds
  <2> QED BY <1>1, <1>3, <1>4, <1>9, <1>10, <1>11, <1>15, <2>2, <2>3, <2>5, <2>6, <2>7 DEF OpenFinds
<1>17. UpLogs'
  BY <1>9 DEF UpLogs
<1> QED BY <1>10, <1>12, <1>13, <1>14, <1>16, <1>17 DEF HeldInv

LEMMA HeldAppendOpenOld ==
    ASSUME StoreInv, TypeInv', ApplyAppend, phase = "open", has_descriptor_
    PROVE  HeldInv' /\ Stutters
<1>1. /\ apply.pc = "append" /\ apply'.pc = "sync" /\ SameEdit
      /\ UNCHANGED <<numberVars, memVars, openVars, versionVars, flush, c, bg_error_,
                   historyVars>>
      /\ apply'.owner = apply.owner /\ apply'.edit = apply.edit
  BY AppendGoesOn DEF StoreInv, SameEdit
<1>2. PICK f : f = Manifest(manifest_file_number_)
  OBVIOUS
<1>3. /\ TypeInv /\ Runs /\ dir \in Dirs /\ dir.current # 0 /\ dir.current \in Numbers
      /\ Here \in Seq(EditsTo(writes)) /\ Len(Here) \in Nat /\ DOMAIN Here = 1..Len(Here)
      /\ LogsIn(dir) \subseteq Numbers /\ manifest_file_number_ \in Numbers
      /\ todo = {} /\ logfile_number_ # 0 /\ current_ \cup apply.edit.add \subseteq Numbers
      /\ apply.edit.del = {}
  BY <1>1, OpenIs
<1>4. OpenFinds
  BY DEF StoreInv, HeldInv
<1>5. Just(f) /\ UNCHANGED <<dir, older, synced>> /\ data' = [data EXCEPT ![f] = @ \o <<apply.edit>>]
  BY <1>2, AppendJust DEF StoreInv, ApplyAppend, AppendEdit
<1>6. phase' = "open" /\ UNCHANGED <<faults, hard, todo, current_, next_file_number_,
                                     logfile_number_, log_number_, mem_, imm_, has_imm_,
                                     has_descriptor_, reuse, manifest_file_number_, flush, c,
                                     bg_error_>>
  BY <1>1 DEF openVars, historyVars, versionVars, numberVars, memVars
<1>7. ~MayCrash' /\ ~MayCrash
  <2>1. ~MayCrash
    BY <1>1, <1>3 DEF StoreInv, DiskInv, Descriptor
  <2> QED BY <1>6, <2>1 DEF MayCrash
<1>8. /\ \A T \in SUBSET Numbers : EntriesOf(T, data') = EntriesOf(T, data)
      /\ \A n \in Numbers : LogEntries(n, data') = LogEntries(n, data)
  BY <1>2, <1>3, <1>5, ManifestFramed
<1>9. TablesMade'
  BY <1>1, <1>6, <1>8, TablesStillMade
<1>10. LogsBelow'
  BY <1>3, <1>5, <1>6, <1>7 DEF StoreInv, HeldInv, LogsBelow, LogBelow
<1>11. PICK Q : Q = Here'
  OBVIOUS
<1>12. dir.current = manifest_file_number_
  BY <1>4 DEF OpenFinds
<1>13. PICK R : R = Here
  OBVIOUS
<1>14. Appended(Q, R, apply.edit)
  <2>1. f \in Files
    BY <1>2, <1>3, FileIs
  <2>2. data'[f] = data[f] \o <<apply.edit>>
    BY <1>3, <1>5, <2>1, FunctionChanges DEF TypeInv, DiskType, FilesOK
  <2> QED BY <1>2, <1>5, <1>11, <1>12, <1>13, <2>2 DEF Appended, Here
<1>15. /\ Len(Q) = Len(R) + 1 /\ Q[Len(Q)] = apply.edit
       /\ ReplayedTables(Q) = current_ \cup apply.edit.add
       /\ ReplayedLog(Q) = logfile_number_
  <2>1. apply.edit \in EditsTo(writes)
    BY <1>3 DEF TypeInv, BgType, ApplyType
  <2>2. /\ Len(Q) = Len(R) + 1 /\ DOMAIN Q = 1..Len(R) + 1 /\ Q[Len(R) + 1] = apply.edit
        /\ TablesAt(Q, Len(R) + 1) = Applied(TablesAt(R, Len(R)), apply.edit)
    BY <1>3, <1>13, <1>14, <2>1, RecordAppended
  <2>3. TablesAt(R, Len(R)) = current_
    <3>1. ReplayedTables(Here) = current_
      BY <1>1, <1>4 DEF OpenFinds, Committed
    <3> QED BY <1>3, <1>13, <3>1, TablesAtFull
  <2>4. ReplayedTables(Q) = current_ \cup apply.edit.add
    BY <1>3, <2>2, <2>3, TablesAtFull DEF Applied
  <2>5. apply.edit.log = logfile_number_
    BY <1>1, <1>4 DEF OpenFinds
  <2>6. ReplayedLog(Q) = Q[Len(Q)].log
    <3>1. Len(Q) \in Nat /\ Len(Q) > 0 /\ DOMAIN Q = 1..Len(Q) /\ Q[Len(Q)].log # 0
      BY <1>3, <1>13, <2>2, <2>5
    <3> QED BY <3>1, LogIsLast
  <2> QED BY <2>2, <2>4, <2>5, <2>6
<1>16. LogsFrom(dir, logfile_number_) = {logfile_number_}
       /\ logfile_number_ \in LogsIn(dir) /\ mem_ = InLog(logfile_number_)
  <2>1. logfile_number_ \in LogsIn(dir) /\ mem_ = InLog(logfile_number_)
    BY <1>3, <1>4 DEF OpenFinds
  <2>2. \A n \in LogsIn(dir) : n <= logfile_number_ /\ n \in Nat
    BY <1>3, NumbersAre DEF StoreInv, HeldInv, LogsBelow, LogBelow
  <2>3. \A n \in LogsFrom(dir, logfile_number_) : n = logfile_number_
    <3>1. \A n \in LogsFrom(dir, logfile_number_) : n \in LogsIn(dir) /\ n >= logfile_number_
      BY DEF LogsFrom, LogsIn
    <3> QED BY <2>1, <2>2, <3>1
  <2>4. logfile_number_ \in LogsFrom(dir, logfile_number_)
    BY <2>1, <2>2 DEF LogsFrom, LogsIn
  <2> QED BY <2>1, <2>3, <2>4
<1>17. InTables(current_ \cup apply.edit.add)' = InTables(current_ \cup apply.edit.add)
  <2>1. InTables(current_ \cup apply.edit.add)' = EntriesOf(current_' \cup apply'.edit.add, data')
    BY DEF InTables, Contents, EntriesOf, TableEntries
  <2> QED BY <1>1, <1>3, <1>6, <1>8, <2>1, InTablesAre
<1>18. InLog(logfile_number_)' = InLog(logfile_number_)
  <2>1. InLog(logfile_number_)' = LogEntries(logfile_number_, data')
    BY <1>6 DEF InLog, LogEntries
  <2> QED BY <1>3, <1>8, <1>16, <2>1, InTablesAre
<1>19. Recoverable = mem_ \cup InTables(current_ \cup apply.edit.add)
  BY <1>3, <1>4 DEF OpenFinds
<1>20. Recoverable' = mem_ \cup InTables(current_ \cup apply.edit.add)
  <2>1. Recoverable' = EntriesOf(ReplayedTables(Q), data')
                       \cup UNION {LogEntries(n, data') : n \in LogsFrom(dir, ReplayedLog(Q))}
    BY <1>3, <1>5, <1>11 DEF Recoverable, Here, InTables, Contents, EntriesOf, TableEntries,
                            InLog, LogEntries
  <2>2. EntriesOf(ReplayedTables(Q), data') = InTables(current_ \cup apply.edit.add)
    BY <1>3, <1>8, <1>15, InTablesAre
  <2>3. UNION {LogEntries(n, data') : n \in {logfile_number_}} = mem_
    <3>1. LogEntries(logfile_number_, data') = mem_
      BY <1>3, <1>8, <1>16, InTablesAre
    <3> QED BY <3>1
  <2>4. LogsFrom(dir, ReplayedLog(Q)) = {logfile_number_}
    BY <1>15, <1>16
  <2> QED BY <2>1, <2>2, <2>3, <2>4
<1>21. Stutters
  BY <1>6, <1>19, <1>20 DEF Stutters, Held
<1>22. OpenFinds'
  <2>1. Committed' /\ Here'[Len(Here')] = apply'.edit
        /\ ReplayedTables(Here)' = current_' \cup apply'.edit.add
    BY <1>1, <1>6, <1>11, <1>15 DEF Committed
  <2>2. dir' = dir /\ todo' = {}
    BY <1>3, <1>5, <1>6
  <2>3. UNION {InLog(n) : n \in todo}' = {}
    BY <2>2
  <2>4. Recoverable' = mem_' \cup InTables(current_ \cup apply.edit.add)'
                        \cup UNION {InLog(n) : n \in todo}'
    BY <1>6, <1>17, <1>20, <2>3
  <2> QED BY <1>1, <1>3, <1>4, <1>6, <1>16, <1>18, <2>1, <2>2, <2>4 DEF OpenFinds
<1> QED BY <1>6, <1>7, <1>9, <1>10, <1>21, <1>22 DEF HeldInv, Promise, LogsDown, NextInv, UpLogs

LEMMA HeldApplyAppend ==
    ASSUME StoreInv, TypeInv', ApplyAppend
    PROVE  HeldInv' /\ Stutters
<1>1. phase \in {"open", "up"}
  BY ApplyRuns DEF StoreInv, DiskInv, ApplyAppend
<1> QED BY <1>1, HeldAppendUp, HeldAppendOpenNew, HeldAppendOpenOld

\* A MANIFEST with a snapshot of the tables and an edit.
LEMMA SnapshotIs ==
    ASSUME NEW tables \in SUBSET Numbers, NEW e \in EditsTo(writes), writes \in Nat,
           NEW Q, Q = <<Edit(0, 0, 0, tables, {}), e>>
    PROVE  /\ Len(Q) = 2 /\ DOMAIN Q = 1..2 /\ Q[2] = e
           /\ ReplayedTables(Q) = Applied(tables, e) /\ TablesAt(Q, 2) = Applied(tables, e)
           /\ e.log # 0 => ReplayedLog(Q) = e.log
<1>1. PICK s : s = Edit(0, 0, 0, tables, {})
  OBVIOUS
<1>2. s \in EditsTo(writes) /\ s.add = tables
  BY <1>1 DEF Edit, EditsTo
<1>3. PICK R : R = <<s>>
  OBVIOUS
<1>4. R \in Seq(EditsTo(writes)) /\ Len(R) = 1 /\ R[1] = s
  BY <1>2, <1>3
<1>5. Appended(Q, R, e)
  BY <1>1, <1>3, TwoRecords DEF Appended
<1>6. /\ Len(Q) = 2 /\ DOMAIN Q = 1..2 /\ Q[2] = e
      /\ TablesAt(Q, 2) = Applied(TablesAt(R, 1), e)
  BY <1>4, <1>5, RecordAppended
<1>7. TablesAt(R, 1) = tables
  <2>1. 1..1 = {1} /\ 2..1 = {}
    OBVIOUS
  <2>2. TablesAt(R, 1) = UNION {{n \in R[i].add : TRUE} : i \in {1}}
    BY <2>1 DEF TablesAt
  <2>3. UNION {{n \in R[i].add : TRUE} : i \in {1}} = R[1].add
    OBVIOUS
  <2> QED BY <1>2, <1>4, <2>2, <2>3
<1>8. e.log # 0 => ReplayedLog(Q) = e.log
  <2>1. Len(Q) \in Nat /\ DOMAIN Q = 1..Len(Q) /\ Len(Q) > 0
    BY <1>6
  <2>2. e.log # 0 => ReplayedLog(Q) = Q[Len(Q)].log
    BY <1>6, <2>1, LogIsLast
  <2> QED BY <1>6, <2>2
<1> QED BY <1>6, <1>7, <1>8, TablesAtFull

\* The log of the process is the last.
LEMMA LastLog ==
    ASSUME StoreInv, phase = "open", logfile_number_ # 0
    PROVE  /\ LogsFrom(dir, logfile_number_) = {logfile_number_}
           /\ logfile_number_ \in LogsIn(dir) /\ mem_ = InLog(logfile_number_)
           /\ logfile_number_ \in Numbers
           /\ UNION {LogEntries(n, data) : n \in {logfile_number_}} = mem_
<1>1. TypeInv /\ Runs /\ LogsIn(dir) \subseteq Numbers
  BY OpenIs
<1>2. logfile_number_ \in LogsIn(dir) /\ mem_ = InLog(logfile_number_)
  BY DEF StoreInv, HeldInv, OpenFinds
<1>3. \A n \in LogsIn(dir) : n <= logfile_number_ /\ n \in Nat
  BY <1>1, NumbersAre DEF StoreInv, HeldInv, LogsBelow, LogBelow
<1>4. \A n \in LogsFrom(dir, logfile_number_) : n = logfile_number_
  <2>1. \A n \in LogsFrom(dir, logfile_number_) : n \in LogsIn(dir) /\ n >= logfile_number_
    BY DEF LogsFrom, LogsIn
  <2> QED BY <1>2, <1>3, <2>1
<1>5. logfile_number_ \in LogsFrom(dir, logfile_number_)
  BY <1>2, <1>3 DEF LogsFrom, LogsIn
<1>6. LogEntries(logfile_number_, data) = mem_
  BY <1>2, InTablesAre
<1> QED BY <1>1, <1>2, <1>4, <1>5, <1>6

\* CURRENT names the MANIFEST that has the edit already: nothing changes on the disk.
LEMMA HeldCurrentStays ==
    ASSUME StoreInv, TypeInv', SetCurrentFile, phase = "up" \/ has_descriptor_
    PROVE  HeldInv' /\ Stutters
<1>1. /\ apply.pc = "current" /\ ChangeDir([dir EXCEPT !.current = manifest_file_number_])
      /\ has_descriptor_' = TRUE
      /\ UNCHANGED <<data, synced, log_number_, manifest_file_number_, next_file_number_,
                   memVars, openVars, versionVars, flush, c, bg_error_, historyVars>>
      /\ apply' = [apply EXCEPT !.pc = "install"]
  BY DEF SetCurrentFile
<1>2. /\ apply'.pc = "install" /\ apply'.owner = apply.owner /\ apply'.edit = apply.edit
      /\ TypeInv /\ Runs
  BY <1>1, ApplyGoesOn, ApplyRuns DEF StoreInv, DiskInv, historyVars, Runs
<1>3. ~MayCrash /\ ~MayCrash'
  BY <1>1, <1>2 DEF StoreInv, DiskInv, Descriptor, MayCrash, openVars, historyVars, Runs
<1>4. UNCHANGED <<mem_, imm_, has_imm_, logfile_number_, log_number_, next_file_number_,
                  manifest_file_number_, current_, hard, todo, flush, c, bg_error_, phase>>
  BY <1>1 DEF memVars, openVars, versionVars, historyVars
<1>5. TablesMade'
  <2>1. \A T \in SUBSET Numbers : EntriesOf(T, data') = EntriesOf(T, data)
    BY <1>1
  <2> QED BY <1>2, <1>4, <2>1, TablesStillMade DEF Runs
<1>6. CASE phase = "up"
  BY <1>1, <1>3, <1>4, <1>5, <1>6, UpCareless
<1>7. CASE phase = "open"
  <2>1. dir.current = manifest_file_number_ /\ has_descriptor_ /\ OpenFinds
    BY <1>7 DEF StoreInv, HeldInv, OpenFinds
  <2>2. dir' = dir
    BY <1>1, <1>2, <2>1, ChangeDirIs DEF TypeInv, DirsOK, DirType
  <2>3. Recoverable' = Recoverable /\ Here' = Here
    BY <1>1, <2>2 DEF Recoverable, Here, InTables, Contents, InLog
  <2>4. Committed /\ Committed'
    BY <1>1, <1>2, <2>1 DEF Committed
  <2>5. /\ InTables(current_ \cup apply.edit.add)' = InTables(current_ \cup apply.edit.add)
        /\ UNION {InLog(n) : n \in todo}' = UNION {InLog(n) : n \in todo}
        /\ InLog(logfile_number_)' = InLog(logfile_number_)
    BY <1>1, <1>2, <1>4 DEF InTables, Contents, InLog
  <2>6. OpenFinds'
    BY <1>1, <1>2, <1>4, <2>1, <2>2, <2>3, <2>4, <2>5 DEF OpenFinds, openVars
  <2>7. LogsBelow'
    BY <1>2, <1>3, <1>4, <2>2 DEF StoreInv, HeldInv, LogsBelow, LogBelow, Runs
  <2>8. Stutters
    BY <1>4, <1>7, <2>3 DEF Stutters, Held
  <2> QED BY <1>3, <1>4, <1>5, <1>7, <2>6, <2>7, <2>8
          DEF HeldInv, Promise, LogsDown, NextInv, UpLogs
<1> QED BY <1>2, <1>6, <1>7 DEF Runs

LEMMA HeldSetCurrentNew ==
    ASSUME StoreInv, TypeInv', SetCurrentFile, phase = "open", ~has_descriptor_
    PROVE  HeldInv' /\ Stutters
<1>1. /\ apply.pc = "current" /\ ChangeDir([dir EXCEPT !.current = manifest_file_number_])
      /\ has_descriptor_' = TRUE
      /\ UNCHANGED <<data, synced, log_number_, manifest_file_number_, next_file_number_,
                   memVars, openVars, versionVars, flush, c, bg_error_, historyVars>>
      /\ apply' = [apply EXCEPT !.pc = "install"]
  BY DEF SetCurrentFile
<1>2. /\ TypeInv /\ Runs /\ dir \in Dirs /\ dir.current # 0 /\ dir.current \in Numbers
      /\ Len(Here) \in Nat /\ DOMAIN Here = 1..Len(Here)
      /\ LogsIn(dir) \subseteq Numbers /\ manifest_file_number_ \in Numbers
      /\ todo = {} /\ logfile_number_ # 0 /\ current_ \cup apply.edit.add \subseteq Numbers
      /\ apply.edit.del = {} /\ apply.edit \in EditsTo(writes)
      /\ MayCrash => /\ ~reuse /\ mem_ = {}
                     /\ Len(Here) > 0 /\ Here[Len(Here)].next \in Nat
  BY <1>1, OpenIs DEF TypeInv, BgType, ApplyType
<1>3. apply'.pc = "install" /\ apply'.owner = apply.owner /\ apply'.edit = apply.edit
  BY <1>1, <1>2, ApplyGoesOn DEF historyVars
<1>4. UNCHANGED <<mem_, imm_, has_imm_, logfile_number_, log_number_, next_file_number_, reuse,
                  manifest_file_number_, current_, hard, faults, todo, flush, c, bg_error_, phase>>
  BY <1>1 DEF memVars, openVars, versionVars, historyVars
<1>5. OpenFinds
  BY DEF StoreInv, HeldInv
<1>6. /\ dir'.current = manifest_file_number_ /\ dir'.files = dir.files
      /\ Dirs' \subseteq Dirs \cup {dir'} /\ LogsIn(dir') = LogsIn(dir)
  BY <1>1, <1>2, ChangeDirIs DEF TypeInv, DirsOK, DirType, LogsIn
<1>7. Here' = Mine /\ Mine' = Mine /\ MayCrash' = MayCrash
  BY <1>1, <1>4, <1>6 DEF Here, Mine, MayCrash
<1>8. PICK Q : Q = Mine
  OBVIOUS
<1>9. /\ Len(Q) = 2 /\ DOMAIN Q = 1..2 /\ Q[2] = apply.edit
      /\ TablesAt(Q, 2) = current_ \cup apply.edit.add
      /\ ReplayedTables(Q) = current_ \cup apply.edit.add
      /\ ReplayedLog(Q) = logfile_number_ /\ apply.edit.log = logfile_number_
  <2>1. Q = <<Edit(0, 0, 0, current_, {}), apply.edit>> /\ apply.edit.log = logfile_number_
    BY <1>1, <1>5, <1>8 DEF OpenFinds
  <2>2. writes \in Nat /\ current_ \in SUBSET Numbers
    BY <1>2, NumbersAre DEF TypeInv, HistoryType
  <2>3. /\ Len(Q) = 2 /\ DOMAIN Q = 1..2 /\ Q[2] = apply.edit
        /\ ReplayedTables(Q) = Applied(current_, apply.edit)
        /\ TablesAt(Q, 2) = Applied(current_, apply.edit)
        /\ apply.edit.log # 0 => ReplayedLog(Q) = apply.edit.log
    BY <1>2, <2>1, <2>2, SnapshotIs
  <2>4. Applied(current_, apply.edit) = current_ \cup apply.edit.add
    BY <1>2 DEF Applied
  <2> QED BY <1>2, <2>1, <2>3, <2>4
<1>10. /\ LogsFrom(dir', logfile_number_) = {logfile_number_}
       /\ logfile_number_ \in LogsIn(dir) /\ mem_ = InLog(logfile_number_)
       /\ UNION {LogEntries(n, data) : n \in {logfile_number_}} = mem_
  <2>1. LogsFrom(dir', logfile_number_) = LogsFrom(dir, logfile_number_)
    BY <1>6 DEF LogsFrom
  <2> QED BY <1>2, <2>1, LastLog
<1>11. PICK T : T = current_ \cup apply.edit.add
  OBVIOUS
<1>12. Recoverable = mem_ \cup EntriesOf(T, data)
  <2>1. Recoverable = mem_ \cup InTables(current_ \cup apply.edit.add)
    BY <1>2, <1>5 DEF OpenFinds
  <2> QED BY <1>11, <2>1, InTablesAre
<1>13. Recoverable' = Recoverable
  <2>1. dir'.current # 0
    BY <1>2, <1>6, NumbersAre
  <2>2. Recoverable' = EntriesOf(ReplayedTables(Here'), data')
                       \cup UNION {LogEntries(n, data') : n \in LogsFrom(dir', ReplayedLog(Here'))}
    BY <2>1 DEF Recoverable, Here, InTables, Contents, EntriesOf, TableEntries,
                InLog, LogEntries
  <2> QED BY <1>1, <1>7, <1>8, <1>9, <1>10, <1>11, <1>12, <2>2
<1>14. Stutters /\ Held' = Held
  BY <1>4, <1>13 DEF Stutters, Held
<1>15. Promise'
  <2> SUFFICES ASSUME MayCrash, NEW e \in Dirs'
               PROVE  Keeps(e, data, synced, Held, hard)
    BY <1>1, <1>4, <1>7, <1>14 DEF Promise, AllKeep
  <2>1. CASE e \in Dirs
    BY <2>1 DEF StoreInv, HeldInv, Promise, AllKeep
  <2>2. CASE e = dir'
    <3>1. synced[Manifest(manifest_file_number_)] = 2
      BY <1>2, <1>8, <1>9, CurrentKeeps DEF StoreInv
    <3>2. PICK W : W = Held
      OBVIOUS
    <3>3. PICK h : h = hard
      OBVIOUS
    <3>4. Keeps(dir, data, synced, W, h) /\ GoodDir(dir, data, synced)
      BY <1>2, <3>2, <3>3 DEF StoreInv, HeldInv, Promise, AllKeep, DiskInv, DirsGood, AllGood
    <3>5. h \subseteq Recoverable
      BY <1>2, <3>4, RecoverableIs
    <3>6. W = EntriesOf(T, data)
      BY <1>2, <1>12, <3>2 DEF Held
    <3>7. data[Manifest(e.current)] = Q /\ synced[Manifest(e.current)] = 2 /\ e.current # 0
      BY <1>2, <1>6, <1>8, <2>2, <3>1, NumbersAre DEF Mine
    <3>8. h \subseteq Least(2, e, data, synced)
      BY <1>2, <1>9, <1>11, <1>12, <3>5, <3>7 DEF Least
    <3>9. Most(2, e, data) \subseteq W
      BY <1>2, <1>9, <1>10, <1>11, <2>2, <3>6, <3>7 DEF Most
    <3>10. LogAt(2, Q)
      <4>1. apply.edit.log # 0 /\ apply.edit.log <= apply.edit.next
        BY <1>1, <1>2 DEF StoreInv, HeldInv, NextInv
      <4> QED BY <1>9, <4>1 DEF LogAt
    <3>11. Keeps(e, data, synced, W, h)
      <4>1. SUFFICES ASSUME NEW k \in 1..Len(Q), 2 <= k
                     PROVE  h \subseteq Least(k, e, data, synced) /\ Most(k, e, data) \subseteq W
                            /\ LogAt(k, Q)
        BY <3>7 DEF Keeps
      <4>2. k = 2
        BY <1>9, <4>1
      <4> QED BY <3>8, <3>9, <3>10, <4>2
    <3> QED BY <3>2, <3>3, <3>11
  <2> QED BY <1>6, <2>1, <2>2
<1>16. MayCrash => /\ Here[Len(Here)].next <= apply.edit.next
                   /\ apply.edit.next <= next_file_number_ /\ apply.edit.next \in Nat
  BY <1>1, <1>2 DEF StoreInv, HeldInv, NextInv, EditsTo
<1>17. LogsDown'
  BY <1>2, <1>6, <1>7, <1>8, <1>9, <1>16, LogsDownFramed DEF StoreInv, HeldInv
<1>18. LogsBelow'
  <2>1. next_file_number_ <= next_file_number_' /\ LogsBelow
    BY <1>2, <1>4, NumbersKept DEF StoreInv, HeldInv
  <2> QED BY <1>2, <1>4, <1>6, <1>7, <2>1, LogsBelowFramed
<1>19. NextInv'
  <2>1. MayCrash => apply.edit.log # 0 /\ apply.edit.log <= apply.edit.next
    BY <1>1, <1>2 DEF StoreInv, HeldInv, NextInv
  <2>2. MayCrash => apply.edit.next <= apply.edit.next
    BY <1>16
  <2> QED BY <1>3, <1>4, <1>7, <1>8, <1>9, <1>16, <2>1, <2>2 DEF NextInv
<1>20. TablesMade'
  <2>1. \A S \in SUBSET Numbers : EntriesOf(S, data') = EntriesOf(S, data)
    BY <1>1
  <2> QED BY <1>3, <1>4, <2>1, TablesStillMade
<1>21. OpenFinds'
  <2>1. /\ InTables(current_ \cup apply.edit.add)' = InTables(current_ \cup apply.edit.add)
        /\ UNION {InLog(n) : n \in todo}' = UNION {InLog(n) : n \in todo}
        /\ InLog(logfile_number_)' = InLog(logfile_number_)
    BY <1>1, <1>3, <1>4 DEF InTables, Contents, InLog
  <2>2. Here'[Len(Here')] = apply'.edit /\ ReplayedTables(Here)' = (current_ \cup apply.edit.add)'
    BY <1>3, <1>4, <1>7, <1>8, <1>9
  <2>3. dir'.current # 0 /\ Committed'
    BY <1>1, <1>2, <1>3, <1>6, NumbersAre DEF Committed
  <2> QED BY <1>1, <1>2, <1>3, <1>4, <1>5, <1>6, <1>13, <2>1, <2>2, <2>3 DEF OpenFinds
<1> QED BY <1>4, <1>14, <1>15, <1>17, <1>18, <1>19, <1>20, <1>21 DEF HeldInv, UpLogs

LEMMA HeldSetCurrentFile ==
    ASSUME StoreInv, TypeInv', SetCurrentFile
    PROVE  HeldInv' /\ Stutters
<1>1. phase \in {"open", "up"}
  BY ApplyRuns DEF StoreInv, DiskInv, SetCurrentFile
<1> QED BY <1>1, HeldCurrentStays, HeldSetCurrentNew

-----------------------------------------------------------------------------
(***************************************************************************)
(* DB::Open reads the logs.                                                *)
(***************************************************************************)

\* DB::Open leaves the disk as it is.
LEMMA OpenQuiet ==
    ASSUME StoreInv, TypeInv', phase = "open", phase' = "open", UNCHANGED diskVars,
           UNCHANGED <<faults, hard>>
    PROVE  /\ Promise' /\ LogsDown' /\ Stutters
           /\ Here' = Here /\ Recoverable' = Recoverable /\ MayCrash' = MayCrash
           /\ dir' = dir /\ Dirs' = Dirs /\ data' = data
           /\ \A T \in SUBSET Numbers : EntriesOf(T, data') = EntriesOf(T, data)
           /\ UpLogs'
<1>1. dir' = dir /\ older' = older /\ data' = data /\ synced' = synced
  BY DEF diskVars
<1>2. /\ Here' = Here /\ Recoverable' = Recoverable /\ MayCrash' = MayCrash /\ Dirs' = Dirs
  BY <1>1 DEF Here, Recoverable, MayCrash, Dirs, InTables, Contents, InLog
<1>3. Stutters /\ Held' = Held
  BY <1>2 DEF Stutters, Held
<1>4. Promise'
  BY <1>1, <1>2, <1>3 DEF StoreInv, HeldInv, Promise
<1>5. LogsDown'
  BY <1>1, <1>2 DEF StoreInv, HeldInv, LogsDown
<1> QED BY <1>1, <1>2, <1>3, <1>4, <1>5 DEF UpLogs

LEMMA HeldOpenApply ==
    ASSUME StoreInv, TypeInv', OpenApply
    PROVE  HeldInv' /\ Stutters
<1>1. /\ phase = "open" /\ apply.pc = "none" /\ todo = {} /\ logfile_number_ # 0
      /\ apply' = [pc |-> "append", owner |-> "open",
                   edit |-> Edit(logfile_number_, next_file_number_, last_sequence_,
                                 apply.edit.add, {})]
      /\ UNCHANGED <<diskVars, numberVars, memVars, openVars, versionVars, flush, c, bg_error_,
                     historyVars>>
  BY DEF OpenApply, Opened, StartApply
<1>2. /\ apply'.pc = "append" /\ apply'.owner = "open" /\ apply'.edit.next = next_file_number_
      /\ apply'.edit.add = apply.edit.add /\ apply'.edit.log = logfile_number_
  BY <1>1 DEF Edit
<1>3. /\ phase' = "open" /\ UNCHANGED <<faults, hard, todo, current_, next_file_number_,
                                        logfile_number_, log_number_, mem_, imm_, has_imm_,
                                        has_descriptor_, reuse, manifest_file_number_, flush, c,
                                        bg_error_>>
  BY <1>1 DEF openVars, historyVars, versionVars, numberVars, memVars
<1>4. /\ Promise' /\ LogsDown' /\ Stutters
      /\ Here' = Here /\ Recoverable' = Recoverable /\ MayCrash' = MayCrash
      /\ dir' = dir /\ Dirs' = Dirs /\ data' = data /\ UpLogs'
      /\ \A T \in SUBSET Numbers : EntriesOf(T, data') = EntriesOf(T, data)
  BY <1>1, <1>3, OpenQuiet
<1>5. TypeInv /\ Runs /\ logfile_number_ \in Nat /\ next_file_number_ \in Nat
  BY <1>1, OpenIs DEF TypeInv, NumberType
<1>6. TablesMade'
  BY <1>1, <1>2, <1>3, <1>4, TablesStillMade
<1>7. LogsBelow'
  <2>1. LogsBelow /\ next_file_number_ <= next_file_number_' /\ Dirs' \subseteq Dirs \cup {dir'}
    BY <1>3, <1>4, <1>5 DEF StoreInv, HeldInv
  <2> QED BY <1>1, <1>3, <1>4, <1>5, <2>1, LogsBelowFramed
<1>8. NextInv'
  <2>1. logfile_number_ <= next_file_number_ /\ next_file_number_ <= next_file_number_
    BY <1>5 DEF StoreInv, HeldInv, LogsBelow
  <2> QED BY <1>1, <1>2, <1>3, <1>4, <1>5, <2>1 DEF StoreInv, HeldInv, NextInv
<1>9. OpenFinds'
  <2>1. OpenFinds
    BY DEF StoreInv, HeldInv
  <2>2. ~Committed /\ ~Committed'
    BY <1>1, <1>2 DEF Committed
  <2>3. /\ InTables(current_ \cup apply.edit.add)' = InTables(current_ \cup apply.edit.add)
        /\ UNION {InLog(n) : n \in todo}' = UNION {InLog(n) : n \in todo}
        /\ InLog(logfile_number_)' = InLog(logfile_number_)
    BY <1>2, <1>3, <1>4 DEF InTables, Contents, InLog
  <2>4. ReplayedTables(Here)' = ReplayedTables(Here)
    BY <1>4
  <2> QED BY <1>1, <1>2, <1>3, <1>4, <2>1, <2>2, <2>3, <2>4 DEF OpenFinds
<1> QED BY <1>4, <1>6, <1>7, <1>8, <1>9 DEF HeldInv

LEMMA HeldReuseLog ==
    ASSUME StoreInv, TypeInv', ReuseLog
    PROVE  HeldInv' /\ Stutters
<1>1. PICK n \in todo :
           /\ todo = {n}
           /\ mem_' = InLog(n)
           /\ logfile_number_' = n
           /\ next_file_number_' = Max({next_file_number_, n + 1})
  BY DEF ReuseLog
<1>2. /\ phase = "open" /\ phase' = "open" /\ reuse /\ todo' = {}
      /\ UNCHANGED diskVars
      /\ UNCHANGED <<faults, hard, current_, log_number_, imm_, has_imm_, apply,
                     has_descriptor_, reuse, manifest_file_number_, flush, c, bg_error_>>
  BY DEF ReuseLog, historyVars, versionVars, bgVars
<1>3. /\ Promise' /\ LogsDown' /\ Stutters
      /\ Here' = Here /\ Recoverable' = Recoverable /\ MayCrash' = MayCrash
      /\ dir' = dir /\ Dirs' = Dirs /\ data' = data /\ UpLogs'
      /\ \A T \in SUBSET Numbers : EntriesOf(T, data') = EntriesOf(T, data)
  BY <1>2, OpenQuiet
<1>4. /\ TypeInv /\ Runs /\ LogsIn(dir) \subseteq Numbers /\ OpenFinds
      /\ (MayCrash => ~reuse) /\ apply.owner = "open" /\ imm_ = {} /\ ~has_imm_ /\ c = None
      /\ ~bg_error_
  BY <1>2, OpenIs DEF StoreInv, HeldInv
<1>5. n \in LogsIn(dir) /\ n \in Nat /\ n # 0 /\ next_file_number_ \in Nat
  <2>1. n \in LogsIn(dir)
    BY <1>1, <1>2, <1>4 DEF OpenFinds
  <2> QED BY <1>4, <2>1, NumbersAre DEF TypeInv, NumberType
<1>6. n < next_file_number_' /\ next_file_number_ <= next_file_number_'
  <2>1. Max({next_file_number_, n + 1}) >= next_file_number_
        /\ Max({next_file_number_, n + 1}) >= n + 1 /\ Max({next_file_number_, n + 1}) \in Nat
    BY <1>5, MaxOfTwo
  <2> QED BY <1>1, <1>5, <2>1
<1>7. logfile_number_ = 0 /\ apply.pc = "none" /\ mem_ = {}
  <2>1. logfile_number_ = 0
    BY <1>1 DEF StoreInv, LogsRead
  <2> QED BY <1>2, <1>4, <2>1 DEF TypeInv, PhaseType, OpenFinds
<1>8. TablesMade'
  BY <1>2, <1>4 DEF TablesMade
<1>9. ~MayCrash'
  BY <1>2, <1>3, <1>4
<1>10. LogsBelow'
  <2>1. ASSUME NEW m \in LogsIn(dir)
        PROVE  m <= n
    <3>1. m \in Nat
      BY <1>4, NumbersAre
    <3>2. m = n \/ m < n
      BY <1>1, <1>2, <1>4 DEF OpenFinds
    <3> QED BY <1>5, <3>1, <3>2
  <2> QED BY <1>1, <1>2, <1>3, <1>5, <1>6, <1>9, <2>1 DEF LogsBelow, LogBelow
<1>11. NextInv'
  BY <1>9 DEF NextInv
<1>12. OpenFinds'
  <2>1. /\ InTables(current_ \cup apply.edit.add)' = InTables(current_ \cup apply.edit.add)
        /\ InLog(logfile_number_)' = InLog(n)
    BY <1>1, <1>2, <1>3 DEF InTables, Contents, InLog
  <2>2. UNION {InLog(m) : m \in todo} = InLog(n)
    BY <1>1
  <2>3. UNION {InLog(m) : m \in todo}' = {}
    BY <1>2
  <2>4. Recoverable = {} \cup InTables(current_ \cup apply.edit.add) \cup InLog(n)
    BY <1>2, <1>4, <1>7, <2>2 DEF OpenFinds
  <2>5. Recoverable' = mem_' \cup InTables(current_ \cup apply.edit.add)'
                       \cup UNION {InLog(m) : m \in todo}'
    BY <1>1, <1>3, <2>1, <2>3, <2>4
  <2>6. ~Committed /\ ~Committed'
    BY <1>2, <1>7 DEF Committed
  <2>7. ReplayedTables(Here)' = current_'
    BY <1>2, <1>3, <1>4, <2>6 DEF OpenFinds
  <2> QED BY <1>1, <1>2, <1>3, <1>4, <1>5, <1>7, <2>1, <2>5, <2>6, <2>7 DEF OpenFinds
<1> QED BY <1>3, <1>8, <1>10, <1>11, <1>12 DEF HeldInv

\* RecoverLogFile has read the log n, what was in it is in the tables, and n is the
\* last number that is known to be used.
LEMMA LogIsRead ==
    ASSUME StoreInv, TypeInv', phase = "open", phase' = "open",
           NEW n, NextLog(n), todo' = todo \ {n},
           UNCHANGED <<mem_, imm_, has_imm_, logfile_number_, has_descriptor_, reuse, c, bg_error_,
                       manifest_file_number_, current_>>,
           apply'.pc = apply.pc, apply'.owner = apply.owner,
           n < next_file_number_', next_file_number_ <= next_file_number_',
           Here' = Here, Recoverable' = Recoverable, MayCrash' = MayCrash,
           dir'.current = dir.current, LogsIn(dir') = LogsIn(dir), Dirs' \subseteq Dirs \cup {dir'},
           \A k \in Numbers : LogEntries(k, data') = LogEntries(k, data),
           EntriesOf(current_' \cup apply'.edit.add, data')
               = InTables(current_ \cup apply.edit.add) \cup InLog(n)
    PROVE  TablesMade' /\ LogsBelow' /\ NextInv' /\ OpenFinds' /\ UpLogs'
<1>1. /\ TypeInv /\ Runs /\ LogsIn(dir) \subseteq Numbers /\ OpenFinds /\ LogsBelow
      /\ apply.owner = "open" /\ imm_ = {} /\ ~has_imm_ /\ c = None
      /\ ~bg_error_ /\ (MayCrash => Here[Len(Here)].next \in Nat)
      /\ (MayCrash => mem_ = {})
  BY OpenIs DEF StoreInv, HeldInv
<1>2. n \in todo /\ todo # {} /\ \A m \in todo : n <= m
  BY DEF NextLog
<1>3. logfile_number_ = 0 /\ apply.pc = "none" /\ mem_ = {}
  <2>1. logfile_number_ = 0
    BY <1>2 DEF StoreInv, LogsRead
  <2> QED BY <1>1, <2>1 DEF TypeInv, PhaseType, OpenFinds
<1>4. /\ next_file_number_ \in Nat /\ next_file_number_' \in Nat /\ n \in Nat
      /\ todo \subseteq LogsIn(dir)
  <2>1. todo \subseteq LogsIn(dir)
    BY <1>1 DEF OpenFinds
  <2> QED BY <1>1, <1>2, <2>1, NumbersAre DEF TypeInv, NumberType
<1>5. TablesMade'
  BY <1>1, <1>3 DEF TablesMade
<1>6. ASSUME NEW m, m \in Nat, LogBelow(m)
      PROVE  LogBelow(m)'
  <2>1. m < next_file_number_ \/ m \in todo
    BY <1>3, <1>6 DEF LogBelow
  <2>2. m < next_file_number_' \/ m \in todo'
    BY <1>4, <1>6, <2>1
  <2> QED BY <1>3, <2>2 DEF LogBelow
<1>7. LogsBelow'
  <2>1. \A m \in LogsIn(dir) : m \in Nat
    BY <1>1, NumbersAre
  <2>2. \A m \in LogsIn(dir') : LogBelow(m)'
    BY <1>1, <1>6, <2>1 DEF LogsBelow
  <2>3. ASSUME MayCrash, NEW d \in Dirs', NEW m \in LogsIn(d)
        PROVE  LogBelow(m)'
    <3>1. CASE d \in Dirs
      <4>1. m \in Nat
        BY <1>1, <2>3, <3>1, DirsAre, LogsAre, NumbersAre
      <4>2. LogBelow(m)
        BY <1>1, <2>3, <3>1 DEF LogsBelow
      <4> QED BY <1>6, <4>1, <4>2
    <3>2. CASE d = dir'
      BY <2>2, <2>3, <3>2
    <3> QED BY <2>3, <3>1, <3>2
  <2>4. logfile_number_' < next_file_number_'
    BY <1>3, <1>4
  <2> QED BY <2>2, <2>3, <2>4 DEF LogsBelow
<1>8. NextInv'
  <2>1. MayCrash => Here[Len(Here)].next <= next_file_number_'
    <3>1. MayCrash => Here[Len(Here)].next <= next_file_number_
      BY <1>1 DEF StoreInv, HeldInv, NextInv
    <3> QED BY <1>1, <1>4, <3>1
  <2> QED BY <1>3, <2>1 DEF NextInv
<1>9. OpenFinds'
  <2>1. PICK V : V = UNION {InLog(m) : m \in todo}
    OBVIOUS
  <2>2. PICK U : U = UNION {InLog(m) : m \in todo \ {n}}
    OBVIOUS
  <2>3. V = U \cup InLog(n)
    BY <1>2, <2>1, <2>2
  <2>4. UNION {InLog(m) : m \in todo}' = U
    <3>1. UNION {InLog(m) : m \in todo}' = UNION {LogEntries(m, data') : m \in todo'}
      BY DEF InLog, LogEntries
    <3>2. \A m \in todo' : LogEntries(m, data') = InLog(m)
      BY <1>1, <1>4, InTablesAre
    <3> QED BY <2>2, <3>1, <3>2
  <2>5. PICK I : I = InTables(current_ \cup apply.edit.add)
    OBVIOUS
  <2>6. Recoverable = I \cup V
    BY <1>1, <1>3, <2>1, <2>5 DEF OpenFinds
  <2>7. InTables(current_ \cup apply.edit.add)' = I \cup InLog(n)
    <3>1. InTables(current_ \cup apply.edit.add)' = EntriesOf(current_' \cup apply'.edit.add, data')
      BY DEF InTables, Contents, EntriesOf, TableEntries
    <3> QED BY <2>5, <3>1
  <2>8. Recoverable' = mem_' \cup InTables(current_ \cup apply.edit.add)'
                       \cup UNION {InLog(m) : m \in todo}'
    BY <1>3, <2>3, <2>4, <2>6, <2>7
  <2>9. todo' \subseteq LogsIn(dir')
    BY <1>4
  <2>10. ASSUME NEW m \in LogsIn(dir') \ todo', NEW k \in todo'
         PROVE  m < k
    <3>1. k \in todo /\ k # n /\ n <= k /\ k \in Nat
      BY <1>1, <1>2, <1>4, NumbersAre
    <3>2. CASE m = n
      BY <1>4, <3>1, <3>2
    <3>3. CASE m # n
      BY <1>1, <3>1, <3>3 DEF OpenFinds
    <3> QED BY <3>2, <3>3
  <2>11. ~Committed /\ ~Committed'
    BY <1>3 DEF Committed
  <2>12. ReplayedTables(Here)' = current_'
    BY <1>1, <2>11 DEF OpenFinds
  <2>13. dir'.current # 0 /\ IF has_descriptor_' THEN dir'.current = manifest_file_number_'
                             ELSE dir'.current < manifest_file_number_'
    BY <1>1 DEF OpenFinds
  <2> QED BY <1>1, <1>3, <2>8, <2>9, <2>10, <2>11, <2>12, <2>13 DEF OpenFinds
<1>10. UpLogs'
  BY DEF UpLogs
<1> QED BY <1>5, <1>7, <1>8, <1>9, <1>10

LEMMA HeldReadEmptyLog ==
    ASSUME StoreInv, TypeInv', phase = "open", phase' = "open", NEW n \in Numbers,
           NextLog(n), todo' = todo \ {n}, InLog(n) = {},
           next_file_number_' = Max({next_file_number_, n + 1}),
           UNCHANGED <<diskVars, apply>>,
           UNCHANGED <<mem_, imm_, has_imm_, logfile_number_, log_number_,
                       manifest_file_number_, has_descriptor_, phase, reuse, versionVars,
                       flush, c, bg_error_, historyVars>>
    PROVE  HeldInv' /\ Stutters
<1>1. /\ Promise' /\ LogsDown' /\ Stutters
      /\ Here' = Here /\ Recoverable' = Recoverable /\ MayCrash' = MayCrash
      /\ dir' = dir /\ Dirs' = Dirs /\ data' = data
  BY OpenQuiet DEF historyVars
<1>2. n < next_file_number_' /\ next_file_number_ <= next_file_number_'
  <2>1. n \in Nat /\ next_file_number_ \in Nat
    BY OpenIs, NumbersAre DEF TypeInv, NumberType
  <2>2. Max({next_file_number_, n + 1}) >= next_file_number_
        /\ Max({next_file_number_, n + 1}) >= n + 1 /\ Max({next_file_number_, n + 1}) \in Nat
    BY <2>1, MaxOfTwo
  <2> QED BY <2>1, <2>2
<1>3. current_' = current_ /\ apply' = apply
  BY DEF versionVars
<1>4. EntriesOf(current_' \cup apply'.edit.add, data')
          = InTables(current_ \cup apply.edit.add) \cup InLog(n)
  BY <1>1, <1>3, InTablesAre
<1>5. TablesMade' /\ LogsBelow' /\ NextInv' /\ OpenFinds' /\ UpLogs'
  BY <1>1, <1>2, <1>3, <1>4, LogIsRead
<1> QED BY <1>1, <1>5 DEF HeldInv

LEMMA HeldLogToTable ==
    ASSUME StoreInv, TypeInv', phase = "open", NEW n \in Numbers, InLog(n) # {},
           NextLog(n), todo' = todo \ {n}, NEW t \in Numbers, t = next_file_number_,
           next_file_number_' = Max({t, n}) + 1,
           dir' = Create(TableFile(t)),
           data' = [data EXCEPT ![TableFile(t)] = <<TableOf(InLog(n), FALSE)>>],
           SyncFile(TableFile(t)),
           apply' = [apply EXCEPT !.edit.add = @ \cup {t}],
           UNCHANGED <<mem_, imm_, has_imm_, logfile_number_, log_number_,
                   manifest_file_number_, has_descriptor_, phase, reuse, versionVars,
                   flush, c, bg_error_, historyVars>>
    PROVE  HeldInv' /\ Stutters
<1>1. /\ TypeInv /\ Runs /\ LogsIn(dir) \subseteq Numbers /\ OpenFinds /\ dir.current # 0
      /\ dir \in Dirs /\ apply.owner = "open" /\ ReplayedTables(Here) \subseteq Numbers
      /\ current_ \cup apply.edit.add \subseteq Numbers /\ logfile_number_ = 0 /\ apply.pc = "none"
  <2>1. todo # {}
    BY DEF NextLog
  <2> QED BY <2>1, OpenIs DEF StoreInv, HeldInv, LogsRead
<1>2. /\ apply'.pc = apply.pc /\ apply'.owner = apply.owner
      /\ apply'.edit.add = apply.edit.add \cup {t}
  BY <1>1, EditGrows
<1>3. phase' = "open" /\ UNCHANGED <<faults, hard, current_>>
  BY DEF versionVars, historyVars
<1>4. n < next_file_number_' /\ next_file_number_ <= next_file_number_'
  <2>1. n \in Nat /\ t \in Nat
    BY NumbersAre
  <2>2. Max({t, n}) \in {t, n} /\ Max({t, n}) >= t /\ Max({t, n}) >= n
    BY <2>1, MaxOfTwo
  <2> QED BY <2>1, <2>2
<1>5. PICK f : f = TableFile(t)
  OBVIOUS
<1>6. Dirs' = {dir'} /\ Just(f)
  <2>1. older' = {}
    BY DEF SyncFile
  <2>2. Dirs' = {dir'}
    BY <2>1 DEF Dirs
  <2>3. PICK y : synced' = [synced EXCEPT ![f] = y]
    BY <1>5 DEF SyncFile
  <2>4. f \in Files /\ Dirs' \subseteq Dirs \cup {dir'}
    BY <1>5, <2>2, FileIs
  <2> QED BY <1>1, <1>5, <2>2, <2>3, <2>4, JustIs
<1>7. t \notin current_ \cup apply.edit.add /\ (MayCrash => FreshIn(t, Dirs, data))
  BY <1>1, NextIsFresh DEF StoreInv, LiveTables
<1>8. f # Manifest(dir.current) /\ \A m : f # Log(m)
  BY <1>5, FilesApart
<1>9. \A k \in ReplayedTables(Here) : f # TableFile(k)
  <2>1. ReplayedTables(Here) = current_
    BY <1>1 DEF OpenFinds, Committed
  <2> QED BY <1>5, <1>7, <2>1, FilesApart
<1>10. NoLogOf({dir}, f) /\ NoLogOf(Dirs, f)
  BY <1>8 DEF NoLogOf
<1>11. MayCrash => \A d \in Dirs : f \notin Uses(d, data)
  BY <1>1, <1>5, <1>7, NotUsed
<1>12. /\ Promise' /\ LogsDown' /\ Stutters
       /\ Here' = Here /\ Recoverable' = Recoverable /\ MayCrash' = MayCrash
       /\ dir'.current = dir.current
  BY <1>3, <1>6, <1>8, <1>9, <1>10, <1>11, OpenFramed
<1>13. LogsIn(dir') = LogsIn(dir) /\ Dirs' \subseteq Dirs \cup {dir'}
  BY <1>1, <1>6, <1>8, LogsJust
<1>14. /\ \A k \in Numbers : LogEntries(k, data') = LogEntries(k, data)
       /\ \A k \in Numbers : k # t => TableEntries(k, data') = TableEntries(k, data)
  <2>1. TypeInv /\ TypeInv' /\ Just(f)
    BY <1>1, <1>6
  <2>2. \A k : f # Log(k) /\ (k # t => f # TableFile(k))
    BY <1>5, <1>8, FilesApart
  <2>3. \A k \in Numbers : LogEntries(k, data') = LogEntries(k, data)
    BY <2>1, <2>2, FilesJust
  <2>4. \A k \in Numbers : k # t => TableEntries(k, data') = TableEntries(k, data)
    BY <2>1, <2>2, FilesJust
  <2> QED BY <2>3, <2>4
<1>15. EntriesOf(current_' \cup apply'.edit.add, data')
           = InTables(current_ \cup apply.edit.add) \cup InLog(n)
  <2>1. PICK T : T = current_ \cup apply.edit.add
    OBVIOUS
  <2>2. current_' \cup apply'.edit.add = T \cup {t}
    BY <1>2, <1>3, <2>1
  <2>3. EntriesOf(T, data') = EntriesOf(T, data)
    <3>1. \A k \in T : TableEntries(k, data') = TableEntries(k, data)
      BY <1>1, <1>7, <1>14, <2>1
    <3> QED BY <3>1 DEF EntriesOf
  <2>4. TableEntries(t, data') = InLog(n)
    BY <1>1, TableWritten, InTablesNext
  <2>5. EntriesOf(T \cup {t}, data') = EntriesOf(T, data') \cup TableEntries(t, data')
    BY DEF EntriesOf
  <2>6. EntriesOf(T, data) = InTables(current_ \cup apply.edit.add)
    BY <2>1, InTablesAre
  <2> QED BY <2>2, <2>3, <2>4, <2>5, <2>6
<1>16. TablesMade' /\ LogsBelow' /\ NextInv' /\ OpenFinds' /\ UpLogs'
  BY <1>2, <1>3, <1>4, <1>12, <1>13, <1>14, <1>15, LogIsRead
<1> QED BY <1>12, <1>16 DEF HeldInv

LEMMA HeldRecoverLogFile ==
    ASSUME StoreInv, TypeInv', RecoverLogFile
    PROVE  HeldInv' /\ Stutters
<1>1. PICK n \in Numbers :
           /\ NextLog(n) /\ todo' = todo \ {n}
           /\ IF InLog(n) = {}
              THEN /\ next_file_number_' = Max({next_file_number_, n + 1})
                   /\ UNCHANGED <<diskVars, apply>>
              ELSE LET t == next_file_number_
                   IN  /\ t < MaxFile
                       /\ next_file_number_' = Max({t, n}) + 1
                       /\ dir' = Create(TableFile(t))
                       /\ data' = [data EXCEPT ![TableFile(t)] = <<TableOf(InLog(n), FALSE)>>]
                       /\ SyncFile(TableFile(t))
                       /\ apply' = [apply EXCEPT !.edit.add = @ \cup {t}]
  BY DEF RecoverLogFile
<1>2. /\ phase = "open"
      /\ UNCHANGED <<mem_, imm_, has_imm_, logfile_number_, log_number_,
                   manifest_file_number_, has_descriptor_, phase, reuse, versionVars,
                   flush, c, bg_error_, historyVars>>
  BY DEF RecoverLogFile
<1>3. CASE InLog(n) = {}
  BY <1>1, <1>2, <1>3, HeldReadEmptyLog
<1>4. CASE InLog(n) # {}
  <2>1. PICK t : t = next_file_number_
    OBVIOUS
  <2>2. /\ t < MaxFile /\ next_file_number_' = Max({t, n}) + 1
        /\ dir' = Create(TableFile(t))
        /\ data' = [data EXCEPT ![TableFile(t)] = <<TableOf(InLog(n), FALSE)>>]
        /\ SyncFile(TableFile(t))
        /\ apply' = [apply EXCEPT !.edit.add = @ \cup {t}]
    BY <1>1, <1>4, <2>1
  <2>3. t \in Numbers
    <3>1. t \in Nat \ {0} /\ MaxFile \in Nat
      BY <2>1, NumbersAre DEF StoreInv, DiskInv, TypeInv, NumberType
    <3> QED BY <2>2, <3>1 DEF Numbers
  <2> QED BY <1>1, <1>2, <1>4, <2>1, <2>2, <2>3, HeldLogToTable
<1> QED BY <1>3, <1>4

LEMMA HeldNewLog ==
    ASSUME StoreInv, TypeInv', NewLog
    PROVE  HeldInv' /\ Stutters
<1>1. PICK n \in Numbers :
           /\ NewFileNumber(n) /\ ChangeDir(Create(Log(n))) /\ Written(Log(n), <<>>)
           /\ logfile_number_' = n
  BY DEF NewLog
<1>2. /\ phase = "open" /\ todo = {} /\ logfile_number_ = 0 /\ phase' = "open"
      /\ UNCHANGED <<mem_, imm_, has_imm_, log_number_, manifest_file_number_, has_descriptor_,
                     reuse, todo, current_, flush, c, apply, bg_error_, hard, faults>>
  BY DEF NewLog, openVars, versionVars, bgVars, historyVars
<1>3. /\ TypeInv /\ Runs /\ LogsIn(dir) \subseteq Numbers /\ OpenFinds /\ LogsBelow
      /\ dir \in Dirs /\ dir.current # 0 /\ ReplayedTables(Here) \subseteq Numbers
      /\ apply.owner = "open" /\ imm_ = {} /\ ~has_imm_ /\ c = None /\ ~bg_error_
      /\ current_ \cup apply.edit.add \subseteq Numbers
      /\ (MayCrash => Here[Len(Here)].next \in Nat)
  BY <1>2, OpenIs DEF StoreInv, HeldInv
<1>4. apply.pc = "none" /\ mem_ = {}
  BY <1>2, <1>3 DEF TypeInv, PhaseType, OpenFinds
<1>5. /\ Just(Log(n)) /\ data'[Log(n)] = <<>> /\ LogEntries(n, data') = {}
      /\ LogsIn(dir') = LogsIn(dir) \cup {n} /\ Dirs' \subseteq Dirs \cup {dir'}
  BY <1>1, <1>3, LogCreated
<1>6. /\ n = next_file_number_ /\ next_file_number_' = n + 1 /\ n \in Nat /\ n # 0
      /\ next_file_number_ <= next_file_number_' /\ n < next_file_number_'
  BY <1>1, <1>3, NextNumber, NumbersAre
<1>7. ASSUME NEW d \in Dirs, MayCrash \/ d = dir, NEW m \in LogsIn(d)
      PROVE  m \in Nat /\ m < n
  <2>1. m \in Nat
    BY <1>3, DirsAre, LogsAre, NumbersAre
  <2>2. LogBelow(m)
    BY <1>2, <1>3, <1>7 DEF LogsBelow
  <2> QED BY <1>2, <1>6, <2>1, <2>2 DEF LogBelow
<1>8. PICK f : f = Log(n)
  OBVIOUS
<1>9. /\ f # Manifest(dir.current) /\ (\A k : f # TableFile(k))
      /\ \A m : f = Log(m) => m = n
  BY <1>8, FilesApart DEF Log
<1>10. NoLogOf({dir}, f) /\ (MayCrash => NoLogOf(Dirs, f))
  <2>1. \A d \in Dirs : MayCrash \/ d = dir => n \notin LogsIn(d)
    BY <1>6, <1>7
  <2> QED BY <1>3, <1>5, <1>8, <1>9, <2>1 DEF NoLogOf
<1>11. \A d \in Dirs : f \notin Uses(d, data)
  BY <1>3, <1>8, NotUsed
<1>12. /\ Promise' /\ LogsDown' /\ Stutters
       /\ Here' = Here /\ Recoverable' = Recoverable /\ MayCrash' = MayCrash
       /\ dir'.current = dir.current
  BY <1>2, <1>5, <1>8, <1>9, <1>10, <1>11, OpenFramed
<1>13. \A T \in SUBSET Numbers : EntriesOf(T, data') = EntriesOf(T, data)
  BY <1>3, <1>5, <1>8, <1>9, FilesJust DEF EntriesOf
<1>14. TablesMade'
  BY <1>2, <1>3 DEF TablesMade
<1>15. LogsBelow'
  <2>1. \A m \in LogsIn(dir') : m <= n
    BY <1>3, <1>5, <1>6, <1>7
  <2>2. MayCrash => \A d \in Dirs' : \A m \in LogsIn(d) : m <= n
    BY <1>5, <1>6, <1>7, <2>1
  <2> QED BY <1>1, <1>6, <1>12, <2>1, <2>2 DEF LogsBelow, LogBelow
<1>16. NextInv'
  <2>1. MayCrash => Here[Len(Here)].next <= next_file_number_'
    <3>1. MayCrash => Here[Len(Here)].next <= next_file_number_
      BY <1>3 DEF StoreInv, HeldInv, NextInv
    <3> QED BY <1>3, <1>6, <3>1
  <2> QED BY <1>2, <1>4, <1>12, <2>1 DEF NextInv
<1>17. OpenFinds'
  <2>1. InTables(current_ \cup apply.edit.add)' = InTables(current_ \cup apply.edit.add)
    <3>1. InTables(current_ \cup apply.edit.add)' = EntriesOf(current_' \cup apply'.edit.add, data')
      BY DEF InTables, Contents, EntriesOf, TableEntries
    <3> QED BY <1>2, <1>3, <1>13, <3>1, InTablesAre
  <2>2. InLog(logfile_number_)' = {}
    BY <1>1, <1>5 DEF InLog, LogEntries
  <2>3. UNION {InLog(m) : m \in todo} = {}
    BY <1>2
  <2>4. UNION {InLog(m) : m \in todo}' = {}
    BY <1>2
  <2>5. Recoverable' = mem_' \cup InTables(current_ \cup apply.edit.add)'
                       \cup UNION {InLog(m) : m \in todo}'
    BY <1>2, <1>3, <1>12, <2>1, <2>3, <2>4 DEF OpenFinds
  <2>6. ~Committed /\ ~Committed'
    BY <1>2, <1>4 DEF Committed
  <2>7. ReplayedTables(Here)' = current_'
    BY <1>2, <1>3, <1>12, <2>6 DEF OpenFinds
  <2>8. dir'.current # 0 /\ IF has_descriptor_' THEN dir'.current = manifest_file_number_'
                            ELSE dir'.current < manifest_file_number_'
    BY <1>2, <1>3, <1>12 DEF OpenFinds
  <2> QED BY <1>1, <1>2, <1>4, <1>5, <1>6, <2>2, <2>5, <2>6, <2>7, <2>8 DEF OpenFinds
<1>18. UpLogs'
  BY <1>2 DEF UpLogs
<1> QED BY <1>12, <1>14, <1>15, <1>16, <1>17, <1>18 DEF HeldInv

-----------------------------------------------------------------------------
(***************************************************************************)
(* DB::Open begins.                                                        *)
(***************************************************************************)

\* Nothing runs.
LEMMA DownIs ==
    ASSUME StoreInv, phase = "down"
    PROVE  /\ TypeInv /\ MayCrash /\ Promise /\ LogsDown /\ mem_ = {} /\ imm_ = {} /\ ~has_imm_
           /\ ~bg_error_ /\ logfile_number_ = 0 /\ c = None /\ flush = 0 /\ apply.owner = "open"
           /\ apply.pc = "none" /\ apply.edit.add = {} /\ ~Runs /\ dir \in Dirs
<1>1. TypeInv /\ apply = NoApply /\ c = None /\ flush = 0
  BY DEF StoreInv, DiskInv, TypeInv, PhaseType
<1>2. apply.owner = "open" /\ apply.pc = "none" /\ apply.edit.add = {}
  BY <1>1 DEF NoApply, Edit
<1> QED BY <1>1, <1>2, DirsAre DEF StoreInv, HeldInv, TablesMade, LogsRead, MayCrash, Runs

LEMMA HeldNewDB ==
    ASSUME StoreInv, TypeInv', NewDB
    PROVE  HeldInv' /\ Stutters
<1>1. PICK r : r = <<Edit(0, 2, 0, {}, {})>>
  OBVIOUS
<1>2. PICK created : created = Create(Manifest(1))
  OBVIOUS
<1>3. /\ phase = "down" /\ dir.current = 0 /\ Written(Manifest(1), r)
      /\ dir' = [created EXCEPT !.current = 1]
      /\ older' = older \cup {dir, created}
      /\ UNCHANGED <<numberVars, memVars, openVars, versionVars, bgVars, historyVars>>
  BY <1>1, <1>2 DEF NewDB
<1>4. /\ TypeInv /\ MayCrash /\ Promise /\ mem_ = {} /\ imm_ = {} /\ ~has_imm_
      /\ ~bg_error_ /\ logfile_number_ = 0 /\ c = None /\ flush = 0 /\ apply.owner = "open"
      /\ apply.pc = "none" /\ dir \in Dirs
  BY <1>3, DownIs
<1>5. /\ phase' = "down" /\ UNCHANGED <<mem_, imm_, has_imm_, bg_error_, c, apply, hard>>
  BY <1>3 DEF openVars, memVars, bgVars, historyVars
<1>6. LogsIn(dir) = {} /\ hard = {}
  BY <1>3, <1>4 DEF Promise, AllKeep, Keeps
<1>7. /\ created.current = 0 /\ LogsIn(created) = {} /\ dir'.current = 1 /\ LogsIn(dir') = {}
  <2>1. /\ created.current = 0 /\ created.files = dir.files \cup {Manifest(1)}
        /\ dir'.current = 1 /\ dir'.files = created.files
    BY <1>2, <1>3, <1>4 DEF Create, TypeInv, DirsOK, DirType
  <2>2. Manifest(1)[1] # "log"
    BY DEF Manifest
  <2>3. {g \in created.files : g[1] = "log"} = {g \in dir.files : g[1] = "log"}
    BY <2>1, <2>2
  <2> QED BY <1>6, <2>1, <2>3 DEF LogsIn, Of
<1>8. \A e \in Dirs' : e = dir \/ e = created \/ e = dir'
  <2>1. older = {}
    BY <1>3 DEF StoreInv, DiskInv, NoDir
  <2> QED BY <1>3, <2>1 DEF Dirs
<1>9. /\ data'[Manifest(1)] = r /\ Len(r) = 1 /\ DOMAIN r = {1} /\ TablesAt(r, 1) = {}
      /\ r[1].log = 0 /\ r[1].next = 2
  <2>1. Manifest(1) \in Files
    BY NumbersAre, FileIs DEF Numbers
  <2>2. data'[Manifest(1)] = r
    BY <1>3, <1>4, <2>1, FunctionChanges DEF Written, TypeInv, DiskType, FilesOK
  <2>3. PICK e : e = Edit(0, 2, 0, {}, {})
    OBVIOUS
  <2>4. r = <<e>> /\ e.next = 2 /\ e.add = {} /\ e.log = 0
    BY <1>1, <2>3 DEF Edit
  <2> QED BY <2>2, <2>4, EmptyManifest
<1>10. Recoverable = {} /\ Recoverable' = {}
  <2>1. Recoverable' = EntriesOf(ReplayedTables(Here'), data')
                       \cup UNION {LogEntries(n, data') : n \in LogsFrom(dir', ReplayedLog(Here'))}
    BY <1>7 DEF Recoverable, Here, InTables, Contents, EntriesOf, TableEntries,
                InLog, LogEntries
  <2>2. ReplayedTables(Here') = {}
    <3>1. Here' = r /\ DOMAIN r = 1..Len(r)
      BY <1>7, <1>9 DEF Here
    <3> QED BY <1>9, <3>1, TablesAtFull
  <2>3. \A l : LogsFrom(dir', l) = {}
    BY <1>7 DEF LogsFrom, LogsIn
  <2>4. EntriesOf({}, data') = {}
    BY DEF EntriesOf
  <2> QED BY <1>3, <2>1, <2>2, <2>3, <2>4 DEF Recoverable
<1>11. Stutters /\ Held' = {}
  BY <1>3, <1>5, <1>10 DEF Stutters, Held
<1>12. Promise'
  <2>1. ASSUME NEW e \in Dirs'
        PROVE  Keeps(e, data', synced', {}, {})
    <3>1. CASE e = dir \/ e = created
      BY <1>3, <1>6, <1>7, <3>1 DEF Keeps
    <3>2. CASE e = dir'
      <4>1. data'[Manifest(e.current)] = r /\ e.current # 0
        BY <1>7, <1>9, <3>2
      <4>2. SUFFICES ASSUME NEW k \in 1..Len(r)
                     PROVE  Most(k, e, data') \subseteq {} /\ LogAt(k, r)
        BY <4>1 DEF Keeps
      <4>3. k = 1
        BY <1>9, <4>2
      <4>4. LogsFrom(e, r[1].log) = {}
        BY <1>7, <3>2 DEF LogsFrom, LogsIn
      <4>5. Most(1, e, data') \subseteq {}
        BY <1>9, <4>1, <4>4 DEF Most, EntriesOf
      <4>6. LogAt(1, r)
        BY <1>9 DEF LogAt
      <4> QED BY <4>3, <4>5, <4>6
    <3> QED BY <1>8, <3>1, <3>2
  <2> QED BY <1>5, <1>6, <1>11, <2>1 DEF Promise, AllKeep
<1>13. LogsDown'
  <2>1. \A d \in Dirs' : LogsIn(d) = {}
    BY <1>6, <1>7, <1>8
  <2> QED BY <2>1 DEF LogsDown
<1>14. TablesMade'
  BY <1>4, <1>5 DEF TablesMade
<1> QED BY <1>5, <1>11, <1>12, <1>13, <1>14
        DEF HeldInv, LogsBelow, NextInv, Runs, OpenFinds, UpLogs

LEMMA HeldOpenManifest ==
    ASSUME StoreInv, TypeInv', OpenManifest
    PROVE  HeldInv' /\ Stutters
<1>1. PICK R : R = Here
  OBVIOUS
<1>2. /\ phase = "down" /\ dir.current # 0
      /\ UNCHANGED <<diskVars, pinned, pending_outputs_, flush, c, bg_error_, historyVars>>
  BY DEF OpenManifest
<1>3. /\ TypeInv /\ MayCrash /\ Promise /\ LogsDown /\ mem_ = {} /\ imm_ = {} /\ ~has_imm_
      /\ ~bg_error_ /\ logfile_number_ = 0 /\ c = None /\ dir \in Dirs
  BY <1>2, DownIs
<1>4. /\ Readable(R) /\ ReplayedNext(R) \in Nat /\ AllBelow(ReplayedNext(R), Dirs, data)
  BY <1>1, <1>2, ManifestReads DEF StoreInv
<1>5. PICK keep \in BOOLEAN :
           /\ phase' = "open"
           /\ todo' = LogsFrom(dir, ReplayedLog(R))
           /\ current_' = ReplayedTables(R)
           /\ has_descriptor_' = keep
           /\ manifest_file_number_' = IF keep THEN dir.current ELSE ReplayedNext(R)
           /\ next_file_number_' = ReplayedNext(R) + 1
           /\ apply' = NoApply
           /\ UNCHANGED <<mem_, imm_, has_imm_, logfile_number_>>
  BY <1>1, <1>4 DEF OpenManifest, Here
<1>6. /\ UNCHANGED <<dir, older, data, synced, c, bg_error_, hard, faults>>
      /\ apply'.owner = "open" /\ apply'.pc = "none" /\ apply'.edit.add = {}
  BY <1>2, <1>5 DEF diskVars, historyVars, NoApply, Edit
<1>7. /\ Recoverable' = Recoverable /\ Dirs' = Dirs /\ Here' = R
  BY <1>1, <1>6 DEF Recoverable, Dirs, Here, InTables, Contents, InLog
<1>8. Stutters /\ Held' = Held
  BY <1>2, <1>5, <1>6, <1>7 DEF Stutters, Held
<1>9. PICK l : l = ReplayedLog(R)
  OBVIOUS
<1>10. /\ R[Len(R)].next = ReplayedNext(R) /\ l <= ReplayedNext(R) /\ l \in Nat
       /\ dir.current \in Numbers
  <2>1. GoodDir(dir, data, synced) /\ Keeps(dir, data, synced, Held, hard)
    BY <1>3 DEF StoreInv, DiskInv, DirsGood, AllGood, Promise, AllKeep
  <2>2. /\ LogAt(Len(R), R) /\ l = R[Len(R)].log /\ Len(R) > 0 /\ Len(R) \in Nat
        /\ synced[Manifest(dir.current)] <= Len(R)
    BY <1>1, <1>2, <1>3, <1>9, <2>1, RecoverableIs
  <2>3. /\ DOMAIN R = 1..Len(R) /\ R \in Seq(EditsTo(writes)) /\ dir.current \in Numbers
    BY <1>1, <1>2, <1>3, ManifestOf DEF Here
  <2>4. R[Len(R)].next # 0
    <3>1. Len(R) \in 1..Len(R)
      BY <2>2
    <3>2. RecoversAt(Len(R), dir, R, data, synced)
      BY <1>1, <1>2, <2>1, <2>2, <3>1 DEF GoodDir, GoodManifest, Here
    <3> QED BY <3>2 DEF RecoversAt
  <2>5. R[Len(R)].next = ReplayedNext(R)
    BY <2>2, <2>3, <2>4, NextIsLast
  <2>6. R[Len(R)] \in EditsTo(writes)
    BY <2>2, <2>3, ElementOfSeq
  <2> QED BY <2>2, <2>3, <2>5, <2>6 DEF LogAt, EditsTo
<1>11. \A d \in Dirs : \A n \in LogsIn(d) : n \in Nat
  BY <1>3, DirsAre, LogsAre, NumbersAre
<1>12. \A n \in LogsIn(dir) : n \in todo' \/ n < l
  BY <1>3, <1>5, <1>9, <1>10, <1>11 DEF LogsFrom, LogsIn
<1>13. Promise'
  BY <1>3, <1>6, <1>7, <1>8 DEF Promise
<1>14. LogsDown'
  BY <1>1, <1>3, <1>6, <1>7 DEF LogsDown
<1>15. LogsBelow'
  <2>1. ASSUME NEW n \in LogsIn(dir)
        PROVE  n < next_file_number_' \/ n \in todo'
    BY <1>3, <1>4, <1>5, <1>10, <1>11, <1>12
  <2>2. ASSUME NEW d \in Dirs, NEW n \in LogsIn(d)
        PROVE  n < next_file_number_' \/ n \in todo'
    <3>1. n < R[Len(R)].next \/ n \in LogsIn(dir)
      BY <1>1, <1>2, <1>3, <2>2 DEF LogsDown
    <3>2. n \in Nat
      BY <1>11, <2>2
    <3> QED BY <1>4, <1>5, <1>10, <2>1, <3>1, <3>2
  <2> QED BY <1>3, <1>4, <1>5, <1>6, <1>7, <2>1, <2>2 DEF LogsBelow, LogBelow
<1>16. NextInv'
  BY <1>4, <1>5, <1>6, <1>7, <1>10 DEF NextInv
<1>17. TablesMade'
  BY <1>3, <1>5, <1>6 DEF TablesMade
<1>18. OpenFinds'
  <2>1. Recoverable = InTables(ReplayedTables(R)) \cup UNION {InLog(n) : n \in LogsFrom(dir, l)}
    BY <1>1, <1>2, <1>9 DEF Recoverable, Here
  <2>2. InTables(current_ \cup apply.edit.add)' = InTables(ReplayedTables(R))
    <3>1. InTables(current_ \cup apply.edit.add)' = EntriesOf(current_' \cup apply'.edit.add, data')
      BY DEF InTables, Contents, EntriesOf, TableEntries
    <3> QED BY <1>5, <1>6, <3>1, InTablesAre
  <2>3. UNION {InLog(n) : n \in todo}' = UNION {InLog(n) : n \in LogsFrom(dir, l)}
    BY <1>5, <1>6, <1>9 DEF InLog
  <2>4. Recoverable' = mem_' \cup InTables(current_ \cup apply.edit.add)'
                       \cup UNION {InLog(n) : n \in todo}'
    BY <1>3, <1>5, <1>7, <2>1, <2>2, <2>3
  <2>5. todo' \subseteq LogsIn(dir) /\ \A n \in todo' : l <= n
    BY <1>5, <1>9, <1>10, <1>11 DEF LogsFrom, LogsIn
  <2>6. \A m \in LogsIn(dir) \ todo', n \in todo' : m < n
    BY <1>3, <1>10, <1>11, <1>12, <2>5
  <2>7. IF has_descriptor_' THEN dir'.current = manifest_file_number_'
        ELSE dir'.current < manifest_file_number_'
    <3>1. dir.current < ReplayedNext(R)
      BY <1>2, <1>3, <1>4 DEF AllBelow, BelowIn
    <3> QED BY <1>5, <1>6, <3>1
  <2>8. ~Committed' /\ ReplayedTables(Here)' = current_'
    BY <1>5, <1>6, <1>7 DEF Committed
  <2> QED BY <1>2, <1>3, <1>5, <1>6, <2>4, <2>5, <2>6, <2>7, <2>8 DEF OpenFinds
<1>19. UpLogs'
  BY <1>5 DEF UpLogs
<1> QED BY <1>8, <1>13, <1>14, <1>15, <1>16, <1>17, <1>18, <1>19 DEF HeldInv

-----------------------------------------------------------------------------
(***************************************************************************)
(* Crashes, and opens that fail.                                           *)
(***************************************************************************)

\* An open database that may crash is on the disk.
LEMMA StoreOnDisk ==
    ASSUME StoreInv, MayCrash
    PROVE  Held = Recoverable
<1>1. CASE phase # "up"
  BY <1>1 DEF Held
<1>2. CASE phase = "up"
  <2>1. /\ TypeInv /\ dir \in Dirs /\ dir.current # 0 /\ Top \in Nat
        /\ synced[Manifest(manifest_file_number_)] = synced[Manifest(dir.current)]
    BY <1>2, UpIs DEF StoreInv, DiskInv
  <2>2. UpMem /\ UpTop
    BY <1>2 DEF StoreInv, HeldInv, UpLogs
  <2>3. PICK W : W = Store
    OBVIOUS
  <2>4. GoodDir(dir, data, synced) /\ Keeps(dir, data, synced, W, hard)
    BY <1>2, <2>1, <2>3 DEF StoreInv, HeldInv, Promise, AllKeep, Held, DiskInv, DirsGood, AllGood
  <2>5. /\ Recoverable = Most(Top, dir, data) /\ Top > 0
        /\ synced[Manifest(dir.current)] <= Top /\ Recoverable \subseteq W
    BY <2>1, <2>4, RecoverableIs DEF Top
  <2>6. /\ EntriesOf(TablesAt(Here, Top), data) \subseteq Recoverable
        /\ \A n \in LogsFrom(dir, Here[Top].log) : LogEntries(n, data) \subseteq Recoverable
    BY <2>5 DEF Most, Here
  <2>7. InTables(current_) \subseteq Recoverable
    BY <2>2, <2>6, InTablesAre DEF UpTop
  <2>8. mem_ \subseteq Recoverable
    <3>1. Top \in 1..Top
      BY <2>1, <2>5
    <3>2. Here[Top].log <= logfile_number_
      BY <2>1, <2>2, <2>5, <3>1 DEF UpTop
    <3>3. logfile_number_ \in LogsFrom(dir, Here[Top].log)
      <4>1. logfile_number_ \in LogsIn(dir) /\ logfile_number_ \in Nat /\ Here[Top].log \in Nat
        BY <1>2, <2>1, <2>2, <3>1, UpIs DEF UpMem, TypeInv, NumberType, StoreInv
      <4> QED BY <3>2, <4>1 DEF LogsFrom, LogsIn
    <3> QED BY <2>2, <2>6, <3>3, InTablesAre DEF UpMem
  <2>9. imm_ \subseteq Recoverable
    <3>1. CASE ~has_imm_
      BY <3>1 DEF StoreInv, HeldInv, TablesMade
    <3>2. CASE has_imm_ /\ imm_ \subseteq InTables(TablesAt(Here, Top))
      BY <2>6, <3>2, InTablesAre
    <3>3. CASE has_imm_ /\ Here[Top].log <= log_number_
      <4>1. log_number_ \in LogsIn(dir) /\ InLog(log_number_) = imm_
        BY <2>2, <3>3 DEF UpMem
      <4>2. Top \in 1..Top
        BY <2>1, <2>5
      <4>3. log_number_ \in Nat /\ Here[Top].log \in Nat
        BY <1>2, <2>1, <4>2, UpIs DEF TypeInv, NumberType, StoreInv
      <4>4. log_number_ \in LogsFrom(dir, Here[Top].log)
        BY <3>3, <4>1, <4>3 DEF LogsFrom, LogsIn
      <4> QED BY <2>6, <4>1, <4>4, InTablesAre
    <3> QED BY <2>2, <3>1, <3>2, <3>3 DEF UpTop
  <2>10. Store \subseteq Recoverable
    BY <2>7, <2>8, <2>9 DEF Store
  <2> QED BY <1>2, <2>3, <2>5, <2>10 DEF Held
<1> QED BY <1>1, <1>2

\* A process is gone, and what it knew.
LEMMA HeldForgotten ==
    ASSUME Forget, Promise', LogsDown'
    PROVE  HeldInv' /\ phase' = "down"
<1>1. /\ phase' = "down" /\ mem_' = {} /\ imm_' = {} /\ has_imm_' = FALSE /\ c' = None
      /\ bg_error_' = FALSE /\ apply'.owner = "open"
  BY DEF Forget, NoApply
<1> QED BY <1>1 DEF HeldInv, LogsBelow, NextInv, TablesMade, OpenFinds, UpLogs, Runs

\* The process is gone, the disk as it was.
GoesDown == phase' = "down" /\ Held' = Held /\ hard' = hard

LEMMA HeldGone ==
    ASSUME StoreInv, TypeInv', OpenFails \/ ProcessCrash
    PROVE  HeldInv' /\ GoesDown
<1>1. Forget /\ Fault /\ UNCHANGED <<diskVars, writes, hard>>
  BY DEF OpenFails, ProcessCrash
<1>2. phase' = "down" /\ MayCrash /\ UNCHANGED <<dir, older, data, synced, hard>>
  <2>1. faults < MaxFaults
    BY <1>1 DEF Fault
  <2> QED BY <1>1, <2>1 DEF Forget, MayCrash, diskVars
<1>3. /\ Recoverable' = Recoverable /\ Dirs' = Dirs /\ Here' = Here
  BY <1>2 DEF Recoverable, Dirs, Here, InTables, Contents, InLog
<1>4. Held' = Held
  BY <1>2, <1>3, StoreOnDisk DEF Held
<1>5. Promise'
  BY <1>2, <1>3, <1>4 DEF StoreInv, HeldInv, Promise
<1>6. LogsDown'
  BY <1>2, <1>3 DEF StoreInv, HeldInv, LogsDown
<1> QED BY <1>1, <1>2, <1>4, <1>5, <1>6, HeldForgotten DEF GoesDown

LEMMA HeldApplyFailsOpen ==
    ASSUME StoreInv, TypeInv', ApplyFailsOpen
    PROVE  HeldInv' /\ GoesDown
<1>1. /\ apply.pc \in {"append", "sync", "current"} /\ Fault /\ apply.owner = "open"
      /\ RecordOfFailedApply /\ Forget /\ UNCHANGED <<writes, hard>>
  BY DEF ApplyFailsOpen, ApplyError
<1>2. MayCrash /\ phase = "open" /\ phase' = "down" /\ TypeInv
  <2>1. faults < MaxFaults
    BY <1>1 DEF Fault
  <2>2. TypeInv
    BY DEF StoreInv, DiskInv
  <2> QED BY <1>1, <2>1, <2>2 DEF Forget, MayCrash, TypeInv, PhaseType
<1>3. /\ Runs /\ dir \in Dirs /\ dir.current # 0 /\ dir.current \in Numbers
      /\ manifest_file_number_ \in Numbers /\ (MayCrash => Here[Len(Here)].next \in Nat)
  BY <1>2, OpenIs
<1>4. ~has_descriptor_ /\ \A d \in Dirs : d.current < manifest_file_number_
  BY <1>1, <1>2, <1>3 DEF StoreInv, DiskInv, Descriptor
<1>5. PICK f : f = Manifest(manifest_file_number_)
  OBVIOUS
<1>6. ChangeDir([dir EXCEPT !.files = @ \ {f}]) /\ UNCHANGED <<data, synced>>
  BY <1>4, <1>5 DEF ApplyFailsOpen, RecordOfFailedApply
<1>7. /\ dir' = [dir EXCEPT !.files = @ \ {f}] /\ Dirs' \subseteq Dirs \cup {dir'}
      /\ dir'.current = dir.current
  BY <1>2, <1>6, ChangeDirIs DEF TypeInv, DirsOK, DirType
<1>8. Just(f) /\ \A n : f # TableFile(n) /\ f # Log(n)
  <2>1. f \in Files
    BY <1>3, <1>5, FileIs
  <2> QED BY <1>2, <1>5, <1>6, <1>7, <2>1, JustIs, FilesApart
<1>9. \A d \in Dirs : d.current # manifest_file_number_
  BY <1>3, <1>4, NumbersAre
<1>10. /\ f # Manifest(dir.current) /\ \A d \in Dirs : f \notin Uses(d, data)
  BY <1>2, <1>3, <1>5, <1>9, FilesApart, NotUsed
<1>11. NoLogOf(Dirs, f) /\ NoLogOf({dir}, f)
  BY <1>8 DEF NoLogOf
<1>12. Recoverable' = Recoverable /\ Here' = Here
  BY <1>2, <1>3, <1>8, <1>10, <1>11, RecoverableFramed
<1>13. Held' = Held
  BY <1>2, <1>12 DEF Held
<1>14. Promise'
  <2>1. PICK W : W = Held
    OBVIOUS
  <2>2. PICK h : h = hard
    OBVIOUS
  <2>3. AllKeep(Dirs, data, synced, W, h)
    BY <1>2, <2>1, <2>2 DEF StoreInv, HeldInv, Promise
  <2>4. AllKeep(Dirs', data', synced', W, h)
    BY <1>2, <1>3, <1>8, <1>10, <1>11, <2>3, PromiseFramed
  <2> QED BY <1>1, <1>13, <2>1, <2>2, <2>4 DEF Promise
<1>15. LogsDown'
  <2>1. LogsDown /\ LogsIn(dir') = LogsIn(dir)
    BY <1>2, <1>8, LogsJust DEF StoreInv, HeldInv
  <2>2. Here[Len(Here)].next <= Here'[Len(Here')].next
    BY <1>2, <1>3, <1>12
  <2> QED BY <1>2, <1>3, <1>7, <1>12, <2>1, <2>2, LogsDownFramed
<1> QED BY <1>1, <1>13, <1>14, <1>15, HeldForgotten DEF GoesDown

\* A crash of the machine leaves of a file a prefix with all that is synced.
LEMMA CrashPrefix ==
    ASSUME TypeInv, TypeInv', MachineCrash, NEW f \in dir'.files
    PROVE  /\ Len(data'[f]) \in Nat /\ synced'[f] = Len(data'[f])
           /\ DOMAIN data'[f] = 1..Len(data'[f])
           /\ Len(data[f]) \in Nat /\ DOMAIN data[f] = 1..Len(data[f])
           /\ synced[f] \in Nat /\ synced[f] <= Len(data'[f]) /\ Len(data'[f]) <= Len(data[f])
           /\ \A i \in 1..Len(data'[f]) : data'[f][i] = data[f][i]
           /\ synced[f] = Len(data[f]) => data'[f] = data[f]
<1>1. f \in Files
  BY DEF TypeInv, DirsOK, DirType
<1>2. PICK k \in Nat : /\ synced[f] <= k /\ k <= Len(data[f])
                       /\ data'[f] = SubSeq(data[f], 1, k)
  BY CrashLeaves
<1>3. PICK s \in Seq(Records(f, writes)) : s = data[f]
  BY <1>1 DEF TypeInv, DiskType, FilesOK
<1>4. /\ Len(s) \in Nat /\ DOMAIN s = 1..Len(s) /\ synced[f] \in Nat /\ synced[f] <= Len(s)
  BY <1>1, <1>3, LenProperties DEF TypeInv, DiskType, FilesOK
<1>5. PICK p : p = SubSeq(s, 1, k)
  OBVIOUS
<1>6. /\ p \in Seq(Records(f, writes)) /\ Len(p) = k /\ \A i \in 1..k : p[i] = s[i]
      /\ DOMAIN p = 1..k
  BY <1>2, <1>3, <1>5, PrefixIs, LenProperties
<1>7. synced'[f] = Len(data'[f])
  BY <1>1, CrashLeaves
<1>8. k = Len(s) => p = s
  BY <1>3, <1>4, <1>6, SeqEqual
<1> QED BY <1>2, <1>3, <1>4, <1>5, <1>6, <1>7, <1>8

\* What it leaves of the tables and the logs of a directory with a MANIFEST.
LEMMA CrashYields ==
    ASSUME StoreInv, TypeInv', MachineCrash, ~CrashWhenNew, faults < MaxFaults,
           dir'.current # 0, NEW W, W = Held, NEW h, h = hard
    PROVE  \E X : /\ Keeps(dir', data', synced', X, h) /\ X \subseteq W /\ h \subseteq X
                  /\ Recoverable' = X
<1> DEFINE m == Manifest(dir'.current)
           R == data[m]
           Q == data'[m]
           k == Len(Q)
<1>1. /\ TypeInv /\ MayCrash /\ dir' \in Dirs /\ FirstManifestOnDisk(dir') /\ dir' \in DirType
  BY CrashLeaves DEF StoreInv, DiskInv, MayCrash, Dirs, TypeInv, DirsOK
<1>2. /\ GoodDir(dir', data, synced) /\ Keeps(dir', data, synced, W, h)
  BY <1>1 DEF StoreInv, DiskInv, DirsGood, AllGood, HeldInv, Promise, AllKeep
<1>3. m \in dir'.files /\ synced[m] > 0
  <2>1. m \in dir'.files /\ (dir'.current # 1 => synced[m] > 0)
    BY <1>2 DEF GoodDir, GoodManifest
  <2> QED BY <1>1, <2>1 DEF FirstManifestOnDisk
<1>4. /\ k \in Nat /\ synced'[m] = k /\ DOMAIN Q = 1..k /\ Len(R) \in Nat
      /\ synced[m] \in Nat /\ synced[m] <= k /\ k <= Len(R) /\ \A i \in 1..k : Q[i] = R[i]
  BY <1>1, <1>3, CrashPrefix
<1>5. k > 0 /\ k \in 1..Len(R) /\ k \in 1..k
  BY <1>3, <1>4
<1>6. /\ h \subseteq Least(k, dir', data, synced) /\ Most(k, dir', data) \subseteq W /\ LogAt(k, R)
  BY <1>2, <1>4, <1>5 DEF Keeps
<1>7. TablesAt(Q, k) = TablesAt(R, k)
  BY <1>4, TablesAtPrefix
<1>8. \A n \in TablesAt(R, k) : data'[TableFile(n)] = data[TableFile(n)]
  <2> SUFFICES ASSUME NEW n \in TablesAt(R, k)
               PROVE  data'[TableFile(n)] = data[TableFile(n)]
    OBVIOUS
  <2>1. RecoversAt(k, dir', R, data, synced)
    BY <1>2, <1>4, <1>5 DEF GoodDir, GoodManifest
  <2>2. TableFile(n) \in dir'.files /\ synced[TableFile(n)] = Len(data[TableFile(n)])
    BY <2>1 DEF RecoversAt, Has, CompleteIn
  <2> QED BY <1>1, <2>2, CrashPrefix
<1>9. EntriesOf(TablesAt(Q, k), data') = EntriesOf(TablesAt(R, k), data)
  BY <1>7, <1>8, EntriesKept
<1>10. ASSUME NEW n \in LogsIn(dir')
       PROVE  /\ LogEntries(n, data') \subseteq LogEntries(n, data)
              /\ SyncedLog(n, data, synced) \subseteq SyncedLog(n, data', synced')
              /\ SyncedLog(n, data', synced') = LogEntries(n, data')
  <2>1. Log(n) \in dir'.files
    BY <1>1, <1>10, LogsAre
  <2>2. PICK f : f = Log(n)
    OBVIOUS
  <2>3. /\ Len(data'[f]) \in Nat /\ synced'[f] = Len(data'[f])
        /\ DOMAIN data'[f] = 1..Len(data'[f])
        /\ Len(data[f]) \in Nat /\ DOMAIN data[f] = 1..Len(data[f])
        /\ synced[f] \in Nat /\ synced[f] <= Len(data'[f]) /\ Len(data'[f]) <= Len(data[f])
        /\ \A i \in 1..Len(data'[f]) : data'[f][i] = data[f][i]
    BY <1>1, <2>1, <2>2, CrashPrefix
  <2>4. DOMAIN data'[f] \subseteq DOMAIN data[f] /\ 1..synced[f] \subseteq 1..synced'[f]
    BY <2>3
  <2>5. LogEntries(n, data') \subseteq LogEntries(n, data)
    BY <2>2, <2>3, <2>4 DEF LogEntries
  <2>6. SyncedLog(n, data, synced) \subseteq SyncedLog(n, data', synced')
    <3>1. \A i \in 1..synced[f] : i \in 1..synced'[f] /\ data'[f][i] = data[f][i]
      BY <2>3, <2>4
    <3> QED BY <2>2, <3>1 DEF SyncedLog
  <2>7. SyncedLog(n, data', synced') = LogEntries(n, data')
    BY <2>2, <2>3 DEF SyncedLog, LogEntries
  <2> QED BY <2>5, <2>6, <2>7
<1>11. Q[k].log = R[k].log /\ LogAt(k, Q)
  <2>1. Q[k] = R[k]
    BY <1>4, <1>5
  <2>2. (\A i \in 1..k : R[i].log = 0) => \A i \in 1..k : Q[i].log = 0
    BY <1>4
  <2> QED BY <1>6, <2>1, <2>2 DEF LogAt
<1>12. PICK l : l = R[k].log
  OBVIOUS
<1>13. LogsFrom(dir', l) \subseteq LogsIn(dir')
  BY DEF LogsFrom, LogsIn
<1>14. /\ Least(k, dir', data, synced)
              = EntriesOf(TablesAt(R, k), data) \cup UNION {SyncedLog(n, data, synced) : n \in LogsFrom(dir', l)}
       /\ Most(k, dir', data)
              = EntriesOf(TablesAt(R, k), data) \cup UNION {LogEntries(n, data) : n \in LogsFrom(dir', l)}
       /\ Least(k, dir', data', synced')
              = EntriesOf(TablesAt(R, k), data) \cup UNION {SyncedLog(n, data', synced') : n \in LogsFrom(dir', l)}
       /\ Most(k, dir', data')
              = EntriesOf(TablesAt(R, k), data) \cup UNION {LogEntries(n, data') : n \in LogsFrom(dir', l)}
  BY <1>9, <1>11, <1>12 DEF Least, Most
<1>15. h \subseteq Least(k, dir', data', synced')
  <2>1. \A n \in LogsFrom(dir', l) : SyncedLog(n, data, synced) \subseteq SyncedLog(n, data', synced')
    BY <1>10, <1>13
  <2> QED BY <1>6, <1>14, <2>1
<1>16. Most(k, dir', data') \subseteq W
  <2>1. \A n \in LogsFrom(dir', l) : LogEntries(n, data') \subseteq LogEntries(n, data)
    BY <1>10, <1>13
  <2> QED BY <1>6, <1>14, <2>1
<1>17. Least(k, dir', data', synced') \subseteq Most(k, dir', data')
  <2>1. \A n \in LogsFrom(dir', l) : SyncedLog(n, data', synced') = LogEntries(n, data')
    BY <1>10, <1>13
  <2> QED BY <1>14, <2>1
<1>18. PICK X : X = Most(k, dir', data')
  OBVIOUS
<1>19. Keeps(dir', data', synced', X, h)
  <2>1. SUFFICES ASSUME NEW j \in 1..k, k <= j
                 PROVE  h \subseteq Least(j, dir', data', synced') /\ Most(j, dir', data') \subseteq X
                        /\ LogAt(j, Q)
    BY <1>4 DEF Keeps
  <2>2. j = k
    BY <1>4, <2>1
  <2> QED BY <1>11, <1>15, <1>18, <2>2
<1>20. Recoverable' = X
  <2>1. Recoverable' = EntriesOf(ReplayedTables(Q), data')
                       \cup UNION {LogEntries(n, data') : n \in LogsFrom(dir', ReplayedLog(Q))}
    BY DEF Recoverable, InTables, Contents, EntriesOf, TableEntries, InLog, LogEntries
  <2>2. ReplayedTables(Q) = TablesAt(Q, k)
    BY <1>4, TablesAtFull
  <2>3. ReplayedLog(Q) = l
    <3>1. ReplayedLog(Q) = Q[k].log
      BY <1>4, <1>5, <1>11, LogIsLast DEF LogAt
    <3> QED BY <1>11, <1>12, <3>1
  <2> QED BY <1>9, <1>14, <1>18, <2>1, <2>2, <2>3
<1> QED BY <1>15, <1>16, <1>17, <1>18, <1>19, <1>20

LEMMA HeldMachineCrash ==
    ASSUME StoreInv, TypeInv', MachineCrash, ~CrashWhenNew
    PROVE  /\ HeldInv' /\ phase' = "down" /\ hard' = hard
           /\ Held' \subseteq Held /\ hard \subseteq Held'
<1>1. /\ Forget /\ Fault /\ UNCHANGED <<writes, hard>> /\ dir' \in Dirs /\ older' = {}
      /\ phase' = "down" /\ faults < MaxFaults
  BY DEF MachineCrash, Dirs, Forget, Fault
<1>2. Dirs' = {dir'} /\ Held' = Recoverable'
  BY <1>1 DEF Dirs, Held
<1>3. LogsDown'
  BY <1>2 DEF LogsDown
<1>4. PICK W : W = Held
  OBVIOUS
<1>5. PICK h : h = hard
  OBVIOUS
<1>6. \E X : /\ Keeps(dir', data', synced', X, h) /\ X \subseteq W /\ h \subseteq X
             /\ Recoverable' = X
  <2>1. CASE dir'.current # 0
    BY <1>1, <1>4, <1>5, <2>1, CrashYields
  <2>2. CASE dir'.current = 0
    <3>1. Keeps(dir', data, synced, W, h)
      BY <1>1, <1>4, <1>5 DEF StoreInv, HeldInv, Promise, AllKeep, MayCrash
    <3>2. Keeps(dir', data', synced', {}, h) /\ h = {}
      BY <2>2, <3>1 DEF Keeps
    <3>3. Recoverable' = {}
      BY <2>2 DEF Recoverable
    <3> QED BY <3>2, <3>3
  <2> QED BY <2>1, <2>2
<1>7. Promise'
  BY <1>1, <1>2, <1>5, <1>6 DEF Promise, AllKeep
<1> QED BY <1>1, <1>2, <1>3, <1>4, <1>5, <1>6, <1>7, HeldForgotten

-----------------------------------------------------------------------------
(***************************************************************************)
(* The refinement.                                                         *)
(***************************************************************************)

\* A step of DurableStore, in the words of this module.
HeldWrite ==
    /\ phase = "up" /\ phase' = "up"
    /\ \E e \in Entry, sync \in BOOLEAN :
           Held' = Held \cup {e} /\ hard' = IF sync THEN hard \cup {e} ELSE hard
HeldCrash == phase' = "down" /\ hard' = hard /\ Held' \subseteq Held /\ hard \subseteq Held'
HeldNext == Stutters \/ OpensUp \/ GoesDown \/ HeldWrite \/ HeldCrash

LEMMA HeldStutters ==
    ASSUME StoreInv, UNCHANGED vars
    PROVE  HeldInv' /\ Stutters
<1>1. /\ UNCHANGED <<dir, older, data, synced, phase, reuse, todo, mem_, imm_, has_imm_>>
      /\ UNCHANGED <<logfile_number_, log_number_, manifest_file_number_, next_file_number_,
                     has_descriptor_, current_, flush, c, apply, bg_error_, hard, faults>>
  BY DEF vars, diskVars, numberVars, memVars, openVars, versionVars, bgVars, historyVars
<1>2. /\ Recoverable' = Recoverable /\ Dirs' = Dirs /\ Here' = Here /\ Mine' = Mine
      /\ Store' = Store /\ MayCrash' = MayCrash /\ Runs' = Runs /\ Committed' = Committed
  BY <1>1 DEF Recoverable, Dirs, Here, Mine, Store, MayCrash, Runs, Committed,
              InTables, Contents, InLog
<1>3. Held' = Held
  BY <1>1, <1>2 DEF Held
<1>4. /\ \A T : EntriesOf(T, data') = EntriesOf(T, data)
      /\ \A n : LogEntries(n, data') = LogEntries(n, data)
      /\ \A n : TableEntries(n, data') = TableEntries(n, data)
  BY <1>1
<1>5. Promise' /\ LogsDown'
  BY <1>1, <1>2, <1>3 DEF StoreInv, HeldInv, Promise, LogsDown
<1>6. LogsBelow' /\ NextInv'
  BY <1>1, <1>2 DEF StoreInv, HeldInv, LogsBelow, LogBelow, NextInv
<1>7. TablesMade'
  BY <1>1 DEF StoreInv, HeldInv, TablesMade, Contents, InTables
<1>8. OpenFinds'
  <2>1. OpenFinds
    BY DEF StoreInv, HeldInv
  <2>2. /\ InTables(current_ \cup apply.edit.add)' = InTables(current_ \cup apply.edit.add)
        /\ UNION {InLog(n) : n \in todo}' = UNION {InLog(n) : n \in todo}
        /\ InLog(logfile_number_)' = InLog(logfile_number_)
        /\ ReplayedTables(Here)' = ReplayedTables(Here)
    BY <1>1, <1>2 DEF InTables, Contents, InLog
  <2> QED BY <1>1, <1>2, <2>1, <2>2 DEF OpenFinds
<1>9. UpLogs'
  <2>1. UpMem' = UpMem
    BY <1>1 DEF UpMem, InLog
  <2>2. UpTop' = UpTop
    BY <1>1, <1>2 DEF UpTop, Top, InTables, Contents
  <2> QED BY <1>1, <1>2, <2>1, <2>2 DEF StoreInv, HeldInv, UpLogs, UpDir, InTables, Contents
<1> QED BY <1>1, <1>3, <1>5, <1>6, <1>7, <1>8, <1>9 DEF HeldInv, Stutters

LEMMA HeldStep ==
    ASSUME ReuseFrom >= MaxFaults, ~CrashWhenNew, StoreInv, TypeInv', [Next]_vars
    PROVE  HeldInv' /\ HeldNext
<1>1. CASE LogAndApply
  BY <1>1, HeldApplyAppend, HeldApplySync, HeldSetCurrentFile, HeldInstallOpen, HeldInstallFlush,
     HeldInstallCompaction, HeldApplyFailsOpen, HeldApplyFailsBackground
  DEF LogAndApply, HeldNext
<1>2. CASE Running
  <2>1. CASE \E sync \in BOOLEAN : Put(sync)
    <3>1. PICK sync \in BOOLEAN : Put(sync)
      BY <2>1
    <3> QED BY <3>1, HeldPut DEF HeldNext, HeldWrite
  <2>2. CASE SwitchMemTable \/ StartFlush \/ FinishFlush \/ FlushFails
    BY <2>2, HeldSwitchMemTable, HeldStartFlush, HeldFinishFlush, HeldFlushFails DEF HeldNext
  <2>3. CASE StartCompaction \/ FinishCompaction \/ CompactionFails \/ Pin \/ Unpin
    BY <2>3, HeldStartCompaction, HeldFinishCompaction, HeldQuietBackground DEF HeldNext
  <2> QED BY <1>2, <2>1, <2>2, <2>3 DEF Running
<1>3. CASE Opening
  BY <1>3, HeldNewDB, HeldOpenManifest, HeldReuseLog, HeldRecoverLogFile, HeldGone, HeldNewLog,
     HeldOpenApply, HeldOpenWithoutApply DEF Opening, HeldNext
<1>4. CASE ProcessCrash
  BY <1>4, HeldGone DEF HeldNext
<1>5. CASE MachineCrash
  BY <1>5, HeldMachineCrash DEF HeldNext, HeldCrash
<1>6. CASE UNCHANGED vars
  BY <1>6, HeldStutters DEF HeldNext
<1> QED BY <1>1, <1>2, <1>3, <1>4, <1>5, <1>6 DEF Next

LEMMA StoreStep ==
    ASSUME ReuseFrom >= MaxFaults, ~CrashWhenNew
    PROVE  StoreInv /\ [Next]_vars => StoreInv' /\ HeldNext
<1> SUFFICES ASSUME StoreInv, [Next]_vars
             PROVE  StoreInv' /\ HeldNext
  OBVIOUS
<1>1. TypeInv'
  BY TypeStep DEF StoreInv, DiskInv
<1>2. DiskAndLogs'
  BY DiskStep DEF StoreInv, DiskAndLogs
<1> QED BY <1>1, <1>2, HeldStep DEF StoreInv, DiskAndLogs

LEMMA StoreInit ==
    ASSUME Init
    PROVE  StoreInv /\ Held = {} /\ hard = {} /\ phase = "down"
<1>1. /\ dir = [files |-> {}, current |-> 0] /\ older = {} /\ phase = "down" /\ hard = {}
      /\ mem_ = {} /\ imm_ = {} /\ has_imm_ = FALSE /\ bg_error_ = FALSE /\ c = None
      /\ apply.owner = "open"
  BY DEF Init, NoApply
<1>2. Recoverable = {} /\ Held = {}
  BY <1>1 DEF Recoverable, Held
<1>3. LogsIn(dir) = {} /\ dir.current = 0 /\ Dirs = {dir}
  BY <1>1 DEF LogsIn, Of, Dirs
<1>4. Promise /\ LogsDown
  BY <1>1, <1>2, <1>3 DEF Promise, AllKeep, Keeps, LogsDown
<1>5. HeldInv
  BY <1>1, <1>4 DEF HeldInv, LogsBelow, NextInv, TablesMade, OpenFinds, UpLogs, Runs
<1> QED BY <1>1, <1>2, <1>5, DiskInit DEF StoreInv, DiskAndLogs

\* HeldNext is the next-state relation of DurableStore.
LEMMA HeldNextIs ==
    HeldNext => [DS!Next]_<<phase = "up", IF phase = "up" THEN Store ELSE Recoverable, hard>>
<1> SUFFICES ASSUME HeldNext
             PROVE  [DS!Next]_<<phase = "up", IF phase = "up" THEN Store ELSE Recoverable, hard>>
  OBVIOUS
<1>1. CASE Stutters
  BY <1>1 DEF Stutters, Held
<1>2. CASE OpensUp
  <2>1. DS!Open
    BY <1>2 DEF OpensUp, Held, DS!Open
  <2> QED BY <2>1 DEF DS!Next
<1>3. CASE GoesDown
  <2>1. DS!ProcessCrash
    BY <1>3 DEF GoesDown, Held, DS!ProcessCrash
  <2> QED BY <2>1 DEF DS!Next
<1>4. CASE HeldWrite
  <2>1. PICK e \in Entry, sync \in BOOLEAN :
            Held' = Held \cup {e} /\ hard' = IF sync THEN hard \cup {e} ELSE hard
    BY <1>4 DEF HeldWrite
  <2>2. DS!Write(e, sync)
    BY <1>4, <2>1 DEF HeldWrite, Held, DS!Write
  <2> QED BY <2>2 DEF DS!Next
<1>5. CASE HeldCrash
  <2>1. DS!MachineCrash
    BY <1>5 DEF HeldCrash, Held, DS!MachineCrash
  <2> QED BY <2>1 DEF DS!Next
<1> QED BY <1>1, <1>2, <1>3, <1>4, <1>5 DEF HeldNext

\* The database implements DurableStore: no crash of the process loses a write, no
\* crash of the machine one that was synced, and DB::Open, however often it fails or is
\* interrupted, neither loses nor invents any.  Assumed as for TablesStay.
THEOREM NothingIsLost ==
    ASSUME ReuseFrom >= MaxFaults, ~CrashWhenNew
    PROVE  Spec => RecoversWhatWasWritten
<1>1. Init => StoreInv
  BY StoreInit
<1>2. StoreInv /\ [Next]_vars => StoreInv'
  BY StoreStep
<1>3. StoreInv /\ [Next]_vars
          => [DS!Next]_<<phase = "up", IF phase = "up" THEN Store ELSE Recoverable, hard>>
  BY StoreStep, HeldNextIs
<1>4. Init => DS!Init
  BY StoreInit DEF DS!Init, Held
<1> QED BY <1>1, <1>2, <1>3, <1>4, PTL DEF Spec, RecoversWhatWasWritten, DS!Spec
-----------------------------------------------------------------------------
(***************************************************************************)
(* What comes first in level 0, in the logs and in memory is newer.        *)
(***************************************************************************)
OldIn(n, D) == D[TableFile(n)] # <<>> /\ D[TableFile(n)][1].deep
UpTo(S, s) == \A e \in S : e.seq <= s

\* The tables T, deep ones first, then those of level 0 by their numbers.
InOrder(T, D) ==
    \A n, m \in T :
        /\ OldIn(n, D) /\ ~OldIn(m, D) => Older(TableEntries(n, D), TableEntries(m, D))
        /\ ~OldIn(n, D) /\ ~OldIn(m, D) /\ n < m =>
               \/ Older(TableEntries(n, D), TableEntries(m, D))
               \/ TableEntries(m, D) \subseteq TableEntries(n, D)

\* The table n, and the entries S, which come after it or are in it.
Before(n, S, D) == Older(TableEntries(n, D), S)
Repeats(n, S, D) == ~OldIn(n, D) /\ S \subseteq TableEntries(n, D)

\* The tables T, and after them the logs L.  A log that repeats a table is not the last one.
LogsInOrder(T, L, D) ==
    /\ \A l \in L, n \in T :
           \/ Before(n, LogEntries(l, D), D)
           \/ Repeats(n, LogEntries(l, D), D) /\ \E m \in L : l < m
    /\ \A l, m \in L : l < m => Older(LogEntries(l, D), LogEntries(m, D))

\* What opening d finds if its MANIFEST ends with record k.
OrderedAt(k, d, D) ==
    LET R == D[Manifest(d.current)]
        T == TablesAt(R, k)
    IN  /\ InOrder(T, D) /\ LogsInOrder(T, LogsFrom(d, R[k].log), D)
        /\ UpTo(EntriesOf(T, D), R[k].last)
OrderedDir(d, D, S) ==
    d.current # 0 =>
        \A k \in 1..Len(D[Manifest(d.current)]) :
            S[Manifest(d.current)] <= k => OrderedAt(k, d, D)
AllOrdered(ds, D, S) == \A d \in ds : OrderedDir(d, D, S)

OrderDirs == MayCrash => AllOrdered(Dirs, data, synced)

\* DB::Open: the tables there are, and the logs that are left.
OpenTables == current_ \cup apply.edit.add
OpenOrder ==
    phase = "open" =>
        /\ InOrder(OpenTables, data) /\ LogsInOrder(OpenTables, todo, data)
        /\ Older(EntriesOf(OpenTables, data), mem_)
        /\ UpTo(EntriesOf(OpenTables, data) \cup mem_, last_sequence_)
        /\ apply.pc # "none" => apply.edit.last = last_sequence_

\* The compaction under way has the oldest tables of T.
BaseIsOldest(T) ==
    \A n \in T \ c.base : ~IsDeep(n) /\ Older(EntriesOf(c.base, data), TableEntries(n, data))

\* An open database.
UpOrder ==
    phase = "up" =>
        /\ InOrder(current_, data)
        /\ Older(EntriesOf(current_, data), imm_ \cup mem_) /\ Older(imm_, mem_)
        /\ UpTo(Store, last_sequence_)
        /\ c # None => BaseIsOldest(current_)
        /\ flush # 0 => \A n \in current_ : n < flush
        /\ apply.owner = "flush" => ~IsDeep(flush)
        /\ apply.owner = "compaction" => IsDeep(c.output)

\* The tables that the MANIFEST comes to: those of the version, and after an error
\* perhaps some that repeat imm_.
Recorded == TablesAt(Here, Len(Here))
NextLogThere == \A d \in Dirs : logfile_number_ \in LogsIn(d)
RecordedOrder ==
    phase = "up" /\ MayCrash =>
        /\ c # None /\ (apply.owner = "compaction" => apply.pc = "append") =>
               c.base \subseteq Recorded /\ BaseIsOldest(Recorded)
        /\ \A n \in Recorded : Before(n, mem_, data)
        /\ has_imm_ => \A n \in Recorded :
               Before(n, imm_, data) \/ (Repeats(n, imm_, data) /\ NextLogThere)
        /\ flush # 0 /\ apply.pc \in {"none", "append"} => \A n \in Recorded : n < flush
        /\ apply.pc = "append" =>
               UpTo(EntriesOf(Recorded \cup apply.edit.add, data), apply.edit.last)
        /\ apply.owner = "flush" => NextLogThere

OrderInv == OrderDirs /\ OpenOrder /\ UpOrder /\ RecordedOrder

-----------------------------------------------------------------------------
(***************************************************************************)
(* Order of entries in files that a step leaves alone.                     *)
(***************************************************************************)
LEMMA OlderParts ==
    ASSUME NEW S, NEW T, NEW A, NEW B, Older(S, T), A \subseteq S, B \subseteq T
    PROVE  Older(A, B)
BY DEF Older

LEMMA InOrderKept ==
    ASSUME NEW T, NEW D, NEW E, InOrder(T, D), \A n \in T : E[TableFile(n)] = D[TableFile(n)],
           NEW U \in SUBSET T
    PROVE  InOrder(U, E)
<1>1. \A n \in U : TableEntries(n, E) = TableEntries(n, D) /\ OldIn(n, E) = OldIn(n, D)
  BY DEF TableEntries, OldIn
<1> QED BY <1>1 DEF InOrder

\* Logs of which ends are lost, and new ones, which are empty.
LEMMA LogsInOrderKept ==
    ASSUME NEW T, NEW D, NEW E, NEW L, NEW M, LogsInOrder(T, L, D),
           \A n \in T : E[TableFile(n)] = D[TableFile(n)], L \subseteq M,
           \A l \in M : \/ LogEntries(l, E) = {}
                        \/ l \in L /\ LogEntries(l, E) \subseteq LogEntries(l, D)
    PROVE  LogsInOrder(T, M, E)
<1>1. \A n \in T : TableEntries(n, E) = TableEntries(n, D) /\ OldIn(n, E) = OldIn(n, D)
  BY DEF TableEntries, OldIn
<1>2. ASSUME NEW l \in M, NEW n \in T
      PROVE  \/ Before(n, LogEntries(l, E), E)
             \/ Repeats(n, LogEntries(l, E), E) /\ \E m \in M : l < m
  <2>1. CASE LogEntries(l, E) = {}
    BY <2>1 DEF Before, Older
  <2>2. CASE l \in L /\ LogEntries(l, E) \subseteq LogEntries(l, D)
    <3>1. \/ Before(n, LogEntries(l, D), D)
          \/ Repeats(n, LogEntries(l, D), D) /\ \E m \in L : l < m
      BY <2>2 DEF LogsInOrder
    <3>2. Before(n, LogEntries(l, D), D) => Before(n, LogEntries(l, E), E)
      BY <1>1, <2>2 DEF Before, Older
    <3>3. Repeats(n, LogEntries(l, D), D) => Repeats(n, LogEntries(l, E), E)
      BY <1>1, <2>2 DEF Repeats
    <3> QED BY <3>1, <3>2, <3>3
  <2> QED BY <2>1, <2>2
<1>3. ASSUME NEW l \in M, NEW m \in M, l < m
      PROVE  Older(LogEntries(l, E), LogEntries(m, E))
  <2>1. CASE LogEntries(l, E) = {} \/ LogEntries(m, E) = {}
    BY <2>1 DEF Older
  <2>2. CASE /\ l \in L /\ LogEntries(l, E) \subseteq LogEntries(l, D)
             /\ m \in L /\ LogEntries(m, E) \subseteq LogEntries(m, D)
    <3>1. Older(LogEntries(l, D), LogEntries(m, D))
      BY <1>3, <2>2 DEF LogsInOrder
    <3> QED BY <2>2, <3>1, OlderParts
  <2> QED BY <2>1, <2>2
<1> QED BY <1>2, <1>3 DEF LogsInOrder

LEMMA OrderedAtKept ==
    ASSUME NEW k \in Nat, k > 0, NEW d, NEW e, NEW D, NEW E, OrderedAt(k, d, D),
           NEW R, R = D[Manifest(d.current)],
           \A i \in 1..k : E[Manifest(e.current)][i] = R[i],
           \A n \in TablesAt(R, k) : E[TableFile(n)] = D[TableFile(n)],
           LogsFrom(d, R[k].log) \subseteq LogsFrom(e, R[k].log),
           \A l \in LogsFrom(e, R[k].log) :
               \/ LogEntries(l, E) = {}
               \/ l \in LogsFrom(d, R[k].log) /\ LogEntries(l, E) \subseteq LogEntries(l, D)
    PROVE  OrderedAt(k, e, E)
<1> DEFINE Q == E[Manifest(e.current)]
<1>1. TablesAt(Q, k) = TablesAt(R, k) /\ Q[k] = R[k]
  BY TablesAtPrefix
<1> HIDE DEF Q
<1>2. /\ InOrder(TablesAt(R, k), D) /\ LogsInOrder(TablesAt(R, k), LogsFrom(d, R[k].log), D)
      /\ UpTo(EntriesOf(TablesAt(R, k), D), R[k].last)
  BY DEF OrderedAt
<1>3. InOrder(TablesAt(R, k), E)
  BY <1>2, InOrderKept
<1>4. LogsInOrder(TablesAt(R, k), LogsFrom(e, R[k].log), E)
  BY <1>2, LogsInOrderKept
<1>5. EntriesOf(TablesAt(R, k), E) = EntriesOf(TablesAt(R, k), D)
  BY EntriesKept
<1>6. /\ InOrder(TablesAt(Q, k), E) /\ LogsInOrder(TablesAt(Q, k), LogsFrom(e, Q[k].log), E)
      /\ UpTo(EntriesOf(TablesAt(Q, k), E), Q[k].last)
  BY <1>1, <1>2, <1>3, <1>4, <1>5
<1> QED BY <1>6 DEF OrderedAt, Q

\* Nothing that the order at record k depends on has changed, but for files that are gone.
StillOrdered(k, d, e, D, E) ==
    LET R == D[Manifest(d.current)]
    IN  /\ \A i \in 1..k : E[Manifest(e.current)][i] = R[i]
        /\ \A n \in TablesAt(R, k) : E[TableFile(n)] = D[TableFile(n)]
        /\ LogsFrom(d, R[k].log) \subseteq LogsFrom(e, R[k].log)
        /\ \A l \in LogsFrom(e, R[k].log) :
               \/ LogEntries(l, E) = {}
               \/ l \in LogsFrom(d, R[k].log) /\ LogEntries(l, E) \subseteq LogEntries(l, D)

LEMMA OrderStill ==
    ASSUME NEW k \in Nat, k > 0, NEW d, NEW e, NEW D, NEW E, OrderedAt(k, d, D),
           StillOrdered(k, d, e, D, E)
    PROVE  OrderedAt(k, e, E)
<1>1. PICK R : R = D[Manifest(d.current)]
  OBVIOUS
<1>2. /\ \A i \in 1..k : E[Manifest(e.current)][i] = R[i]
      /\ \A n \in TablesAt(R, k) : E[TableFile(n)] = D[TableFile(n)]
      /\ LogsFrom(d, R[k].log) \subseteq LogsFrom(e, R[k].log)
      /\ \A l \in LogsFrom(e, R[k].log) :
             \/ LogEntries(l, E) = {}
             \/ l \in LogsFrom(d, R[k].log) /\ LogEntries(l, E) \subseteq LogEntries(l, D)
  BY <1>1 DEF StillOrdered
<1> QED BY <1>1, <1>2, OrderedAtKept

LEMMA OrderedOn ==
    ASSUME NEW d, NEW e, NEW D, NEW S, NEW E, NEW X, OrderedDir(d, D, S), e.current = d.current,
           d.current # 0 =>
               /\ E[Manifest(d.current)] = D[Manifest(d.current)]
               /\ S[Manifest(d.current)] \in Nat /\ X[Manifest(d.current)] \in Nat
               /\ S[Manifest(d.current)] <= X[Manifest(d.current)]
               /\ Len(D[Manifest(d.current)]) \in Nat
               /\ DOMAIN D[Manifest(d.current)] = 1..Len(D[Manifest(d.current)])
               /\ \A n \in NamedIn(d, D) : E[TableFile(n)] = D[TableFile(n)]
               /\ LogsIn(d) \subseteq LogsIn(e)
               /\ \A n \in LogsIn(e) : \/ LogEntries(n, E) = {}
                                       \/ n \in LogsIn(d) /\ LogEntries(n, E) = LogEntries(n, D)
    PROVE  OrderedDir(e, E, X)
<1> SUFFICES ASSUME d.current # 0, NEW k \in 1..Len(E[Manifest(e.current)]),
                    X[Manifest(e.current)] <= k
             PROVE  OrderedAt(k, e, E)
  BY DEF OrderedDir
<1>1. PICK R : R = D[Manifest(d.current)]
  OBVIOUS
<1>2. k \in 1..Len(R) /\ k \in Nat /\ k > 0 /\ S[Manifest(d.current)] <= k /\ DOMAIN R = 1..Len(R)
  BY <1>1
<1>3. OrderedAt(k, d, D)
  BY <1>1, <1>2 DEF OrderedDir
<1>4. TablesAt(R, k) \subseteq NamedIn(d, D)
  BY <1>1, <1>2, TablesNamed
<1>5. \A l \in LogsFrom(e, R[k].log) :
          \/ LogEntries(l, E) = {}
          \/ l \in LogsFrom(d, R[k].log) /\ LogEntries(l, E) \subseteq LogEntries(l, D)
  BY DEF LogsFrom, LogsIn
<1>6. LogsFrom(d, R[k].log) \subseteq LogsFrom(e, R[k].log)
  BY DEF LogsFrom, LogsIn
<1>7. /\ \A i \in 1..k : E[Manifest(e.current)][i] = R[i]
      /\ \A n \in TablesAt(R, k) : E[TableFile(n)] = D[TableFile(n)]
  BY <1>1, <1>4
<1>8. StillOrdered(k, d, e, D, E)
  BY <1>1, <1>5, <1>6, <1>7 DEF StillOrdered
<1> QED BY <1>2, <1>3, <1>8, OrderStill

\* Steps that touch one file, which no directory reads.
LEMMA OrderFramed ==
    ASSUME TypeInv, TypeInv', OrderDirs, NEW f, Just(f), MayCrash' => MayCrash,
           MayCrash => dir.current # 0 /\ \A d \in Dirs : f \notin Uses(d, data),
           NoLogOf(Dirs, f)
    PROVE  OrderDirs'
<1> SUFFICES ASSUME MayCrash, NEW e \in Dirs'
             PROVE  OrderedDir(e, data', synced')
  BY DEF OrderDirs, AllOrdered
<1>1. PICK d \in Dirs : /\ e = d \/ (e = dir' /\ d = dir)
                        /\ e.current = d.current
  BY LogsJust, DirsAre DEF Just, Only
<1>2. OrderedDir(d, data, synced)
  BY <1>1 DEF OrderDirs, AllOrdered
<1>3. d \in DirType /\ e \in DirType
  BY <1>1, DirsAre DEF TypeInv, DirsOK
<1>4. LogsIn(e) \subseteq Numbers /\ LogsIn(d) \subseteq Numbers
  BY <1>3, LogsAre
<1>5. \A n : Log(n) # f => (n \in LogsIn(e) <=> n \in LogsIn(d))
  BY <1>1, LogsJust
<1>6. \A n \in LogsIn(d) : f # Log(n)
  BY <1>1 DEF NoLogOf
<1>7. LogsIn(d) \subseteq LogsIn(e)
  BY <1>5, <1>6
<1>8. \A n \in LogsIn(e) : \/ LogEntries(n, data') = {}
                           \/ n \in LogsIn(d) /\ LogEntries(n, data') = LogEntries(n, data)
  <2> SUFFICES ASSUME NEW n \in LogsIn(e)
               PROVE  \/ LogEntries(n, data') = {}
                      \/ n \in LogsIn(d) /\ LogEntries(n, data') = LogEntries(n, data)
    OBVIOUS
  <2>1. CASE f = Log(n)
    <3>1. data'[Log(n)] = <<>>
      BY <2>1 DEF NoLogOf
    <3> QED BY <3>1 DEF LogEntries
  <2>2. CASE f # Log(n)
    BY <1>4, <1>5, <2>2, FilesJust
  <2> QED BY <2>1, <2>2
<1>9. d.current # 0 =>
          /\ data'[Manifest(d.current)] = data[Manifest(d.current)]
          /\ synced[Manifest(d.current)] \in Nat /\ synced'[Manifest(d.current)] \in Nat
          /\ synced[Manifest(d.current)] <= synced'[Manifest(d.current)]
          /\ Len(data[Manifest(d.current)]) \in Nat
          /\ DOMAIN data[Manifest(d.current)] = 1..Len(data[Manifest(d.current)])
  <2> SUFFICES ASSUME d.current # 0
               PROVE  /\ data'[Manifest(d.current)] = data[Manifest(d.current)]
                      /\ synced'[Manifest(d.current)] = synced[Manifest(d.current)]
    BY ManifestOf
  <2>1. d.current \in Numbers /\ f # Manifest(d.current)
    BY ManifestOf DEF Uses
  <2> QED BY <2>1, FilesJust
<1>10. \A n \in NamedIn(d, data) : data'[TableFile(n)] = data[TableFile(n)]
  <2> SUFFICES ASSUME NEW n \in NamedIn(d, data)
               PROVE  data'[TableFile(n)] = data[TableFile(n)]
    OBVIOUS
  <2>1. n \in Numbers /\ d.current # 0
    BY NamedNumbers DEF NamedIn
  <2>2. f # TableFile(n)
    BY <2>1 DEF Uses
  <2> QED BY <2>1, <2>2, FileIs DEF Just, Only
<1> QED BY <1>1, <1>2, <1>7, <1>8, <1>9, <1>10, OrderedOn

\* Sets of entries that are as before.
LEMMA OrderOfSame ==
    ASSUME NEW T, NEW D, NEW E, \A n \in T : E[TableFile(n)] = D[TableFile(n)]
    PROVE  /\ EntriesOf(T, E) = EntriesOf(T, D)
           /\ \A n \in T : TableEntries(n, E) = TableEntries(n, D) /\ (OldIn(n, E) <=> OldIn(n, D))
           /\ \A n \in T : \A S : Before(n, S, D) => Before(n, S, E)
           /\ \A n \in T : \A S : Repeats(n, S, D) => Repeats(n, S, E)
           /\ InOrder(T, D) => InOrder(T, E)
<1>1. \A n \in T : TableEntries(n, E) = TableEntries(n, D) /\ (OldIn(n, E) <=> OldIn(n, D))
  BY DEF TableEntries, OldIn
<1>2. InOrder(T, D) => InOrder(T, E)
  BY InOrderKept
<1> QED BY <1>1, <1>2, EntriesKept DEF Before, Repeats

LEMMA DeepIs ==
    /\ \A n : IsDeep(n) <=> OldIn(n, data)
    /\ \A n : IsDeep(n)' <=> OldIn(n, data')
BY DEF IsDeep, OldIn

-----------------------------------------------------------------------------
(***************************************************************************)
(* Steps of an open database that leave its tables and logs alone.         *)
(***************************************************************************)
LEMMA RecordedIs ==
    ASSUME StoreInv, phase = "up", MayCrash
    PROVE  /\ Recorded \subseteq NamedIn(dir, data) /\ Recorded \subseteq Numbers
           /\ EntriesOf(Recorded, data) \subseteq Store
           /\ ~bg_error_ /\ apply.pc \in {"none", "append"} => Recorded = current_
<1>1. /\ DiskInv /\ dir \in Dirs /\ dir.current # 0 /\ Here = Mine /\ has_descriptor_ /\ Runs
      /\ Top \in Nat /\ Top > 0 /\ synced[Manifest(dir.current)] <= Top
      /\ TablesAt(Here, Top) \subseteq NamedIn(dir, data) /\ NamedIn(dir, data) \subseteq Numbers
  BY UpIs DEF StoreInv
<1>2. Keeps(dir, data, synced, Store, hard)
  BY <1>1 DEF StoreInv, HeldInv, Promise, AllKeep, Held
<1>3. Top \in 1..Len(data[Manifest(dir.current)])
  BY <1>1 DEF Top, Here
<1>4. Most(Top, dir, data) \subseteq Store
  BY <1>1, <1>2, <1>3 DEF Keeps
<1>5. EntriesOf(Recorded, data) \subseteq Most(Top, dir, data)
  BY DEF Most, Recorded, Top, Here
<1>6. ~bg_error_ /\ apply.pc \in {"none", "append"} => Recorded = current_
  BY <1>1 DEF DiskInv, Replay, Recorded, Top
<1> QED BY <1>1, <1>4, <1>5, <1>6 DEF Recorded, Top

AsBefore ==
    /\ OrderDirs' /\ OpenOrder' /\ Store' = Store
    /\ \A n \in current_ : data'[TableFile(n)] = data[TableFile(n)]
    /\ MayCrash' => /\ Recorded' = Recorded /\ (NextLogThere => NextLogThere')
                    /\ \A n \in Recorded : data'[TableFile(n)] = data[TableFile(n)]

LEMMA TablesAsBefore ==
    ASSUME StoreInv, OrderInv, TypeInv', phase = "up", phase' = "up", MayCrash' => MayCrash,
           NEW f, Just(f), \A n : f # Log(n),
           MayCrash => \A d \in Dirs : f \notin Uses(d, data), \A n \in current_ : f # TableFile(n),
           UNCHANGED <<mem_, imm_, logfile_number_, current_>>
    PROVE  AsBefore
<1>1. TypeInv /\ DiskInv
  BY DEF StoreInv, DiskInv
<1>2. MayCrash => dir.current # 0
  BY <1>1, UpIs
<1>3. NoLogOf(Dirs, f)
  BY DEF NoLogOf
<1>4. OrderDirs'
  BY <1>1, <1>2, <1>3, OrderFramed DEF OrderInv
<1>5. Store' = Store
  BY <1>1, StoreFramed
<1>6. current_ \subseteq Numbers
  BY <1>1 DEF TypeInv, VersionType
<1>7. \A n \in Numbers : f # TableFile(n) => data'[TableFile(n)] = data[TableFile(n)]
  BY FileIs DEF Just, Only
<1>8. ASSUME MayCrash
      PROVE  /\ Recorded' = Recorded /\ (NextLogThere => NextLogThere')
             /\ \A n \in Recorded : data'[TableFile(n)] = data[TableFile(n)]
  <2>1. dir \in Dirs /\ dir.current # 0 /\ dir.current \in Numbers
    BY <1>1, <1>8, UpIs
  <2>2. f # Manifest(dir.current) /\ \A n \in NamedIn(dir, data) : f # TableFile(n)
    BY <1>8, <2>1 DEF Uses
  <2>3. Here' = Here
    BY <1>1, <2>1, <2>2, FilesJust DEF Here, Just, Only
  <2>4. Recorded' = Recorded
    BY <2>3 DEF Recorded
  <2>5. \A n \in Recorded : data'[TableFile(n)] = data[TableFile(n)]
    BY <1>7, <1>8, <2>2, RecordedIs
  <2>6. LogsIn(dir') = LogsIn(dir) /\ \A e \in Dirs' : e \in Dirs \/ e = dir'
    BY <1>1, LogsJust
  <2>7. NextLogThere => NextLogThere'
    BY <2>1, <2>6 DEF NextLogThere
  <2> QED BY <2>4, <2>5, <2>7
<1>9. OpenOrder'
  BY DEF OpenOrder
<1> QED BY <1>4, <1>5, <1>6, <1>7, <1>8, <1>9 DEF AsBefore

LEMMA NothingTouched ==
    ASSUME StoreInv, OrderInv, phase = "up", phase' = "up", MayCrash' => MayCrash,
           UNCHANGED diskVars, UNCHANGED <<mem_, imm_, logfile_number_, current_>>
    PROVE  AsBefore
<1>1. /\ dir' = dir /\ data' = data /\ synced' = synced /\ Dirs' = Dirs
      /\ Recorded' = Recorded /\ (NextLogThere => NextLogThere')
  BY DEF diskVars, Dirs, Recorded, Here, NextLogThere
<1>2. Store' = Store
  BY <1>1 DEF Store, InTables, Contents
<1>3. OrderDirs' /\ OpenOrder'
  BY <1>1 DEF OrderInv, OrderDirs, OpenOrder
<1> QED BY <1>1, <1>2, <1>3 DEF AsBefore

\* What LogAndApply is to commit, if it starts.
StartsInOrder ==
    /\ apply'.owner = "flush" => ~OldIn(flush', data') /\ (MayCrash' => NextLogThere')
    /\ apply'.owner = "compaction" => OldIn(c'.output, data')
    /\ apply'.edit.last = last_sequence_ /\ EntriesOf(apply'.edit.add, data') \subseteq Store

LEMMA OrderKept ==
    ASSUME StoreInv, OrderInv, TypeInv', phase = "up", phase' = "up", faults <= faults',
           AsBefore,
           UNCHANGED <<mem_, imm_, has_imm_, logfile_number_, last_sequence_, current_>>,
           c' = c \/ c' = None \/ (c'.base = current_ /\ ~bg_error_ /\ apply.pc = "none"),
           flush' = flush \/ flush' = 0 \/ flush' = next_file_number_,
           \/ /\ apply' = apply /\ data' = data
              /\ apply.owner = "flush" => flush' = flush
              /\ apply.owner = "compaction" => c' = c
           \/ apply.pc = "none" /\ (apply'.pc = "none" \/ StartsInOrder)
    PROVE  OrderInv'
<1>1. TypeInv /\ DiskInv /\ (MayCrash' => MayCrash) /\ Runs
  BY MayCrashBefore DEF StoreInv, DiskInv, Runs
<1>2. /\ OrderDirs' /\ OpenOrder' /\ Store' = Store
      /\ \A n \in current_ : data'[TableFile(n)] = data[TableFile(n)]
      /\ MayCrash' => /\ Recorded' = Recorded /\ (NextLogThere => NextLogThere')
                      /\ \A n \in Recorded : data'[TableFile(n)] = data[TableFile(n)]
  BY DEF AsBefore
<1>3. next_file_number_ \in Nat /\ \A n \in current_ : n < next_file_number_
  BY <1>1 DEF DiskInv, LiveBelow, LiveTables, TypeInv, NumberType
<1>4. UpOrder /\ RecordedOrder /\ (c # None => c.base \subseteq current_)
  BY DEF OrderInv, StoreInv, HeldInv, TablesMade
<1>5. apply'.pc = "none" => apply'.owner = "open"
  BY DEF TypeInv, PhaseType
<1>6. apply.pc = "none" => apply.owner = "open"
  BY <1>1 DEF TypeInv, PhaseType
<1>7. ASSUME NEW T, \A n \in T : data'[TableFile(n)] = data[TableFile(n)],
             c # None, c.base \subseteq T, BaseIsOldest(T), c' = c
      PROVE  \A n \in T \ c.base : ~OldIn(n, data')
                 /\ Older(EntriesOf(c.base, data'), TableEntries(n, data'))
  <2>1. /\ EntriesOf(c.base, data') = EntriesOf(c.base, data)
        /\ \A n \in T : TableEntries(n, data') = TableEntries(n, data)
                        /\ (OldIn(n, data') <=> OldIn(n, data))
    BY <1>7, OrderOfSame
  <2> QED BY <1>7, <2>1, DeepIs DEF BaseIsOldest
<1>8. ASSUME NEW T, c' # None, T' = T,
             \A n \in T \ c'.base : ~OldIn(n, data')
                 /\ Older(EntriesOf(c'.base, data'), TableEntries(n, data'))
      PROVE  BaseIsOldest(T)'
  BY <1>8, DeepIs DEF BaseIsOldest
<1>9. UpOrder'
  <2>1. InOrder(current_', data') /\ EntriesOf(current_', data') = EntriesOf(current_, data)
    BY <1>2, <1>4, OrderOfSame DEF UpOrder
  <2>2. Older(EntriesOf(current_, data)', (imm_ \cup mem_)') /\ Older(imm_', mem_')
    BY <1>4, <2>1 DEF UpOrder
  <2>3. UpTo(Store', last_sequence_')
    BY <1>2, <1>4 DEF UpOrder
  <2>4. ASSUME c' # None
        PROVE  BaseIsOldest(current_)'
    <3>1. CASE c' = c
      BY <1>2, <1>4, <1>7, <1>8, <2>4, <3>1 DEF UpOrder
    <3>2. CASE c'.base = current_
      BY <1>8, <2>4, <3>2
    <3> QED BY <2>4, <3>1, <3>2
  <2>5. flush' # 0 => \A n \in current_' : n < flush'
    BY <1>3, <1>4 DEF UpOrder
  <2>6. apply'.owner = "flush" => ~IsDeep(flush)'
    BY <1>4, <1>5, DeepIs DEF UpOrder, StartsInOrder
  <2>7. apply'.owner = "compaction" => IsDeep(c.output)'
    BY <1>4, <1>5, DeepIs DEF UpOrder, StartsInOrder
  <2> QED BY <2>1, <2>2, <2>3, <2>4, <2>5, <2>6, <2>7 DEF UpOrder
<1>10. ASSUME MayCrash'
       PROVE  RecordedOrder'
  <2>1. /\ Recorded' = Recorded /\ (NextLogThere => NextLogThere')
        /\ \A n \in Recorded : data'[TableFile(n)] = data[TableFile(n)]
    BY <1>2, <1>10
  <2>2. /\ Recorded \subseteq NamedIn(dir, data) /\ Recorded \subseteq Numbers
        /\ EntriesOf(Recorded, data) \subseteq Store
        /\ ~bg_error_ /\ apply.pc \in {"none", "append"} => Recorded = current_
    BY <1>1, <1>10, RecordedIs
  <2>3. /\ EntriesOf(Recorded, data') = EntriesOf(Recorded, data)
        /\ \A n \in Recorded : \A S : Before(n, S, data) => Before(n, S, data')
        /\ \A n \in Recorded : \A S : Repeats(n, S, data) => Repeats(n, S, data')
    BY <2>1, OrderOfSame
  <2>4. \A n \in Recorded' : Before(n, mem_', data')
    BY <1>1, <1>4, <1>10, <2>1, <2>3 DEF RecordedOrder
  <2>5. has_imm_' => \A n \in Recorded' :
            Before(n, imm_', data') \/ (Repeats(n, imm_', data') /\ NextLogThere')
    BY <1>1, <1>4, <1>10, <2>1, <2>3 DEF RecordedOrder
  <2>6. ASSUME c' # None, apply'.owner = "compaction" => apply'.pc = "append"
        PROVE  c'.base \subseteq Recorded' /\ BaseIsOldest(Recorded)'
    <3>1. CASE c' = c
      <4>1. apply.owner = "compaction" => apply.pc = "append"
        BY <1>6, <2>6
      <4>2. c.base \subseteq Recorded /\ BaseIsOldest(Recorded)
        BY <1>1, <1>4, <1>10, <2>6, <3>1, <4>1 DEF RecordedOrder
      <4> QED BY <1>7, <1>8, <2>1, <2>6, <3>1, <4>2
    <3>2. CASE c'.base = current_ /\ ~bg_error_ /\ apply.pc = "none"
      BY <1>8, <2>1, <2>2, <2>6, <3>2
    <3> QED BY <2>6, <3>1, <3>2
  <2>7. ASSUME flush' # 0, apply'.pc \in {"none", "append"}
        PROVE  \A n \in Recorded' : n < flush'
    <3>1. CASE flush' = flush
      BY <1>1, <1>4, <1>10, <2>1, <2>7, <3>1 DEF RecordedOrder
    <3>2. CASE flush' = next_file_number_
      <4>1. BelowIn(next_file_number_, dir, data)
        BY <1>1, <1>10, DirsAre DEF DiskInv, NamesBelow, AllBelow
      <4>2. dir.current # 0
        BY <1>1, <1>10, UpIs
      <4> QED BY <2>1, <2>2, <3>2, <4>1, <4>2 DEF BelowIn
    <3> QED BY <2>7, <3>1, <3>2
  <2>8. ASSUME apply'.pc = "append"
        PROVE  UpTo(EntriesOf(Recorded' \cup apply'.edit.add, data'), apply'.edit.last)
    <3>1. CASE apply' = apply /\ data' = data
      BY <1>1, <1>4, <1>10, <2>1, <2>8, <3>1 DEF RecordedOrder
    <3>2. CASE StartsInOrder
      <4>1. EntriesOf(Recorded' \cup apply'.edit.add, data') \subseteq Store
        BY <2>1, <2>2, <2>3, <3>2, EntriesOfUnion DEF StartsInOrder
      <4>2. UpTo(Store, last_sequence_)
        BY <1>4 DEF UpOrder
      <4> QED BY <3>2, <4>1, <4>2 DEF UpTo, StartsInOrder
    <3> QED BY <2>8, <3>1, <3>2
  <2>9. apply'.owner = "flush" => NextLogThere'
    BY <1>1, <1>4, <1>5, <1>10, <2>1 DEF RecordedOrder, StartsInOrder
  <2> QED BY <2>4, <2>5, <2>6, <2>7, <2>8, <2>9 DEF RecordedOrder
<1>11. RecordedOrder'
  BY <1>10 DEF RecordedOrder
<1> QED BY <1>2, <1>9, <1>11 DEF OrderInv

LEMMA WrittenIsOld ==
    ASSUME TypeInv, NEW n \in Numbers, NEW entries, NEW deep \in BOOLEAN,
           data' = [data EXCEPT ![TableFile(n)] = <<TableOf(entries, deep)>>]
    PROVE  TableEntries(n, data') = entries /\ (OldIn(n, data') <=> deep)
<1>1. PICK r : r = <<TableOf(entries, deep)>>
  OBVIOUS
<1>2. r # <<>> /\ r[1].entries = entries /\ r[1].deep = deep
  BY <1>1 DEF TableOf
<1>3. TableFile(n) \in Files
  BY FileIs
<1>4. data'[TableFile(n)] = r
  BY <1>1, <1>3 DEF TypeInv, DiskType, FilesOK
<1> QED BY <1>2, <1>4 DEF TableEntries, OldIn

\* Steps that touch the table n, which is new to MANIFESTs.
LEMMA NewTable ==
    ASSUME StoreInv, OrderInv, TypeInv', phase = "up", phase' = "up", faults <= faults',
           NEW n \in Numbers, Just(TableFile(n)), n \notin current_,
           MayCrash => FreshIn(n, Dirs, data),
           UNCHANGED <<mem_, imm_, logfile_number_, current_>>
    PROVE  AsBefore
<1>1. PICK f : f = TableFile(n)
  OBVIOUS
<1>2. /\ \A m : f # Log(m)
      /\ \A m \in current_ : f # TableFile(m)
      /\ MayCrash => \A d \in Dirs : f \notin Uses(d, data)
  BY <1>1, FilesApart, NotUsed DEF StoreInv, DiskInv
<1>3. MayCrash' => MayCrash
  BY MayCrashBefore DEF StoreInv, DiskInv, Runs
<1> QED BY <1>1, <1>2, <1>3, TablesAsBefore

LEMMA OrderStartFlush ==
    ASSUME StoreInv, OrderInv, TypeInv', StartFlush
    PROVE  OrderInv'
<1>1. PICK n \in Numbers :
           /\ NewFileNumber(n) /\ ChangeDir(Create(TableFile(n))) /\ Written(TableFile(n), <<>>)
           /\ flush' = n
  BY DEF StartFlush
<1>2. /\ phase = "up" /\ apply = NoApply
      /\ UNCHANGED <<log_number_, manifest_file_number_, has_descriptor_, memVars, openVars,
                   current_, pinned, c, apply, bg_error_, historyVars>>
  BY DEF StartFlush, MayFlush
<1>3. TypeInv /\ Runs /\ faults <= faults'
  BY <1>2, NumbersKept DEF StoreInv, DiskInv, Runs, historyVars
<1>4. Just(TableFile(n))
  BY <1>1, <1>3, FileIs, ChangeDirIs, JustIs DEF Written
<1>5. apply.pc = "none" /\ apply'.pc = "none"
  BY <1>2 DEF NoApply
<1>6. n \notin current_ /\ n = next_file_number_ /\ (MayCrash => FreshIn(n, Dirs, data))
  BY <1>1, <1>3, NextNumber
<1>7. AsBefore
  BY <1>1, <1>2, <1>3, <1>4, <1>6, NewTable DEF openVars, memVars
<1> QED BY <1>1, <1>2, <1>3, <1>5, <1>6, <1>7, OrderKept DEF openVars, memVars

LEMMA OrderStartCompaction ==
    ASSUME StoreInv, OrderInv, TypeInv', StartCompaction
    PROVE  OrderInv'
<1>1. PICK n \in Numbers :
           /\ NewFileNumber(n) /\ ChangeDir(Create(TableFile(n))) /\ Written(TableFile(n), <<>>)
           /\ c' = [base |-> current_, output |-> n]
  BY DEF StartCompaction
<1>2. /\ phase = "up" /\ apply = NoApply /\ ~bg_error_ /\ c'.base = current_
      /\ UNCHANGED <<log_number_, manifest_file_number_, has_descriptor_, memVars, openVars,
                     current_, pinned, flush, apply, bg_error_, historyVars>>
  BY <1>1 DEF StartCompaction
<1>3. TypeInv /\ Runs /\ faults <= faults'
  BY <1>2, NumbersKept DEF StoreInv, DiskInv, Runs, historyVars
<1>4. Just(TableFile(n))
  BY <1>1, <1>3, FileIs, ChangeDirIs, JustIs DEF Written
<1>5. apply.pc = "none" /\ apply'.pc = "none"
  BY <1>2 DEF NoApply
<1>6. n \notin current_ /\ (MayCrash => FreshIn(n, Dirs, data))
  BY <1>1, <1>3, NextNumber
<1>7. AsBefore
  BY <1>1, <1>2, <1>3, <1>4, <1>6, NewTable DEF openVars, memVars
<1> QED BY <1>2, <1>3, <1>5, <1>7, OrderKept DEF openVars, memVars

LEMMA OrderFlushFails ==
    ASSUME StoreInv, OrderInv, TypeInv', FlushFails
    PROVE  OrderInv'
<1>1. /\ flush # 0 /\ apply = NoApply /\ faults' = faults + 1 /\ flush' = 0
      /\ ChangeDir([dir EXCEPT !.files = @ \ {TableFile(flush)}])
      /\ UNCHANGED <<data, synced, numberVars, memVars, openVars, current_, pinned, c, apply,
                     writes, hard>>
  BY DEF FlushFails, Fault
<1>2. /\ apply.pc = "none" /\ apply'.pc = "none" /\ phase = "up" /\ flush \in Numbers /\ TypeInv
  BY <1>1, NumbersAre
  DEF NoApply, StoreInv, DiskInv, TypeInv, PhaseType, BgType, Numbers
<1>3. flush \notin current_ /\ (MayCrash => FreshIn(flush, Dirs, data))
  <2>1. apply.owner = "open"
    BY <1>1 DEF NoApply
  <2> QED BY <1>1, <1>2, <2>1 DEF StoreInv, DiskInv, FlushInv, Fresh, Runs, LiveTables
<1>4. Just(TableFile(flush))
  BY <1>1, <1>2, FileIs, ChangeDirIs, JustIs
<1>5. faults <= faults'
  BY <1>1, <1>2, NumbersAre DEF TypeInv, HistoryType
<1>7. AsBefore
  BY <1>1, <1>2, <1>3, <1>4, <1>5, NewTable DEF openVars, memVars
<1> QED BY <1>1, <1>2, <1>5, <1>7, OrderKept DEF openVars, memVars

LEMMA OrderFinishFlush ==
    ASSUME StoreInv, OrderInv, TypeInv', FinishFlush
    PROVE  OrderInv'
<1>1. /\ flush # 0 /\ apply = NoApply
      /\ data' = [data EXCEPT ![TableFile(flush)] = <<TableOf(imm_, FALSE)>>]
      /\ SyncFile(TableFile(flush))
      /\ apply' = [pc |-> "append", owner |-> "flush", edit |-> FlushEdit]
      /\ UNCHANGED <<dir, numberVars, memVars, openVars, current_, pinned, flush, c,
                     bg_error_, historyVars>>
  BY DEF FinishFlush, StartApply
<1>2. /\ apply'.pc = "append" /\ apply'.owner = "flush" /\ apply'.edit.last = last_sequence_
      /\ apply'.edit.add = {flush}
  BY <1>1 DEF Edit, FlushEdit
<1>3. apply.owner = "open" /\ apply.pc = "none" /\ phase = "up" /\ flush \in Numbers /\ TypeInv
  BY <1>1, NumbersAre
  DEF NoApply, StoreInv, DiskInv, TypeInv, PhaseType, BgType, Numbers
<1>4. flush \notin current_ /\ (MayCrash => FreshIn(flush, Dirs, data))
  BY <1>1, <1>3 DEF StoreInv, DiskInv, FlushInv, Fresh, Runs, LiveTables
<1>5. Just(TableFile(flush))
  <2>1. Dirs' \subseteq Dirs \cup {dir'}
    BY <1>1 DEF SyncFile, Dirs
  <2> QED BY <1>1, <1>3, <2>1, FileIs, JustIs DEF SyncFile
<1>6. faults <= faults' /\ (MayCrash' => MayCrash)
  BY <1>1, <1>3, NumbersKept, MayCrashBefore DEF historyVars, openVars, Runs
<1>7. StartsInOrder
  <2>1. TableEntries(flush, data') = imm_ /\ ~OldIn(flush, data')
    BY <1>1, <1>3, WrittenIsOld
  <2>2. EntriesOf(apply'.edit.add, data') \subseteq Store
    BY <1>2, <2>1, EntriesOfOne DEF Store
  <2>3. MayCrash => logfile_number_ \in LogsIn(dir)
    BY <1>3 DEF StoreInv, HeldInv, UpLogs, UpMem
  <2>4. Dirs' = {dir} /\ logfile_number_' = logfile_number_
    BY <1>1 DEF SyncFile, Dirs, memVars
  <2>5. MayCrash' => NextLogThere'
    BY <1>6, <2>3, <2>4 DEF NextLogThere
  <2> QED BY <1>1, <1>2, <2>1, <2>2, <2>5 DEF StartsInOrder
<1>8. AsBefore
  BY <1>1, <1>3, <1>4, <1>5, <1>6, NewTable DEF openVars, memVars
<1> QED BY <1>1, <1>3, <1>6, <1>7, <1>8, OrderKept DEF openVars, memVars

LEMMA OrderFinishCompaction ==
    ASSUME StoreInv, OrderInv, TypeInv', FinishCompaction
    PROVE  OrderInv'
<1>1. /\ c # None /\ flush = 0 /\ apply = NoApply
      /\ data' = [data EXCEPT ![TableFile(c.output)] = <<TableOf(InTables(c.base), TRUE)>>]
      /\ SyncFile(TableFile(c.output))
      /\ apply' = [pc |-> "append", owner |-> "compaction",
                   edit |-> Edit(log_number_, next_file_number_, last_sequence_,
                                 {c.output}, c.base)]
      /\ UNCHANGED <<dir, numberVars, memVars, openVars, versionVars, flush, c, bg_error_,
                     historyVars>>
  BY DEF FinishCompaction, StartApply
<1>2. /\ apply'.pc = "append" /\ apply'.owner = "compaction" /\ apply'.edit.last = last_sequence_
      /\ apply'.edit.add = {c.output}
  BY <1>1 DEF Edit
<1>3. /\ apply.owner = "open" /\ apply.pc = "none" /\ phase = "up" /\ TypeInv
      /\ c.output \in Numbers
  BY <1>1, CompactionIs DEF NoApply, StoreInv, DiskInv
<1>4. /\ c.output \notin current_ /\ (MayCrash => FreshIn(c.output, Dirs, data))
  BY <1>1, <1>3 DEF StoreInv, DiskInv, CompactionInv, Fresh, Runs
<1>5. Just(TableFile(c.output))
  <2>1. Dirs' \subseteq Dirs \cup {dir'}
    BY <1>1 DEF SyncFile, Dirs
  <2> QED BY <1>1, <1>3, <2>1, FileIs, JustIs DEF SyncFile
<1>6. faults <= faults'
  BY <1>1, <1>3, NumbersKept DEF historyVars
<1>7. StartsInOrder
  <2>1. TableEntries(c.output, data') = InTables(c.base) /\ OldIn(c.output, data')
    BY <1>1, <1>3, WrittenIsOld
  <2>2. c.base \subseteq current_
    BY <1>1 DEF StoreInv, HeldInv, TablesMade
  <2>3. InTables(c.base) \subseteq Store
    BY <2>2 DEF InTables, Store
  <2>4. EntriesOf(apply'.edit.add, data') \subseteq Store
    BY <1>2, <2>1, <2>3, EntriesOfOne
  <2> QED BY <1>1, <1>2, <2>1, <2>4 DEF StartsInOrder
<1>8. AsBefore
  BY <1>1, <1>3, <1>4, <1>5, <1>6, NewTable DEF openVars, memVars, versionVars
<1> QED BY <1>1, <1>3, <1>6, <1>7, <1>8, OrderKept DEF openVars, memVars, versionVars

LEMMA OrderQuietBackground ==
    ASSUME StoreInv, OrderInv, TypeInv', CompactionFails \/ Pin \/ Unpin
    PROVE  OrderInv'
<1>1. /\ phase = "up" /\ phase' = "up" /\ UNCHANGED diskVars /\ faults' \in {faults, faults + 1}
      /\ UNCHANGED <<mem_, imm_, has_imm_, logfile_number_, last_sequence_, current_, flush, apply>>
      /\ c' = c \/ (c' = None /\ apply.owner # "compaction")
  BY DEF CompactionFails, Pin, Unpin, Fault, openVars, memVars, bgVars, historyVars, NoApply,
         StoreInv, DiskInv, TypeInv, PhaseType
<1>2. TypeInv /\ faults <= faults'
  BY <1>1, NumbersAre DEF StoreInv, DiskInv, TypeInv, HistoryType
<1>3. AsBefore
  BY <1>1, <1>2, NothingTouched, MayCrashBefore DEF Runs
<1> QED BY <1>1, <1>2, <1>3, OrderKept DEF diskVars

-----------------------------------------------------------------------------
(***************************************************************************)
(* Writes.                                                                 *)
(***************************************************************************)
LEMMA StoreIs ==
    ASSUME TypeInv
    PROVE  Store \subseteq Entry /\ mem_ \subseteq Entry /\ imm_ \subseteq Entry
<1>1. Entries(writes) \subseteq Entry
  BY NumbersAre DEF TypeInv, HistoryType, Entries, Entry
<1>2. InTables(current_) \subseteq Entry
  BY ContentsAre DEF InTables, TypeInv, VersionType
<1> QED BY <1>1, <1>2 DEF Store, TypeInv, MemType

LEMMA TablesJust ==
    ASSUME TypeInv, TypeInv', NEW l, Just(Log(l))
    PROVE  /\ \A n \in Numbers : data'[TableFile(n)] = data[TableFile(n)]
           /\ \A T \in SUBSET Numbers : EntriesOf(T, data') = EntriesOf(T, data)
<1>1. PICK f : f = Log(l)
  OBVIOUS
<1>2. \A n : f # TableFile(n)
  BY <1>1, FilesApart
<1>3. \A n \in Numbers : data'[TableFile(n)] = data[TableFile(n)]
  BY <1>1, <1>2, FileIs DEF Just, Only
<1> QED BY <1>3, EntriesKept

LEMMA MemoryChanges ==
    ASSUME StoreInv, OrderInv, TypeInv', phase = "up", phase' = "up", faults' = faults,
           \A n \in Numbers : data'[TableFile(n)] = data[TableFile(n)],
           UNCHANGED <<current_, c, flush, apply>>, OrderDirs', UpTo(Store', last_sequence_'),
           Older(EntriesOf(current_, data), imm_' \cup mem_'), Older(imm_', mem_'),
           MayCrash => /\ Recorded' = Recorded /\ \A n \in Recorded : Before(n, mem_', data)
                       /\ has_imm_' => \A n \in Recorded :
                              \/ Before(n, imm_', data)
                              \/ Repeats(n, imm_', data) /\ NextLogThere'
                       /\ apply.owner = "flush" => NextLogThere'
    PROVE  OrderInv'
<1>1. TypeInv /\ UpOrder /\ RecordedOrder /\ (MayCrash' => MayCrash)
  BY DEF StoreInv, DiskInv, OrderInv, MayCrash
<1>2. /\ current_ \subseteq Numbers /\ (c # None => c.base \subseteq Numbers /\ c.output \in Numbers)
      /\ apply.edit.add \subseteq Numbers
  BY <1>1, CompactionIs DEF TypeInv, VersionType, BgType, ApplyType, EditsTo
<1>3. \A T \in SUBSET Numbers : EntriesOf(T, data') = EntriesOf(T, data)
  BY EntriesKept
<1>4. /\ \A n \in Numbers : TableEntries(n, data') = TableEntries(n, data)
      /\ \A n \in Numbers : OldIn(n, data') <=> OldIn(n, data)
  BY DEF TableEntries, OldIn
<1>5. /\ \A n \in Numbers : \A S : Before(n, S, data) => Before(n, S, data')
      /\ \A n \in Numbers : \A S : Repeats(n, S, data) => Repeats(n, S, data')
  BY <1>4 DEF Before, Repeats
<1>6. ASSUME NEW T \in SUBSET Numbers, T' = T, c # None, BaseIsOldest(T)
      PROVE  BaseIsOldest(T)'
  BY <1>2, <1>3, <1>4, <1>6, DeepIs DEF BaseIsOldest
<1>7. UpOrder'
  <2>1. InOrder(current_', data')
    BY <1>1, <1>2, InOrderKept DEF UpOrder
  <2>2. Older(EntriesOf(current_, data)', (imm_ \cup mem_)')
    BY <1>2, <1>3
  <2>3. c' # None => BaseIsOldest(current_)'
    BY <1>1, <1>2, <1>6 DEF UpOrder
  <2>4. flush' # 0 => \A n \in current_' : n < flush'
    BY <1>1 DEF UpOrder
  <2>5. apply'.owner = "flush" => ~IsDeep(flush)'
    <3>1. apply.owner = "flush" => flush \in Numbers
      BY <1>1, NumbersAre DEF TypeInv, PhaseType, BgType, Numbers
    <3> QED BY <1>1, <1>4, <3>1, DeepIs DEF UpOrder
  <2>6. apply'.owner = "compaction" => IsDeep(c.output)'
    <3>1. apply.owner = "compaction" => c # None
      BY <1>1 DEF TypeInv, PhaseType
    <3> QED BY <1>1, <1>2, <1>4, <3>1, DeepIs DEF UpOrder
  <2> QED BY <2>1, <2>2, <2>3, <2>4, <2>5, <2>6 DEF UpOrder
<1>8. ASSUME MayCrash
      PROVE  RecordedOrder'
  <2>1. Recorded \subseteq Numbers /\ Recorded' = Recorded
    BY <1>8, RecordedIs
  <2>2. \A n \in Recorded' : Before(n, mem_', data')
    BY <1>5, <1>8, <2>1
  <2>3. has_imm_' => \A n \in Recorded' :
            Before(n, imm_', data') \/ (Repeats(n, imm_', data') /\ NextLogThere')
    BY <1>5, <1>8, <2>1
  <2>4. c' # None /\ (apply'.owner = "compaction" => apply'.pc = "append") =>
            c'.base \subseteq Recorded' /\ BaseIsOldest(Recorded)'
    BY <1>1, <1>6, <1>8, <2>1 DEF RecordedOrder
  <2>5. flush' # 0 /\ apply'.pc \in {"none", "append"} => \A n \in Recorded' : n < flush'
    BY <1>1, <1>8, <2>1 DEF RecordedOrder
  <2>6. apply'.pc = "append" =>
            UpTo(EntriesOf(Recorded' \cup apply'.edit.add, data'), apply'.edit.last)
    BY <1>1, <1>2, <1>3, <1>8, <2>1 DEF RecordedOrder
  <2> QED BY <1>8, <2>2, <2>3, <2>4, <2>5, <2>6 DEF RecordedOrder
<1>9. RecordedOrder'
  BY <1>1, <1>8 DEF RecordedOrder
<1>10. OpenOrder'
  BY DEF OpenOrder
<1> QED BY <1>7, <1>9, <1>10 DEF OrderInv

\* The last log gets an entry that is newer than all others.
LEMMA LastLogGrows ==
    ASSUME NEW T, NEW L, NEW D, NEW E, NEW l, NEW e, LogsInOrder(T, L, D),
           \A n \in T : E[TableFile(n)] = D[TableFile(n)],
           \A a \in L : a # l => LogEntries(a, E) = LogEntries(a, D),
           LogEntries(l, E) \subseteq LogEntries(l, D) \cup {e},
           Older(EntriesOf(T, D), {e}), \A a \in L : Older(LogEntries(a, D), {e}),
           l \in Nat, \A a \in L : a \in Nat /\ a <= l
    PROVE  LogsInOrder(T, L, E)
<1>1. \A n \in T : TableEntries(n, E) = TableEntries(n, D) /\ OldIn(n, E) = OldIn(n, D)
  BY DEF TableEntries, OldIn
<1>2. ASSUME NEW a \in L, NEW n \in T
      PROVE  \/ Before(n, LogEntries(a, E), E)
             \/ Repeats(n, LogEntries(a, E), E) /\ \E m \in L : a < m
  <2>1. \/ Before(n, LogEntries(a, D), D)
        \/ Repeats(n, LogEntries(a, D), D) /\ \E m \in L : a < m
    BY DEF LogsInOrder
  <2>2. CASE a = l
    <3>1. Before(n, LogEntries(a, D), D)
      BY <2>1, <2>2
    <3>2. Older(TableEntries(n, D), {e})
      BY DEF EntriesOf, Older
    <3> QED BY <1>1, <2>2, <3>1, <3>2 DEF Before, Older
  <2>3. CASE a # l
    BY <1>1, <2>1, <2>3 DEF Before, Repeats
  <2> QED BY <2>2, <2>3
<1>3. ASSUME NEW a \in L, NEW m \in L, a < m
      PROVE  Older(LogEntries(a, E), LogEntries(m, E))
  <2>1. Older(LogEntries(a, D), LogEntries(m, D)) /\ a # l
    BY <1>3 DEF LogsInOrder
  <2>2. LogEntries(m, E) \subseteq LogEntries(m, D) \cup {e} /\ LogEntries(a, E) = LogEntries(a, D)
    BY <2>1
  <2> QED BY <2>1, <2>2 DEF Older
<1> QED BY <1>2, <1>3 DEF LogsInOrder

\* What a directory of an open database yields has been stored.
LEMMA YieldsStored ==
    ASSUME StoreInv, phase = "up", MayCrash, NEW d \in Dirs, d.current # 0,
           NEW k \in 1..Len(data[Manifest(d.current)]), synced[Manifest(d.current)] <= k,
           NEW R, R = data[Manifest(d.current)]
    PROVE  /\ EntriesOf(TablesAt(R, k), data) \subseteq Store
           /\ \A n \in LogsFrom(d, R[k].log) : LogEntries(n, data) \subseteq Store
           /\ TablesAt(R, k) \subseteq NamedIn(d, data) /\ TablesAt(R, k) \subseteq Numbers
           /\ LogsFrom(d, R[k].log) \subseteq LogsIn(d) /\ LogsIn(d) \subseteq Numbers
           /\ \A n \in LogsIn(d) : n <= logfile_number_
<1>1. Keeps(d, data, synced, Store, hard) /\ TypeInv /\ Runs
  BY DEF StoreInv, HeldInv, Promise, AllKeep, Held, DiskInv, Runs
<1>2. Most(k, d, data) \subseteq Store
  BY <1>1 DEF Keeps
<1>3. /\ DOMAIN R = 1..Len(R) /\ Len(R) \in Nat /\ k \in Nat
  BY <1>1, ManifestOf
<1>4. TablesAt(R, k) \subseteq NamedIn(d, data) /\ NamedIn(d, data) \subseteq Numbers
  <2>1. TablesAt(R, k) \subseteq NamedIn(d, data)
    BY <1>3, TablesNamed
  <2>2. NamedIn(d, data) \subseteq Numbers
    BY <1>1, NamedNumbers
  <2> QED BY <2>1, <2>2
<1>5. LogsFrom(d, R[k].log) \subseteq LogsIn(d) /\ LogsIn(d) \subseteq Numbers
  BY <1>1, DirsAre, LogsAre DEF LogsFrom, LogsIn
<1>6. \A n \in LogsIn(d) : n <= logfile_number_
  <2>1. logfile_number_ # 0
    BY <1>1 DEF TypeInv, PhaseType
  <2> QED BY <1>1, <2>1 DEF StoreInv, HeldInv, LogsBelow, LogBelow
<1> QED BY <1>2, <1>4, <1>5, <1>6 DEF Most

LEMMA OrderPut ==
    ASSUME StoreInv, OrderInv, TypeInv', NEW sync \in BOOLEAN, Put(sync)
    PROVE  OrderInv'
<1>1. PICK e : e = [seq |-> last_sequence_ + 1, id |-> writes + 1]
  OBVIOUS
<1>2. PICK l \in Numbers : l = logfile_number_ /\ Just(Log(l))
  BY PutIs
<1>3. /\ phase = "up" /\ phase' = "up" /\ mem_' = mem_ \cup {e} /\ (\A d \in Dirs' : d \in Dirs)
      /\ last_sequence_' = last_sequence_ + 1 /\ e.seq = last_sequence_ + 1
      /\ UNCHANGED <<imm_, has_imm_, logfile_number_, current_, c, flush, apply, faults>>
  BY <1>1 DEF Put, SyncFile, Dirs, openVars, versionVars, bgVars
<1>4. TypeInv /\ UpOrder /\ RecordedOrder /\ (MayCrash' <=> MayCrash) /\ DiskInv
  BY <1>3 DEF StoreInv, DiskInv, OrderInv, MayCrash
<1>5. Store \subseteq Entry /\ last_sequence_ \in Nat
  BY <1>4, StoreIs DEF TypeInv, MemType, HistoryType
<1>6. Older(Store, {e})
  <2>1. UpTo(Store, last_sequence_)
    BY <1>3, <1>4 DEF UpOrder
  <2>2. ASSUME NEW x \in Store
        PROVE  x.seq < e.seq
    BY <1>3, <1>5, <2>1, <2>2 DEF UpTo, Entry
  <2> QED BY <2>2 DEF Older
<1>7. /\ \A n \in Numbers : data'[TableFile(n)] = data[TableFile(n)]
      /\ \A T \in SUBSET Numbers : EntriesOf(T, data') = EntriesOf(T, data)
  BY <1>2, <1>4, TablesJust
<1>8. Store' = Store \cup {e} /\ EntriesOf(current_, data) \subseteq Store
  <2>1. InTables(current_)' = EntriesOf(current_', data')
    BY InTablesNext
  <2>2. current_ \subseteq Numbers
    BY <1>4 DEF TypeInv, VersionType
  <2> QED BY <1>3, <1>7, <2>1, <2>2, InTablesAre DEF Store
<1>9. ASSUME MayCrash
      PROVE  OrderDirs'
  <2>1. dir.current # 0 /\ dir \in Dirs /\ dir.current \in Numbers /\ UpMem
    BY <1>3, <1>4, <1>9, UpIs DEF StoreInv, HeldInv, UpLogs
  <2>2. LogEntries(l, data') \subseteq LogEntries(l, data) \cup {e}
    <3>1. InLog(logfile_number_)' \subseteq mem_'
      BY <1>3, <2>1, PutIs DEF UpMem
    <3> QED BY <1>2, <1>3, <2>1, <3>1, InTablesAre, InTablesNext DEF UpMem
  <2>3. ASSUME NEW d \in Dirs, d.current # 0, NEW k \in 1..Len(data[Manifest(d.current)]),
               synced[Manifest(d.current)] <= k
        PROVE  OrderedAt(k, d, data')
    <3>1. PICK R : R = data[Manifest(d.current)]
      OBVIOUS
    <3> DEFINE T == TablesAt(R, k)
               L == LogsFrom(d, R[k].log)
    <3>2. /\ EntriesOf(T, data) \subseteq Store /\ \A n \in L : LogEntries(n, data) \subseteq Store
          /\ T \subseteq Numbers /\ L \subseteq Numbers /\ \A n \in L : n <= l
      BY <1>2, <1>3, <1>9, <2>3, <3>1, YieldsStored
    <3>3. InOrder(T, data) /\ LogsInOrder(T, L, data) /\ UpTo(EntriesOf(T, data), R[k].last)
      BY <1>4, <1>9, <2>3, <3>1 DEF OrderInv, OrderDirs, AllOrdered, OrderedDir, OrderedAt
    <3>4. data'[Manifest(d.current)] = R
      BY <1>2, <1>4, <2>1, <2>3, <3>1, LogFramed
    <3> HIDE DEF T, L
    <3>5. InOrder(T, data') /\ EntriesOf(T, data') = EntriesOf(T, data)
      BY <1>7, <3>2, <3>3, InOrderKept
    <3>6. LogsInOrder(T, L, data')
      <4>1. \A a \in L : a # l => LogEntries(a, data') = LogEntries(a, data)
        BY <1>2, <1>4, <2>1, <3>2, LogFramed
      <4>2. Older(EntriesOf(T, data), {e}) /\ \A a \in L : Older(LogEntries(a, data), {e})
        BY <1>6, <3>2 DEF Older
      <4>3. l \in Nat /\ \A a \in L : a \in Nat /\ a <= l
        BY <3>2, NumbersAre
      <4> QED BY <1>7, <2>2, <3>2, <3>3, <4>1, <4>2, <4>3, LastLogGrows
    <3>7. OrderedAt(k, d, data') <=> /\ InOrder(T, data') /\ LogsInOrder(T, L, data')
                                     /\ UpTo(EntriesOf(T, data'), R[k].last)
      BY <3>4 DEF OrderedAt, T, L
    <3> QED BY <3>3, <3>5, <3>6, <3>7
  <2>4. \A d \in Dirs : d.current # 0 =>
            /\ data'[Manifest(d.current)] = data[Manifest(d.current)]
            /\ synced'[Manifest(d.current)] = synced[Manifest(d.current)]
    BY <1>2, <1>4, <2>1, LogFramed
  <2>5. \A d \in Dirs' : OrderedDir(d, data', synced')
    BY <1>3, <2>3, <2>4 DEF OrderedDir
  <2> QED BY <2>5 DEF OrderDirs, AllOrdered
<1>10. OrderDirs'
  BY <1>4, <1>9 DEF OrderDirs
<1>11. UpTo(Store', last_sequence_')
  <2>1. UpTo(Store, last_sequence_)
    BY <1>3, <1>4 DEF UpOrder
  <2>2. ASSUME NEW x \in Store
        PROVE  x.seq <= last_sequence_ + 1
    BY <1>5, <2>1, <2>2 DEF UpTo, Entry
  <2> QED BY <1>3, <1>5, <1>8, <2>2 DEF UpTo
<1>12. Older(EntriesOf(current_, data), imm_' \cup mem_') /\ Older(imm_', mem_')
  <2>1. Older(EntriesOf(current_, data), imm_ \cup mem_) /\ Older(imm_, mem_) /\ imm_ \subseteq Store
    BY <1>3, <1>4 DEF UpOrder, Store
  <2> QED BY <1>3, <1>6, <1>8, <2>1 DEF Older
<1>13. ASSUME MayCrash
       PROVE  /\ Recorded' = Recorded /\ \A n \in Recorded : Before(n, mem_', data)
              /\ NextLogThere => NextLogThere'
  <2>1. dir.current # 0 /\ dir \in Dirs /\ dir.current \in Numbers
    BY <1>3, <1>4, <1>13, UpIs
  <2>2. Here' = Here
    BY <1>2, <1>4, <2>1, LogFramed
  <2>3. Recorded' = Recorded /\ EntriesOf(Recorded, data) \subseteq Store
    BY <1>3, <1>13, <2>2, RecordedIs DEF Recorded
  <2>4. \A n \in Recorded : Before(n, mem_, data)
    BY <1>3, <1>4, <1>13 DEF RecordedOrder
  <2>5. \A n \in Recorded : Before(n, mem_', data)
    BY <1>3, <1>6, <2>3, <2>4 DEF Before, Older, EntriesOf
  <2>6. NextLogThere => NextLogThere'
    BY <1>3 DEF NextLogThere
  <2> QED BY <2>3, <2>5, <2>6
<1> QED BY <1>3, <1>4, <1>7, <1>10, <1>11, <1>12, <1>13, MemoryChanges DEF RecordedOrder

LEMMA OrderSwitchMemTable ==
    ASSUME StoreInv, OrderInv, TypeInv', SwitchMemTable
    PROVE  OrderInv'
<1>1. PICK n \in Numbers :
           /\ NewFileNumber(n) /\ ChangeDir(Create(Log(n))) /\ Written(Log(n), <<>>)
           /\ logfile_number_' = n
  BY DEF SwitchMemTable
<1>2. /\ phase = "up" /\ phase' = "up" /\ ~has_imm_ /\ imm_' = mem_ /\ mem_' = {}
      /\ UNCHANGED <<last_sequence_, current_, c, flush, apply, faults>>
  BY DEF SwitchMemTable, openVars, versionVars, bgVars, historyVars
<1>3. TypeInv /\ Runs /\ dir.current # 0 /\ dir \in Dirs /\ dir.current \in Numbers
  <2>1. TypeInv /\ Runs /\ dir.current # 0
    BY <1>2 DEF StoreInv, DiskInv, NoDir, Runs
  <2> QED BY <2>1, DirsAre, ManifestOf
<1>4. Just(Log(n)) /\ data'[Log(n)] = <<>> /\ n = next_file_number_
  BY <1>1, <1>3, LogCreated, NextNumber
<1>5. /\ \A m \in Numbers : data'[TableFile(m)] = data[TableFile(m)]
      /\ \A T \in SUBSET Numbers : EntriesOf(T, data') = EntriesOf(T, data)
  BY <1>3, <1>4, TablesJust
<1>6. UpOrder /\ RecordedOrder /\ (MayCrash' <=> MayCrash)
  BY <1>2 DEF OrderInv, MayCrash
<1>7. Store' = Store
  <2>1. imm_ = {}
    BY <1>2 DEF StoreInv, HeldInv, TablesMade
  <2>2. InTables(current_)' = EntriesOf(current_', data') /\ current_ \subseteq Numbers
    BY <1>3, InTablesNext DEF TypeInv, VersionType
  <2> QED BY <1>2, <1>5, <2>1, <2>2, InTablesAre DEF Store
<1>8. ASSUME MayCrash
      PROVE  OrderDirs'
  <2>1. PICK f : f = Log(n)
    OBVIOUS
  <2>2. NoLogOf(Dirs, f)
    <3>1. ASSUME NEW d \in Dirs, n \in LogsIn(d)
          PROVE  FALSE
      <4>1. n <= logfile_number_ /\ logfile_number_ < n
        BY <1>2, <1>3, <1>4, <1>8, <3>1
        DEF StoreInv, HeldInv, LogsBelow, LogBelow, TypeInv, PhaseType
      <4> QED BY <1>3, <4>1, NumbersAre DEF TypeInv, NumberType
    <3>2. \A m : f = Log(m) => m = n
      BY <2>1 DEF Log
    <3> QED BY <1>4, <2>1, <3>1, <3>2 DEF NoLogOf
  <2>3. \A d \in Dirs : f \notin Uses(d, data)
    BY <1>3, <2>1, NotUsed
  <2> QED BY <1>3, <1>4, <1>6, <2>1, <2>2, <2>3, OrderFramed DEF OrderInv
<1>9. OrderDirs'
  BY <1>6, <1>8 DEF OrderDirs
<1>10. UpTo(Store', last_sequence_')
  BY <1>2, <1>6, <1>7 DEF UpOrder
<1>11. Older(EntriesOf(current_, data), imm_' \cup mem_') /\ Older(imm_', mem_')
  BY <1>2, <1>6 DEF UpOrder, Older
<1>12. apply.owner # "flush"
  BY <1>2 DEF StoreInv, HeldInv, TablesMade
<1>13. ASSUME MayCrash
       PROVE  /\ Recorded' = Recorded /\ \A m \in Recorded : Before(m, mem_', data)
              /\ \A m \in Recorded : Before(m, imm_', data)
  <2>1. Here' = Here
    BY <1>3, <1>4, LogFramed
  <2> QED BY <1>2, <1>6, <1>13, <2>1 DEF Recorded, RecordedOrder, Before, Older
<1> QED BY <1>2, <1>5, <1>9, <1>10, <1>11, <1>12, <1>13, MemoryChanges

-----------------------------------------------------------------------------
(***************************************************************************)
(* LogAndApply appends, in an open database.                               *)
(***************************************************************************)
LEMMA UpOrderStays ==
    ASSUME TypeInv, UpOrder, phase = "up",
           \A n \in Numbers : data'[TableFile(n)] = data[TableFile(n)],
           UNCHANGED <<mem_, imm_, last_sequence_, current_>>,
           c' = c \/ c' = None, flush' = flush \/ flush' = 0,
           \/ apply'.owner = "open"
           \/ apply'.owner = apply.owner /\ UNCHANGED <<flush, c>>
    PROVE  UpOrder'
<1>1. current_ \subseteq Numbers /\ (c # None => c.base \subseteq Numbers /\ c.output \in Numbers)
  BY CompactionIs DEF TypeInv, VersionType
<1>2. \A T \in SUBSET Numbers : EntriesOf(T, data') = EntriesOf(T, data)
  BY EntriesKept
<1>3. /\ \A n \in Numbers : TableEntries(n, data') = TableEntries(n, data)
      /\ \A n \in Numbers : OldIn(n, data') <=> OldIn(n, data)
  BY DEF TableEntries, OldIn
<1>4. InOrder(current_', data')
  BY <1>1, InOrderKept DEF UpOrder
<1>5. Older(EntriesOf(current_, data)', (imm_ \cup mem_)') /\ Older(imm_', mem_')
  BY <1>1, <1>2 DEF UpOrder
<1>6. UpTo(Store', last_sequence_')
  <2>1. InTables(current_)' = EntriesOf(current_', data')
    BY InTablesNext
  <2>2. Store' = Store
    BY <1>1, <1>2, <2>1, InTablesAre DEF Store
  <2> QED BY <2>2 DEF UpOrder
<1>7. c' # None => BaseIsOldest(current_)'
  BY <1>1, <1>2, <1>3, DeepIs DEF UpOrder, BaseIsOldest
<1>8. flush' # 0 => \A n \in current_' : n < flush'
  BY DEF UpOrder
<1>9. apply'.owner = "flush" => ~IsDeep(flush)'
  <2>1. apply.owner = "flush" => flush \in Numbers
    BY NumbersAre DEF TypeInv, PhaseType, BgType, Numbers
  <2> QED BY <1>3, <2>1, DeepIs DEF UpOrder
<1>10. apply'.owner = "compaction" => IsDeep(c.output)'
  <2>1. apply.owner = "compaction" => c # None
    BY DEF TypeInv, PhaseType
  <2> QED BY <1>1, <1>3, <2>1, DeepIs DEF UpOrder
<1> QED BY <1>4, <1>5, <1>6, <1>7, <1>8, <1>9, <1>10 DEF UpOrder

\* The table of a flush comes after all others, but for those that repeat it.
LEMMA FlushedInOrder ==
    ASSUME NEW T \in SUBSET Numbers, NEW f \in Numbers, NEW D, InOrder(T, D), ~OldIn(f, D),
           NEW S, TableEntries(f, D) = S, \A n \in T : n < f,
           \A n \in T : Before(n, S, D) \/ Repeats(n, S, D)
    PROVE  InOrder(T \cup {f}, D)
<1>1. \A n \in T \cup {f} : n \in Nat /\ ~ n < n
  BY NumbersAre
<1>2. f \notin T
  BY <1>1
<1> SUFFICES ASSUME NEW n \in T \cup {f}, NEW m \in T \cup {f}
             PROVE  /\ OldIn(n, D) /\ ~OldIn(m, D) => Older(TableEntries(n, D), TableEntries(m, D))
                    /\ ~OldIn(n, D) /\ ~OldIn(m, D) /\ n < m =>
                           \/ Older(TableEntries(n, D), TableEntries(m, D))
                           \/ TableEntries(m, D) \subseteq TableEntries(n, D)
  BY Zenon DEF InOrder
<1>3. CASE n \in T /\ m \in T
  BY <1>3 DEF InOrder
<1>4. CASE n \in T /\ m = f
  BY <1>4 DEF Before, Repeats
<1>5. CASE n = f
  <2>1. ~ n < m
    BY <1>1, <1>5
  <2> QED BY <1>5, <2>1
<1> QED BY <1>3, <1>4, <1>5

\* The output of a compaction of the oldest tables takes their place.
LEMMA CompactedInOrder ==
    ASSUME NEW T, NEW B, NEW o, NEW D, InOrder(T, D), OldIn(o, D),
           TableEntries(o, D) = EntriesOf(B, D),
           \A n \in T \ B : ~OldIn(n, D) /\ Older(EntriesOf(B, D), TableEntries(n, D))
    PROVE  InOrder((T \ B) \cup {o}, D)
BY DEF InOrder

\* The tables that the edit leads to, and the logs that it leaves.
EditInOrder(U) ==
    /\ InOrder(U, data) /\ UpTo(EntriesOf(U, data), apply.edit.last)
    /\ \A n \in U : Before(n, mem_, data)
    /\ has_imm_ => \A n \in U :
           Before(n, imm_, data) \/ (Repeats(n, imm_, data) /\ NextLogThere)
    /\ apply.owner = "flush" /\ c # None => c.base \subseteq U /\ BaseIsOldest(U)

LEMMA EditOrdered ==
    ASSUME StoreInv, OrderInv, phase = "up", MayCrash, apply.pc = "append",
           NEW U, U = Applied(Recorded, apply.edit)
    PROVE  EditInOrder(U) /\ U \subseteq Recorded \cup apply.edit.add
<1>1. TypeInv /\ TablesMade /\ EditInv /\ UpOrder /\ RecordedOrder
  BY DEF StoreInv, HeldInv, DiskInv, OrderInv
<1>2. Recorded \subseteq Numbers /\ Recorded \subseteq NamedIn(dir, data)
  BY RecordedIs
<1>3. InOrder(Recorded, data)
  <2>1. dir \in Dirs /\ dir.current # 0 /\ Top \in Nat /\ Top > 0
        /\ synced[Manifest(dir.current)] <= Top
    BY UpIs DEF StoreInv
  <2>2. OrderedDir(dir, data, synced)
    BY <2>1 DEF OrderInv, OrderDirs, AllOrdered
  <2>3. OrderedAt(Top, dir, data)
    BY <2>1, <2>2 DEF OrderedDir, Top, Here
  <2> QED BY <2>3 DEF OrderedAt, Recorded, Top, Here
<1>4. /\ U \subseteq Recorded \cup apply.edit.add
      /\ UpTo(EntriesOf(U, data), apply.edit.last)
  <2>1. U \subseteq Recorded \cup apply.edit.add
    BY DEF Applied
  <2>2. EntriesOf(U, data) \subseteq EntriesOf(Recorded \cup apply.edit.add, data)
    BY <2>1, EntriesOfSubset
  <2>3. UpTo(EntriesOf(Recorded \cup apply.edit.add, data), apply.edit.last)
    BY <1>1 DEF RecordedOrder
  <2> QED BY <2>1, <2>2, <2>3 DEF UpTo
<1>5. /\ Older(EntriesOf(current_, data), imm_ \cup mem_) /\ Older(imm_, mem_)
      /\ c # None => c.base \subseteq current_
      /\ \A n \in Recorded : Before(n, mem_, data)
      /\ has_imm_ => \A n \in Recorded :
             Before(n, imm_, data) \/ (Repeats(n, imm_, data) /\ NextLogThere)
  BY <1>1 DEF UpOrder, RecordedOrder, TablesMade
<1>6. c # None => Older(EntriesOf(c.base, data), imm_ \cup mem_)
  <2>1. c # None => EntriesOf(c.base, data) \subseteq EntriesOf(current_, data)
    BY <1>5, EntriesOfSubset
  <2> QED BY <1>5, <2>1 DEF Older
<1>7. CASE apply.owner = "flush"
  <2>1. /\ has_imm_ /\ TableEntries(flush, data) = imm_
        /\ apply.edit.add = {flush} /\ apply.edit.del = {} /\ flush # 0
    BY <1>1, <1>7, InTablesAre DEF TablesMade, EditInv, TypeInv, PhaseType
  <2>2. U = Recorded \cup {flush} /\ flush \in Numbers
    BY <1>1, <2>1, NumbersAre DEF Applied, TypeInv, BgType, Numbers
  <2>3. ~OldIn(flush, data) /\ NextLogThere /\ \A n \in Recorded : n < flush
    BY <1>1, <1>7, <2>1, DeepIs DEF UpOrder, RecordedOrder
  <2>4. InOrder(U, data)
    BY <1>2, <1>3, <1>5, <2>1, <2>2, <2>3, FlushedInOrder
  <2>5. Before(flush, mem_, data) /\ Repeats(flush, imm_, data)
    BY <1>5, <2>1, <2>3 DEF Before, Repeats
  <2>6. c # None => c.base \subseteq U /\ BaseIsOldest(U)
    <3>1. c # None => c.base \subseteq Recorded /\ BaseIsOldest(Recorded)
      BY <1>1, <1>7 DEF RecordedOrder
    <3>2. c # None => ~IsDeep(flush) /\ Older(EntriesOf(c.base, data), TableEntries(flush, data))
      BY <1>6, <2>1, <2>3, DeepIs DEF Older
    <3> QED BY <2>2, <3>1, <3>2 DEF BaseIsOldest
  <2> QED BY <1>4, <1>5, <2>2, <2>3, <2>4, <2>5, <2>6 DEF EditInOrder
<1>8. CASE apply.owner = "compaction"
  <2>1. /\ c # None /\ TableEntries(c.output, data) = EntriesOf(c.base, data)
        /\ apply.edit.add = {c.output} /\ apply.edit.del = c.base
    BY <1>1, <1>8, InTablesAre DEF TablesMade, EditInv, TypeInv, PhaseType
  <2>2. U = (Recorded \ c.base) \cup {c.output}
    BY <2>1 DEF Applied
  <2>3. OldIn(c.output, data) /\ c.base \subseteq Recorded /\ BaseIsOldest(Recorded)
    BY <1>1, <1>8, <2>1, DeepIs DEF UpOrder, RecordedOrder
  <2>4. \A n \in Recorded \ c.base : ~OldIn(n, data)
                                     /\ Older(EntriesOf(c.base, data), TableEntries(n, data))
    BY <2>3, DeepIs DEF BaseIsOldest
  <2>5. InOrder(U, data)
    BY <1>3, <2>1, <2>2, <2>3, <2>4, CompactedInOrder
  <2>6. Before(c.output, mem_, data) /\ Before(c.output, imm_, data)
    BY <1>6, <2>1 DEF Before, Older
  <2> QED BY <1>4, <1>5, <1>8, <2>2, <2>5, <2>6 DEF EditInOrder
<1> QED BY <1>1, <1>7, <1>8 DEF TypeInv, PhaseType, BgType, ApplyType

\* What opening a directory finds if LogAndApply has appended its edit.
LEMMA EditLogs ==
    ASSUME StoreInv, OrderInv, phase = "up", MayCrash, apply.pc = "append",
           NEW U, U = Applied(Recorded, apply.edit), EditInOrder(U),
           NEW d \in Dirs, d.current = manifest_file_number_
    PROVE  LogsInOrder(U, LogsFrom(d, apply.edit.log), data)
<1>1. TypeInv /\ UpMem /\ UpDir(d) /\ Older(imm_, mem_)
  BY DEF StoreInv, HeldInv, DiskInv, UpLogs, OrderInv, UpOrder
<1>2. PICK l : l = apply.edit.log
  OBVIOUS
<1>3. /\ log_number_ \in Numbers /\ logfile_number_ \in Numbers /\ log_number_ <= logfile_number_
      /\ \/ l = log_number_
         \/ l = logfile_number_
  BY <1>2, UpEdit
<1>4. LogsIn(d) \subseteq Numbers /\ log_number_ \in Nat /\ logfile_number_ \in Nat
  BY <1>1, <1>3, DirsAre, LogsAre, NumbersAre
<1>5. LogsFrom(d, l) \subseteq LogsFrom(d, log_number_)
  <2>1. ASSUME NEW n \in LogsIn(d), n >= l
        PROVE  n >= log_number_
    <3>1. n \in Nat
      BY <1>4, NumbersAre
    <3> QED BY <1>3, <1>4, <2>1, <3>1
  <2> QED BY <2>1 DEF LogsFrom, LogsIn
<1>6. LogsFrom(d, l) \subseteq {log_number_, logfile_number_}
  BY <1>1, <1>5 DEF UpDir
<1>7. LogEntries(logfile_number_, data) = mem_
  BY <1>1, InTablesAre DEF UpMem
<1>8. \/ log_number_ = logfile_number_
      \/ log_number_ < logfile_number_ /\ has_imm_ /\ LogEntries(log_number_, data) = imm_
  BY <1>1, InTablesAre DEF UpMem
<1>9. ASSUME NEW a \in LogsFrom(d, l), NEW n \in U
      PROVE  \/ Before(n, LogEntries(a, data), data)
             \/ Repeats(n, LogEntries(a, data), data) /\ \E m \in LogsFrom(d, l) : a < m
  <2>1. CASE a = logfile_number_
    BY <1>7, <2>1 DEF EditInOrder
  <2>2. CASE a = log_number_ /\ log_number_ < logfile_number_ /\ has_imm_
             /\ LogEntries(log_number_, data) = imm_
    <3>1. Before(n, imm_, data) \/ (Repeats(n, imm_, data) /\ NextLogThere)
      BY <2>2 DEF EditInOrder
    <3>2. l = log_number_
      BY <1>3, <1>4, <2>2 DEF LogsFrom
    <3>3. NextLogThere => logfile_number_ \in LogsFrom(d, l)
      BY <1>3, <1>4, <3>2 DEF NextLogThere, LogsFrom, LogsIn
    <3> QED BY <2>2, <3>1, <3>3
  <2> QED BY <1>6, <1>8, <2>1, <2>2
<1>10. ASSUME NEW a \in LogsFrom(d, l), NEW b \in LogsFrom(d, l), a < b
       PROVE  Older(LogEntries(a, data), LogEntries(b, data))
  <2>1. a = log_number_ /\ b = logfile_number_ /\ log_number_ # logfile_number_
    BY <1>3, <1>4, <1>6, <1>10
  <2> QED BY <1>1, <1>7, <1>8, <2>1
<1> QED BY <1>2, <1>9, <1>10 DEF LogsInOrder

LEMMA AppendOrdered ==
    ASSUME StoreInv, OrderInv, phase = "up", MayCrash, apply.pc = "append", AppendsEdit
    PROVE  AllOrdered(Dirs', data', synced')
<1>1. /\ Len(Here') = Top + 1 /\ Here'[Top + 1] = apply.edit
      /\ \A i \in 1..Top : Here'[i] = Here[i]
      /\ TablesAt(Here', Top + 1) = Applied(TablesAt(Here, Top), apply.edit)
      /\ Dirs' = Dirs /\ dir' = dir /\ synced' = synced
      /\ \A n \in Numbers : n # manifest_file_number_ => data'[Manifest(n)] = data[Manifest(n)]
      /\ \A n \in Numbers : data'[TableFile(n)] = data[TableFile(n)]
      /\ \A n \in Numbers : data'[Log(n)] = data[Log(n)]
      /\ \A n \in Numbers : LogEntries(n, data') = LogEntries(n, data)
  BY AppendIs
<1>2. /\ TypeInv /\ dir.current = manifest_file_number_ /\ dir.current \in Numbers
      /\ dir.current # 0 /\ Top \in Nat /\ DOMAIN Here = 1..Top
  BY UpIs DEF StoreInv, DiskInv
<1>3. ASSUME NEW d \in Dirs, d.current # 0
      PROVE  /\ OrderedDir(d, data, synced) /\ d.current \in Numbers
             /\ NamedIn(d, data) \subseteq Numbers /\ LogsIn(d) \subseteq Numbers
  <2>1. d.current \in Numbers /\ NamedIn(d, data) \subseteq Numbers
    BY <1>2, <1>3, ManifestOf, NamedNumbers
  <2>2. LogsIn(d) \subseteq Numbers
    BY <1>2, DirsAre, LogsAre
  <2> QED BY <2>1, <2>2 DEF OrderInv, OrderDirs, AllOrdered
<1>4. ASSUME NEW d \in Dirs, d.current # 0, d.current # manifest_file_number_
      PROVE  OrderedDir(d, data', synced')
  <2>1. /\ data'[Manifest(d.current)] = data[Manifest(d.current)]
        /\ synced[Manifest(d.current)] \in Nat
        /\ Len(data[Manifest(d.current)]) \in Nat
        /\ DOMAIN data[Manifest(d.current)] = 1..Len(data[Manifest(d.current)])
    BY <1>1, <1>2, <1>3, <1>4, ManifestOf
  <2>2. \A n \in NamedIn(d, data) : data'[TableFile(n)] = data[TableFile(n)]
    BY <1>1, <1>3, <1>4
  <2>3. \A n \in LogsIn(d) : LogEntries(n, data') = LogEntries(n, data)
    BY <1>1, <1>3, <1>4
  <2> QED BY <1>1, <1>3, <1>4, <2>1, <2>2, <2>3, OrderedOn
<1>5. ASSUME NEW d \in Dirs, d.current = manifest_file_number_,
             NEW k \in 1..Top + 1, synced[Manifest(d.current)] <= k
      PROVE  OrderedAt(k, d, data')
  <2>1. PICK R : R = Here
    OBVIOUS
  <2>2. PICK Q : Q = Here'
    OBVIOUS
  <2>3. data[Manifest(d.current)] = R /\ data'[Manifest(d.current)] = Q
    BY <1>1, <1>2, <1>5, <2>1, <2>2 DEF Here
  <2>4. CASE k \in 1..Top
    <3>1. OrderedAt(k, d, data)
      BY <1>2, <1>3, <1>5, <2>1, <2>3, <2>4 DEF OrderedDir, Top
    <3>2. k \in Nat /\ k > 0 /\ \A i \in 1..k : Q[i] = R[i]
      BY <1>1, <1>2, <2>1, <2>2, <2>4
    <3>3. TablesAt(R, k) \subseteq NamedIn(d, data)
      BY <1>2, <1>5, <2>1, <2>3, <2>4, TablesNamed DEF Top
    <3>4. TablesAt(R, k) \subseteq Numbers
      BY <1>2, <1>3, <1>5, <3>3
    <3>5. \A n \in TablesAt(R, k) : data'[TableFile(n)] = data[TableFile(n)]
      BY <1>1, <3>4
    <3>6. \A n \in LogsFrom(d, R[k].log) : LogEntries(n, data') = LogEntries(n, data)
      BY <1>1, <1>2, <1>3, <1>5 DEF LogsFrom, LogsIn
    <3> QED BY <2>3, <3>1, <3>2, <3>5, <3>6, OrderedAtKept
  <2>5. CASE k = Top + 1
    <3>1. PICK U : U = Applied(Recorded, apply.edit)
      OBVIOUS
    <3>2. EditInOrder(U) /\ U \subseteq Recorded \cup apply.edit.add
      BY <3>1, EditOrdered
    <3>3. PICK L : L = LogsFrom(d, apply.edit.log)
      OBVIOUS
    <3>4. LogsInOrder(U, L, data)
      BY <1>5, <3>1, <3>2, <3>3, EditLogs
    <3>5. U \subseteq Numbers
      <4>1. Recorded \subseteq Numbers
        BY RecordedIs
      <4> QED BY <1>2, <3>2, <4>1 DEF TypeInv, BgType, ApplyType, EditsTo
    <3>6. TablesAt(Q, k) = U /\ Q[k] = apply.edit
      BY <1>1, <2>2, <2>5, <3>1 DEF Recorded, Top
    <3>7. InOrder(U, data') /\ EntriesOf(U, data') = EntriesOf(U, data)
      BY <1>1, <3>2, <3>5, InOrderKept, EntriesKept DEF EditInOrder
    <3>8. LogsInOrder(U, L, data')
      <4>1. \A n \in L : LogEntries(n, data') = LogEntries(n, data)
        BY <1>1, <1>2, <1>3, <1>5, <3>3 DEF LogsFrom, LogsIn
      <4>2. \A n \in U : data'[TableFile(n)] = data[TableFile(n)]
        BY <1>1, <3>5
      <4> QED BY <3>4, <4>1, <4>2, LogsInOrderKept
    <3> QED BY <2>3, <3>2, <3>3, <3>6, <3>7, <3>8 DEF OrderedAt, EditInOrder
  <2> QED BY <1>2, <1>5, <2>4, <2>5
<1>6. ASSUME NEW d \in Dirs, d.current = manifest_file_number_
      PROVE  OrderedDir(d, data', synced')
  <2>1. data'[Manifest(d.current)] = Here' /\ synced'[Manifest(d.current)] = synced[Manifest(d.current)]
    BY <1>1, <1>2, <1>6 DEF Here
  <2>2. Len(data'[Manifest(d.current)]) = Top + 1
    BY <1>1, <2>1
  <2> QED BY <1>5, <1>6, <2>1, <2>2 DEF OrderedDir
<1>7. ASSUME NEW d \in Dirs, d.current = 0
      PROVE  OrderedDir(d, data', synced')
  BY <1>7 DEF OrderedDir
<1> QED BY <1>1, <1>4, <1>6, <1>7 DEF AllOrdered

\* LogAndApply goes on to sync the record, or has failed.
AppendEnds ==
    /\ phase' = "up" /\ UNCHANGED <<mem_, imm_, has_imm_, logfile_number_, last_sequence_, current_>>
    /\ \/ apply'.pc = "sync" /\ apply'.owner = apply.owner /\ UNCHANGED <<flush, c>>
       \/ /\ apply'.pc = "none" /\ apply'.owner = "open" /\ flush' = 0
          /\ c' = IF apply.owner = "compaction" THEN None ELSE c

LEMMA OrderAppended ==
    ASSUME StoreInv, OrderInv, phase = "up", MayCrash, apply.pc = "append", AppendsEdit, AppendEnds
    PROVE  OrderInv'
<1>1. TypeInv /\ OrderDirs' /\ OpenOrder'
  BY AppendOrdered DEF StoreInv, DiskInv, OrderDirs, OpenOrder, AppendEnds
<1>2. /\ Len(Here') = Top + 1 /\ TablesAt(Here', Top + 1) = Applied(TablesAt(Here, Top), apply.edit)
      /\ Dirs' = Dirs /\ \A n \in Numbers : data'[TableFile(n)] = data[TableFile(n)]
  BY AppendIs
<1>3. PICK U : U = Applied(Recorded, apply.edit)
  OBVIOUS
<1>4. EditInOrder(U) /\ U \subseteq Recorded \cup apply.edit.add /\ Recorded' = U
  BY <1>2, <1>3, EditOrdered DEF Recorded, Top
<1>5. U \subseteq Numbers
  <2>1. Recorded \subseteq Numbers
    BY RecordedIs
  <2> QED BY <1>1, <1>4, <2>1 DEF TypeInv, BgType, ApplyType, EditsTo
<1>6. UpOrder'
  <2>1. c' = c \/ c' = None
    BY DEF AppendEnds
  <2>2. apply'.owner = "open" \/ (apply'.owner = apply.owner /\ UNCHANGED <<flush, c>>)
    BY DEF AppendEnds
  <2> QED BY <1>1, <1>2, <2>1, <2>2, UpOrderStays DEF OrderInv, AppendEnds
<1>7. RecordedOrder'
  <2>1. \A n \in U : data'[TableFile(n)] = data[TableFile(n)]
    BY <1>2, <1>5
  <2>2. /\ \A n \in U : \A S : Before(n, S, data) => Before(n, S, data')
        /\ \A n \in U : \A S : Repeats(n, S, data) => Repeats(n, S, data')
    BY <2>1, OrderOfSame
  <2>3. NextLogThere' = NextLogThere
    BY <1>2 DEF NextLogThere, AppendEnds
  <2>4. c' # None /\ (apply'.owner = "compaction" => apply'.pc = "append") =>
            c'.base \subseteq Recorded' /\ BaseIsOldest(Recorded)'
    <3> SUFFICES ASSUME c' # None, apply'.owner = "compaction" => apply'.pc = "append"
                 PROVE  c'.base \subseteq Recorded' /\ BaseIsOldest(Recorded)'
      OBVIOUS
    <3>1. c' = c /\ apply.owner = "flush"
      BY <1>1 DEF AppendEnds, TypeInv, PhaseType, BgType, ApplyType
    <3>2. c.base \subseteq U /\ BaseIsOldest(U)
      BY <1>4, <3>1 DEF EditInOrder
    <3>3. EntriesOf(c.base, data') = EntriesOf(c.base, data)
      BY <2>1, <3>2, EntriesKept
    <3>4. \A n \in U : TableEntries(n, data') = TableEntries(n, data)
                       /\ (OldIn(n, data') <=> OldIn(n, data))
      BY <2>1, OrderOfSame
    <3> QED BY <1>4, <3>1, <3>2, <3>3, <3>4, DeepIs DEF BaseIsOldest
  <2>5. \A n \in Recorded' : Before(n, mem_', data')
    BY <1>4, <2>2 DEF EditInOrder, AppendEnds
  <2>6. has_imm_' => \A n \in Recorded' :
            Before(n, imm_', data') \/ (Repeats(n, imm_', data') /\ NextLogThere')
    BY <1>4, <2>2, <2>3 DEF EditInOrder, AppendEnds
  <2>7. ~(flush' # 0 /\ apply'.pc \in {"none", "append"}) /\ apply'.pc # "append"
    BY DEF AppendEnds
  <2>8. apply'.owner = "flush" => NextLogThere'
    <3>1. apply.owner = "flush" => NextLogThere
      BY DEF OrderInv, RecordedOrder
    <3> QED BY <2>3, <3>1 DEF AppendEnds
  <2> QED BY <2>4, <2>5, <2>6, <2>7, <2>8 DEF RecordedOrder
<1> QED BY <1>1, <1>6, <1>7 DEF OrderInv

\* No record is appended, or none that anything is asked of.
LEMMA OrderNotAppended ==
    ASSUME StoreInv, OrderInv, TypeInv', phase = "up", AppendEnds, faults <= faults',
           \A n \in Numbers : data'[TableFile(n)] = data[TableFile(n)],
           MayCrash' => UNCHANGED diskVars /\ apply'.pc = "none"
    PROVE  OrderInv'
<1>1. TypeInv /\ OpenOrder' /\ (MayCrash' => MayCrash)
  <2> QED BY MayCrashBefore DEF StoreInv, DiskInv, OpenOrder, AppendEnds
<1>2. UpOrder'
  <2>1. c' = c \/ c' = None
    BY DEF AppendEnds
  <2>2. apply'.owner = "open" \/ (apply'.owner = apply.owner /\ UNCHANGED <<flush, c>>)
    BY DEF AppendEnds
  <2> QED BY <1>1, <2>1, <2>2, UpOrderStays DEF OrderInv, AppendEnds
<1>3. ASSUME MayCrash'
      PROVE  OrderDirs' /\ RecordedOrder'
  <2>1. /\ MayCrash /\ dir' = dir /\ data' = data /\ synced' = synced /\ Dirs' = Dirs
        /\ Recorded' = Recorded
    BY <1>1, <1>3 DEF diskVars, Dirs, Recorded, Here
  <2>2. NextLogThere' = NextLogThere
    BY <2>1 DEF NextLogThere, AppendEnds
  <2>3. OrderDirs'
    BY <1>3, <2>1 DEF OrderInv, OrderDirs
  <2>4. RecordedOrder
    BY DEF OrderInv
  <2>5. apply'.pc = "none" /\ apply'.owner = "open" /\ flush' = 0
        /\ c' = IF apply.owner = "compaction" THEN None ELSE c
    BY <1>3 DEF AppendEnds
  <2>6. c' # None => c'.base \subseteq Recorded' /\ BaseIsOldest(Recorded)'
    <3>1. c' # None => c' = c /\ c.base \subseteq Recorded /\ BaseIsOldest(Recorded)
      BY <2>1, <2>4, <2>5 DEF RecordedOrder
    <3> QED BY <2>1, <3>1, DeepIs DEF BaseIsOldest
  <2> QED BY <2>1, <2>2, <2>3, <2>4, <2>5, <2>6 DEF RecordedOrder, AppendEnds
<1>4. OrderDirs' /\ RecordedOrder'
  BY <1>3 DEF OrderDirs, RecordedOrder
<1> QED BY <1>1, <1>2, <1>4 DEF OrderInv

LEMMA OrderAppendUp ==
    ASSUME StoreInv, OrderInv, TypeInv', ApplyAppend, phase = "up"
    PROVE  OrderInv'
<1>1. /\ apply.pc = "append" /\ apply'.pc = "sync" /\ SameEdit
      /\ UNCHANGED <<numberVars, memVars, openVars, versionVars, flush, c, bg_error_,
                   historyVars>>
      /\ manifest_file_number_ \in Numbers
  BY AppendGoesOn DEF StoreInv
<1>2. AppendEnds /\ MayCrash' = MayCrash /\ faults' = faults
  BY <1>1 DEF AppendEnds, SameEdit, memVars, openVars, versionVars, historyVars, MayCrash
<1>3. CASE MayCrash
  <2>1. has_descriptor_
    BY <1>3, UpIs DEF StoreInv
  <2>2. AppendsEdit
    BY <2>1 DEF ApplyAppend, AppendEdit, AppendsEdit
  <2> QED BY <1>1, <1>2, <1>3, <2>2, OrderAppended
<1>4. CASE ~MayCrash
  <2>1. Just(Manifest(manifest_file_number_))
    BY AppendJust DEF StoreInv
  <2>2. \A n \in Numbers : data'[TableFile(n)] = data[TableFile(n)]
    <3>1. \A n : Manifest(manifest_file_number_) # TableFile(n)
      BY FilesApart
    <3> QED BY <2>1, <3>1, FileIs DEF Just, Only
  <2>3. faults <= faults'
    BY <1>2, NumbersAre DEF StoreInv, DiskInv, TypeInv, HistoryType
  <2> QED BY <1>2, <1>4, <2>2, <2>3, OrderNotAppended
<1> QED BY <1>3, <1>4

LEMMA OrderApplyFailsBackground ==
    ASSUME StoreInv, OrderInv, TypeInv', ApplyFailsBackground
    PROVE  OrderInv'
<1>1. /\ apply.owner # "open" /\ apply.pc \in {"append", "sync", "current"}
      /\ faults < MaxFaults /\ faults' = faults + 1
      /\ RecordOfFailedApply /\ UNCHANGED <<dir, older>>
      /\ apply' = NoApply /\ flush' = 0
      /\ c' = IF apply.owner = "compaction" THEN None ELSE c
      /\ UNCHANGED <<numberVars, memVars, openVars, current_>>
  BY DEF ApplyFailsBackground, ApplyError, Fault
<1>2. /\ phase = "up" /\ MayCrash /\ TypeInv
  BY <1>1 DEF StoreInv, DiskInv, TypeInv, PhaseType, MayCrash
<1>3. AppendEnds /\ apply'.pc = "none"
  BY <1>1, <1>2 DEF AppendEnds, NoApply, memVars, openVars
<1>4. /\ has_descriptor_ /\ dir.current = manifest_file_number_ /\ dir.current \in Numbers
  BY <1>2, UpIs DEF StoreInv
<1>5. PICK M : M = Manifest(manifest_file_number_)
  OBVIOUS
<1>6. M \in Files
  BY <1>4, <1>5, FileIs
<1>7. (apply.pc = "append" /\ AppendsEdit) \/ UNCHANGED diskVars
  <2>1. CASE apply.pc = "append"
    <3>1. PICK found \in {<<>>, <<apply.edit>>} : AppendEdit(found)
      BY <1>1, <1>4, <2>1 DEF RecordOfFailedApply
    <3>3. data' = [data EXCEPT ![M] = @ \o found] /\ UNCHANGED <<dir, older, synced>>
      BY <1>4, <1>5, <3>1 DEF AppendEdit
    <3>4. CASE found = <<>>
      <4>2. data[M] \o <<>> = data[M]
        BY <1>6, ConcatEmptySeq DEF StoreInv, DiskInv, TypeInv, DiskType, FilesOK
      <4>3. data = [g \in Files |-> data[g]]
        BY DEF StoreInv, DiskInv, TypeInv, DiskType, FilesOK
      <4>4. data' = [data EXCEPT ![M] = data[M]]
        BY <3>3, <3>4, <4>2
      <4>5. data' = data
        BY <1>6, <4>3, <4>4
      <4> QED BY <3>3, <4>5 DEF diskVars
    <3>5. CASE found = <<apply.edit>>
      BY <1>5, <2>1, <3>3, <3>5 DEF AppendsEdit
    <3> QED BY <3>1, <3>4, <3>5
  <2>2. CASE apply.pc # "append"
    BY <1>1, <2>2 DEF RecordOfFailedApply, diskVars
  <2> QED BY <2>1, <2>2
<1>8. CASE apply.pc = "append" /\ AppendsEdit
  BY <1>2, <1>3, <1>8, OrderAppended
<1>9. CASE UNCHANGED diskVars
  <2>1. faults <= faults'
    BY <1>1, <1>2, NumbersAre DEF TypeInv, HistoryType
  <2> QED BY <1>2, <1>3, <1>9, <2>1, OrderNotAppended DEF diskVars
<1> QED BY <1>7, <1>8, <1>9

\* What directories yield stays as it is if more of it is synced.
LEMMA OrderApplySync ==
    ASSUME StoreInv, OrderInv, TypeInv', ApplySync
    PROVE  OrderInv'
<1>1. /\ apply.pc = "sync" /\ dir' = dir /\ data' = data
      /\ apply' = [apply EXCEPT !.pc = NextAfterSync] /\ NextAfterSync \in {"install", "current"}
      /\ UNCHANGED <<numberVars, memVars, openVars, versionVars, flush, c, bg_error_,
                     historyVars>>
  BY DEF ApplySync, NextAfterSync
<1>2. /\ apply'.pc = NextAfterSync /\ apply'.owner = apply.owner /\ apply'.edit = apply.edit
      /\ TypeInv /\ dir \in Dirs
  BY <1>1, ApplyGoesOn, DirsAre DEF StoreInv, DiskInv, historyVars
<1>3. PICK M : M = Manifest(manifest_file_number_)
  OBVIOUS
<1>4. synced' = [synced EXCEPT ![M] = Len(data[M])] /\ Dirs' = {dir}
  BY <1>1, <1>3 DEF ApplySync, SyncFile, Dirs
<1>5. MayCrash' = MayCrash /\ phase' = phase
  BY <1>1 DEF MayCrash, openVars, historyVars
<1>6. UNCHANGED <<mem_, imm_, has_imm_, last_sequence_, logfile_number_, current_, todo>>
  BY <1>1 DEF memVars, versionVars, openVars
<1>7. OrderDirs'
  <2> SUFFICES ASSUME MayCrash, dir.current # 0, NEW k \in 1..Len(data[Manifest(dir.current)]),
                      synced'[Manifest(dir.current)] <= k
               PROVE  OrderedAt(k, dir, data)
    BY <1>1, <1>4, <1>5 DEF OrderDirs, AllOrdered, OrderedDir
  <2>1. PICK g : g = Manifest(dir.current)
    OBVIOUS
  <2>2. /\ g \in Files /\ synced[g] \in Nat /\ synced[g] <= Len(data[g]) /\ Len(data[g]) \in Nat
    BY <1>2, <2>1, ManifestOf
  <2>3. synced'[g] = synced[g] \/ synced'[g] = Len(data[g])
    <3>1. synced = [h \in Files |-> synced[h]]
      BY <1>2 DEF TypeInv, DiskType, FilesOK
    <3> QED BY <1>4, <2>2, <3>1
  <2>4. synced[g] <= k
    BY <2>1, <2>2, <2>3
  <2>5. OrderedDir(dir, data, synced)
    BY <1>2 DEF OrderInv, OrderDirs, AllOrdered
  <2> QED BY <2>1, <2>4, <2>5 DEF OrderedDir
<1>8. OpenOrder'
  BY <1>1, <1>2, <1>5, <1>6 DEF OrderInv, OpenOrder, OpenTables
<1>9. UpOrder'
  BY <1>1, <1>2, <1>5, <1>6, UpOrderStays DEF OrderInv, UpOrder
<1>10. RecordedOrder'
  <2>1. Recorded' = Recorded
    BY <1>1 DEF Recorded, Here
  <2>2. NextLogThere => NextLogThere'
    BY <1>2, <1>4, <1>6 DEF NextLogThere
  <2>3. RecordedOrder
    BY DEF OrderInv
  <2>4. BaseIsOldest(Recorded)' = BaseIsOldest(Recorded)
    BY <1>1, <2>1 DEF BaseIsOldest, IsDeep
  <2>5. apply'.pc \notin {"none", "append"} /\ apply'.pc # "append"
    BY <1>1, <1>2
  <2> QED BY <1>1, <1>2, <1>5, <1>6, <2>1, <2>2, <2>3, <2>4, <2>5 DEF RecordedOrder
<1> QED BY <1>7, <1>8, <1>9, <1>10 DEF OrderInv

-----------------------------------------------------------------------------
(***************************************************************************)
(* LogAndApply of DB::Open.                                                *)
(***************************************************************************)
LEMMA OpenOrderStays ==
    ASSUME OpenOrder, phase = "open", OpenTables' = OpenTables,
           \A n \in OpenTables : data'[TableFile(n)] = data[TableFile(n)],
           \A n \in todo : LogEntries(n, data') = LogEntries(n, data),
           UNCHANGED <<mem_, todo, last_sequence_>>,
           apply'.pc # "none" => apply'.edit.last = last_sequence_
    PROVE  OpenOrder'
<1>1. PICK T : T = OpenTables
  OBVIOUS
<1>2. InOrder(T, data') /\ EntriesOf(T, data') = EntriesOf(T, data)
  BY <1>1, InOrderKept, EntriesKept DEF OpenOrder
<1>3. LogsInOrder(T, todo, data')
  BY <1>1, LogsInOrderKept DEF OpenOrder
<1>4. OpenTables' = T
  BY <1>1
<1> QED BY <1>1, <1>2, <1>3, <1>4 DEF OpenOrder

\* The order of an open database is of no account.
LEMMA NotUp ==
    ASSUME phase' # "up", OrderDirs', OpenOrder'
    PROVE  OrderInv'
BY DEF OrderInv, UpOrder, RecordedOrder

\* DB::Open touches a file that is no table of its own, and no log.
LEMMA OrderOpenFramed ==
    ASSUME StoreInv, OrderInv, TypeInv', phase = "open", phase' = "open", faults' = faults,
           NEW f, Just(f), \A n \in OpenTables : f # TableFile(n), NoLogOf({dir}, f),
           MayCrash => NoLogOf(Dirs, f) /\ \A d \in Dirs : f \notin Uses(d, data),
           OpenTables' = OpenTables, UNCHANGED <<mem_, todo, last_sequence_>>,
           apply'.pc # "none" => apply'.edit.last = last_sequence_
    PROVE  OrderInv'
<1>1. TypeInv /\ dir \in Dirs /\ dir.current # 0 /\ OpenTables \subseteq Numbers
      /\ LogsIn(dir) \subseteq Numbers
  BY OpenIs DEF OpenTables
<1>2. MayCrash' = MayCrash
  BY DEF MayCrash
<1>3. OrderDirs'
  <2>1. CASE MayCrash
    BY <1>1, <1>2, <2>1, OrderFramed DEF OrderInv
  <2>2. CASE ~MayCrash
    BY <1>2, <2>2 DEF OrderDirs
  <2> QED BY <2>1, <2>2
<1>4. \A n \in OpenTables : data'[TableFile(n)] = data[TableFile(n)]
  BY <1>1, FileIs DEF Just, Only
<1>5. \A n \in todo : LogEntries(n, data') = LogEntries(n, data)
  <2>1. todo \subseteq LogsIn(dir)
    BY DEF StoreInv, HeldInv, OpenFinds
  <2>2. \A n \in todo : f # Log(n)
    BY <2>1 DEF NoLogOf
  <2> QED BY <1>1, <2>1, <2>2, FilesJust
<1>6. OpenOrder'
  BY <1>4, <1>5, OpenOrderStays DEF OrderInv
<1> QED BY <1>3, <1>6, NotUp

LEMMA OrderAppendOpen ==
    ASSUME StoreInv, OrderInv, TypeInv', ApplyAppend, phase = "open"
    PROVE  OrderInv'
<1>1. /\ apply.pc = "append" /\ apply'.edit = apply.edit
      /\ UNCHANGED <<numberVars, memVars, openVars, versionVars, flush, c, bg_error_,
                   historyVars>>
  BY AppendGoesOn DEF StoreInv, SameEdit
<1>2. PICK f : f = Manifest(manifest_file_number_)
  OBVIOUS
<1>3. /\ TypeInv /\ Runs /\ manifest_file_number_ \in Numbers /\ OpenTables \subseteq Numbers
  BY OpenIs DEF OpenTables
<1>4. Just(f)
  BY <1>2, AppendJust DEF StoreInv
<1>5. \A n : f # TableFile(n) /\ f # Log(n)
  BY <1>2, FilesApart
<1>6. NoLogOf(Dirs, f) /\ NoLogOf({dir}, f)
  BY <1>5 DEF NoLogOf
<1>7. MayCrash => \A d \in Dirs : f \notin Uses(d, data)
  <2> SUFFICES ASSUME MayCrash
               PROVE  \A d \in Dirs : f \notin Uses(d, data)
    OBVIOUS
  <2>1. ~has_descriptor_
    BY <1>1 DEF StoreInv, DiskInv, Descriptor, Runs
  <2>2. \A d \in Dirs : d.current # manifest_file_number_
    <3>1. \A d \in Dirs : d.current < manifest_file_number_
      BY <1>3, <2>1 DEF StoreInv, DiskInv, Descriptor
    <3> QED BY <1>3, <3>1, NumbersAre
  <2> QED BY <1>2, <1>3, <2>2, NotUsed
<1>8. phase' = "open" /\ OpenTables' = OpenTables /\ UNCHANGED <<faults, mem_, todo, last_sequence_>>
  BY <1>1 DEF OpenTables, openVars, historyVars, versionVars, memVars
<1>9. apply.edit.last = last_sequence_
  BY <1>1 DEF OrderInv, OpenOrder
<1> QED BY <1>1, <1>4, <1>5, <1>6, <1>7, <1>8, <1>9, OrderOpenFramed

LEMMA OrderApplyAppend ==
    ASSUME StoreInv, OrderInv, TypeInv', ApplyAppend
    PROVE  OrderInv'
<1>1. phase \in {"open", "up"}
  BY ApplyRuns DEF StoreInv, DiskInv, ApplyAppend
<1> QED BY <1>1, OrderAppendUp, OrderAppendOpen

\* CURRENT comes to name a MANIFEST with a snapshot of what DB::Open has found.
LEMMA OrderSetCurrentFile ==
    ASSUME StoreInv, OrderInv, TypeInv', SetCurrentFile
    PROVE  OrderInv'
<1>1. /\ apply.pc = "current" /\ ChangeDir([dir EXCEPT !.current = manifest_file_number_])
      /\ has_descriptor_' = TRUE
      /\ UNCHANGED <<data, synced, log_number_, manifest_file_number_, next_file_number_,
                   memVars, openVars, versionVars, flush, c, bg_error_, historyVars>>
      /\ apply' = [apply EXCEPT !.pc = "install"]
  BY DEF SetCurrentFile
<1>2. /\ apply'.pc = "install" /\ apply'.owner = apply.owner /\ apply'.edit = apply.edit
      /\ TypeInv /\ Runs
  BY <1>1, ApplyGoesOn, ApplyRuns DEF StoreInv, DiskInv, historyVars, Runs
<1>3. /\ phase' = phase /\ MayCrash' = MayCrash /\ OpenTables' = OpenTables
      /\ UNCHANGED <<mem_, imm_, last_sequence_, current_, todo, flush, c>>
  BY <1>1, <1>2 DEF MayCrash, OpenTables, memVars, openVars, versionVars, historyVars
<1>4. OpenOrder'
  BY <1>1, <1>2, <1>3 DEF OrderInv, OpenOrder
<1>5. UpOrder'
  BY <1>1, <1>2, <1>3, UpOrderStays DEF OrderInv, UpOrder
<1>6. ASSUME MayCrash
      PROVE  phase = "open" /\ OrderDirs'
  <2>1. phase = "open" /\ ~has_descriptor_
    BY <1>1, <1>2, <1>6 DEF StoreInv, DiskInv, Descriptor, Runs
  <2>2. /\ current_ \cup apply.edit.add \subseteq Numbers /\ apply.edit.del = {}
        /\ todo = {} /\ logfile_number_ # 0 /\ manifest_file_number_ \in Numbers /\ mem_ = {}
        /\ apply.edit \in EditsTo(writes) /\ dir \in Dirs
    BY <1>1, <1>6, <2>1, OpenIs DEF TypeInv, BgType, ApplyType
  <2>3. /\ dir'.current = manifest_file_number_ /\ dir'.files = dir.files
        /\ Dirs' \subseteq Dirs \cup {dir'}
    BY <1>1, <1>2, ChangeDirIs DEF TypeInv, DirsOK, DirType
  <2>4. PICK Q : Q = Mine
    OBVIOUS
  <2>5. /\ Len(Q) = 2 /\ Q[2] = apply.edit /\ TablesAt(Q, 2) = OpenTables
        /\ apply.edit.log = logfile_number_
    <3>1. Q = <<Edit(0, 0, 0, current_, {}), apply.edit>> /\ apply.edit.log = logfile_number_
      BY <1>1, <2>1, <2>4 DEF StoreInv, HeldInv, OpenFinds
    <3>2. writes \in Nat /\ current_ \in SUBSET Numbers
      BY <1>2, <2>2, NumbersAre DEF TypeInv, HistoryType
    <3>3. Len(Q) = 2 /\ Q[2] = apply.edit /\ TablesAt(Q, 2) = Applied(current_, apply.edit)
      BY <2>2, <3>1, <3>2, SnapshotIs
    <3> QED BY <2>2, <3>1, <3>3 DEF Applied, OpenTables
  <2>6. /\ LogsFrom(dir', logfile_number_) = {logfile_number_}
        /\ LogEntries(logfile_number_, data) = {}
    <3>1. LogsFrom(dir', logfile_number_) = LogsFrom(dir, logfile_number_)
      BY <2>3 DEF LogsFrom
    <3> QED BY <2>1, <2>2, <3>1, LastLog, InTablesAre
  <2>7. OrderedDir(dir', data, synced)
    <3>1. data[Manifest(dir'.current)] = Q /\ synced[Manifest(dir'.current)] = 2
      BY <1>2, <1>6, <2>3, <2>4, <2>5, CurrentKeeps DEF StoreInv, Mine
    <3>2. OrderedAt(2, dir', data)
      <4>1. /\ InOrder(OpenTables, data)
            /\ UpTo(EntriesOf(OpenTables, data), apply.edit.last)
        BY <1>1, <2>1 DEF OrderInv, OpenOrder, UpTo
      <4>2. LogsInOrder(OpenTables, {logfile_number_}, data)
        BY <1>2, <2>6 DEF LogsInOrder, Before, Older
      <4> QED BY <2>5, <2>6, <3>1, <4>1, <4>2 DEF OrderedAt
    <3>3. \A k \in 1..Len(Q) : 2 <= k => k = 2
      BY <2>5
    <3> QED BY <3>1, <3>2, <3>3 DEF OrderedDir
  <2>8. \A e \in Dirs : OrderedDir(e, data, synced)
    BY <1>6 DEF OrderInv, OrderDirs, AllOrdered
  <2>9. OrderDirs'
    BY <1>1, <2>3, <2>7, <2>8 DEF OrderDirs, AllOrdered
  <2> QED BY <2>1, <2>9
<1>7. OrderDirs'
  BY <1>3, <1>6 DEF OrderDirs
<1>8. RecordedOrder'
  BY <1>3, <1>6 DEF RecordedOrder
<1> QED BY <1>4, <1>5, <1>7, <1>8 DEF OrderInv

LEMMA OrderOpenApply ==
    ASSUME StoreInv, OrderInv, TypeInv', OpenApply
    PROVE  OrderInv'
<1>1. /\ phase = "open"
      /\ apply' = [pc |-> "append", owner |-> "open",
                   edit |-> Edit(logfile_number_, next_file_number_, last_sequence_,
                                 apply.edit.add, {})]
      /\ UNCHANGED <<diskVars, memVars, openVars, versionVars, historyVars>>
  BY DEF OpenApply, Opened, StartApply
<1>2. apply'.edit.add = apply.edit.add /\ apply'.edit.last = last_sequence_
  BY <1>1 DEF Edit
<1>3. /\ phase' = "open" /\ MayCrash' = MayCrash /\ OpenTables' = OpenTables /\ Dirs' = Dirs
      /\ UNCHANGED <<dir, data, synced, mem_, last_sequence_, todo>>
  BY <1>1, <1>2 DEF MayCrash, OpenTables, diskVars, memVars, openVars, versionVars, historyVars, Dirs
<1>4. OrderDirs'
  BY <1>3 DEF OrderInv, OrderDirs
<1>5. OpenOrder'
  BY <1>1, <1>2, <1>3, OpenOrderStays DEF OrderInv
<1> QED BY <1>3, <1>4, <1>5, NotUp

-----------------------------------------------------------------------------
(***************************************************************************)
(* LogAndApply ends: obsolete logs go away.                                *)
(***************************************************************************)
LEMMA OrderInstalled ==
    ASSUME StoreInv, OrderInv, TypeInv', apply.pc = "install", Runs, phase' = "up",
           DeleteObsoleteFiles, UNCHANGED <<data, synced, faults, bg_error_>>,
           MayCrash => Here[Len(Here)].log = log_number_'
    PROVE  /\ OrderDirs' /\ OpenOrder' /\ (MayCrash' => MayCrash) /\ Recorded' = Recorded
           /\ MayCrash /\ logfile_number_' = logfile_number_ /\ log_number_' <= logfile_number_ =>
                  (NextLogThere => NextLogThere')
<1>1. TypeInv /\ dir \in Dirs /\ dir.current # 0 /\ (MayCrash' => MayCrash)
  <2>1. TypeInv /\ dir.current # 0 /\ (MayCrash' => MayCrash)
    BY DEF StoreInv, DiskInv, NoDir, Runs, MayCrash
  <2> QED BY <2>1, DirsAre
<1>2. /\ LogsIn(dir') \subseteq LogsIn(dir) /\ dir'.current = dir.current
      /\ \A n \in LogsIn(dir) : n >= log_number_' => n \in LogsIn(dir')
      /\ bg_error_ => dir' = dir /\ Dirs' = Dirs
      /\ \A e \in Dirs' : e \in Dirs \/ e = dir'
  BY <1>1, DeleteLogs
<1>3. Here' = Here /\ Recorded' = Recorded
  BY <1>2 DEF Here, Recorded
<1>4. ASSUME MayCrash, ~bg_error_
      PROVE  OrderedDir(dir', data, synced)
  <2>1. /\ Len(Here) \in Nat /\ DOMAIN Here = 1..Len(Here) /\ Len(Here) > 0
        /\ synced[Manifest(dir.current)] = Len(Here)
    <3>1. dir.current = manifest_file_number_ /\ has_descriptor_
      BY <1>4 DEF StoreInv, DiskInv, Descriptor, Runs
    <3>2. synced[Manifest(dir.current)] = Len(Here)
      BY <1>4, <3>1 DEF StoreInv, DiskInv, Replay, Here, Mine
    <3>3. Len(Here) \in Nat /\ DOMAIN Here = 1..Len(Here)
      BY <1>1, ManifestOf DEF Here
    <3>4. GoodDir(dir, data, synced)
      BY <1>1, <1>4 DEF StoreInv, DiskInv, DirsGood, AllGood
    <3>5. Len(Here) > 0
      BY <1>1, <3>4 DEF GoodDir, GoodManifest, Here
    <3> QED BY <3>2, <3>3, <3>5
  <2>2. PICK R : R = Here
    OBVIOUS
  <2>3. OrderedDir(dir, data, synced)
    BY <1>1, <1>4 DEF OrderInv, OrderDirs, AllOrdered
  <2>4. OrderedAt(Len(R), dir, data)
    BY <1>1, <2>1, <2>2, <2>3 DEF OrderedDir, Here
  <2>5. LogsFrom(dir, R[Len(R)].log) = LogsFrom(dir', R[Len(R)].log)
    BY <1>2, <1>4, <2>2 DEF LogsFrom, LogsIn
  <2>6. OrderedAt(Len(R), dir', data)
    BY <1>2, <2>1, <2>2, <2>4, <2>5, OrderedAtKept DEF Here
  <2>7. \A k \in 1..Len(R) : synced[Manifest(dir'.current)] <= k => k = Len(R)
    <3>1. synced[Manifest(dir'.current)] = Len(R) /\ Len(R) \in Nat
      BY <1>2, <2>1, <2>2
    <3> QED BY <3>1
  <2>8. R = data[Manifest(dir'.current)]
    BY <1>2, <2>2 DEF Here
  <2> QED BY <2>6, <2>7, <2>8 DEF OrderedDir
<1>5. OrderDirs'
  <2> SUFFICES ASSUME MayCrash, NEW e \in Dirs'
               PROVE  OrderedDir(e, data, synced)
    BY <1>1 DEF OrderDirs, AllOrdered
  <2>1. CASE e \in Dirs
    BY <2>1 DEF OrderInv, OrderDirs, AllOrdered
  <2>2. CASE e = dir' /\ ~bg_error_
    BY <1>4, <2>2
  <2> QED BY <1>2, <2>1, <2>2
<1>6. MayCrash /\ logfile_number_' = logfile_number_ /\ log_number_' <= logfile_number_ =>
          (NextLogThere => NextLogThere')
  <2>1. logfile_number_ \in Nat /\ log_number_' \in Nat
    BY <1>1, NumbersAre DEF TypeInv, NumberType, MemType
  <2>2. log_number_' <= logfile_number_ => logfile_number_ >= log_number_'
    BY <2>1
  <2> QED BY <1>1, <1>2, <2>2 DEF NextLogThere
<1> QED BY <1>1, <1>3, <1>5, <1>6 DEF OpenOrder

LEMMA OrderInstallOpen ==
    ASSUME StoreInv, OrderInv, TypeInv', InstallOpen
    PROVE  OrderInv'
<1>1. /\ apply.owner = "open" /\ apply.pc = "install" /\ DeleteObsoleteFiles
      /\ apply' = NoApply /\ log_number_' = apply.edit.log
      /\ current_' = (current_ \ apply.edit.del) \cup apply.edit.add
      /\ phase' = "up"
      /\ UNCHANGED <<data, synced, memVars, flush, c, bg_error_, historyVars>>
  BY DEF InstallOpen, Install
<1>2. /\ TypeInv /\ phase = "open" /\ Runs /\ c = None /\ flush = 0
      /\ imm_ = {} /\ ~has_imm_ /\ ~bg_error_
  BY <1>1 DEF StoreInv, HeldInv, DiskInv, TypeInv, PhaseType, Runs, TablesMade
<1>3. /\ current_' = OpenTables /\ apply'.pc = "none" /\ apply'.owner = "open"
  BY <1>1, <1>2 DEF StoreInv, DiskInv, EditInv, NoApply, OpenTables
<1>4. ASSUME MayCrash
      PROVE  Here[Len(Here)].log = log_number_' /\ Recorded = OpenTables
  <2>1. has_descriptor_ /\ dir.current # 0
    BY <1>1, <1>2, <1>4 DEF StoreInv, HeldInv, OpenFinds, DiskInv, Descriptor
  <2>2. Here[Len(Here)] = apply.edit /\ ReplayedTables(Here) = OpenTables
    BY <1>1, <1>2, <2>1 DEF StoreInv, HeldInv, OpenFinds, Committed, OpenTables
  <2>3. Len(Here) \in Nat /\ DOMAIN Here = 1..Len(Here)
    BY <1>2, <2>1, ManifestOf, DirsAre DEF Here
  <2> QED BY <1>1, <2>2, <2>3, TablesAtFull DEF Recorded
<1>5. /\ OrderDirs' /\ OpenOrder' /\ (MayCrash' => MayCrash) /\ Recorded' = Recorded
  BY <1>1, <1>2, <1>4, OrderInstalled DEF historyVars
<1>6. /\ InOrder(OpenTables, data) /\ Older(EntriesOf(OpenTables, data), mem_)
      /\ UpTo(EntriesOf(OpenTables, data) \cup mem_, last_sequence_)
  BY <1>2 DEF OrderInv, OpenOrder
<1>7. UpOrder'
  <2>1. Store' = EntriesOf(OpenTables, data) \cup mem_
    <3>1. InTables(current_)' = EntriesOf(current_', data')
      BY InTablesNext
    <3> QED BY <1>1, <1>2, <1>3, <3>1 DEF Store, memVars
  <2>2. Older({}, mem_')
    BY DEF Older
  <2> QED BY <1>1, <1>2, <1>3, <1>6, <2>1, <2>2 DEF UpOrder, memVars
<1>8. RecordedOrder'
  <2>1. \A n \in OpenTables : Before(n, mem_, data)
    BY <1>6 DEF Before, Older, EntriesOf
  <2> QED BY <1>1, <1>2, <1>3, <1>4, <1>5, <2>1 DEF RecordedOrder, memVars
<1> QED BY <1>5, <1>7, <1>8 DEF OrderInv

LEMMA OrderInstallFlush ==
    ASSUME StoreInv, OrderInv, TypeInv', InstallFlush
    PROVE  OrderInv'
<1>1. /\ apply.owner = "flush" /\ apply.pc = "install" /\ DeleteObsoleteFiles
      /\ apply' = NoApply /\ log_number_' = apply.edit.log
      /\ current_' = (current_ \ apply.edit.del) \cup apply.edit.add
      /\ imm_' = {} /\ has_imm_' = FALSE /\ flush' = 0
      /\ UNCHANGED <<data, synced, mem_, logfile_number_, last_sequence_, openVars, c,
                     bg_error_, historyVars>>
  BY DEF InstallFlush, Install
<1>2. TypeInv /\ phase = "up" /\ phase' = "up" /\ Runs /\ flush # 0
  BY <1>1 DEF StoreInv, DiskInv, TypeInv, PhaseType, openVars, Runs
<1>3. /\ has_imm_ /\ TableEntries(flush, data) = imm_ /\ log_number_' = logfile_number_
      /\ current_' = current_ \cup {flush}
      /\ apply'.pc = "none" /\ apply'.owner = "open"
      /\ c # None => c.base \subseteq current_
  BY <1>1, InTablesAre DEF StoreInv, HeldInv, TablesMade, DiskInv, EditInv, NoApply
<1>4. MayCrash => Here[Len(Here)].log = log_number_'
  BY <1>1, <1>2 DEF StoreInv, HeldInv, UpLogs, UpTop, Top
<1>5. /\ OrderDirs' /\ OpenOrder' /\ (MayCrash' => MayCrash) /\ Recorded' = Recorded
  BY <1>1, <1>2, <1>4, OrderInstalled DEF historyVars
<1>6. /\ InOrder(current_, data)
      /\ Older(EntriesOf(current_, data), imm_ \cup mem_) /\ Older(imm_, mem_)
      /\ UpTo(Store, last_sequence_)
      /\ c # None => BaseIsOldest(current_)
      /\ \A n \in current_ : n < flush
      /\ ~OldIn(flush, data)
  BY <1>1, <1>2, DeepIs DEF OrderInv, UpOrder
<1>7. current_ \subseteq Numbers /\ flush \in Numbers
  BY <1>2, NumbersAre DEF TypeInv, VersionType, BgType, Numbers
<1>8. EntriesOf(current_', data') = EntriesOf(current_, data) \cup imm_
  <2>1. EntriesOf(current_ \cup {flush}, data) = EntriesOf(current_, data) \cup EntriesOf({flush}, data)
    BY EntriesOfUnion
  <2>2. EntriesOf({flush}, data) = imm_
    BY <1>3, EntriesOfOne
  <2> QED BY <1>1, <1>3, <2>1, <2>2
<1>9. UpOrder'
  <2>1. \A n \in current_ : Before(n, imm_, data)
    BY <1>6 DEF Before, Older, EntriesOf
  <2>2. InOrder(current_', data')
    BY <1>1, <1>3, <1>6, <1>7, <2>1, FlushedInOrder
  <2>3. Older(EntriesOf(current_, data)', (imm_ \cup mem_)') /\ Older(imm_', mem_')
    BY <1>1, <1>6, <1>8 DEF Older
  <2>4. Store' = Store
    <3>1. InTables(current_)' = EntriesOf(current_', data')
      BY InTablesNext
    <3>2. InTables(current_) = EntriesOf(current_, data)
      BY InTablesAre
    <3>3. InTables(current_)' = InTables(current_) \cup imm_
      BY <1>8, <3>1, <3>2
    <3>4. imm_' = {} /\ mem_' = mem_
      BY <1>1
    <3> QED BY <3>3, <3>4 DEF Store
  <2>5. ASSUME c # None
        PROVE  BaseIsOldest(current_)'
    <3>1. EntriesOf(c.base, data) \subseteq EntriesOf(current_, data)
      BY <1>3, <2>5, EntriesOfSubset
    <3>2. Older(EntriesOf(c.base, data), TableEntries(flush, data))
      BY <1>3, <1>6, <3>1 DEF Older
    <3>3. \A n \in current_' \ c.base :
              ~OldIn(n, data) /\ Older(EntriesOf(c.base, data), TableEntries(n, data))
      BY <1>3, <1>6, <2>5, <3>2, DeepIs DEF BaseIsOldest
    <3> QED BY <1>1, <3>3, DeepIs DEF BaseIsOldest
  <2> QED BY <1>1, <1>3, <1>6, <2>2, <2>3, <2>4, <2>5 DEF UpOrder
<1>10. RecordedOrder'
  <2>1. ASSUME MayCrash
        PROVE  /\ c # None => c.base \subseteq Recorded /\ BaseIsOldest(Recorded)
               /\ \A n \in Recorded : Before(n, mem_, data)
    BY <1>1, <1>2, <2>1 DEF OrderInv, RecordedOrder
  <2>2. c # None /\ BaseIsOldest(Recorded) => BaseIsOldest(Recorded)'
    BY <1>1, <1>5 DEF BaseIsOldest, IsDeep
  <2> QED BY <1>1, <1>3, <1>5, <2>1, <2>2 DEF RecordedOrder
<1> QED BY <1>5, <1>9, <1>10 DEF OrderInv

LEMMA OrderInstallCompaction ==
    ASSUME StoreInv, OrderInv, TypeInv', InstallCompaction
    PROVE  OrderInv'
<1>1. /\ apply.owner = "compaction" /\ apply.pc = "install" /\ DeleteObsoleteFiles
      /\ apply' = NoApply /\ log_number_' = apply.edit.log
      /\ current_' = (current_ \ apply.edit.del) \cup apply.edit.add
      /\ c' = None
      /\ UNCHANGED <<data, synced, memVars, openVars, flush, bg_error_, historyVars>>
  BY DEF InstallCompaction, Install
<1>2. TypeInv /\ phase = "up" /\ phase' = "up" /\ Runs /\ c # None /\ flush = 0
  BY <1>1 DEF StoreInv, DiskInv, TypeInv, PhaseType, openVars, Runs, EditInv
<1>3. /\ TableEntries(c.output, data) = EntriesOf(c.base, data) /\ log_number_' = log_number_
      /\ c.base \subseteq current_
      /\ current_' = (current_ \ c.base) \cup {c.output}
      /\ apply'.pc = "none" /\ apply'.owner = "open"
  BY <1>1, <1>2, InTablesAre DEF StoreInv, HeldInv, TablesMade, DiskInv, EditInv, NoApply
<1>4. MayCrash => Here[Len(Here)].log = log_number_'
  BY <1>1, <1>2 DEF StoreInv, HeldInv, UpLogs, UpTop, Top
<1>5. MayCrash => log_number_' <= logfile_number_
  <2>1. MayCrash => log_number_ = logfile_number_ \/ log_number_ < logfile_number_
    BY <1>2 DEF StoreInv, HeldInv, UpLogs, UpMem
  <2>2. log_number_ \in Nat /\ logfile_number_ \in Nat
    BY <1>2, NumbersAre DEF TypeInv, NumberType, MemType
  <2> QED BY <1>3, <2>1, <2>2
<1>6. /\ OrderDirs' /\ OpenOrder' /\ (MayCrash' => MayCrash) /\ Recorded' = Recorded
      /\ MayCrash => (NextLogThere => NextLogThere')
  BY <1>1, <1>2, <1>4, <1>5, OrderInstalled DEF historyVars, memVars
<1>7. /\ InOrder(current_, data)
      /\ Older(EntriesOf(current_, data), imm_ \cup mem_) /\ Older(imm_, mem_)
      /\ UpTo(Store, last_sequence_)
      /\ \A n \in current_ \ c.base :
             ~OldIn(n, data) /\ Older(EntriesOf(c.base, data), TableEntries(n, data))
      /\ OldIn(c.output, data)
  BY <1>1, <1>2, DeepIs DEF OrderInv, UpOrder, BaseIsOldest
<1>8. EntriesOf(current_', data') = EntriesOf(current_, data)
  <2>1. EntriesOf(current_', data) = EntriesOf(current_ \ c.base, data) \cup EntriesOf(c.base, data)
    <3>1. EntriesOf((current_ \ c.base) \cup {c.output}, data)
          = EntriesOf(current_ \ c.base, data) \cup EntriesOf({c.output}, data)
      BY EntriesOfUnion
    <3>2. EntriesOf({c.output}, data) = EntriesOf(c.base, data)
      BY <1>3, EntriesOfOne
    <3> QED BY <1>3, <3>1, <3>2
  <2>2. EntriesOf((current_ \ c.base) \cup c.base, data)
        = EntriesOf(current_ \ c.base, data) \cup EntriesOf(c.base, data)
    BY EntriesOfUnion
  <2>3. (current_ \ c.base) \cup c.base = current_
    BY <1>3
  <2> QED BY <1>1, <2>1, <2>2, <2>3
<1>9. UpOrder'
  <2>1. InOrder(current_', data')
    BY <1>1, <1>3, <1>7, CompactedInOrder
  <2>2. Older(EntriesOf(current_, data)', (imm_ \cup mem_)') /\ Older(imm_', mem_')
    BY <1>1, <1>7, <1>8 DEF memVars
  <2>3. Store' = Store
    <3>1. InTables(current_)' = EntriesOf(current_', data')
      BY InTablesNext
    <3>2. InTables(current_) = EntriesOf(current_, data)
      BY InTablesAre
    <3> QED BY <1>1, <1>8, <3>1, <3>2 DEF Store, memVars
  <2> QED BY <1>1, <1>2, <1>3, <1>7, <2>1, <2>2, <2>3 DEF UpOrder, memVars
<1>10. RecordedOrder'
  <2>1. ASSUME MayCrash
        PROVE  /\ \A n \in Recorded : Before(n, mem_, data)
               /\ has_imm_ => \A n \in Recorded :
                      Before(n, imm_, data) \/ (Repeats(n, imm_, data) /\ NextLogThere)
    BY <1>1, <1>2, <2>1 DEF OrderInv, RecordedOrder
  <2> QED BY <1>1, <1>2, <1>3, <1>6, <2>1 DEF RecordedOrder, memVars
<1> QED BY <1>6, <1>9, <1>10 DEF OrderInv

\* DB::Open keeps the MANIFEST; that has no part in what crashes leave.
LEMMA OrderOpenWithoutApply ==
    ASSUME StoreInv, OrderInv, TypeInv', OpenWithoutApply
    PROVE  OrderInv'
<1>1. /\ phase = "open" /\ phase' = "up" /\ apply.pc = "none" /\ has_descriptor_
      /\ apply.edit.add = {}
      /\ UNCHANGED <<data, synced, memVars, versionVars, bgVars, historyVars>>
  BY DEF OpenWithoutApply, Opened, SaveManifest
<1>2. /\ TypeInv /\ Runs /\ apply.owner = "open" /\ c = None /\ flush = 0
      /\ imm_ = {} /\ ~has_imm_
  BY <1>1 DEF Runs, StoreInv, DiskInv, TypeInv, PhaseType, HeldInv, TablesMade
<1>3. ~MayCrash'
  <2>1. ~MayCrash
    BY <1>1, <1>2 DEF StoreInv, DiskInv, Descriptor
  <2> QED BY <1>1, <2>1 DEF MayCrash, historyVars
<1>4. current_' = OpenTables
  BY <1>1 DEF OpenTables, versionVars
<1>5. /\ InOrder(OpenTables, data) /\ Older(EntriesOf(OpenTables, data), mem_)
      /\ UpTo(EntriesOf(OpenTables, data) \cup mem_, last_sequence_)
  BY <1>1 DEF OrderInv, OpenOrder
<1>6. UpOrder'
  <2>1. Store' = EntriesOf(OpenTables, data) \cup mem_
    <3>1. InTables(current_)' = EntriesOf(current_', data')
      BY InTablesNext
    <3> QED BY <1>1, <1>2, <1>4, <3>1 DEF Store, memVars
  <2>2. Older({}, mem_')
    BY DEF Older
  <2> QED BY <1>1, <1>2, <1>4, <1>5, <2>1, <2>2 DEF UpOrder, memVars, bgVars
<1> QED BY <1>1, <1>3, <1>6 DEF OrderInv, OrderDirs, OpenOrder, RecordedOrder

-----------------------------------------------------------------------------
(***************************************************************************)
(* DB::Open reads the logs.                                                *)
(***************************************************************************)
LEMMA MaxSequenceBounds ==
    ASSUME TypeInv, NEW n \in Numbers
    PROVE  /\ MaxSequence(InLog(n)) \in Nat /\ last_sequence_ \in Nat
           /\ last_sequence_ <= MaxSequence(InLog(n))
           /\ UpTo(InLog(n), MaxSequence(InLog(n)))
<1> DEFINE S == {last_sequence_} \cup {e.seq : e \in InLog(n)}
<1>1. InLog(n) \subseteq Entries(writes) /\ writes \in Nat
  BY LogIs, NumbersAre DEF TypeInv, HistoryType
<1>2. S \subseteq 0..writes /\ last_sequence_ \in S /\ \A e \in InLog(n) : e.seq \in S
  BY <1>1 DEF Entries, TypeInv, MemType
<1>3. Max(S) \in S /\ \A x \in S : Max(S) >= x
  <2> HIDE DEF S
  <2> QED BY <1>1, <1>2, RangeMax
<1>4. MaxSequence(InLog(n)) = Max(S)
  BY DEF MaxSequence
<1> HIDE DEF S
<1>5. PICK m : m = Max(S)
  OBVIOUS
<1>6. m \in Nat /\ \A x \in S : x \in Nat /\ m >= x
  <2>1. m \in S /\ \A x \in S : m >= x
    BY <1>3, <1>5
  <2>2. \A x \in S : x \in Nat
    BY <1>1, <1>2
  <2> QED BY <2>1, <2>2
<1>7. \A x \in S : x <= m
  <2> SUFFICES ASSUME NEW x \in S
               PROVE  x <= m
    OBVIOUS
  <2> QED BY <1>6
<1>8. last_sequence_ \in Nat /\ last_sequence_ <= m
  BY <1>2, <1>6, <1>7
<1>9. UpTo(InLog(n), m)
  BY <1>2, <1>7 DEF UpTo
<1> QED BY <1>4, <1>5, <1>6, <1>8, <1>9

\* A greater bound.
LEMMA UpToMore ==
    ASSUME NEW S, NEW w \in Nat, NEW a \in Nat, NEW b \in Nat, a <= b,
           \A e \in S : e.seq \in Nat, UpTo(S, a)
    PROVE  UpTo(S, b)
<1> SUFFICES ASSUME NEW e \in S
             PROVE  e.seq <= b
  BY DEF UpTo
<1>1. PICK s \in Nat : s = e.seq
  OBVIOUS
<1>2. s <= a
  BY <1>1 DEF UpTo
<1>3. s <= b
  BY <1>2
<1> QED BY <1>1, <1>3

LEMMA EntriesHaveNumbers ==
    ASSUME TypeInv, NEW T \in SUBSET Numbers
    PROVE  \A e \in EntriesOf(T, data) \cup mem_ : e.seq \in Nat
<1>1. \A n \in Numbers : TableEntries(n, data) \subseteq Entry
  BY ContentsAre, InTablesAre
<1>2. \A e \in EntriesOf(T, data) : e \in Entry
  BY <1>1 DEF EntriesOf
<1>3. mem_ \subseteq Entries(writes) /\ writes \in Nat /\ MaxWrites \in Nat
  BY NumbersAre, BoundsAssumption DEF TypeInv, MemType, HistoryType
<1>4. \A e \in Entry : e.seq \in Nat
  BY <1>3 DEF Entry
<1>5. \A e \in Entries(writes) : e.seq \in Nat
  BY <1>3 DEF Entries
<1> QED BY <1>2, <1>3, <1>4, <1>5

\* The log of the least number is read.
LEMMA LogsLeft ==
    ASSUME NEW T, NEW D, NEW L \in SUBSET Numbers, NEW n \in L, \A m \in L : n <= m,
           LogsInOrder(T, L, D)
    PROVE  /\ LogsInOrder(T, L \ {n}, D)
           /\ \A l \in L \ {n} : Older(LogEntries(n, D), LogEntries(l, D))
<1>1. \A l \in L \ {n} : n < l
  <2> SUFFICES ASSUME NEW l \in L \ {n}
               PROVE  n < l
    OBVIOUS
  <2>1. n \in Nat /\ l \in Nat /\ n <= l /\ n # l
    BY NumbersAre
  <2> QED BY <2>1
<1>2. \A l \in L \ {n}, m \in L : l < m => m # n
  <2> SUFFICES ASSUME NEW l \in L \ {n}, l < n
               PROVE  FALSE
    OBVIOUS
  <2>1. n \in Nat /\ l \in Nat /\ n < l
    BY <1>1, NumbersAre
  <2> QED BY <2>1
<1>3. ASSUME NEW l \in L \ {n}, NEW t \in T
      PROVE  \/ Before(t, LogEntries(l, D), D)
             \/ Repeats(t, LogEntries(l, D), D) /\ \E m \in L \ {n} : l < m
  BY <1>2 DEF LogsInOrder
<1> QED BY <1>1, <1>3 DEF LogsInOrder

LEMMA OrderReuseLog ==
    ASSUME StoreInv, OrderInv, TypeInv', ReuseLog
    PROVE  OrderInv'
<1>1. PICK n \in todo : /\ todo = {n} /\ mem_' = InLog(n)
                        /\ last_sequence_' = MaxSequence(InLog(n))
  BY DEF ReuseLog
<1>2. /\ phase = "open" /\ phase' = "open" /\ todo' = {}
      /\ UNCHANGED diskVars /\ UNCHANGED <<faults, current_, apply>>
  BY DEF ReuseLog, historyVars, versionVars, bgVars
<1>3. /\ TypeInv /\ OpenTables \subseteq Numbers /\ n \in Numbers /\ apply.pc = "none"
  <2>1. TypeInv /\ OpenTables \subseteq Numbers /\ apply.pc = "none"
    BY <1>1, <1>2, OpenIs DEF OpenTables
  <2> QED BY <1>1, <2>1 DEF TypeInv, OpenType
<1>4. dir' = dir /\ older' = older /\ data' = data /\ synced' = synced
  BY <1>2 DEF diskVars
<1>5. OpenTables' = OpenTables /\ MayCrash' = MayCrash /\ Dirs' = Dirs
  BY <1>2, <1>4 DEF OpenTables, MayCrash, Dirs
<1>6. OrderDirs'
  BY <1>4, <1>5 DEF OrderInv, OrderDirs
<1>7. /\ InOrder(OpenTables, data) /\ LogsInOrder(OpenTables, {n}, data)
      /\ UpTo(EntriesOf(OpenTables, data) \cup mem_, last_sequence_)
  BY <1>1, <1>2 DEF OrderInv, OpenOrder
<1>8. Older(EntriesOf(OpenTables, data), InLog(n))
  <2>1. ~ n < n
    BY <1>3, NumbersAre
  <2>2. \A k \in OpenTables : Before(k, InLog(n), data)
    BY <1>7, <2>1, InTablesAre DEF LogsInOrder
  <2> QED BY <2>2 DEF Before, Older, EntriesOf
<1>9. UpTo(EntriesOf(OpenTables, data) \cup InLog(n), MaxSequence(InLog(n)))
  <2>1. UpTo(EntriesOf(OpenTables, data), MaxSequence(InLog(n)))
    <3>1. UpTo(EntriesOf(OpenTables, data), last_sequence_)
      BY <1>7 DEF UpTo
    <3> QED BY <1>3, <3>1, MaxSequenceBounds, EntriesHaveNumbers, UpToMore
  <2>2. UpTo(InLog(n), MaxSequence(InLog(n)))
    BY <1>3, MaxSequenceBounds
  <2> QED BY <2>1, <2>2 DEF UpTo
<1>10. OpenOrder'
  <2>1. LogsInOrder(OpenTables, {}, data)
    BY DEF LogsInOrder
  <2> QED BY <1>1, <1>2, <1>3, <1>4, <1>5, <1>7, <1>8, <1>9, <2>1 DEF OpenOrder
<1> QED BY <1>2, <1>6, <1>10, NotUp

LEMMA OrderReadEmptyLog ==
    ASSUME StoreInv, OrderInv, TypeInv', phase = "open", phase' = "open", NEW n \in Numbers,
           NextLog(n), todo' = todo \ {n}, last_sequence_' = MaxSequence(InLog(n)),
           InLog(n) = {}, UNCHANGED <<diskVars, apply, mem_, current_, faults>>
    PROVE  OrderInv'
<1>1. TypeInv /\ OpenTables \subseteq Numbers /\ todo \subseteq Numbers /\ apply.pc = "none"
  <2>1. TypeInv /\ OpenTables \subseteq Numbers /\ apply.pc = "none"
    BY OpenIs DEF OpenTables, NextLog
  <2> QED BY <2>1 DEF TypeInv, OpenType
<1>2. dir' = dir /\ older' = older /\ data' = data /\ synced' = synced
  BY DEF diskVars
<1>3. OpenTables' = OpenTables /\ MayCrash' = MayCrash /\ Dirs' = Dirs
  BY <1>2 DEF OpenTables, MayCrash, Dirs
<1>4. OrderDirs'
  BY <1>2, <1>3 DEF OrderInv, OrderDirs
<1>5. /\ InOrder(OpenTables, data) /\ LogsInOrder(OpenTables, todo, data)
      /\ Older(EntriesOf(OpenTables, data), mem_)
      /\ UpTo(EntriesOf(OpenTables, data) \cup mem_, last_sequence_)
  BY DEF OrderInv, OpenOrder
<1>6. LogsInOrder(OpenTables, todo', data)
  BY <1>1, <1>5, LogsLeft DEF NextLog
<1>7. UpTo(EntriesOf(OpenTables, data) \cup mem_, last_sequence_')
  BY <1>1, <1>5, MaxSequenceBounds, EntriesHaveNumbers, UpToMore
<1>8. OpenOrder'
  BY <1>1, <1>2, <1>3, <1>5, <1>6, <1>7 DEF OpenOrder
<1> QED BY <1>4, <1>8, NotUp

\* The log becomes the last table.
LEMMA OrderLogToTable ==
    ASSUME StoreInv, OrderInv, TypeInv', phase = "open", NEW n \in Numbers, InLog(n) # {},
           NextLog(n), todo' = todo \ {n}, last_sequence_' = MaxSequence(InLog(n)),
           NEW t \in Numbers, t = next_file_number_,
           dir' = Create(TableFile(t)),
           data' = [data EXCEPT ![TableFile(t)] = <<TableOf(InLog(n), FALSE)>>],
           SyncFile(TableFile(t)),
           apply' = [apply EXCEPT !.edit.add = @ \cup {t}],
           UNCHANGED <<mem_, current_, phase, faults>>
    PROVE  OrderInv'
<1>1. /\ TypeInv /\ Runs /\ dir \in Dirs /\ dir.current # 0 /\ OpenTables \subseteq Numbers
      /\ apply.pc = "none" /\ logfile_number_ = 0 /\ mem_ = {}
      /\ todo \subseteq LogsIn(dir) /\ LogsIn(dir) \subseteq Numbers
  <2>1. todo # {}
    BY DEF NextLog
  <2>2. TypeInv /\ Runs /\ dir \in Dirs /\ dir.current # 0 /\ OpenTables \subseteq Numbers
        /\ apply.pc = "none" /\ logfile_number_ = 0 /\ LogsIn(dir) \subseteq Numbers
    BY <2>1, OpenIs DEF StoreInv, LogsRead, OpenTables
  <2> QED BY <2>2 DEF StoreInv, HeldInv, OpenFinds
<1>2. /\ apply'.pc = apply.pc /\ apply'.edit.add = apply.edit.add \cup {t}
  BY <1>1, EditGrows
<1>3. PICK f : f = TableFile(t)
  OBVIOUS
<1>4. Just(f)
  <2>1. older' = {}
    BY DEF SyncFile
  <2>2. Dirs' = {dir'}
    BY <2>1 DEF Dirs
  <2>3. PICK y : synced' = [synced EXCEPT ![f] = y]
    BY <1>3 DEF SyncFile
  <2>4. f \in Files /\ Dirs' \subseteq Dirs \cup {dir'}
    BY <1>3, <2>2, FileIs
  <2> QED BY <1>1, <1>3, <2>3, <2>4, JustIs
<1>5. t \notin OpenTables /\ (MayCrash => FreshIn(t, Dirs, data))
  BY <1>1, NextIsFresh DEF StoreInv, LiveTables, OpenTables
<1>6. \A k \in OpenTables : k < t
  BY <1>1 DEF StoreInv, DiskInv, LiveBelow, LiveTables, OpenTables
<1>7. NoLogOf(Dirs, f) /\ \A m : f # Log(m)
  BY <1>3, FilesApart DEF NoLogOf
<1>8. MayCrash' = MayCrash
  BY DEF MayCrash
<1>9. OrderDirs'
  <2>1. MayCrash => \A d \in Dirs : f \notin Uses(d, data)
    BY <1>1, <1>3, <1>5, NotUsed
  <2> QED BY <1>1, <1>4, <1>7, <1>8, <2>1, OrderFramed DEF OrderInv
<1>10. /\ \A k \in OpenTables : data'[TableFile(k)] = data[TableFile(k)]
       /\ \A l \in todo : LogEntries(l, data') = LogEntries(l, data)
  <2>1. \A k \in OpenTables : data'[TableFile(k)] = data[TableFile(k)]
    <3>1. \A k \in OpenTables : f # TableFile(k)
      BY <1>3, <1>5, FilesApart
    <3> QED BY <1>1, <1>4, <3>1, FileIs DEF Just, Only
  <2>2. \A l \in Numbers : LogEntries(l, data') = LogEntries(l, data)
    BY <1>1, <1>4, <1>7, FilesJust
  <2> QED BY <1>1, <2>1, <2>2
<1>11. PICK T : T = OpenTables
  OBVIOUS
<1>12. /\ InOrder(T, data) /\ LogsInOrder(T, todo, data)
       /\ UpTo(EntriesOf(T, data), last_sequence_)
  BY <1>11 DEF OrderInv, OpenOrder, UpTo
<1>13. /\ EntriesOf(T, data') = EntriesOf(T, data) /\ InOrder(T, data')
       /\ LogsInOrder(T, todo, data')
  <2>1. EntriesOf(T, data') = EntriesOf(T, data) /\ InOrder(T, data')
    <3>1. \A k \in T : data'[TableFile(k)] = data[TableFile(k)]
      BY <1>10, <1>11
    <3>2. EntriesOf(T, data') = EntriesOf(T, data)
      BY <3>1, EntriesKept
    <3>3. InOrder(T, data')
      <4>1. InOrder(T, data) => InOrder(T, data')
        BY <3>1, OrderOfSame
      <4> QED BY <1>12, <4>1
    <3> QED BY <3>2, <3>3
  <2>2. LogsInOrder(T, todo, data')
    BY <1>10, <1>11, <1>12, LogsInOrderKept
  <2> QED BY <2>1, <2>2
<1>14. TableEntries(t, data') = InLog(n) /\ ~OldIn(t, data') /\ LogEntries(n, data') = InLog(n)
  <2>1. TableEntries(t, data') = InLog(n) /\ (OldIn(t, data') <=> FALSE)
    BY <1>1, WrittenIsOld
  <2>2. LogEntries(n, data') = InLog(n)
    BY <1>10, InTablesAre DEF NextLog
  <2> QED BY <2>1, <2>2
<1>15. OpenTables' = T \cup {t}
  BY <1>2, <1>11 DEF OpenTables
<1>16. InOrder(T \cup {t}, data')
  <2>1. \A k \in T : Before(k, InLog(n), data') \/ Repeats(k, InLog(n), data')
    BY <1>13, <1>14 DEF LogsInOrder, NextLog
  <2> QED BY <1>1, <1>6, <1>11, <1>13, <1>14, <2>1, FlushedInOrder
<1>17. LogsInOrder(T \cup {t}, todo', data')
  <2>1. /\ LogsInOrder(T, todo', data')
        /\ \A l \in todo' : Older(InLog(n), LogEntries(l, data'))
    <3>1. todo \in SUBSET Numbers /\ n \in todo /\ \A m \in todo : n <= m
      BY <1>1 DEF NextLog
    <3>2. /\ LogsInOrder(T, todo \ {n}, data')
          /\ \A l \in todo \ {n} : Older(LogEntries(n, data'), LogEntries(l, data'))
      <4>1. LogsInOrder(T, todo, data')
        BY <1>13
      <4> QED BY <3>1, <4>1, LogsLeft
    <3> QED BY <1>14, <3>2
  <2>2. \A l \in todo' : Before(t, LogEntries(l, data'), data')
    BY <1>14, <2>1 DEF Before
  <2> QED BY <2>1, <2>2 DEF LogsInOrder
<1>18. EntriesOf(T \cup {t}, data') = EntriesOf(T, data) \cup InLog(n)
  <2>1. EntriesOf(T \cup {t}, data') = EntriesOf(T, data') \cup EntriesOf({t}, data')
    BY EntriesOfUnion
  <2>2. EntriesOf({t}, data') = InLog(n)
    BY <1>14, EntriesOfOne
  <2> QED BY <1>13, <2>1, <2>2
<1>19. UpTo(EntriesOf(T \cup {t}, data'), last_sequence_')
  <2>1. UpTo(EntriesOf(T, data), MaxSequence(InLog(n)))
    BY <1>1, <1>11, <1>12, MaxSequenceBounds, EntriesHaveNumbers, UpToMore
  <2>2. UpTo(InLog(n), MaxSequence(InLog(n)))
    BY <1>1, MaxSequenceBounds
  <2> QED BY <1>18, <2>1, <2>2 DEF UpTo
<1>20. OpenOrder'
  <2>1. mem_' = {} /\ Older(EntriesOf(T \cup {t}, data'), {})
    BY <1>1 DEF Older
  <2>2. UpTo(EntriesOf(T \cup {t}, data') \cup {}, last_sequence_')
    BY <1>19
  <2> QED BY <1>1, <1>2, <1>15, <1>16, <1>17, <2>1, <2>2 DEF OpenOrder
<1> QED BY <1>9, <1>20, NotUp

LEMMA OrderRecoverLogFile ==
    ASSUME StoreInv, OrderInv, TypeInv', RecoverLogFile
    PROVE  OrderInv'
<1>1. PICK n \in Numbers :
           /\ NextLog(n) /\ todo' = todo \ {n}
           /\ last_sequence_' = MaxSequence(InLog(n))
           /\ IF InLog(n) = {}
              THEN /\ next_file_number_' = Max({next_file_number_, n + 1})
                   /\ UNCHANGED <<diskVars, apply>>
              ELSE LET t == next_file_number_
                   IN  /\ t < MaxFile
                       /\ next_file_number_' = Max({t, n}) + 1
                       /\ dir' = Create(TableFile(t))
                       /\ data' = [data EXCEPT ![TableFile(t)] = <<TableOf(InLog(n), FALSE)>>]
                       /\ SyncFile(TableFile(t))
                       /\ apply' = [apply EXCEPT !.edit.add = @ \cup {t}]
  BY DEF RecoverLogFile
<1>2. phase = "open" /\ UNCHANGED <<mem_, current_, phase, faults>>
  BY DEF RecoverLogFile, versionVars, historyVars
<1>3. CASE InLog(n) = {}
  BY <1>1, <1>2, <1>3, OrderReadEmptyLog
<1>4. CASE InLog(n) # {}
  <2>1. PICK t : t = next_file_number_
    OBVIOUS
  <2>2. /\ t < MaxFile /\ dir' = Create(TableFile(t))
        /\ data' = [data EXCEPT ![TableFile(t)] = <<TableOf(InLog(n), FALSE)>>]
        /\ SyncFile(TableFile(t))
        /\ apply' = [apply EXCEPT !.edit.add = @ \cup {t}]
    BY <1>1, <1>4, <2>1
  <2>3. t \in Numbers
    <3>1. t \in Nat \ {0} /\ MaxFile \in Nat
      BY <2>1, NumbersAre DEF StoreInv, DiskInv, TypeInv, NumberType
    <3> QED BY <2>2, <3>1 DEF Numbers
  <2> QED BY <1>1, <1>2, <1>4, <2>1, <2>2, <2>3, OrderLogToTable
<1> QED BY <1>3, <1>4

LEMMA OrderNewLog ==
    ASSUME StoreInv, OrderInv, TypeInv', NewLog
    PROVE  OrderInv'
<1>1. PICK n \in Numbers :
           /\ NewFileNumber(n) /\ ChangeDir(Create(Log(n))) /\ Written(Log(n), <<>>)
           /\ logfile_number_' = n
  BY DEF NewLog
<1>2. /\ phase = "open" /\ todo = {} /\ logfile_number_ = 0 /\ phase' = "open"
      /\ UNCHANGED <<mem_, last_sequence_, todo, current_, apply, faults>>
  BY DEF NewLog, openVars, versionVars, bgVars, historyVars
<1>3. /\ TypeInv /\ Runs /\ LogsBelow /\ dir \in Dirs /\ apply.pc = "none"
  BY <1>2, OpenIs DEF StoreInv, HeldInv
<1>4. Just(Log(n)) /\ data'[Log(n)] = <<>>
  BY <1>1, <1>3, LogCreated
<1>5. n = next_file_number_ /\ n \in Nat
  BY <1>1, <1>3, NextNumber, NumbersAre
<1>6. ASSUME NEW d \in Dirs, MayCrash \/ d = dir, NEW m \in LogsIn(d)
      PROVE  m \in Nat /\ m < n
  <2>1. m \in Nat
    BY <1>3, DirsAre, LogsAre, NumbersAre
  <2>2. LogBelow(m)
    BY <1>2, <1>3, <1>6 DEF LogsBelow
  <2> QED BY <1>2, <1>5, <2>1, <2>2 DEF LogBelow
<1>7. PICK f : f = Log(n)
  OBVIOUS
<1>8. (\A k : f # TableFile(k)) /\ \A m : f = Log(m) => m = n
  BY <1>7, FilesApart DEF Log
<1>9. NoLogOf({dir}, f) /\ (MayCrash => NoLogOf(Dirs, f))
  <2>1. \A d \in Dirs : MayCrash \/ d = dir => n \notin LogsIn(d)
    BY <1>5, <1>6
  <2> QED BY <1>3, <1>4, <1>7, <1>8, <2>1 DEF NoLogOf
<1>10. \A d \in Dirs : f \notin Uses(d, data)
  BY <1>3, <1>7, NotUsed
<1>11. OpenTables' = OpenTables /\ Just(f) /\ apply'.pc = "none"
  BY <1>2, <1>3, <1>4, <1>7 DEF OpenTables
<1> QED BY <1>2, <1>8, <1>9, <1>10, <1>11, OrderOpenFramed

-----------------------------------------------------------------------------
(***************************************************************************)
(* DB::Open begins; crashes, and opens that fail.                          *)
(***************************************************************************)
LEMMA OrderNewDB ==
    ASSUME StoreInv, OrderInv, TypeInv', NewDB
    PROVE  OrderInv'
<1>1. PICK r : r = <<Edit(0, 2, 0, {}, {})>>
  OBVIOUS
<1>2. PICK created : created = Create(Manifest(1))
  OBVIOUS
<1>3. /\ phase = "down" /\ dir.current = 0 /\ Written(Manifest(1), r)
      /\ dir' = [created EXCEPT !.current = 1]
      /\ older' = older \cup {dir, created} /\ UNCHANGED openVars
  BY <1>1, <1>2 DEF NewDB
<1>4. TypeInv /\ Promise /\ dir \in Dirs /\ MayCrash /\ phase' = "down"
  BY <1>3, DownIs DEF openVars
<1>5. LogsIn(dir) = {}
  BY <1>3, <1>4 DEF Promise, AllKeep, Keeps
<1>6. created.current = 0 /\ dir'.current = 1 /\ LogsIn(dir') = {}
  <2>1. /\ created.current = 0 /\ created.files = dir.files \cup {Manifest(1)}
        /\ dir'.current = 1 /\ dir'.files = created.files
    BY <1>2, <1>3, <1>4 DEF Create, TypeInv, DirsOK, DirType
  <2>2. Manifest(1)[1] # "log"
    BY DEF Manifest
  <2>3. {g \in created.files : g[1] = "log"} = {g \in dir.files : g[1] = "log"}
    BY <2>1, <2>2
  <2> QED BY <1>5, <2>1, <2>3 DEF LogsIn, Of
<1>7. \A e \in Dirs' : e = dir \/ e = created \/ e = dir'
  <2>1. older = {}
    BY <1>3 DEF StoreInv, DiskInv, NoDir
  <2> QED BY <1>3, <2>1 DEF Dirs
<1>8. data'[Manifest(1)] = r /\ Len(r) = 1 /\ TablesAt(r, 1) = {}
  <2>1. Manifest(1) \in Files
    BY NumbersAre, FileIs DEF Numbers
  <2>2. data'[Manifest(1)] = r
    BY <1>3, <1>4, <2>1, FunctionChanges DEF Written, TypeInv, DiskType, FilesOK
  <2>3. PICK e : e = Edit(0, 2, 0, {}, {})
    OBVIOUS
  <2>4. r = <<e>> /\ e.next = 2 /\ e.add = {}
    BY <1>1, <2>3 DEF Edit
  <2> QED BY <2>2, <2>4, EmptyManifest
<1>9. OrderDirs'
  <2> SUFFICES ASSUME NEW e \in Dirs'
               PROVE  OrderedDir(e, data', synced')
    BY DEF OrderDirs, AllOrdered
  <2>1. CASE e = dir \/ e = created
    BY <1>3, <1>6, <2>1 DEF OrderedDir
  <2>2. CASE e = dir'
    <3>1. data'[Manifest(e.current)] = r
      BY <1>6, <1>8, <2>2
    <3>2. SUFFICES ASSUME NEW k \in 1..Len(r)
                   PROVE  OrderedAt(k, e, data')
      BY <3>1 DEF OrderedDir
    <3>3. k = 1
      BY <1>8, <3>2
    <3>4. \A l : LogsFrom(e, l) = {}
      BY <1>6, <2>2 DEF LogsFrom, LogsIn
    <3>5. /\ InOrder({}, data') /\ LogsInOrder({}, {}, data')
          /\ \A l : UpTo(EntriesOf({}, data'), l)
      BY DEF InOrder, LogsInOrder, UpTo, EntriesOf
    <3> QED BY <1>8, <3>1, <3>3, <3>4, <3>5 DEF OrderedAt
  <2> QED BY <1>7, <2>1, <2>2
<1>10. OpenOrder'
  BY <1>4 DEF OpenOrder
<1> QED BY <1>4, <1>9, <1>10, NotUp

\* The last record with a sequence number says up to which number tables go.
LEMMA LastIsLast ==
    ASSUME NEW R, Len(R) \in Nat, DOMAIN R = 1..Len(R), Len(R) > 0, R[Len(R)].last # 0
    PROVE  ReplayedLast(R) = R[Len(R)].last
<1> DEFINE having == {i \in DOMAIN R : R[i].last # 0}
<1>1. having \subseteq 0..Len(R) /\ Len(R) \in having
  OBVIOUS
<1>2. ReplayedLast(R) = R[Max(having)].last
  BY <1>1 DEF ReplayedLast, LastOf
<1> HIDE DEF having
<1>3. Max(having) \in having /\ Max(having) >= Len(R)
  BY <1>1, RangeMax
<1>4. Max(having) \in 0..Len(R)
  BY <1>1, <1>3
<1>5. Max(having) = Len(R)
  BY <1>3, <1>4
<1> QED BY <1>2, <1>5

LEMMA OrderOpenManifest ==
    ASSUME StoreInv, OrderInv, TypeInv', OpenManifest
    PROVE  OrderInv'
<1>1. PICK R : R = Here
  OBVIOUS
<1>2. phase = "down" /\ dir.current # 0 /\ UNCHANGED diskVars /\ UNCHANGED faults
  BY DEF OpenManifest, historyVars
<1>3. TypeInv /\ MayCrash /\ mem_ = {} /\ dir \in Dirs
  BY <1>2, DownIs
<1>4. Readable(R) /\ ReplayedTables(R) \subseteq Numbers
  BY <1>1, <1>2, ManifestReads DEF StoreInv
<1>5. /\ phase' = "open" /\ todo' = LogsFrom(dir, ReplayedLog(R))
      /\ current_' = ReplayedTables(R) /\ last_sequence_' = ReplayedLast(R)
      /\ apply' = NoApply /\ mem_' = {}
  BY <1>1, <1>3, <1>4 DEF OpenManifest, Here
<1>6. /\ UNCHANGED <<dir, older, data, synced>> /\ Dirs' = Dirs
      /\ apply'.pc = "none" /\ apply'.edit.add = {}
  BY <1>2, <1>5 DEF diskVars, Dirs, NoApply, Edit
<1>7. /\ GoodDir(dir, data, synced) /\ OrderedDir(dir, data, synced)
      /\ AllOrdered(Dirs, data, synced)
  BY <1>3 DEF StoreInv, DiskInv, DirsGood, AllGood, OrderInv, OrderDirs, AllOrdered
<1>8. /\ Len(R) \in Nat /\ DOMAIN R = 1..Len(R) /\ Len(R) > 0
      /\ synced[Manifest(dir.current)] <= Len(R) /\ ReplayedLog(R) = R[Len(R)].log
  <2>1. Keeps(dir, data, synced, Held, hard)
    BY <1>3 DEF StoreInv, HeldInv, Promise, AllKeep
  <2>2. /\ ReplayedLog(R) = R[Len(R)].log /\ Len(R) > 0 /\ Len(R) \in Nat
        /\ synced[Manifest(dir.current)] <= Len(R)
    BY <1>1, <1>2, <1>3, <1>7, <2>1, RecoverableIs
  <2>3. DOMAIN R = 1..Len(R)
    BY <1>1, <1>2, <1>3, ManifestOf DEF Here
  <2> QED BY <2>2, <2>3
<1>9. PICK T : T = ReplayedTables(R)
  OBVIOUS
<1>10. T = TablesAt(R, Len(R)) /\ T \subseteq Numbers
  BY <1>4, <1>8, <1>9, TablesAtFull
<1>11. /\ InOrder(T, data) /\ LogsInOrder(T, todo', data)
       /\ UpTo(EntriesOf(T, data), R[Len(R)].last)
  <2>1. OrderedAt(Len(R), dir, data)
    BY <1>1, <1>2, <1>7, <1>8 DEF OrderedDir, Here
  <2> QED BY <1>1, <1>5, <1>8, <1>10, <2>1 DEF OrderedAt, Here
<1>12. UpTo(EntriesOf(T, data), last_sequence_')
  <2>1. CASE R[Len(R)].last # 0
    BY <1>5, <1>8, <1>11, <2>1, LastIsLast
  <2>2. CASE R[Len(R)].last = 0
    <3>1. \A e \in EntriesOf(T, data) : e \in Entry
      BY <1>3, <1>10, ContentsAre, InTablesAre DEF EntriesOf
    <3>2. \A e \in Entry : ~ (e.seq <= 0)
      <4>1. \A s \in 1..MaxWrites : ~ (s <= 0)
        BY BoundsAssumption
      <4> QED BY <4>1 DEF Entry
    <3> QED BY <1>11, <2>2, <3>1, <3>2 DEF UpTo
  <2> QED BY <2>1, <2>2
<1>13. OpenTables' = T
  BY <1>5, <1>6, <1>9 DEF OpenTables
<1>14. OpenOrder'
  <2>1. Older(EntriesOf(T, data), {})
    BY DEF Older
  <2>2. UpTo(EntriesOf(T, data) \cup {}, last_sequence_')
    BY <1>12
  <2> QED BY <1>5, <1>6, <1>11, <1>13, <2>1, <2>2 DEF OpenOrder
<1>15. OrderDirs'
  BY <1>6, <1>7 DEF OrderDirs
<1> QED BY <1>5, <1>14, <1>15, NotUp

LEMMA OrderGone ==
    ASSUME StoreInv, OrderInv, TypeInv', OpenFails \/ ProcessCrash
    PROVE  OrderInv'
<1>1. Forget /\ Fault /\ UNCHANGED <<diskVars, writes, hard>>
  BY DEF OpenFails, ProcessCrash
<1>2. phase' = "down" /\ MayCrash /\ UNCHANGED <<dir, older, data, synced>>
  <2>1. faults < MaxFaults
    BY <1>1 DEF Fault
  <2> QED BY <1>1, <2>1 DEF Forget, MayCrash, diskVars
<1>3. OrderDirs' /\ OpenOrder'
  BY <1>2 DEF OrderInv, OrderDirs, OpenOrder, Dirs
<1> QED BY <1>2, <1>3, NotUp

LEMMA OrderApplyFailsOpen ==
    ASSUME StoreInv, OrderInv, TypeInv', ApplyFailsOpen
    PROVE  OrderInv'
<1>1. /\ apply.pc \in {"append", "sync", "current"} /\ Fault /\ apply.owner = "open"
      /\ RecordOfFailedApply /\ Forget
  BY DEF ApplyFailsOpen, ApplyError
<1>2. MayCrash /\ phase = "open" /\ phase' = "down" /\ TypeInv
  <2>1. faults < MaxFaults
    BY <1>1 DEF Fault
  <2>2. TypeInv
    BY DEF StoreInv, DiskInv
  <2> QED BY <1>1, <2>1, <2>2 DEF Forget, MayCrash, TypeInv, PhaseType
<1>3. /\ Runs /\ dir.current # 0 /\ manifest_file_number_ \in Numbers
  BY <1>2, OpenIs
<1>4. ~has_descriptor_ /\ \A d \in Dirs : d.current < manifest_file_number_
  BY <1>1, <1>2, <1>3 DEF StoreInv, DiskInv, Descriptor
<1>5. PICK f : f = Manifest(manifest_file_number_)
  OBVIOUS
<1>6. ChangeDir([dir EXCEPT !.files = @ \ {f}]) /\ UNCHANGED <<data, synced>>
  BY <1>4, <1>5 DEF ApplyFailsOpen, RecordOfFailedApply
<1>7. /\ dir' = [dir EXCEPT !.files = @ \ {f}] /\ Dirs' \subseteq Dirs \cup {dir'}
  BY <1>2, <1>6, ChangeDirIs DEF TypeInv, DirsOK, DirType
<1>8. Just(f) /\ \A n : f # TableFile(n) /\ f # Log(n)
  <2>1. f \in Files
    BY <1>3, <1>5, FileIs
  <2> QED BY <1>2, <1>5, <1>6, <1>7, <2>1, JustIs, FilesApart
<1>9. \A d \in Dirs : f \notin Uses(d, data)
  <2>1. \A d \in Dirs : d.current # manifest_file_number_
    BY <1>3, <1>4, NumbersAre
  <2> QED BY <1>2, <1>5, <2>1, NotUsed
<1>10. NoLogOf(Dirs, f)
  BY <1>8 DEF NoLogOf
<1>11. OrderDirs'
  BY <1>2, <1>3, <1>8, <1>9, <1>10, OrderFramed DEF OrderInv
<1>12. OpenOrder'
  BY <1>2 DEF OpenOrder
<1> QED BY <1>2, <1>11, <1>12, NotUp

\* What a crash of the machine leaves of a directory is in order.
LEMMA CrashInOrder ==
    ASSUME StoreInv, OrderInv, TypeInv', MachineCrash, ~CrashWhenNew, faults < MaxFaults,
           dir'.current # 0
    PROVE  OrderedDir(dir', data', synced')
<1> DEFINE m == Manifest(dir'.current)
           R == data[m]
           Q == data'[m]
           k == Len(Q)
<1>1. /\ TypeInv /\ MayCrash /\ dir' \in Dirs /\ FirstManifestOnDisk(dir') /\ dir' \in DirType
  BY CrashLeaves DEF StoreInv, DiskInv, MayCrash, Dirs, TypeInv, DirsOK
<1>2. GoodDir(dir', data, synced) /\ OrderedDir(dir', data, synced)
  BY <1>1 DEF StoreInv, DiskInv, DirsGood, AllGood, OrderInv, OrderDirs, AllOrdered
<1>3. m \in dir'.files /\ synced[m] > 0
  <2>1. m \in dir'.files /\ (dir'.current # 1 => synced[m] > 0)
    BY <1>2 DEF GoodDir, GoodManifest
  <2> QED BY <1>1, <2>1 DEF FirstManifestOnDisk
<1>4. /\ k \in Nat /\ synced'[m] = k /\ Len(R) \in Nat
      /\ synced[m] \in Nat /\ synced[m] <= k /\ k <= Len(R) /\ \A i \in 1..k : Q[i] = R[i]
  BY <1>1, <1>3, CrashPrefix
<1>5. k > 0 /\ k \in 1..Len(R)
  BY <1>3, <1>4
<1>6. OrderedAt(k, dir', data)
  BY <1>2, <1>4, <1>5 DEF OrderedDir
<1>7. \A n \in TablesAt(R, k) : data'[TableFile(n)] = data[TableFile(n)]
  <2> SUFFICES ASSUME NEW n \in TablesAt(R, k)
               PROVE  data'[TableFile(n)] = data[TableFile(n)]
    OBVIOUS
  <2>1. RecoversAt(k, dir', R, data, synced)
    BY <1>2, <1>4, <1>5 DEF GoodDir, GoodManifest
  <2>2. TableFile(n) \in dir'.files /\ synced[TableFile(n)] = Len(data[TableFile(n)])
    BY <2>1 DEF RecoversAt, Has, CompleteIn
  <2> QED BY <1>1, <2>2, CrashPrefix
<1>8. \A l \in LogsFrom(dir', R[k].log) : LogEntries(l, data') \subseteq LogEntries(l, data)
  <2> SUFFICES ASSUME NEW l \in LogsIn(dir')
               PROVE  LogEntries(l, data') \subseteq LogEntries(l, data)
    BY DEF LogsFrom, LogsIn
  <2>1. Log(l) \in dir'.files
    BY <1>1, LogsAre
  <2>2. PICK f : f = Log(l)
    OBVIOUS
  <2>3. /\ Len(data'[f]) \in Nat /\ DOMAIN data'[f] = 1..Len(data'[f])
        /\ Len(data[f]) \in Nat /\ DOMAIN data[f] = 1..Len(data[f])
        /\ Len(data'[f]) <= Len(data[f])
        /\ \A i \in 1..Len(data'[f]) : data'[f][i] = data[f][i]
    BY <1>1, <2>1, <2>2, CrashPrefix
  <2>4. DOMAIN data'[f] \subseteq DOMAIN data[f]
    BY <2>3
  <2> QED BY <2>2, <2>3, <2>4 DEF LogEntries
<1> HIDE DEF k, R, Q
<1>9. OrderedAt(k, dir', data')
  <2>1. \A i \in 1..k : data'[Manifest(dir'.current)][i] = R[i]
    BY <1>4 DEF Q
  <2>2. R = data[Manifest(dir'.current)]
    BY DEF R
  <2> QED BY <1>4, <1>5, <1>6, <1>7, <1>8, <2>1, <2>2, OrderedAtKept
<1> SUFFICES ASSUME NEW j \in 1..k, k <= j
             PROVE  OrderedAt(j, dir', data')
  BY <1>4 DEF OrderedDir, k, Q
<1>10. j = k
  BY <1>4
<1> QED BY <1>9, <1>10

LEMMA OrderMachineCrash ==
    ASSUME StoreInv, OrderInv, TypeInv', MachineCrash, ~CrashWhenNew
    PROVE  OrderInv'
<1>1. /\ older' = {} /\ phase' = "down" /\ faults < MaxFaults
  BY DEF MachineCrash, Forget, Fault
<1>2. Dirs' = {dir'}
  BY <1>1 DEF Dirs
<1>3. OrderedDir(dir', data', synced')
  <2>1. CASE dir'.current # 0
    BY <1>1, <2>1, CrashInOrder
  <2>2. CASE dir'.current = 0
    BY <2>2 DEF OrderedDir
  <2> QED BY <2>1, <2>2
<1>4. OrderDirs' /\ OpenOrder'
  BY <1>1, <1>2, <1>3 DEF OrderDirs, AllOrdered, OpenOrder
<1> QED BY <1>1, <1>4, NotUp

-----------------------------------------------------------------------------
(***************************************************************************)
(* The order of the tables.                                                *)
(***************************************************************************)
LEMMA OrderStutters ==
    ASSUME OrderInv, UNCHANGED vars
    PROVE  OrderInv'
<1>1. /\ UNCHANGED <<dir, older, data, synced, phase, todo, mem_, imm_, has_imm_>>
      /\ UNCHANGED <<logfile_number_, last_sequence_, current_, flush, c, apply, faults>>
  BY DEF vars, diskVars, memVars, openVars, versionVars, bgVars, historyVars
<1>2. /\ Dirs' = Dirs /\ MayCrash' = MayCrash /\ OpenTables' = OpenTables /\ Store' = Store
      /\ Recorded' = Recorded /\ NextLogThere' = NextLogThere
  BY <1>1 DEF Dirs, MayCrash, OpenTables, Store, InTables, Contents, Recorded, Here, NextLogThere
<1>3. OrderDirs'
  BY <1>1, <1>2 DEF OrderInv, OrderDirs
<1>4. OpenOrder'
  BY <1>1, <1>2 DEF OrderInv, OpenOrder
<1>5. /\ BaseIsOldest(current_)' = BaseIsOldest(current_)
      /\ BaseIsOldest(Recorded)' = BaseIsOldest(Recorded)
      /\ IsDeep(flush)' = IsDeep(flush) /\ IsDeep(c.output)' = IsDeep(c.output)
  BY <1>1, <1>2 DEF BaseIsOldest, IsDeep
<1>6. UpOrder'
  BY <1>1, <1>2, <1>5 DEF OrderInv, UpOrder
<1>7. RecordedOrder'
  BY <1>1, <1>2, <1>5 DEF OrderInv, RecordedOrder
<1> QED BY <1>3, <1>4, <1>6, <1>7 DEF OrderInv

LEMMA OrderStep ==
    ASSUME ReuseFrom >= MaxFaults, ~CrashWhenNew, StoreInv, OrderInv, TypeInv', [Next]_vars
    PROVE  OrderInv'
<1>1. CASE LogAndApply
  BY <1>1, OrderApplyAppend, OrderApplySync, OrderSetCurrentFile, OrderInstallOpen,
     OrderInstallFlush, OrderInstallCompaction, OrderApplyFailsOpen, OrderApplyFailsBackground
  DEF LogAndApply
<1>2. CASE Running
  <2>1. CASE \E sync \in BOOLEAN : Put(sync)
    <3>1. PICK sync \in BOOLEAN : Put(sync)
      BY <2>1
    <3> QED BY <3>1, OrderPut
  <2>2. CASE SwitchMemTable \/ StartFlush \/ FinishFlush \/ FlushFails
    BY <2>2, OrderSwitchMemTable, OrderStartFlush, OrderFinishFlush, OrderFlushFails
  <2>3. CASE StartCompaction \/ FinishCompaction \/ CompactionFails \/ Pin \/ Unpin
    BY <2>3, OrderStartCompaction, OrderFinishCompaction, OrderQuietBackground
  <2> QED BY <1>2, <2>1, <2>2, <2>3 DEF Running
<1>3. CASE Opening
  BY <1>3, OrderNewDB, OrderOpenManifest, OrderReuseLog, OrderRecoverLogFile, OrderGone,
     OrderNewLog, OrderOpenApply, OrderOpenWithoutApply DEF Opening
<1>4. CASE ProcessCrash
  BY <1>4, OrderGone
<1>5. CASE MachineCrash
  BY <1>5, OrderMachineCrash
<1>6. CASE UNCHANGED vars
  BY <1>6, OrderStutters
<1> QED BY <1>1, <1>2, <1>3, <1>4, <1>5, <1>6 DEF Next

LEMMA OrderInit ==
    ASSUME Init
    PROVE  OrderInv
<1>1. dir.current = 0 /\ older = {} /\ phase = "down"
  BY DEF Init
<1>2. Dirs = {dir}
  BY <1>1 DEF Dirs
<1> QED BY <1>1, <1>2 DEF OrderInv, OrderDirs, AllOrdered, OrderedDir, OpenOrder, UpOrder,
                         RecordedOrder

LEMMA OrderIsKept ==
    OrderInv => TablesInOrder
<1> SUFFICES ASSUME OrderInv, phase = "up"
             PROVE  TablesInOrder
  BY DEF TablesInOrder
<1>1. /\ Older(InTables(current_), imm_ \cup mem_) /\ Older(imm_, mem_)
      /\ InOrder(current_, data)
  BY InTablesAre DEF OrderInv, UpOrder
<1>2. \A n : (IsDeep(n) <=> OldIn(n, data)) /\ Contents(n) = TableEntries(n, data)
  BY DeepIs, InTablesAre
<1>3. \A n \in current_ \ LevelZero, m \in LevelZero : Older(Contents(n), Contents(m))
  BY <1>1, <1>2 DEF LevelZero, InOrder
<1>4. \A n, m \in LevelZero :
          n < m => Older(Contents(n), Contents(m)) \/ Contents(m) \subseteq Contents(n)
  BY <1>1, <1>2 DEF LevelZero, InOrder
<1> QED BY <1>1, <1>3, <1>4 DEF TablesInOrder

\* Memtables are newer than tables, tables of level 0 newer than deeper ones, and in
\* level 0 what has the greater number is newer, or repeats a part of the other:
\* whatever crashes, errors, flushes that are done again and logs that are read again
\* leave behind.  Assumed as for TablesStay.
THEOREM TablesComeInOrder ==
    ASSUME ReuseFrom >= MaxFaults, ~CrashWhenNew
    PROVE  Spec => []TablesInOrder
<1> DEFINE Inv == StoreInv /\ OrderInv
<1>1. Init => Inv
  BY StoreInit, OrderInit
<1>2. Inv /\ [Next]_vars => Inv'
  <2> SUFFICES ASSUME Inv, [Next]_vars
               PROVE  Inv'
    OBVIOUS
  <2>1. StoreInv'
    BY StoreStep
  <2>2. TypeInv'
    BY <2>1 DEF StoreInv, DiskInv
  <2>3. OrderInv'
    BY <2>2, OrderStep
  <2> QED BY <2>1, <2>3
<1>3. Inv => TablesInOrder
  BY OrderIsKept
<1> HIDE DEF Inv
<1> QED BY <1>1, <1>2, <1>3, PTL DEF Spec
=============================================================================
