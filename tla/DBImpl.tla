------------------------------- MODULE DBImpl -------------------------------
(***************************************************************************)
(* The concurrency core of leveldb: db/db_impl.cc.                         *)
(*                                                                         *)
(* Client threads call Write (a Put, a Delete, a WriteBatch),              *)
(* TEST_CompactMemTable and TEST_CompactRange; one background thread runs  *)
(* BackgroundCall; the destructor waits for it.  They share the fields     *)
(* that DBImpl::mutex_ protects and wait on two kinds of condition         *)
(* variables: one per Writer, and bg_cv_.                                  *)
(*                                                                         *)
(* A definition that stands right before another one with the same         *)
(* parameters, and is used nowhere, is a faulty variant of it: the fault   *)
(* is one that a property below rules out.                                 *)
(*                                                                         *)
(* A step is what one thread does between two points where another thread  *)
(* can see the state: a critical section of mutex_, or one I/O call made   *)
(* with mutex_ released.  A critical section that the model cuts in two    *)
(* keeps mutex_ in between.                                                *)
(*                                                                         *)
(* Keys and values are left out: an entry of a memtable, of a log or of a  *)
(* table is its sequence number.  Table files are left out too, except for *)
(* what they hold (flushed) and for the number of level-0 files (l0).      *)
(***************************************************************************)
EXTENDS Integers, Sequences, FiniteSets

CONSTANTS
    Threads,            \* client threads
    None,               \* no thread
    Dtor,               \* the thread that runs ~DBImpl
    Requests,           \* the calls a client may make, see AnyRequest
    MaxCalls,           \* bound: calls made in one behaviour
    MaxKeys,            \* bound: loop iterations of DoCompactionWork that look at imm_
    MaxParts,           \* bound: compactions that one manual compaction takes
    Failures,           \* the I/O calls that may fail, a subset of AllFailures
    WriteBufferSize,    \* options_.write_buffer_size, in entries
    SmallBatch,         \* 128<<10, the growth allowed to a small batch group
    LargeBatch,         \* 1<<20, the size allowed to a large batch group
    L0CompactionTrigger, L0SlowdownWritesTrigger, L0StopWritesTrigger

AllFailures == {"append", "sync", "newlog", "table", "manifest"}

\* Arguments of the calls.  count is the number of operations of the batch;
\* a "flush" is TEST_CompactMemTable, which calls Write(WriteOptions(), NULL);
\* a "manual" is TEST_CompactRange.
AnyRequest == [kind : {"put", "flush", "manual"}, sync : BOOLEAN, count : Nat]

ASSUME ThreadsAssumption ==
    /\ None \notin Threads
    /\ Dtor \notin Threads

ASSUME RequestsAssumption ==
    /\ Requests \subseteq AnyRequest
    /\ \A r \in Requests : r.kind # "put" => r.count = 0 /\ ~r.sync

ASSUME BoundsAssumption ==
    /\ MaxCalls \in Nat /\ MaxKeys \in Nat /\ MaxParts \in Nat
    /\ Failures \subseteq AllFailures
    /\ WriteBufferSize \in Nat /\ SmallBatch \in Nat /\ LargeBatch \in Nat

\* db/dbformat.h gives 4, 8 and 12.
ASSUME TriggersAssumption ==
    /\ L0CompactionTrigger \in Nat \ {0}
    /\ L0SlowdownWritesTrigger \in Nat
    /\ L0StopWritesTrigger \in Nat
    /\ L0CompactionTrigger <= L0StopWritesTrigger

VARIABLES
    mutex_,             \* client thread that holds mutex_ between two steps, or None
    writers_,           \* queue of Writer*
    cv_waiting,         \* writers asleep on their own Writer::cv
    bg_cv_waiting,      \* threads asleep on bg_cv_
    pc,                 \* where each client thread is
    req,                \* the arguments of its call
    done,               \* Writer::done
    status,             \* the Status its call returned, or Writer::status
    allow_delay, force, \* locals of MakeRoomForWrite
    group,              \* the leader's batch group: members, bytes, first sequence, count
    inserted,           \* how many entries of it InsertInto has added
    mem_, imm_,         \* memtables, as sets of sequence numbers
    has_imm_,           \* imm_ # NULL
    last_sequence_,     \* VersionSet::last_sequence_
    logfile_number_,    \* the log that log_ appends to
    torn,               \* log_->block_offset_ may differ from the file's end
    wal,                \* <<log, sequence>> of the entries recovery can read back
    synced,             \* sequence numbers whose log record is on stable storage
    log_number_,        \* VersionSet::log_number_: older logs are obsolete
    flushed,            \* sequence numbers in the tables of the current version
    l0,                 \* NumLevelFiles(0)
    bg_error_,          \* the first background error, or "ok"
    shutting_down_,
    dtor,               \* progress of ~DBImpl
    bg,                 \* the background thread
    manual_compaction_, \* the thread whose request is registered, or None
    parts,              \* compactions its remaining range still needs
    calls,              \* bounds the behaviour
    acked, ackedSync,   \* history: entries of writes that returned OK
    batches             \* history: the sequence numbers of each batch group

queueVars  == <<writers_, cv_waiting, done>>
localVars  == <<allow_delay, force, group, inserted>>
memVars    == <<mem_, imm_, has_imm_>>
logVars    == <<logfile_number_, torn, wal, synced>>
versionVars == <<log_number_, flushed, l0>>
manualVars == <<manual_compaction_, parts>>
historyVars == <<acked, ackedSync, batches>>
vars == <<mutex_, queueVars, bg_cv_waiting, pc, req, status, localVars, memVars,
          last_sequence_, logVars, versionVars, bg_error_, shutting_down_, dtor,
          bg, manualVars, calls, historyVars>>

-----------------------------------------------------------------------------
(***************************************************************************)
(* Types and initial state: what DB::Open leaves behind.                   *)
(***************************************************************************)
NoRequest == [kind |-> "put", sync |-> FALSE, count |-> 0]
NoGroup   == [n |-> 0, bytes |-> 0, first |-> 0, count |-> 0]

\* The background thread: pc, the compaction it runs (c), the level-0 inputs
\* of that compaction, the loop iterations left, and the log number that the
\* edit of CompactMemTable captured.
IdleBg == [pc |-> "off", c |-> "none", inputs |-> 0, keys |-> 0, log |-> 0]
bg_compaction_scheduled_ == bg.pc # "off"

ClientPC == {"idle", "queued", "room", "sleep", "roomwait", "group", "append",
             "sync", "insert", "failed", "syncfailed",
             "flushcheck", "manual"}
BgPC == {"off", "scheduled", "build", "applymem", "work", "applytable", "crashed"}
BgStates == [pc : BgPC, c : {"none", "auto", "manual", "move"}, inputs : Nat,
             keys : Nat, log : Nat]

HasWork == \/ has_imm_
           \/ manual_compaction_ # None
           \/ l0 >= L0CompactionTrigger      \* NeedsCompaction()

Init ==
    /\ mutex_ = None
    /\ writers_ = <<>> /\ cv_waiting = {} /\ bg_cv_waiting = {}
    /\ pc = [t \in Threads |-> "idle"]
    /\ req = [t \in Threads |-> NoRequest]
    /\ done = [t \in Threads |-> FALSE]
    /\ status = [t \in Threads |-> "none"]
    /\ allow_delay = [t \in Threads |-> FALSE]
    /\ force = [t \in Threads |-> FALSE]
    /\ group = [t \in Threads |-> NoGroup]
    /\ inserted = [t \in Threads |-> 0]
    /\ mem_ = {} /\ imm_ = {} /\ has_imm_ = FALSE
    /\ last_sequence_ = 0
    /\ logfile_number_ = 1 /\ log_number_ = 1 /\ torn = FALSE
    /\ wal = {} /\ synced = {} /\ flushed = {}
    /\ l0 \in 0..L0StopWritesTrigger
    /\ bg_error_ = "ok" /\ shutting_down_ = FALSE /\ dtor = "open"
    /\ manual_compaction_ = None
    /\ parts = [t \in Threads |-> 0]
    /\ bg = [IdleBg EXCEPT !.pc = IF HasWork THEN "scheduled" ELSE "off"]
    /\ calls = 0
    /\ acked = {} /\ ackedSync = {} /\ batches = <<>>

-----------------------------------------------------------------------------
(***************************************************************************)
(* The helpers that run inside a critical section.                         *)
(***************************************************************************)
SchedulesOnlyImm(p) ==
    IF p = "off" /\ ~shutting_down_' /\ bg_error_' = "ok" /\ has_imm_'
    THEN "scheduled"
    ELSE p

\* The state of the background thread after MaybeScheduleCompaction, called
\* where the thread is at p and the fields have their new values.
MaybeScheduleCompaction(p) ==
    IF p = "off" /\ ~shutting_down_' /\ bg_error_' = "ok" /\ HasWork'
    THEN "scheduled"
    ELSE p

\* RecordBackgroundError keeps the first error and signals bg_cv_ for it.
RecordBackgroundError(e) ==
    IF bg_error_ = "ok"
    THEN bg_error_' = e /\ bg_cv_waiting' = {}
    ELSE UNCHANGED <<bg_error_, bg_cv_waiting>>

Fails(io) == io \in Failures

\* Client t is at one of these points of a process that is alive.
At(t, points) == pc[t] \in points /\ bg.pc # "crashed"

\* Where a call goes when Write returns st: TEST_CompactMemTable goes on to
\* wait for the compaction.
AfterWrite(t, st) ==
    IF req[t].kind = "flush" /\ st = "ok" THEN "flushcheck" ELSE "idle"

\* WriteBatchInternal::ByteSize: a header and the operations.
ByteSize(t) == 1 + req[t].count

\* The sequence numbers of a batch group.
Seqs(g) == g.first .. g.first + g.count - 1

\* The writers that the end of Write signals: the members of the group, whose
\* batches are done, and the new head of the queue.
SignalledMembersOnly(members, rest) == members
Signalled(members, rest) ==
    members \cup (IF rest = <<>> THEN {} ELSE {Head(rest)})

\* The end of Write: pops the group of the leader t and itself, hands st to
\* the members, wakes them and the new head, and releases mutex_.
LeaveQueue(t, n, st) ==
    LET members == {writers_[i] : i \in 1..n}
        rest    == SubSeq(writers_, n + 1, Len(writers_))
    IN  /\ writers_' = rest
        /\ done' = [u \in Threads |-> done[u] \/ u \in members \ {t}]
        /\ status' = [u \in Threads |-> IF u \in members THEN st ELSE status[u]]
        /\ cv_waiting' = cv_waiting \ Signalled(members, rest)
        /\ pc' = [pc EXCEPT ![t] = AfterWrite(t, st)]
        /\ mutex_' = None
        /\ allow_delay' = [allow_delay EXCEPT ![t] = FALSE]
        /\ force' = [force EXCEPT ![t] = FALSE]
        /\ group' = [group EXCEPT ![t] = NoGroup]
        /\ inserted' = [inserted EXCEPT ![t] = 0]

-----------------------------------------------------------------------------
(***************************************************************************)
(* DBImpl::Write and MakeRoomForWrite.                                     *)
(***************************************************************************)
LeadsBehindOne == Len(writers_) <= 1
LeadsAtOnce    == writers_ = <<>>

\* Write pushes its Writer and goes on at once, with mutex_, when it is the
\* only one; otherwise it sleeps on its own cv.
Write(t, r) ==
    /\ At(t, {"idle"}) /\ mutex_ = None /\ dtor = "open" /\ calls < MaxCalls
    /\ r.kind # "manual"
    /\ calls' = calls + 1
    /\ req' = [req EXCEPT ![t] = r]
    /\ done' = [done EXCEPT ![t] = FALSE]
    /\ status' = [status EXCEPT ![t] = "none"]
    /\ writers_' = Append(writers_, t)
    /\ allow_delay' = [allow_delay EXCEPT ![t] = r.kind # "flush"]
    /\ force' = [force EXCEPT ![t] = r.kind = "flush"]
    /\ IF LeadsAtOnce
       THEN /\ pc' = [pc EXCEPT ![t] = "room"]
            /\ mutex_' = t
            /\ UNCHANGED cv_waiting
       ELSE /\ pc' = [pc EXCEPT ![t] = "queued"]
            /\ cv_waiting' = cv_waiting \cup {t}
            /\ UNCHANGED mutex_
    /\ UNCHANGED <<bg_cv_waiting, group, inserted, memVars, last_sequence_, logVars,
                   versionVars, bg_error_, shutting_down_, dtor, bg, manualVars,
                   acked, ackedSync, batches>>

\* A writer that its leader has served returns the leader's status.
ReturnDone(t) ==
    /\ At(t, {"queued"}) /\ t \notin cv_waiting /\ mutex_ = None
    /\ done[t]
    /\ pc' = [pc EXCEPT ![t] = AfterWrite(t, status[t])]
    /\ UNCHANGED <<mutex_, queueVars, bg_cv_waiting, req, status, localVars, memVars,
                   last_sequence_, logVars, versionVars, bg_error_, shutting_down_,
                   dtor, bg, manualVars, calls, historyVars>>

\* A writer that has become the head of the queue goes on with mutex_.
BecomeLeader(t) ==
    /\ At(t, {"queued"}) /\ t \notin cv_waiting /\ mutex_ = None
    /\ ~done[t] /\ Head(writers_) = t
    /\ pc' = [pc EXCEPT ![t] = "room"]
    /\ mutex_' = t
    /\ UNCHANGED <<queueVars, bg_cv_waiting, req, status, localVars, memVars,
                   last_sequence_, logVars, versionVars, bg_error_, shutting_down_,
                   dtor, bg, manualVars, calls, historyVars>>

\* The guards of MakeRoomForWrite's loop, in the order the code tests them.
Delays(t)     == allow_delay[t] /\ l0 >= L0SlowdownWritesTrigger
MemHasRoom(t) == ~force[t] /\ Cardinality(mem_) <= WriteBufferSize
MustWaitForL0 == l0 >= L0StopWritesTrigger
MustWait      == has_imm_ \/ l0 >= L0StopWritesTrigger
IgnoresSync   == bg_error_ \in {"ok", "sync"}
NoError       == bg_error_ = "ok"

\* The write fails with the background error.
RoomError(t) ==
    /\ At(t, {"room"}) /\ ~NoError
    /\ LeaveQueue(t, 1, "error")
    /\ UNCHANGED <<bg_cv_waiting, req, memVars, last_sequence_, logVars, versionVars,
                   bg_error_, shutting_down_, dtor, bg, manualVars, calls, historyVars>>

\* Many level-0 files: sleep 1ms without mutex_, once per write.
RoomDelay(t) ==
    /\ At(t, {"room"}) /\ NoError /\ Delays(t)
    /\ pc' = [pc EXCEPT ![t] = "sleep"]
    /\ mutex_' = None
    /\ allow_delay' = [allow_delay EXCEPT ![t] = FALSE]
    /\ UNCHANGED <<queueVars, bg_cv_waiting, req, status, force, group, inserted, memVars,
                   last_sequence_, logVars, versionVars, bg_error_, shutting_down_,
                   dtor, bg, manualVars, calls, historyVars>>

\* bg_cv_.Wait(): the previous memtable is still being compacted, or there
\* are too many level-0 files.
RoomWait(t) ==
    /\ At(t, {"room"}) /\ NoError /\ ~Delays(t) /\ ~MemHasRoom(t) /\ MustWait
    /\ pc' = [pc EXCEPT ![t] = "roomwait"]
    /\ mutex_' = None
    /\ bg_cv_waiting' = bg_cv_waiting \cup {t}
    /\ UNCHANGED <<queueVars, req, status, localVars, memVars, last_sequence_, logVars,
                   versionVars, bg_error_, shutting_down_, dtor, bg, manualVars, calls,
                   historyVars>>

\* The leader, awake again, takes mutex_ and goes round the loop.
RoomAgain(t) ==
    /\ At(t, {"sleep", "roomwait"}) /\ t \notin bg_cv_waiting /\ mutex_ = None
    /\ pc' = [pc EXCEPT ![t] = "room"]
    /\ mutex_' = t
    /\ UNCHANGED <<queueVars, bg_cv_waiting, req, status, localVars, memVars,
                   last_sequence_, logVars, versionVars, bg_error_, shutting_down_,
                   dtor, bg, manualVars, calls, historyVars>>

MustSwitch(t) == NoError /\ ~Delays(t) /\ ~MemHasRoom(t) /\ ~MustWait

\* The new log file cannot be created: the write fails, nothing has changed.
SwitchFails(t) ==
    /\ At(t, {"room"}) /\ MustSwitch(t) /\ Fails("newlog")
    /\ LeaveQueue(t, 1, "error")
    /\ UNCHANGED <<bg_cv_waiting, req, memVars, last_sequence_, logVars, versionVars,
                   bg_error_, shutting_down_, dtor, bg, manualVars, calls, historyVars>>

\* A new log and a new memtable; the old memtable becomes imm_.
SwitchMemTable(t) ==
    /\ At(t, {"room"}) /\ MustSwitch(t)
    /\ logfile_number_' = logfile_number_ + 1
    /\ torn' = FALSE
    /\ imm_' = mem_ /\ has_imm_' = TRUE
    /\ mem_' = {}
    /\ force' = [force EXCEPT ![t] = FALSE]
    /\ UNCHANGED <<mutex_, queueVars, bg_cv_waiting, pc, req, status, allow_delay, group,
                   inserted, last_sequence_, wal, synced, versionVars, bg_error_,
                   shutting_down_, dtor, manualVars, calls, historyVars>>
    /\ bg' = [bg EXCEPT !.pc = MaybeScheduleCompaction(@)]

\* There is room.  A NULL batch is done; a real one starts its group.
RoomFound(t) ==
    /\ At(t, {"room"}) /\ NoError /\ ~Delays(t) /\ MemHasRoom(t)
    /\ IF req[t].kind = "flush"
       THEN LeaveQueue(t, 1, "ok")
       ELSE /\ pc' = [pc EXCEPT ![t] = "group"]
            /\ group' = [group EXCEPT ![t] =
                   [n |-> 1, bytes |-> ByteSize(t), first |-> last_sequence_ + 1,
                    count |-> req[t].count]]
            /\ UNCHANGED <<mutex_, queueVars, status, allow_delay, force, inserted>>
    /\ UNCHANGED <<bg_cv_waiting, req, memVars, last_sequence_, logVars, versionVars,
                   bg_error_, shutting_down_, dtor, bg, manualVars, calls, historyVars>>

-----------------------------------------------------------------------------
(***************************************************************************)
(* BuildBatchGroup, one writer per step and mutex_ held throughout.        *)
(***************************************************************************)
MaxBytes(t) ==
    IF ByteSize(t) <= SmallBatch THEN ByteSize(t) + SmallBatch ELSE LargeBatch

JoinsAnyGroup(t, u) ==
    req[u].kind = "put" => group[t].bytes + ByteSize(u) <= MaxBytes(t)

\* A sync write stays out of a group led by a non-sync one; a real batch must
\* fit; a NULL batch joins and adds nothing.
Joins(t, u) ==
    /\ req[u].sync => req[t].sync
    /\ req[u].kind = "put" => group[t].bytes + ByteSize(u) <= MaxBytes(t)

GroupGrows(t) ==
    /\ group[t].n < Len(writers_)
    /\ Joins(t, writers_[group[t].n + 1])

GrowGroup(t) ==
    /\ At(t, {"group"}) /\ GroupGrows(t)
    /\ LET u == writers_[group[t].n + 1]
       IN  group' = [group EXCEPT ![t] =
               [n     |-> @.n + 1,
                bytes |-> @.bytes + (IF req[u].kind = "put" THEN ByteSize(u) ELSE 0),
                first |-> @.first,
                count |-> @.count + req[u].count]]
    /\ UNCHANGED <<mutex_, queueVars, bg_cv_waiting, pc, req, status, allow_delay, force,
                   inserted, memVars, last_sequence_, logVars, versionVars, bg_error_,
                   shutting_down_, dtor, bg, manualVars, calls, historyVars>>

\* The group is complete; the leader releases mutex_ to write it.
CloseGroup(t) ==
    /\ At(t, {"group"}) /\ ~GroupGrows(t)
    /\ pc' = [pc EXCEPT ![t] = "append"]
    /\ mutex_' = None
    /\ batches' = Append(batches, Seqs(group[t]))
    /\ UNCHANGED <<queueVars, bg_cv_waiting, req, status, localVars, memVars,
                   last_sequence_, logVars, versionVars, bg_error_, shutting_down_,
                   dtor, bg, manualVars, calls, acked, ackedSync>>

-----------------------------------------------------------------------------
(***************************************************************************)
(* The leader's work without mutex_: log, sync, memtable.                  *)
(***************************************************************************)
\* log_->AddRecord.  Behind a torn record the reader may drop what follows:
\* block_offset_ no longer tells where the blocks of the file begin.
AppendRecord(t) ==
    /\ At(t, {"append"})
    /\ \/ wal' = wal \cup ({logfile_number_} \X Seqs(group[t]))
       \/ torn /\ wal' = wal
    /\ pc' = [pc EXCEPT ![t] = IF req[t].sync THEN "sync" ELSE "insert"]
    /\ UNCHANGED <<mutex_, queueVars, bg_cv_waiting, req, status, localVars, memVars,
                   last_sequence_, logfile_number_, torn, synced, versionVars, bg_error_,
                   shutting_down_, dtor, bg, manualVars, calls, historyVars>>

\* AddRecord fails: nothing, a part or (from the stdio buffer, later) all of the
\* record reaches the file.  The error is not recorded in bg_error_.
AppendFails(t) ==
    /\ At(t, {"append"}) /\ Fails("append")
    /\ torn' = TRUE
    /\ wal' \in {wal, wal \cup ({logfile_number_} \X Seqs(group[t]))}
    /\ pc' = [pc EXCEPT ![t] = "failed"]
    /\ UNCHANGED <<mutex_, queueVars, bg_cv_waiting, req, status, localVars, memVars,
                   last_sequence_, logfile_number_, synced, versionVars, bg_error_,
                   shutting_down_, dtor, bg, manualVars, calls, historyVars>>

\* logfile_->Sync() puts the whole current log on stable storage.
SyncLog(t) ==
    /\ At(t, {"sync"})
    /\ synced' = synced \cup {e[2] : e \in {x \in wal : x[1] = logfile_number_}}
    /\ pc' = [pc EXCEPT ![t] = "insert"]
    /\ UNCHANGED <<mutex_, queueVars, bg_cv_waiting, req, status, localVars, memVars,
                   last_sequence_, logfile_number_, torn, wal, versionVars, bg_error_,
                   shutting_down_, dtor, bg, manualVars, calls, historyVars>>

SyncFails(t) ==
    /\ At(t, {"sync"}) /\ Fails("sync")
    /\ pc' = [pc EXCEPT ![t] = "syncfailed"]
    /\ UNCHANGED <<mutex_, queueVars, bg_cv_waiting, req, status, localVars, memVars,
                   last_sequence_, logVars, versionVars, bg_error_, shutting_down_,
                   dtor, bg, manualVars, calls, historyVars>>

\* InsertInto adds one operation of the batch to mem_.
InsertEntry(t) ==
    /\ At(t, {"insert"}) /\ inserted[t] < group[t].count
    /\ mem_' = mem_ \cup {group[t].first + inserted[t]}
    /\ inserted' = [inserted EXCEPT ![t] = @ + 1]
    /\ UNCHANGED <<mutex_, queueVars, bg_cv_waiting, pc, req, status, allow_delay, force,
                   group, imm_, has_imm_, last_sequence_, logVars, versionVars, bg_error_,
                   shutting_down_, dtor, bg, manualVars, calls, historyVars>>

\* The last sequence number that t's group has used up.
UsedUnlessFailed(t) == last_sequence_ + (IF pc[t] = "insert" THEN group[t].count ELSE 0)
UsedButLast(t)      == last_sequence_ + (IF group[t].count = 0 THEN 0 ELSE group[t].count - 1)
UsedSequence(t)     == last_sequence_ + group[t].count

\* The leader takes mutex_ again, publishes the sequence numbers it used, also
\* when it failed, and leaves.  A failed sync is a background error.
FinishWrite(t, st) ==
    /\ mutex_ = None
    /\ last_sequence_' = UsedSequence(t)
    /\ LeaveQueue(t, group[t].n, st)
    /\ UNCHANGED <<req, memVars, logVars, versionVars, shutting_down_, dtor, bg,
                   manualVars, calls, batches>>

WriteSucceeds(t) ==
    /\ At(t, {"insert"}) /\ inserted[t] = group[t].count
    /\ FinishWrite(t, "ok")
    /\ acked' = acked \cup Seqs(group[t])
    /\ ackedSync' = IF \E i \in 1..group[t].n : req[writers_[i]].sync
                    THEN ackedSync \cup Seqs(group[t]) ELSE ackedSync
    /\ UNCHANGED <<bg_error_, bg_cv_waiting>>

WriteFails(t) ==
    /\ At(t, {"failed", "syncfailed"})
    /\ FinishWrite(t, "error")
    /\ IF pc[t] = "syncfailed" THEN RecordBackgroundError("sync")
       ELSE UNCHANGED <<bg_error_, bg_cv_waiting>>
    /\ UNCHANGED <<acked, ackedSync>>

-----------------------------------------------------------------------------
(***************************************************************************)
(* TEST_CompactMemTable after its Write, and TEST_CompactRange.            *)
(***************************************************************************)
\* Wait until the compaction completes, or a background error.
FlushCheck(t) ==
    /\ At(t, {"flushcheck"}) /\ t \notin bg_cv_waiting /\ mutex_ = None
    /\ IF has_imm_ /\ bg_error_ = "ok"
       THEN /\ bg_cv_waiting' = bg_cv_waiting \cup {t}
            /\ UNCHANGED <<pc, status>>
       ELSE /\ pc' = [pc EXCEPT ![t] = "idle"]
            /\ status' = [status EXCEPT ![t] = IF has_imm_ THEN "error" ELSE "ok"]
            /\ UNCHANGED bg_cv_waiting
    /\ UNCHANGED <<mutex_, queueVars, req, localVars, memVars, last_sequence_, logVars,
                   versionVars, bg_error_, shutting_down_, dtor, bg, manualVars, calls,
                   historyVars>>

\* A manual compaction whose range needs n compactions is called for.
CallManual(t, r) ==
    /\ At(t, {"idle"}) /\ mutex_ = None /\ dtor = "open" /\ calls < MaxCalls
    /\ r.kind = "manual"
    /\ calls' = calls + 1
    /\ req' = [req EXCEPT ![t] = r]
    /\ done' = [done EXCEPT ![t] = FALSE]
    /\ status' = [status EXCEPT ![t] = "none"]
    /\ \E n \in 0..MaxParts : parts' = [parts EXCEPT ![t] = n]
    /\ pc' = [pc EXCEPT ![t] = "manual"]
    /\ UNCHANGED <<mutex_, writers_, cv_waiting, bg_cv_waiting, localVars, memVars,
                   last_sequence_, logVars, versionVars, bg_error_, shutting_down_, dtor,
                   bg, manual_compaction_, historyVars>>

ManualGoesOn(t) == ~done[t] /\ ~shutting_down_ /\ bg_error_ = "ok"

\* One round of the loop: register the request if the slot is free, then wait.
ManualWait(t) ==
    /\ At(t, {"manual"}) /\ t \notin bg_cv_waiting /\ mutex_ = None
    /\ ManualGoesOn(t)
    /\ manual_compaction_' = IF manual_compaction_ = None THEN t ELSE manual_compaction_
    /\ bg_cv_waiting' = bg_cv_waiting \cup {t}
    /\ UNCHANGED <<mutex_, queueVars, pc, req, status, localVars, memVars, last_sequence_,
                   logVars, versionVars, bg_error_, shutting_down_, dtor, parts, calls,
                   historyVars>>
    /\ bg' = IF manual_compaction_ = None
             THEN [bg EXCEPT !.pc = MaybeScheduleCompaction(@)] ELSE bg

WithdrawnByAnyone(t) == None
Withdrawn(t) == IF manual_compaction_ = t THEN None ELSE manual_compaction_

\* The request is done, or given up: it is withdrawn if it is registered.
ManualReturn(t) ==
    /\ At(t, {"manual"}) /\ t \notin bg_cv_waiting /\ mutex_ = None
    /\ ~ManualGoesOn(t)
    /\ manual_compaction_' = Withdrawn(t)
    /\ pc' = [pc EXCEPT ![t] = "idle"]
    /\ parts' = [parts EXCEPT ![t] = 0]
    /\ UNCHANGED <<mutex_, queueVars, bg_cv_waiting, req, status, localVars, memVars,
                   last_sequence_, logVars, versionVars, bg_error_, shutting_down_, dtor,
                   bg, calls, historyVars>>

-----------------------------------------------------------------------------
(***************************************************************************)
(* The background thread.                                                  *)
(***************************************************************************)
EndCallSilently ==
    /\ bg' = [IdleBg EXCEPT !.pc = MaybeScheduleCompaction("off")]
    /\ UNCHANGED bg_cv_waiting

\* The end of BackgroundCall: more work is scheduled, everybody is woken.
EndCall ==
    /\ bg' = [IdleBg EXCEPT !.pc = MaybeScheduleCompaction("off")]
    /\ bg_cv_waiting' = {}

clientVars == <<mutex_, queueVars, pc, req, status, localVars, last_sequence_,
                shutting_down_, dtor, calls, historyVars>>

\* BackgroundCall finds nothing it may do.
BackgroundIdle ==
    /\ bg.pc = "scheduled" /\ mutex_ = None
    /\ shutting_down_ \/ bg_error_ # "ok" \/ ~HasWork
    /\ UNCHANGED <<clientVars, memVars, logVars, versionVars, bg_error_, manualVars>>
    /\ EndCall

BackgroundRuns ==
    bg.pc = "scheduled" /\ mutex_ = None /\ ~shutting_down_ /\ bg_error_ = "ok"

\* CompactMemTable starts: WriteLevel0Table builds the table without mutex_.
StartMemTable ==
    /\ BackgroundRuns /\ has_imm_
    /\ bg' = [bg EXCEPT !.pc = "build"]
    /\ UNCHANGED <<clientVars, bg_cv_waiting, memVars, logVars, versionVars, bg_error_,
                   manualVars>>

\* A manual compaction finds no file in what is left of its range: done.
ManualNothingLeft ==
    /\ BackgroundRuns /\ ~has_imm_
    /\ manual_compaction_ # None /\ parts[manual_compaction_] = 0
    /\ done' = [done EXCEPT ![manual_compaction_] = TRUE]
    /\ manual_compaction_' = None
    /\ UNCHANGED <<mutex_, writers_, cv_waiting, pc, req, status, localVars, memVars,
                   last_sequence_, logVars, versionVars, bg_error_, shutting_down_, dtor,
                   parts, calls, historyVars>>
    /\ EndCall

Working(c, n) == [pc |-> "work", c |-> c, inputs |-> n, keys |-> MaxKeys, log |-> 0]

\* DoCompactionWork starts on the first files of what is left of a manual
\* compaction's range: n of level 0, none if it compacts another level.
StartManual ==
    /\ BackgroundRuns /\ ~has_imm_
    /\ manual_compaction_ # None /\ parts[manual_compaction_] > 0
    /\ \E n \in 0..l0 : bg' = Working("manual", n)
    /\ parts' = [parts EXCEPT ![manual_compaction_] = @ - 1]
    /\ UNCHANGED <<clientVars, bg_cv_waiting, memVars, logVars, versionVars, bg_error_,
                   manual_compaction_>>

\* DoCompactionWork starts on the n level-0 files that PickCompaction chose.
StartCompaction ==
    /\ BackgroundRuns /\ ~has_imm_
    /\ manual_compaction_ = None /\ l0 >= L0CompactionTrigger
    /\ \E n \in 1..l0 : bg' = Working("auto", n)
    /\ UNCHANGED <<clientVars, bg_cv_waiting, memVars, logVars, versionVars, bg_error_,
                   manualVars>>

\* A trivial move only edits the version: LogAndApply starts at once.
StartTrivialMove ==
    /\ BackgroundRuns /\ ~has_imm_
    /\ manual_compaction_ = None /\ l0 >= L0CompactionTrigger
    /\ bg' = [pc |-> "applytable", c |-> "move", inputs |-> 1, keys |-> 0, log |-> 0]
    /\ UNCHANGED <<clientVars, bg_cv_waiting, memVars, logVars, versionVars, bg_error_,
                   manualVars>>

\* The loop of DoCompactionWork sees has_imm_ and compacts imm_ first.  It does
\* not look at bg_error_, and has_imm_ is read without mutex_.
CompactImmFirst ==
    /\ bg.pc = "work" /\ bg.keys > 0 /\ ~shutting_down_ /\ has_imm_ /\ mutex_ = None
    /\ bg' = [bg EXCEPT !.pc = "build", !.keys = @ - 1]
    /\ UNCHANGED <<clientVars, bg_cv_waiting, memVars, logVars, versionVars, bg_error_,
                   manualVars>>

\* CompactMemTable returns, to BackgroundCall or to DoCompactionWork, which
\* signals bg_cv_ and goes on with its loop.
LeaveMemTable ==
    IF bg.c = "none" THEN EndCall
    ELSE bg' = [bg EXCEPT !.pc = "work", !.log = 0] /\ bg_cv_waiting' = {}

\* The table is built; the edit captures logfile_number_ and LogAndApply
\* writes it to the MANIFEST without mutex_.
TableBuilt ==
    /\ bg.pc = "build" /\ mutex_ = None /\ ~shutting_down_
    /\ bg' = [bg EXCEPT !.pc = "applymem", !.log = logfile_number_]
    /\ UNCHANGED <<clientVars, bg_cv_waiting, memVars, logVars, versionVars, bg_error_,
                   manualVars>>

\* BuildTable fails, or the database is being deleted.
TableFails ==
    /\ bg.pc = "build" /\ mutex_ = None
    /\ shutting_down_ \/ Fails("table")
    /\ bg_error_' = IF bg_error_ = "ok" THEN "table" ELSE bg_error_
    /\ UNCHANGED <<clientVars, memVars, logVars, versionVars, manualVars>>
    /\ LeaveMemTable

LogsAfter(entries, log) == {e \in entries : e[1] > log}

\* DeleteObsoleteFiles, for logs: after a background error nothing is deleted.
LiveLogs(entries, log) ==
    IF bg_error_ = "ok" THEN {e \in entries : e[1] >= log} ELSE entries

\* LogAndApply has installed the version with the new table, at level 0 or
\* deeper (an empty memtable makes no table), and its log number; imm_ goes.
ApplyMemTable ==
    /\ bg.pc = "applymem" /\ mutex_ = None
    /\ flushed' = flushed \cup imm_
    /\ l0' \in (IF imm_ = {} THEN {l0} ELSE {l0, l0 + 1})
    /\ log_number_' = bg.log
    /\ imm_' = {} /\ has_imm_' = FALSE
    /\ wal' = LiveLogs(wal, bg.log)
    /\ UNCHANGED <<clientVars, mem_, logfile_number_, torn, synced, bg_error_, manualVars>>
    /\ LeaveMemTable

ApplyMemTableForgets ==
    /\ bg.pc = "applymem" /\ mutex_ = None /\ Fails("manifest")
    /\ bg_error_' = IF bg_error_ = "ok" THEN "manifest" ELSE bg_error_
    /\ imm_' = {} /\ has_imm_' = FALSE
    /\ UNCHANGED <<clientVars, mem_, logVars, versionVars, manualVars>>
    /\ LeaveMemTable

\* The MANIFEST cannot be written: imm_ and its log stay.
ApplyMemTableFails ==
    /\ bg.pc = "applymem" /\ mutex_ = None /\ Fails("manifest")
    /\ bg_error_' = IF bg_error_ = "ok" THEN "manifest" ELSE bg_error_
    /\ UNCHANGED <<clientVars, memVars, logVars, versionVars, manualVars>>
    /\ LeaveMemTable

\* The tail of BackgroundCompaction.  A manual compaction that went well leaves
\* the rest of its range (parts) to its caller's next round; a failed one is
\* done.  The code dereferences manual_compaction_ here: if the caller has withdrawn
\* its request meanwhile, the process dies.
LeaveCompaction(ok) ==
    IF bg.c # "manual"
    THEN UNCHANGED <<done, manualVars>> /\ EndCall
    ELSE LET m == manual_compaction_
         IN  IF m = None
             THEN /\ bg' = [IdleBg EXCEPT !.pc = "crashed"]
                  /\ UNCHANGED <<done, manualVars, bg_cv_waiting>>
             ELSE /\ done' = [done EXCEPT ![m] = ~ok]
                  /\ manual_compaction_' = None
                  /\ UNCHANGED parts
                  /\ EndCall

\* The outputs are complete and InstallCompactionResults calls LogAndApply.
CompactionDone ==
    /\ bg.pc = "work" /\ mutex_ = None /\ ~shutting_down_
    /\ bg' = [bg EXCEPT !.pc = "applytable"]
    /\ UNCHANGED <<clientVars, bg_cv_waiting, memVars, logVars, versionVars, bg_error_,
                   manualVars>>

compactionVars == <<mutex_, writers_, cv_waiting, pc, req, status, localVars, memVars,
                    last_sequence_, logVars, log_number_, flushed, shutting_down_, dtor,
                    calls, historyVars>>

\* An output cannot be written, or the database is being deleted.
CompactionFails ==
    /\ bg.pc = "work" /\ mutex_ = None
    /\ shutting_down_ \/ Fails("table")
    /\ bg_error_' = IF bg_error_ = "ok" THEN "table" ELSE bg_error_
    /\ UNCHANGED <<compactionVars, l0>>
    /\ LeaveCompaction(FALSE)

ApplyCompactionOnLess ==
    /\ bg.pc = "applytable" /\ mutex_ = None
    /\ l0' = l0 - bg.inputs - 1
    /\ UNCHANGED <<compactionVars, bg_error_>>
    /\ LeaveCompaction(TRUE)

\* The version without the inputs is installed.
ApplyCompaction ==
    /\ bg.pc = "applytable" /\ mutex_ = None
    /\ l0' = l0 - bg.inputs
    /\ UNCHANGED <<compactionVars, bg_error_>>
    /\ LeaveCompaction(TRUE)

ApplyCompactionFails ==
    /\ bg.pc = "applytable" /\ mutex_ = None /\ Fails("manifest")
    /\ bg_error_' = IF bg_error_ = "ok" THEN "manifest" ELSE bg_error_
    /\ UNCHANGED <<compactionVars, l0>>
    /\ LeaveCompaction(FALSE)

-----------------------------------------------------------------------------
(***************************************************************************)
(* ~DBImpl, called when no other thread uses the database.                 *)
(***************************************************************************)
Close ==
    /\ dtor = "open" /\ \A t \in Threads : At(t, {"idle"})
    /\ shutting_down_' = TRUE
    /\ IF bg_compaction_scheduled_
       THEN dtor' = "waiting" /\ bg_cv_waiting' = bg_cv_waiting \cup {Dtor}
       ELSE dtor' = "closed" /\ UNCHANGED bg_cv_waiting
    /\ UNCHANGED <<mutex_, queueVars, pc, req, status, localVars, memVars, last_sequence_,
                   logVars, versionVars, bg_error_, bg, manualVars, calls, historyVars>>

\* The destructor, woken, looks at bg_compaction_scheduled_ again.
CloseAgain ==
    /\ dtor = "waiting" /\ Dtor \notin bg_cv_waiting /\ mutex_ = None
    /\ IF bg_compaction_scheduled_
       THEN bg_cv_waiting' = bg_cv_waiting \cup {Dtor} /\ UNCHANGED dtor
       ELSE dtor' = "closed" /\ UNCHANGED bg_cv_waiting
    /\ UNCHANGED <<mutex_, queueVars, pc, req, status, localVars, memVars, last_sequence_,
                   logVars, versionVars, bg_error_, shutting_down_, bg, manualVars, calls,
                   historyVars>>

\* The database is closed, or the process has died: nothing happens any more.
Terminated == (dtor = "closed" \/ bg.pc = "crashed") /\ UNCHANGED vars

-----------------------------------------------------------------------------
Leader(t) ==
    \/ RoomError(t) \/ RoomDelay(t) \/ RoomWait(t) \/ RoomAgain(t)
    \/ SwitchFails(t) \/ SwitchMemTable(t) \/ RoomFound(t)
    \/ GrowGroup(t) \/ CloseGroup(t)
    \/ AppendRecord(t) \/ AppendFails(t) \/ SyncLog(t) \/ SyncFails(t)
    \/ InsertEntry(t) \/ WriteSucceeds(t) \/ WriteFails(t)

\* What a thread does inside a call.
Client(t) ==
    \/ ReturnDone(t) \/ BecomeLeader(t) \/ Leader(t)
    \/ FlushCheck(t) \/ ManualWait(t) \/ ManualReturn(t)

Background ==
    \/ BackgroundIdle \/ StartMemTable \/ ManualNothingLeft
    \/ StartManual \/ StartCompaction \/ StartTrivialMove
    \/ CompactImmFirst \/ TableBuilt \/ TableFails
    \/ ApplyMemTable \/ ApplyMemTableFails
    \/ CompactionDone \/ CompactionFails \/ ApplyCompaction \/ ApplyCompactionFails

Next ==
    \/ \E t \in Threads : Client(t)
    \/ \E t \in Threads, r \in Requests : Write(t, r) \/ CallManual(t, r)
    \/ Background
    \/ Close \/ CloseAgain
    \/ Terminated

Spec == Init /\ [][Next]_vars

\* Every thread that can run gets to run; no call has to be made.
Fairness ==
    /\ \A t \in Threads : WF_vars(Client(t))
    /\ WF_vars(Background)
    /\ WF_vars(CloseAgain)

FairSpec == Spec /\ Fairness

-----------------------------------------------------------------------------
(***************************************************************************)
(* Properties.                                                             *)
(***************************************************************************)
TypeClients ==
    /\ mutex_ \in Threads \cup {None}
    /\ pc \in [Threads -> ClientPC]
    /\ req \in [Threads -> AnyRequest]
    /\ status \in [Threads -> {"none", "ok", "error"}]
    /\ allow_delay \in [Threads -> BOOLEAN]
    /\ force \in [Threads -> BOOLEAN]
    /\ calls \in 0..MaxCalls

TypeGroups ==
    /\ group \in [Threads -> [n : Nat, bytes : Nat, first : Nat, count : Nat]]
    /\ inserted \in [Threads -> Nat]

TypeQueue ==
    /\ writers_ \in Seq(Threads)
    /\ cv_waiting \subseteq Threads
    /\ bg_cv_waiting \subseteq Threads \cup {Dtor}
    /\ done \in [Threads -> BOOLEAN]

TypeStore ==
    /\ mem_ \subseteq Nat /\ imm_ \subseteq Nat /\ has_imm_ \in BOOLEAN
    /\ last_sequence_ \in Nat
    /\ logfile_number_ \in Nat /\ log_number_ \in Nat
    /\ torn \in BOOLEAN
    /\ wal \subseteq Nat \X Nat
    /\ synced \subseteq Nat /\ flushed \subseteq Nat

TypeBackground ==
    /\ l0 \in Nat
    /\ bg_error_ \in {"ok", "sync", "table", "manifest"}
    /\ shutting_down_ \in BOOLEAN
    /\ dtor \in {"open", "waiting", "closed"}
    /\ bg \in BgStates
    /\ manual_compaction_ \in Threads \cup {None}
    /\ parts \in [Threads -> Nat]

TypeHistory ==
    /\ acked \subseteq Nat /\ ackedSync \subseteq Nat
    /\ batches \in Seq(SUBSET Nat)

\* Every field of DBImpl keeps its type.
TypeOK ==
    TypeClients /\ TypeGroups /\ TypeQueue /\ TypeStore /\ TypeBackground /\ TypeHistory

Leading == {"group", "append", "sync", "insert", "failed", "syncfailed"}
Stored  == mem_ \cup imm_ \cup flushed
Logged  == {e[2] : e \in wal}

\* "&w is currently responsible for logging and protects against concurrent
\* loggers and concurrent writes into mem_" (db_impl.cc:1218): although mutex_
\* is released for the log and the memtable, one writer at a time, the head of
\* the queue, is between BuildBatchGroup and the end of Write, and everybody
\* in its group is still queued behind it.
OneLogger ==
    \A t \in Threads : pc[t] \in Leading =>
        /\ writers_ # <<>> /\ Head(writers_) = t
        /\ group[t].n \in 1..Len(writers_)
        /\ \A u \in Threads \ {t} : pc[u] \notin Leading

\* A read at LastSequence() sees a batch group as a whole or not at all,
\* whatever part of it InsertInto has added and whichever memtable or table
\* holds it.
BatchAtomic ==
    LET visible == {s \in Stored : s <= last_sequence_}
    IN  \A i \in DOMAIN batches : batches[i] \cap visible \in {{}, batches[i]}

\* Sequence numbers are never used twice, also after a write that failed with
\* its record in the log.
SequencesDisjoint ==
    /\ \A i, j \in DOMAIN batches : i # j => batches[i] \cap batches[j] = {}
    /\ \A e, f \in wal : e[2] = f[2] => e[1] = f[1]

\* What a reader at LastSequence() can see stays as it is: nothing appears at
\* or below that sequence number any more and nothing goes, through memtable
\* switches, flushes and errors.
SnapshotStable ==
    [][ \A s \in 1..last_sequence_ : s \in Stored' <=> s \in Stored ]_vars

\* A write that returned OK is readable, and until its table is in the version
\* it is in a log that recovery reads (a log not older than log_number_).
\* Logs are deleted, in DeleteObsoleteFiles, only after that.
AckedRecoverable ==
    /\ acked \subseteq Stored
    /\ acked \subseteq 1..last_sequence_
    /\ acked \subseteq flushed \cup {e[2] : e \in {x \in wal : x[1] >= log_number_}}

\* The same for what a sync write of the group asked for: a record on stable
\* storage (options.h:187, "sync").
SyncDurable ==
    ackedSync \subseteq
        flushed \cup (synced \cap {e[2] : e \in {x \in wal : x[1] >= log_number_}})

\* Nobody sleeps on bg_cv_ unless a background call is pending or running, and
\* that call signals: MakeRoomForWrite, TEST_CompactMemTable,
\* TEST_CompactRange and ~DBImpl all rely on it.
SleepersHaveAWaker ==
    bg_cv_waiting # {} => bg_compaction_scheduled_

\* The head of the writers queue is never asleep on its own cv, and neither is
\* a writer whose leader is done with it.
HeadAwake ==
    /\ writers_ # <<>> => Head(writers_) \notin cv_waiting
    /\ \A t \in cv_waiting : ~done[t] /\ \E i \in 2..Len(writers_) : writers_[i] = t

\* Work that MaybeScheduleCompaction is responsible for is never forgotten.
WorkIsScheduled ==
    HasWork /\ bg_error_ = "ok" /\ ~shutting_down_ => bg_compaction_scheduled_

\* No thread of the database sleeps with nobody left to wake it up.
EveryoneIsWoken == SleepersHaveAWaker /\ HeadAwake /\ WorkIsScheduled

\* "we force the DB into a mode where all future writes fail"
\* (db_impl.cc:1238): after a failed sync nothing is logged or acknowledged.
FailStop ==
    [][ bg_error_ = "sync" => /\ acked' = acked
                              /\ wal' \subseteq wal ]_vars

\* The memtable being compacted is not touched until its table is installed,
\* and meanwhile its log is not deleted.
ImmFrozen ==
    [][ has_imm_ => \/ has_imm_' /\ imm_' = imm_
                    \/ ~has_imm_' /\ imm_ \subseteq flushed' ]_vars

\* The background thread finds the request it works for: manual_compaction_ is
\* not withdrawn under it (BackgroundCompaction dereferences it at
\* db_impl.cc:757).
ManualRequestAlive == bg.pc # "crashed"

\* Every call returns, also through full memtables, level-0 stops, background
\* errors and other threads' calls: no wake-up is lost.
CallsReturn == \A t \in Threads : pc[t] # "idle" ~> pc[t] = "idle"

\* ~DBImpl returns.
CloseReturns == shutting_down_ ~> dtor = "closed"
=============================================================================
