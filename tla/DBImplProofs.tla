---------------------------- MODULE DBImplProofs ----------------------------
(***************************************************************************)
(* Theorems about DBImpl, for every value of its constants.                *)
(***************************************************************************)
EXTENDS DBImpl, SequenceTheorems, TLAPS

\* The files a compaction takes from level 0 stay there until it is installed:
\* the memtable tables that are added meanwhile are not among them.
InputsPresent == bg.inputs <= l0
TypeInv == TypeOK /\ InputsPresent

-----------------------------------------------------------------------------
(***************************************************************************)
(* Types of what the actions compute.                                      *)
(***************************************************************************)
\* What LeaveQueue keeps of the queue is a queue.
LEMMA SubSeqType ==
    ASSUME NEW S, NEW s \in Seq(S), NEW n \in Nat
    PROVE  SubSeq(s, n + 1, Len(s)) \in Seq(S)
<1>1. CASE n <= Len(s)
  BY <1>1, SubSeqProperties, LenProperties, SMT
<1>2. CASE n > Len(s)
  BY <1>2, SubSeqEmpty, EmptySeq, LenProperties, SMT
<1> QED BY <1>1, <1>2, LenProperties, SMT

\* What BackgroundCall leaves: an idle or a scheduled thread.
LEMMA EndCallType ==
    ASSUME EndCall
    PROVE  /\ bg' \in BgStates /\ bg'.inputs = 0 /\ bg'.c = "none"
           /\ bg'.pc \in {"off", "scheduled"}
           /\ bg_cv_waiting' = {}
BY DEF EndCall, IdleBg, MaybeScheduleCompaction, BgStates, BgPC

\* MaybeScheduleCompaction only moves the thread from off to scheduled.
LEMMA ScheduleType ==
    ASSUME bg \in BgStates, bg' = [bg EXCEPT !.pc = MaybeScheduleCompaction(@)]
    PROVE  bg' \in BgStates /\ bg'.inputs = bg.inputs
BY DEF MaybeScheduleCompaction, BgStates, BgPC

LEMMA SeqsType ==
    ASSUME TypeGroups, NEW t \in Threads
    PROVE  Seqs(group[t]) \subseteq Nat
BY DEF TypeGroups, Seqs

LEMMA RequestType ==
    ASSUME TypeClients, NEW t \in Threads
    PROVE  req[t].count \in Nat /\ ByteSize(t) \in Nat
BY DEF TypeClients, ByteSize, AnyRequest

LEMMA LeaveQueueType ==
    ASSUME TypeInv, NEW t \in Threads, NEW st \in {"ok", "error"}, NEW n \in Nat,
           LeaveQueue(t, n, st), UNCHANGED <<req, calls>>,
           bg_cv_waiting' \in {{}, bg_cv_waiting}
    PROVE  TypeClients' /\ TypeGroups' /\ TypeQueue'
<1>1. writers_' \in Seq(Threads)
  BY SubSeqType DEF LeaveQueue, TypeInv, TypeOK, TypeQueue
<1>2. TypeQueue'
  BY <1>1 DEF LeaveQueue, TypeInv, TypeOK, TypeQueue
<1>3. TypeGroups'
  BY DEF LeaveQueue, NoGroup, TypeInv, TypeOK, TypeGroups
<1>4. status' \in [Threads -> {"none", "ok", "error"}]
  BY DEF LeaveQueue, TypeInv, TypeOK, TypeClients
<1>5. AfterWrite(t, st) \in ClientPC
  BY DEF AfterWrite, ClientPC
<1>6. TypeClients'
  BY <1>4, <1>5 DEF LeaveQueue, TypeInv, TypeOK, TypeClients
<1> QED BY <1>2, <1>3, <1>6

-----------------------------------------------------------------------------
(***************************************************************************)
(* Every action keeps the types.                                           *)
(***************************************************************************)
LEMMA ReturnDoneType ==
    ASSUME TypeInv, NEW t \in Threads, ReturnDone(t)
    PROVE  TypeInv'
BY DEF TypeInv, TypeOK, TypeClients, TypeGroups, TypeQueue, TypeStore, TypeBackground,
   TypeHistory, InputsPresent, ReturnDone, At, ClientPC, AfterWrite, queueVars, localVars,
   memVars, logVars, versionVars, manualVars, historyVars

LEMMA BecomeLeaderType ==
    ASSUME TypeInv, NEW t \in Threads, BecomeLeader(t)
    PROVE  TypeInv'
BY DEF TypeInv, TypeOK, TypeClients, TypeGroups, TypeQueue, TypeStore, TypeBackground,
   TypeHistory, InputsPresent, BecomeLeader, At, ClientPC, queueVars, localVars, memVars,
   logVars, versionVars, manualVars, historyVars

LEMMA RoomDelayType ==
    ASSUME TypeInv, NEW t \in Threads, RoomDelay(t)
    PROVE  TypeInv'
BY DEF TypeInv, TypeOK, TypeClients, TypeGroups, TypeQueue, TypeStore, TypeBackground,
   TypeHistory, InputsPresent, RoomDelay, At, ClientPC, queueVars, localVars, memVars,
   logVars, versionVars, manualVars, historyVars

LEMMA RoomWaitType ==
    ASSUME TypeInv, NEW t \in Threads, RoomWait(t)
    PROVE  TypeInv'
BY DEF TypeInv, TypeOK, TypeClients, TypeGroups, TypeQueue, TypeStore, TypeBackground,
   TypeHistory, InputsPresent, RoomWait, At, ClientPC, queueVars, localVars, memVars,
   logVars, versionVars, manualVars, historyVars

LEMMA RoomAgainType ==
    ASSUME TypeInv, NEW t \in Threads, RoomAgain(t)
    PROVE  TypeInv'
BY DEF TypeInv, TypeOK, TypeClients, TypeGroups, TypeQueue, TypeStore, TypeBackground,
   TypeHistory, InputsPresent, RoomAgain, At, ClientPC, queueVars, localVars, memVars,
   logVars, versionVars, manualVars, historyVars

LEMMA SyncFailsType ==
    ASSUME TypeInv, NEW t \in Threads, SyncFails(t)
    PROVE  TypeInv'
BY DEF TypeInv, TypeOK, TypeClients, TypeGroups, TypeQueue, TypeStore, TypeBackground,
   TypeHistory, InputsPresent, SyncFails, At, ClientPC, queueVars, localVars, memVars,
   logVars, versionVars, manualVars, historyVars

LEMMA RoomErrorType ==
    ASSUME TypeInv, NEW t \in Threads, RoomError(t)
    PROVE  TypeInv'
<1>1. TypeClients' /\ TypeGroups' /\ TypeQueue'
  BY LeaveQueueType DEF RoomError
<1>2. TypeStore' /\ TypeBackground' /\ TypeHistory' /\ InputsPresent'
  BY DEF TypeInv, TypeOK, TypeStore, TypeBackground, TypeHistory, InputsPresent, RoomError,
     memVars, logVars, versionVars, manualVars, historyVars
<1> QED BY <1>1, <1>2 DEF TypeInv, TypeOK

LEMMA SwitchFailsType ==
    ASSUME TypeInv, NEW t \in Threads, SwitchFails(t)
    PROVE  TypeInv'
<1>1. TypeClients' /\ TypeGroups' /\ TypeQueue'
  BY LeaveQueueType DEF SwitchFails
<1>2. TypeStore' /\ TypeBackground' /\ TypeHistory' /\ InputsPresent'
  BY DEF TypeInv, TypeOK, TypeStore, TypeBackground, TypeHistory, InputsPresent,
     SwitchFails, memVars, logVars, versionVars, manualVars, historyVars
<1> QED BY <1>1, <1>2 DEF TypeInv, TypeOK

LEMMA SwitchMemTableType ==
    ASSUME TypeInv, NEW t \in Threads, SwitchMemTable(t)
    PROVE  TypeInv'
<1>1. bg' \in BgStates /\ bg'.inputs = bg.inputs
  BY ScheduleType DEF SwitchMemTable, TypeInv, TypeOK, TypeBackground
<1>2. TypeBackground' /\ InputsPresent'
  BY <1>1 DEF TypeInv, TypeOK, TypeBackground, InputsPresent, SwitchMemTable, versionVars,
     manualVars
<1>3. TypeStore'
  <2>1. logfile_number_' \in Nat /\ torn' = FALSE /\ has_imm_' = TRUE
    BY DEF TypeInv, TypeOK, TypeStore, SwitchMemTable
  <2>2. mem_' \subseteq Nat /\ imm_' \subseteq Nat
    BY DEF TypeInv, TypeOK, TypeStore, SwitchMemTable
  <2>3. /\ last_sequence_' = last_sequence_ /\ log_number_' = log_number_
        /\ wal' = wal /\ synced' = synced /\ flushed' = flushed
    BY DEF SwitchMemTable, versionVars
  <2> QED BY <2>1, <2>2, <2>3 DEF TypeInv, TypeOK, TypeStore
<1>4. TypeClients' /\ TypeGroups' /\ TypeQueue' /\ TypeHistory'
  BY DEF TypeInv, TypeOK, TypeClients, TypeGroups, TypeQueue, TypeHistory, SwitchMemTable,
     queueVars, localVars, historyVars
<1> QED BY <1>1, <1>2, <1>3, <1>4 DEF TypeInv, TypeOK

LEMMA RoomFoundType ==
    ASSUME TypeInv, NEW t \in Threads, RoomFound(t)
    PROVE  TypeInv'
<1>1. CASE req[t].kind = "flush"
  <2>1. TypeClients' /\ TypeGroups' /\ TypeQueue'
    BY <1>1, LeaveQueueType DEF RoomFound
  <2>2. TypeStore' /\ TypeBackground' /\ TypeHistory' /\ InputsPresent'
    BY DEF TypeInv, TypeOK, TypeStore, TypeBackground, TypeHistory, InputsPresent,
       RoomFound, memVars, logVars, versionVars, manualVars, historyVars
  <2> QED BY <2>1, <2>2 DEF TypeInv, TypeOK
<1>2. CASE req[t].kind # "flush"
  <2>1. ByteSize(t) \in Nat /\ req[t].count \in Nat /\ last_sequence_ + 1 \in Nat
    BY RequestType DEF TypeInv, TypeOK, TypeStore
  <2>2. TypeGroups'
    BY <1>2, <2>1 DEF TypeInv, TypeOK, TypeGroups, RoomFound
  <2>3. TypeClients' /\ TypeQueue'
    BY <1>2 DEF TypeInv, TypeOK, TypeClients, TypeQueue, RoomFound, ClientPC, queueVars
  <2>4. TypeStore' /\ TypeBackground' /\ TypeHistory' /\ InputsPresent'
    BY DEF TypeInv, TypeOK, TypeStore, TypeBackground, TypeHistory, InputsPresent,
       RoomFound, memVars, logVars, versionVars, manualVars, historyVars
  <2> QED BY <2>2, <2>3, <2>4 DEF TypeInv, TypeOK
<1> QED BY <1>1, <1>2

LEMMA GrowGroupType ==
    ASSUME TypeInv, NEW t \in Threads, GrowGroup(t)
    PROVE  TypeInv'
<1> DEFINE u == writers_[group[t].n + 1]
<1>1. u \in Threads
  <2>1. group[t].n \in Nat /\ group[t].n < Len(writers_)
    BY DEF GrowGroup, GroupGrows, TypeInv, TypeOK, TypeGroups
  <2>2. group[t].n + 1 \in 1..Len(writers_)
    BY <2>1, LenProperties DEF TypeInv, TypeOK, TypeQueue
  <2> QED BY <2>2, ElementOfSeq DEF TypeInv, TypeOK, TypeQueue
<1>2. req[u].count \in Nat /\ ByteSize(u) \in Nat
  BY <1>1, RequestType DEF TypeInv, TypeOK
<1>3. (IF req[u].kind = "put" THEN ByteSize(u) ELSE 0) \in Nat
  BY <1>2
<1>4. TypeGroups'
  <2> DEFINE b == IF req[u].kind = "put" THEN ByteSize(u) ELSE 0
  <2>1. group' = [group EXCEPT ![t] = [n |-> @.n + 1, bytes |-> @.bytes + b,
                                      first |-> @.first, count |-> @.count + req[u].count]]
    BY DEF GrowGroup
  <2>2. b \in Nat
    BY <1>3
  <2> HIDE DEF b, u
  <2> QED BY <1>2, <2>1, <2>2 DEF TypeInv, TypeOK, TypeGroups, GrowGroup
<1> HIDE DEF u
<1>5. TypeClients' /\ TypeQueue' /\ TypeStore' /\ TypeBackground' /\ TypeHistory' /\ InputsPresent'
  BY DEF TypeInv, TypeOK, TypeClients, TypeQueue, TypeStore, TypeBackground, TypeHistory,
     InputsPresent, GrowGroup, queueVars, localVars, memVars, logVars, versionVars,
     manualVars, historyVars
<1> QED BY <1>4, <1>5 DEF TypeInv, TypeOK

LEMMA CloseGroupType ==
    ASSUME TypeInv, NEW t \in Threads, CloseGroup(t)
    PROVE  TypeInv'
<1>1. TypeHistory'
  BY SeqsType, AppendProperties DEF TypeInv, TypeOK, TypeHistory, CloseGroup
<1>2. TypeClients' /\ TypeGroups' /\ TypeQueue' /\ TypeStore' /\ TypeBackground' /\ InputsPresent'
  BY DEF TypeInv, TypeOK, TypeClients, TypeGroups, TypeQueue, TypeStore, TypeBackground,
     InputsPresent, CloseGroup, ClientPC, queueVars, localVars, memVars, logVars,
     versionVars, manualVars
<1> QED BY <1>1, <1>2 DEF TypeInv, TypeOK

LEMMA AppendRecordType ==
    ASSUME TypeInv, NEW t \in Threads, AppendRecord(t)
    PROVE  TypeInv'
<1>1. TypeStore'
  BY SeqsType DEF TypeInv, TypeOK, TypeStore, AppendRecord, memVars, versionVars
<1>2. TypeClients' /\ TypeGroups' /\ TypeQueue' /\ TypeBackground' /\ TypeHistory' /\ InputsPresent'
  BY DEF TypeInv, TypeOK, TypeClients, TypeGroups, TypeQueue, TypeBackground, TypeHistory,
     InputsPresent, AppendRecord, ClientPC, queueVars, localVars, versionVars, manualVars,
     historyVars
<1> QED BY <1>1, <1>2 DEF TypeInv, TypeOK

LEMMA AppendFailsType ==
    ASSUME TypeInv, NEW t \in Threads, AppendFails(t)
    PROVE  TypeInv'
<1>1. TypeStore'
  BY SeqsType DEF TypeInv, TypeOK, TypeStore, AppendFails, memVars, versionVars
<1>2. TypeClients' /\ TypeGroups' /\ TypeQueue' /\ TypeBackground' /\ TypeHistory' /\ InputsPresent'
  BY DEF TypeInv, TypeOK, TypeClients, TypeGroups, TypeQueue, TypeBackground, TypeHistory,
     InputsPresent, AppendFails, ClientPC, queueVars, localVars, versionVars, manualVars,
     historyVars
<1> QED BY <1>1, <1>2 DEF TypeInv, TypeOK

LEMMA SyncLogType ==
    ASSUME TypeInv, NEW t \in Threads, SyncLog(t)
    PROVE  TypeInv'
<1>1. synced' \subseteq Nat
  BY DEF TypeInv, TypeOK, TypeStore, SyncLog
<1>2. TypeStore'
  BY <1>1 DEF TypeInv, TypeOK, TypeStore, SyncLog, memVars, versionVars
<1>3. TypeClients' /\ TypeGroups' /\ TypeQueue' /\ TypeBackground' /\ TypeHistory' /\ InputsPresent'
  BY DEF TypeInv, TypeOK, TypeClients, TypeGroups, TypeQueue, TypeBackground, TypeHistory,
     InputsPresent, SyncLog, ClientPC, queueVars, localVars, versionVars, manualVars,
     historyVars
<1> QED BY <1>1, <1>2, <1>3 DEF TypeInv, TypeOK

LEMMA InsertEntryType ==
    ASSUME TypeInv, NEW t \in Threads, InsertEntry(t)
    PROVE  TypeInv'
<1>1. group[t].first + inserted[t] \in Nat
  BY DEF TypeInv, TypeOK, TypeGroups
<1>2. TypeStore'
  BY <1>1 DEF TypeInv, TypeOK, TypeStore, InsertEntry, logVars, versionVars
<1>3. TypeGroups'
  BY DEF TypeInv, TypeOK, TypeGroups, InsertEntry
<1>4. TypeClients' /\ TypeQueue' /\ TypeBackground' /\ TypeHistory' /\ InputsPresent'
  BY DEF TypeInv, TypeOK, TypeClients, TypeQueue, TypeBackground, TypeHistory,
     InputsPresent, InsertEntry, queueVars, localVars, versionVars, manualVars, historyVars
<1> QED BY <1>1, <1>2, <1>3, <1>4 DEF TypeInv, TypeOK

LEMMA WriteSucceedsType ==
    ASSUME TypeInv, NEW t \in Threads, WriteSucceeds(t)
    PROVE  TypeInv'
<1>1. last_sequence_' \in Nat
  BY DEF TypeInv, TypeOK, TypeStore, TypeGroups, WriteSucceeds, FinishWrite, UsedSequence
<1>2. bg_cv_waiting' \in {{}, bg_cv_waiting}
  BY DEF WriteSucceeds
<1>3. group[t].n \in Nat
  BY DEF TypeInv, TypeOK, TypeGroups
<1>4. TypeClients' /\ TypeGroups' /\ TypeQueue'
  BY <1>2, <1>3, LeaveQueueType DEF WriteSucceeds, FinishWrite
<1>5. TypeStore'
  BY <1>1 DEF TypeInv, TypeOK, TypeStore, WriteSucceeds, FinishWrite, memVars, logVars,
     versionVars
<1>6. TypeHistory'
  BY SeqsType DEF TypeInv, TypeOK, TypeHistory, WriteSucceeds, FinishWrite
<1>7. TypeBackground' /\ InputsPresent'
  BY DEF TypeInv, TypeOK, TypeBackground, InputsPresent, WriteSucceeds, FinishWrite,
     versionVars, manualVars
<1> QED BY <1>1, <1>2, <1>3, <1>4, <1>5, <1>6, <1>7 DEF TypeInv, TypeOK

LEMMA WriteFailsType ==
    ASSUME TypeInv, NEW t \in Threads, WriteFails(t)
    PROVE  TypeInv'
<1>1. last_sequence_' \in Nat
  BY DEF TypeInv, TypeOK, TypeStore, TypeGroups, WriteFails, FinishWrite, UsedSequence
<1>2. bg_cv_waiting' \in {{}, bg_cv_waiting}
  BY DEF WriteFails, RecordBackgroundError
<1>3. group[t].n \in Nat
  BY DEF TypeInv, TypeOK, TypeGroups
<1>4. TypeClients' /\ TypeGroups' /\ TypeQueue'
  BY <1>2, <1>3, LeaveQueueType DEF WriteFails, FinishWrite
<1>5. TypeStore'
  BY <1>1 DEF TypeInv, TypeOK, TypeStore, WriteFails, FinishWrite, memVars, logVars,
     versionVars
<1>6. TypeHistory'
  BY DEF TypeInv, TypeOK, TypeHistory, WriteFails, FinishWrite
<1>7. TypeBackground' /\ InputsPresent'
  BY DEF TypeInv, TypeOK, TypeBackground, InputsPresent, WriteFails, FinishWrite,
     RecordBackgroundError, versionVars, manualVars
<1> QED BY <1>1, <1>2, <1>3, <1>4, <1>5, <1>6, <1>7 DEF TypeInv, TypeOK

LEMMA FlushCheckType ==
    ASSUME TypeInv, NEW t \in Threads, FlushCheck(t)
    PROVE  TypeInv'
<1>1. (IF has_imm_ THEN "error" ELSE "ok") \in {"none", "ok", "error"}
  BY Zenon
<1>2. TypeClients'
  BY <1>1 DEF TypeInv, TypeOK, TypeClients, FlushCheck, ClientPC, localVars
<1>3. TypeQueue'
  BY DEF TypeInv, TypeOK, TypeQueue, FlushCheck, queueVars
<1>4. TypeGroups' /\ TypeStore' /\ TypeBackground' /\ TypeHistory' /\ InputsPresent'
  BY DEF TypeInv, TypeOK, TypeGroups, TypeStore, TypeBackground, TypeHistory,
     InputsPresent, FlushCheck, localVars, memVars, logVars, versionVars, manualVars,
     historyVars
<1> QED BY <1>1, <1>2, <1>3, <1>4 DEF TypeInv, TypeOK

LEMMA ManualWaitType ==
    ASSUME TypeInv, NEW t \in Threads, ManualWait(t)
    PROVE  TypeInv'
<1>1. bg' \in BgStates /\ bg'.inputs = bg.inputs
  BY ScheduleType DEF ManualWait, TypeInv, TypeOK, TypeBackground
<1>2. TypeBackground' /\ InputsPresent'
  BY <1>1 DEF TypeInv, TypeOK, TypeBackground, InputsPresent, ManualWait, versionVars
<1>3. TypeQueue'
  BY DEF TypeInv, TypeOK, TypeQueue, ManualWait, queueVars
<1>4. TypeClients' /\ TypeGroups' /\ TypeStore' /\ TypeHistory'
  BY DEF TypeInv, TypeOK, TypeClients, TypeGroups, TypeStore, TypeHistory, ManualWait,
     localVars, memVars, logVars, versionVars, historyVars
<1> QED BY <1>1, <1>2, <1>3, <1>4 DEF TypeInv, TypeOK

LEMMA ManualReturnType ==
    ASSUME TypeInv, NEW t \in Threads, ManualReturn(t)
    PROVE  TypeInv'
BY DEF TypeInv, TypeOK, TypeClients, TypeGroups, TypeQueue, TypeStore, TypeBackground,
   TypeHistory, InputsPresent, ManualReturn, Withdrawn, ClientPC, queueVars, localVars,
   memVars, logVars, versionVars, manualVars, historyVars

LEMMA WriteType ==
    ASSUME TypeInv, NEW t \in Threads, NEW r \in Requests, Write(t, r)
    PROVE  TypeInv'
<1>1. r \in AnyRequest
  BY RequestsAssumption
<1>2. calls + 1 \in 0..MaxCalls
  BY BoundsAssumption DEF TypeInv, TypeOK, TypeClients, Write
<1>3. TypeClients'
  BY <1>1, <1>2 DEF TypeInv, TypeOK, TypeClients, Write, ClientPC
<1>4. TypeQueue'
  BY AppendProperties DEF TypeInv, TypeOK, TypeQueue, Write
<1>5. TypeHistory'
  BY DEF TypeInv, TypeOK, TypeHistory, TypeStore, Write
<1>6. TypeGroups' /\ TypeStore' /\ TypeBackground' /\ InputsPresent'
  BY DEF TypeInv, TypeOK, TypeGroups, TypeStore, TypeBackground, InputsPresent, Write,
     localVars, memVars, logVars, versionVars, manualVars
<1> QED BY <1>1, <1>2, <1>3, <1>4, <1>5, <1>6 DEF TypeInv, TypeOK

LEMMA CallManualType ==
    ASSUME TypeInv, NEW t \in Threads, NEW r \in Requests, CallManual(t, r)
    PROVE  TypeInv'
<1>1. r \in AnyRequest
  BY RequestsAssumption
<1>2. calls + 1 \in 0..MaxCalls
  BY BoundsAssumption DEF TypeInv, TypeOK, TypeClients, CallManual
<1>3. TypeClients'
  BY <1>1, <1>2 DEF TypeInv, TypeOK, TypeClients, CallManual, ClientPC, localVars
<1>4. TypeBackground' /\ InputsPresent'
  BY BoundsAssumption DEF TypeInv, TypeOK, TypeBackground, InputsPresent, CallManual,
     versionVars
<1>5. TypeGroups' /\ TypeQueue' /\ TypeStore' /\ TypeHistory'
  BY DEF TypeInv, TypeOK, TypeGroups, TypeQueue, TypeStore, TypeHistory, CallManual,
     queueVars, localVars, memVars, logVars, versionVars, historyVars
<1> QED BY <1>1, <1>2, <1>3, <1>4, <1>5 DEF TypeInv, TypeOK

LEMMA BackgroundIdleType ==
    ASSUME TypeInv, BackgroundIdle
    PROVE  TypeInv'
<1>1. bg' \in BgStates /\ bg'.inputs = 0 /\ bg_cv_waiting' = {}
  BY EndCallType DEF BackgroundIdle
<1>2. TypeBackground' /\ InputsPresent'
  BY <1>1 DEF TypeInv, TypeOK, TypeBackground, InputsPresent, BackgroundIdle, clientVars,
     versionVars, manualVars
<1>3. TypeQueue'
  BY <1>1 DEF TypeInv, TypeOK, TypeQueue, BackgroundIdle, clientVars, queueVars
<1>4. TypeClients' /\ TypeGroups' /\ TypeStore' /\ TypeHistory'
  BY DEF TypeInv, TypeOK, TypeClients, TypeGroups, TypeStore, TypeHistory, BackgroundIdle,
     clientVars, queueVars, localVars, memVars, logVars, versionVars, historyVars
<1> QED BY <1>1, <1>2, <1>3, <1>4 DEF TypeInv, TypeOK

LEMMA ManualNothingLeftType ==
    ASSUME TypeInv, ManualNothingLeft
    PROVE  TypeInv'
<1>1. bg' \in BgStates /\ bg'.inputs = 0 /\ bg_cv_waiting' = {}
  BY EndCallType DEF ManualNothingLeft
<1>2. TypeBackground' /\ InputsPresent'
  BY <1>1 DEF TypeInv, TypeOK, TypeBackground, InputsPresent, ManualNothingLeft, versionVars
<1>3. TypeQueue'
  BY <1>1 DEF TypeInv, TypeOK, TypeQueue, TypeBackground, ManualNothingLeft
<1>4. TypeClients' /\ TypeGroups' /\ TypeStore' /\ TypeHistory'
  BY DEF TypeInv, TypeOK, TypeClients, TypeGroups, TypeStore, TypeHistory,
     ManualNothingLeft, localVars, memVars, logVars, versionVars, historyVars
<1> QED BY <1>1, <1>2, <1>3, <1>4 DEF TypeInv, TypeOK

LEMMA StartMemTableType ==
    ASSUME TypeInv, StartMemTable
    PROVE  TypeInv'
<1>1. bg' \in BgStates /\ bg'.inputs = bg.inputs
  BY DEF StartMemTable, BgStates, BgPC, TypeInv, TypeOK, TypeStore, TypeBackground
<1>2. TypeBackground' /\ InputsPresent'
  BY <1>1 DEF TypeInv, TypeOK, TypeBackground, InputsPresent, StartMemTable, clientVars,
     versionVars, manualVars
<1>3. TypeClients' /\ TypeGroups' /\ TypeQueue' /\ TypeStore' /\ TypeHistory'
  BY DEF TypeInv, TypeOK, TypeClients, TypeGroups, TypeQueue, TypeStore, TypeHistory,
     StartMemTable, clientVars, queueVars, queueVars, localVars, memVars, logVars,
     versionVars, historyVars
<1> QED BY <1>1, <1>2, <1>3 DEF TypeInv, TypeOK

LEMMA TableBuiltType ==
    ASSUME TypeInv, TableBuilt
    PROVE  TypeInv'
<1>1. bg' \in BgStates /\ bg'.inputs = bg.inputs
  BY DEF TableBuilt, BgStates, BgPC, TypeInv, TypeOK, TypeStore, TypeBackground
<1>2. TypeBackground' /\ InputsPresent'
  BY <1>1 DEF TypeInv, TypeOK, TypeBackground, InputsPresent, TableBuilt, clientVars,
     versionVars, manualVars
<1>3. TypeClients' /\ TypeGroups' /\ TypeQueue' /\ TypeStore' /\ TypeHistory'
  BY DEF TypeInv, TypeOK, TypeClients, TypeGroups, TypeQueue, TypeStore, TypeHistory,
     TableBuilt, clientVars, queueVars, queueVars, localVars, memVars, logVars,
     versionVars, historyVars
<1> QED BY <1>1, <1>2, <1>3 DEF TypeInv, TypeOK

LEMMA CompactionDoneType ==
    ASSUME TypeInv, CompactionDone
    PROVE  TypeInv'
<1>1. bg' \in BgStates /\ bg'.inputs = bg.inputs
  BY DEF CompactionDone, BgStates, BgPC, TypeInv, TypeOK, TypeStore, TypeBackground
<1>2. TypeBackground' /\ InputsPresent'
  BY <1>1 DEF TypeInv, TypeOK, TypeBackground, InputsPresent, CompactionDone, clientVars,
     versionVars, manualVars
<1>3. TypeClients' /\ TypeGroups' /\ TypeQueue' /\ TypeStore' /\ TypeHistory'
  BY DEF TypeInv, TypeOK, TypeClients, TypeGroups, TypeQueue, TypeStore, TypeHistory,
     CompactionDone, clientVars, queueVars, queueVars, localVars, memVars, logVars,
     versionVars, historyVars
<1> QED BY <1>1, <1>2, <1>3 DEF TypeInv, TypeOK

LEMMA CompactImmFirstType ==
    ASSUME TypeInv, CompactImmFirst
    PROVE  TypeInv'
<1>1. bg \in BgStates /\ bg.keys - 1 \in Nat
  BY DEF CompactImmFirst, BgStates, TypeInv, TypeOK, TypeBackground
<1>2. bg' = [pc |-> "build", c |-> bg.c, inputs |-> bg.inputs, keys |-> bg.keys - 1,
log |-> bg.log]
  BY <1>1 DEF CompactImmFirst, BgStates
<1>3. bg' \in BgStates /\ bg'.inputs = bg.inputs
  BY <1>1, <1>2 DEF BgStates, BgPC
<1>4. TypeBackground' /\ InputsPresent'
  BY <1>3 DEF TypeInv, TypeOK, TypeBackground, InputsPresent, CompactImmFirst, clientVars,
     versionVars, manualVars
<1>5. TypeClients' /\ TypeGroups' /\ TypeQueue' /\ TypeStore' /\ TypeHistory'
  BY DEF TypeInv, TypeOK, TypeClients, TypeGroups, TypeQueue, TypeStore, TypeHistory,
     CompactImmFirst, clientVars, queueVars, queueVars, localVars, memVars, logVars,
     versionVars, historyVars
<1> QED BY <1>4, <1>5 DEF TypeInv, TypeOK

LEMMA StartManualType ==
    ASSUME TypeInv, StartManual
    PROVE  TypeInv'
<1>1. bg' \in BgStates /\ bg'.inputs \in 0..l0
  BY BoundsAssumption, TriggersAssumption DEF StartManual, Working, BgStates, BgPC,
     TypeInv, TypeOK, TypeBackground
<1>2. TypeBackground' /\ InputsPresent'
  BY <1>1 DEF TypeInv, TypeOK, TypeBackground, InputsPresent, StartManual, clientVars,
     versionVars, manualVars
<1>3. TypeClients' /\ TypeGroups' /\ TypeQueue' /\ TypeStore' /\ TypeHistory'
  BY DEF TypeInv, TypeOK, TypeClients, TypeGroups, TypeQueue, TypeStore, TypeHistory,
     StartManual, clientVars, queueVars, queueVars, localVars, memVars, logVars,
     versionVars, historyVars
<1> QED BY <1>1, <1>2, <1>3 DEF TypeInv, TypeOK

LEMMA StartCompactionType ==
    ASSUME TypeInv, StartCompaction
    PROVE  TypeInv'
<1>1. bg' \in BgStates /\ bg'.inputs \in 0..l0
  BY BoundsAssumption, TriggersAssumption DEF StartCompaction, Working, BgStates, BgPC,
     TypeInv, TypeOK, TypeBackground
<1>2. TypeBackground' /\ InputsPresent'
  BY <1>1 DEF TypeInv, TypeOK, TypeBackground, InputsPresent, StartCompaction, clientVars,
     versionVars, manualVars
<1>3. TypeClients' /\ TypeGroups' /\ TypeQueue' /\ TypeStore' /\ TypeHistory'
  BY DEF TypeInv, TypeOK, TypeClients, TypeGroups, TypeQueue, TypeStore, TypeHistory,
     StartCompaction, clientVars, queueVars, queueVars, localVars, memVars, logVars,
     versionVars, historyVars
<1> QED BY <1>1, <1>2, <1>3 DEF TypeInv, TypeOK

LEMMA StartTrivialMoveType ==
    ASSUME TypeInv, StartTrivialMove
    PROVE  TypeInv'
<1>1. bg' \in BgStates /\ bg'.inputs \in 0..l0
  BY BoundsAssumption, TriggersAssumption DEF StartTrivialMove, Working, BgStates, BgPC,
     TypeInv, TypeOK, TypeBackground
<1>2. TypeBackground' /\ InputsPresent'
  BY <1>1 DEF TypeInv, TypeOK, TypeBackground, InputsPresent, StartTrivialMove, clientVars,
     versionVars, manualVars
<1>3. TypeClients' /\ TypeGroups' /\ TypeQueue' /\ TypeStore' /\ TypeHistory'
  BY DEF TypeInv, TypeOK, TypeClients, TypeGroups, TypeQueue, TypeStore, TypeHistory,
     StartTrivialMove, clientVars, queueVars, queueVars, localVars, memVars, logVars,
     versionVars, historyVars
<1> QED BY <1>1, <1>2, <1>3 DEF TypeInv, TypeOK

\* CompactMemTable leaves the background thread idle, or in its compaction with
\* the same inputs.
LEMMA LeaveMemTableType ==
    ASSUME TypeBackground, LeaveMemTable
    PROVE  bg' \in BgStates /\ bg'.inputs \in {0, bg.inputs} /\ bg_cv_waiting' = {}
<1>1. CASE bg.c = "none"
  BY <1>1, EndCallType DEF LeaveMemTable
<1>2. CASE bg.c # "none"
  <2>1. bg \in BgStates
    BY DEF TypeBackground
  <2>2. bg' = [pc |-> "work", c |-> bg.c, inputs |-> bg.inputs, keys |-> bg.keys, log |-> 0]
    BY <1>2, <2>1 DEF LeaveMemTable, BgStates
  <2> QED BY <1>2, <2>1, <2>2 DEF LeaveMemTable, BgStates, BgPC
<1> QED BY <1>1, <1>2

LEMMA TableFailsType ==
    ASSUME TypeInv, TableFails
    PROVE  TypeInv'
<1>1. bg' \in BgStates /\ bg'.inputs \in {0, bg.inputs} /\ bg_cv_waiting' = {}
  BY LeaveMemTableType DEF TableFails, TypeInv, TypeOK
<1>2. TypeBackground'
  BY <1>1 DEF TypeInv, TypeOK, TypeBackground, TableFails, clientVars, versionVars,
     manualVars
<1>3. InputsPresent'
  BY <1>1 DEF TypeInv, TypeOK, TypeBackground, InputsPresent, TableFails, versionVars
<1>4. TypeQueue'
  BY <1>1 DEF TypeInv, TypeOK, TypeQueue, TableFails, clientVars, queueVars
<1>5. TypeClients' /\ TypeGroups' /\ TypeStore' /\ TypeHistory'
  BY DEF TypeInv, TypeOK, TypeClients, TypeGroups, TypeStore, TypeHistory, TableFails,
     clientVars, queueVars, localVars, memVars, logVars, versionVars, historyVars
<1> QED BY <1>1, <1>2, <1>3, <1>4, <1>5 DEF TypeInv, TypeOK

LEMMA ApplyMemTableFailsType ==
    ASSUME TypeInv, ApplyMemTableFails
    PROVE  TypeInv'
<1>1. bg' \in BgStates /\ bg'.inputs \in {0, bg.inputs} /\ bg_cv_waiting' = {}
  BY LeaveMemTableType DEF ApplyMemTableFails, TypeInv, TypeOK
<1>2. TypeBackground'
  BY <1>1 DEF TypeInv, TypeOK, TypeBackground, ApplyMemTableFails, clientVars, versionVars,
     manualVars
<1>3. InputsPresent'
  BY <1>1 DEF TypeInv, TypeOK, TypeBackground, InputsPresent, ApplyMemTableFails,
     versionVars
<1>4. TypeQueue'
  BY <1>1 DEF TypeInv, TypeOK, TypeQueue, ApplyMemTableFails, clientVars, queueVars
<1>5. TypeClients' /\ TypeGroups' /\ TypeStore' /\ TypeHistory'
  BY DEF TypeInv, TypeOK, TypeClients, TypeGroups, TypeStore, TypeHistory,
     ApplyMemTableFails, clientVars, queueVars, localVars, memVars, logVars, versionVars,
     historyVars
<1> QED BY <1>1, <1>2, <1>3, <1>4, <1>5 DEF TypeInv, TypeOK

LEMMA ApplyMemTableType ==
    ASSUME TypeInv, ApplyMemTable
    PROVE  TypeInv'
<1>1. bg' \in BgStates /\ bg'.inputs \in {0, bg.inputs} /\ bg_cv_waiting' = {}
  BY LeaveMemTableType DEF ApplyMemTable, TypeInv, TypeOK
<1>2. l0' \in Nat /\ l0' >= l0
  BY DEF ApplyMemTable, TypeInv, TypeOK, TypeBackground
<1>3. wal' \subseteq Nat \X Nat
  BY DEF ApplyMemTable, LiveLogs, TypeInv, TypeOK, TypeStore
<1>4. log_number_' \in Nat
  BY DEF ApplyMemTable, TypeInv, TypeOK, TypeBackground, BgStates
<1>5. TypeBackground'
  BY <1>1, <1>2 DEF TypeInv, TypeOK, TypeBackground, ApplyMemTable, clientVars, manualVars
<1>6. InputsPresent'
  BY <1>1, <1>2 DEF TypeInv, TypeOK, TypeBackground, BgStates, InputsPresent
<1>7. TypeQueue'
  BY <1>1 DEF TypeInv, TypeOK, TypeQueue, ApplyMemTable, clientVars, queueVars
<1>8. TypeStore'
  BY <1>3, <1>4 DEF TypeInv, TypeOK, TypeStore, ApplyMemTable, clientVars
<1>9. TypeClients' /\ TypeGroups' /\ TypeHistory'
  BY DEF TypeInv, TypeOK, TypeClients, TypeGroups, TypeHistory, ApplyMemTable, clientVars,
     queueVars, localVars, historyVars
<1> QED BY <1>1, <1>2, <1>3, <1>4, <1>5, <1>6, <1>7, <1>8, <1>9 DEF TypeInv, TypeOK

\* BackgroundCompaction leaves the background thread idle, or dead.
LEMMA LeaveCompactionType ==
    ASSUME TypeInv, NEW ok \in BOOLEAN, LeaveCompaction(ok)
    PROVE  /\ bg' \in BgStates /\ bg'.inputs = 0
           /\ bg_cv_waiting' \in {{}, bg_cv_waiting}
           /\ done' \in [Threads -> BOOLEAN]
           /\ manual_compaction_' \in Threads \cup {None}
           /\ parts' = parts
<1>1. CASE bg.c # "manual"
  BY <1>1, EndCallType DEF LeaveCompaction, manualVars, TypeInv, TypeOK, TypeQueue,
     TypeBackground
<1>2. CASE bg.c = "manual" /\ manual_compaction_ = None
  BY <1>2 DEF LeaveCompaction, IdleBg, BgStates, BgPC, manualVars, TypeInv, TypeOK,
     TypeQueue, TypeBackground
<1>3. CASE bg.c = "manual" /\ manual_compaction_ # None
  <2>1. (~ok) \in BOOLEAN
    BY Zenon
  <2>2. EndCall /\ manual_compaction_' = None /\ parts' = parts
        /\ done' = [done EXCEPT ![manual_compaction_] = ~ok]
    BY <1>3 DEF LeaveCompaction
  <2>3. done' \in [Threads -> BOOLEAN]
    BY <2>1, <2>2 DEF TypeInv, TypeOK, TypeQueue
  <2> QED BY <2>2, <2>3, EndCallType
<1> QED BY <1>1, <1>2, <1>3

LEMMA CompactionFailsType ==
    ASSUME TypeInv, CompactionFails
    PROVE  TypeInv'
<1>1. bg' \in BgStates /\ bg'.inputs = 0 /\ bg_cv_waiting' \in {{}, bg_cv_waiting}
      /\ done' \in [Threads -> BOOLEAN] /\ manual_compaction_' \in Threads \cup {None} /\ parts' = parts
  BY LeaveCompactionType DEF CompactionFails
<1>2. l0' \in Nat
  BY DEF CompactionFails, compactionVars, TypeInv, TypeOK, TypeBackground, BgStates,
     InputsPresent
<1>3. TypeBackground'
  BY <1>1, <1>2 DEF TypeInv, TypeOK, TypeBackground, CompactionFails, compactionVars
<1>4. InputsPresent'
  BY <1>1, <1>2 DEF InputsPresent
<1>5. TypeQueue'
  BY <1>1 DEF TypeInv, TypeOK, TypeQueue, CompactionFails, compactionVars
<1>6. TypeClients' /\ TypeGroups' /\ TypeStore' /\ TypeHistory'
  BY DEF TypeInv, TypeOK, TypeClients, TypeGroups, TypeStore, TypeHistory, CompactionFails,
     compactionVars, localVars, memVars, logVars, versionVars, historyVars
<1> QED BY <1>1, <1>2, <1>3, <1>4, <1>5, <1>6 DEF TypeInv, TypeOK

LEMMA ApplyCompactionType ==
    ASSUME TypeInv, ApplyCompaction
    PROVE  TypeInv'
<1>1. bg' \in BgStates /\ bg'.inputs = 0 /\ bg_cv_waiting' \in {{}, bg_cv_waiting}
      /\ done' \in [Threads -> BOOLEAN] /\ manual_compaction_' \in Threads \cup {None} /\ parts' = parts
  BY LeaveCompactionType DEF ApplyCompaction
<1>2. l0' \in Nat
  BY DEF ApplyCompaction, compactionVars, TypeInv, TypeOK, TypeBackground, BgStates,
     InputsPresent
<1>3. TypeBackground'
  BY <1>1, <1>2 DEF TypeInv, TypeOK, TypeBackground, ApplyCompaction, compactionVars
<1>4. InputsPresent'
  BY <1>1, <1>2 DEF InputsPresent
<1>5. TypeQueue'
  BY <1>1 DEF TypeInv, TypeOK, TypeQueue, ApplyCompaction, compactionVars
<1>6. TypeClients' /\ TypeGroups' /\ TypeStore' /\ TypeHistory'
  BY DEF TypeInv, TypeOK, TypeClients, TypeGroups, TypeStore, TypeHistory, ApplyCompaction,
     compactionVars, localVars, memVars, logVars, versionVars, historyVars
<1> QED BY <1>1, <1>2, <1>3, <1>4, <1>5, <1>6 DEF TypeInv, TypeOK

LEMMA ApplyCompactionFailsType ==
    ASSUME TypeInv, ApplyCompactionFails
    PROVE  TypeInv'
<1>1. bg' \in BgStates /\ bg'.inputs = 0 /\ bg_cv_waiting' \in {{}, bg_cv_waiting}
      /\ done' \in [Threads -> BOOLEAN] /\ manual_compaction_' \in Threads \cup {None} /\ parts' = parts
  BY LeaveCompactionType DEF ApplyCompactionFails
<1>2. l0' \in Nat
  BY DEF ApplyCompactionFails, compactionVars, TypeInv, TypeOK, TypeBackground, BgStates,
     InputsPresent
<1>3. TypeBackground'
  BY <1>1, <1>2 DEF TypeInv, TypeOK, TypeBackground, ApplyCompactionFails, compactionVars
<1>4. InputsPresent'
  BY <1>1, <1>2 DEF InputsPresent
<1>5. TypeQueue'
  BY <1>1 DEF TypeInv, TypeOK, TypeQueue, ApplyCompactionFails, compactionVars
<1>6. TypeClients' /\ TypeGroups' /\ TypeStore' /\ TypeHistory'
  BY DEF TypeInv, TypeOK, TypeClients, TypeGroups, TypeStore, TypeHistory,
     ApplyCompactionFails, compactionVars, localVars, memVars, logVars, versionVars,
     historyVars
<1> QED BY <1>1, <1>2, <1>3, <1>4, <1>5, <1>6 DEF TypeInv, TypeOK

LEMMA CloseType ==
    ASSUME TypeInv, Close
    PROVE  TypeInv'
BY DEF TypeInv, TypeOK, TypeClients, TypeGroups, TypeQueue, TypeStore, TypeBackground,
   TypeHistory, InputsPresent, Close, queueVars, localVars, memVars, logVars, versionVars,
   manualVars, historyVars

LEMMA CloseAgainType ==
    ASSUME TypeInv, CloseAgain
    PROVE  TypeInv'
BY DEF TypeInv, TypeOK, TypeClients, TypeGroups, TypeQueue, TypeStore, TypeBackground,
   TypeHistory, InputsPresent, CloseAgain, queueVars, localVars, memVars, logVars,
   versionVars, manualVars, historyVars

-----------------------------------------------------------------------------
LEMMA InitType == Init => TypeInv
<1> SUFFICES ASSUME Init PROVE TypeInv
  OBVIOUS
<1>1. TypeClients
  BY BoundsAssumption DEF Init, TypeClients, ClientPC, NoRequest, AnyRequest
<1>2. TypeGroups
  BY DEF Init, TypeGroups, NoGroup
<1>3. TypeQueue
  BY DEF Init, TypeQueue
<1>4. TypeStore
  BY DEF Init, TypeStore
<1>5. bg \in BgStates /\ bg.inputs = 0
  BY DEF Init, IdleBg, BgStates, BgPC
<1>6. TypeBackground /\ InputsPresent
  <2>1. l0 \in Nat
    BY TriggersAssumption DEF Init
  <2>2. /\ bg_error_ = "ok" /\ shutting_down_ = FALSE /\ dtor = "open"
        /\ manual_compaction_ = None /\ parts \in [Threads -> Nat]
    BY DEF Init
  <2>3. TypeBackground
    BY <1>5, <2>1, <2>2 DEF TypeBackground
  <2>4. InputsPresent
    BY <1>5, <2>1 DEF InputsPresent
  <2> QED BY <2>3, <2>4
<1>7. TypeHistory
  BY DEF Init, TypeHistory
<1> QED BY <1>1, <1>2, <1>3, <1>4, <1>6, <1>7 DEF TypeInv, TypeOK

LEMMA NextType == TypeInv /\ [Next]_vars => TypeInv'
<1> SUFFICES ASSUME TypeInv, [Next]_vars PROVE TypeInv'
  OBVIOUS
<1>1. ASSUME NEW t \in Threads, Client(t) PROVE TypeInv'
  BY <1>1, ReturnDoneType, BecomeLeaderType, RoomErrorType, RoomDelayType, RoomWaitType,
     RoomAgainType, SwitchFailsType, SwitchMemTableType, RoomFoundType, GrowGroupType,
     CloseGroupType, AppendRecordType, AppendFailsType, SyncLogType, SyncFailsType,
     InsertEntryType, WriteSucceedsType, WriteFailsType, FlushCheckType, ManualWaitType,
     ManualReturnType
     DEF Client, Leader
<1>2. ASSUME NEW t \in Threads, NEW r \in Requests, Write(t, r) \/ CallManual(t, r)
      PROVE  TypeInv'
  BY <1>2, WriteType, CallManualType
<1>3. CASE Background
  BY <1>3, BackgroundIdleType, StartMemTableType, ManualNothingLeftType, StartManualType,
     StartCompactionType, StartTrivialMoveType, CompactImmFirstType, TableBuiltType,
     TableFailsType, ApplyMemTableType, ApplyMemTableFailsType, CompactionDoneType,
     CompactionFailsType, ApplyCompactionType, ApplyCompactionFailsType
     DEF Background
<1>4. CASE Close \/ CloseAgain
  BY <1>4, CloseType, CloseAgainType
<1>5. CASE Terminated \/ UNCHANGED vars
  <2>1. UNCHANGED vars
    BY <1>5 DEF Terminated
  <2>2. (TypeClients /\ TypeGroups /\ TypeQueue)'
    BY <2>1 DEF vars, queueVars, localVars, TypeInv, TypeOK, TypeClients, TypeGroups, TypeQueue
  <2>3. (TypeStore /\ TypeHistory)'
    BY <2>1 DEF vars, memVars, logVars, versionVars, historyVars, TypeInv, TypeOK, TypeStore,
                TypeHistory
  <2>4. (TypeBackground /\ InputsPresent)'
    BY <2>1 DEF vars, versionVars, manualVars, TypeInv, TypeOK, TypeBackground, InputsPresent
  <2> QED BY <2>2, <2>3, <2>4 DEF TypeInv, TypeOK
<1> QED BY <1>1, <1>2, <1>3, <1>4, <1>5 DEF Next

\* Every reachable state of DBImpl is well typed; among the rest that the number
\* of level-0 files never goes below zero, since a compaction's inputs are still
\* in the version when it is installed.
THEOREM TypeCorrect == Spec => []TypeOK
<1>1. Spec => []TypeInv
  BY InitType, NextType, PTL DEF Spec
<1>2. TypeInv => TypeOK
  BY DEF TypeInv
<1> QED BY <1>1, <1>2, PTL

-----------------------------------------------------------------------------
(***************************************************************************)
(* The queue of writers, for every value of DBImpl's constants: one thread *)
(* at a time, the head of the queue, is between BuildBatchGroup and the    *)
(* end of Write.                                                           *)
(***************************************************************************)
\* MakeRoomForWrite, which only the head of the queue runs.
Rooming == {"room", "sleep", "roomwait"}

\* Threads that have their Writer in the queue.
Queueing(t) == pc[t] \in Rooming \cup Leading \/ (pc[t] = "queued" /\ ~done[t])

\* OneLogger is not inductive: it needs that the queue holds each writer once,
\* and exactly those whose call is neither finished nor answered by a leader.
\* A manual compaction's done flag is in the same variable, so the invariant
\* also says whose flag the background thread sets.
NoDuplicates == \A i, j \in 1..Len(writers_) : writers_[i] = writers_[j] => i = j
QueueHolds   == \A t \in Threads : Queueing(t) <=> \E i \in 1..Len(writers_) : writers_[i] = t
HeadLeads    == \A t \in Threads : pc[t] \in Rooming \cup Leading => writers_[1] = t
GroupQueued  == \A t \in Threads : pc[t] \in Leading => group[t].n \in 1..Len(writers_)
ManualCalls  == manual_compaction_ # None => pc[manual_compaction_] = "manual"
QueueInv == NoDuplicates /\ QueueHolds /\ HeadLeads /\ GroupQueued /\ ManualCalls

-----------------------------------------------------------------------------
(***************************************************************************)
(* Steps that leave the queue alone.                                       *)
(***************************************************************************)
\* Nothing that QueueInv speaks of changes.
LEMMA QueueFrame ==
    ASSUME QueueInv, UNCHANGED <<writers_, done, group, pc, manual_compaction_>>
    PROVE  QueueInv'
BY DEF QueueInv, NoDuplicates, QueueHolds, HeadLeads, GroupQueued, ManualCalls, Queueing

\* A leader goes from one point of Write to another.
LEMMA LeaderMoves ==
    ASSUME TypeInv, QueueInv, UNCHANGED <<writers_, done, group, manual_compaction_>>,
           NEW t \in Threads, NEW p \in Rooming \cup Leading,
           pc' = [pc EXCEPT ![t] = p], pc[t] \in Rooming \cup Leading,
           p \in Leading => pc[t] \in Leading
    PROVE  QueueInv'
<1>1. pc'[t] = p /\ \A u \in Threads \ {t} : pc'[u] = pc[u]
  BY DEF TypeInv, TypeOK, TypeClients
<1>2. NoDuplicates'
  BY DEF QueueInv, NoDuplicates
<1>3. \A u \in Threads : Queueing(u)' <=> Queueing(u)
  BY <1>1 DEF Queueing
<1>4. QueueHolds'
  BY <1>3 DEF QueueInv, QueueHolds
<1>5. HeadLeads' /\ GroupQueued'
  BY <1>1 DEF QueueInv, HeadLeads, GroupQueued
<1>6. ManualCalls'
  BY <1>1 DEF QueueInv, ManualCalls, Rooming, Leading, TypeInv, TypeOK, TypeBackground
<1> QED BY <1>2, <1>4, <1>5, <1>6 DEF QueueInv

\* A thread outside the queue moves, and no manual compaction of its ends.
LEMMA OutsiderMoves ==
    ASSUME TypeInv, QueueInv, UNCHANGED <<writers_, done, group, manual_compaction_>>,
           NEW t \in Threads, NEW p \in {"idle", "flushcheck"},
           pc' = [pc EXCEPT ![t] = p], ~Queueing(t), pc[t] # "manual"
    PROVE  QueueInv'
<1>1. pc'[t] = p /\ \A u \in Threads \ {t} : pc'[u] = pc[u]
  BY DEF TypeInv, TypeOK, TypeClients
<1>2. NoDuplicates'
  BY DEF QueueInv, NoDuplicates
<1>3. \A u \in Threads : Queueing(u)' <=> Queueing(u)
  BY <1>1 DEF Queueing, Rooming, Leading
<1>4. QueueHolds'
  BY <1>3 DEF QueueInv, QueueHolds
<1>5. HeadLeads' /\ GroupQueued'
  BY <1>1 DEF QueueInv, HeadLeads, GroupQueued, Rooming, Leading
<1>6. ManualCalls'
  BY <1>1 DEF QueueInv, ManualCalls, TypeInv, TypeOK, TypeBackground
<1> QED BY <1>2, <1>4, <1>5, <1>6 DEF QueueInv

-----------------------------------------------------------------------------
(***************************************************************************)
(* The end of Write.                                                       *)
(***************************************************************************)
\* The rest of the queue, after the first n writers have left.
LEMMA RestOfQueue ==
    ASSUME NEW S, NEW s \in Seq(S), NEW n \in 1..Len(s)
    PROVE  LET rest == SubSeq(s, n + 1, Len(s))
           IN  /\ Len(rest) = Len(s) - n
               /\ \A i \in 1..Len(s) - n : rest[i] = s[n + i]
<1>1. n + 1 \in 1..Len(s) + 1 /\ Len(s) \in n + 1 - 1..Len(s)
  BY LenProperties
<1> QED BY <1>1, SubSeqProperties, LenProperties

\* The head of the queue leaves with its group, the first n writers.
LEMMA LeaveQueueInv ==
    ASSUME TypeInv, QueueInv, NEW t \in Threads, NEW st \in {"ok", "error"},
           NEW n \in 1..Len(writers_), LeaveQueue(t, n, st), writers_[1] = t,
           pc[t] \in Rooming \cup Leading, UNCHANGED manual_compaction_
    PROVE  QueueInv'
<1> DEFINE members == {writers_[i] : i \in 1..n}
<1>len. Len(writers_) \in Nat /\ writers_ \in Seq(Threads)
  BY LenProperties DEF TypeInv, TypeOK, TypeQueue
<1>1. /\ Len(writers_') = Len(writers_) - n
      /\ \A i \in 1..Len(writers_) - n : writers_'[i] = writers_[n + i]
  BY <1>len, RestOfQueue DEF LeaveQueue
<1>2. \A u \in Threads \ {t} : pc'[u] = pc[u]
  BY DEF LeaveQueue, TypeInv, TypeOK, TypeClients
<1>3. pc'[t] \in {"idle", "flushcheck"}
  BY DEF LeaveQueue, AfterWrite, TypeInv, TypeOK, TypeClients
<1>4. \A u \in Threads : done'[u] <=> (done[u] \/ u \in members \ {t})
  BY DEF LeaveQueue
<1>5. \A u \in Threads \ {t} : pc[u] \notin Rooming \cup Leading
  BY DEF QueueInv, HeadLeads
<1>6. NoDuplicates'
  <2> SUFFICES ASSUME NEW i \in 1..Len(writers_'), NEW j \in 1..Len(writers_'),
                      writers_'[i] = writers_'[j]
               PROVE  i = j
    BY DEF NoDuplicates
  <2> HIDE DEF members
  <2>3. i \in 1..Len(writers_) - n /\ j \in 1..Len(writers_) - n
    BY <1>1
  <2>4. writers_[n + i] = writers_[n + j]
    BY <1>1, <2>3
  <2>1. n + i \in 1..Len(writers_) /\ n + j \in 1..Len(writers_)
    BY <1>len, <2>3
  <2>2. n + i = n + j
    BY <2>1, <2>4 DEF QueueInv, NoDuplicates
  <2> QED BY <2>2, <2>3, <1>len
<1>7. ASSUME NEW u \in Threads
      PROVE  Queueing(u)' <=> Queueing(u) /\ u \notin members
  <2>1. t \in members
    BY <1>len
  <2>2. CASE u = t
    BY <2>1, <2>2, <1>3 DEF Queueing, Rooming, Leading
  <2>3. CASE u # t
    <3>1. pc'[u] = pc[u] /\ pc[u] \notin Rooming \cup Leading
      BY <2>3, <1>2, <1>5
    <3>2. done'[u] <=> (done[u] \/ u \in members)
      BY <2>3, <1>4
    <3> QED BY <3>1, <3>2 DEF Queueing
  <2> QED BY <2>2, <2>3
<1>8. ASSUME NEW u \in Threads
      PROVE  (\E i \in 1..Len(writers_) - n : writers_[n + i] = u)
             <=> (\E i \in 1..Len(writers_) : writers_[i] = u) /\ u \notin members
  <2>1. ASSUME NEW i \in 1..Len(writers_) - n, writers_[n + i] = u
        PROVE  (\E k \in 1..Len(writers_) : writers_[k] = u) /\ u \notin members
    <3>1. n + i \in 1..Len(writers_) /\ n + i \notin 1..n
      BY <1>len
    <3>2. \A k \in 1..n : writers_[k] # u
      BY <3>1, <2>1, <1>len DEF QueueInv, NoDuplicates
    <3> QED BY <3>1, <3>2, <2>1
  <2>2. ASSUME NEW k \in 1..Len(writers_), writers_[k] = u, u \notin members
        PROVE  \E i \in 1..Len(writers_) - n : writers_[n + i] = u
    <3>1. k \notin 1..n
      BY <2>2
    <3>2. k - n \in 1..Len(writers_) - n /\ n + (k - n) = k
      BY <3>1, <1>len
    <3> QED BY <3>2, <2>2
  <2> QED BY <2>1, <2>2
<1>9. QueueHolds'
  <2> SUFFICES ASSUME NEW u \in Threads
               PROVE  Queueing(u)' <=> \E i \in 1..Len(writers_) - n : writers_[n + i] = u
    BY <1>1 DEF QueueHolds
  <2> QED BY <1>7, <1>8 DEF QueueInv, QueueHolds
<1>10. HeadLeads' /\ GroupQueued'
  <2>1. \A u \in Threads : pc'[u] \notin Rooming \cup Leading
    BY <1>2, <1>3, <1>5 DEF Rooming, Leading
  <2> QED BY <2>1 DEF HeadLeads, GroupQueued
<1>11. ManualCalls'
  BY <1>2 DEF QueueInv, ManualCalls, Rooming, Leading, TypeInv, TypeOK, TypeBackground
<1> QED BY <1>6, <1>9, <1>10, <1>11 DEF QueueInv

-----------------------------------------------------------------------------
(***************************************************************************)
(* Every action keeps QueueInv.                                            *)
(***************************************************************************)
\* A writer joins the end of the queue.
LEMMA WriteQueue ==
    ASSUME TypeInv, QueueInv, NEW t \in Threads, NEW r \in Requests, Write(t, r)
    PROVE  QueueInv'
<1>len. Len(writers_) \in Nat /\ writers_ \in Seq(Threads)
  BY LenProperties DEF TypeInv, TypeOK, TypeQueue
<1>1. /\ Len(writers_') = Len(writers_) + 1
      /\ \A i \in 1..Len(writers_) : writers_'[i] = writers_[i]
      /\ writers_'[Len(writers_) + 1] = t
  BY <1>len, AppendProperties DEF Write
<1>2. \A u \in Threads \ {t} : pc'[u] = pc[u] /\ done'[u] = done[u]
  BY DEF Write, TypeInv, TypeOK, TypeClients, TypeQueue
<1>3. pc[t] = "idle" /\ ~done'[t] /\ group' = group /\ UNCHANGED manual_compaction_
  BY DEF Write, At, manualVars, TypeInv, TypeOK, TypeQueue
<1>4. pc'[t] = IF writers_ = <<>> THEN "room" ELSE "queued"
  BY DEF Write, LeadsAtOnce, TypeInv, TypeOK, TypeClients
<1>5. ~\E i \in 1..Len(writers_) : writers_[i] = t
  BY <1>3 DEF QueueInv, QueueHolds, Queueing, Rooming, Leading
<1>6. NoDuplicates'
  <2> SUFFICES ASSUME NEW i \in 1..Len(writers_'), NEW j \in 1..Len(writers_'),
                      writers_'[i] = writers_'[j]
               PROVE  i = j
    BY DEF NoDuplicates
  <2>1. CASE i \in 1..Len(writers_) /\ j \in 1..Len(writers_)
    BY <2>1, <1>1 DEF QueueInv, NoDuplicates
  <2>2. CASE i \notin 1..Len(writers_) \/ j \notin 1..Len(writers_)
    BY <2>2, <1>1, <1>5, <1>len
  <2> QED BY <2>1, <2>2
<1>7. QueueHolds'
  <2> SUFFICES ASSUME NEW u \in Threads
               PROVE  Queueing(u)' <=> \E i \in 1..Len(writers_') : writers_'[i] = u
    BY DEF QueueHolds
  <2>1. CASE u = t
    <3>1. Queueing(u)'
      BY <2>1, <1>3, <1>4 DEF Queueing, Rooming
    <3>2. Len(writers_) + 1 \in 1..Len(writers_')
      BY <1>1, <1>len
    <3> QED BY <2>1, <3>1, <3>2, <1>1
  <2>2. CASE u # t
    <3>1. Queueing(u)' <=> Queueing(u)
      BY <2>2, <1>2 DEF Queueing
    <3>2. (\E i \in 1..Len(writers_') : writers_'[i] = u)
          <=> \E i \in 1..Len(writers_) : writers_[i] = u
      BY <2>2, <1>1, <1>len
    <3> QED BY <3>1, <3>2 DEF QueueInv, QueueHolds
  <2> QED BY <2>1, <2>2
<1>8. ASSUME NEW u \in Threads \ {t}, pc[u] \in Rooming \cup Leading
      PROVE  1 \in 1..Len(writers_) /\ writers_ # <<>>
  <2>1. \E i \in 1..Len(writers_) : writers_[i] = u
    BY <1>8 DEF QueueInv, QueueHolds, Queueing
  <2>2. Len(writers_) > 0
    BY <2>1, <1>len
  <2> QED BY <2>2, <1>len, EmptySeq
<1>9. HeadLeads'
  <2> SUFFICES ASSUME NEW u \in Threads, pc'[u] \in Rooming \cup Leading
               PROVE  writers_'[1] = u
    BY DEF HeadLeads
  <2>1. CASE u = t
    <3>1. writers_ = <<>>
      BY <2>1, <1>4 DEF Rooming, Leading
    <3>2. Len(writers_) = 0
      BY <3>1, EmptySeq
    <3> QED BY <3>2, <2>1, <1>1
  <2>2. CASE u # t
    BY <2>2, <1>1, <1>2, <1>8 DEF QueueInv, HeadLeads
  <2> QED BY <2>1, <2>2
<1>10. GroupQueued'
  <2> SUFFICES ASSUME NEW u \in Threads, pc'[u] \in Leading
               PROVE  group'[u].n \in 1..Len(writers_')
    BY DEF GroupQueued
  <2>1. u # t
    BY <1>4 DEF Leading
  <2>2. group[u].n \in 1..Len(writers_)
    BY <2>1, <1>2 DEF QueueInv, GroupQueued
  <2> QED BY <2>2, <1>1, <1>3, <1>len
<1>11. ManualCalls'
  BY <1>2, <1>3 DEF QueueInv, ManualCalls, TypeInv, TypeOK, TypeBackground
<1> QED BY <1>6, <1>7, <1>9, <1>10, <1>11 DEF QueueInv

LEMMA BecomeLeaderQueue ==
    ASSUME TypeInv, QueueInv, NEW t \in Threads, BecomeLeader(t)
    PROVE  QueueInv'
<1>1. pc'[t] = "room" /\ \A u \in Threads \ {t} : pc'[u] = pc[u]
  BY DEF BecomeLeader, TypeInv, TypeOK, TypeClients
<1>2. pc[t] = "queued" /\ ~done[t] /\ UNCHANGED <<writers_, done, group,
manual_compaction_>>
  BY DEF BecomeLeader, At, queueVars, localVars, manualVars
<1>3. writers_[1] = t
  BY DEF BecomeLeader
<1>4. \A u \in Threads : Queueing(u)' <=> Queueing(u)
  BY <1>1, <1>2 DEF Queueing, Rooming
<1>5. NoDuplicates' /\ QueueHolds'
  BY <1>2, <1>4 DEF QueueInv, NoDuplicates, QueueHolds
<1>6. HeadLeads' /\ GroupQueued'
  BY <1>1, <1>2, <1>3 DEF QueueInv, HeadLeads, GroupQueued, Leading
<1>7. ManualCalls'
  BY <1>1, <1>2 DEF QueueInv, ManualCalls, TypeInv, TypeOK, TypeBackground
<1> QED BY <1>5, <1>6, <1>7 DEF QueueInv

\* The queue of a thread that runs MakeRoomForWrite is not empty.
LEMMA QueueNotEmpty ==
    ASSUME TypeInv, QueueInv, NEW t \in Threads, pc[t] \in Rooming \cup Leading
    PROVE  1 \in 1..Len(writers_) /\ writers_[1] = t
<1>1. Len(writers_) \in Nat
  BY LenProperties DEF TypeInv, TypeOK, TypeQueue
<1>2. \E i \in 1..Len(writers_) : writers_[i] = t
  BY DEF QueueInv, QueueHolds, Queueing
<1> QED BY <1>1, <1>2 DEF QueueInv, HeadLeads

\* MakeRoomForWrite ends in an error, or ends the write of a NULL batch.
LEMMA RoomEndsQueue ==
    ASSUME TypeInv, QueueInv, NEW t \in Threads,
           \/ RoomError(t) \/ SwitchFails(t)
           \/ RoomFound(t) /\ req[t].kind = "flush"
    PROVE  QueueInv'
<1>1. /\ pc[t] \in Rooming
      /\ UNCHANGED manual_compaction_
      /\ LeaveQueue(t, 1, "error") \/ LeaveQueue(t, 1, "ok")
  BY DEF RoomError, SwitchFails, RoomFound, At, Rooming, manualVars
<1>2. 1 \in 1..Len(writers_) /\ writers_[1] = t
  BY <1>1, QueueNotEmpty
<1> QED BY <1>1, <1>2, LeaveQueueInv

\* A real batch starts its group of one.
LEMMA RoomFoundQueue ==
    ASSUME TypeInv, QueueInv, NEW t \in Threads, RoomFound(t), req[t].kind # "flush"
    PROVE  QueueInv'
<1>1. pc[t] = "room" /\ pc'[t] = "group" /\ \A u \in Threads \ {t} : pc'[u] = pc[u]
  BY DEF RoomFound, At, TypeInv, TypeOK, TypeClients
<1>2. UNCHANGED <<writers_, done, manual_compaction_>>
  BY DEF RoomFound, queueVars, manualVars
<1>3. group'[t].n = 1 /\ \A u \in Threads \ {t} : group'[u] = group[u]
  BY DEF RoomFound, TypeInv, TypeOK, TypeGroups
<1>4. 1 \in 1..Len(writers_) /\ writers_[1] = t
  BY <1>1, QueueNotEmpty DEF Rooming
<1>5. \A u \in Threads : Queueing(u)' <=> Queueing(u)
  BY <1>1, <1>2 DEF Queueing, Rooming, Leading
<1>6. NoDuplicates' /\ QueueHolds'
  BY <1>2, <1>5 DEF QueueInv, NoDuplicates, QueueHolds
<1>7. HeadLeads'
  BY <1>1, <1>2, <1>4 DEF QueueInv, HeadLeads
<1>8. GroupQueued'
  BY <1>1, <1>2, <1>3, <1>4 DEF QueueInv, GroupQueued
<1>9. ManualCalls'
  BY <1>1, <1>2 DEF QueueInv, ManualCalls, TypeInv, TypeOK, TypeBackground
<1> QED BY <1>6, <1>7, <1>8, <1>9 DEF QueueInv

\* BuildBatchGroup takes one more writer from the queue.
LEMMA GrowGroupQueue ==
    ASSUME TypeInv, QueueInv, NEW t \in Threads, GrowGroup(t)
    PROVE  QueueInv'
<1>1. UNCHANGED <<pc, writers_, done, manual_compaction_>> /\ pc[t] = "group"
  BY DEF GrowGroup, At, queueVars, manualVars
<1>2. group'[t].n = group[t].n + 1 /\ \A u \in Threads \ {t} : group'[u] = group[u]
  BY DEF GrowGroup, TypeInv, TypeOK, TypeGroups
<1>3. group[t].n < Len(writers_) /\ group[t].n \in 1..Len(writers_)
  BY <1>1 DEF GrowGroup, GroupGrows, QueueInv, GroupQueued, Leading
<1>4. Len(writers_) \in Nat
  BY LenProperties DEF TypeInv, TypeOK, TypeQueue
<1>5. \A u \in Threads : Queueing(u)' <=> Queueing(u)
  BY <1>1 DEF Queueing
<1>6. NoDuplicates' /\ QueueHolds' /\ HeadLeads' /\ ManualCalls'
  BY <1>1, <1>5 DEF QueueInv, NoDuplicates, QueueHolds, HeadLeads, ManualCalls
<1>7. group'[t].n \in 1..Len(writers_)
  BY <1>2, <1>3, <1>4
<1>8. GroupQueued'
  BY <1>1, <1>2, <1>7 DEF QueueInv, GroupQueued
<1> QED BY <1>6, <1>8 DEF QueueInv

\* What a leader does between leaving MakeRoomForWrite and ending Write, and
\* between two rounds of MakeRoomForWrite.
LEMMA LeaderQueue ==
    ASSUME TypeInv, QueueInv, NEW t \in Threads,
           \/ RoomDelay(t) \/ RoomWait(t) \/ RoomAgain(t) \/ CloseGroup(t)
           \/ AppendRecord(t) \/ AppendFails(t) \/ SyncLog(t) \/ SyncFails(t)
    PROVE  QueueInv'
<1>1. UNCHANGED <<writers_, done, group, manual_compaction_>>
  BY DEF RoomDelay, RoomWait, RoomAgain, CloseGroup, AppendRecord, AppendFails, SyncLog,
         SyncFails, queueVars, localVars, manualVars
<1>2. CASE RoomDelay(t) \/ RoomWait(t) \/ RoomAgain(t)
  <2>1. pc[t] \in Rooming /\ \E p \in Rooming : pc' = [pc EXCEPT ![t] = p]
    BY <1>2 DEF RoomDelay, RoomWait, RoomAgain, At, Rooming
  <2> QED BY <1>1, <2>1, LeaderMoves DEF Rooming, Leading
<1>3. CASE CloseGroup(t) \/ AppendFails(t) \/ SyncLog(t) \/ SyncFails(t)
  <2>1. pc[t] \in Leading /\ \E p \in Leading : pc' = [pc EXCEPT ![t] = p]
    BY <1>3 DEF CloseGroup, AppendFails, SyncLog, SyncFails, At, Leading
  <2> QED BY <1>1, <2>1, LeaderMoves
<1>4. CASE AppendRecord(t)
  <2>1. pc[t] \in Leading /\ \E p \in Leading : pc' = [pc EXCEPT ![t] = p]
    BY <1>4 DEF AppendRecord, At, Leading
  <2> QED BY <1>1, <2>1, LeaderMoves
<1> QED BY <1>2, <1>3, <1>4

\* The leader ends Write and leaves with its group.
LEMMA FinishWriteQueue ==
    ASSUME TypeInv, QueueInv, NEW t \in Threads, WriteSucceeds(t) \/ WriteFails(t)
    PROVE  QueueInv'
<1>1. /\ pc[t] \in Leading
      /\ UNCHANGED manual_compaction_
      /\ LeaveQueue(t, group[t].n, "error") \/ LeaveQueue(t, group[t].n, "ok")
  BY DEF WriteSucceeds, WriteFails, FinishWrite, At, Leading, manualVars
<1>2. group[t].n \in 1..Len(writers_) /\ writers_[1] = t
  BY <1>1 DEF QueueInv, GroupQueued, HeadLeads
<1> QED BY <1>1, <1>2, LeaveQueueInv

\* Calls of TEST_CompactMemTable and writers that their leader has served.
LEMMA OutsiderQueue ==
    ASSUME TypeInv, QueueInv, NEW t \in Threads, ReturnDone(t) \/ FlushCheck(t)
    PROVE  QueueInv'
<1>1. UNCHANGED <<writers_, done, group, manual_compaction_>>
  BY DEF ReturnDone, FlushCheck, queueVars, localVars, manualVars
<1>2. ~Queueing(t) /\ pc[t] # "manual"
  BY DEF ReturnDone, FlushCheck, At, Queueing, Rooming, Leading
<1>3. CASE ReturnDone(t)
  <2>1. \E p \in {"idle", "flushcheck"} : pc' = [pc EXCEPT ![t] = p]
    BY <1>3 DEF ReturnDone, AfterWrite
  <2> QED BY <1>1, <1>2, <2>1, OutsiderMoves
<1>4. CASE FlushCheck(t)
  <2>1. UNCHANGED pc \/ pc' = [pc EXCEPT ![t] = "idle"]
    BY <1>4 DEF FlushCheck
  <2> QED BY <1>1, <1>2, <2>1, OutsiderMoves, QueueFrame
<1> QED BY <1>3, <1>4

\* TEST_CompactRange is called.
LEMMA CallManualQueue ==
    ASSUME TypeInv, QueueInv, NEW t \in Threads, NEW r \in Requests, CallManual(t, r)
    PROVE  QueueInv'
<1>1. pc[t] = "idle" /\ pc'[t] = "manual" /\ \A u \in Threads \ {t} : pc'[u] = pc[u] /\ done'[u] = done[u]
  BY DEF CallManual, At, TypeInv, TypeOK, TypeClients, TypeQueue
<1>2. UNCHANGED <<writers_, group, manual_compaction_>>
  BY DEF CallManual, localVars
<1>3. \A u \in Threads : Queueing(u)' <=> Queueing(u)
  BY <1>1 DEF Queueing, Rooming, Leading
<1>4. NoDuplicates' /\ QueueHolds'
  BY <1>2, <1>3 DEF QueueInv, NoDuplicates, QueueHolds
<1>5. HeadLeads' /\ GroupQueued'
  BY <1>1, <1>2 DEF QueueInv, HeadLeads, GroupQueued, Rooming, Leading
<1>6. ManualCalls'
  BY <1>1, <1>2 DEF QueueInv, ManualCalls, TypeInv, TypeOK, TypeBackground
<1> QED BY <1>4, <1>5, <1>6 DEF QueueInv

\* TEST_CompactRange registers its request and waits, or returns.
LEMMA ManualQueue ==
    ASSUME TypeInv, QueueInv, NEW t \in Threads, ManualWait(t) \/ ManualReturn(t)
    PROVE  QueueInv'
<1>1. UNCHANGED <<writers_, done, group>> /\ pc[t] = "manual"
  BY DEF ManualWait, ManualReturn, At, queueVars, localVars
<1>2. CASE ManualWait(t)
  <2>1. UNCHANGED pc /\ manual_compaction_' \in {t, manual_compaction_}
    BY <1>2 DEF ManualWait
  <2>2. ManualCalls'
    BY <1>1, <2>1 DEF QueueInv, ManualCalls
  <2>3. NoDuplicates' /\ QueueHolds' /\ HeadLeads' /\ GroupQueued'
    BY <1>1, <2>1 DEF QueueInv, NoDuplicates, QueueHolds, Queueing, HeadLeads, GroupQueued
  <2> QED BY <2>2, <2>3 DEF QueueInv
<1>3. CASE ManualReturn(t)
  <2>1. pc'[t] = "idle" /\ \A u \in Threads \ {t} : pc'[u] = pc[u]
    BY <1>3 DEF ManualReturn, TypeInv, TypeOK, TypeClients
  <2>2. manual_compaction_' = IF manual_compaction_ = t THEN None ELSE manual_compaction_
    BY <1>3 DEF ManualReturn, Withdrawn
  <2>3. ManualCalls'
    BY <2>1, <2>2 DEF QueueInv, ManualCalls, TypeInv, TypeOK, TypeBackground
  <2>4. \A u \in Threads : Queueing(u)' <=> Queueing(u)
    BY <1>1, <2>1 DEF Queueing, Rooming, Leading
  <2>5. NoDuplicates' /\ QueueHolds'
    BY <1>1, <2>4 DEF QueueInv, NoDuplicates, QueueHolds
  <2>6. HeadLeads' /\ GroupQueued'
    BY <1>1, <2>1 DEF QueueInv, HeadLeads, GroupQueued, Rooming, Leading
  <2> QED BY <2>3, <2>5, <2>6 DEF QueueInv
<1> QED BY <1>2, <1>3

\* The background thread ends a manual compaction: it sets the done flag of a
\* thread that is in TEST_CompactRange, so of none in the queue.
LEMMA ManualDoneQueue ==
    ASSUME TypeInv, QueueInv, UNCHANGED <<writers_, group, pc>>,
           manual_compaction_ # None, manual_compaction_' = None,
           NEW b \in BOOLEAN, done' = [done EXCEPT ![manual_compaction_] = b]
    PROVE  QueueInv'
<1>1. manual_compaction_ \in Threads /\ pc[manual_compaction_] = "manual"
  BY DEF QueueInv, ManualCalls, TypeInv, TypeOK, TypeBackground
<1>2. \A u \in Threads \ {manual_compaction_} : done'[u] = done[u]
  BY DEF TypeInv, TypeOK, TypeQueue
<1>3. \A u \in Threads : Queueing(u)' <=> Queueing(u)
  BY <1>1, <1>2 DEF Queueing, Rooming, Leading
<1>4. NoDuplicates' /\ QueueHolds' /\ HeadLeads' /\ GroupQueued'
  BY <1>3 DEF QueueInv, NoDuplicates, QueueHolds, HeadLeads, GroupQueued
<1>5. ManualCalls'
  BY DEF ManualCalls
<1> QED BY <1>4, <1>5 DEF QueueInv

LEMMA BackgroundQueue ==
    ASSUME TypeInv, QueueInv, Background
    PROVE  QueueInv'
<1>1. CASE ManualNothingLeft
  <2>1. UNCHANGED <<writers_, group, pc>> /\ manual_compaction_ # None
    BY <1>1 DEF ManualNothingLeft, localVars
  <2>2. manual_compaction_' = None /\ done' = [done EXCEPT ![manual_compaction_] = TRUE]
    BY <1>1 DEF ManualNothingLeft
  <2> QED BY <2>1, <2>2, ManualDoneQueue
<1>2. CASE CompactionFails \/ ApplyCompaction \/ ApplyCompactionFails
  <2>1. UNCHANGED <<writers_, group, pc>>
    BY <1>2 DEF CompactionFails, ApplyCompaction, ApplyCompactionFails, compactionVars,
       localVars
  <2>2. LeaveCompaction(TRUE) \/ LeaveCompaction(FALSE)
    BY <1>2 DEF CompactionFails, ApplyCompaction, ApplyCompactionFails
  <2>3. CASE UNCHANGED <<done, manual_compaction_>>
    BY <2>1, <2>3, QueueFrame
  <2>4. CASE /\ manual_compaction_ # None /\ manual_compaction_' = None
             /\ \E b \in BOOLEAN : done' = [done EXCEPT ![manual_compaction_] = b]
    BY <2>1, <2>4, ManualDoneQueue
  <2>5. \/ UNCHANGED <<done, manual_compaction_>>
        \/ /\ manual_compaction_ # None /\ manual_compaction_' = None
           /\ \E b \in BOOLEAN : done' = [done EXCEPT ![manual_compaction_] = b]
    BY <2>2 DEF LeaveCompaction, manualVars
  <2> QED BY <2>3, <2>4, <2>5
<1>3. CASE \/ BackgroundIdle \/ StartMemTable \/ StartManual \/ StartCompaction
           \/ StartTrivialMove \/ CompactImmFirst \/ TableBuilt \/ TableFails
           \/ ApplyMemTable \/ ApplyMemTableFails \/ CompactionDone
  <2>1. UNCHANGED <<clientVars, manual_compaction_>>
    BY <1>3 DEF BackgroundIdle, StartMemTable, StartManual, StartCompaction,
       StartTrivialMove, CompactImmFirst, TableBuilt, TableFails, ApplyMemTable,
       ApplyMemTableFails, CompactionDone, manualVars
  <2>2. UNCHANGED <<writers_, done, group, pc, manual_compaction_>>
    BY <2>1 DEF clientVars, queueVars, localVars
  <2> QED BY <2>2, QueueFrame
<1> QED BY <1>1, <1>2, <1>3 DEF Background

-----------------------------------------------------------------------------
LEMMA InitQueue == Init => QueueInv
<1> SUFFICES ASSUME Init PROVE QueueInv
  OBVIOUS
<1>1. Len(writers_) = 0 /\ 1..Len(writers_) = {}
  BY EmptySeq DEF Init
<1>2. \A t \in Threads : pc[t] = "idle"
  BY DEF Init
<1>3. manual_compaction_ = None
  BY DEF Init
<1> QED BY <1>1, <1>2, <1>3 DEF QueueInv, NoDuplicates, QueueHolds, Queueing, HeadLeads,
           GroupQueued, ManualCalls, Rooming, Leading

LEMMA NextQueue == TypeInv /\ QueueInv /\ [Next]_vars => QueueInv'
<1> SUFFICES ASSUME TypeInv, QueueInv, [Next]_vars PROVE QueueInv'
  OBVIOUS
<1>1. ASSUME NEW t \in Threads, Client(t) PROVE QueueInv'
  <2>1. CASE SwitchMemTable(t) \/ InsertEntry(t)
    <3>1. UNCHANGED <<writers_, done, group, pc, manual_compaction_>>
      BY <2>1 DEF SwitchMemTable, InsertEntry, queueVars, manualVars
    <3> QED BY <3>1, QueueFrame
  <2>2. CASE RoomFound(t)
    BY <2>2, RoomEndsQueue, RoomFoundQueue
  <2>3. CASE ~(SwitchMemTable(t) \/ InsertEntry(t) \/ RoomFound(t))
    BY <1>1, <2>3, OutsiderQueue, BecomeLeaderQueue, RoomEndsQueue, LeaderQueue,
       GrowGroupQueue, FinishWriteQueue, ManualQueue
       DEF Client, Leader
  <2> QED BY <2>1, <2>2, <2>3
<1>2. ASSUME NEW t \in Threads, NEW r \in Requests, Write(t, r) \/ CallManual(t, r)
      PROVE  QueueInv'
  BY <1>2, WriteQueue, CallManualQueue
<1>3. CASE Close \/ CloseAgain \/ Terminated \/ UNCHANGED vars
  <2>1. UNCHANGED <<writers_, done, group, pc, manual_compaction_>>
    BY <1>3 DEF Close, CloseAgain, Terminated, vars, queueVars, localVars, manualVars
  <2> QED BY <2>1, QueueFrame
<1> QED BY <1>1, <1>2, <1>3, BackgroundQueue DEF Next

LEMMA QueueInvariant == Spec => [](TypeInv /\ QueueInv)
<1>1. Init => TypeInv /\ QueueInv
  BY InitType, InitQueue
<1>2. TypeInv /\ QueueInv /\ [Next]_vars => (TypeInv /\ QueueInv)'
  BY NextType, NextQueue
<1> QED BY <1>1, <1>2, PTL DEF Spec

\* db_impl.cc:1218: the leader "is currently responsible for logging and
\* protects against concurrent loggers and concurrent writes into mem_",
\* although mutex_ is released: it is the head of the queue, its group is
\* behind it, and no other thread is past MakeRoomForWrite.
THEOREM OneLoggerAtATime == Spec => []OneLogger
<1>1. TypeInv /\ QueueInv => OneLogger
  <2> SUFFICES ASSUME TypeInv, QueueInv, NEW t \in Threads, pc[t] \in Leading
               PROVE  /\ writers_ # <<>> /\ Head(writers_) = t
                      /\ group[t].n \in 1..Len(writers_)
                      /\ \A u \in Threads \ {t} : pc[u] \notin Leading
    BY DEF OneLogger
  <2>1. 1 \in 1..Len(writers_) /\ writers_[1] = t
    BY QueueNotEmpty
  <2>2. writers_ # <<>> /\ Head(writers_) = t
    BY <2>1, EmptySeq
  <2>3. group[t].n \in 1..Len(writers_)
    BY DEF QueueInv, GroupQueued
  <2>4. \A u \in Threads \ {t} : pc[u] \notin Leading
    BY DEF QueueInv, HeadLeads
  <2> QED BY <2>2, <2>3, <2>4
<1> QED BY <1>1, QueueInvariant, PTL

-----------------------------------------------------------------------------
(***************************************************************************)
(* No wake-up is lost.                                                     *)
(*                                                                         *)
(* The queue above says where the writers stand; what is left to say is    *)
(* who sleeps: on their own cv only writers behind the head, on bg_cv_     *)
(* only while a background call is scheduled.  The latter needs that       *)
(* MaybeScheduleCompaction never declines for the threads that are going   *)
(* to sleep, that is, that nobody is in a call once ~DBImpl has begun.     *)
(***************************************************************************)
ClosedAtRest   == shutting_down_ => dtor # "open" /\ \A t \in Threads : pc[t] = "idle"
SleepersBehind == \A t \in cv_waiting : ~done[t] /\ \E i \in 2..Len(writers_) : writers_[i] = t
BgWakes        == SleepersHaveAWaker /\ WorkIsScheduled
WakeInv == ClosedAtRest /\ SleepersBehind /\ BgWakes

\* The destructor begins when all calls have returned, and none begins later.
LEMMA NextClosed ==
    ASSUME TypeInv, ClosedAtRest, [Next]_vars
    PROVE  ClosedAtRest'
<1>1. ASSUME NEW t \in Threads, Client(t)
      PROVE  ClosedAtRest'
  <2>1. pc[t] # "idle"
    BY <1>1 DEF Client, Leader, ReturnDone, BecomeLeader, FlushCheck, ManualWait,
       ManualReturn, RoomError, RoomDelay, RoomWait, RoomAgain, SwitchFails, SwitchMemTable,
       RoomFound, GrowGroup, CloseGroup, AppendRecord, AppendFails, SyncLog, SyncFails,
       InsertEntry, WriteSucceeds, WriteFails, At
  <2>2. shutting_down_' = shutting_down_
    BY <1>1 DEF Client, Leader, ReturnDone, BecomeLeader, FlushCheck, ManualWait,
       ManualReturn, RoomError, RoomDelay, RoomWait, RoomAgain, SwitchFails, SwitchMemTable,
       RoomFound, GrowGroup, CloseGroup, AppendRecord, AppendFails, SyncLog, SyncFails,
       InsertEntry, WriteSucceeds, WriteFails, FinishWrite
  <2> QED BY <2>1, <2>2 DEF ClosedAtRest
<1>2. ASSUME NEW t \in Threads, NEW r \in Requests, Write(t, r) \/ CallManual(t, r)
      PROVE  ClosedAtRest'
  <2>1. dtor = "open" /\ shutting_down_' = shutting_down_
    BY <1>2 DEF Write, CallManual
  <2> QED BY <2>1 DEF ClosedAtRest
<1>3. CASE Background
  <2>1. UNCHANGED <<shutting_down_, dtor, pc>>
    BY <1>3 DEF Background, BackgroundIdle, StartMemTable, ManualNothingLeft, StartManual,
       StartCompaction, StartTrivialMove, CompactImmFirst, TableBuilt, TableFails,
       ApplyMemTable, ApplyMemTableFails, CompactionDone, CompactionFails, ApplyCompaction,
       ApplyCompactionFails, compactionVars, clientVars
  <2> QED BY <2>1 DEF ClosedAtRest
<1>4. CASE Close
  BY <1>4 DEF Close, At, ClosedAtRest
<1>5. CASE CloseAgain \/ Terminated \/ UNCHANGED vars
  BY <1>5 DEF CloseAgain, Terminated, vars, ClosedAtRest
<1> QED BY <1>1, <1>2, <1>3, <1>4, <1>5 DEF Next

-----------------------------------------------------------------------------
(***************************************************************************)
(* Sleep on Writer::cv.                                                    *)
(***************************************************************************)
\* Nothing that SleepersBehind speaks of changes.
LEMMA SleepersFrame ==
    ASSUME SleepersBehind, UNCHANGED queueVars
    PROVE  SleepersBehind'
BY DEF SleepersBehind, queueVars

\* A new writer sleeps behind the writers that are there.
LEMMA WriteSleepers ==
    ASSUME TypeInv, QueueInv, SleepersBehind,
           NEW t \in Threads, NEW r \in Requests, Write(t, r)
    PROVE  SleepersBehind'
<1>len. Len(writers_) \in Nat /\ writers_ \in Seq(Threads)
  BY LenProperties DEF TypeInv, TypeOK, TypeQueue
<1>1. /\ Len(writers_') = Len(writers_) + 1
      /\ \A i \in 1..Len(writers_) : writers_'[i] = writers_[i]
      /\ writers_'[Len(writers_) + 1] = t
  BY <1>len, AppendProperties DEF Write
<1>2. ~done'[t] /\ \A u \in Threads \ {t} : done'[u] = done[u]
  BY DEF Write, TypeInv, TypeOK, TypeQueue
<1>3. cv_waiting \subseteq Threads
  BY DEF TypeInv, TypeOK, TypeQueue
<1>4. ASSUME NEW u \in cv_waiting
      PROVE  ~done'[u] /\ \E i \in 2..Len(writers_') : writers_'[i] = u
  <2>1. ~done'[u]
    BY <1>2, <1>3 DEF SleepersBehind
  <2>2. PICK i \in 2..Len(writers_) : writers_[i] = u
    BY DEF SleepersBehind
  <2>3. i \in 2..Len(writers_') /\ writers_'[i] = u
    BY <2>2, <1>1, <1>len
  <2> QED BY <2>1, <2>3
<1>5. CASE writers_ = <<>>
  <2>1. cv_waiting' = cv_waiting
    BY <1>5 DEF Write, LeadsAtOnce
  <2> QED BY <2>1, <1>4 DEF SleepersBehind
<1>6. CASE writers_ # <<>>
  <2>1. cv_waiting' = cv_waiting \cup {t}
    BY <1>6 DEF Write, LeadsAtOnce
  <2>2. Len(writers_) # 0
    BY <1>6, <1>len, EmptySeq
  <2>3. Len(writers_) + 1 \in 2..Len(writers_')
    BY <2>2, <1>1, <1>len
  <2> QED BY <2>1, <2>3, <1>1, <1>2, <1>4 DEF SleepersBehind
<1> QED BY <1>5, <1>6

\* The end of Write wakes the members of the group and the new head: whoever
\* sleeps on is still behind the head.
LEMMA LeaveQueueSleepers ==
    ASSUME TypeInv, SleepersBehind, NEW t \in Threads, NEW st \in {"ok", "error"},
           NEW n \in 1..Len(writers_), LeaveQueue(t, n, st)
    PROVE  SleepersBehind'
<1> DEFINE members == {writers_[i] : i \in 1..n}
           rest    == SubSeq(writers_, n + 1, Len(writers_))
<1>len. Len(writers_) \in Nat /\ writers_ \in Seq(Threads)
  BY LenProperties DEF TypeInv, TypeOK, TypeQueue
<1>1. /\ Len(writers_') = Len(writers_) - n
      /\ \A i \in 1..Len(writers_) - n : writers_'[i] = writers_[n + i]
      /\ writers_' = rest /\ rest \in Seq(Threads)
  BY <1>len, RestOfQueue, SubSeqType DEF LeaveQueue
<1>2. cv_waiting' = cv_waiting \ Signalled(members, rest)
  BY DEF LeaveQueue
<1>3. \A u \in Threads : done'[u] <=> (done[u] \/ u \in members \ {t})
  BY DEF LeaveQueue
<1>4. cv_waiting \subseteq Threads
  BY DEF TypeInv, TypeOK, TypeQueue
<1>5. SUFFICES ASSUME NEW u \in cv_waiting'
               PROVE  ~done'[u] /\ \E i \in 2..Len(writers_') : writers_'[i] = u
  BY DEF SleepersBehind
<1>6. u \in cv_waiting /\ u \notin members /\ (rest # <<>> => u # Head(rest))
  BY <1>2 DEF Signalled
<1>7. ~done'[u]
  BY <1>3, <1>4, <1>6 DEF SleepersBehind
<1>8. PICK k \in 2..Len(writers_) : writers_[k] = u
  BY <1>6 DEF SleepersBehind
<1>9. k \notin 1..n
  BY <1>6, <1>8
<1>10. k - n \in 1..Len(writers_') /\ writers_'[k - n] = u
  <2>1. k - n \in 1..Len(writers_) - n /\ n + (k - n) = k
    BY <1>8, <1>9, <1>len
  <2> QED BY <2>1, <1>1, <1>8
<1>11. k - n # 1
  <2>1. SUFFICES ASSUME k - n = 1 PROVE FALSE
    OBVIOUS
  <2>2. rest # <<>>
    <3>1. Len(rest) >= 1
      BY <1>1, <1>10, <1>len
    <3> HIDE DEF rest
    <3> QED BY <3>1, EmptySeq
  <2>3. Head(rest) = u
    BY <2>1, <2>2, <1>1, <1>10
  <2> QED BY <2>2, <2>3, <1>6
<1> QED BY <1>7, <1>10, <1>11, <1>1, <1>len

\* The background thread sets the done flag of a thread that is not queued.
LEMMA ManualDoneSleepers ==
    ASSUME TypeInv, QueueInv, SleepersBehind, UNCHANGED <<writers_, cv_waiting>>,
           manual_compaction_ # None,
           NEW b \in BOOLEAN, done' = [done EXCEPT ![manual_compaction_] = b]
    PROVE  SleepersBehind'
<1>1. manual_compaction_ \in Threads /\ pc[manual_compaction_] = "manual"
  BY DEF QueueInv, ManualCalls, TypeInv, TypeOK, TypeBackground
<1>2. \A i \in 1..Len(writers_) : writers_[i] # manual_compaction_
  BY <1>1 DEF QueueInv, QueueHolds, Queueing, Rooming, Leading
<1>3. Len(writers_) \in Nat
  BY LenProperties DEF TypeInv, TypeOK, TypeQueue
<1>4. \A u \in cv_waiting : u # manual_compaction_
  BY <1>2, <1>3 DEF SleepersBehind
<1>5. \A u \in Threads \ {manual_compaction_} : done'[u] = done[u]
  BY DEF TypeInv, TypeOK, TypeQueue
<1> QED BY <1>4, <1>5 DEF SleepersBehind, TypeInv, TypeOK, TypeQueue

LEMMA NextSleepers ==
    ASSUME TypeInv, QueueInv, SleepersBehind, [Next]_vars
    PROVE  SleepersBehind'
<1>1. ASSUME NEW t \in Threads, Client(t)
      PROVE  SleepersBehind'
  <2>1. CASE \/ RoomError(t) \/ SwitchFails(t)
             \/ RoomFound(t) /\ req[t].kind = "flush"
    <3>1. pc[t] \in Rooming /\ (LeaveQueue(t, 1, "error") \/ LeaveQueue(t, 1, "ok"))
      BY <2>1 DEF RoomError, SwitchFails, RoomFound, At, Rooming
    <3>2. 1 \in 1..Len(writers_)
      BY <3>1, QueueNotEmpty
    <3> QED BY <3>1, <3>2, LeaveQueueSleepers
  <2>2. CASE WriteSucceeds(t) \/ WriteFails(t)
    <3>1. /\ pc[t] \in Leading
          /\ LeaveQueue(t, group[t].n, "error") \/ LeaveQueue(t, group[t].n, "ok")
      BY <2>2 DEF WriteSucceeds, WriteFails, FinishWrite, At, Leading
    <3>2. group[t].n \in 1..Len(writers_)
      BY <3>1 DEF QueueInv, GroupQueued
    <3> QED BY <3>1, <3>2, LeaveQueueSleepers
  <2>3. CASE ~ \/ RoomError(t) \/ SwitchFails(t) \/ WriteSucceeds(t) \/ WriteFails(t)
               \/ RoomFound(t) /\ req[t].kind = "flush"
    <3>1. UNCHANGED queueVars
      BY <1>1, <2>3 DEF Client, Leader, ReturnDone, BecomeLeader, FlushCheck, ManualWait,
         ManualReturn, RoomDelay, RoomWait, RoomAgain, SwitchMemTable, RoomFound, GrowGroup,
         CloseGroup, AppendRecord, AppendFails, SyncLog, SyncFails, InsertEntry
    <3> QED BY <3>1, SleepersFrame
  <2> QED BY <2>1, <2>2, <2>3
<1>2. ASSUME NEW t \in Threads, NEW r \in Requests, CallManual(t, r)
      PROVE  SleepersBehind'
  <2>1. ~done'[t] /\ \A u \in Threads \ {t} : done'[u] = done[u]
    BY <1>2 DEF CallManual, TypeInv, TypeOK, TypeQueue
  <2>2. UNCHANGED <<writers_, cv_waiting>>
    BY <1>2 DEF CallManual
  <2> QED BY <2>1, <2>2 DEF SleepersBehind, TypeInv, TypeOK, TypeQueue
<1>3. CASE Background
  <2>1. UNCHANGED <<writers_, cv_waiting>>
    BY <1>3 DEF Background, BackgroundIdle, StartMemTable, ManualNothingLeft, StartManual,
       StartCompaction, StartTrivialMove, CompactImmFirst, TableBuilt, TableFails,
       ApplyMemTable, ApplyMemTableFails, CompactionDone, CompactionFails, ApplyCompaction,
       ApplyCompactionFails, compactionVars, clientVars, queueVars
  <2>2. \/ UNCHANGED done
        \/ /\ manual_compaction_ # None
           /\ \E b \in BOOLEAN : done' = [done EXCEPT ![manual_compaction_] = b]
    <3>1. CASE CompactionFails \/ ApplyCompaction \/ ApplyCompactionFails
      <4>1. LeaveCompaction(TRUE) \/ LeaveCompaction(FALSE)
        BY <3>1 DEF CompactionFails, ApplyCompaction, ApplyCompactionFails
      <4> QED BY <4>1 DEF LeaveCompaction
    <3>2. CASE ~(CompactionFails \/ ApplyCompaction \/ ApplyCompactionFails)
      BY <1>3, <3>2 DEF Background, BackgroundIdle, StartMemTable, ManualNothingLeft,
         StartManual, StartCompaction, StartTrivialMove, CompactImmFirst, TableBuilt,
         TableFails, ApplyMemTable, ApplyMemTableFails, CompactionDone, clientVars,
         queueVars
    <3> QED BY <3>1, <3>2
  <2>3. CASE UNCHANGED done
    BY <2>1, <2>3, SleepersFrame DEF queueVars
  <2> QED BY <2>1, <2>2, <2>3, ManualDoneSleepers
<1>4. CASE Close \/ CloseAgain \/ Terminated \/ UNCHANGED vars
  BY <1>4, SleepersFrame DEF Close, CloseAgain, Terminated, vars
<1> QED BY <1>1, <1>2, <1>3, <1>4, WriteSleepers DEF Next

-----------------------------------------------------------------------------
(***************************************************************************)
(* Sleep on bg_cv_.                                                        *)
(***************************************************************************)
\* The end of a background call wakes everybody and looks for more work.
LEMMA EndCallWakes ==
    ASSUME EndCall
    PROVE  BgWakes'
BY DEF EndCall, IdleBg, MaybeScheduleCompaction, BgWakes, SleepersHaveAWaker,
   WorkIsScheduled, bg_compaction_scheduled_

LEMMA BusyWakes ==
    ASSUME bg'.pc # "off"
    PROVE  BgWakes'
BY DEF BgWakes, SleepersHaveAWaker, WorkIsScheduled, bg_compaction_scheduled_

\* Nobody new sleeps and no new work appears.
LEMMA BgWakesFrame ==
    ASSUME BgWakes, UNCHANGED <<bg, has_imm_, l0, shutting_down_>>,
           bg_cv_waiting' \in {{}, bg_cv_waiting},
           bg_error_' = "ok" => bg_error_ = "ok",
           manual_compaction_' \in {None, manual_compaction_}
    PROVE  BgWakes'
<1>1. SleepersHaveAWaker'
  BY DEF BgWakes, SleepersHaveAWaker, bg_compaction_scheduled_
<1>2. WorkIsScheduled'
  BY DEF BgWakes, WorkIsScheduled, HasWork, bg_compaction_scheduled_
<1> QED BY <1>1, <1>2 DEF BgWakes

\* A client goes to sleep on bg_cv_ because of work that is scheduled, or
\* hands the background thread new work.
LEMMA ClientWakes ==
    ASSUME TypeInv, ClosedAtRest, BgWakes, NEW t \in Threads, Client(t)
    PROVE  BgWakes'
<1>1. CASE RoomWait(t)
  <2>1. pc[t] = "room" /\ bg_error_ = "ok" /\ MustWait /\ UNCHANGED bg
    BY <1>1 DEF RoomWait, At, NoError
  <2>2. ~shutting_down_
    BY <2>1 DEF ClosedAtRest
  <2>3. HasWork
    BY <2>1, TriggersAssumption DEF MustWait, HasWork, TypeInv, TypeOK, TypeBackground
  <2> QED BY <2>1, <2>2, <2>3, BusyWakes DEF BgWakes, WorkIsScheduled,
             bg_compaction_scheduled_
<1>2. CASE SwitchMemTable(t)
  <2>1. /\ bg' = [bg EXCEPT !.pc = MaybeScheduleCompaction(@)]
        /\ UNCHANGED <<bg_cv_waiting, bg_error_, shutting_down_>>
    BY <1>2 DEF SwitchMemTable
  <2>2. bg'.pc = IF bg.pc = "off" /\ ~shutting_down_' /\ bg_error_' = "ok" /\ HasWork'
                 THEN "scheduled" ELSE bg.pc
    BY <2>1 DEF MaybeScheduleCompaction, TypeInv, TypeOK, TypeBackground, BgStates
  <2> QED BY <2>1, <2>2 DEF BgWakes, SleepersHaveAWaker, WorkIsScheduled,
             bg_compaction_scheduled_
<1>3. CASE FlushCheck(t)
  <2>1. UNCHANGED <<bg, has_imm_, l0, shutting_down_, bg_error_, manual_compaction_>>
    BY <1>3 DEF FlushCheck, memVars, versionVars, manualVars
  <2>2. CASE has_imm_ /\ bg_error_ = "ok"
    <3>1. ~shutting_down_
      BY <1>3 DEF FlushCheck, At, ClosedAtRest
    <3> QED BY <2>1, <2>2, <3>1, BusyWakes DEF BgWakes, WorkIsScheduled, HasWork,
               bg_compaction_scheduled_
  <2>3. CASE ~(has_imm_ /\ bg_error_ = "ok")
    <3>1. UNCHANGED bg_cv_waiting
      BY <1>3, <2>3 DEF FlushCheck
    <3> QED BY <2>1, <3>1, BgWakesFrame
  <2> QED BY <2>2, <2>3
<1>4. CASE ManualWait(t)
  <2>1. bg_error_ = "ok" /\ ~shutting_down_ /\ UNCHANGED <<bg_error_, shutting_down_>>
    BY <1>4 DEF ManualWait, ManualGoesOn
  <2>2. CASE manual_compaction_ = None
    <3>1. manual_compaction_' # None
      BY <1>4, <2>2, ThreadsAssumption DEF ManualWait
    <3>2. HasWork'
      BY <3>1 DEF HasWork
    <3>3. bg' = [bg EXCEPT !.pc = MaybeScheduleCompaction(@)]
      BY <1>4, <2>2 DEF ManualWait
    <3>4. bg'.pc # "off"
      BY <2>1, <3>2, <3>3 DEF MaybeScheduleCompaction, TypeInv, TypeOK, TypeBackground,
         BgStates
    <3> QED BY <3>4, BusyWakes
  <2>3. CASE manual_compaction_ # None
    <3>1. HasWork /\ UNCHANGED bg
      BY <1>4, <2>3 DEF HasWork, ManualWait
    <3> QED BY <2>1, <3>1, BusyWakes DEF BgWakes, WorkIsScheduled, bg_compaction_scheduled_
  <2> QED BY <2>2, <2>3
<1>5. CASE WriteFails(t)
  <2>1. UNCHANGED <<bg, has_imm_, l0, shutting_down_, manual_compaction_>>
    BY <1>5 DEF WriteFails, FinishWrite, memVars, versionVars, manualVars
  <2>2. /\ bg_cv_waiting' \in {{}, bg_cv_waiting}
        /\ bg_error_' = "ok" => bg_error_ = "ok"
    BY <1>5 DEF WriteFails, RecordBackgroundError
  <2> QED BY <2>1, <2>2, BgWakesFrame
<1>6. CASE ManualReturn(t)
  BY <1>6, BgWakesFrame DEF ManualReturn, Withdrawn, memVars, versionVars
<1>7. CASE \/ ReturnDone(t) \/ BecomeLeader(t) \/ RoomError(t) \/ RoomDelay(t)
           \/ RoomAgain(t) \/ SwitchFails(t) \/ RoomFound(t) \/ GrowGroup(t)
           \/ CloseGroup(t) \/ AppendRecord(t) \/ AppendFails(t) \/ SyncLog(t)
           \/ SyncFails(t) \/ InsertEntry(t) \/ WriteSucceeds(t)
  <2>1. UNCHANGED <<bg, has_imm_, l0, shutting_down_, manual_compaction_, bg_error_,
                    bg_cv_waiting>>
    BY <1>7 DEF ReturnDone, BecomeLeader, RoomError, RoomDelay, RoomAgain, SwitchFails,
       RoomFound, GrowGroup, CloseGroup, AppendRecord, AppendFails, SyncLog, SyncFails,
       InsertEntry, WriteSucceeds, FinishWrite, memVars, versionVars, manualVars
  <2> QED BY <2>1, BgWakesFrame
<1> QED BY <1>1, <1>2, <1>3, <1>4, <1>5, <1>6, <1>7 DEF Client, Leader

LEMMA BackgroundWakes ==
    ASSUME TypeInv, Background
    PROVE  BgWakes'
<1>1. CASE BackgroundIdle \/ ManualNothingLeft
  BY <1>1, EndCallWakes DEF BackgroundIdle, ManualNothingLeft
<1>2. CASE TableFails \/ ApplyMemTable \/ ApplyMemTableFails
  <2>1. EndCall \/ bg' = [bg EXCEPT !.pc = "work", !.log = 0]
    BY <1>2 DEF TableFails, ApplyMemTable, ApplyMemTableFails, LeaveMemTable
  <2>2. bg' = [bg EXCEPT !.pc = "work", !.log = 0] => bg'.pc # "off"
    BY DEF TypeInv, TypeOK, TypeBackground, BgStates
  <2> QED BY <2>1, <2>2, EndCallWakes, BusyWakes
<1>3. CASE CompactionFails \/ ApplyCompaction \/ ApplyCompactionFails
  <2>1. LeaveCompaction(TRUE) \/ LeaveCompaction(FALSE)
    BY <1>3 DEF CompactionFails, ApplyCompaction, ApplyCompactionFails
  <2>2. EndCall \/ bg' = [IdleBg EXCEPT !.pc = "crashed"]
    BY <2>1 DEF LeaveCompaction
  <2>3. bg' = [IdleBg EXCEPT !.pc = "crashed"] => bg'.pc # "off"
    BY DEF IdleBg
  <2> QED BY <2>2, <2>3, EndCallWakes, BusyWakes
<1>4. CASE \/ StartMemTable \/ StartManual \/ StartCompaction \/ StartTrivialMove
           \/ CompactImmFirst \/ TableBuilt \/ CompactionDone
  <2>1. CASE StartManual \/ StartCompaction \/ StartTrivialMove
    BY <2>1, BusyWakes DEF StartManual, StartCompaction, StartTrivialMove, Working
  <2>2. CASE StartMemTable \/ CompactImmFirst \/ TableBuilt \/ CompactionDone
    <3>1. bg \in BgStates
      BY DEF TypeInv, TypeOK, TypeBackground
    <3>2. bg'.pc \in {"build", "applymem", "applytable"}
      BY <2>2, <3>1 DEF StartMemTable, CompactImmFirst, TableBuilt, CompactionDone, BgStates
    <3> QED BY <3>2, BusyWakes
  <2> QED BY <1>4, <2>1, <2>2
<1> QED BY <1>1, <1>2, <1>3, <1>4 DEF Background

LEMMA NextWakes ==
    ASSUME TypeInv, ClosedAtRest, BgWakes, [Next]_vars
    PROVE  BgWakes'
<1>1. ASSUME NEW t \in Threads, NEW r \in Requests, Write(t, r) \/ CallManual(t, r)
      PROVE  BgWakes'
  BY <1>1, BgWakesFrame DEF Write, CallManual, memVars, versionVars, manualVars
<1>2. CASE Close \/ CloseAgain
  <2>1. UNCHANGED <<bg, has_imm_, l0, manual_compaction_, bg_error_>>
    BY <1>2 DEF Close, CloseAgain, memVars, versionVars, manualVars
  <2>2. CASE bg.pc # "off"
    BY <2>1, <2>2, BusyWakes
  <2>3. CASE bg.pc = "off"
    <3>1. UNCHANGED bg_cv_waiting /\ (shutting_down_' \/ UNCHANGED shutting_down_)
      BY <1>2, <2>3 DEF Close, CloseAgain, bg_compaction_scheduled_
    <3> QED BY <2>1, <2>3, <3>1 DEF BgWakes, SleepersHaveAWaker, WorkIsScheduled, HasWork,
               bg_compaction_scheduled_
  <2> QED BY <2>2, <2>3
<1>3. CASE Terminated \/ UNCHANGED vars
  BY <1>3, BgWakesFrame DEF Terminated, vars, memVars, versionVars, manualVars
<1> QED BY <1>1, <1>2, <1>3, ClientWakes, BackgroundWakes DEF Next

-----------------------------------------------------------------------------
LEMMA InitWake == Init => WakeInv
<1> SUFFICES ASSUME Init PROVE WakeInv
  OBVIOUS
<1>1. ClosedAtRest /\ SleepersBehind
  BY DEF Init, ClosedAtRest, SleepersBehind
<1>2. bg.pc = IF HasWork THEN "scheduled" ELSE "off"
  BY DEF Init, IdleBg
<1>3. bg_cv_waiting = {}
  BY DEF Init
<1> QED BY <1>1, <1>2, <1>3 DEF WakeInv, BgWakes, SleepersHaveAWaker, WorkIsScheduled,
           bg_compaction_scheduled_

LEMMA WakeInvariant == Spec => []WakeInv
<1>1. TypeInv /\ QueueInv /\ WakeInv /\ [Next]_vars => WakeInv'
  BY NextClosed, NextSleepers, NextWakes DEF WakeInv
<1> QED BY <1>1, InitWake, QueueInvariant, PTL DEF Spec

\* Nobody sleeps on bg_cv_ unless a background call is scheduled, work that a
\* background call has to do is scheduled, and no head of the queue and no
\* writer whose leader is done with it sleeps on its cv: whatever the order of
\* calls, errors and compactions, no wake-up of db_impl.cc is lost.
THEOREM NoLostWakeup == Spec => []EveryoneIsWoken
<1>1. TypeInv /\ QueueInv /\ WakeInv => EveryoneIsWoken
  <2> SUFFICES ASSUME TypeInv, QueueInv, WakeInv PROVE EveryoneIsWoken
    OBVIOUS
  <2>1. ASSUME writers_ # <<>>, Head(writers_) \in cv_waiting
        PROVE  FALSE
    <3>1. Len(writers_) \in Nat /\ writers_ \in Seq(Threads)
      BY LenProperties DEF TypeInv, TypeOK, TypeQueue
    <3>2. 1 \in 1..Len(writers_) /\ writers_[1] = Head(writers_)
      BY <2>1, <3>1, EmptySeq
    <3>3. PICK i \in 2..Len(writers_) : writers_[i] = Head(writers_)
      BY <2>1 DEF WakeInv, SleepersBehind
    <3>4. i = 1
      BY <3>1, <3>2, <3>3 DEF QueueInv, NoDuplicates
    <3> QED BY <3>3, <3>4
  <2>2. HeadAwake
    BY <2>1 DEF WakeInv, SleepersBehind, HeadAwake
  <2> QED BY <2>2 DEF EveryoneIsWoken, WakeInv, BgWakes
<1> QED BY <1>1, QueueInvariant, WakeInvariant, PTL

-----------------------------------------------------------------------------
(***************************************************************************)
(* The request of a manual compaction, while no background error is        *)
(* recorded.  TEST_CompactRange withdraws its request when it is done, the *)
(* database is being deleted, or there is an error.  Without an error the  *)
(* first happens only when the background thread itself has let go of the  *)
(* request, the second never during a call.                                *)
(***************************************************************************)
RequestOpen == manual_compaction_ # None => ~done[manual_compaction_]
RequestHeld == bg_error_ = "ok" => /\ bg.c = "manual" => manual_compaction_ # None
                                   /\ bg.pc # "crashed"

\* A writer that its leader serves is not in TEST_CompactRange.
LEMMA LeaveQueueOpen ==
    ASSUME TypeInv, QueueInv, RequestOpen, NEW t \in Threads, NEW st \in {"ok", "error"},
           NEW n \in 1..Len(writers_), LeaveQueue(t, n, st), UNCHANGED manual_compaction_
    PROVE  RequestOpen'
<1> SUFFICES ASSUME manual_compaction_ # None
             PROVE  ~done'[manual_compaction_]
  BY DEF RequestOpen
<1>1. manual_compaction_ \in Threads /\ pc[manual_compaction_] = "manual"
  BY DEF QueueInv, ManualCalls, TypeInv, TypeOK, TypeBackground
<1>2. Len(writers_) \in Nat
  BY LenProperties DEF TypeInv, TypeOK, TypeQueue
<1>3. \A i \in 1..n : writers_[i] # manual_compaction_
  BY <1>1, <1>2 DEF QueueInv, QueueHolds, Queueing, Rooming, Leading
<1> QED BY <1>1, <1>3 DEF LeaveQueue, RequestOpen

LEMMA NextOpen ==
    ASSUME TypeInv, QueueInv, RequestOpen, [Next]_vars
    PROVE  RequestOpen'
<1>1. ASSUME NEW t \in Threads, Client(t)
      PROVE  RequestOpen'
  <2>1. CASE \/ RoomError(t) \/ SwitchFails(t)
             \/ RoomFound(t) /\ req[t].kind = "flush"
    <3>1. /\ pc[t] \in Rooming /\ UNCHANGED manual_compaction_
          /\ LeaveQueue(t, 1, "error") \/ LeaveQueue(t, 1, "ok")
      BY <2>1 DEF RoomError, SwitchFails, RoomFound, At, Rooming, manualVars
    <3>2. 1 \in 1..Len(writers_)
      BY <3>1, QueueNotEmpty
    <3> QED BY <3>1, <3>2, LeaveQueueOpen
  <2>2. CASE WriteSucceeds(t) \/ WriteFails(t)
    <3>1. /\ pc[t] \in Leading /\ UNCHANGED manual_compaction_
          /\ LeaveQueue(t, group[t].n, "error") \/ LeaveQueue(t, group[t].n, "ok")
      BY <2>2 DEF WriteSucceeds, WriteFails, FinishWrite, At, Leading, manualVars
    <3>2. group[t].n \in 1..Len(writers_)
      BY <3>1 DEF QueueInv, GroupQueued
    <3> QED BY <3>1, <3>2, LeaveQueueOpen
  <2>3. CASE ManualWait(t)
    BY <2>3 DEF ManualWait, ManualGoesOn, queueVars, RequestOpen
  <2>4. CASE ManualReturn(t)
    BY <2>4 DEF ManualReturn, Withdrawn, queueVars, RequestOpen
  <2>5. CASE ~(\/ RoomError(t) \/ SwitchFails(t) \/ WriteSucceeds(t) \/ WriteFails(t)
               \/ (RoomFound(t) /\ req[t].kind = "flush") \/ ManualWait(t) \/ ManualReturn(t))
    <3>1. UNCHANGED <<done, manual_compaction_>>
      BY <1>1, <2>5 DEF Client, Leader, ReturnDone, BecomeLeader, FlushCheck, RoomDelay,
         RoomWait, RoomAgain, SwitchMemTable, RoomFound, GrowGroup, CloseGroup,
         AppendRecord, AppendFails, SyncLog, SyncFails, InsertEntry, queueVars, manualVars
    <3> QED BY <3>1 DEF RequestOpen
  <2> QED BY <2>1, <2>2, <2>3, <2>4, <2>5
<1>2. ASSUME NEW t \in Threads, NEW r \in Requests, Write(t, r) \/ CallManual(t, r)
      PROVE  RequestOpen'
  <2>1. /\ done' = [done EXCEPT ![t] = FALSE]
        /\ UNCHANGED manual_compaction_
    BY <1>2 DEF Write, CallManual, manualVars
  <2>2. \A u \in Threads : done'[u] => done[u]
    BY <2>1 DEF TypeInv, TypeOK, TypeQueue
  <2> QED BY <2>1, <2>2 DEF RequestOpen, TypeInv, TypeOK, TypeBackground
<1>3. CASE Background
  <2>1. manual_compaction_' = None \/ UNCHANGED <<done, manual_compaction_>>
    <3>1. CASE CompactionFails \/ ApplyCompaction \/ ApplyCompactionFails
      <4>1. LeaveCompaction(TRUE) \/ LeaveCompaction(FALSE)
        BY <3>1 DEF CompactionFails, ApplyCompaction, ApplyCompactionFails
      <4> QED BY <4>1 DEF LeaveCompaction, manualVars
    <3>2. CASE ~(CompactionFails \/ ApplyCompaction \/ ApplyCompactionFails)
      BY <1>3, <3>2 DEF Background, BackgroundIdle, StartMemTable, ManualNothingLeft,
         StartManual, StartCompaction, StartTrivialMove, CompactImmFirst, TableBuilt,
         TableFails, ApplyMemTable, ApplyMemTableFails, CompactionDone, clientVars,
         queueVars, manualVars
    <3> QED BY <3>1, <3>2
  <2> QED BY <2>1 DEF RequestOpen
<1>4. CASE Close \/ CloseAgain \/ Terminated \/ UNCHANGED vars
  BY <1>4 DEF Close, CloseAgain, Terminated, vars, queueVars, manualVars, RequestOpen
<1> QED BY <1>1, <1>2, <1>3, <1>4 DEF Next

\* A client withdraws a request only when it is done or an error is recorded.
LEMMA ClientHeld ==
    ASSUME TypeInv, ClosedAtRest, RequestOpen, RequestHeld, NEW t \in Threads, Client(t)
    PROVE  RequestHeld'
<1>1. CASE ManualReturn(t)
  <2>1. /\ UNCHANGED <<bg, bg_error_>> /\ manual_compaction_' = Withdrawn(t)
        /\ ~ManualGoesOn(t)
    BY <1>1 DEF ManualReturn
  <2>2. ~shutting_down_
    BY <1>1 DEF ManualReturn, At, ClosedAtRest
  <2>3. bg_error_ = "ok" /\ manual_compaction_ # None => manual_compaction_ # t
    BY <2>1, <2>2 DEF ManualGoesOn, RequestOpen
  <2>4. bg_error_ = "ok" => manual_compaction_' = manual_compaction_
    BY <2>1, <2>3 DEF Withdrawn
  <2> QED BY <2>1, <2>4 DEF RequestHeld
<1>2. CASE ManualWait(t) \/ SwitchMemTable(t)
  <2>1. UNCHANGED bg \/ bg' = [bg EXCEPT !.pc = MaybeScheduleCompaction(@)]
    BY <1>2 DEF ManualWait, SwitchMemTable
  <2>2. bg \in BgStates
    BY DEF TypeInv, TypeOK, TypeBackground
  <2>3. bg'.c = bg.c /\ (bg'.pc = "crashed" => bg.pc = "crashed")
    BY <2>1, <2>2 DEF MaybeScheduleCompaction, BgStates
  <2>4. UNCHANGED bg_error_
    BY <1>2 DEF ManualWait, SwitchMemTable
  <2>5. manual_compaction_ # None => manual_compaction_' # None
    BY <1>2 DEF ManualWait, SwitchMemTable, manualVars
  <2> QED BY <2>3, <2>4, <2>5 DEF RequestHeld
<1>3. CASE ~(ManualReturn(t) \/ ManualWait(t) \/ SwitchMemTable(t))
  <2>1. UNCHANGED <<bg, manual_compaction_>> /\ (bg_error_' = "ok" => bg_error_ = "ok")
    BY <1>3 DEF Client, Leader, ReturnDone, BecomeLeader, FlushCheck, RoomError, RoomDelay,
       RoomWait, RoomAgain, SwitchFails, RoomFound, GrowGroup, CloseGroup, AppendRecord,
       AppendFails, SyncLog, SyncFails, InsertEntry, WriteSucceeds, WriteFails, FinishWrite,
       RecordBackgroundError, manualVars
  <2> QED BY <2>1 DEF RequestHeld
<1> QED BY <1>1, <1>2, <1>3

\* The background thread takes a request that is there, and lets go of it when
\* its compaction ends.
LEMMA BackgroundHeld ==
    ASSUME TypeInv, RequestHeld, Background
    PROVE  RequestHeld'
<1>bg. bg \in BgStates
  BY DEF TypeInv, TypeOK, TypeBackground
<1>end. EndCall => RequestHeld'
  <2>1. EndCall => bg'.c = "none" /\ bg'.pc # "crashed"
    BY EndCallType
  <2> QED BY <2>1 DEF RequestHeld
<1>1. CASE BackgroundIdle \/ ManualNothingLeft
  BY <1>1, <1>end DEF BackgroundIdle, ManualNothingLeft
<1>2. CASE TableFails \/ ApplyMemTable \/ ApplyMemTableFails
  <2>1. UNCHANGED manual_compaction_ /\ (bg_error_' = "ok" => bg_error_ = "ok")
    BY <1>2 DEF TableFails, ApplyMemTable, ApplyMemTableFails, manualVars
  <2>2. EndCall \/ bg' = [bg EXCEPT !.pc = "work", !.log = 0]
    BY <1>2 DEF TableFails, ApplyMemTable, ApplyMemTableFails, LeaveMemTable
  <2>3. bg' = [bg EXCEPT !.pc = "work", !.log = 0] => bg'.c = bg.c /\ bg'.pc # "crashed"
    BY <1>bg DEF BgStates
  <2> QED BY <2>1, <2>2, <2>3, <1>end DEF RequestHeld
<1>3. CASE CompactionFails \/ ApplyCompaction \/ ApplyCompactionFails
  <2>1. LeaveCompaction(TRUE) \/ LeaveCompaction(FALSE)
    BY <1>3 DEF CompactionFails, ApplyCompaction, ApplyCompactionFails
  <2>2. bg_error_' = "ok" => bg_error_ = "ok"
    BY <1>3 DEF CompactionFails, ApplyCompaction, ApplyCompactionFails
  <2>3. EndCall \/ (bg.c = "manual" /\ manual_compaction_ = None)
    BY <2>1 DEF LeaveCompaction
  <2>4. CASE bg.c = "manual" /\ manual_compaction_ = None
    <3>1. bg_error_ # "ok"
      BY <2>4 DEF RequestHeld
    <3> QED BY <2>2, <3>1 DEF RequestHeld
  <2> QED BY <2>3, <2>4, <1>end
<1>4. CASE StartManual \/ StartCompaction \/ StartTrivialMove
  <2>1. UNCHANGED manual_compaction_ /\ (bg'.c = "manual" => manual_compaction_ # None)
        /\ bg'.pc # "crashed"
    BY <1>4 DEF StartManual, StartCompaction, StartTrivialMove, Working, manualVars
  <2> QED BY <2>1 DEF RequestHeld
<1>5. CASE StartMemTable \/ CompactImmFirst \/ TableBuilt \/ CompactionDone
  <2>1. UNCHANGED <<manual_compaction_, bg_error_>>
    BY <1>5 DEF StartMemTable, CompactImmFirst, TableBuilt, CompactionDone, manualVars
  <2>2. bg'.c = bg.c /\ bg'.pc # "crashed"
    BY <1>5, <1>bg DEF StartMemTable, CompactImmFirst, TableBuilt, CompactionDone, BgStates
  <2> QED BY <2>1, <2>2 DEF RequestHeld
<1> QED BY <1>1, <1>2, <1>3, <1>4, <1>5 DEF Background

LEMMA NextHeld ==
    ASSUME TypeInv, ClosedAtRest, RequestOpen, RequestHeld, [Next]_vars
    PROVE  RequestHeld'
<1>1. CASE \/ \E t \in Threads, r \in Requests : Write(t, r) \/ CallManual(t, r)
           \/ Close \/ CloseAgain \/ Terminated \/ UNCHANGED vars
  <2>1. UNCHANGED <<bg, bg_error_, manual_compaction_>>
    BY <1>1 DEF Write, CallManual, Close, CloseAgain, Terminated, vars, manualVars
  <2> QED BY <2>1 DEF RequestHeld
<1> QED BY <1>1, ClientHeld, BackgroundHeld DEF Next

\* db_impl.cc:757 dereferences manual_compaction_ when a manual compaction
\* ends: until a background error is recorded the request is still registered
\* then, whoever else calls, compacts or closes the database.  (With an error
\* its caller may have withdrawn it: the run manual_withdrawn.)
THEOREM RequestKept == Spec => [](bg_error_ = "ok" => ManualRequestAlive)
<1>1. Init => RequestOpen /\ RequestHeld
  BY DEF Init, IdleBg, HasWork, RequestOpen, RequestHeld
<1>2. /\ TypeInv /\ QueueInv /\ WakeInv /\ RequestOpen /\ RequestHeld /\ [Next]_vars
      => (RequestOpen /\ RequestHeld)'
  BY NextOpen, NextHeld DEF WakeInv
<1>3. RequestHeld => (bg_error_ = "ok" => ManualRequestAlive)
  BY DEF RequestHeld, ManualRequestAlive
<1> QED BY <1>1, <1>2, <1>3, QueueInvariant, WakeInvariant, PTL DEF Spec
-----------------------------------------------------------------------------
(***************************************************************************)
(* What readers see, with every I/O call free to fail: batch groups are    *)
(* atomic, what is visible stays, sequence numbers are used once, and a    *)
(* failed sync stops all writes.                                           *)
(***************************************************************************)
\* The leader has closed its group; its record may be in the log.
Logging  == {"append", "sync", "insert", "failed", "syncfailed"}
InTheLog == {"sync", "insert", "failed", "syncfailed"}

\* What InsertInto has added of t's group.
Added(t) == group[t].first .. group[t].first + inserted[t] - 1

\* The group under way takes the next sequence numbers.
GroupNumbered == \A t \in Threads : pc[t] \in Leading => group[t].first = last_sequence_ + 1

InsertedSoFar ==
    \A t \in Threads :
        /\ pc[t] = "insert" => inserted[t] <= group[t].count /\ Added(t) \subseteq mem_
        /\ pc[t] # "insert" => inserted[t] = 0

\* Only the group under way may have entries that are not visible yet.
MemBounded ==
    \A s \in mem_ : \/ s \in 1..last_sequence_
                    \/ \E t \in Threads : pc[t] = "insert" /\ s \in Added(t)
OldBounded == imm_ \cup flushed \subseteq 1..last_sequence_
ImmFree    == ~has_imm_ => imm_ = {}

BatchesBounded ==
    \A i \in 1..Len(batches) :
        \/ batches[i] \subseteq 1..last_sequence_
        \/ /\ i = Len(batches)
           /\ \E t \in Threads : pc[t] \in Logging /\ batches[i] = Seqs(group[t])

WalBounded ==
    \A e \in wal :
        \/ e[2] \in 1..last_sequence_
        \/ /\ e[1] = logfile_number_
           /\ \E t \in Threads : pc[t] \in InTheLog /\ e[2] \in Seqs(group[t])

StoreInv == /\ GroupNumbered /\ InsertedSoFar /\ MemBounded /\ OldBounded /\ ImmFree
            /\ BatchesBounded /\ WalBounded /\ BatchAtomic /\ SequencesDisjoint

storeVars == <<last_sequence_, mem_, imm_, has_imm_, flushed, batches, wal,
                     logfile_number_>>

\* All that a read at LastSequence() can return.
Visible == {s \in Stored : s <= last_sequence_}

-----------------------------------------------------------------------------
(***************************************************************************)
(* Steps of threads that are not the leader.                               *)
(***************************************************************************)
LEMMA LeaderAlone ==
    ASSUME QueueInv, NEW t \in Threads, pc[t] \in Rooming \cup Leading
    PROVE  \A u \in Threads \ {t} : pc[u] \notin Rooming \cup Leading
BY DEF QueueInv, HeadLeads

LEMMA AtomicFrame ==
    ASSUME BatchAtomic, UNCHANGED <<batches, Visible>>
    PROVE  BatchAtomic'
BY DEF BatchAtomic, Visible

LEMMA BatchesDomain ==
    ASSUME TypeInv
    PROVE  /\ Len(batches) \in Nat /\ DOMAIN batches = 1..Len(batches)
           /\ \A i \in 1..Len(batches) : batches[i] \subseteq Nat
BY LenProperties, ElementOfSeq DEF TypeInv, TypeOK, TypeHistory

\* The store does not change, and thread t does not lead before or after.
LEMMA OutsideStore ==
    ASSUME TypeInv, StoreInv, UNCHANGED storeVars, NEW t \in Threads,
           pc[t] \notin Leading, pc'[t] \notin Leading, inserted'[t] = 0,
           \A u \in Threads \ {t} : pc'[u] = pc[u] /\ group'[u] = group[u] /\ inserted'[u] = inserted[u]
    PROVE  StoreInv'
<1>1. \A u \in Threads : pc'[u] \in Leading => pc'[u] = pc[u] /\ group'[u] = group[u] /\ inserted'[u] = inserted[u]
  OBVIOUS
<1>2. \A u \in Threads : pc[u] \in Leading => pc'[u] = pc[u] /\ group'[u] = group[u] /\ inserted'[u] = inserted[u]
  OBVIOUS
<1>3. "insert" \in Leading /\ Logging \subseteq Leading /\ InTheLog \subseteq Leading
  BY DEF Leading, Logging, InTheLog
<1>4. GroupNumbered'
  BY <1>1 DEF StoreInv, GroupNumbered, storeVars
<1>5. InsertedSoFar'
  BY <1>1, <1>3 DEF StoreInv, InsertedSoFar, storeVars, Added
<1>6. MemBounded'
  BY <1>2, <1>3 DEF StoreInv, MemBounded, storeVars, Added
<1>7. OldBounded' /\ ImmFree'
  BY DEF StoreInv, OldBounded, ImmFree, storeVars
<1>8. BatchesBounded'
  BY <1>2, <1>3 DEF StoreInv, BatchesBounded, storeVars, Seqs
<1>9. WalBounded'
  BY <1>2, <1>3 DEF StoreInv, WalBounded, storeVars, Seqs
<1>10. BatchAtomic'
  BY AtomicFrame DEF StoreInv, storeVars, Visible, Stored
<1>11. SequencesDisjoint'
  BY DEF StoreInv, SequencesDisjoint, storeVars
<1> QED BY <1>4, <1>5, <1>6, <1>7, <1>8, <1>9, <1>10, <1>11 DEF StoreInv

LEMMA StoreFrame ==
    ASSUME StoreInv, UNCHANGED <<pc, group, inserted, storeVars>>
    PROVE  StoreInv'
<1>1. GroupNumbered' /\ InsertedSoFar' /\ MemBounded' /\ OldBounded' /\ ImmFree'
  BY DEF StoreInv, GroupNumbered, InsertedSoFar, MemBounded, OldBounded, ImmFree,
     storeVars, Added
<1>2. BatchesBounded' /\ WalBounded'
  BY DEF StoreInv, BatchesBounded, WalBounded, storeVars, Seqs
<1>3. BatchAtomic' /\ SequencesDisjoint'
  BY AtomicFrame DEF StoreInv, SequencesDisjoint, storeVars, Visible, Stored
<1> QED BY <1>1, <1>2, <1>3 DEF StoreInv

\* Calls, returns and the rounds of MakeRoomForWrite.
LEMMA OutsideActionsStore ==
    ASSUME TypeInv, StoreInv, NEW t \in Threads,
           \/ \E r \in Requests : Write(t, r) \/ CallManual(t, r)
           \/ ReturnDone(t) \/ BecomeLeader(t) \/ FlushCheck(t) \/ ManualReturn(t)
           \/ RoomDelay(t) \/ RoomWait(t) \/ RoomAgain(t)
    PROVE  StoreInv'
<1>1. pc[t] \notin Leading
  BY DEF Write, CallManual, ReturnDone, BecomeLeader, FlushCheck, ManualReturn, RoomDelay,
         RoomWait, RoomAgain, At, Leading
<1>2. UNCHANGED <<group, inserted, storeVars>>
  BY DEF Write, CallManual, ReturnDone, BecomeLeader, FlushCheck, ManualReturn, RoomDelay,
         RoomWait, RoomAgain, localVars, memVars, logVars, versionVars, historyVars,
         storeVars
<1>3. UNCHANGED pc \/ \E p \in ClientPC \ Leading : pc' = [pc EXCEPT ![t] = p]
  <2>1. CASE \E r \in Requests : Write(t, r) \/ CallManual(t, r)
    BY <2>1 DEF Write, CallManual, ClientPC, Leading
  <2>2. CASE ReturnDone(t)
    BY <2>2 DEF ReturnDone, AfterWrite, ClientPC, Leading
  <2>3. CASE \/ BecomeLeader(t) \/ FlushCheck(t) \/ ManualReturn(t)
             \/ RoomDelay(t) \/ RoomWait(t) \/ RoomAgain(t)
    BY <2>3 DEF BecomeLeader, FlushCheck, ManualReturn, RoomDelay, RoomWait, RoomAgain,
       ClientPC,
       Leading
  <2> QED BY <2>1, <2>2, <2>3
<1>4. pc'[t] \notin Leading /\ \A u \in Threads \ {t} : pc'[u] = pc[u]
  BY <1>1, <1>3 DEF TypeInv, TypeOK, TypeClients
<1>5. inserted'[t] = 0
  BY <1>1, <1>2 DEF StoreInv, InsertedSoFar, Leading
<1> QED BY <1>1, <1>2, <1>4, <1>5, OutsideStore

\* MakeRoomForWrite ends in an error, or ends the write of a NULL batch.
LEMMA RoomEndsStore ==
    ASSUME TypeInv, StoreInv, NEW t \in Threads,
           \/ RoomError(t) \/ SwitchFails(t)
           \/ RoomFound(t) /\ req[t].kind = "flush"
    PROVE  StoreInv'
<1>1. pc[t] \notin Leading /\ UNCHANGED storeVars
  BY DEF RoomError, SwitchFails, RoomFound, At, Leading, memVars, logVars, versionVars,
     historyVars, storeVars
<1>2. LeaveQueue(t, 1, "error") \/ LeaveQueue(t, 1, "ok")
  BY DEF RoomError, SwitchFails, RoomFound
<1>3. /\ pc'[t] \notin Leading /\ inserted'[t] = 0
      /\ \A u \in Threads \ {t} : pc'[u] = pc[u] /\ group'[u] = group[u] /\ inserted'[u] = inserted[u]
  BY <1>2 DEF LeaveQueue, AfterWrite, Leading, TypeInv, TypeOK, TypeClients, TypeGroups
<1> QED BY <1>1, <1>3, OutsideStore

-----------------------------------------------------------------------------
(***************************************************************************)
(* Steps of the leader.                                                    *)
(***************************************************************************)
\* What every step of the leader may use: nobody else leads, so nothing is
\* beyond last_sequence_ but what belongs to the leader's own group.
LEMMA LeaderKnows ==
    ASSUME TypeInv, QueueInv, StoreInv, NEW t \in Threads, pc[t] \in Leading
    PROVE  /\ \A u \in Threads \ {t} : pc[u] \notin Leading
           /\ group[t].first = last_sequence_ + 1 /\ group[t].count \in Nat
           /\ last_sequence_ \in Nat /\ inserted[t] \in Nat
           /\ pc[t] # "insert" => inserted[t] = 0 /\ Stored \subseteq 1..last_sequence_
           /\ pc[t] = "group" => \A i \in 1..Len(batches) : batches[i] \subseteq 1..last_sequence_
           /\ pc[t] \notin InTheLog => \A e \in wal : e[2] \in 1..last_sequence_
<1>1. \A u \in Threads \ {t} : pc[u] \notin Leading
  BY LeaderAlone
<1>2. group[t].first = last_sequence_ + 1
  BY DEF StoreInv, GroupNumbered
<1>3. group[t].count \in Nat /\ last_sequence_ \in Nat /\ inserted[t] \in Nat
  BY DEF TypeInv, TypeOK, TypeGroups, TypeStore
<1>4. pc[t] # "insert" => inserted[t] = 0 /\ Stored \subseteq 1..last_sequence_
  <2> SUFFICES ASSUME pc[t] # "insert" PROVE inserted[t] = 0 /\ Stored \subseteq 1..last_sequence_
    OBVIOUS
  <2>1. inserted[t] = 0
    BY DEF StoreInv, InsertedSoFar
  <2>2. \A u \in Threads : pc[u] # "insert"
    BY <1>1 DEF Leading
  <2>3. mem_ \subseteq 1..last_sequence_
    BY <2>2 DEF StoreInv, MemBounded
  <2> QED BY <2>1, <2>3 DEF StoreInv, OldBounded, Stored
<1>5. pc[t] = "group" => \A i \in 1..Len(batches) : batches[i] \subseteq 1..last_sequence_
  BY <1>1 DEF StoreInv, BatchesBounded, Logging, Leading
<1>6. pc[t] \notin InTheLog => \A e \in wal : e[2] \in 1..last_sequence_
  BY <1>1 DEF StoreInv, WalBounded, InTheLog, Leading
<1> QED BY <1>1, <1>2, <1>3, <1>4, <1>5, <1>6

\* A real batch starts its group of one.
LEMMA RoomFoundStore ==
    ASSUME TypeInv, QueueInv, StoreInv, NEW t \in Threads, RoomFound(t),
    req[t].kind # "flush"
    PROVE  StoreInv'
<1>1. pc[t] = "room" /\ pc'[t] = "group" /\ \A u \in Threads \ {t} : pc'[u] = pc[u]
  BY DEF RoomFound, At, TypeInv, TypeOK, TypeClients
<1>2. UNCHANGED <<inserted, storeVars>>
  BY DEF RoomFound, memVars, logVars, versionVars, historyVars, storeVars
<1>3. group'[t].first = last_sequence_ + 1 /\ \A u \in Threads \ {t} : group'[u] = group[u]
  BY DEF RoomFound, TypeInv, TypeOK, TypeGroups
<1>4. \A u \in Threads \ {t} : pc[u] \notin Leading
  BY <1>1, LeaderAlone DEF Rooming
<1>5. \A u \in Threads : pc[u] \notin Leading
  BY <1>1, <1>4 DEF Leading
<1>6. GroupNumbered'
  BY <1>1, <1>2, <1>3, <1>4 DEF StoreInv, GroupNumbered, storeVars
<1>7. InsertedSoFar'
  BY <1>1, <1>2, <1>3 DEF StoreInv, InsertedSoFar, storeVars, Added
<1>8. MemBounded' /\ OldBounded' /\ ImmFree'
  BY <1>2, <1>5 DEF StoreInv, MemBounded, OldBounded, ImmFree, storeVars, Leading
<1>9. BatchesBounded' /\ WalBounded'
  BY <1>2, <1>5 DEF StoreInv, BatchesBounded, WalBounded, storeVars, Leading, Logging,
     InTheLog
<1>10. BatchAtomic' /\ SequencesDisjoint'
  BY <1>2, AtomicFrame DEF StoreInv, SequencesDisjoint, storeVars, Visible, Stored
<1> QED BY <1>6, <1>7, <1>8, <1>9, <1>10 DEF StoreInv

\* The group gets more members, or more of the log is synced, or the sync
\* fails: the entries stay where they are.
LEMMA LeaderMovesStore ==
    ASSUME TypeInv, QueueInv, StoreInv, NEW t \in Threads,
           GrowGroup(t) \/ SyncLog(t) \/ SyncFails(t)
    PROVE  StoreInv'
<1>1. UNCHANGED <<inserted, storeVars>>
  BY DEF GrowGroup, SyncLog, SyncFails, localVars, memVars, logVars, versionVars,
     historyVars,
     storeVars
<1>2. CASE GrowGroup(t)
  <2>1. pc[t] = "group" /\ UNCHANGED pc
    BY <1>2 DEF GrowGroup, At
  <2>2. group'[t].first = group[t].first /\ \A u \in Threads \ {t} : group'[u] = group[u]
    BY <1>2 DEF GrowGroup, TypeInv, TypeOK, TypeGroups
  <2>3. GroupNumbered'
    BY <1>1, <2>1, <2>2 DEF StoreInv, GroupNumbered, storeVars
  <2>4. InsertedSoFar' /\ MemBounded' /\ OldBounded' /\ ImmFree'
    BY <1>1, <2>1, <2>2 DEF StoreInv, InsertedSoFar, MemBounded, OldBounded, ImmFree,
       storeVars,
       Added
  <2>5. BatchesBounded' /\ WalBounded'
    BY <1>1, <2>1, <2>2 DEF StoreInv, BatchesBounded, WalBounded, storeVars, Logging,
       InTheLog, Seqs
  <2>6. BatchAtomic' /\ SequencesDisjoint'
    BY <1>1, AtomicFrame DEF StoreInv, SequencesDisjoint, storeVars, Visible, Stored
  <2> QED BY <2>3, <2>4, <2>5, <2>6 DEF StoreInv
<1>3. CASE SyncLog(t) \/ SyncFails(t)
  <2>1. pc[t] = "sync" /\ pc'[t] \in {"insert",
  "syncfailed"} /\ \A u \in Threads \ {t} : pc'[u] = pc[u]
    BY <1>3 DEF SyncLog, SyncFails, At, TypeInv, TypeOK, TypeClients
  <2>2. UNCHANGED group
    BY <1>3 DEF SyncLog, SyncFails, localVars
  <2>3. inserted[t] = 0 /\ inserted'[t] = 0 /\ group[t].count \in Nat /\ group[t].first \in Nat
    BY <2>1, <1>1 DEF StoreInv, InsertedSoFar, TypeInv, TypeOK, TypeGroups
  <2>4. GroupNumbered'
    BY <1>1, <2>1, <2>2 DEF StoreInv, GroupNumbered, storeVars, Leading
  <2>5. Added(t)' = {} /\ inserted'[t] <= group'[t].count
    BY <2>2, <2>3 DEF Added
  <2>6. InsertedSoFar'
    BY <1>1, <2>1, <2>2, <2>3, <2>5 DEF StoreInv, InsertedSoFar, storeVars, Added
  <2>7. MemBounded' /\ OldBounded' /\ ImmFree'
    BY <1>1, <2>1, <2>2 DEF StoreInv, MemBounded, OldBounded, ImmFree, storeVars, Added
  <2>8. BatchesBounded' /\ WalBounded'
    BY <1>1, <2>1, <2>2 DEF StoreInv, BatchesBounded, WalBounded, storeVars, Logging,
       InTheLog, Seqs
  <2>9. BatchAtomic' /\ SequencesDisjoint'
    BY <1>1, AtomicFrame DEF StoreInv, SequencesDisjoint, storeVars, Visible, Stored
  <2> QED BY <2>4, <2>6, <2>7, <2>8, <2>9 DEF StoreInv
<1> QED BY <1>2, <1>3

\* The group is closed: its sequence numbers are beyond all that were used.
LEMMA CloseGroupStore ==
    ASSUME TypeInv, QueueInv, StoreInv, NEW t \in Threads, CloseGroup(t)
    PROVE  StoreInv'
<1>1. pc[t] = "group" /\ pc'[t] = "append" /\ \A u \in Threads \ {t} : pc'[u] = pc[u]
  BY DEF CloseGroup, At, TypeInv, TypeOK, TypeClients
<1>2. /\ UNCHANGED <<group, inserted, last_sequence_, mem_, imm_, has_imm_, flushed, wal,
                     logfile_number_>>
      /\ batches' = Append(batches, Seqs(group[t]))
  BY DEF CloseGroup, localVars, memVars, logVars, versionVars
<1>3. /\ \A u \in Threads \ {t} : pc[u] \notin Leading
      /\ group[t].first = last_sequence_ + 1 /\ group[t].count \in Nat /\ last_sequence_ \in Nat
      /\ Stored \subseteq 1..last_sequence_
      /\ \A i \in 1..Len(batches) : batches[i] \subseteq 1..last_sequence_
  BY <1>1, LeaderKnows DEF Leading
<1>4. \A s \in Seqs(group[t]) : s \in Nat /\ s > last_sequence_
  BY <1>3 DEF Seqs
<1>5. Seqs(group[t]) \in SUBSET Nat /\ batches \in Seq(SUBSET Nat)
  BY <1>4 DEF TypeInv, TypeOK, TypeHistory
<1>6. /\ Len(batches) \in Nat /\ Len(batches') = Len(batches) + 1
      /\ DOMAIN batches = 1..Len(batches) /\ DOMAIN batches' = 1..Len(batches) + 1
      /\ \A i \in 1..Len(batches) : batches'[i] = batches[i]
      /\ batches'[Len(batches) + 1] = Seqs(group[t])
  <2>1. batches' \in Seq(SUBSET Nat)
    BY <1>2, <1>5, AppendProperties
  <2>2. /\ Len(batches) \in Nat /\ Len(batches') = Len(batches) + 1
        /\ \A i \in 1..Len(batches) : batches'[i] = batches[i]
        /\ batches'[Len(batches) + 1] = Seqs(group[t])
    BY <1>2, <1>5, AppendProperties, LenProperties
  <2>3. DOMAIN batches = 1..Len(batches) /\ DOMAIN batches' = 1..Len(batches')
    BY <2>1, <1>5, LenProperties
  <2> QED BY <2>2, <2>3
<1>7. GroupNumbered'
  BY <1>1, <1>2 DEF StoreInv, GroupNumbered, Leading
<1>8. InsertedSoFar' /\ MemBounded' /\ OldBounded' /\ ImmFree'
  BY <1>1, <1>2 DEF StoreInv, InsertedSoFar, MemBounded, OldBounded, ImmFree, Added
<1>9. BatchesBounded'
  <2> SUFFICES ASSUME NEW i \in 1..Len(batches')
               PROVE  \/ batches'[i] \subseteq 1..last_sequence_
                      \/ i = Len(batches') /\ batches'[i] = Seqs(group[t])
    BY <1>1, <1>2 DEF BatchesBounded, Logging, Seqs
  <2>1. CASE i \in 1..Len(batches)
    BY <2>1, <1>3, <1>6
  <2>2. CASE i = Len(batches) + 1
    BY <2>2, <1>6
  <2> QED BY <2>1, <2>2, <1>6
<1>10. WalBounded'
  BY <1>1, <1>2 DEF StoreInv, WalBounded, InTheLog, Seqs
<1>11. BatchAtomic'
  <2>1. Visible' = Visible /\ Visible \subseteq 1..last_sequence_
    BY <1>2, <1>3 DEF Visible, Stored
  <2> SUFFICES ASSUME NEW i \in DOMAIN batches'
               PROVE  batches'[i] \cap Visible \in {{}, batches'[i]}
    BY <2>1 DEF BatchAtomic, Visible
  <2>2. CASE i \in 1..Len(batches)
    BY <2>2, <1>6 DEF StoreInv, BatchAtomic, Visible
  <2>3. CASE i = Len(batches) + 1
    <3>1. batches'[i] \cap Visible = {}
      BY <2>1, <2>3, <1>3, <1>4, <1>6
    <3> QED BY <3>1
  <2> QED BY <2>2, <2>3, <1>6
<1>12. SequencesDisjoint'
  <2>1. ASSUME NEW i \in 1..Len(batches), NEW j \in 1..Len(batches), i # j
        PROVE  batches[i] \cap batches[j] = {}
    BY <2>1, <1>6 DEF StoreInv, SequencesDisjoint
  <2>2. ASSUME NEW i \in 1..Len(batches)
        PROVE  batches[i] \cap Seqs(group[t]) = {}
    BY <1>3, <1>4
  <2>3. ASSUME NEW i \in 1..Len(batches) + 1, NEW j \in 1..Len(batches) + 1, i # j
        PROVE  batches'[i] \cap batches'[j] = {}
    <3>1. CASE i \in 1..Len(batches) /\ j \in 1..Len(batches)
      BY <3>1, <2>1, <2>3, <1>6
    <3>2. CASE i = Len(batches) + 1
      BY <3>2, <2>2, <2>3, <1>6
    <3>3. CASE j = Len(batches) + 1
      BY <3>3, <2>2, <2>3, <1>6
    <3> QED BY <3>1, <3>2, <3>3, <1>6
  <2>4. \A e, f \in wal' : e[2] = f[2] => e[1] = f[1]
    BY <1>2 DEF StoreInv, SequencesDisjoint
  <2> QED BY <2>3, <2>4, <1>6 DEF SequencesDisjoint
<1> QED BY <1>7, <1>8, <1>9, <1>10, <1>11, <1>12 DEF StoreInv

\* AddRecord: the log gets entries of the group, or loses them.
LEMMA AppendStore ==
    ASSUME TypeInv, QueueInv, StoreInv, NEW t \in Threads, AppendRecord(t) \/ AppendFails(t)
    PROVE  StoreInv'
<1>1. pc[t] = "append" /\ pc'[t] \in {"sync", "insert",
"failed"} /\ \A u \in Threads \ {t} : pc'[u] = pc[u]
  BY DEF AppendRecord, AppendFails, At, TypeInv, TypeOK, TypeClients
<1>2. /\ UNCHANGED <<group, inserted, last_sequence_, mem_, imm_, has_imm_, flushed,
                     batches, logfile_number_>>
      /\ wal' \in {wal, wal \cup ({logfile_number_} \X Seqs(group[t]))}
  BY DEF AppendRecord, AppendFails, localVars, memVars, versionVars, historyVars
<1>3. /\ group[t].first = last_sequence_ + 1 /\ group[t].count \in Nat
      /\ last_sequence_ \in Nat /\ inserted[t] = 0
      /\ \A e \in wal : e[2] \in 1..last_sequence_
  BY <1>1, LeaderKnows DEF Leading, InTheLog
<1>4. GroupNumbered'
  BY <1>1, <1>2 DEF StoreInv, GroupNumbered, Leading
<1>5. Added(t)' = {} /\ inserted'[t] <= group'[t].count /\ inserted'[t] = 0
  BY <1>2, <1>3 DEF Added
<1>6. InsertedSoFar'
  BY <1>1, <1>2, <1>5 DEF StoreInv, InsertedSoFar, Added
<1>7. MemBounded' /\ OldBounded' /\ ImmFree'
  BY <1>1, <1>2 DEF StoreInv, MemBounded, OldBounded, ImmFree, Added
<1>8. BatchesBounded'
  BY <1>1, <1>2 DEF StoreInv, BatchesBounded, Logging, Seqs
<1>9. \A e \in wal' : \/ e[2] \in 1..last_sequence_
                      \/ e[1] = logfile_number_ /\ e[2] \in Seqs(group[t])
  <2> SUFFICES ASSUME NEW e \in wal', e \notin wal
               PROVE  e[1] = logfile_number_ /\ e[2] \in Seqs(group[t])
    BY <1>3
  <2>1. e \in {logfile_number_} \X Seqs(group[t])
    BY <1>2
  <2> QED BY <2>1
<1>10. WalBounded'
  <2>1. pc'[t] \in InTheLog /\ Seqs(group[t])' = Seqs(group[t])
    BY <1>1, <1>2 DEF InTheLog, Seqs
  <2> QED BY <2>1, <1>2, <1>9 DEF WalBounded
<1>11. BatchAtomic'
  BY <1>2, AtomicFrame DEF StoreInv, Visible, Stored
<1>12. SequencesDisjoint'
  <2>1. \A s \in Seqs(group[t]) : s > last_sequence_
    BY <1>3 DEF Seqs
  <2>2. ASSUME NEW e \in wal', NEW f \in wal', e[2] = f[2] PROVE e[1] = f[1]
    <3>1. CASE e \in wal /\ f \in wal
      BY <2>2, <3>1 DEF StoreInv, SequencesDisjoint
    <3>2. CASE e \notin wal
      <4>1. e[1] = logfile_number_ /\ e[2] \in Seqs(group[t])
        BY <1>2, <3>2
      <4>2. f \notin wal
        BY <4>1, <2>1, <2>2, <1>3
      <4>3. f[1] = logfile_number_
        BY <4>2, <1>2
      <4> QED BY <4>1, <4>3
    <3>3. CASE f \notin wal
      <4>1. f[1] = logfile_number_ /\ f[2] \in Seqs(group[t])
        BY <1>2, <3>3
      <4>2. e \notin wal
        BY <4>1, <2>1, <2>2, <1>3
      <4>3. e[1] = logfile_number_
        BY <4>2, <1>2
      <4> QED BY <4>1, <4>3
    <3> QED BY <3>1, <3>2, <3>3
  <2>3. \A i, j \in DOMAIN batches' : i # j => batches'[i] \cap batches'[j] = {}
    BY <1>2 DEF StoreInv, SequencesDisjoint
  <2> QED BY <2>2, <2>3 DEF SequencesDisjoint
<1> QED BY <1>4, <1>6, <1>7, <1>8, <1>10, <1>11, <1>12 DEF StoreInv

\* One more of a run of numbers: InsertInto adds the entries of a group in order.
LEMMA IntervalGrows ==
    ASSUME NEW a \in Int, NEW n \in Nat
    PROVE  a .. a + (n + 1) - 1 = (a .. a + n - 1) \cup {a + n}
  OBVIOUS

\* InsertInto adds an entry, beyond what readers look at.
LEMMA InsertEntryStore ==
    ASSUME TypeInv, QueueInv, StoreInv, NEW t \in Threads, InsertEntry(t)
    PROVE  StoreInv' /\ Visible' = Visible
<1> DEFINE x == group[t].first + inserted[t]
<1>1. pc[t] = "insert" /\ inserted[t] < group[t].count /\ mem_' = mem_ \cup {x}
  BY DEF InsertEntry, At
<1>2. UNCHANGED <<pc, group, last_sequence_, imm_, has_imm_, flushed, batches, wal,
                     logfile_number_>>
  BY DEF InsertEntry, logVars, versionVars, historyVars
<1>3. inserted'[t] = inserted[t] + 1 /\ \A u \in Threads \ {t} : inserted'[u] = inserted[u]
  BY DEF InsertEntry, TypeInv, TypeOK, TypeGroups
<1>4. /\ \A u \in Threads \ {t} : pc[u] \notin Leading
      /\ group[t].first = last_sequence_ + 1 /\ group[t].count \in Nat
      /\ last_sequence_ \in Nat /\ inserted[t] \in Nat
  BY <1>1, LeaderKnows DEF Leading
<1>5. Added(t)' = Added(t) \cup {x} /\ x > last_sequence_
  <2>1. x = last_sequence_ + 1 + inserted[t]
    BY <1>4
  <2>2. Added(t)' = group[t].first .. group[t].first + (inserted[t] + 1) - 1
    BY <1>2, <1>3 DEF Added
  <2>3. group[t].first \in Int /\ inserted[t] \in Nat
    BY <1>4
  <2>4. Added(t)' = Added(t) \cup {x}
    BY <2>2, <2>3, IntervalGrows DEF Added
  <2>5. x > last_sequence_
    BY <1>4, <2>1
  <2> QED BY <2>4, <2>5
<1>6. \A u \in Threads \ {t} : Added(u)' = Added(u) /\ pc[u] # "insert"
  BY <1>2, <1>3, <1>4 DEF Added, Leading
<1>7. GroupNumbered'
  BY <1>2 DEF StoreInv, GroupNumbered
<1>8. InsertedSoFar'
  BY <1>1, <1>2, <1>3, <1>4, <1>5, <1>6 DEF StoreInv, InsertedSoFar
<1>9. MemBounded'
  BY <1>1, <1>2, <1>5, <1>6 DEF StoreInv, MemBounded
<1>10. OldBounded' /\ ImmFree' /\ BatchesBounded' /\ WalBounded'
  BY <1>2 DEF StoreInv, OldBounded, ImmFree, BatchesBounded, WalBounded, Seqs
<1>11. Visible' = Visible
  BY <1>1, <1>2, <1>4, <1>5 DEF Visible, Stored
<1>12. BatchAtomic' /\ SequencesDisjoint'
  BY <1>2, <1>11, AtomicFrame DEF StoreInv, SequencesDisjoint
<1> QED BY <1>7, <1>8, <1>9, <1>10, <1>11, <1>12 DEF StoreInv

\* The leader publishes the sequence numbers of its group, all of whose entries
\* are in the memtable, or none.
LEMMA FinishWriteStore ==
    ASSUME TypeInv, QueueInv, StoreInv, NEW t \in Threads, WriteSucceeds(t) \/ WriteFails(t)
    PROVE  StoreInv' /\ Stored' = Stored
<1>1. /\ pc[t] \in InTheLog \/ pc[t] = "append"
      /\ pc[t] \in Leading
      /\ pc[t] = "insert" => inserted[t] = group[t].count
  BY DEF WriteSucceeds, WriteFails, At, InTheLog, Leading
<1>2. /\ UNCHANGED <<mem_, imm_, has_imm_, flushed, batches, wal, logfile_number_>>
      /\ last_sequence_' = last_sequence_ + group[t].count
  BY DEF WriteSucceeds, WriteFails, FinishWrite, UsedSequence, memVars, logVars, versionVars
<1>3. LeaveQueue(t, group[t].n, "ok") \/ LeaveQueue(t, group[t].n, "error")
  BY DEF WriteSucceeds, WriteFails, FinishWrite
<1>4. /\ pc'[t] \notin Leading /\ inserted'[t] = 0
      /\ \A u \in Threads \ {t} : pc'[u] = pc[u] /\ group'[u] = group[u] /\ inserted'[u] = inserted[u]
  <2>1. PICK st : LeaveQueue(t, group[t].n, st)
    BY <1>3
  <2>2. /\ pc' = [pc EXCEPT ![t] = AfterWrite(t, st)]
        /\ group' = [group EXCEPT ![t] = NoGroup] /\ inserted' = [inserted EXCEPT ![t] = 0]
    BY <2>1 DEF LeaveQueue
  <2>3. AfterWrite(t, st) \notin Leading
    BY DEF AfterWrite, Leading
  <2>4. DOMAIN pc = Threads /\ DOMAIN inserted = Threads /\ DOMAIN group = Threads
    BY DEF TypeInv, TypeOK, TypeClients, TypeGroups
  <2>5. pc'[t] \notin Leading /\ inserted'[t] = 0
    BY <2>2, <2>3, <2>4
  <2>6. ASSUME NEW u \in Threads \ {t}
        PROVE  pc'[u] = pc[u] /\ group'[u] = group[u] /\ inserted'[u] = inserted[u]
    BY <2>2, <2>4
  <2> QED BY <2>5, <2>6
<1>5. /\ \A u \in Threads \ {t} : pc[u] \notin Leading
      /\ group[t].first = last_sequence_ + 1 /\ group[t].count \in Nat
      /\ last_sequence_ \in Nat /\ inserted[t] \in Nat
      /\ pc[t] # "insert" => inserted[t] = 0 /\ Stored \subseteq 1..last_sequence_
  BY <1>1, LeaderKnows
<1>6. \A u \in Threads : pc'[u] \notin Leading
  BY <1>4, <1>5
<1>7. /\ 1..last_sequence_ \subseteq 1..last_sequence_'
      /\ Seqs(group[t]) \subseteq 1..last_sequence_'
      /\ \A s \in Seqs(group[t]) : s > last_sequence_
  BY <1>2, <1>5 DEF Seqs
<1>8. pc[t] = "insert" => Added(t) = Seqs(group[t])
  BY <1>1, <1>5 DEF Added, Seqs
<1>9. GroupNumbered' /\ InsertedSoFar'
  BY <1>4, <1>5, <1>6 DEF StoreInv, GroupNumbered, InsertedSoFar, Leading
<1>10. \A s \in mem_ : s \in 1..last_sequence_ \/ (pc[t] = "insert" /\ s \in Seqs(group[t]))
  <2>1. CASE pc[t] = "insert"
    <3>1. \A u \in Threads \ {t} : pc[u] # "insert"
      BY <1>5 DEF Leading
    <3> QED BY <2>1, <3>1, <1>8 DEF StoreInv, MemBounded
  <2>2. CASE pc[t] # "insert"
    BY <2>2, <1>5 DEF Stored
  <2> QED BY <2>1, <2>2
<1>11. MemBounded' /\ OldBounded' /\ ImmFree'
  BY <1>2, <1>7, <1>10 DEF StoreInv, MemBounded, OldBounded, ImmFree
<1>12. \A i \in 1..Len(batches) : batches[i] \subseteq 1..last_sequence_ \/ batches[i] = Seqs(group[t])
  BY <1>5 DEF StoreInv, BatchesBounded, Logging, Leading
<1>13. BatchesBounded'
  BY <1>2, <1>7, <1>12 DEF BatchesBounded
<1>14. \A e \in wal : e[2] \in 1..last_sequence_ \/ e[2] \in Seqs(group[t])
  BY <1>5 DEF StoreInv, WalBounded, InTheLog, Leading
<1>15. WalBounded'
  BY <1>2, <1>7, <1>14 DEF WalBounded
<1>16. Visible' = Stored /\ Stored' = Stored
  BY <1>2, <1>11, <1>10, <1>7 DEF Visible, Stored, OldBounded, MemBounded, StoreInv
<1>17. BatchAtomic'
  <2> SUFFICES ASSUME NEW i \in DOMAIN batches
               PROVE  batches[i] \cap Stored \in {{}, batches[i]}
    BY <1>2, <1>16 DEF BatchAtomic, Visible
  <2>1. i \in 1..Len(batches)
    BY BatchesDomain
  <2>2. CASE batches[i] \subseteq 1..last_sequence_
    <3>1. batches[i] \cap Stored = batches[i] \cap Visible
      BY <2>2, <1>5 DEF Visible
    <3>2. batches[i] \cap Visible \in {{}, batches[i]}
      BY DEF StoreInv, BatchAtomic, Visible
    <3> QED BY <3>1, <3>2
  <2>3. CASE batches[i] = Seqs(group[t]) /\ pc[t] = "insert"
    <3>1. batches[i] \subseteq Stored
      BY <2>3, <1>8 DEF StoreInv, InsertedSoFar, Stored
    <3> QED BY <3>1
  <2>4. CASE batches[i] = Seqs(group[t]) /\ pc[t] # "insert"
    <3>1. batches[i] \cap Stored = {}
      BY <2>4, <1>5, <1>7
    <3> QED BY <3>1
  <2> QED BY <2>1, <2>2, <2>3, <2>4, <1>12
<1>18. SequencesDisjoint'
  BY <1>2 DEF StoreInv, SequencesDisjoint
<1> QED BY <1>9, <1>11, <1>13, <1>15, <1>16, <1>17, <1>18 DEF StoreInv

\* The memtable is switched by the head of the queue, when no leader inserts
\* into it and imm_ is free.
LEMMA SwitchMemTableStore ==
    ASSUME TypeInv, QueueInv, StoreInv, NEW t \in Threads, SwitchMemTable(t)
    PROVE  StoreInv' /\ Stored' = Stored
<1>1. UNCHANGED <<pc, group, inserted, last_sequence_, flushed, batches, wal>>
  BY DEF SwitchMemTable, versionVars, historyVars
<1>2. imm_ = {} /\ mem_' = {} /\ imm_' = mem_ /\ has_imm_' = TRUE
  BY DEF SwitchMemTable, MustSwitch, MustWait, StoreInv, ImmFree
<1>3. \A u \in Threads : pc[u] \notin Leading
  BY LeaderAlone DEF SwitchMemTable, At, Rooming, Leading
<1>4. mem_ \subseteq 1..last_sequence_
  BY <1>3 DEF StoreInv, MemBounded, Leading
<1>5. Stored' = Stored /\ Visible' = Visible
  BY <1>1, <1>2 DEF Stored, Visible
<1>6. GroupNumbered' /\ InsertedSoFar'
  BY <1>1, <1>3 DEF StoreInv, GroupNumbered, InsertedSoFar, Leading
<1>7. MemBounded' /\ OldBounded' /\ ImmFree'
  BY <1>1, <1>2, <1>4 DEF StoreInv, MemBounded, OldBounded, ImmFree
<1>8. BatchesBounded' /\ WalBounded'
  BY <1>1, <1>3 DEF StoreInv, BatchesBounded, WalBounded, Seqs, InTheLog, Leading
<1>9. BatchAtomic' /\ SequencesDisjoint'
  BY <1>1, <1>5, AtomicFrame DEF StoreInv, SequencesDisjoint
<1> QED BY <1>5, <1>6, <1>7, <1>8, <1>9 DEF StoreInv

-----------------------------------------------------------------------------
(***************************************************************************)
(* Steps of the background thread.                                         *)
(***************************************************************************)
\* The table is in the version before imm_ goes, and only logs go with it.
LEMMA ApplyMemTableStore ==
    ASSUME TypeInv, StoreInv, ApplyMemTable
    PROVE  StoreInv' /\ Stored' = Stored
<1>1. UNCHANGED <<pc, group, inserted, last_sequence_, mem_, batches, logfile_number_>>
  BY DEF ApplyMemTable, clientVars, localVars, historyVars
<1>2. flushed' = flushed \cup imm_ /\ imm_' = {} /\ has_imm_' = FALSE /\ wal' \subseteq wal
  BY DEF ApplyMemTable, LiveLogs
<1>3. Stored' = Stored /\ Visible' = Visible
  BY <1>1, <1>2 DEF Stored, Visible
<1>4. GroupNumbered' /\ InsertedSoFar'
  BY <1>1 DEF StoreInv, GroupNumbered, InsertedSoFar, Added
<1>5. MemBounded' /\ OldBounded' /\ ImmFree'
  BY <1>1, <1>2 DEF StoreInv, MemBounded, OldBounded, ImmFree, Added
<1>6. BatchesBounded' /\ WalBounded'
  BY <1>1, <1>2 DEF StoreInv, BatchesBounded, WalBounded, Seqs
<1>7. BatchAtomic' /\ SequencesDisjoint'
  BY <1>1, <1>2, <1>3, AtomicFrame DEF StoreInv, SequencesDisjoint
<1> QED BY <1>3, <1>4, <1>5, <1>6, <1>7 DEF StoreInv

LEMMA BackgroundStore ==
    ASSUME TypeInv, StoreInv, Background
    PROVE  StoreInv' /\ Stored' = Stored
<1>1. CASE ~ApplyMemTable
  <2>1. UNCHANGED <<pc, localVars, last_sequence_, memVars, wal, logfile_number_, flushed,
  batches>>
    BY <1>1 DEF Background, BackgroundIdle, StartMemTable, ManualNothingLeft, StartManual,
       StartCompaction, StartTrivialMove, CompactImmFirst, TableBuilt, TableFails,
       ApplyMemTableFails, CompactionDone, CompactionFails, ApplyCompaction,
       ApplyCompactionFails, compactionVars, clientVars, logVars, versionVars, historyVars
  <2>2. UNCHANGED <<pc, group, inserted, storeVars>>
    BY <2>1 DEF localVars, memVars, storeVars
  <2> QED BY <2>2, StoreFrame DEF Stored, storeVars
<1> QED BY <1>1, ApplyMemTableStore

-----------------------------------------------------------------------------
LEMMA InitStore == Init => StoreInv
<1> SUFFICES ASSUME Init PROVE StoreInv
  OBVIOUS
<1>1. Len(batches) = 0 /\ 1..Len(batches) = {} /\ DOMAIN batches = {}
  BY EmptySeq DEF Init
<1>2. \A t \in Threads : pc[t] = "idle" /\ inserted[t] = 0
  BY DEF Init
<1>3. mem_ = {} /\ imm_ = {} /\ flushed = {} /\ wal = {}
  BY DEF Init
<1>4. GroupNumbered /\ InsertedSoFar /\ MemBounded /\ OldBounded /\ ImmFree
  BY <1>2, <1>3 DEF GroupNumbered, InsertedSoFar, MemBounded, OldBounded, ImmFree, Leading
<1>5. BatchesBounded /\ WalBounded /\ BatchAtomic /\ SequencesDisjoint
  BY <1>1, <1>3 DEF BatchesBounded, WalBounded, BatchAtomic, SequencesDisjoint
<1> QED BY <1>4, <1>5 DEF StoreInv

\* Every step keeps StoreInv and does not touch what is visible; entries only
\* come, and only beyond last_sequence_.
LEMMA NextStore ==
    ASSUME TypeInv, QueueInv, StoreInv, [Next]_vars
    PROVE  /\ StoreInv'
           /\ Stored' = Stored \/ (Visible' = Visible /\ UNCHANGED last_sequence_)
<1>1. ASSUME NEW t \in Threads, InsertEntry(t)
      PROVE  StoreInv' /\ Visible' = Visible /\ UNCHANGED last_sequence_
  BY <1>1, InsertEntryStore DEF InsertEntry
<1>2. ASSUME NEW t \in Threads,
             \/ SwitchMemTable(t) \/ WriteSucceeds(t) \/ WriteFails(t)
      PROVE  StoreInv' /\ Stored' = Stored
  BY <1>2, SwitchMemTableStore, FinishWriteStore
<1>3. ASSUME NEW t \in Threads,
             \/ ReturnDone(t) \/ BecomeLeader(t) \/ FlushCheck(t) \/ ManualReturn(t)
             \/ RoomDelay(t) \/ RoomWait(t) \/ RoomAgain(t) \/ RoomError(t) \/ SwitchFails(t)
             \/ RoomFound(t)
      PROVE  StoreInv' /\ Stored' = Stored
  <2>1. StoreInv'
    BY <1>3, OutsideActionsStore, RoomEndsStore, RoomFoundStore
  <2>2. UNCHANGED <<memVars, flushed>>
    BY <1>3 DEF ReturnDone, BecomeLeader, FlushCheck, ManualReturn, RoomDelay, RoomWait,
       RoomAgain, RoomError, SwitchFails, RoomFound, versionVars
  <2> QED BY <2>1, <2>2 DEF Stored, memVars
<1>4. ASSUME NEW t \in Threads,
             \/ GrowGroup(t) \/ CloseGroup(t) \/ AppendRecord(t) \/ AppendFails(t)
             \/ SyncLog(t) \/ SyncFails(t)
      PROVE  StoreInv' /\ Stored' = Stored
  <2>1. StoreInv'
    BY <1>4, LeaderMovesStore, CloseGroupStore, AppendStore
  <2>2. UNCHANGED <<memVars, flushed>>
    BY <1>4 DEF GrowGroup, CloseGroup, AppendRecord, AppendFails, SyncLog, SyncFails,
       versionVars
  <2> QED BY <2>1, <2>2 DEF Stored, memVars
<1>5. ASSUME NEW t \in Threads, NEW r \in Requests, Write(t, r) \/ CallManual(t, r)
      PROVE  StoreInv' /\ Stored' = Stored
  <2>1. UNCHANGED <<memVars, flushed>>
    BY <1>5 DEF Write, CallManual, versionVars
  <2> QED BY <1>5, <2>1, OutsideActionsStore DEF Stored, memVars
<1>6. CASE \/ Close \/ CloseAgain \/ Terminated \/ UNCHANGED vars
           \/ \E t \in Threads : ManualWait(t)
  <2>1. UNCHANGED <<pc, localVars, last_sequence_, memVars, logVars, versionVars,
  historyVars>>
    BY <1>6 DEF Close, CloseAgain, Terminated, ManualWait, vars
  <2>2. UNCHANGED <<pc, group, inserted, storeVars>>
    BY <2>1 DEF localVars, memVars, logVars, versionVars, historyVars, storeVars
  <2> QED BY <2>2, StoreFrame DEF Stored, storeVars
<1>7. CASE \E t \in Threads : Client(t)
  <2> PICK t \in Threads : Client(t)
    BY <1>7
  <2>1. CASE InsertEntry(t)
    BY <2>1, <1>1
  <2>2. CASE SwitchMemTable(t) \/ WriteSucceeds(t) \/ WriteFails(t)
    BY <2>2, <1>2
  <2>3. CASE \/ ReturnDone(t) \/ BecomeLeader(t) \/ FlushCheck(t) \/ ManualReturn(t)
             \/ RoomDelay(t) \/ RoomWait(t) \/ RoomAgain(t) \/ RoomError(t) \/ SwitchFails(t)
             \/ RoomFound(t)
    BY <2>3, <1>3
  <2>4. CASE \/ GrowGroup(t) \/ CloseGroup(t) \/ AppendRecord(t) \/ AppendFails(t)
             \/ SyncLog(t) \/ SyncFails(t)
    BY <2>4, <1>4
  <2>5. CASE ManualWait(t)
    BY <2>5, <1>6
  <2> QED BY <2>1, <2>2, <2>3, <2>4, <2>5 DEF Client, Leader
<1>8. CASE Background
  BY <1>8, BackgroundStore
<1>9. CASE \E t \in Threads, r \in Requests : Write(t, r) \/ CallManual(t, r)
  BY <1>9, <1>5
<1>10. CASE Close \/ CloseAgain \/ Terminated \/ UNCHANGED vars
  BY <1>10, <1>6
<1> QED BY <1>7, <1>8, <1>9, <1>10 DEF Next

LEMMA StoreInvariant == Spec => [](TypeInv /\ QueueInv /\ StoreInv)
<1>1. Init => TypeInv /\ QueueInv /\ StoreInv
  BY InitType, InitQueue, InitStore
<1>2. TypeInv /\ QueueInv /\ StoreInv /\ [Next]_vars => (TypeInv /\ QueueInv /\ StoreInv)'
  BY NextType, NextQueue, NextStore
<1> QED BY <1>1, <1>2, PTL DEF Spec

\* A read at LastSequence() sees a batch group as a whole or not at all, while
\* InsertInto adds it entry by entry, and through switches, flushes and errors.
THEOREM ReadsAreAtomic == Spec => []BatchAtomic
<1>1. StoreInv => BatchAtomic
  BY DEF StoreInv
<1> QED BY <1>1, StoreInvariant, PTL

\* The sequence numbers of a failed write, whose record may be in the log, are
\* not given to another write.
THEOREM SequencesUsedOnce == Spec => []SequencesDisjoint
<1>1. StoreInv => SequencesDisjoint
  BY DEF StoreInv
<1> QED BY <1>1, StoreInvariant, PTL

\* No step adds or removes an entry that a reader at LastSequence() can see.
THEOREM ReadsAreStable == Spec => SnapshotStable
<1>1. TypeInv /\ QueueInv /\ StoreInv /\ [Next]_vars
      => [ \A s \in 1..last_sequence_ : s \in Stored' <=> s \in Stored ]_vars
  <2> SUFFICES ASSUME TypeInv, QueueInv, StoreInv, [Next]_vars
               PROVE  \A s \in 1..last_sequence_ : s \in Stored' <=> s \in Stored
    OBVIOUS
  <2>1. CASE Stored' = Stored
    BY <2>1
  <2>2. CASE Visible' = Visible /\ UNCHANGED last_sequence_
    BY <2>2 DEF Visible, TypeInv, TypeOK, TypeStore
  <2> QED BY <2>1, <2>2, NextStore
<1> QED BY <1>1, StoreInvariant, PTL DEF SnapshotStable, Spec

-----------------------------------------------------------------------------
(***************************************************************************)
(* After a failed sync.                                                    *)
(***************************************************************************)
\* A leader that is past MakeRoomForWrite has seen no error, and nobody else
\* can record a failed sync meanwhile.
SyncErrorStops == bg_error_ = "sync" => \A t \in Threads : pc[t] \notin Leading

LEMMA SyncErrorStopsStep ==
    ASSUME TypeInv, QueueInv, SyncErrorStops, [Next]_vars
    PROVE  SyncErrorStops'
<1>1. ASSUME NEW t \in Threads, WriteSucceeds(t) \/ WriteFails(t)
      PROVE  SyncErrorStops'
  <2>1. pc[t] \in Leading /\ (LeaveQueue(t, group[t].n, "ok") \/ LeaveQueue(t, group[t].n,
  "error"))
    BY <1>1 DEF WriteSucceeds, WriteFails, FinishWrite, At, Leading
  <2>2. pc'[t] \notin Leading /\ \A u \in Threads \ {t} : pc'[u] = pc[u]
    BY <2>1 DEF LeaveQueue, AfterWrite, Leading, TypeInv, TypeOK, TypeClients
  <2> QED BY <2>1, <2>2, LeaderAlone DEF SyncErrorStops
<1>2. ASSUME NEW t \in Threads, RoomFound(t)
      PROVE  SyncErrorStops'
  BY <1>2 DEF RoomFound, NoError, SyncErrorStops
<1>3. ASSUME NEW t \in Threads,
             \/ GrowGroup(t) \/ CloseGroup(t) \/ AppendRecord(t) \/ AppendFails(t)
             \/ SyncLog(t) \/ SyncFails(t) \/ InsertEntry(t) \/ SwitchMemTable(t)
      PROVE  SyncErrorStops'
  <2>1. UNCHANGED bg_error_
    BY <1>3 DEF GrowGroup, CloseGroup, AppendRecord, AppendFails, SyncLog, SyncFails,
       InsertEntry,
       SwitchMemTable
  <2>2. CASE SwitchMemTable(t)
    BY <2>1, <2>2 DEF SwitchMemTable, SyncErrorStops
  <2>3. CASE ~SwitchMemTable(t)
    BY <1>3, <2>1, <2>3 DEF GrowGroup, CloseGroup, AppendRecord, AppendFails, SyncLog,
       SyncFails,
       InsertEntry, At, Leading, SyncErrorStops
  <2> QED BY <2>2, <2>3
<1>4. ASSUME NEW t \in Threads,
             \/ \E r \in Requests : Write(t, r) \/ CallManual(t, r)
             \/ ReturnDone(t) \/ BecomeLeader(t) \/ FlushCheck(t) \/ ManualReturn(t)
             \/ RoomDelay(t) \/ RoomWait(t) \/ RoomAgain(t) \/ RoomError(t) \/ SwitchFails(t)
      PROVE  SyncErrorStops'
  <2>1. UNCHANGED bg_error_
    BY <1>4 DEF Write, CallManual, ReturnDone, BecomeLeader, FlushCheck, ManualReturn,
       RoomDelay,
       RoomWait, RoomAgain, RoomError, SwitchFails
  <2>2. UNCHANGED pc \/ \E p \in ClientPC \ Leading : pc' = [pc EXCEPT ![t] = p]
    <3>1. CASE \E r \in Requests : Write(t, r) \/ CallManual(t, r)
      BY <3>1 DEF Write, CallManual, ClientPC, Leading
    <3>2. CASE ReturnDone(t)
      BY <3>2 DEF ReturnDone, AfterWrite, ClientPC, Leading
    <3>3. CASE RoomError(t) \/ SwitchFails(t)
      BY <3>3 DEF RoomError, SwitchFails, LeaveQueue, AfterWrite, ClientPC, Leading
    <3>4. CASE \/ BecomeLeader(t) \/ FlushCheck(t) \/ ManualReturn(t)
               \/ RoomDelay(t) \/ RoomWait(t) \/ RoomAgain(t)
      BY <3>4 DEF BecomeLeader, FlushCheck, ManualReturn, RoomDelay, RoomWait, RoomAgain,
         ClientPC, Leading
    <3> QED BY <1>4, <3>1, <3>2, <3>3, <3>4
  <2>3. \A u \in Threads : pc'[u] \in Leading => pc[u] \in Leading
    BY <2>2 DEF TypeInv, TypeOK, TypeClients
  <2> QED BY <2>1, <2>3 DEF SyncErrorStops
<1>5. CASE Background
  <2>1. UNCHANGED pc
    BY <1>5 DEF Background, BackgroundIdle, StartMemTable, ManualNothingLeft, StartManual,
       StartCompaction, StartTrivialMove, CompactImmFirst, TableBuilt, TableFails,
       ApplyMemTable,
       ApplyMemTableFails, CompactionDone, CompactionFails, ApplyCompaction,
       ApplyCompactionFails, compactionVars, clientVars
  <2>2. bg_error_' = "sync" => bg_error_ = "sync"
    BY <1>5 DEF Background, BackgroundIdle, StartMemTable, ManualNothingLeft, StartManual,
       StartCompaction, StartTrivialMove, CompactImmFirst, TableBuilt, TableFails,
       ApplyMemTable,
       ApplyMemTableFails, CompactionDone, CompactionFails, ApplyCompaction,
       ApplyCompactionFails
  <2> QED BY <2>1, <2>2 DEF SyncErrorStops
<1>6. CASE \/ Close \/ CloseAgain \/ Terminated \/ UNCHANGED vars
           \/ \E t \in Threads : ManualWait(t)
  BY <1>6 DEF Close, CloseAgain, Terminated, ManualWait, vars, SyncErrorStops
<1>7. CASE \E t \in Threads : Client(t)
  <2> PICK t \in Threads : Client(t)
    BY <1>7
  <2>1. CASE \/ ReturnDone(t) \/ BecomeLeader(t) \/ FlushCheck(t) \/ ManualReturn(t)
             \/ RoomDelay(t) \/ RoomWait(t) \/ RoomAgain(t) \/ RoomError(t) \/ SwitchFails(t)
    BY <2>1, <1>4
  <2>2. CASE \/ GrowGroup(t) \/ CloseGroup(t) \/ AppendRecord(t) \/ AppendFails(t)
             \/ SyncLog(t) \/ SyncFails(t) \/ InsertEntry(t) \/ SwitchMemTable(t)
    BY <2>2, <1>3
  <2>3. CASE RoomFound(t) \/ WriteSucceeds(t) \/ WriteFails(t)
    BY <2>3, <1>1, <1>2
  <2>4. CASE ManualWait(t)
    BY <2>4, <1>6
  <2> QED BY <2>1, <2>2, <2>3, <2>4 DEF Client, Leader
<1>8. CASE \E t \in Threads, r \in Requests : Write(t, r) \/ CallManual(t, r)
  BY <1>8, <1>4
<1> QED BY <1>5, <1>6, <1>7, <1>8 DEF Next

\* What the log and the callers get comes from a leader.
LEMMA OnlyLeadersLog ==
    ASSUME TypeInv, [Next]_vars, \A t \in Threads : pc[t] \notin Leading
    PROVE  acked' = acked /\ wal' \subseteq wal
<1>1. ASSUME NEW t \in Threads, Client(t)
      PROVE  acked' = acked /\ wal' = wal
  <2>1. CASE AppendRecord(t) \/ AppendFails(t) \/ WriteSucceeds(t) \/ WriteFails(t)
    BY <2>1 DEF AppendRecord, AppendFails, WriteSucceeds, WriteFails, At, Leading
  <2>2. CASE ~(AppendRecord(t) \/ AppendFails(t) \/ WriteSucceeds(t) \/ WriteFails(t))
    BY <1>1, <2>2 DEF Client, Leader, ReturnDone, BecomeLeader, FlushCheck, ManualWait,
       ManualReturn, RoomError, RoomDelay, RoomWait, RoomAgain, SwitchFails, SwitchMemTable,
       RoomFound, GrowGroup, CloseGroup, SyncLog, SyncFails, InsertEntry, logVars,
       historyVars
  <2> QED BY <2>1, <2>2
<1>2. ASSUME NEW t \in Threads, NEW r \in Requests, Write(t, r) \/ CallManual(t, r)
      PROVE  acked' = acked /\ wal' = wal
  BY <1>2 DEF Write, CallManual, logVars, historyVars
<1>3. CASE Background
  <2>1. acked' = acked
    BY <1>3 DEF Background, BackgroundIdle, StartMemTable, ManualNothingLeft, StartManual,
       StartCompaction, StartTrivialMove, CompactImmFirst, TableBuilt, TableFails,
       ApplyMemTable,
       ApplyMemTableFails, CompactionDone, CompactionFails, ApplyCompaction,
       ApplyCompactionFails, compactionVars, clientVars, historyVars
  <2>2. CASE ApplyMemTable
    BY <2>1, <2>2 DEF ApplyMemTable, LiveLogs
  <2>3. CASE ~ApplyMemTable
    BY <1>3, <2>1, <2>3 DEF Background, BackgroundIdle, StartMemTable, ManualNothingLeft,
       StartManual, StartCompaction, StartTrivialMove, CompactImmFirst, TableBuilt,
       TableFails,
       ApplyMemTableFails, CompactionDone, CompactionFails, ApplyCompaction,
       ApplyCompactionFails, compactionVars, logVars
  <2> QED BY <2>1, <2>2, <2>3
<1>4. CASE Close \/ CloseAgain \/ Terminated \/ UNCHANGED vars
  BY <1>4 DEF Close, CloseAgain, Terminated, vars, logVars, historyVars
<1> QED BY <1>1, <1>2, <1>3, <1>4 DEF Next

\* db_impl.cc:1238, "we force the DB into a mode where all future writes fail":
\* after a failed sync nothing is logged and no write is acknowledged.
THEOREM FailedSyncStopsWrites == Spec => FailStop
<1>1. Init => SyncErrorStops
  BY DEF Init, SyncErrorStops
<1>2. TypeInv /\ QueueInv /\ SyncErrorStops /\ [Next]_vars => SyncErrorStops'
  BY SyncErrorStopsStep
<1>3. TypeInv /\ SyncErrorStops /\ [Next]_vars
      => [ bg_error_ = "sync" => acked' = acked /\ wal' \subseteq wal ]_vars
  BY OnlyLeadersLog DEF SyncErrorStops
<1> QED BY <1>1, <1>2, <1>3, StoreInvariant, PTL DEF FailStop, Spec

\* The memtable under compaction: MakeRoomForWrite does not replace imm_ while
\* it is there, InsertInto goes to mem_ only, and CompactMemTable drops it in
\* the step that puts its entries into the version, never after an error.
THEOREM ImmIsFrozen == Spec => ImmFrozen
<1>1. TypeInv /\ [Next]_vars
      => [ has_imm_ => \/ has_imm_' /\ imm_' = imm_
                       \/ ~has_imm_' /\ imm_ \subseteq flushed' ]_vars
  <2> SUFFICES ASSUME TypeInv, Next, has_imm_
               PROVE  \/ has_imm_' /\ imm_' = imm_
                      \/ ~has_imm_' /\ imm_ \subseteq flushed'
    OBVIOUS
  <2>1. ASSUME NEW t \in Threads, Client(t)
        PROVE  UNCHANGED <<imm_, has_imm_>>
    <3>1. ~SwitchMemTable(t)
      BY DEF SwitchMemTable, MustSwitch, MustWait
    <3> QED BY <2>1, <3>1 DEF Client, Leader, ReturnDone, BecomeLeader, FlushCheck,
               ManualWait, ManualReturn, RoomError, RoomDelay, RoomWait, RoomAgain,
               SwitchFails, RoomFound, GrowGroup, CloseGroup, AppendRecord, AppendFails,
               SyncLog, SyncFails, InsertEntry, WriteSucceeds, WriteFails, FinishWrite,
               memVars
  <2>2. CASE ApplyMemTable
    BY <2>2 DEF ApplyMemTable
  <2>3. CASE Background /\ ~ApplyMemTable
    <3>1. UNCHANGED <<imm_, has_imm_>>
      BY <2>3 DEF Background, BackgroundIdle, StartMemTable, ManualNothingLeft, StartManual,
         StartCompaction, StartTrivialMove, CompactImmFirst, TableBuilt, TableFails,
         ApplyMemTableFails, CompactionDone, CompactionFails, ApplyCompaction,
         ApplyCompactionFails, compactionVars, memVars
    <3> QED BY <3>1
  <2>4. CASE \/ \E t \in Threads, r \in Requests : Write(t, r) \/ CallManual(t, r)
             \/ Close \/ CloseAgain \/ Terminated
    <3>1. UNCHANGED <<imm_, has_imm_>>
      BY <2>4 DEF Write, CallManual, Close, CloseAgain, Terminated, vars, memVars
    <3> QED BY <3>1
  <2> QED BY <2>1, <2>2, <2>3, <2>4 DEF Next
<1> QED BY <1>1, StoreInvariant, PTL DEF ImmFrozen, Spec

-----------------------------------------------------------------------------
(***************************************************************************)
(* Durability, for every value of DBImpl's constants in which the append   *)
(* to a log does not fail: a write that returned OK can be recovered, and  *)
(* one that asked for it is on stable storage.                             *)
(***************************************************************************)
\* The record of the group is in the log.
Recorded == {"sync", "insert"}

\* A log is deleted when the version has the tables of all older memtables:
\* mem_ is in the current log, imm_ in one that the MANIFEST does not give up,
\* and the log number that CompactMemTable captured is still the current one
\* when its edit is applied, since imm_ keeps MakeRoomForWrite from switching.
Untorn    == torn = FALSE
LogOrder  == log_number_ <= logfile_number_
MemLogged == \A s \in mem_ : <<logfile_number_, s>> \in wal
ImmLogged == \A s \in imm_ : \E e \in wal : e[2] = s /\ e[1] >= log_number_
GroupLogged ==
    \A t \in Threads : pc[t] \in Recorded =>
        \A s \in Seqs(group[t]) : <<logfile_number_, s>> \in wal
ImmBusy   == bg.pc \in {"build", "applymem"} => has_imm_
EditLog   == bg.pc = "applymem" => bg.log = logfile_number_
AckedKept == acked \subseteq Stored /\ acked \subseteq 1..last_sequence_
LogInv == /\ Untorn /\ LogOrder /\ MemLogged /\ ImmLogged /\ GroupLogged
          /\ ImmBusy /\ EditLog /\ AckedKept

logStoreVars == <<logfile_number_, torn, wal, log_number_, mem_, imm_, has_imm_, flushed,
               acked>>

LEMMA LogImpliesRecoverable ==
    ASSUME LogInv, TypeInv
    PROVE  AckedRecoverable
<1> DEFINE Recoverable == {e[2] : e \in {x \in wal : x[1] >= log_number_}}
<1>1. log_number_ \in Nat /\ logfile_number_ \in Nat /\ wal \subseteq Nat \X Nat
  BY DEF TypeInv, TypeOK, TypeStore
<1>2. mem_ \subseteq Recoverable
  <2> SUFFICES ASSUME NEW s \in mem_ PROVE s \in Recoverable
    OBVIOUS
  <2>1. <<logfile_number_, s>> \in wal /\ logfile_number_ >= log_number_
    BY <1>1 DEF LogInv, MemLogged, LogOrder
  <2>2. <<logfile_number_, s>>[1] = logfile_number_ /\ <<logfile_number_, s>>[2] = s
    OBVIOUS
  <2> QED BY <2>1, <2>2
<1>3. imm_ \subseteq Recoverable
  BY DEF LogInv, ImmLogged
<1> QED BY <1>2, <1>3 DEF LogInv, AckedKept, AckedRecoverable, Stored

-----------------------------------------------------------------------------
\* Steps that change neither the logs nor the memtables.
LEMMA LogFrame ==
    ASSUME TypeInv, LogInv, UNCHANGED logStoreVars, last_sequence_' \in Nat,
           last_sequence_' >= last_sequence_,
           \A t \in Threads : pc'[t] \in Recorded => pc[t] \in Recorded /\ group'[t] = group[t],
           bg'.pc \in {"build", "applymem"} => has_imm_,
           bg'.pc = "applymem" => bg'.log = logfile_number_
    PROVE  LogInv'
<1>1. Untorn' /\ LogOrder' /\ MemLogged' /\ ImmLogged'
  BY DEF LogInv, Untorn, LogOrder, MemLogged, ImmLogged, logStoreVars
<1>2. GroupLogged'
  BY DEF LogInv, GroupLogged, logStoreVars, Seqs
<1>3. ImmBusy' /\ EditLog'
  BY DEF ImmBusy, EditLog, logStoreVars
<1>4. 1..last_sequence_ \subseteq 1..last_sequence_'
  BY DEF TypeInv, TypeOK, TypeStore
<1>5. AckedKept'
  BY <1>4 DEF LogInv, AckedKept, Stored, logStoreVars
<1> QED BY <1>1, <1>2, <1>3, <1>5 DEF LogInv

\* The new memtable is empty and the old one's log stays.
LEMMA SwitchMemTableLog ==
    ASSUME TypeInv, QueueInv, StoreInv, LogInv, NEW t \in Threads, SwitchMemTable(t)
    PROVE  LogInv'
<1>1. /\ UNCHANGED <<pc, group, wal, log_number_, flushed, acked, last_sequence_>>
      /\ torn' = FALSE /\ logfile_number_' = logfile_number_ + 1
  BY DEF SwitchMemTable, versionVars, historyVars
<1>2. ~has_imm_ /\ mem_' = {} /\ imm_' = mem_ /\ has_imm_' = TRUE
  BY DEF SwitchMemTable, MustSwitch, MustWait
<1>3. log_number_ \in Nat /\ logfile_number_ \in Nat
  BY DEF TypeInv, TypeOK, TypeStore
<1>4. \A u \in Threads : pc[u] \notin Recorded
  BY LeaderAlone DEF SwitchMemTable, At, Rooming, Leading, Recorded
<1>5. bg.pc \notin {"build", "applymem"} /\ bg \in BgStates
  BY <1>2 DEF LogInv, ImmBusy, TypeInv, TypeOK, TypeBackground
<1>6. bg'.pc \notin {"build", "applymem"}
  BY <1>5 DEF SwitchMemTable, MaybeScheduleCompaction, BgStates
<1>7. Untorn' /\ LogOrder' /\ MemLogged'
  BY <1>1, <1>2, <1>3 DEF LogInv, Untorn, LogOrder, MemLogged
<1>8. ImmLogged'
  <2> SUFFICES ASSUME NEW s \in mem_
               PROVE  \E e \in wal : e[2] = s /\ e[1] >= log_number_
    BY <1>1, <1>2 DEF ImmLogged
  <2>1. <<logfile_number_, s>> \in wal /\ logfile_number_ >= log_number_
    BY <1>3 DEF LogInv, MemLogged, LogOrder
  <2>2. <<logfile_number_, s>>[1] = logfile_number_ /\ <<logfile_number_, s>>[2] = s
    OBVIOUS
  <2> QED BY <2>1, <2>2
<1>9. GroupLogged' /\ ImmBusy' /\ EditLog'
  BY <1>1, <1>4, <1>6 DEF GroupLogged, ImmBusy, EditLog
<1>10. AckedKept'
  BY <1>1, SwitchMemTableStore DEF LogInv, AckedKept
<1> QED BY <1>7, <1>8, <1>9, <1>10 DEF LogInv

\* The record is in the current log.
LEMMA AppendRecordLog ==
    ASSUME TypeInv, QueueInv, LogInv, NEW t \in Threads, AppendRecord(t)
    PROVE  LogInv'
<1>1. /\ UNCHANGED <<group, torn, mem_, imm_, has_imm_, flushed, acked, last_sequence_,
                     log_number_, logfile_number_, bg>>
      /\ wal' = wal \cup ({logfile_number_} \X Seqs(group[t]))
  BY DEF AppendRecord, localVars, memVars, versionVars, historyVars, LogInv, Untorn
<1>2. \A u \in Threads \ {t} : pc'[u] = pc[u] /\ pc[u] \notin Leading
  BY LeaderAlone DEF AppendRecord, At, Leading, TypeInv, TypeOK, TypeClients
<1>3. Untorn' /\ LogOrder' /\ MemLogged' /\ ImmLogged'
  BY <1>1 DEF LogInv, Untorn, LogOrder, MemLogged, ImmLogged
<1>4. GroupLogged'
  <2> SUFFICES ASSUME NEW s \in Seqs(group[t])
               PROVE  <<logfile_number_, s>> \in wal'
    BY <1>1, <1>2 DEF GroupLogged, Recorded, Leading, Seqs
  <2> QED BY <1>1
<1>5. ImmBusy' /\ EditLog' /\ AckedKept'
  BY <1>1 DEF LogInv, ImmBusy, EditLog, AckedKept, Stored
<1> QED BY <1>3, <1>4, <1>5 DEF LogInv

LEMMA InsertEntryLog ==
    ASSUME TypeInv, QueueInv, StoreInv, LogInv, NEW t \in Threads, InsertEntry(t)
    PROVE  LogInv'
<1>1. /\ UNCHANGED <<pc, group, torn, wal, imm_, has_imm_, flushed, acked, last_sequence_,
                     log_number_, logfile_number_, bg>>
      /\ mem_' = mem_ \cup {group[t].first + inserted[t]}
  BY DEF InsertEntry, logVars, versionVars, historyVars
<1>2. pc[t] = "insert" /\ inserted[t] < group[t].count
  BY DEF InsertEntry, At
<1>3. group[t].first \in Nat /\ group[t].count \in Nat /\ inserted[t] \in Nat
  BY DEF TypeInv, TypeOK, TypeGroups
<1>4. group[t].first + inserted[t] \in Seqs(group[t])
  BY <1>2, <1>3 DEF Seqs
<1>5. <<logfile_number_, group[t].first + inserted[t]>> \in wal
  BY <1>2, <1>4 DEF LogInv, GroupLogged, Recorded
<1>6. MemLogged'
  BY <1>1, <1>5 DEF LogInv, MemLogged
<1>7. Untorn' /\ LogOrder' /\ ImmLogged'
  BY <1>1 DEF LogInv, Untorn, LogOrder, ImmLogged
<1>8. GroupLogged' /\ ImmBusy' /\ EditLog'
  BY <1>1 DEF LogInv, GroupLogged, ImmBusy, EditLog, Seqs
<1>9. AckedKept'
  BY <1>1 DEF LogInv, AckedKept, Stored
<1> QED BY <1>6, <1>7, <1>8, <1>9 DEF LogInv

\* What is acknowledged is in the memtable, and last_sequence_ covers it.
LEMMA FinishWriteLog ==
    ASSUME TypeInv, QueueInv, StoreInv, LogInv, NEW t \in Threads,
                   WriteSucceeds(t) \/ WriteFails(t)
    PROVE  LogInv'
<1>1. /\ UNCHANGED <<mem_, imm_, has_imm_, flushed, wal, torn, logfile_number_,
               log_number_, bg>>
      /\ last_sequence_' = last_sequence_ + group[t].count
  BY DEF WriteSucceeds, WriteFails, FinishWrite, UsedSequence, memVars, logVars, versionVars
<1>2. pc[t] \in Leading /\ (LeaveQueue(t, group[t].n, "ok") \/ LeaveQueue(t, group[t].n,
               "error"))
  BY DEF WriteSucceeds, WriteFails, FinishWrite, At, Leading
<1>3. \A u \in Threads : pc'[u] \notin Recorded
  BY <1>2, LeaderAlone DEF LeaveQueue, AfterWrite, Recorded, Leading, TypeInv, TypeOK,
     TypeClients
<1>4. /\ group[t].first = last_sequence_ + 1 /\ group[t].count \in Nat
      /\ last_sequence_ \in Nat /\ inserted[t] \in Nat
  BY <1>2, LeaderKnows
<1>5. /\ 1..last_sequence_ \subseteq 1..last_sequence_'
      /\ Seqs(group[t]) \subseteq 1..last_sequence_'
  BY <1>1, <1>4 DEF Seqs
<1>6. acked' \subseteq Stored /\ acked' \subseteq 1..last_sequence_'
  <2>1. CASE WriteFails(t)
    BY <2>1, <1>5 DEF WriteFails, LogInv, AckedKept
  <2>2. CASE WriteSucceeds(t)
    <3>1. pc[t] = "insert" /\ inserted[t] = group[t].count /\ acked' = acked \cup Seqs(group[t])
      BY <2>2 DEF WriteSucceeds, At
    <3>2. Seqs(group[t]) = Added(t)
      BY <3>1 DEF Added, Seqs
    <3>3. Seqs(group[t]) \subseteq mem_
      BY <3>1, <3>2 DEF StoreInv, InsertedSoFar
    <3> QED BY <3>1, <3>3, <1>5 DEF LogInv, AckedKept, Stored
  <2> QED BY <2>1, <2>2
<1>7. AckedKept'
  BY <1>1, <1>6 DEF AckedKept, Stored
<1>8. Untorn' /\ LogOrder' /\ MemLogged' /\ ImmLogged'
  BY <1>1 DEF LogInv, Untorn, LogOrder, MemLogged, ImmLogged
<1>9. GroupLogged' /\ ImmBusy' /\ EditLog'
  BY <1>1, <1>3 DEF LogInv, GroupLogged, ImmBusy, EditLog
<1> QED BY <1>7, <1>8, <1>9 DEF LogInv

\* The table of imm_ is in the version, and the logs before the current one go.
LEMMA ApplyMemTableLog ==
    ASSUME TypeInv, StoreInv, LogInv, ApplyMemTable
    PROVE  LogInv'
<1>1. /\ UNCHANGED <<pc, group, torn, mem_, acked, last_sequence_, logfile_number_>>
      /\ imm_' = {} /\ has_imm_' = FALSE
  BY DEF ApplyMemTable, clientVars, localVars, historyVars
<1>2. bg.log = logfile_number_ /\ log_number_' = logfile_number_
  BY DEF ApplyMemTable, LogInv, EditLog
<1>3. /\ logfile_number_ \in Nat /\ wal \subseteq Nat \X Nat
  BY DEF TypeInv, TypeOK, TypeStore
<1>4. wal' = LiveLogs(wal, logfile_number_)
  BY <1>2 DEF ApplyMemTable
<1>5. \A s : <<logfile_number_, s>> \in wal => <<logfile_number_, s>> \in wal'
  <2> SUFFICES ASSUME NEW s, <<logfile_number_, s>> \in wal
               PROVE  <<logfile_number_, s>> \in wal'
    OBVIOUS
  <2>1. <<logfile_number_, s>>[1] >= logfile_number_
    BY <1>3
  <2> QED BY <2>1, <1>4 DEF LiveLogs
<1>6. Untorn' /\ LogOrder' /\ ImmLogged'
  BY <1>1, <1>2, <1>3 DEF LogInv, Untorn, LogOrder, ImmLogged
<1>7. MemLogged' /\ GroupLogged'
  BY <1>1, <1>5 DEF LogInv, MemLogged, GroupLogged, Seqs
<1>8. bg'.pc \notin {"build", "applymem"}
  BY EndCallType DEF ApplyMemTable, LeaveMemTable, TypeInv, TypeOK, TypeBackground, BgStates
<1>9. ImmBusy' /\ EditLog'
  BY <1>8 DEF ImmBusy, EditLog
<1>10. AckedKept'
  BY <1>1, ApplyMemTableStore DEF LogInv, AckedKept
<1> QED BY <1>6, <1>7, <1>9, <1>10 DEF LogInv

\* The background thread's other steps: its place and the log number it captured.
LEMMA BackgroundLog ==
    ASSUME TypeInv, StoreInv, LogInv, Background, ~ApplyMemTable
    PROVE  LogInv'
<1>1. UNCHANGED <<pc, localVars, last_sequence_, memVars, logVars, log_number_, flushed,
               acked>>
  BY DEF Background, BackgroundIdle, StartMemTable, ManualNothingLeft, StartManual,
     StartCompaction, StartTrivialMove, CompactImmFirst, TableBuilt, TableFails,
     ApplyMemTableFails, CompactionDone, CompactionFails, ApplyCompaction,
     ApplyCompactionFails, compactionVars, clientVars, versionVars, historyVars
<1>2. UNCHANGED logStoreVars /\ UNCHANGED <<pc, group>>
  BY <1>1 DEF logStoreVars, memVars, logVars, localVars
<1>3. \/ bg'.pc \notin {"build", "applymem"}
      \/ bg'.pc = "build" /\ has_imm_
      \/ bg'.pc = "applymem" /\ has_imm_ /\ bg'.log = logfile_number_
  <2>1. CASE BackgroundIdle \/ ManualNothingLeft
    BY <2>1, EndCallType DEF BackgroundIdle, ManualNothingLeft
  <2>2. CASE StartMemTable \/ CompactImmFirst
    BY <2>2 DEF StartMemTable, CompactImmFirst, TypeInv, TypeOK, TypeBackground, BgStates
  <2>3. CASE StartManual \/ StartCompaction \/ StartTrivialMove \/ CompactionDone
    BY <2>3 DEF StartManual, StartCompaction, StartTrivialMove, CompactionDone, Working,
       TypeInv,
       TypeOK, TypeBackground, BgStates
  <2>4. CASE TableBuilt
    <3>1. has_imm_
      BY <2>4 DEF TableBuilt, LogInv, ImmBusy
    <3>2. bg'.pc = "applymem" /\ bg'.log = logfile_number_
      BY <2>4 DEF TableBuilt, TypeInv, TypeOK, TypeBackground, BgStates
    <3> QED BY <3>1, <3>2
  <2>5. CASE TableFails \/ ApplyMemTableFails
    BY <2>5, EndCallType DEF TableFails, ApplyMemTableFails, LeaveMemTable, TypeInv, TypeOK,
       TypeBackground, BgStates
  <2>6. CASE CompactionFails \/ ApplyCompaction \/ ApplyCompactionFails
    <3>1. LeaveCompaction(TRUE) \/ LeaveCompaction(FALSE)
      BY <2>6 DEF CompactionFails, ApplyCompaction, ApplyCompactionFails
    <3>2. EndCall \/ bg' = [IdleBg EXCEPT !.pc = "crashed"]
      BY <3>1 DEF LeaveCompaction
    <3> QED BY <3>2, EndCallType DEF IdleBg
  <2> QED BY <2>1, <2>2, <2>3, <2>4, <2>5, <2>6 DEF Background
<1>4. last_sequence_' = last_sequence_ /\ last_sequence_ \in Nat
  BY <1>1 DEF TypeInv, TypeOK, TypeStore
<1> QED BY <1>2, <1>3, <1>4, LogFrame

\* Client steps between which the background thread at most gets scheduled.
LEMMA ClientLog ==
    ASSUME TypeInv, QueueInv, StoreInv, LogInv, NEW t \in Threads,
           \/ \E r \in Requests : Write(t, r) \/ CallManual(t, r)
           \/ ReturnDone(t) \/ BecomeLeader(t) \/ FlushCheck(t) \/ ManualReturn(t)
           \/ RoomDelay(t) \/ RoomWait(t) \/ RoomAgain(t) \/ RoomError(t) \/ SwitchFails(t)
           \/ RoomFound(t) \/ GrowGroup(t) \/ CloseGroup(t) \/ SyncLog(t) \/ SyncFails(t)
           \/ ManualWait(t)
    PROVE  LogInv'
<1>1. UNCHANGED logStoreVars /\ UNCHANGED last_sequence_
  BY DEF Write, CallManual, ReturnDone, BecomeLeader, FlushCheck, ManualReturn, RoomDelay,
     RoomWait, RoomAgain, RoomError, SwitchFails, RoomFound, GrowGroup, CloseGroup, SyncLog,
     SyncFails, ManualWait, memVars, logVars, versionVars, historyVars, logStoreVars
<1>2. bg'.pc \in {"off", "scheduled"} \/ (bg'.pc = bg.pc /\ bg'.log = bg.log)
  <2>1. CASE ~ManualWait(t)
    BY <2>1 DEF Write, CallManual, ReturnDone, BecomeLeader, FlushCheck, ManualReturn,
       RoomDelay,
       RoomWait, RoomAgain, RoomError, SwitchFails, RoomFound, GrowGroup, CloseGroup,
                      SyncLog,
       SyncFails, TypeInv, TypeOK, TypeBackground
  <2>2. CASE ManualWait(t)
    BY <2>2 DEF ManualWait, MaybeScheduleCompaction, TypeInv, TypeOK, TypeBackground,
       BgStates, BgPC
  <2> QED BY <2>1, <2>2
<1>3. /\ bg'.pc \in {"build", "applymem"} => has_imm_
      /\ bg'.pc = "applymem" => bg'.log = logfile_number_
  BY <1>2 DEF LogInv, ImmBusy, EditLog
<1>4. \A u \in Threads : pc'[u] \in Recorded => pc[u] \in Recorded /\ group'[u] = group[u]
  <2>1. CASE \E r \in Requests : Write(t, r) \/ CallManual(t, r)
    BY <2>1 DEF Write, CallManual, TypeInv, TypeOK, TypeClients, Recorded, localVars
  <2>2. CASE \/ ReturnDone(t) \/ BecomeLeader(t) \/ FlushCheck(t) \/ ManualReturn(t)
             \/ RoomDelay(t) \/ RoomWait(t) \/ RoomAgain(t) \/ CloseGroup(t) \/ ManualWait(t)
    <3>1. UNCHANGED group
      BY <2>2 DEF ReturnDone, BecomeLeader, FlushCheck, ManualReturn, RoomDelay, RoomWait,
         RoomAgain, CloseGroup, ManualWait, localVars
    <3>2. UNCHANGED pc \/ \E p \in ClientPC \ Recorded : pc' = [pc EXCEPT ![t] = p]
      BY <2>2 DEF ReturnDone, AfterWrite, BecomeLeader, FlushCheck, ManualReturn, RoomDelay,
         RoomWait, RoomAgain, CloseGroup, ManualWait, ClientPC, Recorded
    <3> QED BY <3>1, <3>2 DEF TypeInv, TypeOK, TypeClients
  <2>3. CASE SyncLog(t) \/ SyncFails(t)
    BY <2>3 DEF SyncLog, SyncFails, At, TypeInv, TypeOK, TypeClients, Recorded, localVars
  <2>4. CASE \/ RoomError(t) \/ SwitchFails(t) \/ (RoomFound(t) /\ req[t].kind = "flush")
    <3>1. LeaveQueue(t, 1, "ok") \/ LeaveQueue(t, 1, "error")
      BY <2>4 DEF RoomError, SwitchFails, RoomFound
    <3> QED BY <3>1 DEF LeaveQueue, AfterWrite, TypeInv, TypeOK, TypeClients, TypeGroups,
                   Recorded
  <2>5. CASE RoomFound(t) /\ req[t].kind # "flush"
    BY <2>5 DEF RoomFound, TypeInv, TypeOK, TypeClients, TypeGroups, Recorded
  <2>6. CASE GrowGroup(t)
    BY <2>6 DEF GrowGroup, At, TypeInv, TypeOK, TypeClients, TypeGroups, Recorded
  <2> QED BY <2>1, <2>2, <2>3, <2>4, <2>5, <2>6
<1>5. last_sequence_ \in Nat
  BY DEF TypeInv, TypeOK, TypeStore
<1> QED BY <1>1, <1>3, <1>4, <1>5, LogFrame

LEMMA InitLog == Init => LogInv
<1> SUFFICES ASSUME Init PROVE LogInv
  OBVIOUS
<1>1. mem_ = {} /\ imm_ = {} /\ torn = FALSE /\ log_number_ <= logfile_number_ /\ acked = {}
  BY DEF Init
<1>2. \A t \in Threads : pc[t] \notin Recorded
  BY DEF Init, Recorded
<1>3. bg.pc \notin {"build", "applymem"}
  BY DEF Init, IdleBg
<1> QED BY <1>1, <1>2, <1>3 DEF LogInv, Untorn, LogOrder, MemLogged, ImmLogged, GroupLogged,
           ImmBusy, EditLog, AckedKept

LEMMA NextLog ==
    ASSUME "append" \notin Failures, TypeInv, QueueInv, StoreInv, LogInv, [Next]_vars
    PROVE  LogInv'
<1>1. CASE \E t \in Threads : Client(t)
  <2> PICK t \in Threads : Client(t)
    BY <1>1
  <2>1. ~AppendFails(t)
    BY DEF AppendFails, Fails
  <2>2. CASE \/ SwitchMemTable(t) \/ AppendRecord(t) \/ InsertEntry(t)
             \/ WriteSucceeds(t) \/ WriteFails(t)
    BY <2>2, SwitchMemTableLog, AppendRecordLog, InsertEntryLog, FinishWriteLog
  <2>3. CASE ~(\/ SwitchMemTable(t) \/ AppendRecord(t) \/ InsertEntry(t)
               \/ WriteSucceeds(t) \/ WriteFails(t))
    BY <2>1, <2>3, ClientLog DEF Client, Leader
  <2> QED BY <2>2, <2>3
<1>2. CASE \E t \in Threads, r \in Requests : Write(t, r) \/ CallManual(t, r)
  BY <1>2, ClientLog
<1>3. CASE Background
  BY <1>3, ApplyMemTableLog, BackgroundLog
<1>4. CASE Close \/ CloseAgain \/ Terminated \/ UNCHANGED vars
  <2>1. /\ UNCHANGED <<pc, localVars, memVars, logVars, versionVars, historyVars, bg>>
        /\ UNCHANGED last_sequence_
    BY <1>4 DEF Close, CloseAgain, Terminated, vars
  <2>2. UNCHANGED logStoreVars /\ UNCHANGED <<pc, group, bg>>
    BY <2>1 DEF localVars, memVars, logVars, versionVars, historyVars, logStoreVars
  <2>3. last_sequence_ \in Nat
    BY DEF TypeInv, TypeOK, TypeStore
  <2> QED BY <2>1, <2>2, <2>3, LogFrame DEF LogInv, ImmBusy, EditLog
<1> QED BY <1>1, <1>2, <1>3, <1>4 DEF Next

LEMMA LogInvariant ==
    ASSUME "append" \notin Failures
    PROVE  Spec => [](TypeInv /\ QueueInv /\ StoreInv /\ LogInv)
<1>1. Init => LogInv
  BY InitLog
<1>2. TypeInv /\ QueueInv /\ StoreInv /\ LogInv /\ [Next]_vars => LogInv'
  BY NextLog
<1> QED BY <1>1, <1>2, StoreInvariant, PTL DEF Spec

\* db_impl.cc:553: a write that returned OK is readable, and its entries are in
\* a table of the version or in a log that recovery reads.
THEOREM AckedIsRecoverable ==
    ASSUME "append" \notin Failures
    PROVE  Spec => []AckedRecoverable
<1>1. TypeInv /\ LogInv => AckedRecoverable
  BY LogImpliesRecoverable
<1> QED BY <1>1, LogInvariant, PTL

-----------------------------------------------------------------------------
(***************************************************************************)
(* Sync writes.                                                            *)
(***************************************************************************)
\* No member of a group asks for more than its leader does.
GroupSync ==
    \A t \in Threads : pc[t] \in Leading =>
        \A i \in 1..group[t].n : req[writers_[i]].sync => req[t].sync
GroupSynced ==
    \A t \in Threads : pc[t] = "insert" /\ req[t].sync => Seqs(group[t]) \subseteq synced
AckedSynced == ackedSync \subseteq acked /\ ackedSync \subseteq synced
SyncInv == GroupSync /\ GroupSynced /\ AckedSynced

\* Nothing is acknowledged, and no thread becomes a leader.
LEMMA SyncFrame ==
    ASSUME SyncInv, acked \subseteq acked', synced \subseteq synced', UNCHANGED ackedSync,
           \A t \in Threads : pc'[t] \in Leading =>
               /\ pc[t] \in Leading /\ group'[t] = group[t] /\ req'[t] = req[t]
               /\ \A i \in 1..group[t].n : req'[writers_'[i]] = req[writers_[i]]
               /\ pc'[t] = "insert" => pc[t] = "insert"
    PROVE  SyncInv'
BY DEF SyncInv, GroupSync, GroupSynced, AckedSynced, Seqs, Leading

\* The writers that a leader has taken into its group stay where they are when
\* another thread starts a call.
LEMMA CallSync ==
    ASSUME TypeInv, QueueInv, SyncInv, NEW t \in Threads, NEW r \in Requests,
           Write(t, r) \/ CallManual(t, r)
    PROVE  SyncInv'
<1>1. pc[t] = "idle" /\ UNCHANGED <<acked, ackedSync, synced, group>>
  BY DEF Write, CallManual, At, localVars, logVars, historyVars
<1>2. \A u \in Threads \ {t} : pc'[u] = pc[u] /\ req'[u] = req[u]
  BY DEF Write, CallManual, TypeInv, TypeOK, TypeClients
<1>3. pc'[t] \notin Leading
  BY DEF Write, CallManual, Leading, TypeInv, TypeOK, TypeClients
<1>4. Len(writers_) \in Nat /\ \A i \in 1..Len(writers_) : writers_[i] \in Threads
  BY LenProperties, ElementOfSeq DEF TypeInv, TypeOK, TypeQueue
<1>5. \A i \in 1..Len(writers_) : writers_'[i] = writers_[i]
  BY AppendProperties DEF Write, CallManual, TypeInv, TypeOK, TypeQueue
<1>6. \A i \in 1..Len(writers_) : writers_[i] # t
  BY <1>1 DEF QueueInv, QueueHolds, Queueing, Rooming, Leading
<1>7. ASSUME NEW u \in Threads, pc'[u] \in Leading
      PROVE  /\ pc[u] \in Leading /\ group'[u] = group[u] /\ req'[u] = req[u]
             /\ \A i \in 1..group[u].n : req'[writers_'[i]] = req[writers_[i]]
             /\ pc'[u] = "insert" => pc[u] = "insert"
  <2>1. u # t /\ pc[u] \in Leading
    BY <1>2, <1>3, <1>7
  <2>2. group[u].n \in 1..Len(writers_)
    BY <2>1 DEF QueueInv, GroupQueued
  <2>3. ASSUME NEW i \in 1..group[u].n PROVE req'[writers_'[i]] = req[writers_[i]]
    <3>1. i \in 1..Len(writers_)
      BY <2>2, <1>4
    <3> QED BY <3>1, <1>2, <1>4, <1>5, <1>6
  <2> QED BY <2>1, <2>3, <1>1, <1>2
<1> QED BY <1>1, <1>7, SyncFrame

\* The head of the queue leaves: nobody leads.
LEMMA LeaveSync ==
    ASSUME TypeInv, QueueInv, StoreInv, LogInv, SyncInv, NEW t \in Threads,
           \/ RoomError(t) \/ SwitchFails(t) \/ (RoomFound(t) /\ req[t].kind = "flush")
           \/ WriteSucceeds(t) \/ WriteFails(t)
    PROVE  SyncInv'
<1>1. /\ pc[t] \in Rooming \cup Leading
      /\ \E n \in Nat : LeaveQueue(t, n, "ok") \/ LeaveQueue(t, n, "error")
  BY DEF RoomError, SwitchFails, RoomFound, WriteSucceeds, WriteFails, FinishWrite, At,
     Rooming,
     Leading, TypeInv, TypeOK, TypeGroups
<1>2. \A u \in Threads : pc'[u] \notin Leading
  BY <1>1, LeaderAlone DEF LeaveQueue, AfterWrite, Leading, TypeInv, TypeOK, TypeClients
<1>3. GroupSync' /\ GroupSynced'
  BY <1>2 DEF GroupSync, GroupSynced, Leading
<1>4. CASE ~WriteSucceeds(t)
  <2>1. UNCHANGED <<acked, ackedSync, synced>>
    BY <1>4 DEF RoomError, SwitchFails, RoomFound, WriteFails, FinishWrite, logVars,
       historyVars
  <2> QED BY <1>3, <2>1 DEF SyncInv, AckedSynced
<1>5. CASE WriteSucceeds(t)
  <2>1. pc[t] = "insert" /\ acked' = acked \cup Seqs(group[t]) /\ UNCHANGED synced
    BY <1>5 DEF WriteSucceeds, FinishWrite, At, logVars
  <2>2. CASE \E i \in 1..group[t].n : req[writers_[i]].sync
    <3>1. req[t].sync
      BY <2>1, <2>2 DEF SyncInv, GroupSync, Leading
    <3>2. Seqs(group[t]) \subseteq synced
      BY <2>1, <3>1 DEF SyncInv, GroupSynced
    <3>3. ackedSync' = ackedSync \cup Seqs(group[t])
      BY <1>5, <2>2 DEF WriteSucceeds
    <3> QED BY <1>3, <2>1, <3>2, <3>3 DEF SyncInv, AckedSynced
  <2>3. CASE ~\E i \in 1..group[t].n : req[writers_[i]].sync
    <3>1. UNCHANGED ackedSync
      BY <1>5, <2>3 DEF WriteSucceeds
    <3> QED BY <1>3, <2>1, <3>1 DEF SyncInv, AckedSynced
  <2> QED BY <2>2, <2>3
<1> QED BY <1>4, <1>5

\* A group starts with its leader and takes a writer only if Joins says so.
LEMMA GroupStepSync ==
    ASSUME TypeInv, QueueInv, SyncInv, NEW t \in Threads,
           (RoomFound(t) /\ req[t].kind # "flush") \/ GrowGroup(t)
    PROVE  SyncInv'
<1>1. UNCHANGED <<acked, ackedSync, synced, writers_, req>>
  BY DEF RoomFound, GrowGroup, queueVars, logVars, historyVars
<1>2. pc[t] \in Rooming \cup Leading /\ pc'[t] = "group" /\ \A u \in Threads \ {t} : pc'[u] = pc[u]
  BY DEF RoomFound, GrowGroup, At, Rooming, Leading, TypeInv, TypeOK, TypeClients
<1>3. \A u \in Threads \ {t} : pc'[u] \notin Leading
  BY <1>2, LeaderAlone
<1>4. writers_[1] = t
  BY <1>2, QueueNotEmpty
<1>5. \A i \in 1..group'[t].n : req[writers_[i]].sync => req[t].sync
  <2>1. CASE RoomFound(t) /\ req[t].kind # "flush"
    <3>1. group'[t].n = 1
      BY <2>1 DEF RoomFound, TypeInv, TypeOK, TypeGroups
    <3> QED BY <3>1, <1>4
  <2>2. CASE GrowGroup(t)
    <3>1. group'[t].n = group[t].n + 1 /\ group[t].n \in Nat /\ pc[t] \in Leading
      BY <2>2 DEF GrowGroup, At, Leading, TypeInv, TypeOK, TypeGroups
    <3>2. req[writers_[group[t].n + 1]].sync => req[t].sync
      BY <2>2 DEF GrowGroup, GroupGrows, Joins
    <3>3. \A i \in 1..group[t].n : req[writers_[i]].sync => req[t].sync
      BY <3>1 DEF SyncInv, GroupSync
    <3> QED BY <3>1, <3>2, <3>3
  <2> QED BY <2>1, <2>2
<1>6. GroupSync' /\ GroupSynced'
  BY <1>1, <1>2, <1>3, <1>5 DEF GroupSync, GroupSynced, Leading
<1>7. AckedSynced'
  BY <1>1 DEF SyncInv, AckedSynced
<1> QED BY <1>6, <1>7 DEF SyncInv

\* A sync write inserts only what Sync has put on stable storage.
LEMMA LoggingSync ==
    ASSUME TypeInv, QueueInv, LogInv, SyncInv, NEW t \in Threads,
           AppendRecord(t) \/ SyncLog(t)
    PROVE  SyncInv'
<1>1. UNCHANGED <<acked, ackedSync, group, writers_, req>> /\ synced \subseteq synced'
  BY DEF AppendRecord, SyncLog, queueVars, localVars, historyVars
<1>2. pc[t] \in Leading /\ \A u \in Threads \ {t} : pc'[u] = pc[u]
  BY DEF AppendRecord, SyncLog, At, Leading, TypeInv, TypeOK, TypeClients
<1>3. \A u \in Threads \ {t} : pc'[u] \notin Leading
  BY <1>2, LeaderAlone
<1>4. pc'[t] = "insert" /\ req[t].sync => Seqs(group[t]) \subseteq synced'
  <2>1. CASE AppendRecord(t)
    BY <2>1 DEF AppendRecord, TypeInv, TypeOK, TypeClients
  <2>2. CASE SyncLog(t)
    <3> SUFFICES ASSUME NEW s \in Seqs(group[t]) PROVE s \in synced'
      OBVIOUS
    <3>1. <<logfile_number_, s>> \in wal
      BY <2>2 DEF SyncLog, At, LogInv, GroupLogged, Recorded
    <3>2. <<logfile_number_, s>>[1] = logfile_number_ /\ <<logfile_number_, s>>[2] = s
      OBVIOUS
    <3> QED BY <2>2, <3>1, <3>2 DEF SyncLog
  <2> QED BY <2>1, <2>2
<1>5. GroupSync'
  BY <1>1, <1>2, <1>3 DEF SyncInv, GroupSync
<1>6. GroupSynced'
  BY <1>1, <1>3, <1>4 DEF GroupSynced, Leading, Seqs
<1>7. AckedSynced'
  BY <1>1 DEF SyncInv, AckedSynced
<1> QED BY <1>5, <1>6, <1>7 DEF SyncInv

\* All other steps of a client.
LEMMA OtherSync ==
    ASSUME TypeInv, QueueInv, SyncInv, NEW t \in Threads,
           \/ ReturnDone(t) \/ BecomeLeader(t) \/ FlushCheck(t) \/ ManualReturn(t)
           \/ RoomDelay(t) \/ RoomWait(t) \/ RoomAgain(t) \/ CloseGroup(t) \/ SyncFails(t)
           \/ ManualWait(t) \/ SwitchMemTable(t) \/ InsertEntry(t) \/ AppendFails(t)
    PROVE  SyncInv'
<1>1. UNCHANGED <<acked, ackedSync, synced, group, writers_, req>>
  BY DEF ReturnDone, BecomeLeader, FlushCheck, ManualReturn, RoomDelay, RoomWait, RoomAgain,
     CloseGroup, SyncFails, ManualWait, SwitchMemTable, InsertEntry, AppendFails, queueVars,
     localVars, logVars, historyVars
<1>2. CASE \/ ReturnDone(t) \/ BecomeLeader(t) \/ FlushCheck(t) \/ ManualReturn(t)
           \/ RoomDelay(t) \/ RoomWait(t) \/ RoomAgain(t)
           \/ ManualWait(t) \/ SwitchMemTable(t) \/ InsertEntry(t)
  <2>1. UNCHANGED pc \/ \E p \in ClientPC \ Leading : pc' = [pc EXCEPT ![t] = p]
    BY <1>2 DEF ReturnDone, AfterWrite, BecomeLeader, FlushCheck, ManualReturn, RoomDelay,
       RoomWait, RoomAgain, ManualWait, SwitchMemTable, InsertEntry, ClientPC, Leading
  <2>2. \A u \in Threads : pc'[u] \in Leading => pc'[u] = pc[u]
    BY <2>1 DEF TypeInv, TypeOK, TypeClients
  <2> QED BY <1>1, <2>2, SyncFrame
<1>3. CASE CloseGroup(t) \/ SyncFails(t) \/ AppendFails(t)
  <2>1. /\ pc[t] \in Leading /\ pc'[t] # "insert"
        /\ \A u \in Threads \ {t} : pc'[u] = pc[u]
    BY <1>3 DEF CloseGroup, SyncFails, AppendFails, At, Leading, TypeInv, TypeOK,
       TypeClients
  <2> QED BY <1>1, <2>1, SyncFrame
<1> QED BY <1>2, <1>3

LEMMA NextSync ==
    ASSUME TypeInv, QueueInv, StoreInv, LogInv, SyncInv, [Next]_vars
    PROVE  SyncInv'
<1>1. CASE \E t \in Threads : Client(t)
  <2> PICK t \in Threads : Client(t)
    BY <1>1
  <2>1. CASE \/ RoomError(t) \/ SwitchFails(t) \/ RoomFound(t) \/ GrowGroup(t)
             \/ WriteSucceeds(t) \/ WriteFails(t)
    BY <2>1, LeaveSync, GroupStepSync
  <2>2. CASE AppendRecord(t) \/ SyncLog(t)
    BY <2>2, LoggingSync
  <2>3. CASE ~(\/ RoomError(t) \/ SwitchFails(t) \/ RoomFound(t) \/ GrowGroup(t)
               \/ WriteSucceeds(t) \/ WriteFails(t) \/ AppendRecord(t) \/ SyncLog(t))
    BY <2>3, OtherSync DEF Client, Leader
  <2> QED BY <2>1, <2>2, <2>3
<1>2. CASE \E t \in Threads, r \in Requests : Write(t, r) \/ CallManual(t, r)
  BY <1>2, CallSync
<1>3. CASE Background \/ Close \/ CloseAgain \/ Terminated \/ UNCHANGED vars
  <2>1. UNCHANGED <<pc, req, writers_, localVars, historyVars, synced>>
    <3>1. CASE Background
      BY <3>1 DEF Background, BackgroundIdle, StartMemTable, ManualNothingLeft, StartManual,
         StartCompaction, StartTrivialMove, CompactImmFirst, TableBuilt, TableFails,
         ApplyMemTable, ApplyMemTableFails, CompactionDone, CompactionFails,
                        ApplyCompaction,
         ApplyCompactionFails, compactionVars, clientVars, queueVars, logVars
    <3>2. CASE Close \/ CloseAgain \/ Terminated \/ UNCHANGED vars
      BY <3>2 DEF Close, CloseAgain, Terminated, vars, queueVars, logVars
    <3> QED BY <1>3, <3>1, <3>2
  <2>2. UNCHANGED <<pc, req, writers_, group, acked, ackedSync, synced>>
    BY <2>1 DEF localVars, historyVars
  <2> QED BY <2>2, SyncFrame
<1> QED BY <1>1, <1>2, <1>3 DEF Next

\* options.h:187: what a sync write of a group asked for is in a table or on
\* stable storage in a log that recovery reads, once Write has returned OK.
THEOREM SyncIsDurable ==
    ASSUME "append" \notin Failures
    PROVE  Spec => []SyncDurable
<1>1. Init => SyncInv
  BY DEF Init, SyncInv, GroupSync, GroupSynced, AckedSynced, Leading
<1>2. TypeInv /\ QueueInv /\ StoreInv /\ LogInv /\ SyncInv /\ [Next]_vars => SyncInv'
  BY NextSync
<1>3. TypeInv /\ LogInv /\ SyncInv => SyncDurable
  <2> SUFFICES ASSUME TypeInv, LogInv, SyncInv PROVE SyncDurable
    OBVIOUS
  <2>1. AckedRecoverable
    BY LogImpliesRecoverable
  <2> QED BY <2>1 DEF AckedRecoverable, SyncDurable, SyncInv, AckedSynced
<1> QED BY <1>1, <1>2, <1>3, LogInvariant, PTL DEF Spec
=============================================================================
