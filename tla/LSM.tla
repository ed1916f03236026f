--------------------------------- MODULE LSM ---------------------------------
(***************************************************************************)
(* Where leveldb keeps the entries of a key, and how it finds them again:  *)
(* memtables, the levels of table files of db/version_set.cc, the choice   *)
(* of a compaction's inputs, and what DoCompactionWork drops.              *)
(*                                                                         *)
(* DBImpl.tla has the threads and the errors.  Here a step is what becomes *)
(* visible at once to a thread that holds DBImpl::mutex_.  The background  *)
(* thread is the only one that changes the version: a memtable compaction  *)
(* is one step, and it may come between the start of a compaction, which   *)
(* settles what the compaction writes, and its installation.               *)
(*                                                                         *)
(* An entry is its sequence number; log gives its key and whether it is a  *)
(* deletion.  Sizes count entries.  A table is not changed once written    *)
(* and holds entries no other table has, so it needs no number; level-0    *)
(* tables are numbered in the order of their memtables.                    *)
(*                                                                         *)
(* A definition that stands right before another one with the same         *)
(* parameters, and is used nowhere, is a faulty variant of it.             *)
(***************************************************************************)
EXTENDS Integers, Sequences, FiniteSets, FiniteSetsExt

CONSTANTS
    Keys,               \* user keys, in their order
    Snapshots,          \* handles that clients may hold on snapshots
    None,               \* no snapshot, no compaction
    NumLevels,          \* config::kNumLevels
    MaxMemCompactLevel, \* config::kMaxMemCompactLevel
    MaxFileSize,        \* options->max_file_size
    GrandparentLimit,   \* MaxGrandParentOverlapBytes
    ExpandedLimit,      \* ExpandedCompactionByteSizeLimit
    MaxWrites,          \* bound: entries written
    Deletions,          \* BOOLEAN values allowed for an entry's deletion mark
    ManualLevels        \* levels for which TEST_CompactRange is called

ASSUME KeysAssumption == Keys \subseteq Nat /\ Keys # {}

ASSUME LevelsAssumption ==
    /\ NumLevels \in Nat /\ MaxMemCompactLevel \in Nat
    /\ MaxMemCompactLevel < NumLevels
    /\ ManualLevels \subseteq 0..NumLevels - 2

ASSUME SizesAssumption ==
    /\ MaxFileSize \in Nat \ {0}
    /\ GrandparentLimit \in Nat /\ ExpandedLimit \in Nat /\ MaxWrites \in Nat

ASSUME DeletionsAssumption == Deletions \subseteq BOOLEAN

VARIABLES
    log,                \* all writes so far: key and deletion mark of each entry
    mem_, imm_,         \* memtables
    has_imm_,           \* imm_ # NULL
    levels,             \* VersionSet::current_: the files of each level
    snapshots_,         \* the sequence number of each snapshot, or None
    c                   \* the compaction under way, or None

vars == <<log, mem_, imm_, has_imm_, levels, snapshots_, c>>

Levels  == 0..NumLevels - 1
Entries == 1..Len(log)      \* LastSequence() = Len(log)

-----------------------------------------------------------------------------
(***************************************************************************)
(* Entries and files.                                                      *)
(***************************************************************************)
UserKey(e)    == log[e].key
IsDeletion(e) == log[e].del

\* InternalKeyComparator: by user key, newer entries first.
Before(e, d) ==
    \/ UserKey(e) < UserKey(d)
    \/ UserKey(e) = UserKey(d) /\ e > d

First(S) == CHOOSE e \in S : \A d \in S : e = d \/ Before(e, d)
Last(S)  == CHOOSE e \in S : \A d \in S : e = d \/ Before(d, e)

\* FileMetaData: smallest and largest are the ends of its range of internal keys.
Table(S) == [entries |-> S, smallest |-> First(S), largest |-> Last(S)]

Lo(f) == UserKey(f.smallest)
Hi(f) == UserKey(f.largest)
Overlaps(f, lo, hi) == Lo(f) <= hi /\ Hi(f) >= lo
Size(files) == Cardinality(UNION {f.entries : f \in files})    \* TotalFileSize

\* NewestFirst, for tables of level 0.
Newer(f, g) == Max(f.entries) > Max(g.entries)

-----------------------------------------------------------------------------
(***************************************************************************)
(* Reads: DBImpl::Get and Version::Get.                                    *)
(***************************************************************************)
Entry(S, k, s) == {e \in S : UserKey(e) = k /\ e <= s}

\* The file of a sorted level that Version::Get looks into: the first one whose
\* largest internal key is not before <<k, s>>, if k is not before its range.
FindFile(l, k, s) ==
    LET after == {f \in levels[l] : k < Hi(f) \/ (k = Hi(f) /\ f.largest <= s)}
    IN  {f \in after : Lo(f) <= k /\ \A g \in after : g = f \/ Before(f.largest, g.largest)}

\* The files that may be read for k, in level l.
Candidates(l, k, s) ==
    IF l = 0 THEN {f \in levels[0] : Overlaps(f, k, k)} ELSE FindFile(l, k, s)

Hits(l, k, s) == {f \in Candidates(l, k, s) : Entry(f.entries, k, s) # {}}

\* The entry that a Get for k at sequence number s returns, in a singleton:
\* newest first in level 0, then level by level.
LookupFiles(k, s) ==
    LET found == {l \in Levels : Hits(l, k, s) # {}}
    IN  IF found = {} THEN {}
        ELSE LET hits == Hits(Min(found), k, s)
                 f == CHOOSE g \in hits : \A h \in hits : h = g \/ Newer(g, h)
             IN  {Max(Entry(f.entries, k, s))}

Lookup(k, s) ==
    IF Entry(mem_, k, s) # {} THEN {Max(Entry(mem_, k, s))}
    ELSE IF Entry(imm_, k, s) # {} THEN {Max(Entry(imm_, k, s))}
    ELSE LookupFiles(k, s)

\* The value a Get returns: the entry's number, or 0 for NotFound.
Get(k, s) == Max({0} \cup {e \in Lookup(k, s) : ~IsDeletion(e)})

\* The value an iterator shows for k: DBIter::FindNextUserEntry takes the newest
\* visible entry of all memtables and tables, wherever it is.
Iterate(k, s) ==
    LET tables  == UNION {f.entries : f \in UNION {levels[l] : l \in Levels}}
        visible == Entry(mem_ \cup imm_ \cup tables, k, s)
    IN  IF visible = {} \/ IsDeletion(Max(visible)) THEN 0 ELSE Max(visible)

-----------------------------------------------------------------------------
(***************************************************************************)
(* The choice of a compaction's inputs.                                    *)
(***************************************************************************)
GetLo(files) == Min({Lo(f) : f \in files})
GetHi(files) == Max({Hi(f) : f \in files})

\* The key ranges that contain lo..hi and every level-0 file that they touch.
\* GetOverlappingInputs restarts with a wider range until it has the least one.
ClosedRanges(lo, hi) ==
    {r \in Keys \X Keys :
        /\ r[1] <= lo /\ hi <= r[2]
        /\ \A f \in levels[0] : Overlaps(f, r[1], r[2]) => r[1] <= Lo(f) /\ Hi(f) <= r[2]}


\* Level-0 files may overlap each other: all that the range leads to are taken.
GetOverlappingInputs(l, lo, hi) ==
    LET begin == IF l = 0 THEN Max({r[1] : r \in ClosedRanges(lo, hi)}) ELSE lo
        end   == IF l = 0 THEN Min({r[2] : r \in ClosedRanges(lo, hi)}) ELSE hi
    IN  {f \in levels[l] : Overlaps(f, begin, end)}

\* SetupOtherInputs: the files of the next level, and more of this one if that
\* takes no more of the next.
SetupOtherInputs(l, in0) ==
    LET in1 == GetOverlappingInputs(l + 1, GetLo(in0), GetHi(in0))
        expanded0 == GetOverlappingInputs(l, GetLo(in0 \cup in1), GetHi(in0 \cup in1))
        expanded1 == GetOverlappingInputs(l + 1, GetLo(expanded0), GetHi(expanded0))
    IN  IF /\ in1 # {}
           /\ Cardinality(expanded0) > Cardinality(in0)
           /\ Size(in1) + Size(expanded0) < ExpandedLimit
           /\ Cardinality(expanded1) = Cardinality(in1)
        THEN [level |-> l, in0 |-> expanded0, in1 |-> expanded1]
        ELSE [level |-> l, in0 |-> in0, in1 |-> in1]

Grandparents(p) ==
    IF p.level + 2 < NumLevels
    THEN GetOverlappingInputs(p.level + 2, GetLo(p.in0 \cup p.in1), GetHi(p.in0 \cup p.in1))
    ELSE {}

\* PickCompaction, on the file f of level l that the sizes of the levels,
\* compact_pointer_ or the seeks of past reads have led to.
PickCompaction(l, f) ==
    SetupOtherInputs(l, IF l = 0 THEN GetOverlappingInputs(0, Lo(f), Hi(f)) ELSE {f})

\* VersionSet::CompactRange: in a sorted level, only the first files of the
\* range, up to MaxFileSize.
CompactRange(l, lo, hi) ==
    LET all == GetOverlappingInputs(l, lo, hi)
        first == {f \in all :
                    Size({g \in all : Before(g.largest, f.largest)}) < MaxFileSize}
    IN  SetupOtherInputs(l, IF l = 0 THEN all ELSE first)

IsTrivialMove(p) ==
    /\ Cardinality(p.in0) = 1 /\ p.in1 = {}
    /\ Size(Grandparents(p)) <= GrandparentLimit

-----------------------------------------------------------------------------
(***************************************************************************)
(* What DoCompactionWork keeps, and how it cuts it into files.             *)
(***************************************************************************)
NewestSequence == Len(log)

\* compact->smallest_snapshot
SmallestSnapshot ==
    LET live == {snapshots_[h] : h \in {g \in Snapshots : snapshots_[g] # None}}
    IN  IF live = {} THEN Len(log) ELSE Min(live)

\* No file of a level below the output level has k in its range.
IsBaseLevelForKey(p, k) ==
    \A l \in p.level + 2..NumLevels - 1 : \A f \in levels[l] : ~Overlaps(f, k, k)

Inputs(p) == UNION {f.entries : f \in p.in0 \cup p.in1}

\* (A) hidden by a newer entry for the same user key, at or below every snapshot
Hidden(p, e) ==
    \E d \in Inputs(p) : UserKey(d) = UserKey(e) /\ d > e /\ d <= SmallestSnapshot

ObsoleteWhenDeleted(p, e) ==
    IsDeletion(e) /\ IsBaseLevelForKey(p, UserKey(e))

\* a deletion that no snapshot and no deeper level needs
Obsolete(p, e) ==
    /\ IsDeletion(e) /\ e <= SmallestSnapshot
    /\ IsBaseLevelForKey(p, UserKey(e))

Kept(p) == {e \in Inputs(p) : ~Hidden(p, e) /\ ~Obsolete(p, e)}

\* ShouldStopBefore(e) may end an output early when the grandparents passed since
\* the first key are more than GrandparentLimit.
MayStopBefore(p, e) ==
    Size({g \in Grandparents(p) :
            /\ Before(g.largest, e)
            /\ \E d \in Inputs(p) : ~Before(g.largest, d)}) > GrandparentLimit

\* The output that starts with entry h, when those in heads start an output.
Output(p, heads, h) ==
    {e \in Kept(p) : /\ e = h \/ Before(h, e)
                     /\ \A g \in heads : Before(h, g) => Before(e, g)}

\* The ways to cut Kept(p): an output ends when it has MaxFileSize entries, before
\* an entry where ShouldStopBefore says so, or at the end.
Cuts(p) ==
    {heads \in SUBSET Kept(p) :
        /\ UNION {Output(p, heads, h) : h \in heads} = Kept(p)
        /\ \A h \in heads :
            LET n    == Cardinality(Output(p, heads, h))
                next == {g \in heads : Before(h, g)}
            IN  \/ n = MaxFileSize
                \/ n < MaxFileSize /\ next = {}
                \/ n < MaxFileSize /\ \E g \in next :
                      /\ \A x \in next : x = g \/ Before(g, x)
                      /\ MayStopBefore(p, g)}

-----------------------------------------------------------------------------
Init ==
    /\ log = <<>>
    /\ mem_ = {} /\ imm_ = {} /\ has_imm_ = FALSE
    /\ levels = [l \in Levels |-> {}]
    /\ snapshots_ = [h \in Snapshots |-> None]
    /\ c = None

(***************************************************************************)
(* Clients.                                                                *)
(***************************************************************************)
WriteAtLastSequence(k, d) ==
    /\ Len(log) < MaxWrites
    /\ log' = Append(log, [key |-> k, del |-> d])
    /\ mem_' = mem_ \cup {Len(log)}
    /\ UNCHANGED <<imm_, has_imm_, levels, snapshots_, c>>

\* A Put or a Delete that has found room in mem_.
Write(k, d) ==
    /\ Len(log) < MaxWrites
    /\ log' = Append(log, [key |-> k, del |-> d])
    /\ mem_' = mem_ \cup {Len(log) + 1}
    /\ UNCHANGED <<imm_, has_imm_, levels, snapshots_, c>>

\* MakeRoomForWrite switches memtables when imm_ is free.
SwitchMemTable ==
    /\ ~has_imm_
    /\ imm_' = mem_ /\ has_imm_' = TRUE /\ mem_' = {}
    /\ UNCHANGED <<log, levels, snapshots_, c>>

GetSnapshot(h) ==
    /\ snapshots_[h] = None
    /\ snapshots_' = [snapshots_ EXCEPT ![h] = Len(log)]
    /\ UNCHANGED <<log, mem_, imm_, has_imm_, levels, c>>

ReleaseSnapshot(h) ==
    /\ snapshots_[h] # None
    /\ snapshots_' = [snapshots_ EXCEPT ![h] = None]
    /\ UNCHANGED <<log, mem_, imm_, has_imm_, levels, c>>

-----------------------------------------------------------------------------
(***************************************************************************)
(* The background thread.                                                  *)
(***************************************************************************)
\* PickLevelForMemTableOutput
OverlapInLevel(l, lo, hi) == \E f \in levels[l] : Overlaps(f, lo, hi)

PickLevelUnchecked(lo, hi) == MaxMemCompactLevel
PickLevelForMemTableOutput(lo, hi) ==
    IF OverlapInLevel(0, lo, hi) THEN 0
    ELSE LET mayPass(l) ==
                 /\ ~OverlapInLevel(l, lo, hi)
                 /\ l + 1 < NumLevels => Size(GetOverlappingInputs(l + 1, lo, hi)) <= GrandparentLimit
         IN  Max({l \in 0..MaxMemCompactLevel : \A i \in 1..l : mayPass(i)})

\* CompactMemTable, from BackgroundCompaction or from within DoCompactionWork:
\* imm_ becomes a table, if it has entries, in level 0 or deeper.
CompactMemTable ==
    /\ has_imm_
    /\ imm_' = {} /\ has_imm_' = FALSE
    /\ IF imm_ = {} THEN UNCHANGED levels
       ELSE LET f == Table(imm_)
            IN  levels' = [levels EXCEPT ![PickLevelForMemTableOutput(Lo(f), Hi(f))] = @ \cup {f}]
    /\ UNCHANGED <<log, mem_, snapshots_, c>>

\* A file moves to the next level without being read.
TrivialMove(p) ==
    /\ levels' = [levels EXCEPT ![p.level] = @ \ p.in0, ![p.level + 1] = @ \cup p.in0]
    /\ UNCHANGED <<log, mem_, imm_, has_imm_, snapshots_, c>>

\* DoCompactionWork starts: what it will write is settled by its inputs, by the
\* version and by the oldest snapshot at this time.
StartWork(p) ==
    /\ \E heads \in Cuts(p) :
          c' = [level |-> p.level, in0 |-> p.in0, in1 |-> p.in1,
                outputs |-> {Table(Output(p, heads, h)) : h \in heads}]
    /\ UNCHANGED <<log, mem_, imm_, has_imm_, levels, snapshots_>>

MayStart == c = None /\ ~has_imm_

\* Sizes, compact_pointer_ and seeks may choose any file of any level but the last.
AutoCompaction ==
    /\ MayStart
    /\ \E l \in 0..NumLevels - 2 : \E f \in levels[l] :
          LET p == PickCompaction(l, f)
          IN  IF IsTrivialMove(p) THEN TrivialMove(p) ELSE StartWork(p)

\* TEST_CompactRange, or the rest of its range after an earlier compaction.
ManualCompaction ==
    /\ MayStart
    /\ \E l \in ManualLevels, lo, hi \in Keys :
          /\ lo <= hi /\ GetOverlappingInputs(l, lo, hi) # {}
          /\ StartWork(CompactRange(l, lo, hi))

\* The inputs leave the version that is current by now, the outputs enter it.
InstallCompactionResults ==
    /\ c # None
    /\ levels' = [levels EXCEPT ![c.level] = @ \ c.in0,
                                ![c.level + 1] = (@ \ c.in1) \cup c.outputs]
    /\ c' = None
    /\ UNCHANGED <<log, mem_, imm_, has_imm_, snapshots_>>

-----------------------------------------------------------------------------
Client ==
    \/ \E k \in Keys, d \in Deletions : Write(k, d)
    \/ SwitchMemTable
    \/ \E h \in Snapshots : GetSnapshot(h) \/ ReleaseSnapshot(h)

Background ==
    CompactMemTable \/ AutoCompaction \/ ManualCompaction \/ InstallCompactionResults

Next == Client \/ Background

Spec == Init /\ [][Next]_vars

-----------------------------------------------------------------------------
(***************************************************************************)
(* Properties.                                                             *)
(***************************************************************************)
\* Memtables and tables hold written entries; no table is empty, and smallest and
\* largest are the ends of what it holds.
TypeOK ==
    /\ log \in Seq([key : Keys, del : BOOLEAN])
    /\ mem_ \subseteq Entries /\ imm_ \subseteq Entries /\ has_imm_ \in BOOLEAN
    /\ \A l \in Levels : \A f \in levels[l] :
          f.entries \subseteq Entries /\ f.entries # {} /\ f = Table(f.entries)
    /\ snapshots_ \in [Snapshots -> Nat \cup {None}]

\* "Must not overlap" (version_set.cc:765): the files of a level other than 0 are
\* disjoint ranges of internal keys.
NoOverlap ==
    \A l \in Levels \ {0} : \A f, g \in levels[l] :
        f # g => Before(f.largest, g.smallest) \/ Before(g.largest, f.smallest)

\* "We can search level-by-level since entries never hop across levels.
\* Therefore we are guaranteed that if we find data in an smaller level, later
\* levels are irrelevant." (version_set.cc:346): of the entries of a key, the newer
\* one is never in a deeper level, nor in an older file of level 0.
NewerAbove ==
    \A l, m \in Levels : \A f \in levels[l], g \in levels[m] :
        l < m \/ (l = 0 /\ m = 0 /\ Newer(f, g)) =>
            \A e \in f.entries, d \in g.entries : UserKey(e) = UserKey(d) => e > d

\* What the writes so far say of k at sequence number s.
Written(k, s) ==
    LET w == {e \in 1..s : UserKey(e) = k}
    IN  IF w = {} \/ IsDeletion(Max(w)) THEN 0 ELSE Max(w)

LiveSequences ==
    {Len(log)} \cup {snapshots_[h] : h \in {g \in Snapshots : snapshots_[g] # None}}

\* Whatever has been flushed, compacted and dropped, a Get and an iterator both
\* return what was written last, now and at every snapshot (db.h: GetSnapshot
\* gives "a stable snapshot of the current DB state").
ReadsRight ==
    \A k \in Keys, s \in LiveSequences :
        Get(k, s) = Written(k, s) /\ Iterate(k, s) = Written(k, s)

\* The store implements a map with snapshots.
KV == INSTANCE KVStore WITH
    store  <- [k \in Keys |-> Get(k, Len(log))],
    writes <- Len(log),
    copies <- [h \in Snapshots |->
                  IF snapshots_[h] = None THEN None
                  ELSE [k \in Keys |-> Get(k, snapshots_[h])]]

ReadsLikeAMap == KV!Spec
=============================================================================
