------------------------------- MODULE SkipList -------------------------------
(***************************************************************************)
(* db/skiplist.h: one writer at a time inserts, while readers search the   *)
(* list without a lock.                                                    *)
(*                                                                         *)
(* Memory is what the code asks of it with its acquire loads and release   *)
(* stores, and no more.  The stores of the writer form one sequence; a     *)
(* reader is only certain of those in its view.  A load may return what is *)
(* the latest in the view or anything stored since, and an acquire load    *)
(* that returns the value of a release store brings all that the writer    *)
(* had stored before it into the view.  Memory nobody stored to holds      *)
(* garbage.  Readers do not affect each other, so there is one.            *)
(*                                                                         *)
(* A definition that stands right before another one with the same         *)
(* parameters, and is used nowhere, is a faulty variant of it.             *)
(***************************************************************************)
EXTENDS Integers, Sequences, FiniteSets, SequencesExt

CONSTANTS
    Keys,           \* positive numbers
    MaxHeight       \* kMaxHeight

ASSUME SkipListAssumption == Keys \subseteq Nat \ {0} /\ MaxHeight \in Nat \ {0}

VARIABLES
    stores,         \* the stores of the writer, in its order
    inserting,      \* what Insert is about, or NoInsert
    committed,      \* how many stores come before the last unlock of the mutex
    view,           \* the reader sees at least the first "view" stores
    find,           \* the search the reader is in, or NoFind
    node_           \* of the reader's Iterator

listVars == <<stores, inserting, committed>>
iteratorVars == <<view, find, node_>>

\* Nodes are named by their keys.
head_ == 0
NULL == -1
Garbage == -2

\* The fields of a node: next_[0] to next_[MaxHeight - 1], and its key.
Link(node, level) == <<node, level>>
KeyOf(node) == <<node, MaxHeight>>
max_height_ == <<head_, MaxHeight>>

NoInsert == [key |-> 0, height |-> 0, level |-> 0]
NoFind == [op |-> "none", target |-> 0, x |-> head_, level |-> 0]

ListInit ==
    /\ stores = <<>> /\ inserting = NoInsert /\ committed = 0
    /\ view = 0 /\ find = NoFind /\ node_ = NULL

-----------------------------------------------------------------------------
Initially(field) ==
    IF field = max_height_ THEN 1 ELSE IF field[1] = head_ THEN NULL ELSE Garbage

StoresTo(field) == {i \in DOMAIN stores : stores[i].to = field}
LatestOf(field, n) == Max({0} \cup {i \in StoresTo(field) : i <= n})
Stored(field, i) == IF i = 0 THEN Initially(field) ELSE stores[i].value

\* The stores whose value a load may return.
Loadable(field) == {LatestOf(field, view)} \cup {i \in StoresTo(field) : i > view}

\* Acquire_Load of what store i has put there.
Acquire(i) == view' = IF i > view /\ stores[i].release THEN i ELSE view

Current(field) == Stored(field, LatestOf(field, Len(stores)))

NoBarrier_Store(field, value) == [to |-> field, value |-> value, release |-> FALSE]
Release_Store(field, value) == [to |-> field, value |-> value, release |-> TRUE]

-----------------------------------------------------------------------------
(***************************************************************************)
(* Insert.                                                                 *)
(***************************************************************************)
Inserted == {stores[i].to[1] : i \in DOMAIN stores} \ {head_}

\* FindGreaterOrEqual of the writer, which nobody disturbs: the last node before key.
Prev(key, level) ==
    Max({head_} \cup {k \in Inserted : k < key /\ StoresTo(Link(k, level)) # {}})

NewNode(key, height) ==
    /\ inserting = NoInsert /\ key \notin Inserted
    /\ inserting' = [key |-> key, height |-> height, level |-> 0]
    /\ stores' = stores
           \o (IF height > Current(max_height_)
               THEN <<NoBarrier_Store(max_height_, height)>> ELSE <<>>)
           \o <<NoBarrier_Store(KeyOf(key), key)>>
    /\ UNCHANGED <<committed, iteratorVars>>

LinksSwapped(x, prev, level) ==
    <<Release_Store(Link(prev, level), x), NoBarrier_Store(Link(x, level), x)>>
LinksUnordered(x, prev, level) ==
    <<NoBarrier_Store(Link(x, level), Current(Link(prev, level))),
      NoBarrier_Store(Link(prev, level), x)>>
Links(x, prev, level) ==
    <<NoBarrier_Store(Link(x, level), Current(Link(prev, level))),
      Release_Store(Link(prev, level), x)>>

LinkLevel ==
    /\ inserting # NoInsert
    /\ LET x == inserting.key
           l == inserting.level
       IN  stores' = stores \o Links(x, Prev(x, l), l)
    /\ inserting' = IF inserting.level + 1 = inserting.height THEN NoInsert
                    ELSE [inserting EXCEPT !.level = @ + 1]
    /\ UNCHANGED <<committed, iteratorVars>>

-----------------------------------------------------------------------------
(***************************************************************************)
(* The Iterator.  Only the searches take several steps.                    *)
(***************************************************************************)
\* The writer's thread unlocks the mutex, the reader's locks it.
Unlock == committed' = Len(stores)
ViewWithoutLock == view
ViewAfterLock == IF committed > view THEN committed ELSE view

TopLevelOffByOne(height) == height
TopLevel(height) == height - 1

\* GetMaxHeight's value may be stale.
StartFind(op, target) ==
    /\ \E i \in Loadable(max_height_) :
           find' = [op |-> op, target |-> target, x |-> head_,
                    level |-> TopLevel(Stored(max_height_, i))]
    /\ UNCHANGED <<view, node_>>

Goes(next) ==
    /\ next # NULL
    /\ find.op = "FindLast" \/ next < find.target

\* FindGreaterOrEqual returns the next node, FindLessThan and FindLast the node itself.
Found(next) ==
    IF find.op = "FindGreaterOrEqual" THEN next
    ELSE IF find.x = head_ THEN NULL ELSE find.x

\* One iteration of a search.
FindStep ==
    /\ find # NoFind
    /\ \E i \in Loadable(Link(find.x, find.level)) :
           LET next == Stored(Link(find.x, find.level), i)
           IN  /\ Acquire(i)
               /\ \/ /\ Goes(next)
                     /\ find' = [find EXCEPT !.x = next] /\ UNCHANGED node_
                  \/ /\ ~Goes(next) /\ find.level > 0
                     /\ find' = [find EXCEPT !.level = @ - 1] /\ UNCHANGED node_
                  \/ /\ ~Goes(next) /\ find.level = 0
                     /\ find' = NoFind /\ node_' = Found(next)

IterSeek(target) == StartFind("FindGreaterOrEqual", target)
IterPrev == StartFind("FindLessThan", node_)
IterSeekToLast == StartFind("FindLast", 0)

Follow(node) ==
    /\ \E i \in Loadable(Link(node, 0)) :
           node_' = Stored(Link(node, 0), i) /\ Acquire(i)
    /\ UNCHANGED find

IterNext == Follow(node_)
IterSeekToFirst == Follow(head_)

-----------------------------------------------------------------------------
(***************************************************************************)
(* Properties.                                                             *)
(***************************************************************************)
Sees(field) == Stored(field, LatestOf(field, view)) # Garbage

\* A reader that gets hold of a node finds its key and the links it follows there
\* initialised, and never uses a link above the node's height.
ReachesInitialised ==
    /\ \A n \in {node_, find.x} \ {head_, NULL} : Sees(KeyOf(n)) /\ Sees(Link(n, 0))
    /\ find # NoFind => \A l \in 0..find.level : Sees(Link(find.x, l))
=============================================================================
