------------------------------- MODULE LRUCache -------------------------------
(***************************************************************************)
(* One shard of the cache of util/cache.cc: entries that are referenced by *)
(* the cache and by the handles its clients hold.  Every operation runs    *)
(* under the shard's mutex_, so each is one step.                          *)
(*                                                                         *)
(* Handles are pieces of memory: a freed one is handed out again, so what  *)
(* a dangling handle points to may be another entry.  The hash table is    *)
(* the function from keys to entries that it implements, the LRU list a    *)
(* sequence with the oldest entry first, the in-use list a set.            *)
(*                                                                         *)
(* A definition that stands right before another one with the same         *)
(* parameters, and is used nowhere, is a faulty variant of it.             *)
(***************************************************************************)
EXTENDS Integers, Sequences, FiniteSets, SequencesExt

CONSTANTS
    Handles,        \* memory for entries
    Keys,
    None            \* NULL, and the key of a piece of memory that is free

ASSUME NoneAssumption == None \notin Handles /\ None \notin Keys

VARIABLES
    capacity_,
    usage_,
    table_,         \* the hash table: the entry of each key, or None
    lru_,           \* in the cache and held by no client, oldest first
    in_use_,        \* in the cache and held by clients
    entry           \* what is in the memory: an LRUHandle, or Freed

cacheVars == <<capacity_, usage_, table_, lru_, in_use_, entry>>

Freed == [key |-> None, charge |-> 0, refs |-> 0, in_cache |-> FALSE]

CacheInit(capacities) ==
    /\ capacity_ \in capacities
    /\ usage_ = 0
    /\ table_ = [k \in Keys |-> None]
    /\ lru_ = <<>> /\ in_use_ = {}
    /\ entry = [h \in Handles |-> Freed]

ChargeOf(E) == MapThenSumSet(LAMBDA h : entry[h].charge, E)

\* The last reference frees the entry.
Unref(e) == IF e.refs = 1 THEN Freed ELSE [e EXCEPT !.refs = @ - 1]

EraseFrees(e) == Freed
EraseKeepsReference(e) == [e EXCEPT !.in_cache = FALSE]
FinishErase(e) == Unref([e EXCEPT !.in_cache = FALSE])

Erased(E) == [h \in Handles |-> IF h \in E THEN FinishErase(entry[h]) ELSE entry[h]]

Cached(k) == {table_[k]} \ {None}

\* The first reference of a client takes the entry from the LRU list.
Ref(h) ==
    /\ entry' = [entry EXCEPT ![h].refs = @ + 1]
    /\ IF entry[h].refs = 1 /\ entry[h].in_cache
       THEN lru_' = RemoveFirst(lru_, h) /\ in_use_' = in_use_ \cup {h}
       ELSE UNCHANGED <<lru_, in_use_>>
    /\ UNCHANGED <<capacity_, usage_, table_>>

Lookup(k) == \E h \in Cached(k) : Ref(h)

LastReferenceOf(e) == e.refs = 2
LastClientOf(e) == e.in_cache /\ e.refs = 2

\* The last reference of a client makes the entry the newest of the LRU list.
Release(h) ==
    /\ entry' = [entry EXCEPT ![h] = Unref(@)]
    /\ IF LastClientOf(entry[h])
       THEN lru_' = Append(lru_, h) /\ in_use_' = in_use_ \ {h}
       ELSE UNCHANGED <<lru_, in_use_>>
    /\ UNCHANGED <<capacity_, usage_, table_>>

EvictIfFull(usage, list, n) == n = (IF usage > capacity_ /\ list # <<>> THEN 1 ELSE 0)

\* n of the entries of list go: the first n with which usage fits, or all.
Evict(usage, list, n) ==
    LET after(m) == usage - ChargeOf({list[i] : i \in 1..m})
    IN  /\ n \in 0..Len(list)
        /\ n < Len(list) => after(n) <= capacity_
        /\ \A m \in 0..n - 1 : after(m) > capacity_

\* An entry with the same key leaves the cache first.  With capacity_ 0 nothing is cached.
Insert(k, charge, h) ==
    IF capacity_ = 0
    THEN /\ entry' = [entry EXCEPT ![h] =
                [key |-> k, charge |-> charge, refs |-> 1, in_cache |-> FALSE]]
         /\ UNCHANGED <<capacity_, usage_, table_, lru_, in_use_>>
    ELSE LET list  == IF Cached(k) = {} THEN lru_ ELSE RemoveFirst(lru_, table_[k])
             usage == usage_ + charge - ChargeOf(Cached(k))
         IN  \E n \in 0..Len(list) :
                 LET old == {list[i] : i \in 1..n}
                 IN  /\ Evict(usage, list, n)
                     /\ entry' = [Erased(Cached(k) \cup old) EXCEPT ![h] =
                            [key |-> k, charge |-> charge, refs |-> 2, in_cache |-> TRUE]]
                     /\ usage_' = usage - ChargeOf(old)
                     /\ lru_' = SubSeq(list, n + 1, Len(list))
                     /\ in_use_' = (in_use_ \ Cached(k)) \cup {h}
                     /\ table_' = [x \in Keys |->
                            IF x = k THEN h
                            ELSE IF table_[x] \in old THEN None ELSE table_[x]]
                     /\ UNCHANGED capacity_

Erase(k) ==
    /\ entry' = Erased(Cached(k))
    /\ usage_' = usage_ - ChargeOf(Cached(k))
    /\ lru_' = RemoveFirst(lru_, table_[k])
    /\ in_use_' = in_use_ \ Cached(k)
    /\ table_' = [table_ EXCEPT ![k] = None]
    /\ UNCHANGED capacity_

Prune ==
    LET old == {lru_[i] : i \in DOMAIN lru_}
    IN  /\ entry' = Erased(old)
        /\ usage_' = usage_ - ChargeOf(old)
        /\ lru_' = <<>>
        /\ table_' = [k \in Keys |-> IF table_[k] \in old THEN None ELSE table_[k]]
        /\ UNCHANGED <<capacity_, in_use_>>
=============================================================================
