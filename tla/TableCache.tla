------------------------------ MODULE TableCache ------------------------------
(***************************************************************************)
(* The readers of tables and their cache.  A reader (a Get, an iterator, a *)
(* compaction) takes a reference to the current Version, which keeps its   *)
(* files from being deleted, and asks the table cache for the tables it    *)
(* reads: FindTable looks a table up and, if it is not there, opens the    *)
(* file with no lock held, so others may open the same one.  Compactions   *)
(* take files from the current Version; DeleteObsoleteFiles evicts and     *)
(* deletes those no Version holds.                                         *)
(*                                                                         *)
(* Table::BlockReader does with the block cache what FindTable does with   *)
(* the table cache; nothing is evicted from the block cache, but its owner *)
(* may prune it.  "caches" says which one the shard belongs to.            *)
(***************************************************************************)
EXTENDS LRUCache

CONSTANTS
    Readers,
    Charges,        \* a function from Keys: the sizes of blocks
    TableCapacities, BlockCapacities

ASSUME ReadersAssumption == IsFiniteSet(Readers)
ASSUME ChargesAssumption == Charges \in [Keys -> Nat \ {0}]
ASSUME CapacitiesAssumption ==
    TableCapacities \subseteq Nat \ {0} /\ BlockCapacities \subseteq Nat

VARIABLES
    caches,         \* "tables" or "blocks"
    current,        \* the files of the current Version
    files,          \* the files on disk
    version,        \* the files of the Version each reader has a reference to
    wanted,         \* the key of the file or block the reader is opening or using, or None
    held            \* the handle of each reader, or None

dbVars == <<caches, current, files, version, wanted, held>>
vars == <<cacheVars, dbVars>>

Charge(k) == IF caches = "tables" THEN 1 ELSE Charges[k]

Init ==
    /\ caches \in {"tables", "blocks"}
    /\ CacheInit(IF caches = "tables" THEN TableCapacities ELSE BlockCapacities)
    /\ current = Keys /\ files = Keys
    /\ version = [r \in Readers |-> {}]
    /\ wanted = [r \in Readers |-> None]
    /\ held = [r \in Readers |-> None]

\* Version::Ref, under DBImpl's mutex_.
StartReading(r) ==
    /\ version[r] = {} /\ current # {}
    /\ version' = [version EXCEPT ![r] = current]
    /\ UNCHANGED <<cacheVars, caches, current, files, wanted, held>>

UnrefEarly(r) == TRUE
MayUnref(r) == wanted[r] = None

\* Version::Unref: after the iterators over its tables have released them.
StopReading(r) ==
    /\ version[r] # {} /\ MayUnref(r)
    /\ version' = [version EXCEPT ![r] = {}]
    /\ UNCHANGED <<cacheVars, caches, current, files, wanted, held>>

\* FindTable, or BlockReader: in the cache.
Find(r, k) ==
    /\ k \in version[r] /\ wanted[r] = None
    /\ Lookup(k)
    /\ wanted' = [wanted EXCEPT ![r] = k]
    /\ held' = [held EXCEPT ![r] = table_[k]]
    /\ UNCHANGED <<caches, current, files, version>>

\* Not in the cache: it is opened now.
Miss(r, k) ==
    /\ k \in version[r] /\ wanted[r] = None
    /\ Cached(k) = {}
    /\ wanted' = [wanted EXCEPT ![r] = k]
    /\ UNCHANGED <<cacheVars, caches, current, files, version, held>>

Opening(r) == wanted[r] # None /\ held[r] = None

Open(r, h) ==
    /\ Opening(r) /\ wanted[r] \in files
    /\ entry[h] = Freed
    /\ Insert(wanted[r], Charge(wanted[r]), h)
    /\ held' = [held EXCEPT ![r] = h]
    /\ UNCHANGED <<caches, current, files, version, wanted>>

\* An error is not cached.  (A block read with fill_cache false is not cached either.)
OpenFails(r) ==
    /\ Opening(r)
    /\ wanted' = [wanted EXCEPT ![r] = None]
    /\ UNCHANGED <<cacheVars, caches, current, files, version, held>>

ReleaseHandle(r) ==
    /\ held[r] # None
    /\ Release(held[r])
    /\ held' = [held EXCEPT ![r] = None]
    /\ wanted' = [wanted EXCEPT ![r] = None]
    /\ UNCHANGED <<caches, current, files, version>>

\* A compaction installs a Version without the file.
RemoveFile(k) ==
    /\ caches = "tables" /\ k \in current
    /\ current' = current \ {k}
    /\ UNCHANGED <<cacheVars, caches, files, version, wanted, held>>

Live == current \cup UNION {version[r] : r \in Readers}

DeleteObsoleteFile(k) ==
    /\ caches = "tables" /\ k \in files \ Live
    /\ Erase(k)
    /\ files' = files \ {k}
    /\ UNCHANGED <<caches, current, version, wanted, held>>

PruneBlocks ==
    /\ caches = "blocks" /\ lru_ # <<>>
    /\ Prune
    /\ UNCHANGED dbVars

Next ==
    \/ \E r \in Readers :
           \/ StartReading(r) \/ StopReading(r) \/ OpenFails(r) \/ ReleaseHandle(r)
           \/ \E k \in Keys : Find(r, k) \/ Miss(r, k)
           \/ \E h \in Handles : Open(r, h)
    \/ \E k \in Keys : RemoveFile(k) \/ DeleteObsoleteFile(k)
    \/ PruneBlocks

Spec == Init /\ [][Next]_vars

-----------------------------------------------------------------------------
(***************************************************************************)
(* Properties.                                                             *)
(***************************************************************************)
EntryType ==
    [key : Keys \cup {None}, charge : Nat, refs : Nat, in_cache : BOOLEAN]

\* Every field has its type; no count is negative.
TypeOK ==
    /\ capacity_ \in Nat /\ usage_ \in Nat
    /\ table_ \in [Keys -> Handles \cup {None}]
    /\ lru_ \in Seq(Handles) /\ in_use_ \subseteq Handles
    /\ entry \in [Handles -> EntryType]
    /\ caches \in {"tables", "blocks"} /\ current \subseteq Keys /\ files \subseteq Keys
    /\ version \in [Readers -> SUBSET Keys]
    /\ wanted \in [Readers -> Keys \cup {None}]
    /\ held \in [Readers -> Handles \cup {None}]

HoldersOf(h) == {r \in Readers : held[r] = h}

\* refs counts the handles of clients and the cache's own reference, so an entry is
\* freed at the last Release of one that was erased, evicted or replaced, not before
\* and not later.
ReferencesCounted ==
    \A h \in Handles :
        /\ entry[h].refs = Cardinality(HoldersOf(h)) + (IF entry[h].in_cache THEN 1 ELSE 0)
        /\ entry[h].refs = 0 => entry[h] = Freed

\* The handle of a reader refers to the table it asked for, whatever others have
\* inserted, evicted or deleted since.
HandlesAlive ==
    \A r \in Readers : held[r] # None => entry[held[r]].key = wanted[r]

InLRU == {lru_[i] : i \in DOMAIN lru_}

\* The cached entries are those of the table, each in the one list it belongs to, and
\* usage_ is what they are charged.
ListsAgree ==
    LET cached == {h \in Handles : entry[h].in_cache}
    IN  /\ cached = {table_[k] : k \in Keys} \ {None}
        /\ \A k \in Keys : table_[k] # None => entry[table_[k]].key = k
        /\ InLRU = {h \in cached : entry[h].refs = 1} /\ in_use_ = cached \ InLRU
        /\ \A i, j \in DOMAIN lru_ : i # j => lru_[i] # lru_[j]
        /\ usage_ = ChargeOf(cached)

\* Whenever the cache grows it is then within its capacity, or clients hold all of it.
GrowsWithinCapacity ==
    [][usage_' > usage_ =>
           \/ usage_' <= capacity_
           \/ \A h \in Handles : entry'[h].in_cache => \E r \in Readers : held'[r] = h]_vars

\* The files of every Version that a reader holds are on disk.
ReadersHaveTheirFiles == \A r \in Readers : version[r] \subseteq files

\* A deleted table file has been closed: no entry for it is left, cached or held, and
\* none is inserted later.
DeletedFilesAreClosed ==
    caches = "tables" => \A h \in Handles : entry[h].key \notin Keys \ files
=============================================================================
