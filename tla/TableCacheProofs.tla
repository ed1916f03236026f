--------------------------- MODULE TableCacheProofs ---------------------------
(***************************************************************************)
(* Theorems about TableCache, for every number of readers, of handles, of  *)
(* files and blocks, and every capacity.                                   *)
(***************************************************************************)
EXTENDS TableCache, FiniteOrders, SequenceTheorems

-----------------------------------------------------------------------------
(***************************************************************************)
(* The LRU list.                                                           *)
(***************************************************************************)
Distinct(s) == \A i, j \in DOMAIN s : i # j => s[i] # s[j]

\* The elements of a list from position n + 1 on.
LEMMA Suffix ==
    ASSUME NEW S, NEW s \in Seq(S), NEW n \in 0..Len(s)
    PROVE  LET t == SubSeq(s, n + 1, Len(s))
           IN  /\ t \in Seq(S) /\ Len(t) = Len(s) - n
               /\ \A i \in 1..Len(s) - n : t[i] = s[n + i]
<1> DEFINE t == SubSeq(s, n + 1, Len(s))
<1>1. Len(s) \in Nat /\ n \in Nat /\ n <= Len(s)
  BY LenProperties
<1>2. \A i \in n + 1..Len(s) : s[i] \in S
  BY <1>1
<1>3. n + 1 \in Int /\ Len(s) \in Int
  BY <1>1
<1>4. /\ t \in Seq(S) /\ Len(t) = IF n + 1 <= Len(s) THEN Len(s) - (n + 1) + 1 ELSE 0
      /\ \A i \in 1..Len(s) - (n + 1) + 1 : t[i] = s[n + 1 + i - 1]
  BY <1>2, <1>3, SubSeqProperties
<1> HIDE DEF t
<1>5. Len(t) = Len(s) - n
  <2>1. CASE n < Len(s)
    <3>1. Len(t) = Len(s) - (n + 1) + 1
      BY <1>1, <1>4, <2>1
    <3> QED BY <1>1, <3>1
  <2>2. CASE n = Len(s)
    <3>1. Len(t) = 0
      BY <1>1, <1>4, <2>2
    <3> QED BY <1>1, <2>2, <3>1
  <2> QED BY <1>1, <2>1, <2>2
<1>6. ASSUME NEW i \in 1..Len(s) - n
      PROVE  t[i] = s[n + i]
  <2>1. i \in 1..Len(s) - (n + 1) + 1 /\ n + 1 + i - 1 = n + i
    BY <1>1
  <2> QED BY <1>4, <2>1
<1> QED BY <1>4, <1>5, <1>6 DEF t

\* RemoveFirst takes an element out of a list without duplicates and keeps the others.
LEMMA RemoveFirstKeeps ==
    ASSUME NEW S, NEW s \in Seq(S), NEW e, Distinct(s)
    PROVE  LET t == RemoveFirst(s, e)
           IN  /\ t \in Seq(S) /\ Distinct(t)
               /\ \A i \in DOMAIN t : \E j \in DOMAIN s : s[j] = t[i] /\ s[j] # e
               /\ \A j \in DOMAIN s : s[j] # e => \E i \in DOMAIN t : t[i] = s[j]
<1>1. CASE ~\E i \in 1..Len(s) : s[i] = e
  BY <1>1, LenProperties DEF RemoveFirst
<1>2. CASE \E i \in 1..Len(s) : s[i] = e
  <2>1. PICK p \in 1..Len(s) : s[p] = e
    BY <1>2
  <2>2. {i \in 1..Len(s) : s[i] = e} = {p}
    BY <2>1, LenProperties DEF Distinct
  <2>3. SelectInSeq(s, LAMBDA v : v = e) = p
    BY <2>2 DEF SelectInSeq, Min
  <2>4. RemoveFirst(s, e) = SubSeq(s, 1, p - 1) \o SubSeq(s, p + 1, Len(s))
    BY <1>2, <2>3 DEF RemoveFirst, RemoveAt
  <2> DEFINE a == SubSeq(s, 1, p - 1)
             b == SubSeq(s, p + 1, Len(s))
  <2>5. Len(s) \in Nat /\ DOMAIN s = 1..Len(s)
    BY LenProperties
  <2>6. /\ a \in Seq(S) /\ Len(a) = p - 1
        /\ \A i \in 1..p - 1 : a[i] = s[i]
    <3>1. \A i \in 1..p - 1 : s[i] \in S
      BY <2>1, <2>5
    <3> QED BY <3>1, <2>1, <2>5, SubSeqProperties
  <2>7. /\ b \in Seq(S) /\ Len(b) = Len(s) - p
        /\ \A i \in 1..Len(s) - p : b[i] = s[p + i]
    <3>1. p \in 0..Len(s)
      BY <2>1, <2>5
    <3> QED BY <3>1, Suffix
  <2>8. /\ a \o b \in Seq(S) /\ Len(a \o b) = Len(s) - 1
        /\ \A i \in 1..Len(s) - 1 :
               (a \o b)[i] = IF i < p THEN s[i] ELSE s[i + 1]
    <3> HIDE DEF a, b
    <3>1. /\ a \o b \in Seq(S) /\ Len(a \o b) = Len(a) + Len(b)
          /\ \A i \in 1..Len(a) + Len(b) :
                 (a \o b)[i] = IF i <= Len(a) THEN a[i] ELSE b[i - Len(a)]
      BY <2>6, <2>7, ConcatProperties
    <3> DEFINE c == a \o b
    <3> HIDE DEF c
    <3>2. c \in Seq(S) /\ Len(c) = Len(s) - 1
      BY <3>1, <2>1, <2>5, <2>6, <2>7 DEF c
    <3>3. ASSUME NEW i \in 1..Len(s) - 1, i < p
          PROVE  c[i] = s[i]
      BY <3>1, <3>3, <2>1, <2>5, <2>6, <2>7 DEF c
    <3>4. ASSUME NEW i \in 1..Len(s) - 1, ~(i < p)
          PROVE  c[i] = s[i + 1]
      <4>1. i - (p - 1) \in 1..Len(s) - p /\ p + (i - (p - 1)) = i + 1
        BY <3>4, <2>1, <2>5
      <4>2. c[i] = b[i - (p - 1)]
        BY <3>1, <3>4, <2>1, <2>5, <2>6, <2>7 DEF c
      <4> QED BY <4>1, <4>2, <2>7
    <3> QED BY <3>2, <3>3, <3>4 DEF c
  <2> DEFINE t == a \o b
  <2>9. t \in Seq(S) /\ DOMAIN t = 1..Len(s) - 1
    BY <2>8, LenProperties
  <2>10. Distinct(t)
    <3> HIDE DEF a, b, t
    <3>1. \A i \in DOMAIN t : t[i] = IF i < p THEN s[i] ELSE s[i + 1]
      BY <2>8, <2>9 DEF t
    <3>2. \A i \in DOMAIN t : \E x \in DOMAIN s :
              t[i] = s[x] /\ x = IF i < p THEN i ELSE i + 1
      BY <3>1, <2>1, <2>5, <2>9
    <3> SUFFICES ASSUME NEW i \in DOMAIN t, NEW j \in DOMAIN t, t[i] = t[j]
                 PROVE  i = j
      BY DEF Distinct
    <3>3. PICK x \in DOMAIN s : t[i] = s[x] /\ x = IF i < p THEN i ELSE i + 1
      BY <3>2
    <3>4. PICK y \in DOMAIN s : t[j] = s[y] /\ y = IF j < p THEN j ELSE j + 1
      BY <3>2
    <3>5. x = y
      BY <3>3, <3>4 DEF Distinct
    <3>6. i \in Nat /\ j \in Nat /\ p \in Nat
      BY <2>1, <2>5, <2>9
    <3> QED BY <3>3, <3>4, <3>5, <3>6
  <2>11. \A i \in DOMAIN t : \E j \in DOMAIN s : s[j] = t[i] /\ s[j] # e
    <3> SUFFICES ASSUME NEW i \in DOMAIN t
                 PROVE  \E j \in DOMAIN s : s[j] = t[i] /\ s[j] # e
      OBVIOUS
    <3> HIDE DEF a, b, t
    <3>1. t[i] = IF i < p THEN s[i] ELSE s[i + 1]
      BY <2>8, <2>9 DEF t
    <3>2. i \in 1..Len(s) - 1
      BY <2>9
    <3>3. CASE i < p
      BY <3>1, <3>2, <3>3, <2>1, <2>5 DEF Distinct
    <3>4. CASE ~(i < p)
      <4>1. i + 1 \in DOMAIN s /\ i + 1 # p
        BY <3>2, <3>4, <2>1, <2>5
      <4> QED BY <4>1, <3>1, <3>4, <2>1, <2>5 DEF Distinct
    <3> QED BY <3>3, <3>4
  <2>12. \A j \in DOMAIN s : s[j] # e => \E i \in DOMAIN t : t[i] = s[j]
    <3> SUFFICES ASSUME NEW j \in DOMAIN s, j # p
                 PROVE  \E i \in DOMAIN t : t[i] = s[j]
      BY <2>1
    <3> HIDE DEF a, b, t
    <3>1. \A i \in 1..Len(s) - 1 : i \in DOMAIN t /\ t[i] = IF i < p THEN s[i] ELSE s[i + 1]
      BY <2>8, <2>9 DEF t
    <3>2. CASE j < p
      <4>1. j \in 1..Len(s) - 1
        BY <3>2, <2>1, <2>5
      <4> QED BY <3>1, <3>2, <4>1
    <3>3. CASE ~(j < p)
      <4>1. j - 1 \in 1..Len(s) - 1 /\ ~(j - 1 < p) /\ (j - 1) + 1 = j
        BY <3>3, <2>1, <2>5
      <4> QED BY <3>1, <4>1
    <3> QED BY <3>2, <3>3
  <2> QED BY <2>4, <2>9, <2>10, <2>11, <2>12
<1> QED BY <1>1, <1>2

\* What Evict leaves of a list without duplicates.
LEMMA TailKeeps ==
    ASSUME NEW S, NEW s \in Seq(S), Distinct(s), NEW n \in 0..Len(s)
    PROVE  LET t == SubSeq(s, n + 1, Len(s))
           IN  /\ t \in Seq(S) /\ Distinct(t)
               /\ \A i \in DOMAIN t : \E j \in DOMAIN s :
                      s[j] = t[i] /\ \A m \in 1..n : s[m] # t[i]
<1> DEFINE t == SubSeq(s, n + 1, Len(s))
<1>1. Len(s) \in Nat /\ DOMAIN s = 1..Len(s)
  BY LenProperties
<1>2. /\ t \in Seq(S) /\ Len(t) = Len(s) - n
      /\ \A i \in 1..Len(s) - n : t[i] = s[n + i]
  BY Suffix
<1> HIDE DEF t
<1>3. DOMAIN t = 1..Len(s) - n
  BY <1>2, LenProperties
<1>4. ASSUME NEW i \in DOMAIN t, NEW j \in DOMAIN t, i # j
      PROVE  t[i] # t[j]
  <2>1. n + i \in DOMAIN s /\ n + j \in DOMAIN s /\ n + i # n + j
    BY <1>1, <1>3, <1>4
  <2> QED BY <1>2, <1>3, <2>1 DEF Distinct
<1>5. ASSUME NEW i \in DOMAIN t
      PROVE  \E j \in DOMAIN s : s[j] = t[i] /\ \A m \in 1..n : s[m] # t[i]
  <2>1. n + i \in DOMAIN s /\ s[n + i] = t[i]
    BY <1>1, <1>2, <1>3
  <2>2. \A m \in 1..n : m \in DOMAIN s /\ m # n + i
    BY <1>1, <1>3
  <2> QED BY <2>1, <2>2 DEF Distinct
<1> QED BY <1>2, <1>4, <1>5 DEF t, Distinct

LEMMA TailHas ==
    ASSUME NEW S, NEW s \in Seq(S), NEW n \in 0..Len(s), NEW j \in DOMAIN s,
           \A m \in 1..n : s[m] # s[j]
    PROVE  LET t == SubSeq(s, n + 1, Len(s)) IN \E i \in DOMAIN t : t[i] = s[j]
<1> DEFINE t == SubSeq(s, n + 1, Len(s))
<1>1. Len(s) \in Nat /\ j \in 1..Len(s) /\ n \in Nat /\ n <= Len(s)
  BY LenProperties
<1>2. t \in Seq(S) /\ Len(t) = Len(s) - n /\ \A i \in 1..Len(s) - n : t[i] = s[n + i]
  BY Suffix
<1> HIDE DEF t
<1>3. DOMAIN t = 1..Len(s) - n
  BY <1>2, LenProperties
<1>4. j \notin 1..n
  OBVIOUS
<1>5. j - n \in 1..Len(s) - n /\ n + (j - n) = j
  BY <1>1, <1>4
<1> QED BY <1>2, <1>3, <1>5 DEF t

-----------------------------------------------------------------------------
(***************************************************************************)
(* The inductive invariant.                                                *)
(***************************************************************************)
Types ==
    /\ table_ \in [Keys -> Handles \cup {None}]
    /\ lru_ \in Seq(Handles)
    /\ entry \in [Handles -> EntryType]
    /\ caches \in {"tables", "blocks"} /\ current \subseteq Keys /\ files \subseteq Keys
    /\ version \in [Readers -> SUBSET Keys]
    /\ wanted \in [Readers -> Keys \cup {None}]
    /\ held \in [Readers -> Handles \cup {None}]

\* The cached entries are those of the table.
TableAgrees ==
    /\ \A k \in Keys : table_[k] # None =>
           entry[table_[k]].in_cache /\ entry[table_[k]].key = k
    /\ \A h \in Handles : entry[h].in_cache =>
           entry[h].key \in Keys /\ table_[entry[h].key] = h

\* What can be evicted is cached, and held by nobody.
ListUnused ==
    /\ Distinct(lru_)
    /\ \A i \in DOMAIN lru_ : entry[lru_[i]].in_cache /\ entry[lru_[i]].refs = 1

\* A reader uses only tables of its Version, whose files are on disk.
ReadersProtected ==
    /\ \A r \in Readers : held[r] # None => wanted[r] # None
    /\ \A r \in Readers : wanted[r] # None => wanted[r] \in version[r]
    /\ ReadersHaveTheirFiles /\ current \subseteq files

Inv ==
    /\ Types /\ TableAgrees /\ ListUnused /\ ReadersProtected
    /\ ReferencesCounted /\ HandlesAlive /\ DeletedFilesAreClosed

-----------------------------------------------------------------------------
(***************************************************************************)
(* References.                                                             *)
(***************************************************************************)
LEMMA HoldersFinite ==
    ASSUME NEW h
    PROVE  /\ IsFiniteSet(HoldersOf(h)) /\ Cardinality(HoldersOf(h)) \in Nat
           /\ Cardinality(HoldersOf(h)) = 0 <=> HoldersOf(h) = {}
<1>1. IsFiniteSet(HoldersOf(h))
  BY ReadersAssumption, FS_Subset DEF HoldersOf
<1> QED BY <1>1, FS_CardinalityType, FS_EmptySet

\* Memory that is free is in nobody's hands, nor is an entry that only the cache uses.
LEMMA NotHeld ==
    ASSUME Types, ReferencesCounted, NEW h \in Handles,
           entry[h] = Freed \/ (entry[h].in_cache /\ entry[h].refs = 1)
    PROVE  HoldersOf(h) = {}
BY HoldersFinite DEF ReferencesCounted, Freed, Types, EntryType

\* An entry that somebody holds is not free, and has a reference more if it is cached.
LEMMA IsHeld ==
    ASSUME Types, ReferencesCounted, NEW r \in Readers, held[r] # None
    PROVE  /\ held[r] \in Handles /\ entry[held[r]] # Freed
           /\ entry[held[r]].in_cache => entry[held[r]].refs # 1
<1>1. held[r] \in Handles /\ r \in HoldersOf(held[r])
  BY DEF Types, HoldersOf
<1> QED BY <1>1, NotHeld

\* A client more: Ref, and the handle that Insert returns.
LEMMA HeldMore ==
    ASSUME Types, NEW r \in Readers, held[r] = None, NEW h \in Handles,
           held' = [held EXCEPT ![r] = h]
    PROVE  /\ Cardinality(HoldersOf(h)') = Cardinality(HoldersOf(h)) + 1
           /\ \A g \in Handles \ {h} : HoldersOf(g)' = HoldersOf(g)
<1>1. HoldersOf(h)' = HoldersOf(h) \cup {r} /\ r \notin HoldersOf(h)
  BY NoneAssumption DEF HoldersOf, Types
<1>2. Cardinality(HoldersOf(h) \cup {r}) = Cardinality(HoldersOf(h)) + 1
  BY <1>1, HoldersFinite, FS_AddElement
<1>3. \A g \in Handles \ {h} : HoldersOf(g)' = HoldersOf(g)
  BY NoneAssumption DEF HoldersOf, Types
<1> QED BY <1>1, <1>2, <1>3

\* A client less: Release.
LEMMA HeldLess ==
    ASSUME Types, NEW r \in Readers, NEW h \in Handles, held[r] = h,
           held' = [held EXCEPT ![r] = None]
    PROVE  /\ Cardinality(HoldersOf(h)') = Cardinality(HoldersOf(h)) - 1
           /\ \A g \in Handles \ {h} : HoldersOf(g)' = HoldersOf(g)
<1>1. HoldersOf(h)' = HoldersOf(h) \ {r} /\ r \in HoldersOf(h)
  BY NoneAssumption DEF HoldersOf, Types
<1>2. Cardinality(HoldersOf(h) \ {r}) = Cardinality(HoldersOf(h)) - 1
  BY <1>1, HoldersFinite, FS_RemoveElement
<1>3. \A g \in Handles \ {h} : HoldersOf(g)' = HoldersOf(g)
  BY NoneAssumption DEF HoldersOf, Types
<1> QED BY <1>1, <1>2, <1>3

\* What Erase, Prune and Insert do to the entries they take out of the cache.
LEMMA ErasedKeeps ==
    ASSUME Types, ReferencesCounted, NEW E \in SUBSET Handles,
           \A h \in E : entry[h].in_cache
    PROVE  LET e == Erased(E)
           IN  /\ e \in [Handles -> EntryType]
               /\ \A h \in Handles \ E : e[h] = entry[h]
               /\ \A h \in E : ~e[h].in_cache
               /\ \A h \in Handles : e[h] = Freed \/ e[h].key = entry[h].key
               /\ \A h \in Handles : HoldersOf(h) # {} => e[h].key = entry[h].key
               /\ \A h \in Handles :
                      /\ e[h].refs = Cardinality(HoldersOf(h))
                                     + (IF e[h].in_cache THEN 1 ELSE 0)
                      /\ e[h].refs = 0 => e[h] = Freed
<1> DEFINE e == Erased(E)
<1>1. \A h \in Handles \ E : e[h] = entry[h]
  BY DEF Erased
<1>2. ASSUME NEW h \in E
      PROVE  /\ e[h] \in EntryType /\ ~e[h].in_cache
             /\ e[h] = Freed \/ e[h].key = entry[h].key
             /\ HoldersOf(h) # {} => e[h].key = entry[h].key
             /\ e[h].refs = Cardinality(HoldersOf(h))
             /\ e[h].refs = 0 => e[h] = Freed
  <2>1. /\ entry[h].in_cache /\ entry[h] \in EntryType
        /\ entry[h].refs = Cardinality(HoldersOf(h)) + 1
    BY <1>2 DEF ReferencesCounted, Types
  <2>2. CASE entry[h].refs = 1
    <3>1. e[h] = Freed
      BY <2>1, <2>2 DEF Erased, FinishErase, Unref, EntryType
    <3>2. Cardinality(HoldersOf(h)) = 0 /\ HoldersOf(h) = {}
      BY <2>1, <2>2, HoldersFinite
    <3> QED BY <3>1, <3>2 DEF Freed, EntryType
  <2>3. CASE entry[h].refs # 1
    <3>1. e[h] = [entry[h] EXCEPT !.in_cache = FALSE, !.refs = @ - 1]
      BY <2>1, <2>3 DEF Erased, FinishErase, Unref, EntryType
    <3> HIDE DEF e
    <3>2. e[h] = [key |-> entry[h].key, charge |-> entry[h].charge,
                  refs |-> entry[h].refs - 1, in_cache |-> FALSE]
      BY <2>1, <3>1 DEF EntryType
    <3>3. Cardinality(HoldersOf(h)) \in Nat /\ Cardinality(HoldersOf(h)) # 0
      BY <2>1, <2>3, HoldersFinite
    <3>4. e[h].refs = Cardinality(HoldersOf(h)) /\ e[h].refs \in Nat
      BY <2>1, <3>2, <3>3
    <3>5. e[h] \in EntryType
      BY <2>1, <3>2, <3>4 DEF EntryType
    <3> QED BY <3>2, <3>3, <3>4, <3>5
  <2> QED BY <2>2, <2>3
<1>3. e \in [Handles -> EntryType]
  <2>1. \A h \in Handles : e[h] \in EntryType
    BY <1>1, <1>2 DEF Types
  <2>2. e = [h \in Handles |-> e[h]]
    BY DEF Erased
  <2> HIDE DEF e
  <2> QED BY <2>1, <2>2
<1> HIDE DEF e
<1>4. ASSUME NEW h \in Handles
      PROVE  /\ e[h] = Freed \/ e[h].key = entry[h].key
             /\ HoldersOf(h) # {} => e[h].key = entry[h].key
             /\ e[h].refs = Cardinality(HoldersOf(h)) + (IF e[h].in_cache THEN 1 ELSE 0)
             /\ e[h].refs = 0 => e[h] = Freed
  <2>1. CASE h \in E
    <3>1. Cardinality(HoldersOf(h)) \in Nat
      BY HoldersFinite
    <3> QED BY <1>2, <2>1, <3>1
  <2>2. CASE h \notin E
    BY <1>1, <2>2 DEF ReferencesCounted
  <2> QED BY <2>1, <2>2
<1> QED BY <1>1, <1>2, <1>3, <1>4 DEF e

-----------------------------------------------------------------------------
(***************************************************************************)
(* The steps that leave the cache alone.                                   *)
(***************************************************************************)
LEMMA CacheUntouched ==
    ASSUME Inv, UNCHANGED <<cacheVars, held>>
    PROVE  TableAgrees' /\ ListUnused' /\ ReferencesCounted'
<1>1. TableAgrees'
  BY DEF Inv, cacheVars, TableAgrees
<1>2. ListUnused'
  BY DEF Inv, cacheVars, ListUnused, Distinct
<1>3. \A h \in Handles : HoldersOf(h)' = HoldersOf(h)
  BY DEF HoldersOf
<1>4. entry' = entry
  BY DEF cacheVars
<1>5. ReferencesCounted'
  BY <1>3, <1>4 DEF Inv, ReferencesCounted, Freed
<1> QED BY <1>1, <1>2, <1>5

LEMMA StartReadingStep ==
    ASSUME Inv, NEW r \in Readers, StartReading(r)
    PROVE  Inv'
<1>1. TableAgrees' /\ ListUnused' /\ ReferencesCounted'
  BY CacheUntouched DEF StartReading
<1>2. ReadersProtected'
  <2>1. wanted[r] = None
    BY DEF Inv, Types, ReadersProtected, StartReading
  <2> QED BY <2>1 DEF Inv, Types, ReadersProtected, ReadersHaveTheirFiles, StartReading
<1>3. Types' /\ HandlesAlive' /\ DeletedFilesAreClosed'
  BY DEF Inv, Types, HandlesAlive, DeletedFilesAreClosed, StartReading, cacheVars
<1> QED BY <1>1, <1>2, <1>3 DEF Inv

LEMMA StopReadingStep ==
    ASSUME Inv, NEW r \in Readers, StopReading(r)
    PROVE  Inv'
<1>1. TableAgrees' /\ ListUnused' /\ ReferencesCounted'
  BY CacheUntouched DEF StopReading
<1>2. ReadersProtected'
  BY DEF Inv, Types, ReadersProtected, ReadersHaveTheirFiles, StopReading, MayUnref
<1>3. Types' /\ HandlesAlive' /\ DeletedFilesAreClosed'
  BY DEF Inv, Types, HandlesAlive, DeletedFilesAreClosed, StopReading, cacheVars
<1> QED BY <1>1, <1>2, <1>3 DEF Inv

LEMMA MissStep ==
    ASSUME Inv, NEW r \in Readers, NEW k \in Keys, Miss(r, k)
    PROVE  Inv'
<1>1. TableAgrees' /\ ListUnused' /\ ReferencesCounted'
  BY CacheUntouched DEF Miss
<1>2. held[r] = None
  BY DEF Inv, ReadersProtected, Miss
<1>3. ReadersProtected'
  BY DEF Inv, Types, ReadersProtected, ReadersHaveTheirFiles, Miss
<1>4. Types' /\ HandlesAlive' /\ DeletedFilesAreClosed'
  BY <1>2 DEF Inv, Types, HandlesAlive, DeletedFilesAreClosed, Miss, cacheVars
<1> QED BY <1>1, <1>3, <1>4 DEF Inv

LEMMA OpenFailsStep ==
    ASSUME Inv, NEW r \in Readers, OpenFails(r)
    PROVE  Inv'
<1>1. TableAgrees' /\ ListUnused' /\ ReferencesCounted'
  BY CacheUntouched DEF OpenFails
<1>2. ReadersProtected'
  BY DEF Inv, Types, ReadersProtected, ReadersHaveTheirFiles, OpenFails, Opening
<1>3. Types' /\ HandlesAlive' /\ DeletedFilesAreClosed'
  BY DEF Inv, Types, HandlesAlive, DeletedFilesAreClosed, OpenFails, Opening, cacheVars
<1> QED BY <1>1, <1>2, <1>3 DEF Inv

LEMMA RemoveFileStep ==
    ASSUME Inv, NEW k \in Keys, RemoveFile(k)
    PROVE  Inv'
<1>1. TableAgrees' /\ ListUnused' /\ ReferencesCounted'
  BY CacheUntouched DEF RemoveFile
<1>2. ReadersProtected'
  BY DEF Inv, Types, ReadersProtected, ReadersHaveTheirFiles, RemoveFile
<1>3. Types' /\ HandlesAlive' /\ DeletedFilesAreClosed'
  BY DEF Inv, Types, HandlesAlive, DeletedFilesAreClosed, RemoveFile, cacheVars
<1> QED BY <1>1, <1>2, <1>3 DEF Inv

-----------------------------------------------------------------------------
(***************************************************************************)
(* Ref and Release.                                                        *)
(***************************************************************************)
\* An entry with another number of references.
LEMMA WithRefs ==
    ASSUME NEW e \in EntryType, NEW n \in Nat
    PROVE  /\ [e EXCEPT !.refs = n] =
                  [key |-> e.key, charge |-> e.charge, refs |-> n, in_cache |-> e.in_cache]
           /\ [e EXCEPT !.refs = n] \in EntryType
BY DEF EntryType

LEMMA FindStep ==
    ASSUME Inv, NEW r \in Readers, NEW k \in Keys, Find(r, k)
    PROVE  Inv'
<1>1. PICK h \in Handles : table_[k] = h /\ Ref(h)
  BY DEF Inv, Types, Find, Lookup, Cached
<1>2. entry[h].in_cache /\ entry[h].key = k /\ entry[h] \in EntryType
  BY <1>1, NoneAssumption DEF Inv, Types, TableAgrees
<1>3. held[r] = None /\ wanted[r] = None
  BY DEF Inv, ReadersProtected, Find
<1>4. /\ entry' \in [Handles -> EntryType]
      /\ entry'[h].refs = entry[h].refs + 1
      /\ entry'[h].in_cache /\ entry'[h].key = k
      /\ \A g \in Handles \ {h} : entry'[g] = entry[g]
  <2> DEFINE e == [key |-> entry[h].key, charge |-> entry[h].charge,
                   refs |-> entry[h].refs + 1, in_cache |-> entry[h].in_cache]
  <2>1. entry' = [entry EXCEPT ![h] = [entry[h] EXCEPT !.refs = @ + 1]]
    BY <1>1 DEF Ref
  <2>2. entry[h].refs + 1 \in Nat
    BY <1>2 DEF EntryType
  <2>3. [entry[h] EXCEPT !.refs = @ + 1] = e /\ e \in EntryType
    BY <1>2, <2>2, WithRefs
  <2>4. entry' = [entry EXCEPT ![h] = e]
    BY <2>1, <2>3
  <2>5. /\ entry' \in [Handles -> EntryType] /\ entry'[h] = e
        /\ \A g \in Handles \ {h} : entry'[g] = entry[g]
    BY <2>3, <2>4 DEF Inv, Types
  <2> QED BY <1>2, <2>5
<1>5. lru_' \in Seq(Handles) /\ ListUnused'
  <2>1. CASE entry[h].refs = 1
    <3>1. lru_' = RemoveFirst(lru_, h)
      BY <1>1, <1>2, <2>1 DEF Ref
    <3>2. /\ lru_' \in Seq(Handles) /\ Distinct(lru_')
          /\ \A i \in DOMAIN lru_' : \E j \in DOMAIN lru_ : lru_[j] = lru_'[i] /\ lru_[j] # h
      BY <3>1, RemoveFirstKeeps DEF Inv, Types, ListUnused
    <3>3. \A j \in DOMAIN lru_ : lru_[j] \in Handles
      BY LenProperties DEF Inv, Types
    <3> QED BY <1>4, <3>2, <3>3 DEF Inv, ListUnused, Distinct
  <2>2. CASE entry[h].refs # 1
    <3>1. lru_' = lru_
      BY <1>1, <2>2 DEF Ref
    <3>2. \A j \in DOMAIN lru_ : lru_[j] \in Handles /\ lru_[j] # h
      BY <2>2, LenProperties DEF Inv, Types, ListUnused
    <3> QED BY <1>4, <3>1, <3>2 DEF Inv, Types, ListUnused, Distinct
  <2> QED BY <2>1, <2>2
<1>6. table_' = table_ /\ held' = [held EXCEPT ![r] = h] /\ wanted' = [wanted EXCEPT ![r] = k]
  BY <1>1 DEF Find, Ref
<1>7. ReferencesCounted'
  <2>1. /\ Cardinality(HoldersOf(h)') = Cardinality(HoldersOf(h)) + 1
        /\ \A g \in Handles \ {h} : HoldersOf(g)' = HoldersOf(g)
    BY <1>3, <1>6, HeldMore DEF Inv
  <2>2. entry[h].refs = Cardinality(HoldersOf(h)) + 1 /\ Cardinality(HoldersOf(h)) \in Nat
    BY <1>2, HoldersFinite DEF Inv, ReferencesCounted
  <2>3. ASSUME NEW g \in Handles
        PROVE  /\ entry'[g].refs = Cardinality(HoldersOf(g)')
                                   + (IF entry'[g].in_cache THEN 1 ELSE 0)
               /\ entry'[g].refs = 0 => entry'[g] = Freed
    BY <1>2, <1>4, <2>1, <2>2 DEF Inv, ReferencesCounted
  <2> QED BY <2>3 DEF ReferencesCounted, Freed
<1>8. Types'
  BY <1>4, <1>5, <1>6 DEF Inv, Types, Find
<1>9. TableAgrees'
  BY <1>2, <1>4, <1>6 DEF Inv, Types, TableAgrees
<1>10. ReadersProtected'
  BY <1>6, NoneAssumption DEF Inv, Types, ReadersProtected, ReadersHaveTheirFiles, Find
<1>11. \A g \in Handles : entry'[g].key = entry[g].key
  BY <1>2, <1>4
<1>12. HandlesAlive'
  BY <1>2, <1>4, <1>6, <1>11 DEF Inv, Types, HandlesAlive
<1>13. DeletedFilesAreClosed'
  BY <1>11 DEF Inv, DeletedFilesAreClosed, Find
<1> QED BY <1>5, <1>7, <1>8, <1>9, <1>10, <1>12, <1>13 DEF Inv

LEMMA ReleaseStep ==
    ASSUME Inv, NEW r \in Readers, ReleaseHandle(r)
    PROVE  Inv'
<1>1. PICK h \in Handles : held[r] = h /\ Release(h)
  BY DEF Inv, Types, ReleaseHandle
<1>2. /\ entry[h] \in EntryType /\ entry[h] # Freed
      /\ entry[h].in_cache => entry[h].refs # 1
      /\ h # None
  BY <1>1, IsHeld, NoneAssumption DEF Inv, Types
<1>3. /\ held' = [held EXCEPT ![r] = None] /\ wanted' = [wanted EXCEPT ![r] = None]
      /\ table_' = table_ /\ UNCHANGED <<caches, current, files, version>>
      /\ entry' = [entry EXCEPT ![h] = Unref(@)]
  BY <1>1 DEF ReleaseHandle, Release
<1>4. /\ Cardinality(HoldersOf(h)') = Cardinality(HoldersOf(h)) - 1
      /\ \A g \in Handles \ {h} : HoldersOf(g)' = HoldersOf(g)
  BY <1>1, <1>3, HeldLess DEF Inv
<1>5. /\ entry[h].refs = Cardinality(HoldersOf(h)) + (IF entry[h].in_cache THEN 1 ELSE 0)
      /\ Cardinality(HoldersOf(h)) \in Nat /\ Cardinality(HoldersOf(h)) # 0
      /\ entry[h].refs \in Nat /\ entry[h].refs # 0
  <2>1. r \in HoldersOf(h)
    BY <1>1 DEF HoldersOf
  <2>2. /\ entry[h].refs = Cardinality(HoldersOf(h)) + (IF entry[h].in_cache THEN 1 ELSE 0)
        /\ entry[h].refs = 0 => entry[h] = Freed
    BY DEF Inv, ReferencesCounted
  <2>3. entry[h].refs \in Nat
    BY <1>2 DEF EntryType
  <2> QED BY <1>2, <2>1, <2>2, <2>3, HoldersFinite
<1>6. /\ entry' \in [Handles -> EntryType]
      /\ \A g \in Handles \ {h} : entry'[g] = entry[g]
      /\ entry'[h].in_cache <=> entry[h].in_cache
      /\ entry[h].refs # 1 => entry'[h].key = entry[h].key /\ entry'[h].refs = entry[h].refs - 1
      /\ entry[h].refs = 1 => entry'[h] = Freed /\ entry'[h].refs = 0
  <2>1. CASE entry[h].refs = 1
    <3>1. ~entry[h].in_cache
      BY <1>2, <2>1
    <3>2. entry' = [entry EXCEPT ![h] = Freed]
      BY <1>3, <2>1 DEF Unref
    <3>3. Freed \in EntryType /\ ~Freed.in_cache /\ Freed.refs = 0
      BY DEF Freed, EntryType
    <3>4. /\ entry' \in [Handles -> EntryType] /\ entry'[h] = Freed
          /\ \A g \in Handles \ {h} : entry'[g] = entry[g]
      BY <3>2, <3>3 DEF Inv, Types
    <3> QED BY <2>1, <3>1, <3>3, <3>4
  <2>2. CASE entry[h].refs # 1
    <3> DEFINE e == [key |-> entry[h].key, charge |-> entry[h].charge,
                     refs |-> entry[h].refs - 1, in_cache |-> entry[h].in_cache]
    <3>1. entry[h].refs - 1 \in Nat
      BY <1>5
    <3>2. [entry[h] EXCEPT !.refs = @ - 1] = e /\ e \in EntryType
      BY <1>2, <3>1, WithRefs
    <3>3. entry' = [entry EXCEPT ![h] = e]
      BY <1>3, <2>2, <3>2 DEF Unref
    <3>4. /\ entry' \in [Handles -> EntryType] /\ entry'[h] = e
          /\ \A g \in Handles \ {h} : entry'[g] = entry[g]
      BY <3>2, <3>3 DEF Inv, Types
    <3> QED BY <2>2, <3>4
  <2> QED BY <2>1, <2>2
<1>7. \A j \in DOMAIN lru_ : lru_[j] \in Handles /\ lru_[j] # h
  <2>1. \A j \in DOMAIN lru_ :
            lru_[j] \in Handles /\ entry[lru_[j]].in_cache /\ entry[lru_[j]].refs = 1
    BY LenProperties DEF Inv, Types, ListUnused
  <2> QED BY <1>2, <2>1
<1>8. lru_' \in Seq(Handles) /\ ListUnused'
  <2>1. CASE LastClientOf(entry[h])
    <3>1. lru_' = Append(lru_, h)
      BY <1>1, <2>1 DEF Release
    <3>2. /\ lru_' \in Seq(Handles) /\ Len(lru_') = Len(lru_) + 1
          /\ \A i \in 1..Len(lru_) : lru_'[i] = lru_[i]
          /\ lru_'[Len(lru_) + 1] = h
      BY <3>1, AppendProperties DEF Inv, Types
    <3>3. /\ Len(lru_) \in Nat /\ DOMAIN lru_ = 1..Len(lru_)
          /\ DOMAIN lru_' = 1..Len(lru_) + 1
      BY <3>2, LenProperties DEF Inv, Types
    <3>4. Distinct(lru_')
      BY <1>7, <3>2, <3>3 DEF Inv, ListUnused, Distinct
    <3>5. entry'[h].in_cache /\ entry'[h].refs = 1
      BY <1>6, <2>1 DEF LastClientOf
    <3>6. ASSUME NEW i \in DOMAIN lru_'
          PROVE  entry'[lru_'[i]].in_cache /\ entry'[lru_'[i]].refs = 1
      <4>1. CASE i = Len(lru_) + 1
        BY <3>2, <3>5, <4>1
      <4>2. CASE i # Len(lru_) + 1
        <5>1. i \in DOMAIN lru_ /\ lru_'[i] = lru_[i]
          BY <3>2, <3>3, <4>2
        <5> QED BY <1>6, <1>7, <5>1 DEF Inv, ListUnused
      <4> QED BY <4>1, <4>2
    <3> QED BY <3>2, <3>4, <3>6 DEF ListUnused, Distinct
  <2>2. CASE ~LastClientOf(entry[h])
    <3>1. lru_' = lru_
      BY <1>1, <2>2 DEF Release
    <3> QED BY <1>6, <1>7, <3>1 DEF Inv, Types, ListUnused, Distinct
  <2> QED BY <2>1, <2>2
<1>9. ReferencesCounted'
  <2>1. ASSUME NEW g \in Handles
        PROVE  /\ entry'[g].refs = Cardinality(HoldersOf(g)')
                                   + (IF entry'[g].in_cache THEN 1 ELSE 0)
               /\ entry'[g].refs = 0 => entry'[g] = Freed
    <3>1. CASE g = h
      BY <1>2, <1>4, <1>5, <1>6, <3>1
    <3>2. CASE g # h
      BY <1>4, <1>6, <3>2 DEF Inv, ReferencesCounted
    <3> QED BY <3>1, <3>2
  <2> QED BY <2>1 DEF ReferencesCounted, Freed
<1>10. Types'
  BY <1>3, <1>6, <1>8 DEF Inv, Types
<1>11. TableAgrees'
  <2>1. \A g \in Handles : entry'[g].in_cache =>
            entry[g].in_cache /\ entry'[g].key = entry[g].key
    BY <1>2, <1>6
  <2>2. \A g \in Handles : entry[g].in_cache =>
            entry'[g].in_cache /\ entry'[g].key = entry[g].key
    BY <1>2, <1>6
  <2> QED BY <1>3, <2>1, <2>2 DEF Inv, Types, TableAgrees
<1>12. ReadersProtected'
  BY <1>3 DEF Inv, Types, ReadersProtected, ReadersHaveTheirFiles
<1>13. HandlesAlive'
  <2> SUFFICES ASSUME NEW q \in Readers, held'[q] # None
               PROVE  entry'[held'[q]].key = wanted'[q]
    BY DEF HandlesAlive
  <2>1. q # r /\ held'[q] = held[q] /\ wanted'[q] = wanted[q] /\ held[q] \in Handles
    BY <1>3 DEF Inv, Types
  <2>2. CASE held[q] # h
    BY <1>6, <2>1, <2>2 DEF Inv, HandlesAlive
  <2>3. CASE held[q] = h
    <3>1. Cardinality(HoldersOf(h)') # 0
      <4>1. q \in HoldersOf(h)'
        BY <2>1, <2>3 DEF HoldersOf
      <4>2. HoldersOf(h)' = HoldersOf(h) \ {r}
        BY <1>1, <1>3, NoneAssumption DEF HoldersOf, Inv, Types
      <4>3. IsFiniteSet(HoldersOf(h) \ {r})
        BY HoldersFinite, FS_RemoveElement
      <4> QED BY <4>1, <4>2, <4>3, FS_EmptySet
    <3>2. entry[h].refs # 1
      BY <1>4, <1>5, <3>1
    <3> QED BY <1>6, <2>1, <2>3, <3>2 DEF Inv, HandlesAlive
  <2> QED BY <2>2, <2>3
<1>14. DeletedFilesAreClosed'
  <2>1. \A g \in Handles : entry'[g].key \in {entry[g].key, None}
    BY <1>6 DEF Freed
  <2> QED BY <1>3, <2>1, NoneAssumption DEF Inv, DeletedFilesAreClosed
<1> QED BY <1>8, <1>9, <1>10, <1>11, <1>12, <1>13, <1>14 DEF Inv

-----------------------------------------------------------------------------
(***************************************************************************)
(* Erase, Prune and Insert.                                                *)
(***************************************************************************)
\* The table and the entries agree when a set of entries has gone from both.
LEMMA ErasedAgrees ==
    ASSUME Inv, NEW E \in SUBSET Handles, \A h \in E : entry[h].in_cache
    PROVE  LET e == Erased(E)
               t == [x \in Keys |-> IF table_[x] \in E THEN None ELSE table_[x]]
           IN  /\ t \in [Keys -> Handles \cup {None}]
               /\ \A x \in Keys : t[x] # None => e[t[x]].in_cache /\ e[t[x]].key = x
               /\ \A h \in Handles : e[h].in_cache => e[h].key \in Keys /\ t[e[h].key] = h
<1> DEFINE e == Erased(E)
           t == [x \in Keys |-> IF table_[x] \in E THEN None ELSE table_[x]]
<1>1. /\ \A h \in Handles \ E : e[h] = entry[h]
      /\ \A h \in E : ~e[h].in_cache
  BY ErasedKeeps DEF Inv
<1>2. \A x \in Keys : t[x] = IF table_[x] \in E THEN None ELSE table_[x]
  OBVIOUS
<1>3. t \in [Keys -> Handles \cup {None}]
  BY DEF Inv, Types
<1> HIDE DEF e, t
<1>4. ASSUME NEW x \in Keys, t[x] # None
      PROVE  e[t[x]].in_cache /\ e[t[x]].key = x
  <2>1. t[x] = table_[x] /\ t[x] \in Handles \ E
    BY <1>2, <1>4 DEF Inv, Types
  <2>2. e[t[x]] = entry[t[x]]
    BY <1>1, <2>1
  <2>3. entry[t[x]].in_cache /\ entry[t[x]].key = x
    BY <1>4, <2>1 DEF Inv, TableAgrees
  <2> QED BY <2>2, <2>3
<1>5. ASSUME NEW h \in Handles, e[h].in_cache
      PROVE  e[h].key \in Keys /\ t[e[h].key] = h
  <2>1. h \notin E /\ e[h] = entry[h]
    BY <1>1, <1>5
  <2>2. entry[h].key \in Keys /\ table_[entry[h].key] = h
    BY <1>5, <2>1 DEF Inv, TableAgrees
  <2> QED BY <1>2, <2>1, <2>2
<1> QED BY <1>3, <1>4, <1>5 DEF e, t

\* What Erase and Prune preserve.
LEMMA EraseStep ==
    ASSUME Inv, NEW E \in SUBSET Handles, \A h \in E : entry[h].in_cache,
           entry' = Erased(E), UNCHANGED <<held, wanted>>,
           table_' = [x \in Keys |-> IF table_[x] \in E THEN None ELSE table_[x]],
           lru_' \in Seq(Handles), Distinct(lru_'),
           \A i \in DOMAIN lru_' : \E j \in DOMAIN lru_ : lru_[j] = lru_'[i] /\ lru_[j] \notin E
    PROVE  /\ TableAgrees' /\ ListUnused' /\ ReferencesCounted' /\ HandlesAlive'
           /\ entry' \in [Handles -> EntryType] /\ table_' \in [Keys -> Handles \cup {None}]
<1>1. table_' \in [Keys -> Handles \cup {None}] /\ TableAgrees'
  BY ErasedAgrees DEF TableAgrees
<1>2. /\ entry' \in [Handles -> EntryType]
      /\ \A h \in Handles \ E : entry'[h] = entry[h]
      /\ \A h \in Handles : HoldersOf(h) # {} => entry'[h].key = entry[h].key
      /\ \A h \in Handles :
             /\ entry'[h].refs = Cardinality(HoldersOf(h))
                                 + (IF entry'[h].in_cache THEN 1 ELSE 0)
             /\ entry'[h].refs = 0 => entry'[h] = Freed
  BY ErasedKeeps DEF Inv
<1>3. \A h \in Handles : HoldersOf(h)' = HoldersOf(h)
  BY DEF HoldersOf
<1>4. ReferencesCounted'
  BY <1>2, <1>3 DEF ReferencesCounted, Freed
<1>5. ListUnused'
  <2>1. \A j \in DOMAIN lru_ : lru_[j] \in Handles
    BY LenProperties DEF Inv, Types
  <2>2. \A i \in DOMAIN lru_' : entry'[lru_'[i]].in_cache /\ entry'[lru_'[i]].refs = 1
    BY <1>2, <2>1 DEF Inv, ListUnused
  <2> QED BY <2>2 DEF ListUnused, Distinct
<1>6. HandlesAlive'
  <2> SUFFICES ASSUME NEW q \in Readers, held[q] # None
               PROVE  entry'[held[q]].key = wanted[q]
    BY DEF HandlesAlive
  <2>1. held[q] \in Handles /\ q \in HoldersOf(held[q])
    BY DEF Inv, Types, HoldersOf
  <2> QED BY <1>2, <2>1 DEF Inv, HandlesAlive
<1> QED BY <1>1, <1>2, <1>4, <1>5, <1>6

LEMMA PruneStep ==
    ASSUME Inv, PruneBlocks
    PROVE  Inv'
<1> DEFINE old == {lru_[i] : i \in DOMAIN lru_}
<1>1. old \in SUBSET Handles /\ \A h \in old : entry[h].in_cache
  BY LenProperties DEF Inv, Types, ListUnused
<1>2. /\ entry' = Erased(old) /\ lru_' = <<>> /\ caches = "blocks"
      /\ table_' = [x \in Keys |-> IF table_[x] \in old THEN None ELSE table_[x]]
      /\ UNCHANGED dbVars
  BY DEF PruneBlocks, Prune
<1> HIDE DEF old
<1>3. lru_' \in Seq(Handles) /\ Distinct(lru_') /\ DOMAIN lru_' = {}
  BY <1>2 DEF Distinct
<1>4. /\ TableAgrees' /\ ListUnused' /\ ReferencesCounted' /\ HandlesAlive'
      /\ entry' \in [Handles -> EntryType] /\ table_' \in [Keys -> Handles \cup {None}]
  BY <1>1, <1>2, <1>3, EraseStep DEF dbVars
<1>5. Types'
  BY <1>2, <1>3, <1>4 DEF Inv, Types, dbVars
<1>6. ReadersProtected' /\ DeletedFilesAreClosed'
  BY <1>2 DEF Inv, ReadersProtected, ReadersHaveTheirFiles, DeletedFilesAreClosed, dbVars
<1> QED BY <1>4, <1>5, <1>6 DEF Inv

LEMMA CachedEntries ==
    ASSUME Inv, NEW k \in Keys
    PROVE  /\ Cached(k) \in SUBSET Handles
           /\ \A h \in Cached(k) : entry[h].in_cache /\ entry[h].key = k
           /\ \A x \in Keys \ {k} : table_[x] \notin Cached(k)
           /\ \A h \in Handles : entry[h].in_cache /\ entry[h].key = k => h \in Cached(k)
<1>1. Cached(k) \in SUBSET Handles
  BY DEF Inv, Types, Cached
<1>2. \A h \in Cached(k) : entry[h].in_cache /\ entry[h].key = k
  BY DEF Inv, TableAgrees, Cached
<1>3. ASSUME NEW x \in Keys \ {k}, table_[x] \in Cached(k)
      PROVE  FALSE
  BY <1>2, <1>3 DEF Inv, TableAgrees, Cached
<1>4. \A h \in Handles : entry[h].in_cache /\ entry[h].key = k => h \in Cached(k)
  BY NoneAssumption DEF Inv, TableAgrees, Cached
<1> QED BY <1>1, <1>2, <1>3, <1>4

LEMMA DeleteObsoleteFileStep ==
    ASSUME Inv, NEW k \in Keys, DeleteObsoleteFile(k)
    PROVE  Inv'
<1>1. /\ k \in files /\ k \notin Live /\ files' = files \ {k}
      /\ entry' = Erased(Cached(k)) /\ lru_' = RemoveFirst(lru_, table_[k])
      /\ table_' = [table_ EXCEPT ![k] = None]
      /\ UNCHANGED <<caches, current, version, wanted, held>>
  BY DEF DeleteObsoleteFile, Erase
<1>2. table_' = [x \in Keys |-> IF table_[x] \in Cached(k) THEN None ELSE table_[x]]
  <2>1. table_[k] \in Cached(k) \/ table_[k] = None
    BY DEF Cached
  <2> QED BY <1>1, <2>1, CachedEntries DEF Inv, Types
<1>3. /\ lru_' \in Seq(Handles) /\ Distinct(lru_')
      /\ \A i \in DOMAIN lru_' :
             \E j \in DOMAIN lru_ : lru_[j] = lru_'[i] /\ lru_[j] \notin Cached(k)
  <2>1. Distinct(lru_) /\ lru_ \in Seq(Handles)
    BY DEF Inv, Types, ListUnused
  <2> QED BY <1>1, <2>1, RemoveFirstKeeps DEF Cached
<1>4. /\ TableAgrees' /\ ListUnused' /\ ReferencesCounted' /\ HandlesAlive'
      /\ entry' \in [Handles -> EntryType] /\ table_' \in [Keys -> Handles \cup {None}]
  BY <1>1, <1>2, <1>3, CachedEntries, EraseStep
<1>5. Types'
  BY <1>1, <1>3, <1>4 DEF Inv, Types
<1>6. ReadersProtected'
  BY <1>1 DEF Inv, Types, ReadersProtected, ReadersHaveTheirFiles, Live
<1>7. ASSUME NEW h \in Handles, entry'[h].key = k
      PROVE  FALSE
  <2>1. entry'[h] = Freed \/ entry'[h].key = entry[h].key
    BY <1>1, CachedEntries, ErasedKeeps DEF Inv
  <2>2. entry[h].key = k
    BY <1>7, <2>1, NoneAssumption DEF Freed
  <2>3. HoldersOf(h) = {}
    <3> SUFFICES ASSUME NEW q \in Readers, held[q] = h
                 PROVE  FALSE
      BY DEF HoldersOf
    <3>1. wanted[q] = k
      BY <2>2, NoneAssumption DEF Inv, HandlesAlive
    <3>2. k \in version[q]
      BY <3>1, NoneAssumption DEF Inv, ReadersProtected
    <3> QED BY <1>1, <3>2 DEF Live
  <2>4. HoldersOf(h)' = HoldersOf(h)
    BY <1>1 DEF HoldersOf
  <2>5. Cardinality(HoldersOf(h)') = 0
    BY <2>3, <2>4, FS_EmptySet
  <2>6. ~entry'[h].in_cache
    <3>1. CASE h \in Cached(k)
      BY <1>1, <3>1, CachedEntries, ErasedKeeps DEF Inv
    <3>2. CASE h \notin Cached(k)
      <4>1. ~entry[h].in_cache
        BY <2>2, <3>2, CachedEntries
      <4>2. entry'[h] = entry[h]
        BY <1>1, <3>2, CachedEntries, ErasedKeeps DEF Inv
      <4> QED BY <4>1, <4>2
    <3> QED BY <3>1, <3>2
  <2>7. entry'[h] = Freed'
    BY <1>4, <2>5, <2>6 DEF ReferencesCounted
  <2> QED BY <1>7, <2>7, NoneAssumption DEF Freed
<1>8. DeletedFilesAreClosed'
  <2> SUFFICES ASSUME caches = "tables", NEW h \in Handles
               PROVE  entry'[h].key \notin Keys \ files'
    BY <1>1 DEF DeletedFilesAreClosed
  <2>1. entry'[h] = Freed \/ entry'[h].key = entry[h].key
    BY <1>1, CachedEntries, ErasedKeeps DEF Inv
  <2>2. entry'[h].key = None \/ entry'[h].key = entry[h].key
    BY <2>1 DEF Freed
  <2>3. entry[h].key \notin Keys \ files
    BY DEF Inv, DeletedFilesAreClosed
  <2> QED BY <1>1, <1>7, <2>2, <2>3, NoneAssumption
<1> QED BY <1>4, <1>5, <1>6, <1>8 DEF Inv

\* Entries that are those of before, but for the cache's references to some.
Kept(e) ==
    /\ e \in [Handles -> EntryType]
    /\ \A g \in Handles : e[g] = Freed \/ e[g].key = entry[g].key
    /\ \A g \in Handles : HoldersOf(g) # {} => e[g].key = entry[g].key
    /\ \A g \in Handles :
           /\ e[g].refs = Cardinality(HoldersOf(g)) + (IF e[g].in_cache THEN 1 ELSE 0)
           /\ e[g].refs = 0 => e[g] = Freed

\* The new entry of an Insert, and the handle to it, in what the others have left.
LEMMA InsertedEntry ==
    ASSUME Inv, NEW r \in Readers, NEW h \in Handles, Open(r, h),
           NEW e, Kept(e), NEW new \in EntryType, new.key = wanted[r],
           new.refs = 1 + (IF new.in_cache THEN 1 ELSE 0),
           entry' = [e EXCEPT ![h] = new]
    PROVE  /\ entry' \in [Handles -> EntryType]
           /\ ReadersProtected' /\ ReferencesCounted' /\ HandlesAlive' /\ DeletedFilesAreClosed'
<1>1. /\ held[r] = None /\ wanted[r] # None /\ wanted[r] \in files /\ entry[h] = Freed
      /\ held' = [held EXCEPT ![r] = h]
      /\ UNCHANGED <<caches, current, files, version, wanted>>
  BY DEF Open, Opening
<1>2. /\ entry' \in [Handles -> EntryType] /\ entry'[h] = new
      /\ \A g \in Handles \ {h} : entry'[g] = e[g]
  BY DEF Kept
<1>3. /\ Cardinality(HoldersOf(h)') = Cardinality(HoldersOf(h)) + 1
      /\ \A g \in Handles \ {h} : HoldersOf(g)' = HoldersOf(g)
  BY <1>1, HeldMore DEF Inv
<1>4. HoldersOf(h) = {} /\ Cardinality(HoldersOf(h)) = 0
  BY <1>1, NotHeld, FS_EmptySet DEF Inv
<1>5. ReferencesCounted'
  <2>1. ASSUME NEW g \in Handles
        PROVE  /\ entry'[g].refs = Cardinality(HoldersOf(g)')
                                   + (IF entry'[g].in_cache THEN 1 ELSE 0)
               /\ entry'[g].refs = 0 => entry'[g] = Freed
    <3>1. CASE g = h
      <4>1. Cardinality(HoldersOf(h)') = 1
        BY <1>3, <1>4
      <4>2. entry'[h].refs = 1 + (IF entry'[h].in_cache THEN 1 ELSE 0) /\ entry'[h].refs # 0
        BY <1>2
      <4> QED BY <3>1, <4>1, <4>2
    <3>2. CASE g # h
      BY <1>2, <1>3, <3>2 DEF Kept
    <3> QED BY <3>1, <3>2
  <2> QED BY <2>1 DEF ReferencesCounted, Freed
<1>6. ReadersProtected'
  BY <1>1, NoneAssumption DEF Inv, Types, ReadersProtected, ReadersHaveTheirFiles
<1>7. HandlesAlive'
  <2> SUFFICES ASSUME NEW q \in Readers, held'[q] # None
               PROVE  entry'[held'[q]].key = wanted[q]
    BY <1>1 DEF HandlesAlive
  <2>1. CASE q = r
    <3>1. held'[q] = h
      BY <1>1, <2>1 DEF Inv, Types
    <3> QED BY <1>2, <2>1, <3>1
  <2>2. CASE q # r
    <3>1. held'[q] = held[q] /\ held[q] \in Handles /\ q \in HoldersOf(held[q])
      BY <1>1, <2>2 DEF Inv, Types, HoldersOf
    <3>2. held[q] # h
      BY <1>4, <3>1
    <3> QED BY <1>2, <3>1, <3>2 DEF Inv, HandlesAlive, Kept
  <2> QED BY <2>1, <2>2
<1>8. DeletedFilesAreClosed'
  <2> SUFFICES ASSUME caches = "tables", NEW g \in Handles
               PROVE  entry'[g].key \notin Keys \ files
    BY <1>1 DEF DeletedFilesAreClosed
  <2>1. CASE g = h
    BY <1>1, <1>2, <2>1
  <2>2. CASE g # h
    <3>1. entry'[g] = Freed \/ entry'[g].key = entry[g].key
      BY <1>2, <2>2 DEF Kept
    <3>2. entry'[g].key = None \/ entry'[g].key = entry[g].key
      BY <3>1 DEF Freed
    <3>3. entry[g].key \notin Keys \ files
      BY DEF Inv, DeletedFilesAreClosed
    <3> QED BY <3>2, <3>3, NoneAssumption
  <2> QED BY <2>1, <2>2
<1> QED BY <1>2, <1>5, <1>6, <1>7, <1>8

LEMMA OpenStep ==
    ASSUME Inv, NEW r \in Readers, NEW h \in Handles, Open(r, h)
    PROVE  Inv'
<1> DEFINE k == wanted[r]
           new(refs, cached) ==
               [key |-> k, charge |-> Charge(k), refs |-> refs, in_cache |-> cached]
<1>1. /\ k \in Keys /\ entry[h] = Freed /\ Insert(k, Charge(k), h)
      /\ held' = [held EXCEPT ![r] = h]
      /\ UNCHANGED <<caches, current, files, version, wanted>>
  BY DEF Open, Opening, Inv, Types
<1>2. Charge(k) \in Nat
  BY <1>1, ChargesAssumption DEF Charge
<1>3. /\ new(1, FALSE) \in EntryType /\ new(2, TRUE) \in EntryType
      /\ new(1, FALSE).key = k /\ new(1, FALSE).refs = 1 /\ ~new(1, FALSE).in_cache
      /\ new(2, TRUE).key = k /\ new(2, TRUE).refs = 2 /\ new(2, TRUE).in_cache
  BY <1>1, <1>2 DEF EntryType
<1>8. PICK one \in EntryType :
          /\ one = new(1, FALSE) /\ one.key = wanted[r] /\ one.refs = 1 /\ ~one.in_cache
          /\ one.refs = 1 + (IF one.in_cache THEN 1 ELSE 0)
  BY <1>3
<1>9. PICK two \in EntryType :
          /\ two = new(2, TRUE) /\ two.key = wanted[r] /\ two.refs = 2 /\ two.in_cache
          /\ two.refs = 1 + (IF two.in_cache THEN 1 ELSE 0)
  BY <1>3
<1>4. ~entry[h].in_cache /\ \A x \in Keys : table_[x] # h
  <2>1. ~entry[h].in_cache
    BY <1>1 DEF Freed
  <2> QED BY <2>1, NoneAssumption DEF Inv, TableAgrees
<1>5. \A i \in DOMAIN lru_ : lru_[i] \in Handles \ {h}
  BY <1>4, LenProperties DEF Inv, Types, ListUnused
<1>6. CASE capacity_ = 0
  <2>1. entry' = [entry EXCEPT ![h] = one] /\ UNCHANGED <<table_, lru_>>
    BY <1>1, <1>6, <1>8 DEF Insert
  <2> HIDE DEF new, k
  <2>2. /\ entry' \in [Handles -> EntryType] /\ entry'[h] = one
        /\ \A g \in Handles \ {h} : entry'[g] = entry[g]
    BY <2>1 DEF Inv, Types
  <2>3. ReadersProtected' /\ ReferencesCounted' /\ HandlesAlive' /\ DeletedFilesAreClosed'
    <3>1. Kept(entry)
      BY DEF Kept, Inv, Types, ReferencesCounted
    <3> QED BY <1>8, <2>1, <3>1, InsertedEntry
  <2>4. Types'
    BY <1>1, <2>1, <2>2 DEF Inv, Types
  <2>5. TableAgrees'
    <3>1. \A g \in Handles : entry'[g].in_cache => g # h /\ entry'[g] = entry[g]
      BY <1>8, <2>2
    <3>2. \A x \in Keys : table_[x] # None => table_[x] \in Handles \ {h}
      BY <1>4 DEF Inv, Types
    <3> QED BY <2>1, <2>2, <3>1, <3>2 DEF Inv, TableAgrees
  <2>6. ListUnused'
    BY <1>5, <2>1, <2>2 DEF Inv, ListUnused, Distinct
  <2> QED BY <2>3, <2>4, <2>5, <2>6 DEF Inv
<1>7. CASE capacity_ # 0
  <2> DEFINE list == IF Cached(k) = {} THEN lru_ ELSE RemoveFirst(lru_, table_[k])
             old(n) == {list[i] : i \in 1..n}
  <2>1. PICK n \in 0..Len(list) :
            /\ entry' = [Erased(Cached(k) \cup old(n)) EXCEPT ![h] = two]
            /\ lru_' = SubSeq(list, n + 1, Len(list))
            /\ table_' = [x \in Keys |-> IF x = k THEN h
                                         ELSE IF table_[x] \in old(n) THEN None ELSE table_[x]]
    <3>1. Insert(k, Charge(k), h) /\ two = new(2, TRUE)
      BY <1>1, <1>9
    <3> HIDE DEF k
    <3> QED BY <1>7, <3>1 DEF Insert
  <2>2. /\ list \in Seq(Handles) /\ Distinct(list)
        /\ \A i \in DOMAIN list : \E j \in DOMAIN lru_ : lru_[j] = list[i] /\ lru_[j] \notin Cached(k)
    <3>1. Distinct(lru_) /\ lru_ \in Seq(Handles)
      BY DEF Inv, Types, ListUnused
    <3>2. CASE Cached(k) = {}
      BY <3>1, <3>2
    <3>3. CASE Cached(k) # {}
      <4>1. list = RemoveFirst(lru_, table_[k]) /\ Cached(k) = {table_[k]}
        BY <3>3 DEF Cached
      <4> HIDE DEF list
      <4>2. /\ list \in Seq(Handles) /\ Distinct(list)
            /\ \A i \in DOMAIN list : \E j \in DOMAIN lru_ : lru_[j] = list[i] /\ lru_[j] # table_[k]
        BY <3>1, <4>1, RemoveFirstKeeps
      <4> QED BY <4>1, <4>2
    <3> QED BY <3>2, <3>3
  <2> DEFINE E == Cached(k) \cup old(n)
             e == Erased(E)
             t == [x \in Keys |-> IF table_[x] \in E THEN None ELSE table_[x]]
  <2> HIDE DEF list, new
  <2>3. DOMAIN list = 1..Len(list) /\ Len(list) \in Nat
    BY <2>2, LenProperties
  <2>4. E \in SUBSET Handles /\ \A g \in E : entry[g].in_cache
    <3>1. old(n) \subseteq {lru_[j] : j \in DOMAIN lru_}
      BY <2>2, <2>3
    <3> HIDE DEF k
    <3> QED BY <1>1, <1>5, <3>1, CachedEntries DEF Inv, ListUnused
  <2>5. /\ lru_' \in Seq(Handles) /\ Distinct(lru_')
        /\ \A i \in DOMAIN lru_' : \E j \in DOMAIN lru_ : lru_[j] = lru_'[i] /\ lru_[j] \notin E
    <3>1. /\ lru_' \in Seq(Handles) /\ Distinct(lru_')
          /\ \A i \in DOMAIN lru_' : \E j \in DOMAIN list :
                 list[j] = lru_'[i] /\ \A m \in 1..n : list[m] # lru_'[i]
      BY <2>1, <2>2, TailKeeps
    <3> QED BY <2>2, <3>1
  <2>6. table_' = [t EXCEPT ![k] = h]
    <3>1. \A x \in Keys \ {k} : table_[x] \notin Cached(k)
      BY <1>1, CachedEntries
    <3> HIDE DEF old, k
    <3> QED BY <2>1, <3>1
  <2> HIDE DEF E, k
  <2>7. /\ e \in [Handles -> EntryType] /\ Kept(e)
        /\ \A g \in Handles \ E : e[g] = entry[g]
    BY <2>4, ErasedKeeps DEF Inv, Kept
  <2>8. /\ t \in [Keys -> Handles \cup {None}]
        /\ \A x \in Keys : t[x] # None => e[t[x]].in_cache /\ e[t[x]].key = x
        /\ \A g \in Handles : e[g].in_cache => e[g].key \in Keys /\ t[e[g].key] = g
    BY <2>4, ErasedAgrees
  <2>9. t[k] = None
    BY <1>1 DEF Cached, E
  <2>10. entry' = [e EXCEPT ![h] = two]
    BY <2>1 DEF E
  <2> HIDE DEF e, t
  <2>11. /\ entry' \in [Handles -> EntryType] /\ entry'[h] = two
         /\ \A g \in Handles \ {h} : entry'[g] = e[g]
    BY <2>7, <2>10
  <2>12. ReadersProtected' /\ ReferencesCounted' /\ HandlesAlive' /\ DeletedFilesAreClosed'
    BY <1>9, <2>7, <2>10, InsertedEntry
  <2>13. Types'
    BY <1>1, <2>5, <2>6, <2>8, <2>11 DEF Inv, Types
  <2>14. TableAgrees'
    <3>1. e[h] = entry[h] /\ ~e[h].in_cache
      BY <1>4, <2>4, <2>7
    <3>2. ASSUME NEW x \in Keys, table_'[x] # None
          PROVE  entry'[table_'[x]].in_cache /\ entry'[table_'[x]].key = x
      <4>1. CASE x = k
        BY <1>9, <2>6, <2>8, <2>11, <4>1 DEF k
      <4>2. CASE x # k
        <5>1. table_'[x] = t[x] /\ t[x] \in Handles
          BY <2>6, <2>8, <3>2, <4>2
        <5>2. t[x] # h
          BY <2>8, <3>1, <3>2, <5>1
        <5> QED BY <2>8, <2>11, <3>2, <5>1, <5>2
      <4> QED BY <4>1, <4>2
    <3>3. ASSUME NEW g \in Handles, entry'[g].in_cache
          PROVE  entry'[g].key \in Keys /\ table_'[entry'[g].key] = g
      <4>1. CASE g = h
        <5>1. entry'[g].key = k /\ k \in Keys
          BY <1>1, <1>9, <2>11, <4>1 DEF k
        <5>2. table_'[k] = h
          BY <2>6, <2>8, <5>1
        <5> QED BY <4>1, <5>1, <5>2
      <4>2. CASE g # h
        <5>1. entry'[g] = e[g] /\ e[g].key \in Keys /\ t[e[g].key] = g
          BY <2>8, <2>11, <3>3, <4>2
        <5>2. e[g].key # k
          BY <2>9, <5>1, NoneAssumption
        <5> QED BY <2>6, <2>8, <5>1, <5>2
      <4> QED BY <4>1, <4>2
    <3> QED BY <3>2, <3>3 DEF TableAgrees
  <2>15. ListUnused'
    <3>1. ASSUME NEW i \in DOMAIN lru_'
          PROVE  entry'[lru_'[i]].in_cache /\ entry'[lru_'[i]].refs = 1
      <4>1. PICK j \in DOMAIN lru_ : lru_[j] = lru_'[i] /\ lru_[j] \notin E
        BY <2>5
      <4>2. entry'[lru_'[i]] = entry[lru_[j]]
        BY <1>5, <2>7, <2>11, <4>1
      <4> QED BY <4>2 DEF Inv, ListUnused
    <3> QED BY <2>5, <3>1 DEF ListUnused, Distinct
  <2> QED BY <2>12, <2>13, <2>14, <2>15 DEF Inv
<1> QED BY <1>6, <1>7

-----------------------------------------------------------------------------
(***************************************************************************)
(* The theorems.                                                           *)
(***************************************************************************)
LEMMA InvInit ==
    ASSUME Init
    PROVE  Inv
<1>1. /\ table_ = [x \in Keys |-> None] /\ lru_ = <<>> /\ DOMAIN lru_ = {}
      /\ entry = [h \in Handles |-> Freed]
      /\ current = Keys /\ files = Keys /\ caches \in {"tables", "blocks"}
      /\ version = [r \in Readers |-> {}] /\ wanted = [r \in Readers |-> None]
      /\ held = [r \in Readers |-> None]
  BY DEF Init, CacheInit
<1>2. Freed \in EntryType /\ ~Freed.in_cache /\ Freed.refs = 0 /\ Freed.key = None
  BY DEF Freed, EntryType
<1>3. Types
  BY <1>1, <1>2 DEF Types
<1>4. TableAgrees /\ ListUnused
  BY <1>1, <1>2 DEF TableAgrees, ListUnused, Distinct
<1>5. ReadersProtected /\ HandlesAlive /\ DeletedFilesAreClosed
  BY <1>1 DEF ReadersProtected, ReadersHaveTheirFiles, HandlesAlive, DeletedFilesAreClosed
<1>6. ReferencesCounted
  <2>1. \A h \in Handles : HoldersOf(h) = {}
    BY <1>1, NoneAssumption DEF HoldersOf
  <2>2. ASSUME NEW h \in Handles
        PROVE  entry[h] = Freed /\ Cardinality(HoldersOf(h)) = 0
    BY <1>1, <2>1, FS_EmptySet
  <2>3. ASSUME NEW h \in Handles
        PROVE  entry[h].refs = Cardinality(HoldersOf(h)) + (IF entry[h].in_cache THEN 1 ELSE 0)
    BY <1>2, <2>2
  <2> QED BY <2>2, <2>3 DEF ReferencesCounted
<1> QED BY <1>3, <1>4, <1>5, <1>6 DEF Inv

LEMMA InvNext ==
    ASSUME Inv, [Next]_vars
    PROVE  Inv'
<1>1. CASE Next
  BY <1>1, StartReadingStep, StopReadingStep, OpenFailsStep, ReleaseStep, FindStep, MissStep,
     OpenStep, RemoveFileStep, DeleteObsoleteFileStep, PruneStep DEF Next
<1>2. CASE UNCHANGED vars
  <2>1. TableAgrees' /\ ListUnused' /\ ReferencesCounted'
    BY <1>2, CacheUntouched DEF vars, dbVars
  <2>2. /\ Types' /\ ReadersProtected' /\ HandlesAlive' /\ DeletedFilesAreClosed'
    BY <1>2 DEF vars, dbVars, cacheVars, Inv, Types, ReadersProtected,
       ReadersHaveTheirFiles, HandlesAlive, DeletedFilesAreClosed
  <2> QED BY <2>1, <2>2 DEF Inv
<1> QED BY <1>1, <1>2

\* The invariant behind the theorems that follow: whatever readers, compactions and
\* the cache do, the cache's structures agree with each other and with who holds what.
THEOREM InvHolds == Spec => []Inv
BY InvInit, InvNext, PTL DEF Spec

\* The handle of a reader refers to the table or block it asked for until it is
\* released: Lookup, Insert, Release, Erase and Prune of the others, for any number of
\* them, neither free its memory nor give it to another entry.
THEOREM HandlesStayAlive == Spec => []HandlesAlive
<1>1. Inv => HandlesAlive
  BY DEF Inv
<1> QED BY <1>1, InvHolds, PTL

\* Every entry has as many references as the cache and its clients have to it, so the
\* last one to go frees it, and none is left behind.
THEOREM ReferencesAreCounted == Spec => []ReferencesCounted
<1>1. Inv => ReferencesCounted
  BY DEF Inv
<1> QED BY <1>1, InvHolds, PTL

\* DeleteObsoleteFiles deletes no file that a reader has open or is opening, and once
\* it has evicted a table no entry for it is left or comes back.
THEOREM DeletedFilesStayClosed == Spec => []DeletedFilesAreClosed
<1>1. Inv => DeletedFilesAreClosed
  BY DEF Inv
<1> QED BY <1>1, InvHolds, PTL

-----------------------------------------------------------------------------
(***************************************************************************)
(* The sum of charges.  MapThenSumSet is a recursive function on the       *)
(* subsets of its argument, which takes an element that CHOOSE picks.      *)
(***************************************************************************)
TotalCharge(w, E) == MapThenSumSet(LAMBDA h : w[h].charge, E)
ChargesIn(w, E) == [h \in E |-> w[h].charge]

\* A finite set whose elements have charges.
Charged(w, E) == IsFiniteSet(E) /\ \A x \in E : w[x].charge \in Nat

LEMMA ChargesAre ==
    ASSUME NEW w, NEW E, Charged(w, E)
    PROVE  /\ Summable(ChargesIn(w, E), E)
           /\ \A x \in E : ChargesIn(w, E)[x] = w[x].charge
BY DEF Charged, ChargesIn, Summable

LEMMA TotalChargeIs ==
    ASSUME NEW w, NEW E, IsFiniteSet(E), NEW D \in SUBSET E
    PROVE  TotalCharge(w, D) = Total(ChargesIn(w, E), D)
<1> DEFINE IsFold(f) ==
        f = [s \in SUBSET D |-> IF s = {} THEN 0 ELSE w[Picked(s)].charge + f[s \ {Picked(s)}]]
           v == ChargesIn(w, E)
<1>1. IsFiniteSet(D) /\ D \in SUBSET D
  BY FS_Subset
<1>2. TotalCharge(w, D) = (CHOOSE f : IsFold(f))[D]
  BY DEF TotalCharge, MapThenSumSet, MapThenFoldSet, Picked
<1>3. \A f : IsFold(f) <=> IsSum(v, D, f)
  <2>1. \A s \in SUBSET D : s # {} => v[Picked(s)] = w[Picked(s)].charge
    BY PickedIn DEF ChargesIn
  <2> SUFFICES ASSUME NEW f PROVE IsFold(f) <=> IsSum(v, D, f)
    OBVIOUS
  <2> HIDE DEF v
  <2>2. [s \in SUBSET D |-> IF s = {} THEN 0 ELSE w[Picked(s)].charge + f[s \ {Picked(s)}]]
      = [s \in SUBSET D |-> IF s = {} THEN 0 ELSE v[Picked(s)] + f[s \ {Picked(s)}]]
    BY <2>1
  <2> QED BY <2>2 DEF IsSum
<1> HIDE DEF IsFold, v
<1>4. \E f : IsFold(f)
  BY <1>1, <1>3, SumExists
<1>5. IsFold(CHOOSE f : IsFold(f))
  BY <1>4
<1>6. IsSum(v, D, CHOOSE f : IsFold(f))
  BY <1>3, <1>5
<1> QED BY <1>1, <1>2, <1>6, TotalIs DEF v

LEMMA NoCharge == ASSUME NEW w PROVE TotalCharge(w, {}) = 0
BY TotalChargeIs, TotalOfNone, FS_EmptySet

LEMMA ChargeInNat ==
    ASSUME NEW w, NEW E, Charged(w, E)
    PROVE  TotalCharge(w, E) \in Nat
<1>1. IsFiniteSet(E) /\ E \in SUBSET E
  BY DEF Charged
<1> QED BY <1>1, ChargesAre, TotalChargeIs, TotalInNat

\* What one element adds.
LEMMA ChargeOne ==
    ASSUME NEW w, NEW E, Charged(w, E), NEW x \in E
    PROVE  TotalCharge(w, E) = w[x].charge + TotalCharge(w, E \ {x})
<1>1. IsFiniteSet(E) /\ E \in SUBSET E /\ E \ {x} \in SUBSET E
  BY DEF Charged
<1>2. Total(ChargesIn(w, E), E) = ChargesIn(w, E)[x] + Total(ChargesIn(w, E), E \ {x})
  BY ChargesAre, TotalOne
<1> QED BY <1>1, <1>2, ChargesAre, TotalChargeIs

\* The sum of a set is that of a part and that of the rest.
LEMMA ChargeParts ==
    ASSUME NEW w, NEW E, Charged(w, E), NEW D \in SUBSET E
    PROVE  TotalCharge(w, E) = TotalCharge(w, D) + TotalCharge(w, E \ D)
<1>1. IsFiniteSet(E) /\ E \in SUBSET E /\ E \ D \in SUBSET E
  BY DEF Charged
<1>2. Total(ChargesIn(w, E), E) = Total(ChargesIn(w, E), D) + Total(ChargesIn(w, E), E \ D)
  BY ChargesAre, TotalParts
<1> QED BY <1>1, <1>2, TotalChargeIs

\* Only the charges of the elements matter.
LEMMA ChargeSame ==
    ASSUME NEW w, NEW v, NEW E, IsFiniteSet(E), \A x \in E : w[x].charge = v[x].charge
    PROVE  TotalCharge(w, E) = TotalCharge(v, E)
<1>1. ChargesIn(w, E) = ChargesIn(v, E)
  BY DEF ChargesIn
<1>2. E \in SUBSET E
  OBVIOUS
<1> QED BY <1>1, <1>2, TotalChargeIs

-----------------------------------------------------------------------------
(***************************************************************************)
(* The two lists of the cache, and usage_.                                 *)
(***************************************************************************)
CachedIn(w) == {h \in Handles : w[h].in_cache}

\* Each cached entry is in one of the two lists, and usage_ is what they are charged.
ListInv ==
    /\ capacity_ \in Nat
    /\ \A h \in Handles : entry[h].in_cache /\ entry[h].refs = 1 => h \in InLRU
    /\ in_use_ = {h \in CachedIn(entry) : entry[h].refs # 1}
    /\ IsFiniteSet(CachedIn(entry)) /\ usage_ = TotalCharge(entry, CachedIn(entry))

LEMMA ChargeOfIs ==
    ASSUME NEW E
    PROVE  ChargeOf(E) = TotalCharge(entry, E)
BY DEF TotalCharge, ChargeOf

LEMMA CachedCharged ==
    ASSUME Inv, ListInv, NEW E \in SUBSET CachedIn(entry)
    PROVE  Charged(entry, E) /\ ChargeOf(E) \in Nat /\ usage_ \in Nat
<1>1. \A D \in SUBSET CachedIn(entry) : Charged(entry, D)
  BY FS_Subset DEF Charged, ListInv, CachedIn, Inv, Types, EntryType
<1>2. CachedIn(entry) \in SUBSET CachedIn(entry)
  OBVIOUS
<1> QED BY <1>1, <1>2, ChargeInNat, ChargeOfIs DEF ListInv

\* Steps after which the same entries are cached.
LEMMA SameCached ==
    ASSUME Inv, ListInv, \A h \in Handles : entry'[h].in_cache <=> entry[h].in_cache,
           \A h \in CachedIn(entry) : entry'[h].charge = entry[h].charge,
           UNCHANGED <<capacity_, usage_>>
    PROVE  /\ IsFiniteSet(CachedIn(entry')) /\ usage_' = TotalCharge(entry', CachedIn(entry'))
           /\ CachedIn(entry') = CachedIn(entry)
<1>1. CachedIn(entry') = CachedIn(entry)
  BY DEF CachedIn
<1>2. TotalCharge(entry', CachedIn(entry)) = TotalCharge(entry, CachedIn(entry))
  BY ChargeSame DEF ListInv
<1> QED BY <1>1, <1>2 DEF ListInv

\* What is left after some entries have gone.
LEMMA LessCached ==
    ASSUME Inv, ListInv, NEW E \in SUBSET CachedIn(entry)
    PROVE  LET e == Erased(E)
           IN  /\ CachedIn(e) = CachedIn(entry) \ E /\ IsFiniteSet(CachedIn(e))
               /\ TotalCharge(e, CachedIn(e)) = usage_ - ChargeOf(E)
               /\ TotalCharge(e, CachedIn(e)) \in Nat
               /\ \A h \in Handles \ E : e[h] = entry[h]
<1> DEFINE e == Erased(E)
           C == CachedIn(entry)
<1>1. E \in SUBSET Handles /\ \A h \in E : entry[h].in_cache
  BY DEF CachedIn
<1>2. (\A h \in Handles \ E : e[h] = entry[h]) /\ \A h \in E : ~e[h].in_cache
  BY <1>1, ErasedKeeps DEF Inv
<1> HIDE DEF e
<1>3. CachedIn(e) = C \ E
  BY <1>1, <1>2 DEF CachedIn
<1>4. Charged(entry, C) /\ Charged(entry, C \ E) /\ C \ E \subseteq Handles \ E
  <2>1. C \in SUBSET CachedIn(entry) /\ C \ E \in SUBSET CachedIn(entry)
    OBVIOUS
  <2>2. C \ E \subseteq Handles \ E
    BY DEF CachedIn
  <2> QED BY <2>1, <2>2, CachedCharged
<1>5. IsFiniteSet(C \ E)
  BY <1>4 DEF Charged
<1>6. TotalCharge(e, C \ E) = TotalCharge(entry, C \ E)
  BY <1>2, <1>4, <1>5, ChargeSame
<1>7. TotalCharge(entry, C) = TotalCharge(entry, E) + TotalCharge(entry, C \ E)
  BY <1>4, ChargeParts
<1>8. TotalCharge(entry, E) \in Nat /\ TotalCharge(entry, C \ E) \in Nat
  BY <1>4, CachedCharged, ChargeOfIs, ChargeInNat
<1>9. TotalCharge(entry, C \ E) = usage_ - ChargeOf(E)
  <2>1. usage_ = TotalCharge(entry, C)
    BY DEF ListInv
  <2> HIDE DEF C
  <2> QED BY <1>7, <1>8, <2>1, ChargeOfIs
<1> QED BY <1>2, <1>3, <1>5, <1>6, <1>8, <1>9 DEF e

LEMMA ListUntouched ==
    ASSUME ListInv, UNCHANGED cacheVars
    PROVE  ListInv' /\ usage_' = usage_
<1>1. CachedIn(entry)' = CachedIn(entry) /\ InLRU' = InLRU /\ entry' = entry /\ usage_' = usage_
  BY DEF CachedIn, InLRU, cacheVars
<1>2. capacity_' = capacity_ /\ in_use_' = in_use_
  BY DEF cacheVars
<1> QED BY <1>1, <1>2 DEF ListInv

LEMMA InLRUIs == ASSUME Inv PROVE \A h \in InLRU : h \in CachedIn(entry) /\ entry[h].refs = 1
BY LenProperties DEF InLRU, CachedIn, Inv, Types, ListUnused

\* Ref takes the entry from the LRU list, if it is there.
LEMMA FindList ==
    ASSUME Inv, ListInv, NEW r \in Readers, NEW k \in Keys, Find(r, k)
    PROVE  ListInv' /\ usage_' = usage_
<1>1. PICK h \in Handles : table_[k] = h /\ Ref(h)
  BY DEF Inv, Types, Find, Lookup, Cached
<1>2. entry[h].in_cache /\ entry[h] \in EntryType /\ entry[h].refs \in Nat /\ entry[h].refs # 0
  <2>1. entry[h].in_cache /\ entry[h] \in EntryType
    BY <1>1, NoneAssumption DEF Inv, Types, TableAgrees
  <2>2. entry[h].refs # 0
    BY <2>1 DEF Inv, ReferencesCounted, Freed
  <2> QED BY <2>1, <2>2 DEF EntryType
<1>3. /\ UNCHANGED <<capacity_, usage_>>
      /\ entry' = [entry EXCEPT ![h] = [entry[h] EXCEPT !.refs = @ + 1]]
  BY <1>1 DEF Ref
<1>4. /\ entry'[h].refs = entry[h].refs + 1 /\ entry'[h].refs # 1
      /\ entry'[h].in_cache /\ entry'[h].charge = entry[h].charge
      /\ \A g \in Handles \ {h} : entry'[g] = entry[g]
  BY <1>2, <1>3 DEF Inv, Types, EntryType
<1>5. \A g \in Handles : entry'[g].in_cache <=> entry[g].in_cache
  BY <1>2, <1>4
<1>6. /\ IsFiniteSet(CachedIn(entry')) /\ usage_' = TotalCharge(entry', CachedIn(entry'))
      /\ CachedIn(entry') = CachedIn(entry)
  <2>1. \A g \in CachedIn(entry) : entry'[g].charge = entry[g].charge
    BY <1>4 DEF CachedIn
  <2> QED BY <1>3, <1>5, <2>1, SameCached
<1>7. h \in CachedIn(entry)
  BY <1>2 DEF CachedIn
<1>8. CASE entry[h].refs = 1
  <2>1. lru_' = RemoveFirst(lru_, h) /\ in_use_' = in_use_ \cup {h}
    BY <1>1, <1>2, <1>8 DEF Ref
  <2>2. \A j \in DOMAIN lru_ : lru_[j] # h => \E i \in DOMAIN lru_' : lru_'[i] = lru_[j]
    BY <2>1, RemoveFirstKeeps DEF Inv, Types, ListUnused
  <2>3. \A g \in Handles : entry'[g].in_cache /\ entry'[g].refs = 1 => g \in InLRU'
    BY <1>4, <2>2 DEF ListInv, InLRU
  <2>4. in_use_' = {g \in CachedIn(entry) : entry'[g].refs # 1}
    BY <1>4, <1>7, <2>1 DEF ListInv, CachedIn
  <2> QED BY <1>3, <1>6, <2>3, <2>4 DEF ListInv
<1>9. CASE entry[h].refs # 1
  <2>1. lru_' = lru_ /\ in_use_' = in_use_
    BY <1>1, <1>9 DEF Ref
  <2>2. InLRU' = InLRU
    BY <2>1 DEF InLRU
  <2>3. \A g \in Handles : entry'[g].in_cache /\ entry'[g].refs = 1 => g \in InLRU'
    BY <1>4, <2>2 DEF ListInv
  <2>4. in_use_' = {g \in CachedIn(entry) : entry'[g].refs # 1}
    BY <1>4, <1>9, <2>1 DEF ListInv, CachedIn
  <2> QED BY <1>3, <1>6, <2>3, <2>4 DEF ListInv
<1> QED BY <1>3, <1>8, <1>9

\* The last client's Release puts it there.
LEMMA ReleaseList ==
    ASSUME Inv, ListInv, NEW r \in Readers, ReleaseHandle(r)
    PROVE  ListInv' /\ usage_' = usage_
<1>1. PICK h \in Handles : held[r] = h /\ Release(h)
  BY DEF Inv, Types, ReleaseHandle
<1>2. /\ entry[h] \in EntryType /\ entry[h].refs \in Nat
      /\ entry[h].in_cache => entry[h].refs # 1
  <2>1. entry[h].in_cache => entry[h].refs # 1
    BY <1>1, IsHeld, NoneAssumption DEF Inv, Types
  <2> QED BY <2>1 DEF Inv, Types, EntryType
<1>3. UNCHANGED <<capacity_, usage_>> /\ entry' = [entry EXCEPT ![h] = Unref(@)]
  BY <1>1 DEF Release
<1>4. /\ \A g \in Handles \ {h} : entry'[g] = entry[g]
      /\ entry'[h].in_cache <=> entry[h].in_cache
      /\ entry[h].in_cache => entry'[h].charge = entry[h].charge
                              /\ entry'[h].refs = entry[h].refs - 1
  <2>1. entry'[h] = Unref(entry[h]) /\ \A g \in Handles \ {h} : entry'[g] = entry[g]
    BY <1>3 DEF Inv, Types
  <2>2. CASE entry[h].refs = 1
    BY <1>2, <2>1, <2>2 DEF Unref, Freed
  <2>3. CASE entry[h].refs # 1
    BY <1>2, <2>1, <2>3 DEF Unref, EntryType
  <2> QED BY <2>1, <2>2, <2>3
<1>5. /\ IsFiniteSet(CachedIn(entry')) /\ usage_' = TotalCharge(entry', CachedIn(entry'))
      /\ CachedIn(entry') = CachedIn(entry)
  <2>1. \A g \in CachedIn(entry) : entry'[g].charge = entry[g].charge
    BY <1>4 DEF CachedIn
  <2>2. \A g \in Handles : entry'[g].in_cache <=> entry[g].in_cache
    BY <1>4
  <2> QED BY <1>3, <2>1, <2>2, SameCached
<1>6. CASE LastClientOf(entry[h])
  <2>1. lru_' = Append(lru_, h) /\ in_use_' = in_use_ \ {h}
    BY <1>1, <1>6 DEF Release
  <2>2. /\ \A j \in DOMAIN lru_ : j \in DOMAIN lru_' /\ lru_'[j] = lru_[j]
        /\ \E j \in DOMAIN lru_' : lru_'[j] = h
    BY <2>1, AppendProperties, LenProperties DEF Inv, Types
  <2>3. entry'[h].refs = 1 /\ h \in CachedIn(entry)
    BY <1>4, <1>6 DEF LastClientOf, CachedIn
  <2>4. \A g \in Handles : entry'[g].in_cache /\ entry'[g].refs = 1 => g \in InLRU'
    BY <1>4, <2>2 DEF ListInv, InLRU
  <2>5. in_use_' = {g \in CachedIn(entry) : entry'[g].refs # 1}
    BY <1>4, <2>1, <2>3 DEF ListInv, CachedIn
  <2> QED BY <1>3, <1>5, <2>4, <2>5 DEF ListInv
<1>7. CASE ~LastClientOf(entry[h])
  <2>1. lru_' = lru_ /\ in_use_' = in_use_
    BY <1>1, <1>7 DEF Release
  <2>2. InLRU' = InLRU
    BY <2>1 DEF InLRU
  <2>3. entry[h].in_cache => entry'[h].refs # 1
    BY <1>2, <1>4, <1>7 DEF LastClientOf
  <2>4. \A g \in Handles : entry'[g].in_cache /\ entry'[g].refs = 1 => g \in InLRU'
    BY <1>4, <2>2, <2>3 DEF ListInv
  <2>5. in_use_' = {g \in CachedIn(entry) : entry'[g].refs # 1}
    BY <1>2, <1>4, <2>1, <2>3 DEF ListInv, CachedIn
  <2> QED BY <1>3, <1>5, <2>4, <2>5 DEF ListInv
<1> QED BY <1>3, <1>6, <1>7

-----------------------------------------------------------------------------
(***************************************************************************)
(* Erase, Prune and Insert: the lists and usage_.                          *)
(***************************************************************************)
\* What Erase, Prune and Insert leave of the two lists.
LEMMA LessListed ==
    ASSUME Inv, ListInv, NEW E \in SUBSET CachedIn(entry), NEW list \in Seq(Handles),
           \A j \in DOMAIN lru_ : lru_[j] \notin E => \E i \in DOMAIN list : list[i] = lru_[j]
    PROVE  LET e == Erased(E)
           IN  /\ \A h \in Handles : e[h].in_cache /\ e[h].refs = 1 => h \in {list[i] : i \in DOMAIN list}
               /\ in_use_ \ E = {h \in CachedIn(e) : e[h].refs # 1}
<1> DEFINE e == Erased(E)
<1>1. CachedIn(e) = CachedIn(entry) \ E /\ \A h \in Handles \ E : e[h] = entry[h]
  BY LessCached
<1> HIDE DEF e
<1>2. ASSUME NEW h \in Handles, e[h].in_cache, e[h].refs = 1
      PROVE  h \in {list[i] : i \in DOMAIN list}
  <2>1. h \in Handles \ E
    BY <1>1, <1>2 DEF CachedIn
  <2>2. h \in InLRU
    BY <1>1, <1>2, <2>1 DEF ListInv
  <2>3. PICK j \in DOMAIN lru_ : lru_[j] = h
    BY <2>2 DEF InLRU
  <2> QED BY <2>1, <2>3
<1>3. in_use_ \ E = {h \in CachedIn(e) : e[h].refs # 1}
  BY <1>1 DEF ListInv, CachedIn
<1> QED BY <1>2, <1>3 DEF e

LEMMA EraseList ==
    ASSUME Inv, ListInv, NEW k \in Keys, DeleteObsoleteFile(k)
    PROVE  ListInv' /\ usage_' <= usage_
<1> DEFINE E == Cached(k)
<1>1. /\ entry' = Erased(E) /\ usage_' = usage_ - ChargeOf(E)
      /\ lru_' = RemoveFirst(lru_, table_[k]) /\ in_use_' = in_use_ \ E /\ capacity_' = capacity_
  BY DEF DeleteObsoleteFile, Erase
<1>2. E \in SUBSET CachedIn(entry)
  BY CachedEntries DEF CachedIn
<1>3. /\ lru_' \in Seq(Handles)
      /\ \A j \in DOMAIN lru_ : lru_[j] \notin E => \E i \in DOMAIN lru_' : lru_'[i] = lru_[j]
  <2>1. \A j \in DOMAIN lru_ : lru_[j] # table_[k] => \E i \in DOMAIN lru_' : lru_'[i] = lru_[j]
    BY <1>1, RemoveFirstKeeps DEF Inv, Types, ListUnused
  <2>2. lru_' \in Seq(Handles)
    BY <1>1, RemoveFirstKeeps DEF Inv, Types, ListUnused
  <2>3. \A j \in DOMAIN lru_ : lru_[j] \in Handles
    BY LenProperties DEF Inv, Types
  <2> QED BY <2>1, <2>2, <2>3, NoneAssumption DEF Cached
<1> HIDE DEF E
<1>4. /\ \A h \in Handles : entry'[h].in_cache /\ entry'[h].refs = 1 => h \in InLRU'
      /\ in_use_' = {h \in CachedIn(entry') : entry'[h].refs # 1}
  BY <1>1, <1>2, <1>3, LessListed DEF InLRU
<1>5. IsFiniteSet(CachedIn(entry')) /\ TotalCharge(entry', CachedIn(entry')) = usage_'
  BY <1>1, <1>2, LessCached
<1>6. usage_' <= usage_
  BY <1>1, <1>2, CachedCharged
<1> QED BY <1>1, <1>4, <1>5, <1>6 DEF ListInv

LEMMA PruneList ==
    ASSUME Inv, ListInv, PruneBlocks
    PROVE  ListInv' /\ usage_' <= usage_
<1>1. /\ entry' = Erased(InLRU) /\ usage_' = usage_ - ChargeOf(InLRU) /\ lru_' = <<>>
      /\ in_use_' = in_use_ /\ capacity_' = capacity_
  BY DEF PruneBlocks, Prune, InLRU
<1>2. InLRU \in SUBSET CachedIn(entry)
  BY InLRUIs
<1>3. in_use_ \ InLRU = in_use_
  BY InLRUIs DEF ListInv
<1>4. /\ lru_' \in Seq(Handles)
      /\ \A j \in DOMAIN lru_ : lru_[j] \notin InLRU => \E i \in DOMAIN lru_' : lru_'[i] = lru_[j]
  BY <1>1 DEF InLRU
<1>5. /\ \A h \in Handles : entry'[h].in_cache /\ entry'[h].refs = 1
             => h \in {lru_'[i] : i \in DOMAIN lru_'}
      /\ in_use_ \ InLRU = {h \in CachedIn(entry') : entry'[h].refs # 1}
  BY <1>1, <1>2, <1>4, LessListed
<1>6. IsFiniteSet(CachedIn(entry')) /\ TotalCharge(entry', CachedIn(entry')) = usage_'
  BY <1>1, <1>2, LessCached
<1>7. usage_' <= usage_
  BY <1>1, <1>2, CachedCharged
<1>8. InLRU' = {lru_'[i] : i \in DOMAIN lru_'}
  BY DEF InLRU
<1> QED BY <1>1, <1>3, <1>5, <1>6, <1>7, <1>8 DEF ListInv

\* Insert: the old entry of the key goes, then as many of the oldest as it takes.
LEMMA OpenList ==
    ASSUME Inv, ListInv, NEW r \in Readers, NEW h \in Handles, Open(r, h)
    PROVE  /\ ListInv'
           /\ usage_' > usage_ => usage_' <= capacity_ \/ lru_' = <<>>
<1> DEFINE k == wanted[r]
           new == [key |-> k, charge |-> Charge(k), refs |-> 2, in_cache |-> TRUE]
           fresh == [key |-> k, charge |-> Charge(k), refs |-> 1, in_cache |-> FALSE]
<1>1. k \in Keys /\ entry[h] = Freed /\ Insert(k, Charge(k), h)
  BY DEF Open, Opening, Inv, Types
<1>2. Charge(k) \in Nat
  BY <1>1, ChargesAssumption DEF Charge
<1>3. h \notin CachedIn(entry)
  BY <1>1 DEF CachedIn, Freed
<1>4. CASE capacity_ = 0
  <2>1. UNCHANGED <<capacity_, usage_, lru_, in_use_>> /\ entry' = [entry EXCEPT ![h] = fresh]
    BY <1>1, <1>4 DEF Insert
  <2>2. ~entry'[h].in_cache /\ \A g \in Handles \ {h} : entry'[g] = entry[g]
    BY <2>1 DEF Inv, Types
  <2> HIDE DEF fresh, k
  <2>3. \A g \in Handles : entry'[g].in_cache <=> entry[g].in_cache
    BY <1>3, <2>2 DEF CachedIn
  <2>4. \A g \in CachedIn(entry) : g # h /\ entry'[g] = entry[g]
    BY <1>3, <2>2 DEF CachedIn
  <2>5. /\ IsFiniteSet(CachedIn(entry')) /\ usage_' = TotalCharge(entry', CachedIn(entry'))
        /\ CachedIn(entry') = CachedIn(entry)
    BY <2>1, <2>3, <2>4, SameCached
  <2>6. InLRU' = InLRU
    BY <2>1 DEF InLRU
  <2>7. \A g \in Handles : entry'[g].in_cache /\ entry'[g].refs = 1 => g \in InLRU'
    BY <2>2, <2>6 DEF ListInv
  <2>8. in_use_' = {g \in CachedIn(entry) : entry'[g].refs # 1}
    BY <2>1, <2>4 DEF ListInv
  <2>9. usage_' = usage_ /\ usage_ \in Nat
    BY <2>1, CachedCharged
  <2> QED BY <2>1, <2>5, <2>7, <2>8, <2>9 DEF ListInv
<1>5. CASE capacity_ # 0
  <2> DEFINE list == IF Cached(k) = {} THEN lru_ ELSE RemoveFirst(lru_, table_[k])
             old(n) == {list[i] : i \in 1..n}
             usage == usage_ + Charge(k) - ChargeOf(Cached(k))
  <2>1. PICK n \in 0..Len(list) :
            /\ Evict(usage, list, n)
            /\ entry' = [Erased(Cached(k) \cup old(n)) EXCEPT ![h] = new]
            /\ usage_' = usage - ChargeOf(old(n))
            /\ lru_' = SubSeq(list, n + 1, Len(list))
            /\ in_use_' = (in_use_ \ Cached(k)) \cup {h}
            /\ capacity_' = capacity_
    BY <1>1, <1>5 DEF Insert
  <2>2. n < Len(list) => usage_' <= capacity_
    BY <2>1 DEF Evict
  <2> DEFINE E == Cached(k) \cup old(n)
             e == Erased(E)
  <2>3. Distinct(lru_) /\ lru_ \in Seq(Handles)
    BY DEF Inv, Types, ListUnused
  <2>4. /\ list \in Seq(Handles) /\ Distinct(list)
        /\ \A i \in DOMAIN list : \E j \in DOMAIN lru_ : lru_[j] = list[i] /\ lru_[j] \notin Cached(k)
        /\ \A j \in DOMAIN lru_ : lru_[j] \notin Cached(k) => \E i \in DOMAIN list : list[i] = lru_[j]
    <3>1. CASE Cached(k) = {}
      BY <2>3, <3>1
    <3>2. CASE Cached(k) # {}
      <4>1. list = RemoveFirst(lru_, table_[k]) /\ Cached(k) = {table_[k]}
        BY <3>2 DEF Cached
      <4> HIDE DEF list
      <4>2. /\ list \in Seq(Handles) /\ Distinct(list)
            /\ \A i \in DOMAIN list : \E j \in DOMAIN lru_ : lru_[j] = list[i] /\ lru_[j] # table_[k]
            /\ \A j \in DOMAIN lru_ : lru_[j] # table_[k] => \E i \in DOMAIN list : list[i] = lru_[j]
        BY <2>3, <4>1, RemoveFirstKeeps
      <4> QED BY <4>1, <4>2
    <3> QED BY <3>1, <3>2
  <2> HIDE DEF list, new, usage
  <2>5. DOMAIN list = 1..Len(list) /\ Len(list) \in Nat
    BY <2>4, LenProperties
  <2>6. old(n) \subseteq InLRU /\ old(n) \cap Cached(k) = {}
    <3>1. \A i \in 1..n : i \in DOMAIN list
      BY <2>5
    <3> QED BY <2>4, <3>1 DEF InLRU
  <2> HIDE DEF old
  <2>7. /\ Cached(k) \in SUBSET CachedIn(entry) /\ old(n) \in SUBSET CachedIn(entry)
        /\ E \in SUBSET CachedIn(entry)
    <3>1. Cached(k) \in SUBSET CachedIn(entry)
      <4> HIDE DEF k
      <4> QED BY <1>1, CachedEntries DEF CachedIn
    <3>2. old(n) \in SUBSET CachedIn(entry)
      BY <2>6, InLRUIs
    <3> QED BY <3>1, <3>2
  <2>8. ChargeOf(E) = ChargeOf(Cached(k)) + ChargeOf(old(n))
    <3>1. E \ Cached(k) = old(n) /\ Cached(k) \in SUBSET E
      BY <2>6
    <3>2. Charged(entry, E)
      BY <2>7, CachedCharged
    <3> HIDE DEF E, k
    <3> QED BY <3>1, <3>2, ChargeParts, ChargeOfIs
  <2>9. /\ lru_' \in Seq(Handles) /\ Distinct(lru_')
        /\ \A j \in DOMAIN list : (\A m \in 1..n : list[m] # list[j])
               => \E i \in DOMAIN lru_' : lru_'[i] = list[j]
    <3> DEFINE t == SubSeq(list, n + 1, Len(list))
    <3>1. n \in 0..Len(list) /\ lru_' = t
      BY <2>1
    <3>2. list \in Seq(Handles) /\ Distinct(list)
      BY <2>4
    <3>3. t \in Seq(Handles) /\ Distinct(t)
      BY <3>1, <3>2, TailKeeps
    <3>4. \A j \in DOMAIN list :
              (\A m \in 1..n : list[m] # list[j]) => \E i \in DOMAIN t : t[i] = list[j]
      BY <3>1, <3>2, TailHas
    <3> HIDE DEF t
    <3> QED BY <3>1, <3>3, <3>4
  <2>10. \A j \in DOMAIN lru_ : lru_[j] \notin E => \E i \in DOMAIN lru_' : lru_'[i] = lru_[j]
    <3> SUFFICES ASSUME NEW j \in DOMAIN lru_, lru_[j] \notin E
                 PROVE  \E i \in DOMAIN lru_' : lru_'[i] = lru_[j]
      OBVIOUS
    <3>1. PICK m \in DOMAIN list : list[m] = lru_[j]
      BY <2>4
    <3>2. \A i \in 1..n : list[i] # list[m]
      BY <3>1 DEF old
    <3> QED BY <2>9, <3>1, <3>2
  <2>11. in_use_ \ Cached(k) = in_use_ \ E
    <3>1. in_use_ \cap old(n) = {}
      BY <2>6, InLRUIs DEF ListInv
    <3> QED BY <3>1
  <2> HIDE DEF E, k
  <2>12. /\ CachedIn(e) = CachedIn(entry) \ E /\ IsFiniteSet(CachedIn(e))
         /\ TotalCharge(e, CachedIn(e)) = usage_ - ChargeOf(E)
         /\ TotalCharge(e, CachedIn(e)) \in Nat
    BY <2>7, LessCached
  <2>13. /\ \A g \in Handles : e[g].in_cache /\ e[g].refs = 1 => g \in InLRU'
         /\ in_use_ \ E = {g \in CachedIn(e) : e[g].refs # 1}
    BY <2>7, <2>9, <2>10, LessListed DEF InLRU
  <2>14. e \in [Handles -> EntryType] /\ entry' = [e EXCEPT ![h] = new]
    <3>1. E \in SUBSET Handles /\ \A g \in E : entry[g].in_cache
      BY <2>7 DEF CachedIn
    <3>2. e \in [Handles -> EntryType]
      BY <3>1, ErasedKeeps DEF Inv
    <3> QED BY <2>1, <3>2 DEF E
  <2> HIDE DEF e
  <2>15. /\ entry'[h] = new /\ \A g \in Handles \ {h} : entry'[g] = e[g]
         /\ new.in_cache /\ new.refs = 2 /\ new.charge = Charge(k)
    BY <2>14 DEF new
  <2>16. h \notin CachedIn(e) /\ CachedIn(entry') = CachedIn(e) \cup {h}
    <3>1. h \notin CachedIn(e)
      BY <1>3, <2>12
    <3> QED BY <2>15, <3>1 DEF CachedIn
  <2>17. /\ IsFiniteSet(CachedIn(entry'))
         /\ TotalCharge(entry', CachedIn(entry')) = Charge(k) + TotalCharge(e, CachedIn(e))
    <3>1. IsFiniteSet(CachedIn(entry'))
      <4>1. IsFiniteSet(CachedIn(e) \cup {h})
        BY <2>12, FS_AddElement
      <4> QED BY <2>16, <4>1
    <3>2. Charged(entry', CachedIn(entry'))
      <4>1. \A g \in CachedIn(e) : g \in Handles \ {h} /\ e[g].charge \in Nat
        BY <2>14, <2>16 DEF CachedIn, EntryType
      <4> QED BY <1>2, <2>15, <2>16, <3>1, <4>1 DEF Charged
    <3>3. CachedIn(entry') \ {h} = CachedIn(e) /\ h \in CachedIn(entry')
      BY <2>16
    <3>4. TotalCharge(entry', CachedIn(entry'))
              = entry'[h].charge + TotalCharge(entry', CachedIn(e))
      BY <3>2, <3>3, ChargeOne
    <3>5. TotalCharge(entry', CachedIn(e)) = TotalCharge(e, CachedIn(e))
      <4>1. \A g \in CachedIn(e) : entry'[g].charge = e[g].charge
        BY <2>15, <2>16 DEF CachedIn
      <4> QED BY <2>12, <4>1, ChargeSame
    <3> QED BY <2>15, <3>1, <3>4, <3>5
  <2>18. usage_' = TotalCharge(entry', CachedIn(entry'))
    <3>1. /\ ChargeOf(Cached(k)) \in Nat /\ ChargeOf(old(n)) \in Nat /\ usage_ \in Nat
      BY <2>7, CachedCharged
    <3> QED BY <1>2, <2>1, <2>8, <2>12, <2>17, <3>1 DEF usage
  <2>19. \A g \in Handles : entry'[g].in_cache /\ entry'[g].refs = 1 => g \in InLRU'
    BY <2>13, <2>15
  <2>20. in_use_' = {g \in CachedIn(entry') : entry'[g].refs # 1}
    <3>1. \A g \in CachedIn(e) : entry'[g] = e[g]
      BY <2>15, <2>16 DEF CachedIn
    <3>2. in_use_' = {g \in CachedIn(e) : e[g].refs # 1} \cup {h}
      BY <2>1, <2>11, <2>13
    <3>3. entry'[h].refs # 1
      BY <2>15
    <3> QED BY <2>16, <3>1, <3>2, <3>3
  <2>21. n < Len(list) \/ lru_' = <<>>
    <3>1. n \in 0..Len(list)
      BY <2>1
    <3>2. n < Len(list) \/ n = Len(list)
      <4>1. Len(list) \in Nat
        BY <2>5
      <4>2. n \in Nat /\ n <= Len(list)
        BY <3>1, <4>1
      <4> QED BY <4>1, <4>2
    <3>3. ASSUME n = Len(list)
          PROVE  lru_' = <<>>
      <4>1. lru_' = SubSeq(list, n + 1, Len(list))
        BY <2>1
      <4>2. Len(lru_') = Len(list) - n
        BY <2>4, <3>1, <4>1, Suffix
      <4>3. Len(lru_') = 0
        BY <2>5, <3>3, <4>2
      <4> QED BY <2>9, <4>3, EmptySeq
    <3> QED BY <3>2, <3>3
  <2> QED BY <2>1, <2>2, <2>17, <2>18, <2>19, <2>20, <2>21 DEF ListInv
<1> QED BY <1>4, <1>5

-----------------------------------------------------------------------------
(***************************************************************************)
(* The theorems about the lists and usage_.                                *)
(***************************************************************************)
LEMMA ListInit ==
    ASSUME Init
    PROVE  ListInv
<1>1. /\ capacity_ \in Nat /\ usage_ = 0 /\ in_use_ = {} /\ entry = [h \in Handles |-> Freed]
  BY CapacitiesAssumption DEF Init, CacheInit
<1>2. CachedIn(entry) = {}
  BY <1>1 DEF CachedIn, Freed
<1>3. TotalCharge(entry, {}) = 0 /\ IsFiniteSet({})
  BY NoCharge, FS_EmptySet
<1>4. \A h \in Handles : ~entry[h].in_cache
  BY <1>1 DEF Freed
<1> QED BY <1>1, <1>2, <1>3, <1>4 DEF ListInv

\* Only Insert makes the cache grow.
LEMMA ListNext ==
    ASSUME Inv, ListInv, [Next]_vars
    PROVE  /\ ListInv'
           /\ usage_' > usage_ => usage_' <= capacity_ \/ lru_' = <<>>
<1> DEFINE Goal == ListInv' /\ (usage_' > usage_ => usage_' <= capacity_ \/ lru_' = <<>>)
<1>1. usage_ \in Nat
  BY CachedCharged
<1>2. ASSUME ListInv', usage_' = usage_ PROVE Goal
  BY <1>1, <1>2
<1>3. ASSUME ListInv', Inv', usage_' <= usage_ PROVE Goal
  <2>1. usage_' \in Nat
    <3>1. IsFiniteSet(CachedIn(entry')) /\ usage_' = TotalCharge(entry', CachedIn(entry'))
      BY <1>3 DEF ListInv
    <3>2. entry' \in [Handles -> EntryType]
      BY <1>3 DEF Inv, Types
    <3>3. Charged(entry', CachedIn(entry'))
      BY <3>1, <3>2 DEF Charged, CachedIn, EntryType
    <3> QED BY <3>1, <3>3, ChargeInNat
  <2> QED BY <1>1, <1>3, <2>1
<1>4. ASSUME UNCHANGED cacheVars PROVE Goal
  BY <1>2, <1>4, ListUntouched
<1>5. ASSUME NEW r \in Readers, StartReading(r) \/ StopReading(r) \/ OpenFails(r)
      PROVE  Goal
  BY <1>4, <1>5 DEF StartReading, StopReading, OpenFails
<1>6. ASSUME NEW r \in Readers, NEW k \in Keys, Find(r, k) \/ Miss(r, k)
      PROVE  Goal
  <2>1. CASE Find(r, k)
    BY <1>2, <2>1, FindList
  <2>2. CASE Miss(r, k)
    BY <1>4, <2>2 DEF Miss
  <2> QED BY <1>6, <2>1, <2>2
<1>7. ASSUME NEW r \in Readers, ReleaseHandle(r) PROVE Goal
  BY <1>2, <1>7, ReleaseList
<1>8. ASSUME NEW r \in Readers, NEW h \in Handles, Open(r, h) PROVE Goal
  BY <1>8, OpenList
<1>9. ASSUME NEW k \in Keys, RemoveFile(k) PROVE Goal
  BY <1>4, <1>9 DEF RemoveFile
<1>10. ASSUME NEW k \in Keys, DeleteObsoleteFile(k) PROVE Goal
  BY <1>3, <1>10, EraseList, InvNext
<1>11. ASSUME PruneBlocks PROVE Goal
  BY <1>3, <1>11, PruneList, InvNext
<1>12. CASE UNCHANGED vars
  BY <1>4, <1>12 DEF vars
<1>13. CASE Next
  BY <1>5, <1>6, <1>7, <1>8, <1>9, <1>10, <1>11, <1>13 DEF Next
<1>14. Goal
  BY <1>12, <1>13
<1> QED BY <1>14 DEF Goal

\* The lists and usage_ are what ListInv says, on top of InvHolds.
THEOREM ListInvHolds == Spec => [](Inv /\ ListInv)
BY InvInit, InvNext, ListInit, ListNext, PTL DEF Spec

\* The type invariant; among the rest, usage_ does not go below zero.
THEOREM TypeCorrect == Spec => []TypeOK
<1>1. Inv /\ ListInv => TypeOK
  <2> SUFFICES ASSUME Inv, ListInv PROVE TypeOK
    OBVIOUS
  <2>1. usage_ \in Nat /\ capacity_ \in Nat /\ in_use_ \subseteq Handles
    <3>1. {} \in SUBSET CachedIn(entry)
      OBVIOUS
    <3> QED BY <3>1, CachedCharged DEF ListInv, CachedIn
  <2> QED BY <2>1 DEF TypeOK, Inv, Types
<1> QED BY <1>1, ListInvHolds, PTL

\* The hash table, the LRU list, the in-use list, reference counts and usage_ agree.
THEOREM StructuresAgree == Spec => []ListsAgree
<1>1. Inv /\ ListInv => ListsAgree
  <2> SUFFICES ASSUME Inv, ListInv PROVE ListsAgree
    OBVIOUS
  <2> DEFINE cached == {h \in Handles : entry[h].in_cache}
  <2>1. cached = CachedIn(entry)
    BY DEF CachedIn
  <2>2. cached = {table_[k] : k \in Keys} \ {None}
    <3>1. \A h \in cached : h \in {table_[k] : k \in Keys} \ {None}
      BY NoneAssumption DEF Inv, TableAgrees
    <3>2. \A k \in Keys : table_[k] # None => table_[k] \in cached
      BY DEF Inv, Types, TableAgrees
    <3> HIDE DEF cached
    <3> QED BY <3>1, <3>2
  <2>3. \A k \in Keys : table_[k] # None => entry[table_[k]].key = k
    BY DEF Inv, TableAgrees
  <2>4. InLRU = {h \in cached : entry[h].refs = 1}
    BY <2>1, InLRUIs DEF ListInv, CachedIn
  <2>5. in_use_ = cached \ InLRU
    BY <2>1, <2>4 DEF ListInv
  <2>6. \A i, j \in DOMAIN lru_ : i # j => lru_[i] # lru_[j]
    BY DEF Inv, ListUnused, Distinct
  <2>7. usage_ = ChargeOf(cached)
    BY <2>1, ChargeOfIs DEF ListInv
  <2> QED BY <2>2, <2>3, <2>4, <2>5, <2>6, <2>7 DEF ListsAgree
<1> QED BY <1>1, ListInvHolds, PTL

\* Whenever Insert makes the cache grow, it is then within its capacity, or clients hold
\* everything that is cached.
THEOREM GrowthIsBounded == Spec => GrowsWithinCapacity
<1>1. Inv /\ ListInv /\ [Next]_vars =>
          [usage_' > usage_ =>
               \/ usage_' <= capacity_
               \/ \A h \in Handles : entry'[h].in_cache => \E r \in Readers : held'[r] = h]_vars
  <2> SUFFICES ASSUME Inv, ListInv, [Next]_vars, usage_' > usage_, ~(usage_' <= capacity_),
                      NEW h \in Handles, entry'[h].in_cache
               PROVE  \E r \in Readers : held'[r] = h
    OBVIOUS
  <2>1. lru_' = <<>> /\ ListInv' /\ Inv'
    BY ListNext, InvNext
  <2>2. InLRU' = {}
    BY <2>1 DEF InLRU
  <2>3. entry'[h].refs # 1
    BY <2>1, <2>2 DEF ListInv
  <2>4. entry'[h].refs = Cardinality(HoldersOf(h)') + 1
    BY <2>1 DEF Inv, ReferencesCounted
  <2>5. HoldersOf(h)' # {}
    <3>1. Cardinality({}) = 0
      BY FS_EmptySet
    <3> QED BY <2>3, <2>4, <3>1
  <2> QED BY <2>5 DEF HoldersOf
<1> QED BY <1>1, ListInvHolds, PTL DEF Spec, GrowsWithinCapacity
=============================================================================
