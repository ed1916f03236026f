----------------------------- MODULE DBIterProofs -----------------------------
(***************************************************************************)
(* Theorems about DBIter and the skip list under it, for every set of user *)
(* keys, every number of writes and every maximal height.                  *)
(***************************************************************************)
EXTENDS DBIter, FiniteOrders, SequenceTheorems

-----------------------------------------------------------------------------
\* Division of an internal key by the number of sequence numbers.
LEMMA DivMod ==
    ASSUME NEW m \in Nat \ {0}, NEW u \in Nat, NEW r \in 0..m - 1
    PROVE  (u * m + r) \div m = u /\ (u * m + r) % m = r
<1> DEFINE a == u * m + r
           q == a \div m
<1>1. a \in Nat
  OBVIOUS
<1>2. q \in Int /\ a % m \in 0..m - 1 /\ a = m * q + (a % m)
  <2> HIDE DEF a
  <2> QED BY <1>1
<1>3. ~(q >= u + 1)
  <2> SUFFICES ASSUME q >= u + 1 PROVE FALSE
    OBVIOUS
  <2> HIDE DEF q
  <2>1. m * q >= m * (u + 1)
    BY <1>2
  <2>2. m * (u + 1) = u * m + m
    OBVIOUS
  <2> QED BY <1>2, <2>1, <2>2
<1>4. ~(q <= u - 1)
  <2> SUFFICES ASSUME q <= u - 1 PROVE FALSE
    OBVIOUS
  <2> HIDE DEF q
  <2>1. m * q <= m * (u - 1)
    BY <1>2
  <2>2. m * (u - 1) = u * m - m
    OBVIOUS
  <2> QED BY <1>2, <2>1, <2>2
<1>5. q = u
  <2> HIDE DEF q
  <2> QED BY <1>2, <1>3, <1>4
<1> QED BY <1>2, <1>5

-----------------------------------------------------------------------------
(***************************************************************************)
(* The writer.                                                             *)
(*                                                                         *)
(* A reader is safe because of an order among the stores: a node's key and *)
(* its links up to level l are stored before a link of level l leads to    *)
(* it, and every store that leads to it is a release store, but those into *)
(* a node that no reader has got hold of yet.                              *)
(***************************************************************************)
\* The field is among the first n stores.
StoredBy(field, n) == \E j \in 1..n : stores[j].to = field

\* The node is complete up to level l among the first n stores.
Linked(x, l, n) ==
    /\ x \in Nat \ {0}
    /\ StoredBy(KeyOf(x), n)
    /\ \A k \in 0..l : StoredBy(Link(x, k), n)

IsLink(field) == field[2] < MaxHeight
StoreType == [to : Nat \X (0..MaxHeight), value : Int, release : BOOLEAN]

LinkLeads(i) ==
    IsLink(stores[i].to) =>
        stores[i].value = NULL \/ Linked(stores[i].value, stores[i].to[2], i - 1)

LinkReleased(i) ==
    /\ IsLink(stores[i].to)
    /\ stores[i].to[1] = head_ \/ StoredBy(stores[i].to, i - 1)
    => stores[i].release

HeightBounded(i) ==
    stores[i].to[2] = MaxHeight =>
        /\ stores[i].value >= 1
        /\ stores[i].to = max_height_ => stores[i].value <= MaxHeight

GoodStore(i) == LinkLeads(i) /\ LinkReleased(i) /\ HeightBounded(i)
StoresGood   == \A i \in 1..Len(stores) : GoodStore(i)

InsertUnderWay ==
    inserting # NoInsert =>
        /\ inserting \in [key : Nat \ {0}, height : 1..MaxHeight, level : Nat]
        /\ inserting.level < inserting.height
        /\ StoredBy(KeyOf(inserting.key), Len(stores))
        /\ \A k \in 0..inserting.level - 1 : StoredBy(Link(inserting.key, k), Len(stores))
        /\ \A k \in inserting.level..MaxHeight - 1 :
               ~StoredBy(Link(inserting.key, k), Len(stores))

ListInv ==
    stores \in Seq(StoreType) /\ StoresGood /\ InsertUnderWay

\* What LatestOf computes.
LEMMA LatestIs ==
    ASSUME stores \in Seq(StoreType), NEW field, NEW n \in 0..Len(stores)
    PROVE  /\ LatestOf(field, n) \in 0..n
           /\ LatestOf(field, n) # 0 => stores[LatestOf(field, n)].to = field
           /\ LatestOf(field, n) = 0 => ~StoredBy(field, n)
<1> DEFINE S == {0} \cup {i \in StoresTo(field) : i <= n}
<1>1. Len(stores) \in Nat /\ DOMAIN stores = 1..Len(stores)
  BY LenProperties
<1>2. S \subseteq 0..n /\ 0 \in S
  BY <1>1 DEF StoresTo
<1>3. S \subseteq Nat /\ IsFiniteSet(S)
  <2>1. n \in Int /\ 0..n \subseteq Nat
    BY <1>1
  <2>2. IsFiniteSet(0..n)
    BY <2>1, FS_Interval
  <2> HIDE DEF S
  <2> QED BY <1>2, <2>1, <2>2, FS_Subset
<1>4. Max(S) \in S /\ \A y \in S : Max(S) >= y
  <2> HIDE DEF S
  <2>1. S \subseteq Int
    BY <1>3
  <2> QED BY <1>2, <1>3, <2>1, MaxIsMax
<1>5. LatestOf(field, n) = Max(S)
  BY DEF LatestOf
<1>6. Max(S) # 0 => stores[Max(S)].to = field
  BY <1>4 DEF StoresTo
<1>7. ASSUME Max(S) = 0, NEW j \in 1..n, stores[j].to = field
      PROVE  FALSE
  <2>1. j \in S
    BY <1>1, <1>7 DEF StoresTo
  <2> HIDE DEF S
  <2>2. 0 >= j
    BY <2>1, <1>4, <1>7
  <2> QED BY <2>2
<1> HIDE DEF S
<1> QED BY <1>2, <1>4, <1>5, <1>6, <1>7 DEF StoredBy

\* The links of a node in the list.
LEMMA CurrentLink ==
    ASSUME ListInv, NEW p \in Nat, NEW l \in 0..MaxHeight - 1,
           p = head_ \/ StoredBy(Link(p, l), Len(stores))
    PROVE  LET v == Current(Link(p, l))
           IN  v = NULL \/ Linked(v, l, Len(stores))
<1>1. Len(stores) \in Nat
  BY LenProperties DEF ListInv
<1> DEFINE i == LatestOf(Link(p, l), Len(stores))
<1>2. /\ i \in 0..Len(stores)
      /\ i # 0 => stores[i].to = Link(p, l)
      /\ i = 0 => ~StoredBy(Link(p, l), Len(stores))
  BY <1>1, LatestIs DEF ListInv
<1>3. Current(Link(p, l)) = Stored(Link(p, l), i)
  BY DEF Current
<1> HIDE DEF i
<1>4. CASE i = 0
  <2>1. p = head_
    BY <1>2, <1>4
  <2>2. Link(p, l) # max_height_ /\ Link(p, l)[1] = head_
    BY <2>1, SkipListAssumption DEF Link, max_height_, head_
  <2> QED BY <1>3, <1>4, <2>2 DEF Stored, Initially
<1>5. CASE i # 0
  <2>1. i \in 1..Len(stores) /\ stores[i].to = Link(p, l) /\ Current(Link(p, l)) = stores[i].value
    BY <1>2, <1>3, <1>5 DEF Stored
  <2>2. IsLink(stores[i].to) /\ stores[i].to[2] = l
    BY <2>1, SkipListAssumption DEF IsLink, Link
  <2>3. stores[i].value = NULL \/ Linked(stores[i].value, l, i - 1)
    BY <2>1, <2>2 DEF ListInv, StoresGood, GoodStore, LinkLeads
  <2>4. 1..i - 1 \subseteq 1..Len(stores)
    BY <2>1, <1>1
  <2> QED BY <2>1, <2>3, <2>4 DEF Linked, StoredBy
<1> QED BY <1>4, <1>5

\* stores' continues stores.
Continued ==
    /\ stores' \in Seq(StoreType) /\ Len(stores') >= Len(stores)
    /\ \A i \in 1..Len(stores) : stores'[i] = stores[i]

LEMMA StoredByContinued ==
    ASSUME stores \in Seq(StoreType), Continued, NEW field, NEW n \in 0..Len(stores)
    PROVE  /\ StoredBy(field, n)' <=> StoredBy(field, n)
           /\ \A m \in n..Len(stores') : StoredBy(field, n) => (\E j \in 1..m : stores'[j].to = field)
<1>1. Len(stores) \in Nat /\ Len(stores') \in Nat
  BY LenProperties DEF Continued
<1> QED BY <1>1 DEF Continued, StoredBy

LEMMA LinkedContinued ==
    ASSUME stores \in Seq(StoreType), Continued, NEW x, NEW l \in Int, NEW n \in 0..Len(stores)
    PROVE  Linked(x, l, n) => Linked(x, l, n)'
BY StoredByContinued DEF Linked

\* What the stores say of the list stays true of them; what they go on with has
\* to be looked at.
LEMMA StoresContinued ==
    ASSUME ListInv, Continued, \A i \in Len(stores) + 1..Len(stores') : GoodStore(i)'
    PROVE  StoresGood'
<1>1. Len(stores) \in Nat /\ Len(stores') \in Nat
  BY LenProperties DEF ListInv, Continued
<1>2. ASSUME NEW i \in 1..Len(stores)
      PROVE  GoodStore(i)'
  <2>1. stores'[i] = stores[i] /\ i - 1 \in 0..Len(stores)
    BY <1>1 DEF Continued
  <2>2. stores[i].to \in Nat \X (0..MaxHeight)
    <3>1. stores[i] \in StoreType
      BY ElementOfSeq DEF ListInv
    <3> QED BY <3>1 DEF StoreType
  <2>3. GoodStore(i)
    BY DEF ListInv, StoresGood
  <2>4. LinkLeads(i)'
    <3>1. \A x : \A l \in Int : Linked(x, l, i - 1) => Linked(x, l, i - 1)'
      BY <2>1, LinkedContinued DEF ListInv
    <3>2. stores[i].to[2] \in Int
      BY <2>2
    <3> QED BY <2>1, <2>3, <3>1, <3>2 DEF GoodStore, LinkLeads
  <2>5. LinkReleased(i)'
    <3>1. \A field : StoredBy(field, i - 1)' <=> StoredBy(field, i - 1)
      BY <2>1, StoredByContinued DEF ListInv
    <3> QED BY <2>1, <2>3, <3>1 DEF GoodStore, LinkReleased
  <2>6. HeightBounded(i)'
    BY <2>1, <2>3 DEF GoodStore, HeightBounded
  <2> QED BY <2>4, <2>5, <2>6 DEF GoodStore
<1>3. \A i \in 1..Len(stores') : i \in 1..Len(stores) \/ i \in Len(stores) + 1..Len(stores')
  BY <1>1
<1> QED BY <1>2, <1>3 DEF StoresGood

\* A node is complete as soon as its key is stored, below every level.
LEMMA StoredByLonger ==
    ASSUME NEW field, NEW n \in Nat, NEW m \in Nat, n <= m, StoredBy(field, n)
    PROVE  StoredBy(field, m)
BY DEF StoredBy

\* The stores of a new node: perhaps max_height_, then the key.
LEMMA NewNodeList ==
    ASSUME ListInv, NEW key \in Nat \ {0}, NEW height \in 1..MaxHeight, NewNode(key, height)
    PROVE  ListInv' /\ Inserted' \subseteq Inserted \cup {key} /\ Len(stores') >= Len(stores)
           /\ Continued
<1> DEFINE h == IF height > Current(max_height_)
                THEN <<NoBarrier_Store(max_height_, height)>> ELSE <<>>
           k == <<NoBarrier_Store(KeyOf(key), key)>>
           sh == stores \o h
<1>1. Len(stores) \in Nat /\ stores \in Seq(StoreType)
  BY LenProperties DEF ListInv
<1>2. /\ NoBarrier_Store(max_height_, height) \in StoreType
      /\ NoBarrier_Store(KeyOf(key), key) \in StoreType
  BY SkipListAssumption DEF NoBarrier_Store, max_height_, KeyOf, head_, StoreType
<1>3. /\ h \in Seq(StoreType) /\ Len(h) \in {0, 1}
      /\ Len(h) = 1 => h[1] = NoBarrier_Store(max_height_, height)
  <2>1. CASE height > Current(max_height_)
    BY <1>2, <2>1
  <2>2. CASE ~(height > Current(max_height_))
    BY <2>2, EmptySeq
  <2> QED BY <2>1, <2>2
<1>4. k \in Seq(StoreType) /\ Len(k) = 1 /\ k[1] = NoBarrier_Store(KeyOf(key), key)
  BY <1>2
<1>5. stores' = sh \o k
  BY DEF NewNode
<1> HIDE DEF h, k
<1>6. /\ sh \in Seq(StoreType) /\ Len(sh) = Len(stores) + Len(h)
      /\ \A i \in 1..Len(stores) + Len(h) :
             sh[i] = IF i <= Len(stores) THEN stores[i] ELSE h[i - Len(stores)]
  BY <1>1, <1>3, ConcatProperties
<1> HIDE DEF sh
<1>7. /\ stores' \in Seq(StoreType) /\ Len(stores') = Len(stores) + Len(h) + 1
      /\ \A i \in 1..Len(stores) + Len(h) + 1 :
             stores'[i] = IF i <= Len(stores) + Len(h) THEN sh[i]
                          ELSE k[i - (Len(stores) + Len(h))]
  <2> DEFINE n == Len(sh)
  <2>1. /\ sh \o k \in Seq(StoreType) /\ Len(sh \o k) = n + Len(k)
        /\ \A i \in 1..n + Len(k) : (sh \o k)[i] = IF i <= n THEN sh[i] ELSE k[i - n]
    <3> HIDE DEF n
    <3>0. sh \in Seq(StoreType) /\ k \in Seq(StoreType)
      BY <1>4, <1>6
    <3>1. /\ sh \o k \in Seq(StoreType) /\ Len(sh \o k) = Len(sh) + Len(k)
          /\ \A i \in 1..Len(sh) + Len(k) :
                 (sh \o k)[i] = IF i <= Len(sh) THEN sh[i] ELSE k[i - Len(sh)]
      BY <3>0, ConcatProperties
    <3> QED BY <3>1 DEF n
  <2>2. n = Len(stores) + Len(h)
    BY <1>6
  <2> HIDE DEF n
  <2>3. /\ stores' \in Seq(StoreType) /\ Len(stores') = n + 1
        /\ \A i \in 1..n + 1 : stores'[i] = IF i <= n THEN sh[i] ELSE k[i - n]
    <3>1. Len(k) = 1 /\ stores' = sh \o k
      BY <1>4, <1>5
    <3> HIDE DEF k
    <3> QED BY <2>1, <3>1
  <2> QED BY <2>2, <2>3
<1>8. Continued
  <2>1. \A i \in 1..Len(stores) : stores'[i] = stores[i]
    BY <1>1, <1>3, <1>6, <1>7
  <2> QED BY <1>1, <1>3, <1>7, <2>1 DEF Continued
<1>9. ASSUME NEW i \in Len(stores) + 1..Len(stores')
      PROVE  \/ stores'[i] = NoBarrier_Store(max_height_, height)
             \/ stores'[i] = NoBarrier_Store(KeyOf(key), key)
  <2>1. CASE i <= Len(stores) + Len(h)
    <3>1. Len(h) = 1 /\ i - Len(stores) = 1
      <4>1. i \in Int /\ i >= Len(stores) + 1
        BY <1>1, <1>7, <1>3
      <4>2. ~(Len(h) = 0)
        BY <1>1, <2>1, <4>1
      <4>3. Len(h) = 1
        BY <1>3, <4>2
      <4>4. i <= Len(stores) + 1
        BY <2>1, <4>3
      <4> QED BY <1>1, <4>1, <4>3, <4>4
    <3>2. stores'[i] = h[i - Len(stores)]
      BY <1>1, <1>3, <1>6, <1>7, <2>1
    <3> QED BY <1>3, <3>1, <3>2
  <2>2. CASE ~(i <= Len(stores) + Len(h))
    <3>1. i - (Len(stores) + Len(h)) = 1
      <4>1. i \in Int /\ i <= Len(stores) + Len(h) + 1
        BY <1>1, <1>7, <1>3
      <4> QED BY <1>1, <1>3, <2>2, <4>1
    <3>2. stores'[i] = k[i - (Len(stores) + Len(h))]
      BY <1>1, <1>3, <1>7, <2>2
    <3> QED BY <1>4, <3>1, <3>2
  <2> QED BY <2>1, <2>2
<1>10. stores'[Len(stores')] = NoBarrier_Store(KeyOf(key), key) /\ Len(stores') \in Nat
  <2>1. Len(stores') \in 1..Len(stores) + Len(h) + 1 /\ ~(Len(stores') <= Len(stores) + Len(h))
        /\ Len(stores') - (Len(stores) + Len(h)) = 1
    BY <1>1, <1>3, <1>7
  <2> QED BY <1>4, <1>7, <2>1
<1>11. ASSUME NEW i \in Len(stores) + 1..Len(stores')
       PROVE  GoodStore(i)'
  <2>1. stores'[i].to[2] = MaxHeight /\ stores'[i].value >= 1
        /\ (stores'[i].to = max_height_ => stores'[i].value <= MaxHeight)
    BY <1>9 DEF NoBarrier_Store, max_height_, KeyOf, head_
  <2> QED BY <2>1, SkipListAssumption DEF GoodStore, LinkLeads, LinkReleased, HeightBounded,
             IsLink
<1>12. StoresGood'
  BY <1>8, <1>11, StoresContinued
<1>13. DOMAIN stores = 1..Len(stores) /\ DOMAIN stores' = 1..Len(stores')
  BY <1>1, <1>7, LenProperties
<1>14. \A i \in 1..Len(stores') : \/ i \in 1..Len(stores) /\ stores'[i] = stores[i]
                                  \/ stores'[i] = NoBarrier_Store(max_height_, height)
                                  \/ stores'[i] = NoBarrier_Store(KeyOf(key), key)
  <2>1. \A i \in 1..Len(stores') : i \in 1..Len(stores) \/ i \in Len(stores) + 1..Len(stores')
    BY <1>1, <1>10
  <2> QED BY <2>1, <1>8, <1>9 DEF Continued
<1>15. Inserted' \subseteq Inserted \cup {key}
  BY <1>13, <1>14 DEF Inserted, NoBarrier_Store, max_height_, KeyOf
<1>16. InsertUnderWay'
  <2>1. inserting' = [key |-> key, height |-> height, level |-> 0] /\ key \notin Inserted
    BY DEF NewNode
  <2>2. StoredBy(KeyOf(key), Len(stores))'
    <3>1. Len(stores') \in 1..Len(stores') /\ stores'[Len(stores')].to = KeyOf(key)
      BY <1>1, <1>3, <1>7, <1>10 DEF NoBarrier_Store
    <3> QED BY <3>1 DEF StoredBy, KeyOf
  <2>3. ASSUME NEW l \in 0..MaxHeight - 1, NEW i \in 1..Len(stores'),
               stores'[i].to = Link(key, l)
        PROVE  FALSE
    <3>1. l # MaxHeight /\ key # head_
      BY SkipListAssumption DEF head_
    <3>2. stores'[i] # NoBarrier_Store(max_height_, height)
      BY <2>3, <3>1 DEF NoBarrier_Store, max_height_, Link
    <3>3. stores'[i] # NoBarrier_Store(KeyOf(key), key)
      BY <2>3, <3>1 DEF NoBarrier_Store, KeyOf, Link
    <3>4. i \in 1..Len(stores) /\ stores[i].to = Link(key, l)
      BY <1>14, <2>3, <3>2, <3>3
    <3>5. key \in Inserted
      BY <1>13, <3>1, <3>4 DEF Inserted, Link
    <3> QED BY <2>1, <3>5
  <2>4. \A l \in 0..MaxHeight - 1 : ~StoredBy(Link(key, l), Len(stores))'
    BY <2>3 DEF StoredBy, Link
  <2> QED BY <2>1, <2>2, <2>4, SkipListAssumption DEF InsertUnderWay
<1> QED BY <1>7, <1>8, <1>12, <1>15, <1>16, <1>1, <1>3 DEF ListInv
\* The search of the writer ends at the head or at a node that is in the list.
LEMMA PrevIs ==
    ASSUME ListInv, NEW x \in Nat \ {0}, NEW l \in 0..MaxHeight - 1
    PROVE  /\ Prev(x, l) \in Nat
           /\ Prev(x, l) = head_ \/ (Prev(x, l) \in Inserted /\ StoredBy(Link(Prev(x, l), l), Len(stores)))
<1> DEFINE S == {head_} \cup {k \in Inserted : k < x /\ StoresTo(Link(k, l)) # {}}
<1>1. Len(stores) \in Nat /\ DOMAIN stores = 1..Len(stores)
  BY LenProperties DEF ListInv
<1>2. Inserted \subseteq Nat
  <2>1. \A i \in 1..Len(stores) : stores[i] \in StoreType
    BY ElementOfSeq DEF ListInv
  <2> QED BY <1>1, <2>1 DEF Inserted, StoreType
<1>3. S \subseteq 0..x /\ S # {}
  <2>1. head_ \in 0..x
    BY DEF head_
  <2>2. \A k \in Nat : k < x => k \in 0..x
    OBVIOUS
  <2> QED BY <1>2, <2>1, <2>2
<1>4. S \subseteq Nat /\ IsFiniteSet(S)
  <2>1. IsFiniteSet(0..x) /\ 0..x \subseteq Nat
    BY FS_Interval
  <2> HIDE DEF S
  <2> QED BY <1>3, <2>1, FS_Subset
<1>5. Max(S) \in S
  <2> HIDE DEF S
  <2>1. S \subseteq Int
    BY <1>4
  <2> QED BY <1>3, <1>4, <2>1, MaxIsMax
<1>6. Prev(x, l) = Max(S)
  BY DEF Prev
<1>7. \A k : StoresTo(Link(k, l)) # {} => StoredBy(Link(k, l), Len(stores))
  BY <1>1 DEF StoresTo, StoredBy
<1>8. Max(S) = head_ \/ (Max(S) \in Inserted /\ StoredBy(Link(Max(S), l), Len(stores)))
  <2>1. \A k \in S : k = head_ \/ (k \in Inserted /\ StoredBy(Link(k, l), Len(stores)))
    BY <1>7
  <2> HIDE DEF S
  <2> QED BY <1>5, <2>1
<1> HIDE DEF S
<1> QED BY <1>4, <1>5, <1>6, <1>8

\* The two stores that put the node into the list of one level.
LEMMA LinkLevelList ==
    ASSUME ListInv, LinkLevel
    PROVE  ListInv' /\ Inserted' \subseteq Inserted /\ Continued
<1> SUFFICES ASSUME NEW x, NEW l, NEW p, NEW v, NEW n,
                    x = inserting.key, l = inserting.level, n = Len(stores),
                    p = Prev(x, l), v = Current(Link(p, l))
             PROVE  ListInv' /\ Inserted' \subseteq Inserted /\ Continued
  OBVIOUS
<1> DEFINE first  == NoBarrier_Store(Link(x, l), v)
           second == Release_Store(Link(p, l), x)
           k == <<first, second>>
<1>1. n \in Nat /\ stores \in Seq(StoreType) /\ DOMAIN stores = 1..n
  BY LenProperties DEF ListInv
<1>2. /\ inserting # NoInsert
      /\ inserting \in [key : Nat \ {0}, height : 1..MaxHeight, level : Nat]
      /\ x \in Nat \ {0} /\ l \in 0..MaxHeight - 1 /\ l < inserting.height
  BY SkipListAssumption DEF LinkLevel, ListInv, InsertUnderWay
<1>3. /\ StoredBy(KeyOf(x), n)
      /\ \A m \in 0..l - 1 : StoredBy(Link(x, m), n)
      /\ \A m \in l..MaxHeight - 1 : ~StoredBy(Link(x, m), n)
  BY <1>2 DEF ListInv, InsertUnderWay
<1>4. p \in Nat /\ (p = head_ \/ (p \in Inserted /\ StoredBy(Link(p, l), n)))
  BY <1>2, PrevIs
<1>5. v = NULL \/ Linked(v, l, n)
  BY <1>2, <1>4, CurrentLink
<1>6. v \in Int
  BY <1>5 DEF NULL, Linked
<1>7. first \in StoreType /\ second \in StoreType
  BY <1>2, <1>4, <1>6, SkipListAssumption DEF NoBarrier_Store, Release_Store, Link, StoreType
<1>8. stores' = stores \o k
  BY DEF LinkLevel, Links
<1>9. k \in Seq(StoreType) /\ Len(k) = 2 /\ k[1] = first /\ k[2] = second
  <2> HIDE DEF first, second
  <2> QED BY <1>7
<1> HIDE DEF k
<1>10. /\ stores' \in Seq(StoreType) /\ Len(stores') = n + 2
       /\ \A i \in 1..n + 2 : stores'[i] = IF i <= n THEN stores[i] ELSE k[i - n]
  <2>1. /\ stores \o k \in Seq(StoreType) /\ Len(stores \o k) = Len(stores) + Len(k)
        /\ \A i \in 1..Len(stores) + Len(k) :
               (stores \o k)[i] = IF i <= Len(stores) THEN stores[i] ELSE k[i - Len(stores)]
    BY <1>1, <1>9, ConcatProperties
  <2> QED BY <1>8, <1>9, <2>1
<1>11. stores'[n + 1] = first /\ stores'[n + 2] = second
  BY <1>1, <1>9, <1>10
<1> HIDE DEF first, second
<1>12. Continued
  <2>1. \A i \in 1..n : stores'[i] = stores[i]
    BY <1>1, <1>10
  <2> QED BY <1>1, <1>10, <2>1 DEF Continued
<1>13. \A i \in 1..Len(stores') : \/ i \in 1..n /\ stores'[i] = stores[i]
                                  \/ i = n + 1 /\ stores'[i] = first
                                  \/ i = n + 2 /\ stores'[i] = second
  BY <1>1, <1>10, <1>11
<1>14. \A field : StoredBy(field, n)' <=> StoredBy(field, n)
  BY <1>1, <1>12, StoredByContinued
<1>15. GoodStore(n + 1)'
  <2>1. stores'[n + 1].to = Link(x, l) /\ stores'[n + 1].to[2] = l /\ stores'[n + 1].to[1] = x
        /\ stores'[n + 1].value = v
    BY <1>11 DEF first, NoBarrier_Store, Link
  <2>2. l # MaxHeight /\ x # head_
    BY <1>2, SkipListAssumption DEF head_
  <2>3. v = NULL \/ Linked(v, l, n)'
    <3>1. Linked(v, l, n) => Linked(v, l, n)'
      BY <1>1, <1>2, <1>12, LinkedContinued
    <3> QED BY <1>5, <3>1
  <2>4. n + 1 - 1 = n
    BY <1>1
  <2>5. LinkLeads(n + 1)'
    BY <2>1, <2>3, <2>4 DEF LinkLeads
  <2>6. ~StoredBy(Link(x, l), n)'
    <3>1. ~StoredBy(Link(x, l), n)
      BY <1>2, <1>3
    <3>2. \A i \in 1..n : stores'[i].to # Link(x, l)
      BY <1>10, <1>12, <1>1, <3>1 DEF StoredBy, Continued
    <3> QED BY <3>2 DEF StoredBy, Link
  <2>7. LinkReleased(n + 1)'
    BY <2>1, <2>2, <2>4, <2>6 DEF LinkReleased, head_, Link
  <2>8. HeightBounded(n + 1)'
    BY <2>1, <2>2 DEF HeightBounded
  <2> QED BY <2>5, <2>7, <2>8 DEF GoodStore
<1>16. Linked(x, l, n + 1)'
  <2>1. n + 1 \in 1..Len(stores') /\ \A i \in 1..n : i \in 1..n + 1
    BY <1>1, <1>10
  <2>2. stores'[n + 1].to = Link(x, l)
    BY <1>11 DEF first, NoBarrier_Store
  <2>3. \A i \in 1..n : stores'[i] = stores[i]
    BY <1>12 DEF Continued
  <2>4. \E j \in 1..n + 1 : stores'[j].to = KeyOf(x)
    BY <1>3, <2>1, <2>3 DEF StoredBy
  <2>5. \A m \in 0..l : \E j \in 1..n + 1 : stores'[j].to = Link(x, m)
    <3>1. \A m \in 0..l : m \in 0..l - 1 \/ m = l
      BY <1>2
    <3>2. \A m \in 0..l - 1 : \E j \in 1..n + 1 : stores'[j].to = Link(x, m)
      BY <1>3, <2>1, <2>3 DEF StoredBy
    <3>3. \E j \in 1..n + 1 : stores'[j].to = Link(x, l)
      BY <2>2, <1>1
    <3> QED BY <3>1, <3>2, <3>3
  <2> QED BY <1>2, <2>4, <2>5 DEF Linked, StoredBy, KeyOf, Link
<1>17. GoodStore(n + 2)'
  <2>1. stores'[n + 2].to[2] = l /\ stores'[n + 2].value = x /\ stores'[n + 2].release
    BY <1>11 DEF second, Release_Store, Link
  <2>2. l # MaxHeight
    BY <1>2, SkipListAssumption
  <2>3. n + 2 - 1 = n + 1
    BY <1>1
  <2> QED BY <1>16, <2>1, <2>2, <2>3 DEF GoodStore, LinkLeads, LinkReleased, HeightBounded
<1>18. StoresGood'
  <2>1. \A i \in n + 1..n + 2 : i = n + 1 \/ i = n + 2
    BY <1>1
  <2>2. \A i \in Len(stores) + 1..Len(stores') : GoodStore(i)'
    BY <1>10, <1>15, <1>17, <2>1
  <2> QED BY <1>12, <2>2, StoresContinued
<1>19. Inserted' \subseteq Inserted
  <2>1. DOMAIN stores' = 1..Len(stores')
    BY <1>10, LenProperties
  <2>2. x \in Inserted
    BY <1>1, <1>2, <1>3 DEF StoredBy, Inserted, KeyOf, head_
  <2>3. \A i \in 1..Len(stores') : \/ i \in 1..n /\ stores'[i] = stores[i]
                                   \/ stores'[i].to[1] \in {x, p}
    BY <1>13 DEF first, second, NoBarrier_Store, Release_Store, Link
  <2> QED BY <1>1, <1>4, <2>1, <2>2, <2>3 DEF Inserted, head_
<1>20. InsertUnderWay'
  <2> SUFFICES ASSUME inserting' # NoInsert
               PROVE  InsertUnderWay'
    BY DEF InsertUnderWay
  <2>1. inserting' = [inserting EXCEPT !.level = @ + 1] /\ l + 1 # inserting.height
    BY DEF LinkLevel
  <2>2. /\ inserting' \in [key : Nat \ {0}, height : 1..MaxHeight, level : Nat]
        /\ inserting'.key = x /\ inserting'.level = l + 1 /\ inserting'.height = inserting.height
        /\ l + 1 < inserting'.height
    BY <1>2, <2>1
  <2>3. \A i \in 1..n + 1 : i \in 1..Len(stores')
    BY <1>1, <1>10
  <2>4. \E j \in 1..Len(stores') : stores'[j].to = KeyOf(x)
    BY <1>16, <2>3 DEF Linked, StoredBy, KeyOf
  <2>5. \A m \in 0..l : \E j \in 1..Len(stores') : stores'[j].to = Link(x, m)
    BY <1>16, <2>3 DEF Linked, StoredBy, Link
  <2>6. ASSUME NEW m \in l + 1..MaxHeight - 1, NEW j \in 1..Len(stores'),
               stores'[j].to = Link(x, m)
        PROVE  FALSE
    <3>1. m # l /\ m \in l..MaxHeight - 1
      BY <1>2, SkipListAssumption
    <3>2. stores'[j] # first /\ stores'[j] # second
      BY <2>6, <3>1 DEF first, second, NoBarrier_Store, Release_Store, Link
    <3>3. j \in 1..n /\ stores[j].to = Link(x, m)
      BY <1>13, <2>6, <3>2
    <3> QED BY <1>3, <3>1, <3>3 DEF StoredBy
  <2>7. 0..(l + 1) - 1 = 0..l
    BY <1>2
  <2> QED BY <2>2, <2>4, <2>5, <2>6, <2>7 DEF InsertUnderWay, StoredBy, KeyOf, Link
<1> QED BY <1>10, <1>12, <1>18, <1>19, <1>20 DEF ListInv
-----------------------------------------------------------------------------
(***************************************************************************)
(* The reader: it has only got hold of nodes that are complete in its      *)
(* view, up to the level at which it stands on them.                       *)
(***************************************************************************)
ReaderInv ==
    /\ view \in 0..Len(stores) /\ committed \in 0..Len(stores)
    /\ node_ = NULL \/ Linked(node_, 0, view)
    /\ find \in [op : {"none", "FindGreaterOrEqual", "FindLessThan", "FindLast"},
                 target : Int, x : Nat, level : 0..MaxHeight - 1]
    /\ find.x = head_ \/ Linked(find.x, find.level, view)

LEMMA LinkedMore ==
    ASSUME NEW x, NEW l \in Int, NEW n \in Nat, NEW k \in Int, NEW m \in Nat,
           Linked(x, l, n), k <= l, n <= m
    PROVE  Linked(x, k, m)
<1>1. \A j \in 0..k : j \in 0..l
  OBVIOUS
<1> QED BY <1>1, StoredByLonger DEF Linked

\* What a load of a link returns.
LEMMA LoadLink ==
    ASSUME ListInv, view \in 0..Len(stores), NEW x \in Nat, NEW l \in 0..MaxHeight - 1,
           x = head_ \/ Linked(x, l, view), NEW i \in Loadable(Link(x, l)), Acquire(i),
           NEW w, w = view'
    PROVE  /\ w \in 0..Len(stores) /\ view <= w
           /\ LET v == Stored(Link(x, l), i)
              IN  v = NULL \/ Linked(v, l, w)
<1>1. Len(stores) \in Nat /\ DOMAIN stores = 1..Len(stores)
  BY LenProperties DEF ListInv
<1>2. /\ LatestOf(Link(x, l), view) \in 0..view
      /\ LatestOf(Link(x, l), view) # 0 => stores[LatestOf(Link(x, l), view)].to = Link(x, l)
      /\ LatestOf(Link(x, l), view) = 0 => ~StoredBy(Link(x, l), view)
  BY LatestIs DEF ListInv
<1>3. \/ i = LatestOf(Link(x, l), view)
      \/ i \in 1..Len(stores) /\ i > view /\ stores[i].to = Link(x, l)
  BY <1>1 DEF Loadable, StoresTo
<1>4. CASE i = 0
  <2>1. ~StoredBy(Link(x, l), view)
    BY <1>1, <1>2, <1>3, <1>4
  <2>2. x = head_
    BY <2>1 DEF Linked
  <2>3. Link(x, l) # max_height_ /\ Link(x, l)[1] = head_
    BY <2>2, SkipListAssumption DEF Link, max_height_, head_
  <2>4. Stored(Link(x, l), i) = NULL
    BY <1>4, <2>3 DEF Stored, Initially
  <2>5. w = view
    BY <1>1, <1>4 DEF Acquire
  <2> QED BY <1>1, <2>4, <2>5
<1>5. CASE i # 0
  <2>1. i \in 1..Len(stores) /\ stores[i].to = Link(x, l) /\ Stored(Link(x, l), i) = stores[i].value
    BY <1>1, <1>2, <1>3, <1>5 DEF Stored
  <2>2. IsLink(stores[i].to) /\ stores[i].to[2] = l /\ stores[i].to[1] = x
    BY <2>1, SkipListAssumption DEF IsLink, Link
  <2>3. stores[i].value = NULL \/ Linked(stores[i].value, l, i - 1)
    BY <2>1, <2>2 DEF ListInv, StoresGood, GoodStore, LinkLeads
  <2>4. i - 1 \in Nat
    BY <2>1, <1>1
  <2>5. CASE i <= view
    <3>1. w = view
      BY <2>5, <2>1, <1>1 DEF Acquire
    <3>2. i - 1 <= view /\ view \in Nat
      BY <2>5, <2>1, <1>1
    <3>3. Linked(stores[i].value, l, i - 1) => Linked(stores[i].value, l, view)
      BY <2>4, <3>2, LinkedMore
    <3> QED BY <1>1, <2>1, <2>3, <3>1, <3>3
  <2>6. CASE i > view
    <3>1. view <= i - 1 /\ view \in Nat
      BY <2>1, <2>6, <1>1
    <3>2. x # head_ => StoredBy(Link(x, l), i - 1)
      <4>1. x # head_ => StoredBy(Link(x, l), view)
        BY DEF Linked
      <4> QED BY <2>4, <3>1, <4>1, StoredByLonger
    <3>3. stores[i].release
      BY <2>1, <2>2, <3>2 DEF ListInv, StoresGood, GoodStore, LinkReleased
    <3>4. w = i
      BY <2>6, <3>3 DEF Acquire
    <3>5. i - 1 <= i /\ i \in Nat
      BY <2>1, <1>1
    <3>6. Linked(stores[i].value, l, i - 1) => Linked(stores[i].value, l, i)
      BY <2>4, <3>5, LinkedMore
    <3> QED BY <1>1, <2>1, <2>3, <2>6, <3>4, <3>6
  <2> QED BY <1>1, <2>1, <2>5, <2>6
<1> QED BY <1>4, <1>5

\* Linked does not see the prime of anything but the stores.
LEMMA ReaderKept ==
    ASSUME stores \in Seq(StoreType), ReaderInv, Continued, UNCHANGED iteratorVars,
           committed' \in {committed, Len(stores)}
    PROVE  ReaderInv'
<1>1. Len(stores) \in Nat /\ Len(stores') \in Nat /\ Len(stores) <= Len(stores')
  BY LenProperties DEF Continued
<1>2. view \in 0..Len(stores) /\ view' = view /\ node_' = node_ /\ find' = find
  BY DEF ReaderInv, iteratorVars
<1>3. ASSUME NEW n, n = view, NEW x, NEW l \in Int, Linked(x, l, n)
      PROVE  Linked(x, l, n)'
  BY <1>2, <1>3, LinkedContinued
<1>4. (node_ = NULL \/ Linked(node_, 0, view))'
  <2> SUFFICES ASSUME NEW n, n = view, NEW x, x = node_
               PROVE  (node_ = NULL \/ Linked(node_, 0, view))'
    OBVIOUS
  <2>1. x = NULL \/ Linked(x, 0, n)'
    BY <1>3 DEF ReaderInv
  <2>2. node_' = x /\ view' = n
    BY <1>2
  <2> QED BY <2>1, <2>2 DEF Linked, StoredBy, KeyOf, Link, NULL
<1>5. (find.x = head_ \/ Linked(find.x, find.level, view))'
  <2> SUFFICES ASSUME NEW n, n = view, NEW x, x = find.x, NEW l, l = find.level
               PROVE  (find.x = head_ \/ Linked(find.x, find.level, view))'
    OBVIOUS
  <2>1. l \in Int
    BY DEF ReaderInv
  <2>2. x = head_ \/ Linked(x, l, n)'
    BY <1>3, <2>1 DEF ReaderInv
  <2>3. find.x' = x /\ find.level' = l /\ view' = n
    BY <1>2
  <2> QED BY <2>2, <2>3 DEF Linked, StoredBy, KeyOf, Link, head_
<1> QED BY <1>1, <1>2, <1>4, <1>5 DEF ReaderInv
\* What has been reached stays reached while the view grows.
LEMMA NodeKept ==
    ASSUME ReaderInv, NEW w \in 0..Len(stores), view <= w
    PROVE  /\ node_ = NULL \/ Linked(node_, 0, w)
           /\ \A k \in 0..find.level : find.x = head_ \/ Linked(find.x, k, w)
<1>1. view \in Nat /\ w \in Nat /\ find.level \in Int
  BY DEF ReaderInv
<1>2. node_ = NULL \/ Linked(node_, 0, w)
  BY <1>1, LinkedMore DEF ReaderInv
<1>3. ASSUME NEW k \in 0..find.level
      PROVE  find.x = head_ \/ Linked(find.x, k, w)
  BY <1>1, LinkedMore DEF ReaderInv
<1> QED BY <1>2, <1>3

LEMMA FollowReader ==
    ASSUME ListInv, ReaderInv, NEW n, n = head_ \/ (n = node_ /\ n # NULL), Follow(n),
           UNCHANGED <<stores, committed>>
    PROVE  ReaderInv'
<1>1. PICK i \in Loadable(Link(n, 0)) : node_' = Stored(Link(n, 0), i) /\ Acquire(i)
  BY DEF Follow
<1> SUFFICES ASSUME NEW w, w = view', NEW v, v = Stored(Link(n, 0), i)
             PROVE  ReaderInv'
  OBVIOUS
<1>2. n = head_ \/ Linked(n, 0, view)
  BY DEF ReaderInv
<1>3. n \in Nat /\ 0 \in 0..MaxHeight - 1
  BY <1>2, SkipListAssumption DEF Linked, head_
<1>4. /\ w \in 0..Len(stores) /\ view <= w
      /\ v = NULL \/ Linked(v, 0, w)
  BY <1>1, <1>2, <1>3, LoadLink DEF ReaderInv
<1>5. node_' = v /\ view' = w /\ find' = find
  BY <1>1 DEF Follow
<1>6. (node_ = NULL \/ Linked(node_, 0, view))'
  BY <1>4, <1>5 DEF Linked, StoredBy, KeyOf, Link, NULL
<1>7. (find.x = head_ \/ Linked(find.x, find.level, view))'
  <2>1. find.level \in 0..find.level
    BY DEF ReaderInv
  <2>2. find.x = head_ \/ Linked(find.x, find.level, w)
    BY <1>4, <2>1, NodeKept
  <2> QED BY <1>5, <2>2 DEF Linked, StoredBy, KeyOf, Link, head_
<1> QED BY <1>4, <1>5, <1>6, <1>7 DEF ReaderInv

\* GetMaxHeight returns a height, if perhaps not the present one.
LEMMA HeightLoaded ==
    ASSUME ListInv, view \in 0..Len(stores), NEW i \in Loadable(max_height_)
    PROVE  Stored(max_height_, i) \in 1..MaxHeight
<1>1. Len(stores) \in Nat /\ DOMAIN stores = 1..Len(stores)
  BY LenProperties DEF ListInv
<1>2. /\ LatestOf(max_height_, view) \in 0..view
      /\ LatestOf(max_height_, view) # 0 => stores[LatestOf(max_height_, view)].to = max_height_
  BY LatestIs DEF ListInv
<1>3. i = 0 \/ (i \in 1..Len(stores) /\ stores[i].to = max_height_)
  BY <1>1, <1>2 DEF Loadable, StoresTo
<1>4. CASE i = 0
  BY <1>4, SkipListAssumption DEF Stored, Initially
<1>5. CASE i # 0
  <2>1. i \in 1..Len(stores) /\ stores[i].to = max_height_
        /\ Stored(max_height_, i) = stores[i].value
    BY <1>3, <1>5 DEF Stored
  <2>2. stores[i].to[2] = MaxHeight
    BY <2>1 DEF max_height_
  <2>3. stores[i].value >= 1 /\ stores[i].value <= MaxHeight
    BY <2>1, <2>2 DEF ListInv, StoresGood, GoodStore, HeightBounded
  <2>4. stores[i].value \in Int
    <3>1. stores[i] \in StoreType
      BY <2>1, ElementOfSeq DEF ListInv
    <3> QED BY <3>1 DEF StoreType
  <2> QED BY <2>1, <2>3, <2>4, SkipListAssumption
<1> QED BY <1>4, <1>5

LEMMA StartFindReader ==
    ASSUME ListInv, ReaderInv, NEW op \in {"FindGreaterOrEqual", "FindLessThan", "FindLast"},
           NEW target \in Int, StartFind(op, target), UNCHANGED <<stores, committed>>
    PROVE  ReaderInv'
<1>1. PICK i \in Loadable(max_height_) :
          find' = [op |-> op, target |-> target, x |-> head_,
                   level |-> TopLevel(Stored(max_height_, i))]
  BY DEF StartFind
<1>2. TopLevel(Stored(max_height_, i)) \in 0..MaxHeight - 1
  BY HeightLoaded, SkipListAssumption DEF ReaderInv, TopLevel
<1>3. find' \in [op : {"none", "FindGreaterOrEqual", "FindLessThan", "FindLast"},
                 target : Int, x : Nat, level : 0..MaxHeight - 1]
      /\ find'.x = head_
  BY <1>1, <1>2 DEF head_
<1>4. view' = view /\ node_' = node_
  BY DEF StartFind
<1> QED BY <1>3, <1>4 DEF ReaderInv, Linked, StoredBy, KeyOf, Link, NULL, head_

LEMMA FindStepReader ==
    ASSUME ListInv, ReaderInv, FindStep, UNCHANGED <<stores, committed>>
    PROVE  ReaderInv'
<1> SUFFICES ASSUME NEW x, NEW l, x = find.x, l = find.level, NEW w, w = view'
             PROVE  ReaderInv'
  OBVIOUS
<1>1. PICK i \in Loadable(Link(x, l)) :
          /\ Acquire(i)
          /\ \/ /\ Goes(Stored(Link(x, l), i))
                /\ find' = [find EXCEPT !.x = Stored(Link(x, l), i)] /\ UNCHANGED node_
             \/ /\ ~Goes(Stored(Link(x, l), i)) /\ find.level > 0
                /\ find' = [find EXCEPT !.level = @ - 1] /\ UNCHANGED node_
             \/ /\ ~Goes(Stored(Link(x, l), i)) /\ find.level = 0
                /\ find' = NoFind /\ node_' = Found(Stored(Link(x, l), i))
  BY DEF FindStep
<1> SUFFICES ASSUME NEW v, v = Stored(Link(x, l), i)
             PROVE  ReaderInv'
  OBVIOUS
<1>2. /\ find \in [op : {"none", "FindGreaterOrEqual", "FindLessThan", "FindLast"},
                   target : Int, x : Nat, level : 0..MaxHeight - 1]
      /\ x \in Nat /\ l \in 0..MaxHeight - 1 /\ (x = head_ \/ Linked(x, l, view))
  BY DEF ReaderInv
<1>3. /\ w \in 0..Len(stores) /\ view <= w
      /\ v = NULL \/ Linked(v, l, w)
  BY <1>1, <1>2, LoadLink DEF ReaderInv
<1>4. node_ = NULL \/ Linked(node_, 0, w)
  BY <1>3, NodeKept
<1>5. \A k \in 0..l : x = head_ \/ Linked(x, k, w)
  BY <1>3, NodeKept
<1>6. node_' = node_ => (node_ = NULL \/ Linked(node_, 0, view))'
  BY <1>4 DEF Linked, StoredBy, KeyOf, Link, NULL
<1>7. CASE /\ Goes(v)
           /\ find' = [find EXCEPT !.x = v] /\ UNCHANGED node_
  <2>1. Linked(v, l, w)
    BY <1>3, <1>7 DEF Goes
  <2>2. find' \in [op : {"none", "FindGreaterOrEqual", "FindLessThan", "FindLast"},
                   target : Int, x : Nat, level : 0..MaxHeight - 1]
        /\ find'.x = v /\ find'.level = l
    BY <1>2, <1>7, <2>1 DEF Linked
  <2>3. Linked(find.x, find.level, view)'
    <3>1. find'.x = v /\ find'.level = l /\ view' = w
      BY <2>2
    <3>2. v = NULL \/ Linked(v, l, w)
      BY <2>1
    <3>3. (find.x = NULL \/ Linked(find.x, find.level, view))'
      BY <3>1, <3>2 DEF Linked, StoredBy, KeyOf, Link, NULL
    <3>4. find'.x # NULL
      BY <2>1, <3>1 DEF Linked, NULL
    <3> QED BY <3>3, <3>4 DEF NULL
  <2> QED BY <1>3, <1>6, <1>7, <2>2, <2>3 DEF ReaderInv
<1>8. CASE /\ find.level > 0
           /\ find' = [find EXCEPT !.level = @ - 1] /\ UNCHANGED node_
  <2>1. find' \in [op : {"none", "FindGreaterOrEqual", "FindLessThan", "FindLast"},
                   target : Int, x : Nat, level : 0..MaxHeight - 1]
        /\ find'.x = x /\ find'.level = l - 1 /\ l - 1 \in 0..l
    <3>1. l - 1 \in 0..MaxHeight - 1 /\ l - 1 \in 0..l
      <4>1. l > 0
        BY <1>8
      <4>2. l \in 0..MaxHeight - 1
        BY <1>2
      <4>3. \A a \in Nat : \A b \in 0..a - 1 : b > 0 => b - 1 \in 0..a - 1 /\ b - 1 \in 0..b
        OBVIOUS
      <4> QED BY <4>1, <4>2, <4>3, SkipListAssumption
    <3>2. find' = [find EXCEPT !.level = l - 1]
      BY <1>8
    <3> QED BY <1>2, <3>1, <3>2
  <2>2. x = head_ \/ Linked(x, l - 1, w)
    BY <1>5, <2>1
  <2>3. (find.x = head_ \/ Linked(find.x, find.level, view))'
    BY <2>1, <2>2 DEF Linked, StoredBy, KeyOf, Link, head_
  <2> QED BY <1>3, <1>6, <1>8, <2>1, <2>3 DEF ReaderInv
<1>9. CASE find.level = 0 /\ find' = NoFind /\ node_' = Found(v)
  <2>1. v = NULL \/ Linked(v, 0, w)
    BY <1>3, <1>9
  <2>2. x = head_ \/ Linked(x, 0, w)
    BY <1>5, <1>9
  <2>3. node_' = NULL \/ (node_' = v /\ Linked(v, 0, w)) \/ (node_' = x /\ Linked(x, 0, w))
    BY <1>9, <2>1, <2>2 DEF Found
  <2>4. (node_ = NULL \/ Linked(node_, 0, view))'
    BY <2>3 DEF Linked, StoredBy, KeyOf, Link, NULL
  <2>5. find' \in [op : {"none", "FindGreaterOrEqual", "FindLessThan", "FindLast"},
                   target : Int, x : Nat, level : 0..MaxHeight - 1]
        /\ find'.x = head_
    BY <1>9, SkipListAssumption DEF NoFind, head_
  <2> QED BY <1>3, <2>4, <2>5 DEF ReaderInv, head_
<1> QED BY <1>1, <1>7, <1>8, <1>9
-----------------------------------------------------------------------------
(***************************************************************************)
(* DBIter.                                                                 *)
(***************************************************************************)
EntryTypes == {"kTypeValue", "kTypeDeletion"}

\* A key in the list is that of a write.
EntriesWritten ==
    /\ types \in Seq(EntryTypes) /\ Len(types) <= MaxWrites
    /\ \A k \in Inserted : \E u \in UserKeys, s \in 1..Len(types) : k = InternalKey(u, s)

\* DBIter is not idle while iter_ searches, and moves on, or back from, an entry only if
\* there is one.
AtRest ==
    /\ pc = "idle" => find = NoFind
    /\ pc = "FindPrevUserEntry" => direction_ = "kReverse"
    /\ pc = "idle" /\ valid_ /\ direction_ = "kForward" => node_ # NULL

IterType ==
    /\ last_sequence_ \in 0..Len(types) /\ sequence_ \in 0..last_sequence_
    /\ saved_key_ \in UserKeys \cup {0} /\ saved_value_ \in 0..sequence_
    /\ direction_ \in {"kForward", "kReverse"} /\ valid_ \in BOOLEAN /\ skipping \in BOOLEAN
    /\ pc \in {"idle", "FindNextUserEntry", "Prev", "FindPrevUserEntry"}

IInv == ListInv /\ ReaderInv /\ EntriesWritten /\ IterType /\ AtRest

LEMMA InternalKeyParts ==
    ASSUME NEW u \in UserKeys, NEW s \in 1..MaxWrites
    PROVE  /\ InternalKey(u, s) \in Nat \ {0}
           /\ UserKey(InternalKey(u, s)) = u /\ Sequence(InternalKey(u, s)) = s
<1>1. InternalKey(u, s) \in Nat \ {0}
  BY SkipListAssumption, KeysAssumption
<1>2. u \in Nat /\ MaxWrites + 1 \in Nat \ {0} /\ MaxWrites - s \in 0..(MaxWrites + 1) - 1
  BY UserKeysAssumption
<1>3. /\ (u * (MaxWrites + 1) + (MaxWrites - s)) \div (MaxWrites + 1) = u
      /\ (u * (MaxWrites + 1) + (MaxWrites - s)) % (MaxWrites + 1) = MaxWrites - s
  BY <1>2, DivMod
<1>4. InternalKey(u, s) = u * (MaxWrites + 1) + (MaxWrites - s)
  <2>1. \A a \in Int : a + MaxWrites - s = a + (MaxWrites - s)
    BY UserKeysAssumption
  <2>2. u * (MaxWrites + 1) \in Int
    BY <1>2
  <2> QED BY <2>1, <2>2 DEF InternalKey
<1>5. MaxWrites - (MaxWrites - s) = s
  BY UserKeysAssumption
<1> QED BY <1>1, <1>3, <1>4, <1>5 DEF UserKey, Sequence

\* What a node that the reader has reached is.
LEMMA ReachedInserted ==
    ASSUME ListInv, NEW x, NEW l, NEW n \in 0..Len(stores), Linked(x, l, n)
    PROVE  x \in Inserted
<1>1. Len(stores) \in Nat /\ DOMAIN stores = 1..Len(stores)
  BY LenProperties DEF ListInv
<1>2. PICK j \in 1..n : stores[j].to = KeyOf(x)
  BY DEF Linked, StoredBy
<1>3. j \in DOMAIN stores /\ stores[j].to[1] = x /\ x # head_
  BY <1>1, <1>2 DEF KeyOf, Linked, head_
<1> QED BY <1>3 DEF Inserted

LEMMA NodeEntry ==
    ASSUME ListInv, ReaderInv, EntriesWritten
    PROVE  node_ # NULL => /\ node_ \in Inserted
                           /\ UserKey(node_) \in UserKeys
                           /\ Sequence(node_) \in 1..Len(types)
<1> SUFFICES ASSUME node_ # NULL
             PROVE  node_ \in Inserted /\ UserKey(node_) \in UserKeys
                    /\ Sequence(node_) \in 1..Len(types)
  OBVIOUS
<1>1. node_ \in Inserted
  BY ReachedInserted DEF ReaderInv
<1>2. PICK u \in UserKeys, s \in 1..Len(types) : node_ = InternalKey(u, s)
  BY <1>1 DEF EntriesWritten
<1>3. s \in 1..MaxWrites
  BY <1>2, LenProperties, UserKeysAssumption DEF EntriesWritten
<1>4. UserKey(InternalKey(u, s)) = u /\ Sequence(InternalKey(u, s)) = s
  BY <1>3, InternalKeyParts
<1> QED BY <1>1, <1>2, <1>4
\* How a step of the iterator moves iter_.
Moves ==
    \/ UNCHANGED iteratorVars
    \/ \E n : (n = head_ \/ (n = node_ /\ n # NULL)) /\ Follow(n)
    \/ \E op \in {"FindGreaterOrEqual", "FindLessThan", "FindLast"}, target \in Int :
           StartFind(op, target) /\ (op = "FindGreaterOrEqual" => target > 0)
    \/ FindStep
    \/ view' = ViewAfterLock /\ find' = NoFind /\ node_' = NULL

LEMMA InternalKeyInt ==
    ASSUME IInv, sequence_ > 0, NEW target \in UserKeys
    PROVE  /\ sequence_ \in 1..MaxWrites
           /\ InternalKey(target, sequence_) \in Int /\ InternalKey(target, sequence_) > 0
<1>1. Len(types) \in Nat /\ Len(types) <= MaxWrites
  BY LenProperties DEF IInv, EntriesWritten
<1>2. sequence_ \in 1..MaxWrites
  BY <1>1, UserKeysAssumption DEF IInv, IterType
<1> QED BY <1>2, InternalKeyParts

LEMMA IterateMoves ==
    ASSUME IInv, User \/ Iterate
    PROVE  Moves /\ UNCHANGED <<stores, inserting, committed, writeVars>>
<1> USE DEF Moves, unchangedByIter
<1>0. node_ \in Int
  BY DEF IInv, ReaderInv, Linked, NULL
<1>1. CASE NewIterator
  BY <1>1 DEF NewIterator
<1>2. CASE SeekToFirst
  BY <1>2, Zenon DEF SeekToFirst, IterSeekToFirst
<1>3. CASE SeekToLast
  <2>1. StartFind("FindLast", 0) /\ 0 \in Int
    BY <1>3 DEF SeekToLast, IterSeekToLast
  <2> QED BY <1>3, <2>1, Zenon DEF SeekToLast
<1>4. ASSUME NEW u \in UserKeys, Seek(u)
      PROVE  Moves /\ UNCHANGED <<stores, inserting, committed, writeVars>>
  <2>1. InternalKey(u, sequence_) \in Int /\ InternalKey(u, sequence_) > 0
    <3>1. sequence_ > 0
      BY <1>4 DEF Seek, FindNext, Begin
    <3> QED BY <3>1, InternalKeyInt
  <2>2. StartFind("FindGreaterOrEqual", InternalKey(u, sequence_))
    BY <1>4 DEF Seek, IterSeek
  <2> QED BY <1>4, <2>1, <2>2, Zenon DEF Seek
<1>5. CASE MoveNext
  <2>1. UNCHANGED iteratorVars \/ IterSeekToFirst \/ (node_ # NULL /\ IterNext)
    BY <1>5 DEF MoveNext
  <2> QED BY <1>5, <2>1, Zenon DEF MoveNext, IterSeekToFirst, IterNext
<1>6. CASE MovePrev
  <2>1. UNCHANGED iteratorVars \/ StartFind("FindLessThan", node_)
    BY <1>6 DEF MovePrev, IterPrev
  <2> QED BY <1>0, <1>6, <2>1, Zenon DEF MovePrev
<1>7. CASE Searching
  BY <1>7 DEF Searching
<1>8. CASE FindNextUserEntry
  <2>1. UNCHANGED iteratorVars \/ (node_ # NULL /\ IterNext)
    BY <1>8 DEF FindNextUserEntry, Return
  <2> QED BY <1>8, <2>1, Zenon DEF FindNextUserEntry, IterNext
<1>9. CASE TurnRound
  <2>1. UNCHANGED iteratorVars \/ StartFind("FindLessThan", node_)
    BY <1>9 DEF TurnRound, Return, IterPrev
  <2> QED BY <1>0, <1>9, <2>1, Zenon DEF TurnRound
<1>10. CASE FindPrevUserEntry
  <2>1. UNCHANGED iteratorVars \/ StartFind("FindLessThan", node_)
    BY <1>10 DEF FindPrevUserEntry, Return, IterPrev
  <2> QED BY <1>0, <1>10, <2>1, Zenon DEF FindPrevUserEntry
<1> QED BY <1>1, <1>2, <1>3, <1>4, <1>5, <1>6, <1>7, <1>8, <1>9, <1>10 DEF User, Iterate

LEMMA ListUnchanged ==
    ASSUME ListInv, UNCHANGED <<stores, inserting>>
    PROVE  ListInv' /\ Inserted' = Inserted /\ Continued
<1>1. Len(stores) \in Nat
  BY LenProperties DEF ListInv
<1>2. StoresGood'
  BY DEF ListInv, StoresGood, GoodStore, LinkLeads, LinkReleased, HeightBounded, Linked,
         StoredBy, IsLink, KeyOf, Link, max_height_, head_, NULL
<1>3. InsertUnderWay'
  BY DEF ListInv, InsertUnderWay, StoredBy, KeyOf, Link, NoInsert
<1> QED BY <1>1, <1>2, <1>3 DEF ListInv, Inserted, head_, Continued

LEMMA ReaderMoves ==
    ASSUME IInv, Moves, UNCHANGED <<stores, inserting, committed>>
    PROVE  ReaderInv'
<1>0. Len(stores) \in Nat
  BY LenProperties DEF IInv, ListInv
<1>1. CASE UNCHANGED iteratorVars
  BY <1>1, ReaderKept, ListUnchanged DEF IInv, ListInv
<1>2. CASE \E n : (n = head_ \/ (n = node_ /\ n # NULL)) /\ Follow(n)
  BY <1>2, FollowReader DEF IInv
<1>3. CASE \E op \in {"FindGreaterOrEqual", "FindLessThan", "FindLast"}, target \in Int :
              StartFind(op, target) /\ (op = "FindGreaterOrEqual" => target > 0)
  BY <1>3, StartFindReader DEF IInv
<1>4. CASE FindStep
  BY <1>4, FindStepReader DEF IInv
<1>5. CASE view' = ViewAfterLock /\ find' = NoFind /\ node_' = NULL
  <2>1. view' \in 0..Len(stores)
    BY <1>5 DEF IInv, ReaderInv, ViewAfterLock
  <2> QED BY <1>5, <2>1, SkipListAssumption DEF IInv, ReaderInv, NoFind, head_, NULL
<1> QED BY <1>1, <1>2, <1>3, <1>4, <1>5 DEF Moves

\* A step of the writer.
LEMMA WriterSteps ==
    ASSUME IInv,
           \/ \E u \in UserKeys, type \in EntryTypes, height \in 1..MaxHeight : Add(u, type, height)
           \/ Insert \/ Publish
    PROVE  /\ ListInv' /\ ReaderInv' /\ EntriesWritten'
           /\ last_sequence_' \in 0..Len(types') /\ last_sequence_' >= last_sequence_
           /\ UNCHANGED <<node_, find, dbIterVars>>
<1>0. /\ types \in Seq(EntryTypes) /\ Len(types) \in Nat
      /\ last_sequence_ \in 0..Len(types)
  BY LenProperties DEF IInv, EntriesWritten, IterType
<1>1. ASSUME NEW u \in UserKeys, NEW type \in EntryTypes, NEW height \in 1..MaxHeight,
             Add(u, type, height)
      PROVE  /\ ListInv' /\ ReaderInv' /\ EntriesWritten'
             /\ last_sequence_' \in 0..Len(types') /\ last_sequence_' >= last_sequence_
             /\ UNCHANGED <<node_, find, dbIterVars>>
  <2> SUFFICES ASSUME NEW s, s = Len(types) + 1, NEW key, key = InternalKey(u, s)
               PROVE  /\ ListInv' /\ ReaderInv' /\ EntriesWritten'
                      /\ last_sequence_' \in 0..Len(types') /\ last_sequence_' >= last_sequence_
                      /\ UNCHANGED <<node_, find, dbIterVars>>
    OBVIOUS
  <2>1. s \in 1..MaxWrites
    BY <1>0, <1>1, UserKeysAssumption DEF Add
  <2>2. key \in Nat \ {0}
    BY <2>1, InternalKeyParts
  <2>3. NewNode(key, height)
    BY <1>1 DEF Add
  <2>4. ListInv' /\ Inserted' \subseteq Inserted \cup {key} /\ Continued
    BY <2>2, <2>3, NewNodeList DEF IInv
  <2>5. UNCHANGED <<committed, iteratorVars>>
    BY <2>3 DEF NewNode
  <2>6. ReaderInv'
    BY <2>4, <2>5, ReaderKept DEF IInv, ListInv
  <2>7. types' \in Seq(EntryTypes) /\ Len(types') = s
    BY <1>0, <1>1, AppendProperties DEF Add
  <2>8. \A k \in Inserted' : \E uu \in UserKeys, ss \in 1..Len(types') : k = InternalKey(uu, ss)
    <3>1. s \in 1..Len(types') /\ \A ss \in 1..Len(types) : ss \in 1..Len(types')
      BY <2>1, <2>7, <1>0
    <3> QED BY <2>4, <3>1 DEF IInv, EntriesWritten
  <2>9. EntriesWritten'
    BY <2>1, <2>7, <2>8, UserKeysAssumption DEF EntriesWritten, InternalKey
  <2>10. last_sequence_' = last_sequence_ /\ last_sequence_' \in 0..Len(types')
    BY <1>0, <1>1, <2>7 DEF Add
  <2> QED BY <1>0, <1>1, <2>4, <2>5, <2>6, <2>9, <2>10 DEF Add, iteratorVars
<1>2. CASE Insert
  <2>1. LinkLevel /\ UNCHANGED <<writeVars, dbIterVars>>
    BY <1>2 DEF Insert
  <2>2. ListInv' /\ Inserted' \subseteq Inserted /\ Continued
    BY <2>1, LinkLevelList DEF IInv
  <2>3. UNCHANGED <<committed, iteratorVars>>
    BY <2>1 DEF LinkLevel
  <2>4. ReaderInv'
    BY <2>2, <2>3, ReaderKept DEF IInv, ListInv
  <2>5. EntriesWritten'
    BY <2>1, <2>2 DEF IInv, EntriesWritten, writeVars, InternalKey
  <2> QED BY <1>0, <2>1, <2>2, <2>3, <2>4, <2>5 DEF iteratorVars, writeVars
<1>3. CASE Publish
  <2>1. /\ UNCHANGED <<stores, inserting, iteratorVars, types, dbIterVars>>
        /\ last_sequence_' = Len(types) /\ committed' = Len(stores)
    BY <1>3 DEF Publish, Unlock
  <2>2. ListInv' /\ Inserted' = Inserted /\ Continued
    BY <2>1, ListUnchanged DEF IInv
  <2>3. ReaderInv'
    BY <2>1, <2>2, ReaderKept DEF IInv, ListInv
  <2>4. EntriesWritten'
    BY <2>1, <2>2 DEF IInv, EntriesWritten, InternalKey
  <2> QED BY <1>0, <2>1, <2>2, <2>3, <2>4 DEF iteratorVars
<1> QED BY <1>1, <1>2, <1>3
\* The fields of DBIter after one of its steps.
LEMMA IterFields ==
    ASSUME IInv, User \/ Iterate
    PROVE  IterType' /\ AtRest'
<1>1. /\ last_sequence_ \in 0..Len(types) /\ sequence_ \in 0..last_sequence_
      /\ saved_key_ \in UserKeys \cup {0} /\ saved_value_ \in 0..sequence_
      /\ direction_ \in {"kForward", "kReverse"} /\ valid_ \in BOOLEAN /\ skipping \in BOOLEAN
      /\ pc \in {"idle", "FindNextUserEntry", "Prev", "FindPrevUserEntry"}
  BY DEF IInv, IterType
<1>2. /\ pc = "idle" => find = NoFind
      /\ pc = "FindPrevUserEntry" => direction_ = "kReverse"
      /\ pc = "idle" /\ valid_ /\ direction_ = "kForward" => node_ # NULL
  BY DEF IInv, AtRest
<1>3. node_ # NULL => UserKey(node_) \in UserKeys /\ Sequence(node_) \in 1..Len(types)
  BY NodeEntry DEF IInv
<1>4. Len(types) \in Nat
  BY LenProperties DEF IInv, EntriesWritten
<1>5. types' = types /\ last_sequence_' = last_sequence_
  BY IterateMoves DEF writeVars
<1>6. 0 \in 0..sequence_ /\ 0 \in 0..last_sequence_ /\ last_sequence_ \in 0..last_sequence_
  BY <1>1, <1>4
<1> USE DEF IterType, AtRest, unchangedByIter, Begin, FindNext, FindPrev, Return, Arrived
<1>7. CASE NewIterator
  BY <1>1, <1>5, <1>6, <1>7 DEF NewIterator
<1>8. CASE SeekToFirst
  BY <1>1, <1>5, <1>6, <1>8 DEF SeekToFirst
<1>9. CASE SeekToLast
  BY <1>1, <1>5, <1>6, <1>9 DEF SeekToLast
<1>10. ASSUME NEW u \in UserKeys, Seek(u)
       PROVE  IterType' /\ AtRest'
  BY <1>1, <1>5, <1>6, <1>10 DEF Seek
<1>11. CASE MoveNext
  <2>1. saved_key_' \in UserKeys \cup {0}
    BY <1>1, <1>2, <1>3, <1>11 DEF MoveNext
  <2> QED BY <1>1, <1>5, <1>11, <2>1 DEF MoveNext
<1>12. CASE MovePrev
  <2>1. saved_key_' \in UserKeys \cup {0}
    BY <1>1, <1>2, <1>3, <1>12 DEF MovePrev
  <2>2. pc' = "FindPrevUserEntry" => direction_' = "kReverse"
    BY <1>1, <1>12 DEF MovePrev
  <2> QED BY <1>1, <1>5, <1>12, <2>1, <2>2 DEF MovePrev
<1>13. CASE Searching
  <2>1. pc # "idle" /\ UNCHANGED dbIterVars
    BY <1>2, <1>13 DEF Searching, FindStep
  <2> QED BY <1>1, <1>2, <1>5, <2>1 DEF dbIterVars
<1>14. CASE FindNextUserEntry
  <2>1. saved_key_' \in UserKeys \cup {0}
    BY <1>1, <1>3, <1>14 DEF FindNextUserEntry
  <2>2. valid_' \in BOOLEAN /\ skipping' \in BOOLEAN
        /\ pc' \in {"idle", "FindNextUserEntry"}
    BY <1>1, <1>14, Zenon DEF FindNextUserEntry
  <2>3. direction_' = direction_ /\ sequence_' = sequence_ /\ saved_value_' = saved_value_
    BY <1>14 DEF FindNextUserEntry
  <2>4. pc' = "idle" => /\ find' = NoFind
                        /\ valid_' => node_' # NULL
    BY <1>14 DEF FindNextUserEntry, iteratorVars
  <2> QED BY <1>1, <1>5, <2>1, <2>2, <2>3, <2>4
<1>15. CASE TurnRound
  <2>1. saved_key_' \in UserKeys \cup {0} /\ saved_value_' \in 0..sequence_
    BY <1>1, <1>6, <1>15 DEF TurnRound
  <2>2. valid_' \in BOOLEAN /\ skipping' \in BOOLEAN
        /\ direction_' \in {"kForward", "kReverse"}
        /\ pc' \in {"idle", "Prev", "FindPrevUserEntry"}
        /\ (pc' = "FindPrevUserEntry" => direction_' = "kReverse")
    BY <1>1, <1>15 DEF TurnRound
  <2>3. pc' = "idle" => find' = NoFind /\ ~valid_'
    BY <1>15 DEF TurnRound, iteratorVars
  <2>4. sequence_' = sequence_
    BY <1>15 DEF TurnRound
  <2>5. IterType'
    BY <1>1, <1>5, <2>1, <2>2, <2>4
  <2>6. AtRest'
    BY <2>2, <2>3
  <2> QED BY <2>5, <2>6
<1>16. CASE FindPrevUserEntry
  <2>1. saved_key_' \in UserKeys \cup {0}
    BY <1>1, <1>3, <1>16 DEF FindPrevUserEntry, EndOfReverse
  <2>2. saved_value_' \in 0..sequence_
    <3>1. node_ # NULL /\ Visible(node_) => Sequence(node_) \in 0..sequence_
      BY <1>1, <1>3, <1>4 DEF Visible
    <3> QED BY <1>1, <1>6, <1>16, <3>1 DEF FindPrevUserEntry, EndOfReverse
  <2>3. valid_' \in BOOLEAN /\ skipping' \in BOOLEAN
        /\ direction_' \in {"kForward", "kReverse"}
        /\ pc' \in {"idle", "FindPrevUserEntry"}
    BY <1>1, <1>16 DEF FindPrevUserEntry, EndOfReverse
  <2>4. direction_ = "kReverse"
    BY <1>2, <1>16 DEF FindPrevUserEntry
  <2>5. pc' = "FindPrevUserEntry" => direction_' = "kReverse"
    BY <1>16, <2>4 DEF FindPrevUserEntry
  <2>6. pc' = "idle" => find' = NoFind /\ (valid_' => direction_' = "kReverse")
    BY <1>16, <2>4 DEF FindPrevUserEntry, EndOfReverse, iteratorVars
  <2>7. sequence_' = sequence_
    BY <1>16 DEF FindPrevUserEntry
  <2> QED BY <1>1, <1>5, <2>1, <2>2, <2>3, <2>5, <2>6, <2>7
<1> QED BY <1>7, <1>8, <1>9, <1>10, <1>11, <1>12, <1>13, <1>14, <1>15, <1>16 DEF User, Iterate

LEMMA IInvStep == IInv /\ [Next]_vars => IInv'
<1> SUFFICES ASSUME IInv, [Next]_vars PROVE IInv'
  OBVIOUS
<1>1. CASE \/ \E u \in UserKeys, type \in {"kTypeValue", "kTypeDeletion"}, height \in 1..MaxHeight :
                  Add(u, type, height)
           \/ Insert \/ Publish
  <2>1. /\ ListInv' /\ ReaderInv' /\ EntriesWritten'
        /\ last_sequence_' \in 0..Len(types') /\ last_sequence_' >= last_sequence_
        /\ UNCHANGED <<node_, find, dbIterVars>>
    BY <1>1, WriterSteps DEF EntryTypes
  <2>2. Len(types) \in Nat /\ Len(types') \in Nat
    BY <2>1, LenProperties DEF IInv, EntriesWritten
  <2>3. sequence_ \in 0..last_sequence_'
    BY <2>1, <2>2 DEF IInv, IterType
  <2>4. IterType'
    BY <2>1, <2>3 DEF IInv, IterType, dbIterVars
  <2>5. AtRest'
    BY <2>1 DEF IInv, AtRest, dbIterVars
  <2> QED BY <2>1, <2>4, <2>5 DEF IInv
<1>2. CASE User \/ Iterate
  <2>1. Moves /\ UNCHANGED <<stores, inserting, committed, writeVars>>
    BY <1>2, IterateMoves
  <2>2. ListInv' /\ Inserted' = Inserted
    BY <2>1, ListUnchanged DEF IInv
  <2>3. ReaderInv'
    BY <2>1, ReaderMoves
  <2>4. EntriesWritten'
    BY <2>1, <2>2 DEF IInv, EntriesWritten, writeVars, InternalKey
  <2>5. IterType' /\ AtRest'
    BY <1>2, IterFields
  <2> QED BY <2>2, <2>3, <2>4, <2>5 DEF IInv
<1>3. CASE UNCHANGED vars
  <2>1. ListInv' /\ Inserted' = Inserted
    BY <1>3, ListUnchanged DEF IInv, vars
  <2>2. ReaderInv'
    BY <1>3, ReaderMoves DEF vars, Moves
  <2>3. EntriesWritten'
    BY <1>3, <2>1 DEF IInv, EntriesWritten, vars, writeVars, InternalKey
  <2>4. IterType' /\ AtRest'
    BY <1>3 DEF IInv, IterType, AtRest, vars, writeVars, dbIterVars, iteratorVars
  <2> QED BY <2>1, <2>2, <2>3, <2>4 DEF IInv
<1> QED BY <1>1, <1>2, <1>3 DEF Next

LEMMA InitIInv == Init => IInv
<1> SUFFICES ASSUME Init PROVE IInv
  OBVIOUS
<1> USE DEF Init, ListInit
<1>1. stores = <<>> /\ Len(stores) = 0 /\ types = <<>> /\ Len(types) = 0
  BY EmptySeq
<1>2. ListInv
  BY <1>1, EmptySeq DEF ListInv, StoresGood, InsertUnderWay
<1>3. ReaderInv
  BY <1>1, SkipListAssumption DEF ReaderInv, NoFind, head_
<1>4. DOMAIN stores = {}
  BY <1>1, EmptySeq
<1>5. EntriesWritten
  BY <1>1, <1>4, EmptySeq, UserKeysAssumption DEF EntriesWritten, Inserted
<1>6. AtRest
  BY DEF AtRest
<1>7. IterType
  <2>1. 0 \in 0..0
    OBVIOUS
  <2> QED BY <1>1, <2>1 DEF IterType
<1> QED BY <1>7, <1>2, <1>3, <1>5, <1>6 DEF IInv

LEMMA IInvHolds == Spec => []IInv
<1>1. Init => IInv
  BY InitIInv
<1>2. IInv /\ [Next]_vars => IInv'
  BY IInvStep
<1> QED BY <1>1, <1>2, PTL DEF Spec
-----------------------------------------------------------------------------
(***************************************************************************)
(* The theorems.                                                           *)
(***************************************************************************)
\* What the reader sees of a field that has been stored to before its view ends.
LEMMA SeesStored ==
    ASSUME ListInv, view \in 0..Len(stores), NEW x \in Nat, NEW l \in 0..MaxHeight,
           \/ StoredBy(<<x, l>>, view)
           \/ x = head_ /\ l # MaxHeight
    PROVE  Sees(<<x, l>>)
<1>1. Len(stores) \in Nat /\ DOMAIN stores = 1..Len(stores)
  BY LenProperties DEF ListInv
<1> SUFFICES ASSUME NEW i, i = LatestOf(<<x, l>>, view)
             PROVE  Stored(<<x, l>>, i) # Garbage
  BY DEF Sees
<1>2. /\ i \in 0..view
      /\ i # 0 => stores[i].to = <<x, l>>
      /\ i = 0 => ~StoredBy(<<x, l>>, view)
  BY LatestIs DEF ListInv
<1>3. CASE i = 0
  <2>1. x = head_ /\ <<x, l>> # max_height_ /\ <<x, l>>[1] = head_
    BY <1>2, <1>3 DEF max_height_
  <2> QED BY <1>3, <2>1 DEF Stored, Initially, NULL, Garbage
<1>4. CASE i # 0
  <2>1. i \in 1..Len(stores) /\ stores[i].to = <<x, l>> /\ stores[i].to[2] = l
        /\ Stored(<<x, l>>, i) = stores[i].value
    BY <1>1, <1>2, <1>4 DEF Stored
  <2>2. LinkLeads(i) /\ HeightBounded(i)
    BY <2>1 DEF ListInv, StoresGood, GoodStore
  <2>3. CASE l = MaxHeight
    <3>1. stores[i].value >= 1
      BY <2>1, <2>2, <2>3 DEF HeightBounded
    <3>2. stores[i].value \in Int
      <4>1. stores[i] \in StoreType
        BY <2>1, ElementOfSeq DEF ListInv
      <4> QED BY <4>1 DEF StoreType
    <3> QED BY <2>1, <3>1, <3>2 DEF Garbage
  <2>4. CASE l # MaxHeight
    <3>1. IsLink(stores[i].to)
      BY <2>1, <2>4, SkipListAssumption DEF IsLink
    <3>2. stores[i].value = NULL \/ stores[i].value \in Nat
      BY <2>2, <3>1 DEF LinkLeads, Linked
    <3> QED BY <2>1, <3>2 DEF NULL, Garbage
  <2> QED BY <2>3, <2>4
<1> QED BY <1>3, <1>4

\* The reader gets hold of a node only when the node's key and the links it will follow
\* there are initialised in its view: SkipList::Insert's release stores publish each
\* level of a node after the stores that the acquire loads of Node::Next must find.
THEOREM ReachesOnlyInitialised == Spec => []ReachesInitialised
<1>1. IInv => ReachesInitialised
  <2> SUFFICES ASSUME IInv PROVE ReachesInitialised
    OBVIOUS
  <2> USE DEF IInv
  <2>1. view \in 0..Len(stores) /\ ListInv /\ view \in Nat
    <3>1. Len(stores) \in Nat
      BY LenProperties DEF ListInv
    <3> QED BY <3>1 DEF ReaderInv
  <2>2. ASSUME NEW n, n # head_, NEW l \in 0..MaxHeight - 1, Linked(n, l, view)
        PROVE  Sees(KeyOf(n)) /\ \A k \in 0..l : Sees(Link(n, k))
    <3>1. n \in Nat /\ StoredBy(KeyOf(n), view) /\ \A k \in 0..l : StoredBy(Link(n, k), view)
      BY <2>2 DEF Linked
    <3>2. \A k \in 0..l : k \in 0..MaxHeight
      BY <2>2, SkipListAssumption
    <3>3. MaxHeight \in 0..MaxHeight
      BY SkipListAssumption
    <3>4. Sees(KeyOf(n))
      BY <2>1, <3>1, <3>3, SeesStored DEF KeyOf
    <3>5. \A k \in 0..l : Sees(Link(n, k))
      BY <2>1, <3>1, <3>2, SeesStored DEF Link
    <3> QED BY <3>4, <3>5
  <2>3. /\ find.level \in 0..MaxHeight - 1 /\ 0 \in 0..MaxHeight - 1 /\ 0 \in 0..find.level
        /\ find.x = head_ \/ Linked(find.x, find.level, view)
        /\ node_ = NULL \/ Linked(node_, 0, view)
    BY SkipListAssumption DEF ReaderInv
  <2>4. ASSUME NEW n \in {node_, find.x} \ {head_, NULL}
        PROVE  Sees(KeyOf(n)) /\ Sees(Link(n, 0))
    <3>1. CASE n = node_
      <4>1. Linked(n, 0, view) /\ n # head_
        BY <2>3, <2>4, <3>1
      <4>2. 0 \in 0..0
        OBVIOUS
      <4> QED BY <2>2, <2>3, <4>1, <4>2
    <3>2. CASE n = find.x
      <4>1. Linked(n, find.level, view) /\ n # head_
        BY <2>3, <2>4, <3>2
      <4> QED BY <2>2, <2>3, <4>1
    <3> QED BY <2>4, <3>1, <3>2
  <2>5. ASSUME NEW l \in 0..find.level
        PROVE  Sees(Link(find.x, l))
    <3>1. CASE find.x = head_
      <4>1. l \in 0..MaxHeight /\ l # MaxHeight /\ head_ \in Nat
        BY <2>3, <2>5, SkipListAssumption DEF head_
      <4>2. Sees(<<head_, l>>)
        BY <2>1, <4>1, SeesStored
      <4> QED BY <3>1, <4>2 DEF Link
    <3>2. CASE find.x # head_
      BY <2>2, <2>3, <2>5, <3>2
    <3> QED BY <3>1, <3>2
  <2> QED BY <2>4, <2>5 DEF ReachesInitialised
<1> QED BY <1>1, IInvHolds, PTL

\* Every field has its type: in particular iter_ stands on an entry of some write, the
\* saved key and value are those of a visible one, and a search never uses a level that
\* the list has not got, whatever height GetMaxHeight returns.
THEOREM TypeCorrect == Spec => []TypeOK
<1>1. IInv => TypeOK
  <2> SUFFICES ASSUME IInv PROVE TypeOK
    OBVIOUS
  <2> USE DEF IInv
  <2>1. types \in Seq(EntryTypes) /\ DOMAIN types = 1..Len(types) /\ Len(types) \in Nat
        /\ Len(types) <= MaxWrites
    BY LenProperties DEF EntriesWritten
  <2>2. ASSUME NEW k \in Inserted
        PROVE  k \in Keys /\ Sequence(k) \in DOMAIN types
    <3>1. PICK u \in UserKeys, s \in 1..Len(types) : k = InternalKey(u, s)
      BY <2>2 DEF EntriesWritten
    <3>2. s \in 1..MaxWrites
      BY <2>1, <3>1, UserKeysAssumption
    <3> QED BY <2>1, <3>1, <3>2, KeysAssumption, InternalKeyParts
  <2>3. node_ \in Inserted \cup {NULL}
    BY NodeEntry
  <2>4. find.x \in Inserted \cup {head_}
    BY ReachedInserted DEF ReaderInv
  <2>5. /\ find.op \in {"none", "FindGreaterOrEqual", "FindLessThan", "FindLast"}
        /\ find.level \in 0..MaxHeight - 1
        /\ committed \in 0..Len(stores) /\ view \in 0..Len(stores)
    BY DEF ReaderInv
  <2>6. {valid_, skipping} \subseteq BOOLEAN
    BY DEF IterType
  <2> QED BY <2>1, <2>2, <2>3, <2>4, <2>5, <2>6 DEF TypeOK, IterType, EntryTypes
<1> QED BY <1>1, IInvHolds, PTL
-----------------------------------------------------------------------------
(***************************************************************************)
(* The order of the list.  S is a sequence of stores, n how many of them   *)
(* have been made.                                                         *)
(***************************************************************************)
\* The nodes that a link of level 0 leads to.
ListIn(S, n) == {k \in Nat \ {0} : \E j \in 1..n : S[j].to[2] = 0 /\ S[j].value = k}

IsValue(S, field, n, v) ==
    \/ \E i \in 1..n : /\ S[i].to = field /\ S[i].value = v
                       /\ \A j \in i + 1..n : S[j].to # field
    \/ v = Initially(field) /\ \A j \in 1..n : S[j].to # field

\* v is the next node after x.
IsNext(S, x, v, n) ==
    /\ v = NULL \/ (v \in ListIn(S, n) /\ v > x)
    /\ \A k \in ListIn(S, n) : k > x => v # NULL /\ v <= k

NextAt(S, n) ==
    \A x \in ListIn(S, n) \cup {head_} : \A v : IsValue(S, Link(x, 0), n, v) => IsNext(S, x, v, n)

InOrder(S) ==
    /\ \A n \in 0..Len(S) : NextAt(S, n)
    /\ \A i \in 1..Len(S) :
           IsLink(S[i].to) /\ S[i].value # NULL => S[i].value \in ListIn(S, i)

LEMMA ListInMore ==
    ASSUME NEW S, NEW n \in Nat, NEW m \in Nat, n <= m
    PROVE  ListIn(S, n) \subseteq ListIn(S, m)
BY DEF ListIn

\* Later stores change nothing of what was before.
LEMMA ListInSame ==
    ASSUME NEW S, NEW T, NEW n \in Nat, \A j \in 1..n : S[j] = T[j]
    PROVE  /\ ListIn(S, n) = ListIn(T, n)
           /\ \A field, v : IsValue(S, field, n, v) <=> IsValue(T, field, n, v)
           /\ NextAt(S, n) <=> NextAt(T, n)
<1>1. ListIn(S, n) = ListIn(T, n)
  BY DEF ListIn
<1>2. ASSUME NEW field, NEW v
      PROVE  IsValue(S, field, n, v) <=> IsValue(T, field, n, v)
  <2>1. \A i \in 1..n : \A j \in i + 1..n : j \in 1..n
    OBVIOUS
  <2> QED BY <2>1 DEF IsValue
<1>3. \A x, v : IsNext(S, x, v, n) <=> IsNext(T, x, v, n)
  BY <1>1 DEF IsNext
<1> QED BY <1>1, <1>2, <1>3 DEF NextAt

\* A store to another field.
LEMMA ValueBefore ==
    ASSUME NEW S, NEW n \in Nat, NEW field, NEW v, S[n + 1].to # field
    PROVE  IsValue(S, field, n + 1, v) <=> IsValue(S, field, n, v)
<1>1. 1..n + 1 = 1..n \cup {n + 1}
  OBVIOUS
<1>2. \A i \in 1..n : i + 1..n + 1 = i + 1..n \cup {n + 1}
  OBVIOUS
<1>3. ASSUME IsValue(S, field, n + 1, v)
      PROVE  IsValue(S, field, n, v)
  BY <1>1, <1>2, <1>3 DEF IsValue
<1>4. ASSUME IsValue(S, field, n, v)
      PROVE  IsValue(S, field, n + 1, v)
  BY <1>1, <1>2, <1>4 DEF IsValue
<1> QED BY <1>3, <1>4

\* A store to the field.
LEMMA ValueStored ==
    ASSUME NEW S, NEW n \in Nat, NEW field, NEW v, S[n + 1].to = field
    PROVE  IsValue(S, field, n + 1, v) <=> v = S[n + 1].value
<1>1. n + 1 \in 1..n + 1 /\ n + 1 + 1..n + 1 = {}
  OBVIOUS
<1>2. \A i \in 1..n + 1 : i # n + 1 => n + 1 \in i + 1..n + 1
  OBVIOUS
<1> QED BY <1>1, <1>2 DEF IsValue

\* A field has one value.
LEMMA OneValue ==
    ASSUME NEW S, NEW n \in Nat, NEW field, NEW v, NEW w,
           IsValue(S, field, n, v), IsValue(S, field, n, w)
    PROVE  v = w
<1>1. \A i, j \in 1..n : i = j \/ j \in i + 1..n \/ i \in j + 1..n
  OBVIOUS
<1> QED BY <1>1 DEF IsValue

\* Stores to other levels do not change the list.
LEMMA NextElsewhere ==
    ASSUME NEW S, NEW n \in Nat, S[n + 1].to[2] # 0
    PROVE  ListIn(S, n + 1) = ListIn(S, n) /\ (NextAt(S, n) => NextAt(S, n + 1))
<1>1. 1..n + 1 = 1..n \cup {n + 1}
  OBVIOUS
<1>2. ListIn(S, n + 1) = ListIn(S, n)
  BY <1>1 DEF ListIn
<1>3. \A x : S[n + 1].to # Link(x, 0)
  BY DEF Link
<1>4. \A x, v : IsValue(S, Link(x, 0), n + 1, v) <=> IsValue(S, Link(x, 0), n, v)
  BY <1>3, ValueBefore
<1>5. \A x, v : IsNext(S, x, v, n + 1) <=> IsNext(S, x, v, n)
  BY <1>2 DEF IsNext
<1> QED BY <1>2, <1>4, <1>5 DEF NextAt

\* The two stores that put x behind p.
LEMMA NextLinked ==
    ASSUME NEW S, NEW n \in Nat, NextAt(S, n),
           NEW x \in Nat \ {0}, x \notin ListIn(S, n),
           NEW p \in ListIn(S, n) \cup {head_}, p < x,
           \A k \in ListIn(S, n) : k < x => k <= p,
           NEW v, IsValue(S, Link(p, 0), n, v),
           S[n + 1].to = Link(x, 0), S[n + 1].value = v,
           S[n + 2].to = Link(p, 0), S[n + 2].value = x
    PROVE  /\ ListIn(S, n + 1) = ListIn(S, n) /\ ListIn(S, n + 2) = ListIn(S, n) \cup {x}
           /\ NextAt(S, n + 1) /\ NextAt(S, n + 2)
<1> DEFINE L == ListIn(S, n)
<1>0. L \subseteq Nat \ {0} /\ head_ = 0 /\ NULL = -1
  BY DEF ListIn, head_, NULL
<1>1. IsNext(S, p, v, n)
  BY DEF NextAt
<1>2. v = NULL \/ (v \in L /\ v > x)
  <2>1. ASSUME v # NULL
        PROVE  v > x
    <3>1. v \in L /\ v > p
      BY <1>1, <2>1 DEF IsNext
    <3>2. v # x /\ ~(v < x)
      <4>1. v < x => v <= p
        BY <3>1
      <4>2. v \in Nat /\ p \in Nat
        BY <1>0, <3>1
      <4> QED BY <3>1, <4>1, <4>2
    <3> QED BY <1>0, <3>1, <3>2
  <2> QED BY <1>1, <2>1 DEF IsNext
<1>3. /\ n + 2 = (n + 1) + 1 /\ 1..n + 1 = 1..n \cup {n + 1}
      /\ 1..n + 2 = 1..n \cup {n + 1, n + 2}
  OBVIOUS
<1>4. S[n + 1].to[2] = 0 /\ S[n + 2].to[2] = 0
  BY DEF Link
<1>5. ListIn(S, n + 1) = L
  <2>1. v \in Nat \ {0} => v \in L
    BY <1>2 DEF NULL
  <2> QED BY <1>3, <2>1 DEF ListIn
<1>6. ListIn(S, n + 2) = L \cup {x}
  BY <1>3, <1>4, <1>5 DEF ListIn
<1>7. p # x /\ Link(p, 0) # Link(x, 0)
  BY <1>0 DEF Link
<1>10. \A w : IsValue(S, Link(x, 0), n + 1, w) => w = v
  BY ValueStored
<1>11. \A w : IsValue(S, Link(p, 0), n + 2, w) => w = x
  <2>1. PICK m \in Nat : m = n + 1
    OBVIOUS
  <2>2. S[m + 1].to = Link(p, 0) /\ S[m + 1].value = x /\ n + 2 = m + 1
    BY <1>3, <2>1
  <2>3. \A w : IsValue(S, Link(p, 0), m + 1, w) => w = x
    BY <2>2, ValueStored
  <2> QED BY <2>2, <2>3
<1>8. NextAt(S, n + 1)
  <2> SUFFICES ASSUME NEW y \in L \cup {head_}, NEW w, IsValue(S, Link(y, 0), n + 1, w)
               PROVE  IsNext(S, y, w, n + 1)
    BY <1>5 DEF NextAt
  <2>1. S[n + 1].to # Link(y, 0)
    BY <1>0 DEF Link
  <2>2. IsValue(S, Link(y, 0), n, w)
    BY <2>1, ValueBefore
  <2> QED BY <1>5, <2>2 DEF NextAt, IsNext
<1>9. NextAt(S, n + 2)
  <2> SUFFICES ASSUME NEW y \in L \cup {x, head_}, NEW w, IsValue(S, Link(y, 0), n + 2, w)
               PROVE  IsNext(S, y, w, n + 2)
    BY <1>6 DEF NextAt
  <2>1. CASE y = p
    <3>1. w = x
      BY <1>11, <2>1
    <3>2. \A k \in L \cup {x} : k > p => x <= k
      BY <1>0
    <3>3. x # NULL /\ x > p
      BY <1>0
    <3> QED BY <1>6, <2>1, <3>1, <3>2, <3>3 DEF IsNext
  <2>2. CASE y = x
    <3>1. IsValue(S, Link(x, 0), n + 1, w)
      BY <1>3, <1>7, <2>2, ValueBefore
    <3>2. w = v
      BY <1>10, <3>1
    <3>3. \A k \in L : k > x => v # NULL /\ v <= k
      <4>1. \A k \in L : k > x => k > p
        BY <1>0
      <4> QED BY <1>1, <4>1 DEF IsNext
    <3>4. ~(x > x)
      OBVIOUS
    <3> QED BY <1>2, <1>6, <2>2, <3>2, <3>3, <3>4 DEF IsNext
  <2>3. CASE y # p /\ y # x
    <3>1. Link(y, 0) # Link(p, 0) /\ Link(y, 0) # Link(x, 0)
      BY <2>3 DEF Link
    <3>2. IsValue(S, Link(y, 0), n, w)
      BY <1>3, <3>1, ValueBefore
    <3>3. y \in L \cup {head_}
      BY <2>3
    <3>4. IsNext(S, y, w, n)
      BY <3>2, <3>3 DEF NextAt
    <3>5. x > y => w # NULL /\ w <= x
      <4> SUFFICES ASSUME x > y PROVE w # NULL /\ w <= x
        OBVIOUS
      <4>1. y \in Nat /\ p \in Nat
        BY <1>0, <3>3
      <4>2. y <= p
        BY <3>3, <4>1, <1>0
      <4>3. p > y /\ p \in L
        BY <2>3, <4>1, <4>2, <1>0
      <4>4. w # NULL /\ w <= p
        BY <3>4, <4>3 DEF IsNext
      <4>5. w \in Nat
        BY <3>4, <4>4, <1>0 DEF IsNext
      <4> QED BY <4>1, <4>4, <4>5
    <3> QED BY <1>6, <3>4, <3>5 DEF IsNext
  <2> QED BY <2>1, <2>2, <2>3
<1> QED BY <1>5, <1>6, <1>8, <1>9
-----------------------------------------------------------------------------
(***************************************************************************)
(* The writer keeps the list in order.                                     *)
(***************************************************************************)
\* Only the node that is being inserted is not linked yet.
AllLinked ==
    \A k \in Inserted :
        \/ k \in ListIn(stores, Len(stores))
        \/ inserting # NoInsert /\ k = inserting.key /\ inserting.level = 0

ListOrder == InOrder(stores) /\ AllLinked

LEMMA OrderNext == InOrder(stores)' <=> InOrder(stores')
BY DEF InOrder, NextAt, ListIn, IsValue, IsNext, Link, IsLink, Initially, head_, NULL, Garbage,
       max_height_

\* What has been linked has a link of its own.
LEMMA ListInIs ==
    ASSUME ListInv, NEW n \in 0..Len(stores), NEW k \in ListIn(stores, n)
    PROVE  k \in Inserted /\ StoredBy(Link(k, 0), n)
<1>1. Len(stores) \in Nat /\ n \in Nat
  BY LenProperties DEF ListInv
<1>2. PICK j \in 1..n : stores[j].to[2] = 0 /\ stores[j].value = k
  BY DEF ListIn
<1>3. k \in Nat /\ k # NULL
  BY DEF ListIn, NULL
<1>4. j \in 1..Len(stores) /\ j - 1 \in 0..Len(stores) /\ j - 1 <= n /\ j - 1 \in Nat
  BY <1>1
<1>5. IsLink(stores[j].to)
  BY <1>2, SkipListAssumption DEF IsLink
<1>6. Linked(k, 0, j - 1)
  BY <1>2, <1>3, <1>4, <1>5 DEF ListInv, StoresGood, GoodStore, LinkLeads
<1>7. k \in Inserted
  BY <1>4, <1>6, ReachedInserted
<1>8. StoredBy(Link(k, 0), j - 1)
  BY <1>6 DEF Linked
<1> QED BY <1>1, <1>4, <1>7, <1>8, StoredByLonger

LEMMA LatestIsLast ==
    ASSUME stores \in Seq(StoreType), NEW field, NEW n \in 0..Len(stores)
    PROVE  \A j \in 1..n : stores[j].to = field => j <= LatestOf(field, n)
<1> DEFINE S == {0} \cup {i \in StoresTo(field) : i <= n}
<1>1. Len(stores) \in Nat /\ DOMAIN stores = 1..Len(stores)
  BY LenProperties
<1>2. S \subseteq 0..n /\ 0 \in S /\ \A j \in 1..n : stores[j].to = field => j \in S
  BY <1>1 DEF StoresTo
<1>3. LatestOf(field, n) = Max(S)
  BY DEF LatestOf
<1> HIDE DEF S
<1>4. IsFiniteSet(S) /\ S \subseteq Int
  <2>1. n \in Int /\ 0..n \subseteq Int
    BY <1>1
  <2>2. IsFiniteSet(0..n)
    BY <2>1, FS_Interval
  <2> QED BY <1>2, <2>1, <2>2, FS_Subset
<1>5. Max(S) \in S /\ \A y \in S : Max(S) >= y
  BY <1>2, <1>4, MaxIsMax
<1> QED BY <1>2, <1>3, <1>4, <1>5

\* The value a load finds, of the latest store or of a later one.
LEMMA StoredIsValue ==
    ASSUME stores \in Seq(StoreType), NEW field, NEW n \in 0..Len(stores)
    PROVE  IsValue(stores, field, n, Stored(field, LatestOf(field, n)))
<1>1. Len(stores) \in Nat /\ n \in Nat
  BY LenProperties
<1>2. PICK i : i = LatestOf(field, n)
  OBVIOUS
<1>3. /\ i \in 0..n
      /\ i # 0 => stores[i].to = field
      /\ i = 0 => ~StoredBy(field, n)
  BY <1>2, LatestIs
<1>4. \A j \in 1..n : stores[j].to = field => j <= i
  BY <1>2, LatestIsLast
<1>5. CASE i = 0
  BY <1>2, <1>3, <1>5 DEF IsValue, Stored, StoredBy
<1>6. CASE i # 0
  <2>1. i \in 1..n /\ stores[i].to = field
    BY <1>3, <1>6
  <2>2. \A j \in i + 1..n : stores[j].to # field
    <3>1. \A j \in i + 1..n : j \in 1..n /\ ~(j <= i)
      BY <2>1
    <3> QED BY <1>4, <3>1
  <2> QED BY <1>2, <1>6, <2>1, <2>2 DEF IsValue, Stored
<1> QED BY <1>5, <1>6

\* FindGreaterOrEqual of the writer finds the last node before x.
LEMMA PrevInOrder ==
    ASSUME ListInv, AllLinked, inserting # NoInsert, inserting.level = 0,
           NEW x, x = inserting.key
    PROVE  /\ x \in Nat \ {0} /\ x \notin ListIn(stores, Len(stores))
           /\ Prev(x, 0) \in ListIn(stores, Len(stores)) \cup {head_} /\ Prev(x, 0) < x
           /\ \A k \in ListIn(stores, Len(stores)) : k < x => k <= Prev(x, 0)
<1> DEFINE S == {head_} \cup {k \in Inserted : k < x /\ StoresTo(Link(k, 0)) # {}}
<1>1. Len(stores) \in Nat /\ DOMAIN stores = 1..Len(stores)
  BY LenProperties DEF ListInv
<1>2. x \in Nat \ {0} /\ \A k \in 0..MaxHeight - 1 : ~StoredBy(Link(x, k), Len(stores))
  BY DEF ListInv, InsertUnderWay
<1>3. ~StoredBy(Link(x, 0), Len(stores))
  BY <1>2, SkipListAssumption
<1>4. \A k \in ListIn(stores, Len(stores)) : k \in Inserted /\ StoredBy(Link(k, 0), Len(stores))
  BY <1>1, ListInIs
<1>5. x \notin ListIn(stores, Len(stores))
  BY <1>3, <1>4
<1>6. \A k : StoredBy(Link(k, 0), Len(stores)) <=> StoresTo(Link(k, 0)) # {}
  BY <1>1 DEF StoredBy, StoresTo
<1>7. ListIn(stores, Len(stores)) \subseteq Nat
  BY DEF ListIn
<1>8. \A k \in ListIn(stores, Len(stores)) : k < x => k \in S
  BY <1>4, <1>6
<1>9. S \subseteq ListIn(stores, Len(stores)) \cup {head_} /\ \A k \in S : k < x
  <2>1. head_ < x
    BY <1>2 DEF head_
  <2>2. ASSUME NEW k \in Inserted, k < x
        PROVE  k \in ListIn(stores, Len(stores))
    <3>1. k # x
      BY <1>2, <2>2
    <3> QED BY <3>1 DEF AllLinked
  <2> QED BY <2>1, <2>2
<1>10. S \subseteq 0..x /\ S # {}
  <2>1. \A k \in Nat : k < x => k \in 0..x
    BY <1>2
  <2>2. head_ \in Nat /\ head_ < x
    BY <1>2 DEF head_
  <2>3. ListIn(stores, Len(stores)) \cup {head_} \subseteq Nat
    BY <1>7, <2>2
  <2>4. head_ \in S
    OBVIOUS
  <2> HIDE DEF S
  <2> QED BY <1>9, <2>1, <2>3, <2>4
<1>11. Prev(x, 0) = Max(S)
  BY DEF Prev
<1> HIDE DEF S
<1>12. IsFiniteSet(S) /\ S \subseteq Int
  <2>1. x \in Int /\ 0 \in Int /\ 0..x \subseteq Int
    BY <1>2
  <2>2. IsFiniteSet(0..x)
    BY <2>1, FS_Interval
  <2> QED BY <1>10, <2>1, <2>2, FS_Subset
<1>13. Max(S) \in S /\ \A y \in S : Max(S) >= y
  BY <1>10, <1>12, MaxIsMax
<1>14. \A k \in ListIn(stores, Len(stores)) : k < x => k <= Max(S)
  <2>1. Max(S) \in Int
    BY <1>12, <1>13
  <2> QED BY <1>7, <1>8, <1>13, <2>1
<1> QED BY <1>2, <1>5, <1>9, <1>11, <1>13, <1>14

\* One or two stores more.
LEMMA InOrderLonger ==
    ASSUME ListInv, InOrder(stores), Continued, NEW n, n = Len(stores),
           NEW m \in {n + 1, n + 2}, Len(stores') = m,
           \A i \in n + 1..m :
               /\ NextAt(stores', i)
               /\ IsLink(stores'[i].to) /\ stores'[i].value # NULL =>
                      stores'[i].value \in ListIn(stores', i)
    PROVE  InOrder(stores') /\ ListIn(stores, n) \subseteq ListIn(stores', m)
           /\ ListIn(stores', n) = ListIn(stores, n) /\ (NextAt(stores', n) <=> NextAt(stores, n))
<1>1. n \in Nat
  BY LenProperties DEF ListInv
<1>2. ASSUME NEW i \in 0..n
      PROVE  ListIn(stores', i) = ListIn(stores, i) /\ (NextAt(stores', i) <=> NextAt(stores, i))
  <2>1. i \in Nat /\ \A j \in 1..i : stores[j] = stores'[j]
    BY <1>1 DEF Continued
  <2> QED BY <2>1, ListInSame
<1>3. \A i \in 0..m : i \in 0..n \/ i \in n + 1..m
  BY <1>1
<1>4. \A i \in 1..m : i \in 1..n \/ i \in n + 1..m
  BY <1>1
<1>5. \A i \in 0..m : NextAt(stores', i)
  BY <1>2, <1>3 DEF InOrder
<1>6. ASSUME NEW i \in 1..m, IsLink(stores'[i].to), stores'[i].value # NULL
      PROVE  stores'[i].value \in ListIn(stores', i)
  <2>1. CASE i \in 1..n
    <3>1. stores'[i] = stores[i] /\ i \in 0..n
      BY <1>1, <2>1 DEF Continued
    <3> QED BY <1>2, <1>6, <2>1, <3>1 DEF InOrder
  <2> QED BY <1>4, <1>6, <2>1
<1>7. n \in 0..n /\ m \in Nat /\ n <= m
  BY <1>1
<1>8. ListIn(stores, n) \subseteq ListIn(stores', m)
  BY <1>1, <1>2, <1>7, ListInMore
<1> QED BY <1>2, <1>5, <1>6, <1>7, <1>8 DEF InOrder

LEMMA NewNodeStores ==
    ASSUME ListInv, NEW key \in Nat \ {0}, NEW height \in 1..MaxHeight, NewNode(key, height),
           NEW n, n = Len(stores)
    PROVE  /\ Len(stores') \in {n + 1, n + 2}
           /\ \A i \in n + 1..Len(stores') : stores'[i].to[2] = MaxHeight
<1> DEFINE a == NoBarrier_Store(max_height_, height)
           b == NoBarrier_Store(KeyOf(key), key)
<1>1. n \in Nat /\ stores \in Seq(StoreType)
  BY LenProperties DEF ListInv
<1>2. a.to[2] = MaxHeight /\ b.to[2] = MaxHeight /\ a \in StoreType /\ b \in StoreType
  BY SkipListAssumption DEF NoBarrier_Store, max_height_, KeyOf, head_, StoreType
<1>3. stores' = (stores \o <<a>>) \o <<b>> \/ stores' = (stores \o <<>>) \o <<b>>
  BY DEF NewNode
<1> HIDE DEF a, b
<1>4. stores \o <<>> = stores
  BY <1>1, ConcatEmptySeq
<1>5. ASSUME NEW s \in Seq(StoreType), NEW e \in StoreType
      PROVE  /\ s \o <<e>> \in Seq(StoreType) /\ Len(s \o <<e>>) = Len(s) + 1
             /\ \A i \in 1..Len(s) : (s \o <<e>>)[i] = s[i]
             /\ (s \o <<e>>)[Len(s) + 1] = e
  <2>1. s \o <<e>> = Append(s, e)
    BY AppendIsConcat
  <2> QED BY <2>1, AppendProperties
<1>6. CASE stores' = stores \o <<b>>
  <2>1. Len(stores') = n + 1 /\ stores'[n + 1] = b
    BY <1>1, <1>2, <1>5, <1>6
  <2>2. \A i \in n + 1..n + 1 : i = n + 1
    BY <1>1
  <2> QED BY <1>2, <2>1, <2>2
<1>7. CASE stores' = (stores \o <<a>>) \o <<b>>
  <2>1. PICK s : s = stores \o <<a>>
    OBVIOUS
  <2>2. s \in Seq(StoreType) /\ Len(s) = n + 1 /\ s[n + 1] = a
    BY <1>1, <1>2, <1>5, <2>1
  <2>3. Len(stores') = n + 2 /\ stores'[n + 2] = b /\ stores'[n + 1] = a
    <3>1. stores' = s \o <<b>>
      BY <1>7, <2>1
    <3>2. n + 1 \in 1..Len(s) /\ Len(s) + 1 = n + 2
      BY <1>1, <2>2
    <3> QED BY <1>2, <1>5, <2>2, <3>1, <3>2
  <2>4. \A i \in n + 1..n + 2 : i = n + 1 \/ i = n + 2
    BY <1>1
  <2> QED BY <1>2, <2>3, <2>4
<1> QED BY <1>3, <1>4, <1>6, <1>7

LEMMA NewNodeOrder ==
    ASSUME ListInv, ListOrder, NEW key \in Nat \ {0}, NEW height \in 1..MaxHeight,
           NewNode(key, height)
    PROVE  ListOrder'
<1>1. PICK n : n = Len(stores)
  OBVIOUS
<1>2. PICK m : m = Len(stores')
  OBVIOUS
<1>3. n \in Nat /\ m \in {n + 1, n + 2}
      /\ \A i \in n + 1..m : stores'[i].to[2] = MaxHeight
  BY <1>1, <1>2, NewNodeStores, LenProperties DEF ListInv
<1>4. Continued /\ Inserted' \subseteq Inserted \cup {key}
  BY NewNodeList
<1>5. n \in 0..n /\ \A j \in 1..n : stores[j] = stores'[j]
  BY <1>1, <1>3, <1>4 DEF Continued
<1>6. NextAt(stores', n)
  BY <1>1, <1>3, <1>5, ListInSame DEF ListOrder, InOrder
<1>7. ASSUME NEW i \in Nat, NextAt(stores', i), i + 1 \in n + 1..m
      PROVE  NextAt(stores', i + 1)
  <2>1. stores'[i + 1].to[2] # 0
    BY <1>3, <1>7, SkipListAssumption
  <2> QED BY <1>7, <2>1, NextElsewhere
<1>8. \A i \in n + 1..m : NextAt(stores', i)
  <2>1. n + 1 \in n + 1..m /\ n + 1 \in Nat /\ \A i \in n + 1..m : i = n + 1 \/ i = (n + 1) + 1
    BY <1>3
  <2>2. NextAt(stores', n + 1)
    BY <1>3, <1>6, <1>7, <2>1
  <2>3. (n + 1) + 1 \in n + 1..m => NextAt(stores', (n + 1) + 1)
    BY <1>7, <2>1, <2>2
  <2> QED BY <2>1, <2>2, <2>3
<1>9. \A i \in n + 1..m : ~IsLink(stores'[i].to)
  BY <1>3, SkipListAssumption DEF IsLink
<1>10. InOrder(stores') /\ ListIn(stores, n) \subseteq ListIn(stores', m)
  BY <1>1, <1>2, <1>3, <1>4, <1>8, <1>9, InOrderLonger DEF ListOrder
<1>11. AllLinked'
  <2>1. inserting = NoInsert /\ inserting' = [key |-> key, height |-> height, level |-> 0]
    BY DEF NewNode
  <2>2. inserting' # NoInsert /\ inserting'.key = key /\ inserting'.level = 0
    BY <2>1, SkipListAssumption DEF NoInsert
  <2>3. \A k \in Inserted : k \in ListIn(stores, n)
    BY <1>1, <2>1 DEF ListOrder, AllLinked
  <2>4. \A k \in Inserted' : \/ k \in ListIn(stores', Len(stores'))
                             \/ k = inserting'.key /\ inserting'.level = 0
    BY <1>2, <1>4, <1>10, <2>2, <2>3
  <2> QED BY <2>2, <2>4 DEF AllLinked, ListIn, NoInsert
<1> QED BY <1>10, <1>11, OrderNext DEF ListOrder

\* What the links of the writer's search lead to is in the list.
LEMMA CurrentInList ==
    ASSUME ListInv, InOrder(stores), NEW p \in Nat, NEW l \in 0..MaxHeight - 1,
           p = head_ \/ StoredBy(Link(p, l), Len(stores))
    PROVE  LET v == Current(Link(p, l))
           IN  v = NULL \/ v \in ListIn(stores, Len(stores))
<1>1. PICK n : n = Len(stores)
  OBVIOUS
<1>2. n \in Nat
  BY <1>1, LenProperties DEF ListInv
<1>3. PICK i : i = LatestOf(Link(p, l), n)
  OBVIOUS
<1>4. /\ i \in 0..n
      /\ i # 0 => stores[i].to = Link(p, l)
      /\ i = 0 => ~StoredBy(Link(p, l), n)
  BY <1>1, <1>2, <1>3, LatestIs DEF ListInv
<1>5. Current(Link(p, l)) = Stored(Link(p, l), i)
  BY <1>1, <1>3 DEF Current
<1>6. CASE i = 0
  <2>1. p = head_
    BY <1>1, <1>4, <1>6
  <2>2. Link(p, l) # max_height_ /\ Link(p, l)[1] = head_
    BY <2>1, SkipListAssumption DEF Link, max_height_, head_
  <2> QED BY <1>5, <1>6, <2>2 DEF Stored, Initially
<1>7. CASE i # 0
  <2>1. i \in 1..n /\ stores[i].to = Link(p, l) /\ Current(Link(p, l)) = stores[i].value
    BY <1>4, <1>5, <1>7 DEF Stored
  <2>2. IsLink(stores[i].to)
    BY <2>1, SkipListAssumption DEF IsLink, Link
  <2>3. stores[i].value = NULL \/ stores[i].value \in ListIn(stores, i)
    BY <1>1, <2>1, <2>2 DEF InOrder
  <2>4. i \in Nat /\ i <= n
    BY <1>2, <2>1
  <2>5. ListIn(stores, i) \subseteq ListIn(stores, n)
    BY <1>2, <2>4, ListInMore
  <2> QED BY <1>1, <2>1, <2>3, <2>5
<1> QED BY <1>6, <1>7

LEMMA LinkLevelOrder ==
    ASSUME ListInv, ListOrder, LinkLevel
    PROVE  ListOrder'
<1>1. PICK n, x, l, p, v : /\ n = Len(stores) /\ x = inserting.key /\ l = inserting.level
                           /\ p = Prev(x, l) /\ v = Current(Link(p, l))
  OBVIOUS
<1>2. /\ n \in Nat /\ inserting # NoInsert /\ x \in Nat \ {0} /\ l \in 0..MaxHeight - 1
      /\ StoredBy(KeyOf(x), n)
  BY <1>1, LenProperties, SkipListAssumption DEF LinkLevel, ListInv, InsertUnderWay
<1>3. Continued /\ Inserted' \subseteq Inserted
  BY LinkLevelList
<1> DEFINE a == NoBarrier_Store(Link(x, l), v)
           b == Release_Store(Link(p, l), x)
<1>4. p \in Nat /\ (p = head_ \/ (p \in Inserted /\ StoredBy(Link(p, l), n)))
  BY <1>1, <1>2, PrevIs
<1>5. v = NULL \/ v \in ListIn(stores, n)
  BY <1>1, <1>2, <1>4, CurrentInList DEF ListOrder
<1>6. v \in Int
  BY <1>5 DEF NULL, ListIn
<1>7. a \in StoreType /\ b \in StoreType
  BY <1>2, <1>4, <1>6, SkipListAssumption DEF NoBarrier_Store, Release_Store, Link, StoreType
<1>8. stores' = stores \o <<a, b>>
  BY <1>1 DEF LinkLevel, Links
<1>9. a.to = Link(x, l) /\ a.value = v /\ b.to = Link(p, l) /\ b.value = x
  BY DEF NoBarrier_Store, Release_Store
<1> HIDE DEF a, b
<1>10. Len(stores') = n + 2 /\ stores'[n + 1] = a /\ stores'[n + 2] = b
  <2>1. PICK k : k = <<a, b>>
    OBVIOUS
  <2>2. k \in Seq(StoreType) /\ Len(k) = 2 /\ k[1] = a /\ k[2] = b
    BY <1>7, <2>1
  <2>3. stores \in Seq(StoreType) /\ stores' = stores \o k
    BY <1>8, <2>1 DEF ListInv
  <2>4. /\ Len(stores') = Len(stores) + Len(k)
        /\ \A i \in 1..Len(stores) + Len(k) :
               stores'[i] = IF i <= Len(stores) THEN stores[i] ELSE k[i - Len(stores)]
    BY <2>2, <2>3, ConcatProperties
  <2>5. Len(stores') = n + 2
    BY <1>1, <2>2, <2>4
  <2>6. stores'[n + 1] = k[1]
    <3>1. n + 1 \in 1..n + 2 /\ ~(n + 1 <= n) /\ n + 1 - n = 1
      BY <1>2
    <3> QED BY <1>1, <2>2, <2>4, <3>1
  <2>7. stores'[n + 2] = k[2]
    <3>1. n + 2 \in 1..n + 2 /\ ~(n + 2 <= n) /\ n + 2 - n = 2
      BY <1>2
    <3> QED BY <1>1, <2>2, <2>4, <3>1
  <2> QED BY <2>2, <2>5, <2>6, <2>7
<1>11. \A j \in 1..n : stores[j] = stores'[j]
  BY <1>1, <1>3 DEF Continued
<1>12. /\ ListIn(stores', n) = ListIn(stores, n) /\ NextAt(stores', n)
       /\ \A f, w : IsValue(stores', f, n, w) <=> IsValue(stores, f, n, w)
  <2>1. n \in 0..Len(stores)
    BY <1>1, <1>2
  <2>2. NextAt(stores, n)
    BY <2>1 DEF ListOrder, InOrder
  <2> QED BY <1>2, <1>11, <2>2, ListInSame
<1>13. /\ NextAt(stores', n + 1) /\ NextAt(stores', n + 2)
       /\ ListIn(stores', n + 1) = ListIn(stores, n)
       /\ x \in ListIn(stores', n + 2)
       /\ ListIn(stores, n) \subseteq ListIn(stores', n + 2)
  <2>1. CASE l = 0
    <3>1. /\ x \notin ListIn(stores', n) /\ p \in ListIn(stores', n) \cup {head_} /\ p < x
          /\ \A k \in ListIn(stores', n) : k < x => k <= p
      BY <1>1, <1>2, <1>12, <2>1, PrevInOrder DEF ListOrder
    <3>2. IsValue(stores', Link(p, 0), n, v)
      <4>1. n \in 0..Len(stores) /\ stores \in Seq(StoreType)
        BY <1>1, <1>2 DEF ListInv
      <4>2. v = Stored(Link(p, 0), LatestOf(Link(p, 0), n))
        BY <1>1, <2>1 DEF Current
      <4> QED BY <1>12, <4>1, <4>2, StoredIsValue
    <3>3. /\ stores'[n + 1].to = Link(x, 0) /\ stores'[n + 1].value = v
          /\ stores'[n + 2].to = Link(p, 0) /\ stores'[n + 2].value = x
      BY <1>9, <1>10, <2>1
    <3> QED BY <1>2, <1>12, <3>1, <3>2, <3>3, NextLinked
  <2>2. CASE l # 0
    <3>1. stores'[n + 1].to[2] # 0 /\ stores'[n + 2].to[2] # 0
      BY <1>9, <1>10, <2>2 DEF Link
    <3>2. n + 1 \in Nat /\ (n + 1) + 1 = n + 2
      BY <1>2
    <3>3. NextAt(stores', n + 1) /\ ListIn(stores', n + 1) = ListIn(stores', n)
      BY <1>2, <1>12, <3>1, NextElsewhere
    <3>4. NextAt(stores', n + 2) /\ ListIn(stores', n + 2) = ListIn(stores', n + 1)
      BY <3>1, <3>2, <3>3, NextElsewhere
    <3>5. x \in Inserted
      <4>1. DOMAIN stores = 1..n /\ x # head_
        BY <1>1, <1>2, LenProperties DEF ListInv, head_
      <4> QED BY <1>2, <4>1 DEF StoredBy, Inserted, KeyOf
    <3>6. x \in ListIn(stores, n)
      BY <1>1, <2>2, <3>5 DEF ListOrder, AllLinked
    <3> QED BY <1>12, <3>3, <3>4, <3>6
  <2> QED BY <2>1, <2>2
<1>14. \A i \in n + 1..n + 2 : i = n + 1 \/ i = n + 2
  BY <1>2
<1>15. \A i \in n + 1..n + 2 :
           /\ NextAt(stores', i)
           /\ IsLink(stores'[i].to) /\ stores'[i].value # NULL =>
                  stores'[i].value \in ListIn(stores', i)
  BY <1>5, <1>9, <1>10, <1>13, <1>14
<1>16. InOrder(stores')
  BY <1>1, <1>3, <1>10, <1>15, InOrderLonger DEF ListOrder
<1>17. AllLinked'
  <2>1. inserting' = NoInsert \/ inserting'.level = l + 1
    BY <1>1, <1>2 DEF LinkLevel, ListInv, InsertUnderWay
  <2>2. l + 1 # 0
    BY <1>2
  <2>3. \A k \in Inserted : k \in ListIn(stores, n) \/ k = x
    BY <1>1 DEF ListOrder, AllLinked
  <2>4. \A k \in Inserted' : k \in ListIn(stores', Len(stores'))
    BY <1>3, <1>10, <1>13, <2>3
  <2> QED BY <2>4 DEF AllLinked, ListIn
<1> QED BY <1>16, <1>17, OrderNext DEF ListOrder

LEMMA ListOrderSame ==
    ASSUME ListInv, ListOrder, UNCHANGED <<stores, inserting>>
    PROVE  ListOrder'
<1>1. InOrder(stores')
  BY DEF ListOrder
<1>2. AllLinked'
  <2>1. Inserted' = Inserted
    BY ListUnchanged
  <2>2. \A k \in Inserted : \/ k \in ListIn(stores', Len(stores'))
                            \/ inserting' # NoInsert /\ k = inserting'.key /\ inserting'.level = 0
    BY DEF ListOrder, AllLinked
  <2> QED BY <2>1, <2>2 DEF AllLinked, ListIn, NoInsert
<1> QED BY <1>1, <1>2, OrderNext DEF ListOrder
-----------------------------------------------------------------------------
(***************************************************************************)
(* The reader moves in the order of the list as far as it sees it.         *)
(***************************************************************************)
Searches == {"FindGreaterOrEqual", "FindLessThan", "FindLast"}

ReaderInList ==
    /\ node_ = NULL \/ node_ \in ListIn(stores, view)
    /\ find.x = head_ \/ find.x \in ListIn(stores, view)
    /\ find # NoFind =>
           /\ find.op \in Searches
           /\ find.op = "FindLast" \/ find.x = head_ \/ find.x < find.target
    /\ find # NoFind /\ find.op = "FindGreaterOrEqual" => find.target > 0

LEMMA LoadInList ==
    ASSUME ListInv, InOrder(stores), view \in 0..Len(stores),
           NEW l \in 0..MaxHeight - 1, NEW x \in Nat, x = head_ \/ Linked(x, l, view),
           x = head_ \/ x \in ListIn(stores, view),
           NEW i \in Loadable(Link(x, l)), Acquire(i), NEW w, w = view',
           NEW v, v = Stored(Link(x, l), i)
    PROVE  /\ w \in 0..Len(stores) /\ view <= w
           /\ v = NULL \/ v \in ListIn(stores, w)
           /\ l = 0 => IsNext(stores, x, v, w)
<1>1. Len(stores) \in Nat /\ DOMAIN stores = 1..Len(stores) /\ view \in Nat
  BY LenProperties DEF ListInv
<1>2. w \in 0..Len(stores) /\ view <= w
  BY LoadLink
<1>3. /\ LatestOf(Link(x, l), view) \in 0..view
      /\ LatestOf(Link(x, l), view) # 0 => stores[LatestOf(Link(x, l), view)].to = Link(x, l)
      /\ LatestOf(Link(x, l), view) = 0 => ~StoredBy(Link(x, l), view)
  BY LatestIs DEF ListInv
<1>4. \/ i = LatestOf(Link(x, l), view)
      \/ i \in 1..Len(stores) /\ i > view /\ stores[i].to = Link(x, l)
  BY <1>1 DEF Loadable, StoresTo
<1>5. x # head_ => StoredBy(Link(x, l), view)
  BY DEF Linked
<1>6. ASSUME i # 0
      PROVE  /\ i \in 1..Len(stores) /\ stores[i].to = Link(x, l) /\ v = stores[i].value
             /\ IsLink(stores[i].to)
             /\ v = NULL \/ v \in ListIn(stores, i)
  <2>1. i \in 1..Len(stores) /\ stores[i].to = Link(x, l)
    BY <1>1, <1>3, <1>4, <1>6
  <2>2. v = stores[i].value
    BY <1>6 DEF Stored
  <2>3. IsLink(stores[i].to)
    BY <2>1, SkipListAssumption DEF IsLink, Link
  <2> QED BY <2>1, <2>2, <2>3 DEF InOrder
<1>7. CASE i = LatestOf(Link(x, l), view)
  <2>1. w = view
    BY <1>1, <1>3, <1>7 DEF Acquire
  <2>2. IsValue(stores, Link(x, l), view, v)
    BY <1>7, StoredIsValue DEF ListInv
  <2>3. l = 0 => IsNext(stores, x, v, w)
    <3>1. NextAt(stores, view)
      BY DEF InOrder
    <3> QED BY <2>1, <2>2, <3>1 DEF NextAt
  <2>4. v = NULL \/ v \in ListIn(stores, w)
    <3>1. CASE i = 0
      <4>1. x = head_
        BY <1>3, <1>5, <1>7, <3>1
      <4>2. Link(x, l) # max_height_ /\ Link(x, l)[1] = head_
        BY <4>1, SkipListAssumption DEF Link, max_height_, head_
      <4> QED BY <3>1, <4>2 DEF Stored, Initially
    <3>2. CASE i # 0
      <4>1. i \in Nat /\ i <= view
        BY <1>1, <1>3, <1>7
      <4>2. ListIn(stores, i) \subseteq ListIn(stores, view)
        BY <1>1, <4>1, ListInMore
      <4> QED BY <1>6, <2>1, <3>2, <4>2
    <3> QED BY <3>1, <3>2
  <2> QED BY <1>2, <2>3, <2>4
<1>8. CASE i > view /\ i \in 1..Len(stores)
  <2>1. /\ i # 0 /\ i \in Nat /\ view <= i /\ view <= i - 1 /\ i - 1 \in Nat
        /\ i \in 0..Len(stores) /\ i \in 1..i /\ i + 1..i = {}
    BY <1>1, <1>8
  <2>2. stores[i].to = Link(x, l) /\ v = stores[i].value /\ IsLink(stores[i].to)
        /\ (v = NULL \/ v \in ListIn(stores, i))
    BY <1>6, <2>1
  <2>3. stores[i].release
    <3>1. x # head_ => StoredBy(Link(x, l), i - 1)
      BY <1>1, <1>5, <2>1, StoredByLonger
    <3>2. stores[i].to[1] = x
      BY <2>2 DEF Link
    <3> QED BY <1>8, <2>2, <3>1, <3>2 DEF ListInv, StoresGood, GoodStore, LinkReleased
  <2>4. w = i
    BY <1>8, <2>3 DEF Acquire
  <2>5. IsValue(stores, Link(x, l), i, v)
    BY <2>1, <2>2 DEF IsValue
  <2>6. ListIn(stores, view) \subseteq ListIn(stores, i)
    BY <1>1, <2>1, ListInMore
  <2>7. l = 0 => IsNext(stores, x, v, i)
    <3>1. NextAt(stores, i) /\ x \in ListIn(stores, i) \cup {head_}
      BY <2>1, <2>6 DEF InOrder
    <3> QED BY <2>5, <3>1 DEF NextAt
  <2> QED BY <1>2, <2>2, <2>4, <2>7
<1> QED BY <1>1, <1>3, <1>4, <1>7, <1>8

\* IterNext, and SeekToFirst.
LEMMA FollowInOrder ==
    ASSUME ListInv, InOrder(stores), ReaderInv, ReaderInList,
           NEW n, n = head_ \/ (n = node_ /\ n # NULL), Follow(n)
    PROVE  /\ view' \in 0..Len(stores) /\ view <= view' /\ find' = find
           /\ IsNext(stores, n, node_', view')
<1>1. PICK i \in Loadable(Link(n, 0)) : node_' = Stored(Link(n, 0), i) /\ Acquire(i)
  BY DEF Follow
<1>2. n = head_ \/ (Linked(n, 0, view) /\ n \in ListIn(stores, view))
  BY DEF ReaderInv, ReaderInList
<1>3. n \in Nat /\ 0 \in 0..MaxHeight - 1
  BY <1>2, SkipListAssumption DEF Linked, head_
<1>4. PICK v, w : v = node_' /\ w = view'
  OBVIOUS
<1>5. /\ w \in 0..Len(stores) /\ view <= w
      /\ IsNext(stores, n, v, w)
  BY <1>1, <1>2, <1>3, <1>4, LoadInList DEF ReaderInv
<1> QED BY <1>4, <1>5 DEF Follow

\* Where a search ends, among the nodes L.
EndsRight(op, target, n, L) ==
    CASE op = "FindGreaterOrEqual" ->
           /\ n = NULL \/ n >= target
           /\ \A k \in L : k >= target => n # NULL /\ n <= k
      [] op = "FindLessThan" ->
           /\ n = NULL \/ n < target
           /\ \A k \in L : k < target => n # NULL /\ k <= n
      [] OTHER -> \A k \in L : n # NULL /\ k <= n

LEMMA FindStepInOrder ==
    ASSUME ListInv, InOrder(stores), ReaderInv, ReaderInList, FindStep
    PROVE  /\ view' \in 0..Len(stores) /\ view <= view'
           /\ \/ /\ find' # NoFind /\ node_' = node_
                 /\ find'.op = find.op /\ find'.target = find.target
                 /\ find'.x = head_ \/ find'.x \in ListIn(stores, view')
                 /\ find'.op = "FindLast" \/ find'.x = head_ \/ find'.x < find'.target
              \/ /\ find' = NoFind
                 /\ node_' = NULL \/ node_' \in ListIn(stores, view')
                 /\ EndsRight(find.op, find.target, node_', ListIn(stores, view'))
<1>1. PICK x, l, t, op, w : /\ x = find.x /\ l = find.level /\ t = find.target
                            /\ op = find.op /\ w = view'
  OBVIOUS
<1>2. PICK i \in Loadable(Link(x, l)) :
          /\ Acquire(i)
          /\ \/ /\ Goes(Stored(Link(x, l), i))
                /\ find' = [find EXCEPT !.x = Stored(Link(x, l), i)] /\ UNCHANGED node_
             \/ /\ ~Goes(Stored(Link(x, l), i)) /\ find.level > 0
                /\ find' = [find EXCEPT !.level = @ - 1] /\ UNCHANGED node_
             \/ /\ ~Goes(Stored(Link(x, l), i)) /\ find.level = 0
                /\ find' = NoFind /\ node_' = Found(Stored(Link(x, l), i))
  BY <1>1 DEF FindStep
<1>3. PICK v : v = Stored(Link(x, l), i)
  OBVIOUS
<1>4. /\ find \in [op : {"none", "FindGreaterOrEqual", "FindLessThan", "FindLast"},
                   target : Int, x : Nat, level : 0..MaxHeight - 1]
      /\ x \in Nat /\ l \in 0..MaxHeight - 1 /\ t \in Int
      /\ x = head_ \/ (Linked(x, l, view) /\ x \in ListIn(stores, view))
      /\ op \in Searches /\ (op = "FindLast" \/ x = head_ \/ x < t)
      /\ op = "FindGreaterOrEqual" => t > 0
  BY <1>1 DEF ReaderInv, ReaderInList, FindStep
<1>5. /\ w \in 0..Len(stores) /\ view <= w
      /\ v = NULL \/ v \in ListIn(stores, w)
      /\ l = 0 => IsNext(stores, x, v, w)
  BY <1>1, <1>2, <1>3, <1>4, LoadInList DEF ReaderInv
<1>6. x = head_ \/ x \in ListIn(stores, w)
  <2>1. view \in Nat /\ w \in Nat
    BY <1>5 DEF ReaderInv
  <2> QED BY <1>4, <1>5, <2>1, ListInMore
<1>7. Goes(v) <=> v # NULL /\ (op = "FindLast" \/ v < t)
  BY <1>1 DEF Goes
<1>8. CASE Goes(v) /\ find' = [find EXCEPT !.x = v] /\ UNCHANGED node_
  <2>1. find'.x = v /\ find'.op = op /\ find'.target = t
    BY <1>1, <1>4, <1>8
  <2>2. find' # NoFind
    BY <1>4, <2>1 DEF NoFind, Searches
  <2> QED BY <1>1, <1>5, <1>7, <1>8, <2>1, <2>2
<1>9. CASE find' = [find EXCEPT !.level = @ - 1] /\ UNCHANGED node_
  <2>1. find'.x = x /\ find'.op = op /\ find'.target = t
    BY <1>1, <1>4, <1>9
  <2>2. find' # NoFind
    BY <1>4, <2>1 DEF NoFind, Searches
  <2> QED BY <1>1, <1>4, <1>5, <1>6, <1>9, <2>1, <2>2
<1>10. CASE ~Goes(v) /\ find.level = 0 /\ find' = NoFind /\ node_' = Found(v)
  <2>1. IsNext(stores, x, v, w)
    BY <1>1, <1>5, <1>10
  <2>2. node_' = IF op = "FindGreaterOrEqual" THEN v ELSE IF x = head_ THEN NULL ELSE x
    BY <1>1, <1>10 DEF Found
  <2>3. node_' = NULL \/ node_' \in ListIn(stores, w)
    BY <1>5, <1>6, <2>2
  <2>4. PICK L : L = ListIn(stores, w)
    OBVIOUS
  <2>5. L \subseteq Nat \ {0} /\ head_ = 0 /\ NULL = -1
    BY <2>4 DEF ListIn, head_, NULL
  <2>6. EndsRight(op, t, node_', L)
    <3>1. CASE op = "FindGreaterOrEqual"
      <4>1. v = NULL \/ v >= t
        BY <1>4, <1>5, <1>7, <1>10, <2>4, <2>5, <3>1
      <4>2. \A k \in L : k >= t => k > x
        BY <1>4, <2>5, <3>1
      <4> QED BY <2>1, <2>2, <2>4, <3>1, <4>1, <4>2 DEF EndsRight, IsNext
    <3>2. CASE op = "FindLessThan"
      <4>1. v = NULL \/ v >= t
        BY <1>4, <1>5, <1>7, <1>10, <2>4, <2>5, <3>2
      <4>2. ASSUME NEW k \in L, k < t
            PROVE  node_' # NULL /\ k <= node_'
        <5>1. ~(k > x)
          <6>1. k > x => v # NULL /\ v <= k
            BY <2>1, <2>4 DEF IsNext
          <6>2. v # NULL => v \in Nat
            BY <1>5, <2>4, <2>5
          <6> QED BY <1>4, <2>5, <4>1, <4>2, <6>1, <6>2
        <5>2. x # head_
          BY <2>5, <5>1, <1>4
        <5> QED BY <1>4, <2>2, <2>5, <3>2, <5>1, <5>2
      <4>3. node_' = NULL \/ node_' < t
        BY <1>4, <2>2, <3>2
      <4> QED BY <3>2, <4>2, <4>3 DEF EndsRight
    <3>3. CASE op = "FindLast"
      <4>1. v = NULL
        BY <1>7, <1>10, <3>3
      <4>2. ASSUME NEW k \in L
            PROVE  node_' # NULL /\ k <= node_'
        <5>1. ~(k > x)
          BY <2>1, <2>4, <4>1 DEF IsNext
        <5>2. x # head_
          BY <2>5, <5>1, <1>4
        <5> QED BY <1>4, <2>2, <2>5, <3>3, <5>1, <5>2
      <4> QED BY <3>3, <4>2 DEF EndsRight
    <3> QED BY <1>4, <3>1, <3>2, <3>3 DEF Searches
  <2> QED BY <1>1, <1>5, <1>10, <2>3, <2>4, <2>6
<1> QED BY <1>2, <1>3, <1>8, <1>9, <1>10
-----------------------------------------------------------------------------
(***************************************************************************)
(* What the iterator can see.                                              *)
(***************************************************************************)
\* The entries of its snapshot.
Vis == {k \in Inserted : Visible(k)}

\* What has been published is in the list that a reader sees after the mutex, and the
\* snapshot's entries in the list that the iterator sees.
SeenInv ==
    /\ \A k \in Inserted : Sequence(k) <= last_sequence_ => k \in ListIn(stores, committed)
    /\ Vis \subseteq ListIn(stores, view)

ReachInv == ListOrder /\ ReaderInList /\ SeenInv

\* What is left of the snapshot in front of iter_, and behind it.
Ahead(k) == IF find = NoFind THEN node_ # NULL /\ k >= node_ ELSE k >= find.target
Behind(k) ==
    IF find = NoFind THEN node_ # NULL /\ k <= node_
    ELSE find.op = "FindLast" \/ k < find.target

LEMMA NodesAreNumbers ==
    ASSUME ListInv, ReaderInv, EntriesWritten
    PROVE  /\ Inserted \subseteq Nat \ {0} /\ Vis \subseteq Nat \ {0}
           /\ node_ # NULL => node_ \in Nat \ {0}
           /\ NULL = -1 /\ head_ = 0
<1>1. \A k \in Inserted : \E u \in UserKeys, s \in 1..MaxWrites : k = InternalKey(u, s)
  <2>1. \A s \in 1..Len(types) : s \in 1..MaxWrites
    BY LenProperties, UserKeysAssumption DEF EntriesWritten
  <2> QED BY <2>1 DEF EntriesWritten
<1>2. Inserted \subseteq Nat \ {0}
  BY <1>1, InternalKeyParts
<1>3. node_ # NULL => node_ \in Inserted
  BY NodeEntry
<1> QED BY <1>2, <1>3 DEF Vis, NULL, head_

\* IterNext leaves the entry it was at.
LEMMA NextLeaves ==
    ASSUME IInv, ReachInv, find = NoFind, node_ # NULL, Follow(node_),
           UNCHANGED <<stores, inserting>>
    PROVE  /\ find' = NoFind
           /\ node_' = NULL \/ node_' > node_
           /\ \A k \in Vis : k > node_ => node_' # NULL /\ k >= node_'
<1>1. PICK n : n = node_
  OBVIOUS
<1>2. /\ view' \in 0..Len(stores) /\ view <= view' /\ find' = find
      /\ IsNext(stores, n, node_', view')
  BY <1>1, FollowInOrder DEF IInv, ReachInv, ListOrder
<1>3. view \in Nat /\ view' \in Nat
  BY <1>2 DEF IInv, ReaderInv
<1>4. Vis \subseteq ListIn(stores, view')
  BY <1>2, <1>3, ListInMore DEF ReachInv, SeenInv
<1>5. Vis \subseteq Nat /\ n \in Nat /\ (node_' = NULL \/ node_' \in Nat)
  BY <1>1, <1>2, NodesAreNumbers DEF IInv, IsNext, ListIn
<1>6. node_' = NULL \/ node_' > n
  BY <1>2 DEF IsNext
<1>7. \A k \in Vis : k > n => node_' # NULL /\ k >= node_'
  BY <1>2, <1>4, <1>5 DEF IsNext
<1> QED BY <1>1, <1>2, <1>6, <1>7

LEMMA FirstIsFirst ==
    ASSUME IInv, ReachInv, find = NoFind, Follow(head_), UNCHANGED <<stores, inserting>>
    PROVE  find' = NoFind /\ \A k \in Vis : node_' # NULL /\ k >= node_'
<1>1. /\ view' \in 0..Len(stores) /\ view <= view' /\ find' = find
      /\ IsNext(stores, head_, node_', view')
  BY FollowInOrder DEF IInv, ReachInv, ListOrder
<1>2. view \in Nat /\ view' \in Nat
  BY <1>1 DEF IInv, ReaderInv
<1>3. Vis \subseteq ListIn(stores, view')
  BY <1>1, <1>2, ListInMore DEF ReachInv, SeenInv
<1>4. Vis \subseteq Nat \ {0} /\ head_ = 0 /\ (node_' = NULL \/ node_' \in Nat)
  BY <1>1, NodesAreNumbers DEF IInv, IsNext, ListIn
<1> QED BY <1>1, <1>3, <1>4 DEF IsNext

\* A step of a search does not change what is in front and behind.
LEMMA SearchKeeps ==
    ASSUME IInv, ReachInv, FindStep, UNCHANGED <<stores, inserting>>
    PROVE  /\ find.op = "FindGreaterOrEqual" => \A k \in Vis : Ahead(k)' <=> Ahead(k)
           /\ find.op # "FindGreaterOrEqual" => \A k \in Vis : Behind(k)' <=> Behind(k)
           /\ find' # NoFind => find'.op = find.op /\ find'.target = find.target
<1>1. /\ view' \in 0..Len(stores) /\ view <= view'
      /\ \/ /\ find' # NoFind /\ node_' = node_
            /\ find'.op = find.op /\ find'.target = find.target
         \/ /\ find' = NoFind
            /\ node_' = NULL \/ node_' \in ListIn(stores, view')
            /\ EndsRight(find.op, find.target, node_', ListIn(stores, view'))
  BY FindStepInOrder DEF IInv, ReachInv, ListOrder
<1>2. find # NoFind /\ find.op \in Searches
  BY DEF FindStep, ReachInv, ReaderInList
<1>3. CASE /\ find' # NoFind /\ find'.op = find.op /\ find'.target = find.target
  <2>1. NoFind' = NoFind
    BY DEF NoFind, head_
  <2> QED BY <1>2, <1>3, <2>1 DEF Ahead, Behind
<1>4. CASE /\ find' = NoFind
           /\ node_' = NULL \/ node_' \in ListIn(stores, view')
           /\ EndsRight(find.op, find.target, node_', ListIn(stores, view'))
  <2>1. PICK L, t, op, n : L = ListIn(stores, view') /\ t = find.target /\ op = find.op /\ n = node_'
    OBVIOUS
  <2>2. view \in Nat /\ view' \in Nat
    BY <1>1 DEF IInv, ReaderInv
  <2>3. Vis \subseteq L
    BY <1>1, <2>1, <2>2, ListInMore DEF ReachInv, SeenInv
  <2>4. L \subseteq Nat /\ (n = NULL \/ n \in Nat) /\ t \in Int
    BY <1>4, <2>1 DEF ListIn, IInv, ReaderInv
  <2>5. EndsRight(op, t, n, L)
    BY <1>4, <2>1
  <2>6. \A k : Ahead(k)' <=> n # NULL /\ k >= n
    BY <1>4, <2>1 DEF Ahead, NoFind, head_, NULL
  <2>7. \A k : Behind(k)' <=> n # NULL /\ k <= n
    BY <1>4, <2>1 DEF Behind, NoFind, head_, NULL
  <2>8. ASSUME op = "FindGreaterOrEqual", NEW k \in Vis
        PROVE  Ahead(k)' <=> Ahead(k)
    <3>1. (n = NULL \/ n >= t) /\ (k >= t => n # NULL /\ n <= k)
      BY <2>3, <2>5, <2>8 DEF EndsRight
    <3>2. Ahead(k) <=> k >= t
      BY <1>2, <2>1 DEF Ahead
    <3> QED BY <2>3, <2>4, <2>6, <3>1, <3>2
  <2>9. ASSUME op # "FindGreaterOrEqual", NEW k \in Vis
        PROVE  Behind(k)' <=> Behind(k)
    <3>1. CASE op = "FindLessThan"
      <4>1. (n = NULL \/ n < t) /\ (k < t => n # NULL /\ k <= n)
        BY <2>3, <2>5, <3>1 DEF EndsRight
      <4>2. Behind(k) <=> k < t
        BY <1>2, <2>1, <3>1 DEF Behind
      <4> QED BY <2>3, <2>4, <2>7, <4>1, <4>2
    <3>2. CASE op = "FindLast"
      <4>1. n # NULL /\ k <= n
        BY <2>3, <2>5, <3>2 DEF EndsRight
      <4>2. Behind(k)
        BY <1>2, <2>1, <3>2 DEF Behind
      <4> QED BY <2>7, <4>1, <4>2
    <3> QED BY <1>2, <2>1, <2>9, <3>1, <3>2 DEF Searches
  <2>10. find' = NoFind
    BY <1>4
  <2> QED BY <2>1, <2>8, <2>9, <2>10
<1> QED BY <1>1, <1>3, <1>4

LEMMA ListInContinued ==
    ASSUME ListInv, Continued, NEW n \in 0..Len(stores)
    PROVE  ListIn(stores', n) = ListIn(stores, n)
<1>1. n \in Nat /\ \A j \in 1..n : stores[j] = stores'[j]
  BY LenProperties DEF ListInv, Continued
<1> QED BY <1>1, ListInSame

LEMMA InsertedStays ==
    ASSUME ListInv, Continued
    PROVE  Inserted \subseteq Inserted'
<1>1. Len(stores) \in Nat /\ DOMAIN stores = 1..Len(stores)
      /\ Len(stores') \in Nat /\ DOMAIN stores' = 1..Len(stores') /\ Len(stores) <= Len(stores')
  BY LenProperties DEF ListInv, Continued
<1>2. \A i \in DOMAIN stores : i \in DOMAIN stores' /\ stores'[i] = stores[i]
  BY <1>1 DEF Continued
<1> QED BY <1>2 DEF Inserted, head_

\* A step of the writer leaves the snapshot and the iterator alone.
LEMMA WriterKeeps ==
    ASSUME IInv, ReachInv,
           \/ \E u \in UserKeys, type \in EntryTypes, height \in 1..MaxHeight : Add(u, type, height)
           \/ Insert \/ Publish
    PROVE  /\ ReachInv' /\ Vis' = Vis
           /\ \A s \in 1..Len(types) : types'[s] = types[s]
           /\ UNCHANGED <<node_, find, dbIterVars>>
<1>0. /\ types \in Seq(EntryTypes) /\ Len(types) \in Nat /\ last_sequence_ \in 0..Len(types)
      /\ sequence_ \in 0..last_sequence_
      /\ \A k \in Inserted : Sequence(k) \in 1..Len(types)
      /\ Len(stores) \in Nat /\ view \in 0..Len(stores) /\ committed \in 0..Len(stores)
  <2>1. Len(types) \in Nat /\ Len(stores) \in Nat
    BY LenProperties DEF IInv, EntriesWritten, ListInv
  <2>2. ASSUME NEW k \in Inserted
        PROVE  Sequence(k) \in 1..Len(types)
    <3>1. PICK u \in UserKeys, s \in 1..Len(types) : k = InternalKey(u, s)
      BY DEF IInv, EntriesWritten
    <3>2. s \in 1..MaxWrites
      BY <2>1, UserKeysAssumption DEF IInv, EntriesWritten
    <3> QED BY <3>1, <3>2, InternalKeyParts
  <2> QED BY <2>1, <2>2 DEF IInv, EntriesWritten, IterType, ReaderInv
<1>1. ASSUME ListOrder', Continued, UNCHANGED <<iteratorVars, sequence_>>, committed' \in 0..Len(stores'),
             \A k \in Inserted' \ Inserted : Sequence(k) \in Nat /\ Sequence(k) > last_sequence_,
             \A k \in Inserted' : Sequence(k) <= last_sequence_' =>
                 k \in ListIn(stores', committed')
      PROVE  ReachInv' /\ Vis' = Vis
  <2>1. ListIn(stores', view) = ListIn(stores, view)
    BY <1>0, <1>1, ListInContinued DEF IInv
  <2>2. Inserted \subseteq Inserted'
    BY <1>1, InsertedStays DEF IInv
  <2>3. Vis' = Vis
    <3>1. \A k \in Inserted' \ Inserted : ~Visible(k)
      BY <1>0, <1>1 DEF Visible
    <3>2. \A k : Visible(k)' <=> Visible(k)
      BY <1>1 DEF Visible, Sequence
    <3>3. Vis' = {k \in Inserted' : Visible(k)}
      BY <3>2 DEF Vis
    <3> QED BY <2>2, <3>1, <3>3 DEF Vis
  <2>4. view' = view /\ node_' = node_ /\ find' = find
    BY <1>1 DEF iteratorVars
  <2>5. ReaderInList'
    <3>1. \/ node_ = NULL \/ node_ \in ListIn(stores', view)
      BY <2>1 DEF ReachInv, ReaderInList
    <3>2. \/ find.x = head_ \/ find.x \in ListIn(stores', view)
      BY <2>1 DEF ReachInv, ReaderInList
    <3>3. find # NoFind =>
              /\ find.op \in Searches
              /\ find.op = "FindLast" \/ find.x = head_ \/ find.x < find.target
      BY DEF ReachInv, ReaderInList
    <3>4. find # NoFind /\ find.op = "FindGreaterOrEqual" => find.target > 0
      BY DEF ReachInv, ReaderInList
    <3> QED BY <2>4, <3>1, <3>2, <3>3, <3>4 DEF ReaderInList, ListIn, NULL, head_, NoFind, Searches
  <2>6. SeenInv'
    <3>1. Vis \subseteq ListIn(stores', view)
      BY <2>1 DEF ReachInv, SeenInv
    <3>2. Vis' \subseteq ListIn(stores', view')
      BY <2>3, <2>4, <3>1
    <3>3. \A k \in Inserted' : Sequence(k) <= last_sequence_' => k \in ListIn(stores', committed')
      BY <1>1
    <3> QED BY <3>2, <3>3 DEF SeenInv, ListIn, Sequence
  <2> QED BY <1>1, <2>3, <2>5, <2>6 DEF ReachInv
<1>2. ASSUME NEW u \in UserKeys, NEW type \in EntryTypes, NEW height \in 1..MaxHeight,
             Add(u, type, height)
      PROVE  ReachInv' /\ Vis' = Vis /\ \A s \in 1..Len(types) : types'[s] = types[s]
  <2>1. PICK s, key : s = Len(types) + 1 /\ key = InternalKey(u, s)
    OBVIOUS
  <2>2. s \in 1..MaxWrites
    BY <1>0, <1>2, <2>1, UserKeysAssumption DEF Add
  <2>3. key \in Nat \ {0} /\ Sequence(key) = s
    BY <2>1, <2>2, InternalKeyParts
  <2>4. NewNode(key, height) /\ types' = Append(types, type) /\ UNCHANGED <<last_sequence_, dbIterVars>>
    BY <1>2, <2>1 DEF Add
  <2>5. Inserted' \subseteq Inserted \cup {key} /\ Continued
    BY <2>3, <2>4, NewNodeList DEF IInv
  <2>6. ListOrder'
    BY <2>3, <2>4, NewNodeOrder DEF IInv, ReachInv
  <2>7. UNCHANGED <<committed, iteratorVars>>
    BY <2>4 DEF NewNode
  <2>8. ListIn(stores', committed) = ListIn(stores, committed)
    BY <1>0, <2>5, ListInContinued DEF IInv
  <2>9. \A k \in Inserted' \ Inserted : Sequence(k) \in Nat /\ Sequence(k) > last_sequence_
    BY <1>0, <2>1, <2>3, <2>5
  <2>10. \A k \in Inserted' : Sequence(k) <= last_sequence_' => k \in ListIn(stores', committed')
    <3>1. ~(Sequence(key) <= last_sequence_)
      BY <1>0, <2>1, <2>3
    <3>2. \A k \in Inserted : Sequence(k) <= last_sequence_ => k \in ListIn(stores, committed)
      BY DEF ReachInv, SeenInv
    <3> QED BY <2>4, <2>5, <2>7, <2>8, <3>1, <3>2
  <2>11. committed' \in 0..Len(stores')
    BY <1>0, <2>5, <2>7 DEF Continued
  <2>12. ReachInv' /\ Vis' = Vis
    BY <1>1, <2>4, <2>5, <2>6, <2>7, <2>9, <2>10, <2>11 DEF dbIterVars
  <2>13. \A i \in 1..Len(types) : types'[i] = types[i]
    BY <1>0, <2>4, AppendProperties
  <2> QED BY <2>12, <2>13
<1>3. ASSUME Insert
      PROVE  ReachInv' /\ Vis' = Vis /\ \A s \in 1..Len(types) : types'[s] = types[s]
  <2>1. LinkLevel /\ UNCHANGED <<writeVars, dbIterVars>>
    BY <1>3 DEF Insert
  <2>2. ListInv' /\ Inserted' \subseteq Inserted /\ Continued
    BY <2>1, LinkLevelList DEF IInv
  <2>3. UNCHANGED <<committed, iteratorVars>>
    BY <2>1 DEF LinkLevel
  <2>4. ListOrder'
    BY <2>1, LinkLevelOrder DEF IInv, ReachInv
  <2>5. ListIn(stores', committed) = ListIn(stores, committed)
    BY <1>0, <2>2, ListInContinued DEF IInv
  <2>6. committed' \in 0..Len(stores')
    BY <1>0, <2>2, <2>3 DEF Continued
  <2>7. \A k \in Inserted' : Sequence(k) <= last_sequence_' => k \in ListIn(stores', committed')
    <3>1. \A k \in Inserted : Sequence(k) <= last_sequence_ => k \in ListIn(stores, committed)
      BY DEF ReachInv, SeenInv
    <3> QED BY <2>1, <2>2, <2>3, <2>5, <3>1 DEF writeVars
  <2>8. ReachInv' /\ Vis' = Vis
    BY <1>1, <2>1, <2>2, <2>3, <2>4, <2>6, <2>7 DEF dbIterVars
  <2> QED BY <2>1, <2>8 DEF writeVars
<1>4. ASSUME Publish
      PROVE  ReachInv' /\ Vis' = Vis /\ \A s \in 1..Len(types) : types'[s] = types[s]
  <2>1. /\ UNCHANGED <<stores, inserting, iteratorVars, types, dbIterVars>>
        /\ inserting = NoInsert /\ committed' = Len(stores)
    BY <1>4 DEF Publish, Unlock
  <2>2. Continued /\ Inserted' = Inserted
    BY <2>1, ListUnchanged DEF IInv
  <2>3. ListOrder'
    BY <2>1, ListOrderSame DEF IInv, ReachInv
  <2>4. \A k \in Inserted' : k \in ListIn(stores', committed')
    BY <2>1, <2>2 DEF ReachInv, ListOrder, AllLinked
  <2>5. committed' \in 0..Len(stores')
    BY <1>0, <2>1
  <2>6. ReachInv' /\ Vis' = Vis
    BY <1>1, <2>1, <2>2, <2>3, <2>4, <2>5 DEF dbIterVars
  <2> QED BY <2>1, <2>6
<1>5. UNCHANGED <<node_, find, dbIterVars>>
  BY WriterSteps
<1> QED BY <1>2, <1>3, <1>4, <1>5

\* Steps of the iterator: but for NewIterator, its snapshot stays.
LEMMA IteratorKeeps ==
    ASSUME IInv, ReachInv, User \/ Iterate
    PROVE  ReachInv' /\ (NewIterator \/ Vis' = Vis)
<1>1. /\ Moves /\ UNCHANGED <<stores, inserting, committed, writeVars>>
      /\ UNCHANGED <<types, last_sequence_>>
  BY IterateMoves DEF writeVars
<1>2. ListOrder' /\ Inserted' = Inserted
  BY <1>1, ListOrderSame, ListUnchanged DEF IInv, ReachInv
<1>3. NewIterator \/ sequence_' = sequence_
  BY Zenon DEF User, Iterate, SeekToFirst, SeekToLast, Seek, MoveNext, MovePrev, Searching,
               FindNextUserEntry, TurnRound, FindPrevUserEntry, unchangedByIter, dbIterVars
<1>4. Len(stores) \in Nat /\ view \in 0..Len(stores) /\ committed \in 0..Len(stores)
  BY LenProperties DEF IInv, ListInv, ReaderInv
<1>5. \A k : Sequence(k)' = Sequence(k)
  BY DEF Sequence
<1>6. \A k \in Inserted : Sequence(k) <= last_sequence_ => k \in ListIn(stores, committed)
  BY DEF ReachInv, SeenInv
<1>7. ASSUME view' \in 0..Len(stores), view <= view'
      PROVE  ListIn(stores, view) \subseteq ListIn(stores', view')
  BY <1>1, <1>4, <1>7, ListInMore
<1>8. /\ node_ = NULL \/ node_ \in ListIn(stores, view)
      /\ find.x = head_ \/ find.x \in ListIn(stores, view)
      /\ find # NoFind =>
             /\ find.op \in Searches
             /\ find.op = "FindLast" \/ find.x = head_ \/ find.x < find.target
      /\ find # NoFind /\ find.op = "FindGreaterOrEqual" => find.target > 0
  BY DEF ReachInv, ReaderInList
<1>9. ASSUME /\ node_' = NULL \/ node_' \in ListIn(stores', view')
             /\ find'.x = head_ \/ find'.x \in ListIn(stores', view')
             /\ find' # NoFind =>
                    /\ find'.op \in Searches
                    /\ find'.op = "FindLast" \/ find'.x = head_ \/ find'.x < find'.target
             /\ find' # NoFind /\ find'.op = "FindGreaterOrEqual" => find'.target > 0
      PROVE  ReaderInList'
  BY <1>9 DEF ReaderInList, ListIn, NULL, head_, NoFind, Searches
<1>10. ASSUME sequence_' = sequence_
       PROVE  Vis' = Vis
  BY <1>2, <1>5, <1>10 DEF Vis, Visible
<1>11. ASSUME Vis' \subseteq ListIn(stores', view')
       PROVE  SeenInv'
  <2>1. \A k \in Inserted' : Sequence(k) <= last_sequence_' => k \in ListIn(stores', committed')
    BY <1>1, <1>2, <1>6
  <2> QED BY <1>11, <2>1 DEF SeenInv, ListIn, Sequence
<1>12. ASSUME ReaderInList', sequence_' = sequence_, view' \in 0..Len(stores), view <= view'
       PROVE  ReachInv' /\ Vis' = Vis
  <2>1. Vis \subseteq ListIn(stores, view)
    BY DEF ReachInv, SeenInv
  <2>2. Vis' \subseteq ListIn(stores', view')
    BY <1>7, <1>10, <1>12, <2>1
  <2> QED BY <1>2, <1>10, <1>11, <1>12, <2>2 DEF ReachInv
<1>13. CASE NewIterator
  <2>1. view' = ViewAfterLock /\ find' = NoFind /\ node_' = NULL /\ sequence_' = last_sequence_
    BY <1>13 DEF NewIterator
  <2>2. view' \in 0..Len(stores) /\ view <= view' /\ committed <= view'
    BY <1>4, <2>1 DEF ViewAfterLock
  <2>3. ReaderInList'
    BY <1>9, <2>1 DEF NoFind
  <2>4. Vis' \subseteq ListIn(stores', view')
    <3>1. ListIn(stores, committed) \subseteq ListIn(stores, view')
      BY <1>4, <2>2, ListInMore
    <3>2. ASSUME NEW k \in Vis'
          PROVE  k \in ListIn(stores, committed)
      <4>1. k \in Inserted' /\ Visible(k)'
        BY DEF Vis
      <4>2. Sequence(k) <= last_sequence_
        BY <1>5, <2>1, <4>1 DEF Visible
      <4> QED BY <1>2, <1>6, <4>1, <4>2
    <3> QED BY <1>1, <3>1, <3>2
  <2> QED BY <1>2, <1>11, <1>13, <2>3, <2>4 DEF ReachInv
<1>14. CASE sequence_' = sequence_
  <2>1. CASE UNCHANGED iteratorVars
    <3>1. view' = view /\ node_' = node_ /\ find' = find /\ view <= view'
      BY <1>4, <2>1 DEF iteratorVars
    <3>2. ReaderInList'
      BY <1>1, <1>8, <1>9, <3>1
    <3> QED BY <1>4, <1>12, <1>14, <3>1, <3>2
  <2>2. CASE \E n : (n = head_ \/ (n = node_ /\ n # NULL)) /\ Follow(n)
    <3>1. PICK n : (n = head_ \/ (n = node_ /\ n # NULL)) /\ Follow(n)
      BY <2>2
    <3>2. /\ view' \in 0..Len(stores) /\ view <= view' /\ find' = find
          /\ IsNext(stores, n, node_', view')
      BY <3>1, FollowInOrder DEF IInv, ReachInv, ListOrder
    <3>3. node_' = NULL \/ node_' \in ListIn(stores', view')
      BY <1>1, <3>2 DEF IsNext
    <3>4. ReaderInList'
      BY <1>7, <1>8, <1>9, <3>2, <3>3
    <3> QED BY <1>12, <1>14, <3>2, <3>4
  <2>3. CASE \E op \in {"FindGreaterOrEqual", "FindLessThan", "FindLast"}, target \in Int :
                 StartFind(op, target) /\ (op = "FindGreaterOrEqual" => target > 0)
    <3>1. PICK op \in Searches, target \in Int :
              StartFind(op, target) /\ (op = "FindGreaterOrEqual" => target > 0)
      BY <2>3 DEF Searches
    <3>2. /\ view' = view /\ node_' = node_ /\ find'.x = head_ /\ find'.op = op
          /\ find'.target = target /\ view <= view'
      BY <1>4, <3>1 DEF StartFind
    <3>3. ReaderInList'
      BY <1>1, <1>8, <1>9, <3>1, <3>2
    <3> QED BY <1>4, <1>12, <1>14, <3>2, <3>3
  <2>4. CASE FindStep
    <3>1. /\ view' \in 0..Len(stores) /\ view <= view'
          /\ \/ /\ find' # NoFind /\ node_' = node_
                /\ find'.op = find.op /\ find'.target = find.target
                /\ find'.x = head_ \/ find'.x \in ListIn(stores, view')
                /\ find'.op = "FindLast" \/ find'.x = head_ \/ find'.x < find'.target
             \/ /\ find' = NoFind
                /\ node_' = NULL \/ node_' \in ListIn(stores, view')
      BY <2>4, FindStepInOrder DEF IInv, ReachInv, ListOrder
    <3>2. find # NoFind
      BY <2>4 DEF FindStep
    <3>3. ReaderInList'
      <4>1. CASE find' = NoFind /\ (node_' = NULL \/ node_' \in ListIn(stores, view'))
        BY <1>1, <1>9, <4>1 DEF NoFind
      <4>2. CASE /\ find' # NoFind /\ node_' = node_
                 /\ find'.op = find.op /\ find'.target = find.target
                 /\ find'.x = head_ \/ find'.x \in ListIn(stores, view')
                 /\ find'.op = "FindLast" \/ find'.x = head_ \/ find'.x < find'.target
        BY <1>1, <1>7, <1>8, <1>9, <3>1, <3>2, <4>2
      <4> QED BY <3>1, <4>1, <4>2
    <3> QED BY <1>12, <1>14, <3>1, <3>3
  <2>5. CASE view' = ViewAfterLock /\ find' = NoFind /\ node_' = NULL
    <3>1. view' \in 0..Len(stores) /\ view <= view'
      BY <1>4, <2>5 DEF ViewAfterLock
    <3>2. ReaderInList'
      BY <1>9, <2>5 DEF NoFind
    <3> QED BY <1>12, <1>14, <3>1, <3>2
  <2> QED BY <1>1, <2>1, <2>2, <2>3, <2>4, <2>5 DEF Moves
<1> QED BY <1>3, <1>13, <1>14

LEMMA ReachStep ==
    ASSUME IInv, ReachInv, [Next]_vars
    PROVE  ReachInv'
<1>1. CASE \/ \E u \in UserKeys, type \in {"kTypeValue", "kTypeDeletion"}, height \in 1..MaxHeight :
                  Add(u, type, height)
           \/ Insert \/ Publish
  BY <1>1, WriterKeeps DEF EntryTypes
<1>2. CASE User \/ Iterate
  BY <1>2, IteratorKeeps
<1>3. CASE UNCHANGED vars
  <2>1. ListOrder'
    BY <1>3, ListOrderSame DEF IInv, ReachInv, vars
  <2>2. ReaderInList'
    BY <1>3 DEF ReachInv, ReaderInList, ListIn, NULL, head_, NoFind, Searches, vars, iteratorVars
  <2>3. SeenInv'
    BY <1>3 DEF ReachInv, SeenInv, Vis, Visible, Sequence, Inserted, ListIn, head_, vars,
                iteratorVars, writeVars, dbIterVars
  <2> QED BY <2>1, <2>2, <2>3 DEF ReachInv
<1> QED BY <1>1, <1>2, <1>3 DEF Next

LEMMA ReachInit ==
    ASSUME Init
    PROVE  ReachInv
<1>1. stores = <<>> /\ Len(stores) = 0 /\ DOMAIN stores = {}
  BY EmptySeq DEF Init, ListInit
<1>2. Inserted = {}
  BY <1>1 DEF Inserted
<1>3. NextAt(stores, 0)
  <2>1. ListIn(stores, 0) = {}
    BY DEF ListIn
  <2>2. \A v : IsValue(stores, Link(head_, 0), 0, v) => v = NULL
    <3>1. Initially(Link(head_, 0)) = NULL
      BY SkipListAssumption DEF Initially, Link, max_height_
    <3> QED BY <3>1 DEF IsValue
  <2> QED BY <2>1, <2>2 DEF NextAt, IsNext
<1>4. InOrder(stores)
  <2>1. \A n \in 0..0 : n = 0
    OBVIOUS
  <2> QED BY <1>1, <1>3, <2>1 DEF InOrder
<1>5. AllLinked /\ SeenInv
  BY <1>2 DEF AllLinked, SeenInv, Vis
<1>6. ReaderInList
  BY DEF Init, ListInit, ReaderInList, NoFind
<1> QED BY <1>4, <1>5, <1>6 DEF ReachInv, ListOrder
-----------------------------------------------------------------------------
(***************************************************************************)
(* The map that the snapshot is, and the entries it consists of.           *)
(***************************************************************************)
LEMMA InternalKeyOrder ==
    ASSUME NEW u \in UserKeys, NEW v \in UserKeys, NEW s \in 1..MaxWrites, NEW t \in 1..MaxWrites
    PROVE  /\ u < v => InternalKey(u, s) < InternalKey(v, t)
           /\ InternalKey(u, s) <= InternalKey(u, t) <=> s >= t
<1>1. PICK m : m = MaxWrites + 1
  OBVIOUS
<1>2. m \in Nat /\ m > 0 /\ u \in Nat /\ v \in Nat
  BY <1>1, UserKeysAssumption
<1>3. PICK a, b : a = u * m /\ b = v * m
  OBVIOUS
<1>4. a \in Int /\ b \in Int
  BY <1>2, <1>3
<1>5. InternalKey(u, s) = a + MaxWrites - s /\ InternalKey(v, t) = b + MaxWrites - t
      /\ InternalKey(u, t) = a + MaxWrites - t
  BY <1>1, <1>3 DEF InternalKey
<1>6. u < v => b >= a + m
  <2> SUFFICES ASSUME u < v PROVE b >= a + m
    OBVIOUS
  <2>1. PICK d \in Nat : v = u + 1 + d
    <3>1. v - u - 1 \in Nat /\ v = u + 1 + (v - u - 1)
      BY <1>2
    <3> QED BY <3>1
  <2>2. v * m = u * m + m + d * m
    BY <1>2, <2>1
  <2>3. d * m \in Nat
    BY <1>2, <2>1
  <2> QED BY <1>2, <1>3, <1>4, <2>2, <2>3
<1> QED BY <1>1, <1>2, <1>4, <1>5, <1>6, UserKeysAssumption

LEMMA EntryOrder ==
    ASSUME IInv
    PROVE  /\ Inserted \subseteq Nat \ {0}
           /\ \A k \in Inserted : /\ UserKey(k) \in UserKeys /\ UserKey(k) \in Nat \ {0}
                                  /\ Sequence(k) \in 1..Len(types) /\ Sequence(k) \in 1..MaxWrites
                                  /\ Type(k) \in EntryTypes
                                  /\ k = InternalKey(UserKey(k), Sequence(k))
           /\ \A j, k \in Inserted : j <= k => UserKey(j) <= UserKey(k)
           /\ \A j, k \in Inserted :
                  UserKey(j) = UserKey(k) => (j <= k <=> Sequence(j) >= Sequence(k))
<1>1. types \in Seq(EntryTypes) /\ Len(types) \in Nat /\ Len(types) <= MaxWrites
  BY LenProperties DEF IInv, EntriesWritten
<1>2. ASSUME NEW k \in Inserted
      PROVE  /\ UserKey(k) \in UserKeys /\ UserKey(k) \in Nat \ {0}
             /\ Sequence(k) \in 1..Len(types) /\ Sequence(k) \in 1..MaxWrites
             /\ Type(k) \in EntryTypes
             /\ k = InternalKey(UserKey(k), Sequence(k)) /\ k \in Nat \ {0}
  <2>1. PICK u \in UserKeys, s \in 1..Len(types) : k = InternalKey(u, s)
    BY DEF IInv, EntriesWritten
  <2>2. s \in 1..MaxWrites
    BY <1>1, UserKeysAssumption
  <2>3. UserKey(k) = u /\ Sequence(k) = s /\ k \in Nat \ {0}
    BY <2>1, <2>2, InternalKeyParts
  <2>4. types[s] \in EntryTypes
    BY <1>1, ElementOfSeq
  <2> QED BY <2>1, <2>2, <2>3, <2>4, UserKeysAssumption DEF Type
<1>3. ASSUME NEW j \in Inserted, NEW k \in Inserted
      PROVE  /\ j <= k => UserKey(j) <= UserKey(k)
             /\ UserKey(j) = UserKey(k) => (j <= k <=> Sequence(j) >= Sequence(k))
  <2>1. UserKey(k) < UserKey(j) => k < j
    BY <1>2, InternalKeyOrder
  <2>2. UserKey(j) = UserKey(k) => (j <= k <=> Sequence(j) >= Sequence(k))
    BY <1>2, InternalKeyOrder
  <2>3. UserKey(j) \in Nat /\ UserKey(k) \in Nat /\ j \in Nat /\ k \in Nat
    BY <1>2
  <2> QED BY <2>1, <2>2, <2>3
<1>4. Inserted \subseteq Nat \ {0}
  BY <1>2
<1> QED BY <1>2, <1>3, <1>4

\* The newest entry of each key of the snapshot, if it is a value.
Shown ==
    {k \in Vis : Type(k) = "kTypeValue" /\ \A j \in Vis : UserKey(j) = UserKey(k) => k <= j}

LEMMA VisibleToIs ==
    ASSUME IInv, NEW u \in UserKeys
    PROVE  /\ VisibleTo(u) = {Sequence(k) : k \in {n \in Vis : UserKey(n) = u}}
           /\ VisibleTo(u) \subseteq 1..Len(types)
           /\ VisibleTo(u) # {} => /\ Max(VisibleTo(u)) \in VisibleTo(u)
                                   /\ \A s \in VisibleTo(u) : s <= Max(VisibleTo(u))
<1>1. VisibleTo(u) = {Sequence(k) : k \in {n \in Vis : UserKey(n) = u}}
  BY DEF VisibleTo, Vis
<1>2. VisibleTo(u) \subseteq 1..Len(types)
  BY <1>1, EntryOrder DEF Vis
<1>3. PICK V, n : V = VisibleTo(u) /\ n = Len(types)
  OBVIOUS
<1>4. n \in Nat /\ 1..n \subseteq Int /\ IsFiniteSet(1..n)
  <2>1. n \in Nat
    BY <1>3, LenProperties DEF IInv, EntriesWritten
  <2> QED BY <2>1, FS_Interval
<1>5. IsFiniteSet(V) /\ V \subseteq Int
  BY <1>2, <1>3, <1>4, FS_Subset
<1>6. V # {} => Max(V) \in V /\ \A s \in V : Max(V) >= s
  BY <1>5, MaxIsMax
<1>7. V # {} => \A s \in V : s <= Max(V)
  BY <1>5, <1>6
<1> QED BY <1>1, <1>2, <1>3, <1>6, <1>7

\* What the snapshot shows is what is in the map.
LEMMA ShownIs ==
    ASSUME IInv
    PROVE  /\ \A k \in Shown : /\ UserKey(k) \in UserKeys /\ Snapshot[UserKey(k)] = Sequence(k)
                               /\ Snapshot[UserKey(k)] # None
           /\ \A u \in UserKeys : Snapshot[u] # None => \E k \in Shown : UserKey(k) = u
           /\ \A j, k \in Shown : UserKey(j) = UserKey(k) => j = k
           /\ Snapshot \in [UserKeys -> Nat \cup {None}]
<1>1. /\ Inserted \subseteq Nat
      /\ \A k \in Inserted : UserKey(k) \in UserKeys /\ Sequence(k) \in Nat /\ Type(k) \in EntryTypes
      /\ \A j, k \in Inserted :
             UserKey(j) = UserKey(k) => (j <= k <=> Sequence(j) >= Sequence(k))
  BY EntryOrder
<1>2. Vis \subseteq Inserted /\ Shown \subseteq Vis
  BY DEF Vis, Shown
<1>3. ASSUME NEW k \in Shown
      PROVE  UserKey(k) \in UserKeys /\ Snapshot[UserKey(k)] = Sequence(k) /\ Sequence(k) \in Nat
  <2>1. PICK u, V : u = UserKey(k) /\ V = VisibleTo(u)
    OBVIOUS
  <2>2. u \in UserKeys /\ Sequence(k) \in Nat
    BY <1>1, <1>2, <2>1
  <2>3. /\ V = {Sequence(j) : j \in {n \in Vis : UserKey(n) = u}}
        /\ V # {} => Max(V) \in V /\ \A s \in V : s <= Max(V)
    BY <2>1, <2>2, VisibleToIs
  <2>4. Sequence(k) \in V
    BY <1>2, <2>1, <2>3
  <2>5. \A s \in V : s \in Nat /\ s <= Sequence(k)
    BY <1>1, <1>2, <2>1, <2>3 DEF Shown
  <2>6. Max(V) = Sequence(k)
    BY <2>2, <2>3, <2>4, <2>5
  <2>7. types[Sequence(k)] = "kTypeValue"
    BY DEF Shown, Type
  <2>8. Snapshot[u] = Sequence(k)
    BY <2>1, <2>2, <2>4, <2>6, <2>7 DEF Snapshot
  <2> QED BY <2>1, <2>2, <2>8
<1>4. ASSUME NEW u \in UserKeys, Snapshot[u] # None
      PROVE  Snapshot[u] \in Nat /\ \E k \in Shown : UserKey(k) = u
  <2>1. PICK V : V = VisibleTo(u)
    OBVIOUS
  <2>2. /\ V = {Sequence(j) : j \in {n \in Vis : UserKey(n) = u}}
        /\ V # {} => Max(V) \in V /\ \A s \in V : s <= Max(V)
    BY <2>1, VisibleToIs
  <2>3. V # {} /\ types[Max(V)] # "kTypeDeletion" /\ Snapshot[u] = Max(V)
    BY <1>4, <2>1 DEF Snapshot
  <2>4. PICK k \in Vis : UserKey(k) = u /\ Sequence(k) = Max(V)
    BY <2>2, <2>3
  <2>5. Type(k) = "kTypeValue"
    BY <1>1, <1>2, <2>3, <2>4 DEF Type, EntryTypes
  <2>6. ASSUME NEW j \in Vis, UserKey(j) = UserKey(k)
        PROVE  k <= j
    <3>1. Sequence(j) \in V
      BY <2>2, <2>4, <2>6
    <3>2. Sequence(j) <= Sequence(k)
      BY <2>2, <2>3, <2>4, <3>1
    <3> QED BY <1>1, <1>2, <2>4, <2>6, <3>2
  <2>7. k \in Shown
    BY <2>5, <2>6 DEF Shown
  <2> QED BY <1>1, <1>2, <2>3, <2>4, <2>7
<1>5. ASSUME NEW j \in Shown, NEW k \in Shown, UserKey(j) = UserKey(k)
      PROVE  j = k
  <2>1. j <= k /\ k <= j
    BY <1>2, <1>5 DEF Shown
  <2>2. j \in Nat /\ k \in Nat
    BY <1>1, <1>2
  <2> QED BY <2>1, <2>2
<1>6. Snapshot \in [UserKeys -> Nat \cup {None}]
  <2>1. Snapshot = [u \in UserKeys |-> Snapshot[u]]
    BY DEF Snapshot
  <2>2. \A u \in UserKeys : Snapshot[u] \in Nat \cup {None}
    BY <1>4
  <2> HIDE DEF Snapshot
  <2> QED BY <2>1, <2>2
<1> QED BY <1>3, <1>4, <1>5, <1>6, NoneAssumption

LEMMA SnapshotKept ==
    ASSUME IInv, Vis' = Vis, \A s \in 1..Len(types) : types'[s] = types[s], IInv'
    PROVE  Snapshot' = Snapshot /\ Shown' = Shown
<1>1. \A k \in Inserted : UserKey(k) \in UserKeys /\ Sequence(k) \in 1..Len(types)
  BY EntryOrder
<1>2. \A k : UserKey(k)' = UserKey(k) /\ Sequence(k)' = Sequence(k)
  BY DEF UserKey, Sequence
<1>3. \A k \in Vis : Type(k)' = Type(k)
  BY <1>1, <1>2 DEF Type, Vis
<1>4. Shown' = Shown
  <2>1. Shown' = {k \in Vis' : Type(k)' = "kTypeValue" /\ \A j \in Vis' : UserKey(j) = UserKey(k) => k <= j}
    BY <1>2 DEF Shown
  <2> QED BY <1>3, <2>1 DEF Shown
<1>5. ASSUME NEW u \in UserKeys
      PROVE  VisibleTo(u)' = VisibleTo(u)
  <2>1. VisibleTo(u)' = {Sequence(k) : k \in {n \in Vis' : UserKey(n) = u}}
    BY <1>2 DEF VisibleTo, Vis
  <2> QED BY <2>1, VisibleToIs
<1>6. ASSUME NEW u \in UserKeys, VisibleTo(u) # {}
      PROVE  types'[Max(VisibleTo(u))] = types[Max(VisibleTo(u))]
  BY <1>6, VisibleToIs
<1>7. Snapshot' = [u \in UserKeys |->
                      IF VisibleTo(u)' = {} \/ types'[Max(VisibleTo(u)')] = "kTypeDeletion" THEN None
                      ELSE Max(VisibleTo(u)')]
  BY DEF Snapshot, Max
<1>8. \A u \in UserKeys :
          (VisibleTo(u)' = {} \/ types'[Max(VisibleTo(u)')] = "kTypeDeletion")
          <=> (VisibleTo(u) = {} \/ types[Max(VisibleTo(u))] = "kTypeDeletion")
  BY <1>5, <1>6
<1>9. Snapshot' = Snapshot
  BY <1>5, <1>7, <1>8 DEF Snapshot
<1> QED BY <1>4, <1>9
-----------------------------------------------------------------------------
(***************************************************************************)
(* What the loops of DBIter keep, in terms of what is in front of iter_    *)
(* and behind it.                                                          *)
(***************************************************************************)
\* FindNextUserEntry has yet to find the least key shown from b on: what it has passed
\* is below b, or has a key that it skips.
ForwardFrom(b) ==
    /\ \A k \in Vis : UserKey(k) >= b /\ ~(skipping /\ Hidden(k)) => Ahead(k)
    /\ \A k \in Vis : Ahead(k) => UserKey(k) >= b \/ (skipping /\ Hidden(k))
    /\ skipping => /\ \A k \in Shown : UserKey(k) >= b => ~Hidden(k)
                   /\ \A k \in Vis : Ahead(k) => UserKey(k) >= saved_key_

LowerBound(b) ==
    /\ b \in Nat
    /\ b = 0 \/ b \in UserKeys \/ (from # None /\ b = from[1] + 1)

ForwardInv ==
    pc = "FindNextUserEntry" =>
        /\ direction_ = "kForward"
        /\ find # NoFind => find.op = "FindGreaterOrEqual"
        /\ \E b \in Nat : LowerBound(b) /\ ForwardFrom(b)

\* The loop of Prev has passed no entry of a key below the current one.
TurnInv ==
    pc = "Prev" =>
        /\ direction_ = "kForward"
        /\ find # NoFind => find.op = "FindLessThan"
        /\ from # None /\ saved_key_ = from[1]
        /\ \A k \in Vis : UserKey(k) < saved_key_ => Behind(k)

\* FindPrevUserEntry has yet to find the greatest key shown in B, or has it in saved_key_
\* with the newest value it has passed.
BackwardFrom(B) ==
    /\ \A k \in Vis : Behind(k) => UserKey(k) \in B
    /\ \A k \in Shown : UserKey(k) \in B =>
           Behind(k) \/ (value_type # "kTypeDeletion" /\ UserKey(k) = saved_key_)
    /\ value_type # "kTypeDeletion" =>
           /\ \A k \in Vis : UserKey(k) < saved_key_ => Behind(k)
           /\ \A k \in Vis : Behind(k) => UserKey(k) <= saved_key_
           /\ saved_key_ \in B
           /\ \E i \in Vis : /\ UserKey(i) = saved_key_ /\ Sequence(i) = saved_value_
                             /\ Type(i) = "kTypeValue"
                             /\ \A k \in Vis : UserKey(k) = saved_key_ /\ ~Behind(k) => i <= k

KeysUpTo(B) ==
    \/ B = UserKeys
    \/ from # None /\ B = {u \in UserKeys : u < from[1]}

BackwardInv ==
    pc = "FindPrevUserEntry" =>
        /\ find # NoFind => find.op \in {"FindLessThan", "FindLast"}
        /\ \E B : KeysUpTo(B) /\ BackwardFrom(B)

\* Between operations the iterator is at an entry that the snapshot shows.
RestInv ==
    pc = "idle" /\ valid_ =>
        /\ direction_ = "kForward" => node_ \in Shown
        /\ direction_ = "kReverse" =>
               /\ \E k \in Shown : UserKey(k) = saved_key_ /\ Sequence(k) = saved_value_
               /\ \A k \in Vis : Behind(k) <=> UserKey(k) < saved_key_

FromInv ==
    /\ pc = "idle" => from = None
    /\ from # None => \E k \in Shown : from = <<UserKey(k), Sequence(k)>>
    /\ pc # "FindPrevUserEntry" => value_type = "kTypeDeletion"

MapInv == ForwardInv /\ TurnInv /\ BackwardInv /\ RestInv /\ FromInv
-----------------------------------------------------------------------------
(***************************************************************************)
(* How the calls of iter_ move what is in front and behind.                *)
(***************************************************************************)
LEMMA EntriesFrom ==
    ASSUME IInv, sequence_ > 0, NEW u \in UserKeys, NEW k \in Vis
    PROVE  k >= InternalKey(u, sequence_) <=> UserKey(k) >= u
<1>1. PICK v, s, t, i : v = UserKey(k) /\ s = Sequence(k) /\ t = sequence_ /\ i = InternalKey(u, t)
  OBVIOUS
<1>2. k \in Nat /\ v \in UserKeys /\ v \in Nat /\ s \in 1..MaxWrites /\ k = InternalKey(v, s) /\ s <= t
  BY <1>1, EntryOrder DEF Vis, Visible
<1>3. t \in 1..MaxWrites /\ i \in Int /\ u \in Nat
  BY <1>1, InternalKeyInt, UserKeysAssumption
<1>4. (u < v => i < k) /\ (v < u => k < i)
  BY <1>1, <1>2, <1>3, InternalKeyOrder
<1>5. v = u => i <= k
  <2>1. InternalKey(u, t) <= InternalKey(u, s) <=> t >= s
    BY <1>2, <1>3, InternalKeyOrder
  <2> QED BY <1>1, <1>2, <1>3, <2>1
<1> QED BY <1>1, <1>2, <1>3, <1>4, <1>5

LEMMA NextMoves ==
    ASSUME IInv, ReachInv, find = NoFind, node_ # NULL, IterNext, UNCHANGED <<stores, inserting>>
    PROVE  find' = NoFind /\ \A k \in Vis : Ahead(k)' <=> k > node_
<1>1. PICK n : n = node_
  OBVIOUS
<1>2. PICK m : m = node_'
  OBVIOUS
<1>3. /\ find' = NoFind
      /\ m = NULL \/ m > n
      /\ \A k \in Vis : k > n => m # NULL /\ k >= m
  BY <1>1, <1>2, NextLeaves DEF IterNext
<1>4. \A k : Ahead(k)' <=> m # NULL /\ k >= m
  BY <1>2, <1>3 DEF Ahead, NoFind, head_, NULL
<1>5. Vis \subseteq Nat /\ n \in Nat
  BY <1>1, NodesAreNumbers DEF IInv
<1>6. m \in Int
  <2>1. Moves
    BY DEF Moves, IterNext
  <2>2. IsNext(stores, n, m, view')
    BY <1>1, <1>2, FollowInOrder DEF IInv, ReachInv, ListOrder, IterNext
  <2> QED BY <2>2 DEF IsNext, ListIn, NULL
<1> QED BY <1>1, <1>3, <1>4, <1>5, <1>6

LEMMA FirstMoves ==
    ASSUME IInv, ReachInv, find = NoFind, IterSeekToFirst, UNCHANGED <<stores, inserting>>
    PROVE  find' = NoFind /\ \A k \in Vis : Ahead(k)'
<1>1. PICK m : m = node_'
  OBVIOUS
<1>2. find' = NoFind /\ \A k \in Vis : m # NULL /\ k >= m
  BY <1>1, FirstIsFirst DEF IterSeekToFirst
<1>3. \A k : Ahead(k)' <=> m # NULL /\ k >= m
  BY <1>1, <1>2 DEF Ahead, NoFind, head_, NULL
<1> QED BY <1>2, <1>3

\* The move of iter_ is a search.
LEMMA SearchMoves ==
    ASSUME NEW op \in Searches, NEW target, StartFind(op, target)
    PROVE  /\ find' # NoFind /\ find'.op = op
           /\ \A k : Ahead(k)' <=> k >= target
           /\ \A k : Behind(k)' <=> op = "FindLast" \/ k < target
<1>1. /\ find' # NoFind /\ find'.op = op /\ find'.target = target /\ (find # NoFind)'
  BY DEF StartFind, NoFind, Searches, head_
<1> QED BY <1>1 DEF Ahead, Behind, NoFind, head_

\* A step that leaves the snapshot alone, and what is in front of iter_, or behind it.
LEMMA ForwardKept ==
    ASSUME Vis' = Vis, Shown' = Shown, UNCHANGED <<skipping, saved_key_>>,
           \A k \in Vis : Ahead(k)' <=> Ahead(k), NEW b, ForwardFrom(b)
    PROVE  ForwardFrom(b)'
<1>1. \A k : UserKey(k)' = UserKey(k)
  BY DEF UserKey
<1>3. Shown \subseteq Vis
  BY DEF Shown
<1>4. \A k \in Vis : Hidden(k)' <=> Hidden(k)
  BY <1>1 DEF Hidden
<1> QED BY <1>1, <1>3, <1>4 DEF ForwardFrom

LEMMA BackwardKept ==
    ASSUME Vis' = Vis, Shown' = Shown, UNCHANGED <<value_type, saved_key_, saved_value_>>,
           \A k \in Vis : Type(k)' = Type(k),
           \A k \in Vis : Behind(k)' <=> Behind(k), NEW B, BackwardFrom(B)
    PROVE  BackwardFrom(B)'
<1>1. \A k : UserKey(k)' = UserKey(k) /\ Sequence(k)' = Sequence(k)
  BY DEF UserKey, Sequence
<1>3. Shown \subseteq Vis
  BY DEF Shown
<1>4. value_type # "kTypeDeletion" =>
          \E i \in Vis : /\ UserKey(i) = saved_key_ /\ Sequence(i) = saved_value_
                         /\ Type(i)' = "kTypeValue"
                         /\ \A k \in Vis : UserKey(k) = saved_key_ /\ ~Behind(k)' => i <= k
  BY DEF BackwardFrom
<1> QED BY <1>1, <1>3, <1>4 DEF BackwardFrom

LEMMA MapKept ==
    ASSUME MapInv, Vis' = Vis, Shown' = Shown, \A k \in Vis : Type(k)' = Type(k),
           UNCHANGED dbIterVars,
           \/ UNCHANGED <<find, node_>>
           \/ /\ pc # "idle" /\ find # NoFind
              /\ find' # NoFind => find'.op = find.op
              /\ find.op = "FindGreaterOrEqual" => \A k \in Vis : Ahead(k)' <=> Ahead(k)
              /\ find.op # "FindGreaterOrEqual" => \A k \in Vis : Behind(k)' <=> Behind(k)
    PROVE  MapInv'
<1>0. UNCHANGED <<sequence_, direction_, valid_, saved_key_, saved_value_, skipping, value_type,
                  pc, from>>
  BY DEF dbIterVars
<1>1. \A k : UserKey(k)' = UserKey(k) /\ Sequence(k)' = Sequence(k)
  BY DEF UserKey, Sequence
<1>2. /\ find' = find /\ node_' = node_ => \A k \in Vis : (Ahead(k)' <=> Ahead(k)) /\ (Behind(k)' <=> Behind(k))
      /\ NoFind' = NoFind /\ NULL' = NULL
  BY DEF Ahead, Behind, NoFind, NULL, head_
<1>3. /\ find' # NoFind => find # NoFind /\ find'.op = find.op
      /\ pc = "idle" => \A k \in Vis : Behind(k)' <=> Behind(k)
      /\ pc = "FindNextUserEntry" => \A k \in Vis : Ahead(k)' <=> Ahead(k)
      /\ pc = "Prev" => \A k \in Vis : Behind(k)' <=> Behind(k)
      /\ pc = "FindPrevUserEntry" => \A k \in Vis : Behind(k)' <=> Behind(k)
      /\ pc = "idle" => node_' = node_
  BY <1>2 DEF MapInv, ForwardInv, TurnInv, BackwardInv
<1>4. ForwardInv'
  <2> SUFFICES ASSUME pc = "FindNextUserEntry" PROVE ForwardInv'
    BY <1>0 DEF ForwardInv
  <2>1. PICK b \in Nat : LowerBound(b) /\ ForwardFrom(b)
    BY DEF MapInv, ForwardInv
  <2>2. LowerBound(b)' /\ ForwardFrom(b)'
    BY <1>0, <1>3, <2>1, ForwardKept DEF LowerBound
  <2>3. direction_' = "kForward" /\ (find' # NoFind => find'.op = "FindGreaterOrEqual")
    BY <1>0, <1>3 DEF MapInv, ForwardInv
  <2> QED BY <1>2, <2>2, <2>3 DEF ForwardInv
<1>5. TurnInv'
  <2> SUFFICES ASSUME pc = "Prev" PROVE TurnInv'
    BY <1>0 DEF TurnInv
  <2>1. /\ direction_' = "kForward" /\ (find' # NoFind => find'.op = "FindLessThan")
        /\ from' # None /\ saved_key_' = from'[1]
        /\ \A k \in Vis : UserKey(k) < saved_key_' => Behind(k)'
    BY <1>0, <1>3 DEF MapInv, TurnInv
  <2> QED BY <1>1, <1>2, <2>1 DEF TurnInv
<1>6. BackwardInv'
  <2> SUFFICES ASSUME pc = "FindPrevUserEntry" PROVE BackwardInv'
    BY <1>0 DEF BackwardInv
  <2>1. PICK B : KeysUpTo(B) /\ BackwardFrom(B)
    BY DEF MapInv, BackwardInv
  <2>2. KeysUpTo(B)'
    BY <1>0, <2>1 DEF KeysUpTo
  <2>3. BackwardFrom(B)'
    BY <1>0, <1>3, <2>1, BackwardKept
  <2>4. find' # NoFind => find'.op \in {"FindLessThan", "FindLast"}
    BY <1>0, <1>3 DEF MapInv, BackwardInv
  <2> QED BY <1>2, <2>2, <2>3, <2>4 DEF BackwardInv
<1>7. RestInv'
  <2> SUFFICES ASSUME pc = "idle", valid_ PROVE RestInv'
    BY <1>0 DEF RestInv
  <2>1. /\ direction_ = "kForward" => node_' \in Shown'
        /\ direction_ = "kReverse" =>
               /\ \E k \in Shown' : UserKey(k) = saved_key_' /\ Sequence(k) = saved_value_'
               /\ \A k \in Vis' : Behind(k)' <=> UserKey(k) < saved_key_'
    BY <1>0, <1>3 DEF MapInv, RestInv
  <2> QED BY <1>0, <1>1, <2>1 DEF RestInv
<1>8. FromInv'
  BY <1>0, <1>1 DEF MapInv, FromInv
<1> QED BY <1>4, <1>5, <1>6, <1>7, <1>8 DEF MapInv

\* But for NewIterator, a step of the iterator leaves the snapshot alone.
LEMMA StepKeeps ==
    ASSUME IInv, IInv', ReachInv, User \/ Iterate, pc # "idle" \/ pc' # "idle"
    PROVE  /\ Vis' = Vis /\ Shown' = Shown /\ Snapshot' = Snapshot
           /\ UNCHANGED <<stores, inserting, types>>
           /\ \A k : UserKey(k)' = UserKey(k) /\ Sequence(k)' = Sequence(k) /\ Type(k)' = Type(k)
<1>1. UNCHANGED <<stores, inserting, committed, writeVars>>
  BY IterateMoves
<1>2. ~NewIterator
  BY DEF NewIterator
<1>3. Vis' = Vis
  BY <1>2, IteratorKeeps
<1>4. types' = types
  BY <1>1 DEF writeVars
<1>5. Shown' = Shown /\ Snapshot' = Snapshot
  BY <1>3, <1>4, SnapshotKept
<1> QED BY <1>1, <1>3, <1>4, <1>5 DEF UserKey, Sequence, Type

-----------------------------------------------------------------------------
(***************************************************************************)
(* What the user sees, and what the abstract iterator would show.          *)
(***************************************************************************)
Position == IF pc = "idle" THEN At ELSE from

\* p is the least of the snapshot from b on, the greatest of those in B.
LeastFrom(p, b) ==
    \/ p = None /\ \A k \in Shown : ~(UserKey(k) >= b)
    \/ \E i \in Shown : /\ p = <<UserKey(i), Sequence(i)>> /\ UserKey(i) >= b
                        /\ \A k \in Shown : UserKey(k) >= b => UserKey(i) <= UserKey(k)
GreatestIn(p, B) ==
    \/ p = None /\ \A k \in Shown : UserKey(k) \notin B
    \/ \E i \in Shown : /\ p = <<UserKey(i), Sequence(i)>> /\ UserKey(i) \in B
                        /\ \A k \in Shown : UserKey(k) \in B => UserKey(i) >= UserKey(k)

ShownKeys == {u \in UserKeys : Snapshot[u] # None}

LEMMA LeastIsChosen ==
    ASSUME IInv, NEW p, NEW b, LeastFrom(p, b),
           NEW keys, \A u : u \in keys <=> u \in ShownKeys /\ u >= b
    PROVE  p = IF keys = {} THEN None
               ELSE LET u == CHOOSE v \in keys : \A w \in keys : v <= w IN <<u, Snapshot[u]>>
<1>1. /\ \A k \in Shown : /\ UserKey(k) \in UserKeys /\ Snapshot[UserKey(k)] = Sequence(k)
                          /\ UserKey(k) \in ShownKeys
      /\ \A u \in ShownKeys : \E k \in Shown : UserKey(k) = u
  BY ShownIs DEF ShownKeys
<1>2. keys \subseteq Nat
  BY UserKeysAssumption DEF ShownKeys
<1>3. CASE p = None /\ \A k \in Shown : ~(UserKey(k) >= b)
  <2>1. keys = {}
    BY <1>1, <1>3
  <2> QED BY <1>3, <2>1
<1>4. ASSUME NEW i \in Shown, p = <<UserKey(i), Sequence(i)>>, UserKey(i) >= b,
             \A k \in Shown : UserKey(k) >= b => UserKey(i) <= UserKey(k)
      PROVE  p = IF keys = {} THEN None
                 ELSE LET u == CHOOSE v \in keys : \A w \in keys : v <= w IN <<u, Snapshot[u]>>
  <2>1. PICK n : n = UserKey(i)
    OBVIOUS
  <2>2. n \in keys /\ \A w \in keys : n <= w
    BY <1>1, <1>4, <2>1
  <2>3. \A v \in keys : (\A w \in keys : v <= w) => v = n
    BY <1>2, <2>2
  <2>4. (CHOOSE v \in keys : \A w \in keys : v <= w) = n
    BY <2>2, <2>3
  <2>5. Snapshot[n] = Sequence(i)
    BY <1>1, <2>1
  <2> QED BY <1>4, <2>1, <2>2, <2>4, <2>5
<1> QED BY <1>3, <1>4 DEF LeastFrom

LEMMA GreatestIsChosen ==
    ASSUME IInv, NEW p, NEW B, GreatestIn(p, B), NEW keys, keys = {u \in ShownKeys : u \in B}
    PROVE  p = IF keys = {} THEN None
               ELSE LET u == CHOOSE v \in keys : \A w \in keys : v >= w IN <<u, Snapshot[u]>>
<1>1. /\ \A k \in Shown : /\ UserKey(k) \in UserKeys /\ Snapshot[UserKey(k)] = Sequence(k)
                          /\ UserKey(k) \in ShownKeys
      /\ \A u \in ShownKeys : \E k \in Shown : UserKey(k) = u
  BY ShownIs DEF ShownKeys
<1>2. keys \subseteq Nat
  BY UserKeysAssumption DEF ShownKeys
<1>3. CASE p = None /\ \A k \in Shown : UserKey(k) \notin B
  <2>1. keys = {}
    BY <1>1, <1>3
  <2> QED BY <1>3, <2>1
<1>4. ASSUME NEW i \in Shown, p = <<UserKey(i), Sequence(i)>>, UserKey(i) \in B,
             \A k \in Shown : UserKey(k) \in B => UserKey(i) >= UserKey(k)
      PROVE  p = IF keys = {} THEN None
                 ELSE LET u == CHOOSE v \in keys : \A w \in keys : v >= w IN <<u, Snapshot[u]>>
  <2>1. PICK n : n = UserKey(i)
    OBVIOUS
  <2>2. n \in keys /\ \A w \in keys : n >= w
    BY <1>1, <1>4, <2>1
  <2>3. \A v \in keys : (\A w \in keys : v >= w) => v = n
    BY <1>2, <2>2
  <2>4. (CHOOSE v \in keys : \A w \in keys : v >= w) = n
    BY <2>2, <2>3
  <2>5. Snapshot[n] = Sequence(i)
    BY <1>1, <2>1
  <2> QED BY <1>4, <2>1, <2>2, <2>4, <2>5
<1> QED BY <1>3, <1>4 DEF GreatestIn

\* Moves of the abstract iterator.
LEMMA MovesForward ==
    ASSUME IInv, FromInv, pc # "idle", NEW b, LowerBound(b), LeastFrom(Position', b),
           Snapshot' = Snapshot
    PROVE  Map!Next
<1>1. PICK keys : keys = {u \in ShownKeys : u >= b}
  OBVIOUS
<1>2. \A u : u \in keys <=> u \in ShownKeys /\ u >= b
  BY <1>1
<1>3. Map!AtLeast(keys)
  <2>1. Position' = IF keys = {} THEN None
                    ELSE LET u == CHOOSE v \in keys : \A w \in keys : v <= w
                         IN  <<u, Snapshot[u]>>
    BY <1>2, LeastIsChosen
  <2> QED BY <2>1, Zenon DEF Map!AtLeast, Position
<1>4. Map!Present = ShownKeys /\ b \in Nat /\ \A u \in ShownKeys : u \in Nat
  BY UserKeysAssumption DEF Map!Present, ShownKeys, LowerBound
<1>5. CASE b = 0
  <2>1. \A u \in ShownKeys : u >= b
    BY <1>4, <1>5
  <2>2. keys = ShownKeys
    BY <1>2, <2>1
  <2>3. Map!SeekToFirst
    BY <1>3, <1>4, <2>2 DEF Map!SeekToFirst
  <2> QED BY <2>3 DEF Map!Next
<1>6. CASE b \in UserKeys
  <2>1. Map!Seek(b)
    BY <1>1, <1>3, <1>4 DEF Map!Seek
  <2> QED BY <1>6, <2>1 DEF Map!Next
<1>7. CASE from # None /\ b = from[1] + 1
  <2>1. PICK k \in Shown : from = <<UserKey(k), Sequence(k)>>
    BY <1>7 DEF FromInv
  <2>2. from[1] \in Nat
    BY <2>1, ShownIs, UserKeysAssumption
  <2>3. \A u \in ShownKeys : u >= b <=> u > from[1]
    BY <1>4, <1>7, <2>2
  <2>4. keys = {u \in ShownKeys : u > from[1]}
    BY <1>2, <2>3
  <2>5. Map!MoveNext
    BY <1>3, <1>4, <1>7, <2>4 DEF Map!MoveNext
  <2> QED BY <2>5 DEF Map!Next
<1> QED BY <1>5, <1>6, <1>7 DEF LowerBound

LEMMA MovesBackward ==
    ASSUME IInv, FromInv, pc # "idle", NEW B, KeysUpTo(B), GreatestIn(Position', B),
           Snapshot' = Snapshot
    PROVE  Map!Next
<1>1. PICK keys : keys = {u \in ShownKeys : u \in B}
  OBVIOUS
<1>2. Position' = IF keys = {} THEN None
                  ELSE LET u == CHOOSE v \in keys : \A w \in keys : v >= w IN <<u, Snapshot[u]>>
  BY <1>1, GreatestIsChosen
<1>3. Map!AtGreatest(keys)
  BY <1>2, Zenon DEF Map!AtGreatest, Position
<1>4. Map!Present = ShownKeys
  BY DEF Map!Present, ShownKeys
<1>5. CASE B = UserKeys
  <2>1. keys = ShownKeys
    BY <1>1, <1>5 DEF ShownKeys
  <2>2. Map!SeekToLast
    BY <1>3, <1>4, <2>1 DEF Map!SeekToLast
  <2> QED BY <2>2 DEF Map!Next
<1>6. CASE from # None /\ B = {u \in UserKeys : u < from[1]}
  <2>1. keys = {u \in ShownKeys : u < from[1]}
    BY <1>1, <1>6 DEF ShownKeys
  <2>2. Map!MovePrev
    BY <1>3, <1>4, <1>6, <2>1 DEF Map!MovePrev
  <2> QED BY <2>2 DEF Map!Next
<1> QED BY <1>5, <1>6 DEF KeysUpTo

LEMMA ForwardSet ==
    ASSUME Vis' = Vis, Shown' = Shown, NEW b,
           \A k \in Vis : UserKey(k) >= b /\ ~(skipping' /\ UserKey(k) <= saved_key_') => Ahead(k)',
           \A k \in Vis : Ahead(k)' => UserKey(k) >= b \/ (skipping' /\ UserKey(k) <= saved_key_'),
           skipping' => /\ \A k \in Shown : UserKey(k) >= b => ~(UserKey(k) <= saved_key_')
                        /\ \A k \in Vis : Ahead(k)' => UserKey(k) >= saved_key_'
    PROVE  ForwardFrom(b)'
<1>1. \A k : UserKey(k)' = UserKey(k)
  BY DEF UserKey
<1> QED BY <1>1 DEF ForwardFrom, Hidden

LEMMA BackwardSet ==
    ASSUME Vis' = Vis, Shown' = Shown, \A k : Type(k)' = Type(k), NEW B,
           \A k \in Vis : Behind(k)' => UserKey(k) \in B,
           \A k \in Shown : UserKey(k) \in B =>
               Behind(k)' \/ (value_type' # "kTypeDeletion" /\ UserKey(k) = saved_key_'),
           value_type' # "kTypeDeletion" =>
               /\ \A k \in Vis : UserKey(k) < saved_key_' => Behind(k)'
               /\ \A k \in Vis : Behind(k)' => UserKey(k) <= saved_key_'
               /\ saved_key_' \in B
               /\ \E i \in Vis : /\ UserKey(i) = saved_key_' /\ Sequence(i) = saved_value_'
                                 /\ Type(i) = "kTypeValue"
                                 /\ \A k \in Vis : UserKey(k) = saved_key_' /\ ~Behind(k)' => i <= k
    PROVE  BackwardFrom(B)'
<1>1. \A k : UserKey(k)' = UserKey(k) /\ Sequence(k)' = Sequence(k)
  BY DEF UserKey, Sequence
<1> QED BY <1>1 DEF BackwardFrom

\* The entries of the snapshot as the order of their keys has them.
LEMMA VisOrder ==
    ASSUME IInv
    PROVE  /\ \A k \in Vis : /\ k \in Nat /\ UserKey(k) \in Nat /\ UserKey(k) \in UserKeys
                             /\ Type(k) \in EntryTypes
           /\ \A j, k \in Vis : j <= k => UserKey(j) <= UserKey(k)
           /\ \A j \in Shown, k \in Vis : UserKey(j) = UserKey(k) => j <= k
           /\ Shown \subseteq Vis /\ \A k \in Shown : Type(k) = "kTypeValue"
           /\ saved_key_ \in Nat
           /\ node_ # NULL => /\ node_ \in Nat /\ UserKey(node_) \in Nat
                              /\ Visible(node_) => node_ \in Vis
                              /\ \A k \in Vis : /\ k <= node_ => UserKey(k) <= UserKey(node_)
                                                /\ node_ <= k => UserKey(node_) <= UserKey(k)
<1>1. node_ # NULL => node_ \in Inserted
  BY NodeEntry DEF IInv
<1>2. Vis \subseteq Inserted /\ \A k \in Inserted : Visible(k) => k \in Vis
  BY DEF Vis
<1>3. /\ \A k \in Inserted : /\ k \in Nat /\ UserKey(k) \in Nat /\ UserKey(k) \in UserKeys
                             /\ Type(k) \in EntryTypes
      /\ \A j, k \in Inserted : j <= k => UserKey(j) <= UserKey(k)
  BY EntryOrder
<1>4. /\ \A j \in Shown, k \in Vis : UserKey(j) = UserKey(k) => j <= k
      /\ Shown \subseteq Vis /\ \A k \in Shown : Type(k) = "kTypeValue"
  BY DEF Shown
<1>5. saved_key_ \in Nat
  BY UserKeysAssumption DEF IInv, IterType
<1> QED BY <1>1, <1>2, <1>3, <1>4, <1>5

\* FindNextUserEntry.
LEMMA FindNextMap ==
    ASSUME IInv, IInv', ReachInv, MapInv, FindNextUserEntry
    PROVE  MapInv' /\ (Position' = Position
                       \/ \E b \in Nat : LowerBound(b) /\ LeastFrom(Position', b))
<1>1. /\ pc = "FindNextUserEntry" /\ find = NoFind /\ direction_ = "kForward"
      /\ direction_' = "kForward" /\ value_type = "kTypeDeletion" /\ Position = from
  BY DEF FindNextUserEntry, Arrived, MapInv, ForwardInv, FromInv, Position
<1>2. PICK b \in Nat : LowerBound(b) /\ ForwardFrom(b)
  BY <1>1 DEF MapInv, ForwardInv
<1>3. /\ Vis' = Vis /\ Shown' = Shown /\ UNCHANGED <<stores, inserting, types>>
      /\ \A k : UserKey(k)' = UserKey(k) /\ Sequence(k)' = Sequence(k)
  BY <1>1, StepKeeps DEF Iterate
<1>4. PICK n, s : n = node_ /\ s = saved_key_
  OBVIOUS
<1>5. \A k : Ahead(k) <=> n # NULL /\ k >= n
  BY <1>1, <1>4 DEF Ahead
<1>6. /\ \A k \in Vis : UserKey(k) >= b /\ ~(skipping /\ UserKey(k) <= s) => n # NULL /\ k >= n
      /\ \A k \in Vis : n # NULL /\ k >= n => UserKey(k) >= b \/ (skipping /\ UserKey(k) <= s)
      /\ skipping => /\ \A k \in Shown : UserKey(k) >= b => ~(UserKey(k) <= s)
                     /\ \A k \in Vis : n # NULL /\ k >= n => UserKey(k) >= s
  BY <1>2, <1>4, <1>5 DEF ForwardFrom, Hidden
<1>7. /\ \A k \in Vis : k \in Nat /\ UserKey(k) \in Nat
      /\ \A j, k \in Vis : j <= k => UserKey(j) <= UserKey(k)
      /\ \A j \in Shown, k \in Vis : UserKey(j) = UserKey(k) => j <= k
      /\ Shown \subseteq Vis /\ s \in Nat
      /\ \A k \in Shown : Type(k) = "kTypeValue"
      /\ n # NULL => /\ n \in Nat /\ UserKey(n) \in Nat
                     /\ Visible(n) => n \in Vis
                     /\ \A k \in Vis : /\ k <= n => UserKey(k) <= UserKey(n)
                                       /\ n <= k => UserKey(n) <= UserKey(k)
  BY <1>4, VisOrder
<1>8. ASSUME UNCHANGED <<value_type, pc, from>>, find' = NoFind, ForwardFrom(b)'
      PROVE  MapInv' /\ Position' = Position
  <2>1. LowerBound(b)'
    BY <1>2, <1>8 DEF LowerBound
  <2>2. ForwardInv'
    BY <1>1, <1>2, <1>8, <2>1 DEF ForwardInv, NoFind, head_
  <2>3. FromInv'
    <3>1. from' # None => \E k \in Shown : from' = <<UserKey(k), Sequence(k)>>
      BY <1>8 DEF MapInv, FromInv
    <3> QED BY <1>1, <1>3, <1>8, <3>1 DEF FromInv
  <2>4. Position' = Position
    BY <1>1, <1>8 DEF Position
  <2> QED BY <1>1, <1>8, <2>2, <2>3, <2>4 DEF MapInv, TurnInv, BackwardInv, RestInv
<1>9. ASSUME IterNext, n # NULL
      PROVE  find' = NoFind /\ \A k \in Vis : Ahead(k)' <=> k > n
  BY <1>1, <1>3, <1>4, <1>9, NextMoves
<1>10. ASSUME Return, valid_' => n \in Shown
       PROVE  MapInv'
  <2>1. pc' = "idle" /\ from' = None /\ value_type' = "kTypeDeletion" /\ node_' = n
    BY <1>4, <1>10 DEF Return, iteratorVars
  <2>2. valid_' => node_' \in Shown'
    BY <1>3, <1>10, <2>1
  <2>3. RestInv' /\ FromInv'
    BY <1>1, <2>1, <2>2 DEF RestInv, FromInv
  <2> QED BY <2>1, <2>3 DEF MapInv, ForwardInv, TurnInv, BackwardInv
<1>11. CASE n = NULL /\ valid_' = FALSE /\ Return
  <2>1. \A k \in Shown : ~(UserKey(k) >= b)
    BY <1>6, <1>7, <1>11
  <2>2. Position' = None
    BY <1>11 DEF Position, At, Return
  <2>3. LeastFrom(Position', b)
    BY <2>1, <2>2 DEF LeastFrom
  <2> QED BY <1>2, <1>10, <1>11, <2>3
<1>12. CASE /\ n # NULL /\ Visible(n) /\ Type(n) = "kTypeValue" /\ ~(skipping /\ UserKey(n) <= s)
            /\ valid_' = TRUE /\ Return
  <2>1. n \in Vis /\ UserKey(n) >= b
    BY <1>6, <1>7, <1>12
  <2>2. ASSUME NEW k \in Vis, UserKey(k) = UserKey(n)
        PROVE  n <= k
    BY <1>6, <1>7, <1>12, <2>1, <2>2
  <2>3. n \in Shown
    BY <1>12, <2>1, <2>2 DEF Shown
  <2>4. ASSUME NEW k \in Shown, UserKey(k) >= b
        PROVE  UserKey(n) <= UserKey(k)
    BY <1>6, <1>7, <1>12, <2>4
  <2>5. Position' = <<UserKey(n), Sequence(n)>>
    <3>1. Position' = At'
      BY <1>12 DEF Position, Return
    <3>2. At' = <<UserKey(node_'), Sequence(node_')>>
      BY <1>1, <1>12 DEF At, UserKey, Sequence
    <3>3. node_' = n
      BY <1>4, <1>12 DEF Return, iteratorVars
    <3> QED BY <3>1, <3>2, <3>3
  <2>6. LeastFrom(Position', b)
    BY <2>1, <2>3, <2>4, <2>5 DEF LeastFrom
  <2> QED BY <1>2, <1>10, <1>12, <2>3, <2>6
<1>13. CASE /\ n # NULL /\ Visible(n) /\ Type(n) = "kTypeDeletion"
            /\ saved_key_' = UserKey(n) /\ skipping' = TRUE /\ IterNext
            /\ UNCHANGED <<valid_, value_type, pc, from>>
  <2>1. find' = NoFind /\ \A k \in Vis : Ahead(k)' <=> k > n
    BY <1>9, <1>13
  <2>2. n \in Vis /\ n \notin Shown
    BY <1>7, <1>13
  <2>3. ASSUME NEW k \in Vis, UserKey(k) >= b, ~(UserKey(k) <= UserKey(n))
        PROVE  k > n
    BY <1>7, <1>13, <2>3
  <2>4. ASSUME NEW k \in Vis, k > n
        PROVE  UserKey(n) <= UserKey(k) /\ (UserKey(k) >= b \/ UserKey(k) <= UserKey(n))
    <3>1. k >= n /\ UserKey(n) <= UserKey(k)
      BY <1>7, <1>13, <2>4
    <3>2. UserKey(k) >= b \/ (skipping /\ UserKey(k) <= s)
      BY <1>6, <1>13, <3>1
    <3>3. skipping => UserKey(n) >= s
      BY <1>6, <1>7, <1>13, <2>2
    <3> QED BY <1>7, <1>13, <3>1, <3>2, <3>3
  <2>5. ASSUME NEW k \in Shown, UserKey(k) >= b
        PROVE  ~(UserKey(k) <= UserKey(n))
    <3>1. k \in Vis /\ k >= n
      BY <1>6, <1>7, <2>5
    <3>2. UserKey(k) # UserKey(n)
      BY <1>7, <1>13, <2>2, <2>5, <3>1
    <3> QED BY <1>7, <1>13, <3>1, <3>2
  <2>6. ForwardFrom(b)'
    BY <1>3, <1>13, <2>1, <2>3, <2>4, <2>5, <1>7, ForwardSet
  <2> QED BY <1>8, <1>13, <2>1, <2>6
<1>14. CASE /\ n # NULL
            /\ Visible(n) => Type(n) = "kTypeValue" /\ skipping /\ UserKey(n) <= s
            /\ IterNext
            /\ UNCHANGED <<saved_key_, skipping, valid_, value_type, pc, from>>
  <2>1. find' = NoFind /\ \A k \in Vis : Ahead(k)' <=> k > n
    BY <1>9, <1>14
  <2>2. saved_key_' = s /\ (skipping' <=> skipping)
    BY <1>4, <1>14
  <2>3. ASSUME NEW k \in Vis, UserKey(k) >= b, ~(skipping /\ UserKey(k) <= s)
        PROVE  k > n
    <3>1. k >= n
      BY <1>6, <2>3
    <3>2. k # n
      BY <1>14, <2>3 DEF Vis
    <3> QED BY <1>7, <1>14, <3>1, <3>2
  <2>4. \A k \in Vis : k > n => k >= n
    BY <1>7, <1>14
  <2>5. ForwardFrom(b)'
    BY <1>3, <1>6, <1>14, <2>1, <2>2, <2>3, <2>4, ForwardSet
  <2> QED BY <1>8, <1>14, <2>1, <2>5
<1> QED BY <1>4, <1>11, <1>12, <1>13, <1>14 DEF FindNextUserEntry, Hidden

\* A step back.
LEMMA PrevMoves ==
    ASSUME IterPrev
    PROVE  /\ find' # NoFind /\ find'.op = "FindLessThan"
           /\ \A k : Behind(k)' <=> k < node_
<1>1. "FindLessThan" \in Searches /\ StartFind("FindLessThan", node_)
  BY DEF Searches, IterPrev
<1>2. /\ find' # NoFind /\ find'.op = "FindLessThan"
      /\ \A k : Behind(k)' <=> "FindLessThan" = "FindLast" \/ k < node_
  BY <1>1, SearchMoves, Zenon
<1> QED BY <1>2

\* The loop of Prev.
LEMMA TurnMap ==
    ASSUME IInv, IInv', ReachInv, MapInv, TurnRound
    PROVE  MapInv' /\ (Position' = Position
                       \/ \E B : KeysUpTo(B) /\ GreatestIn(Position', B))
<1>1. /\ pc = "Prev" /\ find = NoFind /\ direction_ = "kForward"
      /\ value_type = "kTypeDeletion" /\ Position = from
      /\ from # None /\ saved_key_ = from[1]
  BY DEF TurnRound, Arrived, MapInv, TurnInv, FromInv, Position
<1>2. PICK k0 \in Shown : from = <<UserKey(k0), Sequence(k0)>>
  BY <1>1 DEF MapInv, FromInv
<1>3. /\ Vis' = Vis /\ Shown' = Shown /\ UNCHANGED <<stores, inserting, types>>
      /\ \A k : UserKey(k)' = UserKey(k) /\ Sequence(k)' = Sequence(k) /\ Type(k)' = Type(k)
  BY <1>1, StepKeeps DEF Iterate
<1>4. PICK n, s : n = node_ /\ s = saved_key_
  OBVIOUS
<1>5. \A k : Behind(k) <=> n # NULL /\ k <= n
  BY <1>1, <1>4 DEF Behind
<1>6. \A k \in Vis : UserKey(k) < s => n # NULL /\ k <= n
  BY <1>1, <1>4, <1>5 DEF MapInv, TurnInv
<1>7. /\ \A k \in Vis : k \in Nat /\ UserKey(k) \in Nat /\ UserKey(k) \in UserKeys
      /\ Shown \subseteq Vis /\ s \in Nat
      /\ n # NULL => /\ n \in Nat /\ UserKey(n) \in Nat
                     /\ \A k \in Vis : /\ k <= n => UserKey(k) <= UserKey(n)
                                       /\ n <= k => UserKey(n) <= UserKey(k)
  BY <1>4, VisOrder
<1>8. ASSUME UNCHANGED from PROVE from' # None => \E k \in Shown' : from' = <<UserKey(k)', Sequence(k)'>>
  BY <1>2, <1>3, <1>8
<1>9. CASE n = NULL /\ valid_' = FALSE /\ Return
  <2>1. pc' = "idle" /\ from' = None /\ value_type' = "kTypeDeletion"
    BY <1>9 DEF Return
  <2>2. MapInv'
    BY <1>9, <2>1 DEF MapInv, ForwardInv, TurnInv, BackwardInv, RestInv, FromInv
  <2>3. PICK B : B = {u \in UserKeys : u < from[1]}
    OBVIOUS
  <2>4. \A k \in Shown : UserKey(k) \notin B
    BY <1>1, <1>4, <1>6, <1>7, <1>9, <2>3
  <2>5. Position' = None
    BY <1>9, <2>1 DEF Position, At
  <2>6. GreatestIn(Position', B) /\ KeysUpTo(B)
    BY <1>1, <2>3, <2>4, <2>5 DEF GreatestIn, KeysUpTo
  <2> QED BY <2>2, <2>6
<1>10. CASE /\ n # NULL /\ UserKey(n) >= s /\ IterPrev
            /\ UNCHANGED <<saved_key_, direction_, value_type, pc, from>>
  <2>1. find'.op = "FindLessThan" /\ \A k : Behind(k)' <=> k < n
    BY <1>4, <1>10, PrevMoves
  <2>2. ASSUME NEW k \in Vis, UserKey(k) < s
        PROVE  k < n
    BY <1>7, <1>10, <2>2
  <2>3. TurnInv'
    <3>1. \A k \in Vis' : UserKey(k)' < saved_key_' => Behind(k)'
      BY <1>3, <1>4, <1>10, <2>1, <2>2
    <3> QED BY <1>1, <1>10, <2>1, <3>1 DEF TurnInv
  <2>4. FromInv'
    BY <1>1, <1>8, <1>10 DEF FromInv
  <2>5. Position' = Position
    BY <1>1, <1>10 DEF Position
  <2> QED BY <1>1, <1>10, <2>3, <2>4, <2>5 DEF MapInv, ForwardInv, BackwardInv, RestInv
<1>11. CASE /\ n # NULL /\ UserKey(n) < s
            /\ direction_' = "kReverse" /\ pc' = "FindPrevUserEntry"
            /\ UNCHANGED <<iteratorVars, saved_key_, value_type, from>>
  <2>1. PICK B : B = {u \in UserKeys : u < from[1]}
    OBVIOUS
  <2>2. find' = NoFind /\ node_' = n
    BY <1>1, <1>4, <1>11 DEF iteratorVars
  <2>3. \A k : Behind(k)' <=> n # NULL /\ k <= n
    BY <2>2 DEF Behind, NoFind, head_, NULL
  <2>4. ASSUME NEW k \in Vis, k <= n
        PROVE  UserKey(k) \in B
    BY <1>1, <1>4, <1>7, <1>11, <2>1, <2>4
  <2>5. ASSUME NEW k \in Shown, UserKey(k) \in B
        PROVE  k <= n
    BY <1>1, <1>4, <1>6, <1>7, <2>1, <2>5
  <2>6. value_type' = "kTypeDeletion"
    BY <1>1, <1>11
  <2>7. BackwardFrom(B)'
    BY <1>3, <1>11, <2>3, <2>4, <2>5, <2>6, BackwardSet
  <2>8. KeysUpTo(B)'
    BY <1>1, <1>11, <2>1 DEF KeysUpTo
  <2>9. BackwardInv'
    BY <2>2, <2>7, <2>8 DEF BackwardInv, NoFind, head_
  <2>10. FromInv'
    BY <1>8, <1>11 DEF FromInv
  <2>11. Position' = Position
    BY <1>1, <1>11 DEF Position
  <2> QED BY <1>11, <2>9, <2>10, <2>11 DEF MapInv, ForwardInv, TurnInv, RestInv
<1> QED BY <1>4, <1>9, <1>10, <1>11 DEF TurnRound

\* FindPrevUserEntry.
LEMMA FindPrevMap ==
    ASSUME IInv, IInv', ReachInv, MapInv, FindPrevUserEntry
    PROVE  MapInv' /\ (Position' = Position
                       \/ \E B : KeysUpTo(B) /\ GreatestIn(Position', B))
<1>1. /\ pc = "FindPrevUserEntry" /\ find = NoFind /\ direction_ = "kReverse" /\ Position = from
  BY DEF FindPrevUserEntry, Arrived, IInv, AtRest, Position
<1>2. PICK B : KeysUpTo(B) /\ BackwardFrom(B)
  BY <1>1 DEF MapInv, BackwardInv
<1>3. /\ Vis' = Vis /\ Shown' = Shown /\ UNCHANGED <<stores, inserting, types>>
      /\ \A k : UserKey(k)' = UserKey(k) /\ Sequence(k)' = Sequence(k) /\ Type(k)' = Type(k)
  BY <1>1, StepKeeps DEF Iterate
<1>4. PICK n, s : n = node_ /\ s = saved_key_
  OBVIOUS
<1>5. \A k : Behind(k) <=> n # NULL /\ k <= n
  BY <1>1, <1>4 DEF Behind
<1>6. /\ \A k \in Vis : n # NULL /\ k <= n => UserKey(k) \in B
      /\ \A k \in Shown : UserKey(k) \in B =>
             (n # NULL /\ k <= n) \/ (value_type # "kTypeDeletion" /\ UserKey(k) = s)
  BY <1>2, <1>4, <1>5 DEF BackwardFrom
<1>7. ASSUME value_type # "kTypeDeletion"
      PROVE  /\ \A k \in Vis : UserKey(k) < s => n # NULL /\ k <= n
             /\ \A k \in Vis : n # NULL /\ k <= n => UserKey(k) <= s
             /\ s \in B
             /\ \E i \in Vis : /\ UserKey(i) = s /\ Sequence(i) = saved_value_
                               /\ Type(i) = "kTypeValue"
                               /\ \A k \in Vis : UserKey(k) = s /\ ~(n # NULL /\ k <= n) => i <= k
  BY <1>2, <1>4, <1>5, <1>7 DEF BackwardFrom
<1>8. /\ \A k \in Vis : k \in Nat /\ UserKey(k) \in Nat /\ UserKey(k) \in UserKeys
                        /\ Type(k) \in EntryTypes
      /\ \A j \in Shown, k \in Vis : UserKey(j) = UserKey(k) => j <= k
      /\ Shown \subseteq Vis /\ s \in Nat
      /\ \A k \in Shown : Type(k) = "kTypeValue"
      /\ n # NULL => /\ n \in Nat /\ UserKey(n) \in Nat
                     /\ Visible(n) => n \in Vis
                     /\ \A k \in Vis : /\ k <= n => UserKey(k) <= UserKey(n)
                                       /\ n <= k => UserKey(n) <= UserKey(k)
  BY <1>4, VisOrder
<1>9. ASSUME IterPrev, UNCHANGED <<direction_, pc, from>>, BackwardFrom(B)'
      PROVE  MapInv' /\ Position' = Position
  <2>1. find'.op = "FindLessThan"
    BY <1>9, PrevMoves
  <2>2. KeysUpTo(B)'
    BY <1>2, <1>9 DEF KeysUpTo
  <2>3. BackwardInv'
    BY <1>9, <2>1, <2>2 DEF BackwardInv
  <2>4. FromInv'
    <3>1. from' # None => \E k \in Shown : from' = <<UserKey(k), Sequence(k)>>
      BY <1>9 DEF MapInv, FromInv
    <3> QED BY <1>1, <1>3, <1>9, <3>1 DEF FromInv
  <2>5. Position' = Position
    BY <1>1, <1>9 DEF Position
  <2> QED BY <1>1, <1>9, <2>3, <2>4, <2>5 DEF MapInv, ForwardInv, TurnInv, RestInv
<1>10. ASSUME Return
       PROVE  pc' = "idle" /\ from' = None /\ value_type' = "kTypeDeletion" /\ node_' = n /\ find' = NoFind
  BY <1>1, <1>4, <1>10 DEF Return, iteratorVars
<1>11. CASE n = NULL /\ value_type = "kTypeDeletion" /\ EndOfReverse /\ Return
  <2>1. valid_' = FALSE
    BY <1>11 DEF EndOfReverse
  <2>2. MapInv'
    BY <1>10, <1>11, <2>1 DEF MapInv, ForwardInv, TurnInv, BackwardInv, RestInv, FromInv
  <2>3. Position' = None
    BY <1>10, <1>11, <2>1 DEF Position, At
  <2>4. GreatestIn(Position', B)
    BY <1>6, <1>11, <2>3 DEF GreatestIn
  <2> QED BY <1>2, <2>2, <2>4
<1>12. CASE /\ value_type # "kTypeDeletion" /\ EndOfReverse /\ Return
            /\ n = NULL \/ (Visible(n) /\ UserKey(n) < s)
  <2>1. valid_' = TRUE /\ UNCHANGED <<saved_key_, saved_value_, direction_>>
    BY <1>12 DEF EndOfReverse
  <2>2. \A k \in Vis : n # NULL /\ k <= n => UserKey(k) < s
    BY <1>8, <1>12
  <2>3. PICK i \in Vis : /\ UserKey(i) = s /\ Sequence(i) = saved_value_ /\ Type(i) = "kTypeValue"
                         /\ \A k \in Vis : UserKey(k) = s /\ ~(n # NULL /\ k <= n) => i <= k
    BY <1>7, <1>12
  <2>4. ASSUME NEW k \in Vis, UserKey(k) = UserKey(i)
        PROVE  i <= k
    <3>1. ~(n # NULL /\ k <= n)
      BY <1>8, <2>2, <2>3, <2>4
    <3> QED BY <2>3, <2>4, <3>1
  <2>5. i \in Shown
    BY <2>3, <2>4 DEF Shown
  <2>6. Position' = <<UserKey(i), Sequence(i)>>
    BY <1>1, <1>4, <1>10, <1>12, <2>1, <2>3 DEF Position, At
  <2>7. ASSUME NEW k \in Shown, UserKey(k) \in B
        PROVE  UserKey(i) >= UserKey(k)
    BY <1>6, <1>7, <1>8, <1>12, <2>3, <2>7
  <2>8. GreatestIn(Position', B)
    BY <1>7, <1>12, <2>3, <2>5, <2>6, <2>7 DEF GreatestIn
  <2>9. RestInv'
    <3>1. \A k : Behind(k)' <=> n # NULL /\ k <= n
      BY <1>10, <1>12 DEF Behind, NoFind, head_, NULL
    <3>2. \A k \in Vis : n # NULL /\ k <= n <=> UserKey(k) < s
      BY <1>7, <1>12, <2>2
    <3>3. \E k \in Shown' : UserKey(k)' = saved_key_' /\ Sequence(k)' = saved_value_'
      BY <1>3, <1>4, <2>1, <2>3, <2>5
    <3>4. \A k \in Vis' : Behind(k)' <=> UserKey(k)' < saved_key_'
      BY <1>3, <1>4, <2>1, <3>1, <3>2
    <3> QED BY <1>1, <2>1, <3>3, <3>4 DEF RestInv
  <2>10. MapInv'
    BY <1>10, <1>12, <2>9 DEF MapInv, ForwardInv, TurnInv, BackwardInv, FromInv
  <2> QED BY <1>2, <2>8, <2>10
<1>13. CASE /\ n # NULL /\ Visible(n) /\ ~(value_type # "kTypeDeletion" /\ UserKey(n) < s)
            /\ value_type' = Type(n)
            /\ saved_key_' = IF Type(n) = "kTypeDeletion" THEN 0 ELSE UserKey(n)
            /\ saved_value_' = IF Type(n) = "kTypeDeletion" THEN 0 ELSE Sequence(n)
            /\ IterPrev /\ UNCHANGED <<direction_, pc, from>>
  <2>1. \A k : Behind(k)' <=> k < n
    BY <1>4, <1>13, PrevMoves
  <2>2. n \in Vis /\ n \in Nat /\ UserKey(n) \in B /\ Type(n) \in EntryTypes
    <3>1. n \in Vis /\ n \in Nat /\ n <= n
      BY <1>8, <1>13
    <3> QED BY <1>6, <1>8, <1>13, <3>1
  <2>3. ASSUME NEW k \in Shown, UserKey(k) \in B
        PROVE  k <= n
    <3>1. CASE value_type # "kTypeDeletion" /\ UserKey(k) = s
      <4>1. UserKey(n) <= s
        BY <1>7, <1>13, <2>2, <3>1
      <4>2. UserKey(n) = UserKey(k)
        BY <1>8, <1>13, <2>2, <3>1, <4>1
      <4> QED BY <1>8, <2>2, <2>3, <4>2
    <3> QED BY <1>6, <2>3, <3>1
  <2>4. \A k \in Vis : k < n => k <= n
    BY <1>8, <2>2
  <2>5. \A k \in Vis : k < n => UserKey(k) \in B
    BY <1>6, <1>13, <2>4
  <2>6. CASE Type(n) = "kTypeDeletion"
    <3>1. ASSUME NEW k \in Shown, UserKey(k) \in B
          PROVE  k < n
      BY <1>8, <2>2, <2>3, <2>6, <3>1
    <3>2. value_type' = "kTypeDeletion"
      BY <1>13, <2>6
    <3>3. BackwardFrom(B)'
      BY <1>3, <2>1, <2>5, <3>1, <3>2, BackwardSet
    <3> QED BY <1>9, <1>13, <3>3
  <2>7. CASE Type(n) # "kTypeDeletion"
    <3>1. /\ Type(n) = "kTypeValue" /\ value_type' = "kTypeValue"
          /\ saved_key_' = UserKey(n) /\ saved_value_' = Sequence(n)
      BY <1>13, <2>2, <2>7 DEF EntryTypes
    <3>2. ASSUME NEW k \in Shown, UserKey(k) \in B
          PROVE  k < n \/ UserKey(k) = UserKey(n)
      BY <1>8, <2>2, <2>3, <3>2
    <3>3. /\ \A k \in Vis : UserKey(k) < UserKey(n) => k < n
          /\ \A k \in Vis : k < n => UserKey(k) <= UserKey(n)
          /\ \A k \in Vis : UserKey(k) = UserKey(n) /\ ~(k < n) => n <= k
      BY <1>8, <1>13, <2>2, <2>4
    <3>4. BackwardFrom(B)'
      BY <1>3, <2>1, <2>2, <2>5, <3>1, <3>2, <3>3, BackwardSet
    <3> QED BY <1>9, <1>13, <3>4
  <2> QED BY <2>6, <2>7
<1>14. CASE /\ n # NULL /\ ~Visible(n) /\ IterPrev
            /\ UNCHANGED <<direction_, saved_key_, saved_value_, value_type, pc, from>>
  <2>1. \A k : Behind(k)' <=> k < n
    BY <1>4, <1>14, PrevMoves
  <2>2. n \notin Vis
    BY <1>14 DEF Vis
  <2>3. \A k \in Vis : Behind(k)' <=> Behind(k)
    BY <1>5, <1>8, <1>14, <2>1, <2>2
  <2>4. BackwardFrom(B)'
    BY <1>2, <1>3, <1>14, <2>3, BackwardKept
  <2> QED BY <1>9, <1>14, <2>4
<1> QED BY <1>4, <1>11, <1>12, <1>13, <1>14 DEF FindPrevUserEntry, BeforeSaved
-----------------------------------------------------------------------------
(***************************************************************************)
(* The beginnings of the operations.                                       *)
(***************************************************************************)
LEMMA AtIs ==
    ASSUME IInv, MapInv, pc = "idle"
    PROVE  /\ At # None <=> valid_
           /\ valid_ => \E k \in Shown : At = <<UserKey(k), Sequence(k)>>
<1>1. Shown \subseteq Inserted
  BY DEF Shown, Vis
<1>2. \A k \in Shown : UserKey(k) \in Nat /\ Sequence(k) \in Nat
  BY <1>1, EntryOrder
<1>3. valid_ => \E k \in Shown : At = <<UserKey(k), Sequence(k)>>
  <2> SUFFICES ASSUME valid_ PROVE \E k \in Shown : At = <<UserKey(k), Sequence(k)>>
    OBVIOUS
  <2>1. CASE direction_ = "kForward"
    <3>1. node_ \in Shown
      BY <2>1 DEF MapInv, RestInv
    <3> QED BY <2>1, <3>1 DEF At
  <2>2. CASE direction_ = "kReverse"
    <3>1. PICK k \in Shown : UserKey(k) = saved_key_ /\ Sequence(k) = saved_value_
      BY <2>2 DEF MapInv, RestInv
    <3> QED BY <2>2, <3>1 DEF At
  <2> QED BY <2>1, <2>2 DEF IInv, IterType
<1>4. At # None <=> valid_
  <2>1. valid_ => At \in Nat \X Nat
    BY <1>2, <1>3
  <2>2. ~valid_ => At = None
    BY DEF At
  <2> QED BY <2>1, <2>2, NoneAssumption
<1> QED BY <1>3, <1>4

LEMMA FromBegun ==
    ASSUME IInv, MapInv, NEW label, Begin(label), label # "idle",
           Shown' = Shown, \A k : UserKey(k)' = UserKey(k) /\ Sequence(k)' = Sequence(k),
           value_type' = "kTypeDeletion"
    PROVE  FromInv' /\ Position' = Position
<1>1. pc = "idle" /\ pc' = label /\ from' = At
  BY DEF Begin
<1>2. from' # None => \E k \in Shown' : from' = <<UserKey(k)', Sequence(k)'>>
  BY <1>1, AtIs
<1>3. FromInv'
  BY <1>1, <1>2 DEF FromInv
<1>4. Position' = Position
  BY <1>1 DEF Position
<1> QED BY <1>3, <1>4

LEMMA SeekMap ==
    ASSUME IInv, IInv', ReachInv, MapInv, SeekToFirst \/ \E u \in UserKeys : Seek(u)
    PROVE  MapInv' /\ Position' = Position
<1>1. /\ Begin("FindNextUserEntry") /\ skipping' = FALSE /\ value_type' = value_type
      /\ direction_' = "kForward" /\ pc = "idle" /\ pc' = "FindNextUserEntry" /\ sequence_ > 0
  BY DEF SeekToFirst, Seek, FindNext, Begin
<1>2. /\ Vis' = Vis /\ Shown' = Shown /\ UNCHANGED <<stores, inserting, types>>
      /\ \A k : UserKey(k)' = UserKey(k) /\ Sequence(k)' = Sequence(k) /\ Type(k)' = Type(k)
  BY <1>1, StepKeeps DEF User
<1>3. value_type' = "kTypeDeletion" /\ find = NoFind
  BY <1>1 DEF MapInv, FromInv, IInv, AtRest
<1>4. FromInv' /\ Position' = Position
  BY <1>1, <1>2, <1>3, FromBegun
<1>5. ASSUME NEW b \in Nat, LowerBound(b)', \A k \in Vis : Ahead(k)' <=> UserKey(k) >= b,
             find' # NoFind => find'.op = "FindGreaterOrEqual"
      PROVE  MapInv' /\ Position' = Position
  <2>1. ForwardFrom(b)'
    BY <1>1, <1>2, <1>5, ForwardSet
  <2>2. ForwardInv'
    BY <1>1, <1>5, <2>1 DEF ForwardInv, NoFind, head_
  <2> QED BY <1>1, <1>4, <2>2 DEF MapInv, TurnInv, BackwardInv, RestInv
<1>6. CASE SeekToFirst
  <2>1. find' = NoFind /\ \A k \in Vis : Ahead(k)'
    BY <1>2, <1>3, <1>6, FirstMoves DEF SeekToFirst
  <2>2. \A k \in Vis : UserKey(k) >= 0
    BY VisOrder
  <2>3. LowerBound(0)'
    BY DEF LowerBound
  <2> QED BY <1>5, <2>1, <2>2, <2>3
<1>7. ASSUME NEW u \in UserKeys, Seek(u)
      PROVE  MapInv' /\ Position' = Position
  <2>1. StartFind("FindGreaterOrEqual", InternalKey(u, sequence_)) /\ "FindGreaterOrEqual" \in Searches
    BY <1>7 DEF Seek, IterSeek, Searches
  <2>2. /\ find'.op = "FindGreaterOrEqual"
        /\ \A k : Ahead(k)' <=> k >= InternalKey(u, sequence_)
    BY <2>1, SearchMoves
  <2>3. \A k \in Vis : Ahead(k)' <=> UserKey(k) >= u
    BY <1>1, <2>2, EntriesFrom
  <2>4. u \in Nat /\ LowerBound(u)'
    BY UserKeysAssumption DEF LowerBound
  <2> QED BY <1>5, <2>2, <2>3, <2>4
<1> QED BY <1>6, <1>7

LEMMA LastMap ==
    ASSUME IInv, IInv', ReachInv, MapInv, SeekToLast
    PROVE  MapInv' /\ Position' = Position
<1>1. /\ Begin("FindPrevUserEntry") /\ value_type' = "kTypeDeletion" /\ IterSeekToLast
      /\ pc' = "FindPrevUserEntry"
  BY DEF SeekToLast, FindPrev, Begin
<1>2. /\ Vis' = Vis /\ Shown' = Shown
      /\ \A k : UserKey(k)' = UserKey(k) /\ Sequence(k)' = Sequence(k) /\ Type(k)' = Type(k)
  BY <1>1, StepKeeps DEF User
<1>3. FromInv' /\ Position' = Position
  BY <1>1, <1>2, FromBegun
<1>4. "FindLast" \in Searches /\ StartFind("FindLast", 0)
  BY <1>1 DEF Searches, IterSeekToLast
<1>5. find'.op = "FindLast" /\ \A k : Behind(k)'
  BY <1>4, SearchMoves
<1>6. BackwardFrom(UserKeys)'
  <2>1. \A k \in Vis : UserKey(k) \in UserKeys
    BY VisOrder
  <2> QED BY <1>1, <1>2, <1>5, <2>1, BackwardSet
<1>7. BackwardInv'
  BY <1>5, <1>6 DEF BackwardInv, KeysUpTo
<1> QED BY <1>1, <1>3, <1>7 DEF MapInv, ForwardInv, TurnInv, RestInv

LEMMA NextMap ==
    ASSUME IInv, IInv', ReachInv, MapInv, MoveNext
    PROVE  MapInv' /\ Position' = Position
<1>1. /\ Begin("FindNextUserEntry") /\ skipping' = TRUE /\ value_type' = value_type
      /\ direction_' = "kForward" /\ pc = "idle" /\ pc' = "FindNextUserEntry" /\ valid_
      /\ from' = At
  BY DEF MoveNext, FindNext, Begin
<1>2. /\ Vis' = Vis /\ Shown' = Shown /\ UNCHANGED <<stores, inserting, types>>
      /\ \A k : UserKey(k)' = UserKey(k) /\ Sequence(k)' = Sequence(k) /\ Type(k)' = Type(k)
  BY <1>1, StepKeeps DEF User
<1>3. value_type' = "kTypeDeletion" /\ find = NoFind
  BY <1>1 DEF MapInv, FromInv, IInv, AtRest
<1>4. FromInv' /\ Position' = Position
  BY <1>1, <1>2, <1>3, FromBegun
<1>5. PICK n, s : n = node_ /\ s = saved_key_'
  OBVIOUS
<1>6. At # None
  BY <1>1, AtIs
<1>7. \A k \in Vis : UserKey(k) \in Nat /\ k \in Nat
  BY VisOrder
<1>8. ASSUME At[1] = s, s \in Nat, find' = NoFind,
             \A k \in Vis : Ahead(k)' => UserKey(k) >= s,
             \A k \in Vis : UserKey(k) > s => Ahead(k)'
      PROVE  MapInv' /\ Position' = Position
  <2>1. PICK b \in Nat : b = s + 1
    BY <1>8
  <2>2. LowerBound(b)'
    BY <1>1, <1>6, <1>8, <2>1 DEF LowerBound
  <2>3. \A k \in Vis : (UserKey(k) >= b <=> UserKey(k) > s) /\ (UserKey(k) <= s <=> ~(UserKey(k) > s))
    BY <1>7, <1>8, <2>1
  <2>4. Shown \subseteq Vis
    BY DEF Shown
  <2>5. ForwardFrom(b)'
    BY <1>1, <1>2, <1>5, <1>8, <2>3, <2>4, ForwardSet
  <2>6. ForwardInv'
    BY <1>1, <1>8, <2>2, <2>5 DEF ForwardInv, NoFind, head_
  <2> QED BY <1>1, <1>4, <2>6 DEF MapInv, TurnInv, BackwardInv, RestInv
<1>9. CASE direction_ # "kReverse"
  <2>1. direction_ = "kForward" /\ saved_key_' = UserKey(n) /\ UNCHANGED iteratorVars
    BY <1>5, <1>9 DEF MoveNext, IInv, IterType
  <2>2. n \in Shown /\ n \in Vis
    BY <1>1, <1>5, <2>1 DEF MapInv, RestInv, Shown
  <2>3. s = UserKey(n) /\ s \in Nat /\ At[1] = s
    BY <1>1, <1>5, <1>7, <2>1, <2>2 DEF At
  <2>4. find' = NoFind /\ node_' = n
    BY <1>3, <1>5, <2>1 DEF iteratorVars
  <2>5. \A k : Ahead(k)' <=> n # NULL /\ k >= n
    BY <2>4 DEF Ahead, NoFind, head_, NULL
  <2>6. /\ \A k \in Vis : n <= k => UserKey(n) <= UserKey(k)
        /\ \A k \in Vis : k <= n => UserKey(k) <= UserKey(n)
    BY <2>2, VisOrder
  <2>7. \A k \in Vis : Ahead(k)' => UserKey(k) >= s
    BY <1>7, <2>2, <2>3, <2>5, <2>6
  <2>8. n # NULL
    BY <1>7, <2>2 DEF NULL
  <2>9. \A k \in Vis : UserKey(k) > s => Ahead(k)'
    BY <1>7, <2>2, <2>3, <2>5, <2>6, <2>8
  <2> QED BY <1>8, <2>3, <2>4, <2>7, <2>9
<1>10. CASE direction_ = "kReverse"
  <2>1. /\ IF n = NULL THEN IterSeekToFirst ELSE IterNext
        /\ saved_key_' = saved_key_
    BY <1>5, <1>10 DEF MoveNext
  <2>2. /\ \A k \in Vis : Behind(k) <=> UserKey(k) < s
        /\ \E k \in Shown : UserKey(k) = s
    BY <1>1, <1>5, <1>10, <2>1 DEF MapInv, RestInv
  <2>3. s \in Nat /\ At[1] = s
    BY <1>1, <1>5, <1>7, <1>10, <2>1, <2>2 DEF At, Shown
  <2>4. \A k : Behind(k) <=> n # NULL /\ k <= n
    BY <1>3, <1>5 DEF Behind
  <2>5. find' = NoFind /\ \A k \in Vis : Ahead(k)' <=> UserKey(k) >= s
    <3>1. CASE n = NULL
      <4>1. find' = NoFind /\ \A k \in Vis : Ahead(k)'
        BY <1>2, <1>3, <2>1, <3>1, FirstMoves
      <4> QED BY <1>7, <2>2, <2>3, <2>4, <3>1, <4>1
    <3>2. CASE n # NULL
      <4>1. find' = NoFind /\ \A k \in Vis : Ahead(k)' <=> k > n
        BY <1>2, <1>3, <1>5, <2>1, <3>2, NextMoves
      <4>2. n \in Nat
        BY <1>5, <3>2, VisOrder
      <4> QED BY <1>7, <2>2, <2>3, <2>4, <3>2, <4>1, <4>2
    <3> QED BY <3>1, <3>2
  <2>6. \A k \in Vis : UserKey(k) > s => UserKey(k) >= s
    BY <1>7, <2>3
  <2> QED BY <1>8, <2>3, <2>5, <2>6
<1> QED BY <1>9, <1>10

LEMMA PrevMap ==
    ASSUME IInv, IInv', ReachInv, MapInv, MovePrev
    PROVE  MapInv' /\ Position' = Position
<1>1. valid_ /\ pc = "idle" /\ pc' # "idle" /\ UNCHANGED direction_
  BY DEF MovePrev, FindPrev, Begin
<1>2. /\ Vis' = Vis /\ Shown' = Shown
      /\ \A k : UserKey(k)' = UserKey(k) /\ Sequence(k)' = Sequence(k) /\ Type(k)' = Type(k)
  BY <1>1, StepKeeps DEF User
<1>3. value_type = "kTypeDeletion" /\ find = NoFind
  BY <1>1 DEF MapInv, FromInv, IInv, AtRest
<1>4. At # None
  BY <1>1, AtIs
<1>5. PICK n : n = node_
  OBVIOUS
<1>6. CASE direction_ = "kForward"
  <2>1. /\ Begin("Prev") /\ saved_key_' = UserKey(n) /\ IterPrev /\ value_type' = value_type
        /\ pc' = "Prev" /\ from' = At
    BY <1>5, <1>6 DEF MovePrev, Begin
  <2>2. FromInv' /\ Position' = Position
    BY <1>2, <1>3, <2>1, FromBegun
  <2>3. n \in Shown /\ n \in Vis /\ n \in Nat
    BY <1>1, <1>5, <1>6, VisOrder DEF MapInv, RestInv, Shown
  <2>4. from'[1] = UserKey(n)
    BY <1>1, <1>5, <1>6, <2>1 DEF At
  <2>5. find'.op = "FindLessThan" /\ \A k : Behind(k)' <=> k < n
    BY <1>5, <2>1, PrevMoves
  <2>6. ASSUME NEW k \in Vis, UserKey(k) < UserKey(n)
        PROVE  k < n
    <3>1. n <= k => UserKey(n) <= UserKey(k)
      BY <2>3, VisOrder
    <3>2. k \in Nat /\ UserKey(k) \in Nat /\ UserKey(n) \in Nat
      BY <2>3, VisOrder
    <3> QED BY <2>3, <2>6, <3>1, <3>2
  <2>7. \A k \in Vis' : UserKey(k)' < saved_key_' => Behind(k)'
    BY <1>2, <2>1, <2>5, <2>6
  <2>8. TurnInv'
    BY <1>1, <1>4, <1>6, <2>1, <2>4, <2>5, <2>7 DEF TurnInv
  <2> QED BY <2>1, <2>2, <2>8 DEF MapInv, ForwardInv, BackwardInv, RestInv
<1>7. CASE direction_ # "kForward"
  <2>1. /\ Begin("FindPrevUserEntry") /\ value_type' = "kTypeDeletion"
        /\ UNCHANGED <<saved_key_, iteratorVars>> /\ pc' = "FindPrevUserEntry" /\ from' = At
    BY <1>7 DEF MovePrev, FindPrev, Begin
  <2>2. FromInv' /\ Position' = Position
    BY <1>2, <2>1, FromBegun
  <2>3. direction_ = "kReverse"
    BY <1>7 DEF IInv, IterType
  <2>4. \A k \in Vis : Behind(k) <=> UserKey(k) < saved_key_
    BY <1>1, <2>3 DEF MapInv, RestInv
  <2>5. find' = NoFind /\ node_' = node_
    BY <1>3, <2>1 DEF iteratorVars
  <2>6. \A k : Behind(k)' <=> Behind(k)
    BY <1>3, <2>5 DEF Behind, NoFind, head_, NULL
  <2>7. PICK B : B = {u \in UserKeys : u < saved_key_}
    OBVIOUS
  <2>8. /\ \A k \in Vis : Behind(k) => UserKey(k) \in B
        /\ \A k \in Shown : UserKey(k) \in B => Behind(k)
    BY <2>4, <2>7, VisOrder
  <2>9. BackwardFrom(B)'
    BY <1>2, <2>1, <2>6, <2>8, BackwardSet
  <2>10. At[1] = saved_key_
    BY <1>1, <1>7 DEF At
  <2>11. KeysUpTo(B)'
    BY <1>4, <2>1, <2>7, <2>10 DEF KeysUpTo
  <2>12. BackwardInv'
    BY <2>5, <2>9, <2>11 DEF BackwardInv, NoFind, head_
  <2> QED BY <2>1, <2>2, <2>12 DEF MapInv, ForwardInv, TurnInv, RestInv
<1> QED BY <1>6, <1>7

LEMMA SnapshotType == IInv => Snapshot \in [UserKeys -> Nat \cup {None}]
BY ShownIs

LEMMA NewIteratorMap ==
    ASSUME IInv, IInv', MapInv, NewIterator
    PROVE  MapInv' /\ Map!Next
<1>1. pc = "idle" /\ pc' = pc /\ from' = from /\ valid_' = FALSE /\ value_type' = value_type
  BY DEF NewIterator
<1>2. MapInv'
  BY <1>1 DEF MapInv, ForwardInv, TurnInv, BackwardInv, RestInv, FromInv
<1>3. (IInv => Snapshot \in [UserKeys -> Nat \cup {None}])'
  BY SnapshotType, PTL
<1>4. Snapshot' \in [UserKeys -> Nat \cup {None}]
  BY <1>3
<1>5. (IF pc = "idle" THEN At ELSE from)' = None
  BY <1>1 DEF At
<1>6. Map!NewIterator
  BY <1>4, <1>5, Zenon DEF Map!NewIterator
<1> QED BY <1>2, <1>6 DEF Map!Next

-----------------------------------------------------------------------------
LEMMA MapStep ==
    ASSUME IInv, IInv', ReachInv, MapInv, [Next]_vars
    PROVE  MapInv' /\ [Map!Next]_(Map!vars)
<1>1. FromInv
  BY DEF MapInv
<1>2. ASSUME Snapshot' = Snapshot, Position' = Position
      PROVE  UNCHANGED Map!vars
  BY <1>2 DEF Map!vars, Position
<1>3. ASSUME User \/ Iterate, pc # "idle" \/ pc' # "idle"
      PROVE  Snapshot' = Snapshot
  BY <1>3, StepKeeps
<1>4. ASSUME Vis' = Vis, Shown' = Shown, \A k \in Vis : Type(k)' = Type(k), Snapshot' = Snapshot,
             UNCHANGED <<dbIterVars, find, node_>>
      PROVE  MapInv' /\ UNCHANGED Map!vars
  <2>1. MapInv'
    BY <1>4, MapKept
  <2>2. Position' = Position
    BY <1>4 DEF Position, At, UserKey, Sequence, dbIterVars
  <2> QED BY <1>2, <1>4, <2>1, <2>2
<1>5. ASSUME Vis' = Vis, \A s \in 1..Len(types) : types'[s] = types[s]
      PROVE  /\ Shown' = Shown /\ Snapshot' = Snapshot
             /\ \A k \in Vis : Type(k)' = Type(k)
  <2>1. Shown' = Shown /\ Snapshot' = Snapshot
    BY <1>5, SnapshotKept
  <2>2. \A k \in Vis : Sequence(k) \in 1..Len(types)
    BY EntryOrder DEF Vis
  <2> QED BY <1>5, <2>1, <2>2 DEF Type, Sequence
<1>6. CASE \/ \E u \in UserKeys, type \in {"kTypeValue", "kTypeDeletion"}, height \in 1..MaxHeight :
                  Add(u, type, height)
           \/ Insert \/ Publish
  <2>1. /\ Vis' = Vis /\ \A s \in 1..Len(types) : types'[s] = types[s]
        /\ UNCHANGED <<node_, find, dbIterVars>>
    BY <1>6, WriterKeeps DEF EntryTypes
  <2>2. MapInv' /\ UNCHANGED Map!vars
    BY <1>4, <1>5, <2>1
  <2> QED BY <2>2
<1>7. CASE UNCHANGED vars
  <2>1. UNCHANGED <<stores, sequence_, types, dbIterVars, find, node_>>
    BY <1>7 DEF vars, iteratorVars, writeVars, dbIterVars
  <2>2. Vis' = Vis /\ \A s \in 1..Len(types) : types'[s] = types[s]
    BY <2>1 DEF Vis, Inserted, Visible, Sequence, head_
  <2>3. MapInv' /\ UNCHANGED Map!vars
    BY <1>4, <1>5, <2>1, <2>2
  <2> QED BY <2>3
<1>8. CASE NewIterator
  BY <1>8, NewIteratorMap
<1>9. CASE SeekToFirst \/ SeekToLast \/ (\E u \in UserKeys : Seek(u)) \/ MoveNext \/ MovePrev
  <2>1. MapInv' /\ Position' = Position
    BY <1>9, SeekMap, LastMap, NextMap, PrevMap
  <2>2. pc' # "idle"
    BY <1>9 DEF SeekToFirst, SeekToLast, Seek, MoveNext, MovePrev, FindNext, FindPrev, Begin
  <2>3. UNCHANGED Map!vars
    BY <1>2, <1>3, <1>9, <2>1, <2>2 DEF User
  <2> QED BY <2>1, <2>3
<1>10. CASE Searching
  <2>1. FindStep /\ UNCHANGED <<stores, inserting, types, dbIterVars>>
    BY <1>10 DEF Searching, writeVars
  <2>2. pc # "idle" /\ find # NoFind
    BY <2>1 DEF FindStep, IInv, AtRest
  <2>3. Vis' = Vis /\ Shown' = Shown /\ \A k : Type(k)' = Type(k)
    BY <1>10, <2>2, StepKeeps DEF Iterate
  <2>4. /\ find.op = "FindGreaterOrEqual" => \A k \in Vis : Ahead(k)' <=> Ahead(k)
        /\ find.op # "FindGreaterOrEqual" => \A k \in Vis : Behind(k)' <=> Behind(k)
        /\ find' # NoFind => find'.op = find.op
    BY <2>1, SearchKeeps
  <2>5. MapInv'
    BY <2>1, <2>2, <2>3, <2>4, MapKept
  <2>6. Position' = Position
    BY <2>1, <2>2 DEF Position, dbIterVars
  <2>7. UNCHANGED Map!vars
    BY <1>2, <1>3, <1>10, <2>2, <2>6 DEF Iterate
  <2> QED BY <2>5, <2>7
<1>11. CASE FindNextUserEntry
  <2>1. pc # "idle"
    BY <1>11 DEF FindNextUserEntry, Arrived
  <2>2. Snapshot' = Snapshot
    BY <1>3, <1>11, <2>1 DEF Iterate
  <2>3. MapInv' /\ (Position' = Position
                    \/ \E b \in Nat : LowerBound(b) /\ LeastFrom(Position', b))
    BY <1>11, FindNextMap
  <2>4. Position' = Position \/ Map!Next
    BY <1>1, <2>1, <2>2, <2>3, MovesForward
  <2> QED BY <1>2, <2>2, <2>3, <2>4
<1>12. CASE TurnRound \/ FindPrevUserEntry
  <2>1. pc # "idle"
    BY <1>12 DEF TurnRound, FindPrevUserEntry, Arrived
  <2>2. Snapshot' = Snapshot
    BY <1>3, <1>12, <2>1 DEF Iterate
  <2>3. MapInv' /\ (Position' = Position
                    \/ \E B : KeysUpTo(B) /\ GreatestIn(Position', B))
    BY <1>12, TurnMap, FindPrevMap
  <2>4. Position' = Position \/ Map!Next
    BY <1>1, <2>1, <2>2, <2>3, MovesBackward
  <2> QED BY <1>2, <2>2, <2>3, <2>4
<1> QED BY <1>6, <1>7, <1>8, <1>9, <1>10, <1>11, <1>12 DEF Next, User, Iterate

LEMMA MapStart ==
    ASSUME Init, IInv
    PROVE  MapInv /\ Map!Init
<1>1. pc = "idle" /\ valid_ = FALSE /\ from = None /\ value_type = "kTypeDeletion" /\ stores = <<>>
  BY DEF Init, ListInit
<1>2. MapInv
  BY <1>1 DEF MapInv, ForwardInv, TurnInv, BackwardInv, RestInv, FromInv
<1>3. Inserted = {}
  BY <1>1, EmptySeq DEF Inserted
<1>4. \A u : VisibleTo(u) = {}
  BY <1>3 DEF VisibleTo
<1>5. Snapshot = [u \in UserKeys |-> None]
  BY <1>4 DEF Snapshot
<1>6. (IF pc = "idle" THEN At ELSE from) = None
  BY <1>1 DEF At
<1> QED BY <1>2, <1>5, <1>6, Zenon DEF Map!Init

(***************************************************************************)
(* Whatever is written meanwhile, whatever of it the reader's processor    *)
(* sees and in whatever direction the iterator is driven, it moves over    *)
(* the map of its snapshot: FindNextUserEntry, FindPrevUserEntry and the   *)
(* turns in Next and Prev leave out no key, and show no entry that is      *)
(* newer than the snapshot, overwritten or deleted.                        *)
(***************************************************************************)
THEOREM IteratesOverTheSnapshot == Spec => MovesOverTheSnapshot
<1>1. Init => IInv /\ ReachInv /\ MapInv /\ Map!Init
  BY InitIInv, ReachInit, MapStart
<1>2. IInv /\ ReachInv /\ MapInv /\ [Next]_vars
      => IInv' /\ ReachInv' /\ MapInv' /\ [Map!Next]_(Map!vars)
  BY IInvStep, ReachStep, MapStep
<1> QED BY <1>1, <1>2, PTL DEF Spec, MovesOverTheSnapshot, Map!Spec
=============================================================================
