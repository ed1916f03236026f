--------------------------- MODULE LogFormatProofs ---------------------------
(***************************************************************************)
(* Theorems about LogFormat, for every size of blocks and records, every   *)
(* initial_offset, and every order of crashes, failed appends and damages. *)
(***************************************************************************)
EXTENDS LogFormat, SequenceTheorems, FiniteOrders

-----------------------------------------------------------------------------
(***************************************************************************)
(* The file.                                                               *)
(***************************************************************************)
WriterType ==
    /\ size \in Nat
    /\ block_offset_ \in 0..Closed /\ left \in Nat \cup {-1} /\ part \in Nat
    /\ written \in Seq([start : Nat \cup {-1}, complete : BOOLEAN])
    /\ Len(written) <= MaxRecords /\ reading \in {"no", "yes", "done"}
    /\ left # -1 => Len(written) > 0 /\ block_offset_ # Closed

\* g goes on with the record of f where f ends, or behind the trailer of its block.
GoesOn(g, f) ==
    /\ g.rec = f.rec /\ g.nth = f.nth + 1 /\ f.type \in {"first", "middle"}
    /\ End(f) <= g.at /\ g.at < End(f) + HeaderSize

Precedes(f, g) == f.rec < g.rec \/ (f.rec = g.rec /\ f.nth < g.nth)

\* Fragments F of a file of length s: each starts within the file, is there as a whole if
\* it is intact, and is the first of its record or goes on with it; they are in the order
\* in which they were written, and an intact one ends before the next begins.
GoodFile(F, s) ==
    /\ F \subseteq FragmentType
    /\ \A f \in F : /\ f.at < s /\ (f.state = "intact" => End(f) <= s)
                    /\ f.type \in {"full", "first"} <=> f.nth = 1
                    /\ f.nth > 1 => \E g \in F : GoesOn(f, g)
    /\ \A f, g \in F : /\ f.at = g.at => f = g
                       /\ f.at < g.at => /\ Precedes(f, g)
                                         /\ f.state = "intact" => End(f) <= g.at

\* The record that the Writer is in the middle of is the last one, and the file ends with
\* what there is of it.
UnderWay ==
    /\ \A f \in fragments :
          /\ f.rec <= Len(written)
          /\ left # -1 /\ f.rec = Len(written) => f.nth <= part
    /\ left # -1 /\ part > 0 =>
          \E f \in fragments : /\ f.rec = Len(written) /\ f.nth = part /\ End(f) = size
                               /\ f.type \in {"first", "middle"}

FileInv == WriterType /\ GoodFile(fragments, size) /\ UnderWay

LEMMA FragmentIs ==
    ASSUME NEW f \in FragmentType
    PROVE  /\ f = [at |-> f.at, len |-> f.len, type |-> f.type, rec |-> f.rec,
                   nth |-> f.nth, state |-> f.state]
           /\ f.at \in Nat /\ f.len \in Nat /\ f.nth \in Nat \ {0}
           /\ f.rec \in Nat /\ f.rec \in 1..MaxRecords
           /\ f.type \in {"full", "first", "middle", "last"}
           /\ f.state \in {"intact", "payload", "header"}
           /\ End(f) \in Nat /\ f.at + 7 <= End(f)
BY BoundsAssumption DEF FragmentType, End, HeaderSize

LEMMA WrittenIs ==
    ASSUME WriterType
    PROVE  Len(written) \in Nat
BY LenProperties DEF WriterType

\* What EmitPhysicalRecord appends.
LEMMA NewFragmentIs ==
    ASSUME WriterType, left # -1, NEW f, f = NewFragment
    PROVE  /\ f \in FragmentType /\ f.state = "intact"
           /\ f.rec = Len(written) /\ f.nth = part + 1
           /\ size <= f.at /\ f.at < size + HeaderSize
           /\ f.type \in {"full", "first"} <=> part = 0
           /\ f.type \in {"full", "last"} <=> f.len = left
           /\ f.len <= left
           /\ BlockOffsetAfter(f) \in 0..BlockSize
<1> DEFINE leftover == BlockSize - block_offset_
           skip  == IF Trailer(leftover) THEN leftover ELSE 0
           start == IF Trailer(leftover) THEN 0 ELSE block_offset_
           avail == BlockSize - start - HeaderSize
           len   == IF left < avail THEN left ELSE avail
           type  == IF part = 0 THEN IF len = left THEN "full" ELSE "first"
                    ELSE IF len = left THEN "last" ELSE "middle"
<1>1. f = [at |-> size + skip, len |-> len, type |-> type, rec |-> Len(written),
           nth |-> part + 1, state |-> "intact"]
  BY DEF NewFragment, Fragment
<1>2. /\ BlockSize \in Nat /\ BlockSize > 7 /\ left \in Nat /\ part \in Nat /\ size \in Nat
      /\ block_offset_ \in Nat /\ block_offset_ <= BlockSize
  BY BlockAssumption DEF WriterType, Closed, HeaderSize
<1>3. skip \in Nat /\ skip < 7 /\ start \in Nat /\ start + 7 <= BlockSize
  BY <1>2 DEF Trailer, HeaderSize
<1>4. /\ avail \in Nat /\ len \in Nat /\ len <= left /\ len <= avail
      /\ start + 7 + avail = BlockSize
  <2> HIDE DEF start
  <2> QED BY <1>2, <1>3 DEF HeaderSize
<1>5. /\ type \in {"full", "first", "middle", "last"}
      /\ type \in {"full", "first"} <=> part = 0
      /\ type \in {"full", "last"} <=> len = left
  OBVIOUS
<1>6. Len(written) \in 1..MaxRecords
  BY WrittenIs, BoundsAssumption DEF WriterType
<1>7. BlockOffsetAfter(f) = start + 7 + f.len
  BY DEF BlockOffsetAfter, HeaderSize
<1> HIDE DEF leftover, skip, start, avail, len, type
<1>8. BlockOffsetAfter(f) \in 0..BlockSize
  <2>1. f.len = len
    BY <1>1
  <2> QED BY <1>2, <1>3, <1>4, <1>7, <2>1
<1>9. f \in FragmentType
  <2>1. size + skip \in Nat /\ part + 1 \in Nat \ {0}
    BY <1>2, <1>3
  <2> QED BY <1>1, <1>4, <1>5, <1>6, <2>1 DEF FragmentType
<1>10. size <= f.at /\ f.at < size + HeaderSize
  <2>1. f.at = size + skip
    BY <1>1
  <2> QED BY <1>2, <1>3, <2>1 DEF HeaderSize
<1> QED BY <1>1, <1>4, <1>5, <1>8, <1>9, <1>10

\* A fragment is added.
LEMMA GoodWithMore ==
    ASSUME NEW F, NEW s \in Nat, GoodFile(F, s), NEW f \in FragmentType, f.state = "intact",
           s <= f.at, \A g \in F : Precedes(g, f),
           f.type \in {"full", "first"} <=> f.nth = 1,
           f.nth > 1 => \E g \in F : GoesOn(f, g)
    PROVE  GoodFile(F \cup {f}, End(f))
<1>1. /\ f.at \in Nat /\ End(f) \in Nat /\ f.at < End(f) /\ End(f) <= End(f)
  BY FragmentIs
<1>2. ASSUME NEW g \in F
      PROVE  /\ g.at \in Nat /\ End(g) \in Nat /\ g.at < f.at
             /\ g.at < End(f) /\ (g.state = "intact" => End(g) <= f.at)
             /\ (g.state = "intact" => End(g) <= End(f))
  <2>1. /\ g \in FragmentType /\ g.at < s /\ (g.state = "intact" => End(g) <= s)
    BY DEF GoodFile
  <2> QED BY <1>1, <2>1, FragmentIs
<1>3. F \cup {f} \subseteq FragmentType
  BY DEF GoodFile
<1>4. \A g \in F \cup {f} : /\ g.at < End(f) /\ (g.state = "intact" => End(g) <= End(f))
                            /\ g.type \in {"full", "first"} <=> g.nth = 1
                            /\ g.nth > 1 => \E h \in F \cup {f} : GoesOn(g, h)
  BY <1>1, <1>2 DEF GoodFile
<1>5. \A g, h \in F \cup {f} :
          /\ g.at = h.at => g = h
          /\ g.at < h.at => /\ Precedes(g, h)
                            /\ g.state = "intact" => End(g) <= h.at
  <2>1. \A g \in F : g.at # f.at /\ ~(f.at < g.at)
    BY <1>1, <1>2
  <2>2. ~(f.at < f.at)
    BY <1>1
  <2> QED BY <1>2, <2>1, <2>2 DEF GoodFile
<1> QED BY <1>3, <1>4, <1>5 DEF GoodFile

\* The file is cut: what a fragment becomes.
CutOne(n, f) ==
    IF End(f) <= n \/ f.state = "header" THEN f
    ELSE IF f.at + HeaderSize <= n THEN [f EXCEPT !.state = "payload"]
    ELSE [f EXCEPT !.state = "header"]

\* g is f, or f damaged.
DamagedTo(f, g) ==
    /\ g \in FragmentType
    /\ g.at = f.at /\ g.len = f.len /\ g.type = f.type /\ g.rec = f.rec /\ g.nth = f.nth
    /\ g.state = "intact" => f.state = "intact"

LEMMA CutOneIs ==
    ASSUME NEW f \in FragmentType, NEW n \in Nat
    PROVE  /\ DamagedTo(f, CutOne(n, f))
           /\ CutOne(n, f).state = "intact" => End(f) <= n
<1>1. f.state \in {"intact", "payload", "header"}
  BY FragmentIs
<1>2. [f EXCEPT !.state = "payload"] \in FragmentType
      /\ [f EXCEPT !.state = "header"] \in FragmentType
  BY DEF FragmentType
<1>3. \A s : /\ [f EXCEPT !.state = s].at = f.at /\ [f EXCEPT !.state = s].len = f.len
             /\ [f EXCEPT !.state = s].type = f.type /\ [f EXCEPT !.state = s].rec = f.rec
             /\ [f EXCEPT !.state = s].nth = f.nth /\ [f EXCEPT !.state = s].state = s
  BY DEF FragmentType
<1> QED BY <1>1, <1>2, <1>3 DEF CutOne, DamagedTo

LEMMA DamagedIs ==
    ASSUME NEW f \in FragmentType, NEW g, DamagedTo(f, g)
    PROVE  End(g) = End(f)
BY DEF DamagedTo, End

\* Some fragments at the end are lost, the others may be damaged.
LEMMA GoodWithLess ==
    ASSUME NEW F, NEW s \in Nat, GoodFile(F, s), NEW n \in Nat, NEW m, NEW G,
           \A g \in G : \E f \in F : g = m[f],
           \A f \in F : /\ DamagedTo(f, m[f])
                        /\ m[f] \in G <=> f.at < n
                        /\ m[f].state = "intact" => End(f) <= n
    PROVE  GoodFile(G, n)
<1>1. ASSUME NEW f \in F
      PROVE  /\ f \in FragmentType /\ f.at \in Nat /\ End(f) \in Nat
             /\ m[f].at = f.at /\ m[f].rec = f.rec /\ m[f].nth = f.nth /\ m[f].type = f.type
             /\ End(m[f]) = End(f) /\ m[f] \in FragmentType
             /\ m[f].state = "intact" => f.state = "intact"
  BY FragmentIs, DamagedIs DEF GoodFile, DamagedTo
<1>2. G \subseteq FragmentType
  BY <1>1
<1>3. ASSUME NEW g \in G
      PROVE  /\ g.at < n /\ (g.state = "intact" => End(g) <= n)
             /\ g.type \in {"full", "first"} <=> g.nth = 1
             /\ g.nth > 1 => \E h \in G : GoesOn(g, h)
  <2>1. PICK f \in F : g = m[f]
    OBVIOUS
  <2>2. f.at < n
    BY <2>1
  <2>3. ASSUME g.nth > 1
        PROVE  \E h \in G : GoesOn(g, h)
    <3>1. PICK e \in F : GoesOn(f, e)
      BY <1>1, <2>1, <2>3 DEF GoodFile
    <3>2. e.at < n
      <4>1. e.at + 7 <= End(e) /\ End(e) <= f.at
        BY <1>1, <3>1, FragmentIs DEF GoesOn
      <4> QED BY <1>1, <2>2, <4>1
    <3>3. m[e] \in G /\ GoesOn(g, m[e])
      BY <1>1, <2>1, <3>1, <3>2 DEF GoesOn
    <3> QED BY <3>3
  <2> QED BY <1>1, <2>1, <2>2, <2>3 DEF GoodFile
<1>4. ASSUME NEW g \in G, NEW h \in G
      PROVE  /\ g.at = h.at => g = h
             /\ g.at < h.at => /\ Precedes(g, h)
                               /\ g.state = "intact" => End(g) <= h.at
  <2>1. PICK f \in F : g = m[f]
    OBVIOUS
  <2>2. PICK e \in F : h = m[e]
    OBVIOUS
  <2>3. /\ f.at = e.at => f = e
        /\ f.at < e.at => /\ Precedes(f, e)
                          /\ f.state = "intact" => End(f) <= e.at
    BY DEF GoodFile
  <2> QED BY <1>1, <2>1, <2>2, <2>3 DEF Precedes
<1> QED BY <1>2, <1>3, <1>4 DEF GoodFile

LEMMA GoodWhenCut ==
    ASSUME NEW F, NEW s \in Nat, GoodFile(F, s), NEW n \in Nat
    PROVE  /\ GoodFile(CutAt(n, F), n)
           /\ \A g \in CutAt(n, F) : \E f \in F : DamagedTo(f, g)
<1> DEFINE m == [f \in F |-> CutOne(n, f)]
           G == {CutOne(n, f) : f \in {g \in F : g.at < n}}
<1>1. CutAt(n, F) = G
  BY DEF CutAt, CutOne
<1>2. \A f \in F : /\ m[f] = CutOne(n, f) /\ DamagedTo(f, m[f])
                   /\ m[f].state = "intact" => End(f) <= n
  BY CutOneIs DEF GoodFile
<1>3. \A g \in G : \E f \in F : g = m[f]
  BY <1>2
<1>4. \A f \in F : m[f] \in G <=> f.at < n
  <2> SUFFICES ASSUME NEW f \in F, m[f] \in G PROVE f.at < n
    BY <1>2
  <2>1. PICK e \in F : e.at < n /\ m[f] = CutOne(n, e)
    OBVIOUS
  <2>2. m[e] = CutOne(n, e)
    BY <1>2
  <2> HIDE DEF m
  <2> QED BY <1>2, <2>1, <2>2 DEF DamagedTo
<1> HIDE DEF m, G
<1>5. GoodFile(G, n)
  BY <1>2, <1>3, <1>4, GoodWithLess
<1> QED BY <1>1, <1>2, <1>3, <1>5

\* The storage damages fragments.
LEMMA GoodWhenDamaged ==
    ASSUME NEW F, NEW s \in Nat, GoodFile(F, s), NEW f \in F, NEW g, DamagedTo(f, g),
           g.state # "intact"
    PROVE  /\ GoodFile((F \ {f}) \cup {g}, s)
           /\ \A h \in (F \ {f}) \cup {g} : \E e \in F : DamagedTo(e, h)
<1> DEFINE m == [e \in F |-> IF e = f THEN g ELSE e]
           G == (F \ {f}) \cup {g}
<1>1. \A e \in F : m[e] = IF e = f THEN g ELSE e
  OBVIOUS
<1>2. \A h \in G : \E e \in F : h = m[e]
  <2> SUFFICES ASSUME NEW h \in G PROVE \E e \in F : h = m[e]
    OBVIOUS
  <2>1. CASE h = g
    <3>1. m[f] = h
      BY <1>1, <2>1
    <3> HIDE DEF m
    <3> QED BY <3>1
  <2>2. CASE h # g
    <3>1. h \in F /\ m[h] = h
      BY <1>1, <2>2
    <3> HIDE DEF m
    <3> QED BY <3>1
  <2> QED BY <2>1, <2>2
<1>3. ASSUME NEW e \in F
      PROVE  /\ DamagedTo(e, m[e]) /\ m[e] \in G /\ e.at < s
             /\ m[e].state = "intact" => End(e) <= s
  <2>1. e \in FragmentType /\ e.at < s /\ (e.state = "intact" => End(e) <= s)
    BY DEF GoodFile
  <2>2. DamagedTo(e, e)
    BY <2>1 DEF DamagedTo
  <2>3. m[e] \in G
    BY <1>1
  <2> HIDE DEF m
  <2> QED BY <1>1, <2>1, <2>2, <2>3
<1>4. \A h \in G : \E e \in F : DamagedTo(e, h)
  <2> HIDE DEF m, G
  <2> QED BY <1>2, <1>3
<1> HIDE DEF m, G
<1>5. GoodFile(G, s)
  BY <1>2, <1>3, GoodWithLess
<1> QED BY <1>4, <1>5 DEF G

-----------------------------------------------------------------------------
(***************************************************************************)
(* The writer keeps the file good.                                         *)
(***************************************************************************)
\* A fragment of the record under way, behind all there are.
LEMMA Appended ==
    ASSUME FileInv, left # -1, NEW f, f = NewFragment
    PROVE  GoodFile(fragments \cup {f}, End(f))
<1>1. /\ f \in FragmentType /\ f.state = "intact"
      /\ f.rec = Len(written) /\ f.nth = part + 1
      /\ size <= f.at /\ f.at < size + HeaderSize
      /\ f.type \in {"full", "first"} <=> part = 0
  BY NewFragmentIs DEF FileInv
<1>2. size \in Nat /\ part \in Nat /\ Len(written) \in Nat
  BY WrittenIs DEF FileInv, WriterType
<1>3. ASSUME NEW g \in fragments
      PROVE  Precedes(g, f)
  <2>1. g.rec \in Nat /\ g.nth \in Nat
    BY FragmentIs DEF FileInv, GoodFile
  <2>2. g.rec <= Len(written) /\ (g.rec = Len(written) => g.nth <= part)
    BY DEF FileInv, UnderWay
  <2> QED BY <1>1, <1>2, <2>1, <2>2 DEF Precedes
<1>4. f.type \in {"full", "first"} <=> f.nth = 1
  BY <1>1, <1>2
<1>5. ASSUME f.nth > 1
      PROVE  \E g \in fragments : GoesOn(f, g)
  <2>1. part > 0
    BY <1>1, <1>2, <1>5
  <2>2. PICK g \in fragments : /\ g.rec = Len(written) /\ g.nth = part /\ End(g) = size
                               /\ g.type \in {"first", "middle"}
    BY <2>1 DEF FileInv, UnderWay
  <2> QED BY <1>1, <2>2 DEF GoesOn
<1> QED BY <1>1, <1>2, <1>3, <1>4, <1>5, GoodWithMore DEF FileInv

LEMMA FileAddRecord ==
    ASSUME FileInv, NEW n \in Sizes, AddRecord(n)
    PROVE  FileInv'
<1> DEFINE r == [start |-> -1, complete |-> FALSE]
<1>1. /\ left = -1 /\ left' = n /\ part' = 0 /\ written' = Append(written, r)
      /\ UNCHANGED <<fragments, size, block_offset_, reading>>
      /\ block_offset_ # Closed /\ Len(written) < MaxRecords /\ n \in Nat
  BY BoundsAssumption DEF AddRecord, fileVars, readerVars
<1>2. Len(written) \in Nat /\ MaxRecords \in Nat
  BY WrittenIs, BoundsAssumption DEF FileInv
<1>3. /\ written' \in Seq([start : Nat \cup {-1}, complete : BOOLEAN])
      /\ Len(written') = Len(written) + 1
  BY <1>1, AppendProperties DEF FileInv, WriterType
<1>4. WriterType'
  BY <1>1, <1>2, <1>3 DEF FileInv, WriterType, Closed
<1>5. UnderWay'
  <2>1. \A f \in fragments : f.rec \in Nat /\ f.rec <= Len(written)
    BY FragmentIs DEF FileInv, UnderWay, GoodFile
  <2> QED BY <1>1, <1>2, <1>3, <2>1 DEF UnderWay
<1> QED BY <1>1, <1>4, <1>5 DEF FileInv

LEMMA WrittenKept ==
    ASSUME FileInv, left # -1, NEW f, f = NewFragment, NEW b \in BOOLEAN,
           written' = [written EXCEPT ![Len(written)] = [start |-> RecordStart(f), complete |-> b]]
    PROVE  /\ written' \in Seq([start : Nat \cup {-1}, complete : BOOLEAN])
           /\ Len(written') = Len(written)
<1>1. Len(written) \in Nat /\ Len(written) > 0
  BY WrittenIs DEF FileInv, WriterType
<1>2. RecordStart(f) \in Nat \cup {-1}
  <2>1. f.at \in Nat
    BY NewFragmentIs, FragmentIs DEF FileInv
  <2>2. written[Len(written)] \in [start : Nat \cup {-1}, complete : BOOLEAN]
    <3>1. Len(written) \in 1..Len(written)
      BY <1>1
    <3> QED BY <3>1, ElementOfSeq DEF FileInv, WriterType
  <2>3. written[Len(written)].start \in Nat \cup {-1}
    BY <2>2
  <2> QED BY <2>1, <2>3 DEF RecordStart
<1>3. Len(written) \in 1..Len(written)
  BY <1>1
<1>4. [start |-> RecordStart(f), complete |-> b] \in [start : Nat \cup {-1}, complete : BOOLEAN]
  BY <1>2
<1> QED BY <1>3, <1>4, ExceptSeq DEF FileInv, WriterType

LEMMA FileEmit ==
    ASSUME FileInv, EmitPhysicalRecord
    PROVE  FileInv'
<1>1. PICK f : f = NewFragment
  OBVIOUS
<1>2. /\ left # -1 /\ left \in Nat /\ part \in Nat
      /\ fragments' = fragments \cup {f} /\ size' = End(f)
      /\ block_offset_' = BlockOffsetAfter(f)
      /\ left' = (IF left = f.len THEN -1 ELSE left - f.len)
      /\ written' = [written EXCEPT ![Len(written)] =
                        [start |-> RecordStart(f), complete |-> left = f.len]]
      /\ part' = part + 1 /\ reading' = reading
  BY <1>1 DEF EmitPhysicalRecord, readerVars, FileInv, WriterType
<1>3. /\ f \in FragmentType /\ f.rec = Len(written) /\ f.nth = part + 1
      /\ f.type \in {"full", "first"} <=> part = 0
      /\ f.type \in {"full", "last"} <=> f.len = left
      /\ f.len <= left
      /\ BlockOffsetAfter(f) \in 0..BlockSize
  BY <1>1, <1>2, NewFragmentIs DEF FileInv
<1>4. /\ f.len \in Nat /\ End(f) \in Nat
      /\ f.type \in {"full", "first", "middle", "last"}
  BY <1>3, FragmentIs
<1>5. /\ written' \in Seq([start : Nat \cup {-1}, complete : BOOLEAN])
      /\ Len(written') = Len(written)
  BY <1>1, <1>2, WrittenKept
<1>6. GoodFile(fragments, size)'
  BY <1>1, <1>2, Appended
<1>7. WriterType'
  <2>1. left' \in Nat \cup {-1}
    BY <1>2, <1>3, <1>4
  <2>2. block_offset_' \in 0..Closed /\ block_offset_' # Closed
    BY <1>2, <1>3, BlockAssumption DEF Closed
  <2> QED BY <1>2, <1>4, <1>5, <2>1, <2>2 DEF FileInv, WriterType, Closed
<1>8. UnderWay'
  <2>1. ASSUME NEW g \in fragments'
        PROVE  g.rec <= Len(written') /\ (g.rec = Len(written') => g.nth <= part')
    <3>1. CASE g \in fragments
      <4>1. g.nth \in Nat /\ g.rec <= Len(written) /\ (g.rec = Len(written) => g.nth <= part)
        BY <1>2, <3>1, FragmentIs DEF FileInv, UnderWay, GoodFile
      <4> QED BY <1>2, <1>5, <4>1
    <3>2. CASE g = f
      <4>1. Len(written) <= Len(written)
        BY WrittenIs DEF FileInv
      <4> QED BY <1>2, <1>3, <1>5, <3>2, <4>1
    <3> QED BY <1>2, <2>1, <3>1, <3>2
  <2>2. ASSUME left' # -1
        PROVE  /\ f.rec = Len(written') /\ f.nth = part' /\ End(f) = size'
               /\ f.type \in {"first", "middle"} /\ f \in fragments'
    BY <1>2, <1>3, <1>4, <1>5, <2>2
  <2> QED BY <2>1, <2>2 DEF UnderWay
<1> QED BY <1>6, <1>7, <1>8 DEF FileInv

LEMMA FileEmitFails ==
    ASSUME FileInv, EmitFails
    PROVE  FileInv'
<1>1. PICK f : f = NewFragment
  OBVIOUS
<1>2. /\ left # -1 /\ left' = -1 /\ part' = 0 /\ reading' = reading
      /\ \E n \in size..End(f) - 1 :
           /\ size' = n
           /\ fragments' = CutAt(n, fragments \cup {f})
           /\ block_offset_' = BlockOffsetAfter(f)
           /\ written' = [written EXCEPT ![Len(written)] =
                             [start |-> RecordStart(f), complete |-> FALSE]]
  BY <1>1 DEF EmitFails, readerVars
<1>3. PICK n \in size..End(f) - 1 :
           /\ size' = n
           /\ fragments' = CutAt(n, fragments \cup {f})
           /\ block_offset_' = BlockOffsetAfter(f)
           /\ written' = [written EXCEPT ![Len(written)] =
                             [start |-> RecordStart(f), complete |-> FALSE]]
  BY <1>2
<1>4. /\ f \in FragmentType /\ f.rec = Len(written) /\ BlockOffsetAfter(f) \in 0..BlockSize
  BY <1>1, <1>2, NewFragmentIs DEF FileInv
<1>5. n \in Nat /\ End(f) \in Nat
  BY <1>4, FragmentIs DEF FileInv, WriterType
<1>6. /\ written' \in Seq([start : Nat \cup {-1}, complete : BOOLEAN])
      /\ Len(written') = Len(written)
  BY <1>1, <1>2, <1>3, WrittenKept
<1>7. GoodFile(fragments \cup {f}, End(f))
  BY <1>1, <1>2, Appended
<1>8. GoodFile(fragments', size')
      /\ \A g \in fragments' : \E h \in fragments \cup {f} : DamagedTo(h, g)
  BY <1>3, <1>5, <1>7, GoodWhenCut
<1>9. WriterType'
  <2>1. block_offset_' \in 0..Closed
    BY <1>3, <1>4, BlockAssumption DEF Closed
  <2> QED BY <1>2, <1>3, <1>5, <1>6, <2>1 DEF FileInv, WriterType, Closed
<1>10. UnderWay'
  <2>1. \A h \in fragments \cup {f} : h.rec <= Len(written)
    <3>1. Len(written) <= Len(written)
      BY WrittenIs DEF FileInv
    <3> QED BY <1>4, <3>1 DEF FileInv, UnderWay
  <2> QED BY <1>2, <1>6, <1>8, <2>1 DEF UnderWay, DamagedTo
<1> QED BY <1>8, <1>9, <1>10 DEF FileInv

LEMMA FileCrash ==
    ASSUME FileInv, Crash
    PROVE  FileInv'
<1>1. PICK n \in 0..size :
           /\ size' = n /\ fragments' = CutAt(n, fragments)
           /\ written' = [i \in DOMAIN written |->
                  [written[i] EXCEPT !.complete =
                      @ /\ \A f \in fragments : f.rec = i => End(f) <= n]]
  BY DEF Crash
<1>2. left' = -1 /\ part' = 0 /\ block_offset_' = Closed /\ reading' = reading
  BY DEF Crash, readerVars
<1>3. n \in Nat /\ size \in Nat
  BY DEF FileInv, WriterType
<1>4. GoodFile(fragments', size')
      /\ \A g \in fragments' : \E h \in fragments : DamagedTo(h, g)
  BY <1>1, <1>3, GoodWhenCut DEF FileInv
<1>5. /\ written' \in Seq([start : Nat \cup {-1}, complete : BOOLEAN])
      /\ Len(written') = Len(written)
  <2> DEFINE T == [start : Nat \cup {-1}, complete : BOOLEAN]
  <2>1. /\ Len(written) \in Nat /\ DOMAIN written = 1..Len(written)
        /\ \A i \in 1..Len(written) : written[i] \in T
    BY WrittenIs, LenProperties, ElementOfSeq DEF FileInv, WriterType
  <2>2. ASSUME NEW i \in 1..Len(written), NEW b \in BOOLEAN
        PROVE  [written[i] EXCEPT !.complete = @ /\ b] \in T
    <3>1. written[i] \in T
      BY <2>1
    <3> QED BY <3>1
  <2>3. \A i \in 1..Len(written) : written'[i] \in T
    BY <1>1, <2>1, <2>2
  <2>4. DOMAIN written' = 1..Len(written) /\ written' = [i \in 1..Len(written) |-> written'[i]]
    BY <1>1, <2>1
  <2>5. written' \in [1..Len(written) -> T]
    <3> HIDE DEF T
    <3> QED BY <2>3, <2>4
  <2>6. written' \in Seq(T)
    <3> HIDE DEF T
    <3> QED BY <2>1, <2>5, SeqDef
  <2>7. Len(written') = Len(written)
    <3> HIDE DEF T
    <3> QED BY <2>1, <2>4, <2>6, LenProperties
  <2> QED BY <2>6, <2>7
<1>6. WriterType'
  <2>1. block_offset_' \in 0..Closed
    BY <1>2, BlockAssumption DEF Closed
  <2> QED BY <1>1, <1>2, <1>3, <1>5, <2>1 DEF FileInv, WriterType, Closed
<1>7. UnderWay'
  BY <1>2, <1>4, <1>5 DEF FileInv, UnderWay, DamagedTo
<1> QED BY <1>4, <1>6, <1>7 DEF FileInv

LEMMA FileReopen ==
    ASSUME FileInv, ReopenWriter
    PROVE  FileInv'
<1>1. /\ block_offset_' = OffsetOfReopened(size)
      /\ UNCHANGED <<fragments, size, left, part, written, reading>>
  BY DEF ReopenWriter, fileVars, readerVars
<1>2. OffsetOfReopened(size) \in 0..Closed /\ OffsetOfReopened(size) # Closed
  BY BlockAssumption DEF OffsetOfReopened, Closed, FileInv, WriterType, HeaderSize
<1> QED BY <1>1, <1>2 DEF FileInv, WriterType, UnderWay, Closed

LEMMA FileDamage ==
    ASSUME FileInv, Damage
    PROVE  FileInv'
<1>1. /\ left = -1 /\ UNCHANGED <<size, block_offset_, left, part, written, reading>>
      /\ \E f \in fragments, s \in {"payload", "header"} :
            fragments' = (fragments \ {f}) \cup {[f EXCEPT !.state = s]}
  BY DEF Damage, writerVars, readerVars
<1>2. PICK f \in fragments, s \in {"payload", "header"} :
            fragments' = (fragments \ {f}) \cup {[f EXCEPT !.state = s]}
  BY <1>1
<1>3. PICK g : g = [f EXCEPT !.state = s]
  OBVIOUS
<1>4. DamagedTo(f, g) /\ g.state # "intact"
  <2>1. f \in FragmentType
    BY DEF FileInv, GoodFile
  <2> QED BY <1>3, <2>1 DEF DamagedTo, FragmentType
<1>5. /\ GoodFile(fragments', size)
      /\ \A h \in fragments' : \E e \in fragments : DamagedTo(e, h)
  <2>1. fragments' = (fragments \ {f}) \cup {g} /\ size \in Nat
    BY <1>2, <1>3 DEF FileInv, WriterType
  <2> QED BY <1>4, <2>1, GoodWhenDamaged DEF FileInv
<1>6. WriterType'
  BY <1>1 DEF FileInv, WriterType, Closed
<1>7. UnderWay'
  BY <1>1, <1>5 DEF FileInv, UnderWay, DamagedTo
<1> QED BY <1>1, <1>5, <1>6, <1>7 DEF FileInv

\* Reading leaves the file and the Writer alone.
Reads == ReadRecord \/ \E offset \in Offsets : StartReading(offset)

LEMMA ReadsOnly ==
    ASSUME Reads
    PROVE  UNCHANGED <<fileVars, writerVars, events>> /\ reading' \in {"yes", "done", reading}
BY DEF Reads, ReadRecord, StartReading, ReadBlock, EndOfFile, WriterDied, BadLength,
       ZeroHeader, ChecksumMismatch, BadRecord, TooEarly, Resync, Assemble, Stop

LEMMA FileNext == FileInv /\ [Next]_vars => FileInv'
<1> SUFFICES ASSUME FileInv, [Next]_vars PROVE FileInv'
  OBVIOUS
<1>1. ASSUME UNCHANGED <<fileVars, writerVars>>, reading' \in {"yes", "done", reading}
      PROVE  FileInv'
  BY <1>1 DEF FileInv, fileVars, writerVars, WriterType, Closed, UnderWay
<1>2. CASE Write
  BY <1>2, FileAddRecord, FileEmit, FileEmitFails, FileReopen DEF Write
<1>3. CASE Reads
  BY <1>1, <1>3, ReadsOnly
<1>4. CASE UNCHANGED vars
  BY <1>1, <1>4 DEF vars, readerVars
<1> QED BY <1>2, <1>3, <1>4, FileCrash, FileDamage DEF Next, Reads

LEMMA FileInit == Init => FileInv
<1> SUFFICES ASSUME Init PROVE FileInv
  OBVIOUS
<1>1. /\ fragments = {} /\ size = 0 /\ block_offset_ = 0 /\ left = -1 /\ part = 0
      /\ written = <<>> /\ reading = "no"
  BY DEF Init
<1>2. /\ written \in Seq([start : Nat \cup {-1}, complete : BOOLEAN]) /\ Len(written) = 0
      /\ 0 \in 0..Closed /\ 0 <= MaxRecords
  BY <1>1, BlockAssumption, BoundsAssumption DEF Closed, HeaderSize
<1>3. WriterType
  BY <1>1, <1>2 DEF WriterType
<1> QED BY <1>1, <1>3 DEF FileInv, GoodFile, UnderWay

LEMMA FileInvariant == Spec => []FileInv
BY FileInit, FileNext, PTL DEF Spec

-----------------------------------------------------------------------------
(***************************************************************************)
(* No fragment crosses the end of a block.                                 *)
(***************************************************************************)
\* A block begins at b.
BlockStart(b) == \E q \in Nat : b = q * BlockSize

LEMMA BlockOfIs ==
    ASSUME NEW b \in Nat, BlockStart(b), NEW x \in Nat, b <= x, x < b + BlockSize
    PROVE  BlockOf(x) * BlockSize = b
<1>1. PICK q \in Nat : b = q * BlockSize
  BY DEF BlockStart
<1>2. BlockSize \in Nat \ {0}
  BY BlockAssumption DEF HeaderSize
<1>3. PICK d : d = x \div BlockSize
  OBVIOUS
<1>4. d \in Int /\ x % BlockSize \in 0..BlockSize - 1 /\ x = BlockSize * d + (x % BlockSize)
  BY <1>2, <1>3
<1>5. ~(d >= q + 1)
  <2> SUFFICES ASSUME d >= q + 1 PROVE FALSE
    OBVIOUS
  <2>1. BlockSize * d >= BlockSize * (q + 1)
    BY <1>2, <1>4
  <2>2. BlockSize * (q + 1) = q * BlockSize + BlockSize
    BY <1>2
  <2> QED BY <1>1, <1>2, <1>4, <2>1, <2>2
<1>6. ~(d <= q - 1)
  <2> SUFFICES ASSUME d <= q - 1 PROVE FALSE
    OBVIOUS
  <2>1. BlockSize * d <= BlockSize * (q - 1)
    BY <1>2, <1>4
  <2>2. BlockSize * (q - 1) = q * BlockSize - BlockSize
    BY <1>2
  <2> QED BY <1>1, <1>2, <1>4, <2>1, <2>2
<1>7. d = q
  BY <1>4, <1>5, <1>6
<1> QED BY <1>1, <1>3, <1>7 DEF BlockOf

LEMMA NextBlock ==
    ASSUME NEW b \in Nat, BlockStart(b)
    PROVE  b + BlockSize \in Nat /\ BlockStart(b + BlockSize)
<1>1. PICK q \in Nat : b = q * BlockSize
  BY DEF BlockStart
<1>2. BlockSize \in Nat
  BY BlockAssumption
<1>3. b + BlockSize = (q + 1) * BlockSize /\ q + 1 \in Nat
  BY <1>1, <1>2
<1> QED BY <1>2, <1>3 DEF BlockStart

\* The Writer knows where in its block the file ends.
KnowsOffset ==
    block_offset_ # Closed => \E b \in Nat : BlockStart(b) /\ size = b + block_offset_

\* f is within a block.
Fits(f) == \E b \in Nat : BlockStart(b) /\ b <= f.at /\ End(f) <= b + BlockSize

Kinds == {"append", "crash", "reopen", "damage"}

FitInv ==
    /\ events \in Seq(Kinds)
    /\ ~Happened("append") => KnowsOffset /\ \A f \in fragments : Fits(f)

LEMMA FitMeansFits ==
    ASSUME FileInv, FitInv
    PROVE  FitsInBlock
<1> SUFFICES ASSUME NEW f \in fragments, Fits(f)
             PROVE  BlockOf(f.at) = BlockOf(End(f) - 1)
  BY DEF FitsInBlock, FitInv
<1>1. PICK b \in Nat : BlockStart(b) /\ b <= f.at /\ End(f) <= b + BlockSize
  BY DEF Fits
<1>2. f.at \in Nat /\ End(f) \in Nat /\ f.at + 7 <= End(f)
  BY FragmentIs DEF FileInv, GoodFile
<1>3. BlockSize \in Nat /\ BlockSize > 7
  BY BlockAssumption DEF HeaderSize
<1>4. BlockOf(f.at) * BlockSize = b /\ BlockOf(End(f) - 1) * BlockSize = b
  BY <1>1, <1>2, <1>3, BlockOfIs
<1>5. BlockOf(f.at) \in Int /\ BlockOf(End(f) - 1) \in Int
  BY <1>2, <1>3 DEF BlockOf
<1>6. \A x, y \in Int : x * BlockSize = y * BlockSize => x = y
  BY <1>3
<1> QED BY <1>4, <1>5, <1>6

LEMMA EventKept ==
    ASSUME events \in Seq(Kinds), NEW kind \in Kinds, events' = Append(events, kind)
    PROVE  /\ events' \in Seq(Kinds)
           /\ \E i \in DOMAIN events' : events'[i] = kind
           /\ \A k : Happened(k) => \E i \in DOMAIN events' : events'[i] = k
<1>1. Len(events) \in Nat /\ DOMAIN events = 1..Len(events)
  BY LenProperties
<1>2. /\ events' \in Seq(Kinds) /\ Len(events') = Len(events) + 1
      /\ \A i \in 1..Len(events) : events'[i] = events[i]
      /\ events'[Len(events) + 1] = kind
  BY AppendProperties
<1>3. DOMAIN events' = 1..Len(events) + 1
  BY <1>2, LenProperties
<1>4. \E i \in DOMAIN events' : events'[i] = kind
  <2>1. Len(events) + 1 \in DOMAIN events'
    BY <1>1, <1>3
  <2> QED BY <1>2, <2>1
<1>5. \A k : Happened(k) => \E i \in DOMAIN events' : events'[i] = k
  <2>1. \A i \in DOMAIN events : i \in DOMAIN events' /\ events'[i] = events[i]
    BY <1>1, <1>2, <1>3
  <2> QED BY <2>1 DEF Happened
<1> QED BY <1>2, <1>4, <1>5

LEMMA FitEmit ==
    ASSUME FileInv, KnowsOffset, \A f \in fragments : Fits(f), EmitPhysicalRecord
    PROVE  KnowsOffset' /\ \A f \in fragments' : Fits(f)
<1>1. PICK f : f = NewFragment
  OBVIOUS
<1>2. /\ left # -1 /\ fragments' = fragments \cup {f} /\ size' = End(f)
      /\ block_offset_' = BlockOffsetAfter(f)
  BY <1>1 DEF EmitPhysicalRecord, FileInv, WriterType
<1>3. /\ f \in FragmentType /\ BlockOffsetAfter(f) \in 0..BlockSize
      /\ f.at \in Nat /\ End(f) \in Nat /\ End(f) = f.at + 7 + f.len /\ f.len \in Nat
  BY <1>1, <1>2, NewFragmentIs, FragmentIs DEF FileInv, End, HeaderSize
<1>4. /\ block_offset_ \in Nat /\ block_offset_ <= BlockSize /\ block_offset_ # Closed
      /\ BlockSize \in Nat
  BY <1>2, BlockAssumption DEF FileInv, WriterType, Closed
<1>5. PICK b \in Nat : BlockStart(b) /\ size = b + block_offset_
  BY <1>4 DEF KnowsOffset
<1>6. \E a \in Nat : BlockStart(a) /\ a <= f.at /\ End(f) = a + BlockOffsetAfter(f)
  <2>1. CASE Trailer(BlockSize - block_offset_)
    <3>1. f.at = size + (BlockSize - block_offset_) /\ BlockOffsetAfter(f) = 7 + f.len
      BY <1>1, <2>1 DEF NewFragment, Fragment, BlockOffsetAfter, HeaderSize
    <3>2. f.at = b + BlockSize /\ End(f) = (b + BlockSize) + BlockOffsetAfter(f)
      BY <1>3, <1>4, <1>5, <3>1
    <3>3. b + BlockSize \in Nat /\ BlockStart(b + BlockSize) /\ b + BlockSize <= f.at
      BY <1>3, <1>5, <3>2, NextBlock
    <3> QED BY <3>2, <3>3
  <2>2. CASE ~Trailer(BlockSize - block_offset_)
    <3>1. f.at = size + 0 /\ BlockOffsetAfter(f) = block_offset_ + 7 + f.len
      BY <1>1, <2>2 DEF NewFragment, Fragment, BlockOffsetAfter, HeaderSize
    <3>2. b <= f.at /\ End(f) = b + BlockOffsetAfter(f)
      BY <1>3, <1>4, <1>5, <3>1
    <3> QED BY <1>5, <3>2
  <2> QED BY <2>1, <2>2
<1>7. PICK a \in Nat : BlockStart(a) /\ a <= f.at /\ End(f) = a + BlockOffsetAfter(f)
  BY <1>6
<1>8. Fits(f)
  <2>1. End(f) <= a + BlockSize
    BY <1>3, <1>4, <1>7
  <2> QED BY <1>7, <2>1 DEF Fits
<1>9. KnowsOffset'
  BY <1>2, <1>7 DEF KnowsOffset, BlockStart
<1> QED BY <1>2, <1>8, <1>9

\* A damaged fragment is where it was.
LEMMA FitsWhenDamaged ==
    ASSUME NEW f \in FragmentType, NEW g, DamagedTo(f, g), Fits(f)
    PROVE  Fits(g)
BY DamagedIs DEF Fits, DamagedTo

LEMMA FitNext == FileInv /\ FitInv /\ [Next]_vars => FitInv'
<1> SUFFICES ASSUME FileInv, FitInv, [Next]_vars PROVE FitInv'
  OBVIOUS
<1>0. events \in Seq(Kinds)
  BY DEF FitInv
<1>1. \A f \in fragments : f \in FragmentType
  BY DEF FileInv, GoodFile
<1>2. ASSUME UNCHANGED <<fragments, size, block_offset_, events>>
      PROVE  FitInv'
  BY <1>2 DEF FitInv, Happened, KnowsOffset, Closed, BlockStart, Fits, End
<1>3. \A f : Fits(f)' <=> Fits(f)
  BY DEF Fits, BlockStart, End
<1>4. CASE Write
  <2>1. ASSUME NEW n \in Sizes, AddRecord(n)
        PROVE  FitInv'
    BY <1>2, <2>1 DEF AddRecord, fileVars
  <2>2. CASE EmitPhysicalRecord
    <3>1. events' = events
      BY <2>2 DEF EmitPhysicalRecord
    <3>2. CASE Happened("append")
      BY <3>1, <3>2 DEF FitInv, Happened
    <3>3. CASE ~Happened("append")
      BY <2>2, <3>1, <3>3, FitEmit DEF FitInv
    <3> QED BY <3>2, <3>3
  <2>3. CASE EmitFails
    <3>1. events' = Append(events, "append")
      BY <2>3 DEF EmitFails, Event
    <3>2. events' \in Seq(Kinds) /\ Happened("append")'
      BY <3>1, <1>0, EventKept DEF Happened, Kinds
    <3> QED BY <3>2 DEF FitInv
  <2>4. CASE ReopenWriter
    <3>1. /\ events' = Append(events, "reopen") /\ UNCHANGED <<fragments, size>>
          /\ block_offset_' = size % BlockSize
      BY <2>4 DEF ReopenWriter, Event, fileVars, OffsetOfReopened
    <3>2. events' \in Seq(Kinds) /\ (Happened("append") => Happened("append")')
      BY <3>1, <1>0, EventKept DEF Happened, Kinds
    <3>3. KnowsOffset'
      <4>1. size \in Nat /\ BlockSize \in Nat /\ BlockSize > 7
        BY BlockAssumption DEF FileInv, WriterType, HeaderSize
      <4>2. PICK d : d = size \div BlockSize
        OBVIOUS
      <4>3. d \in Nat /\ size = d * BlockSize + (size % BlockSize)
        BY <4>1, <4>2
      <4>4. d * BlockSize \in Nat /\ BlockStart(d * BlockSize)
        <5>1. d * BlockSize \in Nat
          BY <4>1, <4>3
        <5> QED BY <4>3, <5>1 DEF BlockStart
      <4>5. size' = d * BlockSize + block_offset_'
        BY <3>1, <4>3
      <4> QED BY <4>4, <4>5 DEF KnowsOffset, BlockStart
    <3> QED BY <1>3, <3>1, <3>2, <3>3 DEF FitInv
  <2> QED BY <1>4, <2>1, <2>2, <2>3, <2>4 DEF Write
<1>5. ASSUME events' = Append(events, "crash") \/ events' = Append(events, "damage"),
             \A g \in fragments' : \E f \in fragments : DamagedTo(f, g),
             block_offset_' = Closed \/ UNCHANGED <<block_offset_, size>>
      PROVE  FitInv'
  <2>1. events' \in Seq(Kinds) /\ (Happened("append") => Happened("append")')
    <3>1. CASE events' = Append(events, "crash")
      BY <3>1, <1>0, EventKept DEF Happened, Kinds
    <3>2. CASE events' = Append(events, "damage")
      BY <3>2, <1>0, EventKept DEF Happened, Kinds
    <3> QED BY <1>5, <3>1, <3>2
  <2>2. ASSUME \A f \in fragments : Fits(f)
        PROVE  \A g \in fragments' : Fits(g)
    BY <1>1, <1>5, <2>2, FitsWhenDamaged
  <2>3. KnowsOffset => KnowsOffset'
    BY <1>5 DEF KnowsOffset, Closed, BlockStart
  <2> QED BY <1>3, <2>1, <2>2, <2>3 DEF FitInv
<1>6. CASE Crash
  <2>1. PICK n \in 0..size : fragments' = CutAt(n, fragments)
    BY <1>6 DEF Crash
  <2>2. n \in Nat /\ size \in Nat
    BY DEF FileInv, WriterType
  <2>3. \A g \in fragments' : \E f \in fragments : DamagedTo(f, g)
    BY <2>1, <2>2, GoodWhenCut DEF FileInv
  <2> QED BY <1>5, <1>6, <2>3 DEF Crash, Event
<1>7. CASE Damage
  <2>1. PICK f \in fragments, s \in {"payload", "header"} :
            fragments' = (fragments \ {f}) \cup {[f EXCEPT !.state = s]}
    BY <1>7 DEF Damage
  <2>2. DamagedTo(f, [f EXCEPT !.state = s]) /\ \A e \in fragments : DamagedTo(e, e)
    BY <1>1 DEF DamagedTo, FragmentType
  <2>3. \A g \in fragments' : \E e \in fragments : DamagedTo(e, g)
    BY <2>1, <2>2
  <2> QED BY <1>5, <1>7, <2>3 DEF Damage, Event, writerVars
<1>8. CASE Reads
  BY <1>2, <1>8, ReadsOnly DEF fileVars, writerVars
<1>9. CASE UNCHANGED vars
  BY <1>2, <1>9 DEF vars, fileVars, writerVars
<1> QED BY <1>4, <1>6, <1>7, <1>8, <1>9 DEF Next, Reads

LEMMA FitInvariant == Spec => []FitInv
<1>1. Init => FitInv
  <2> SUFFICES ASSUME Init PROVE FitInv
    OBVIOUS
  <2>1. BlockStart(0)
    <3>1. 0 = 0 * BlockSize
      BY BlockAssumption
    <3> QED BY <3>1 DEF BlockStart
  <2>2. KnowsOffset
    <3>1. size = 0 + block_offset_
      BY DEF Init
    <3> QED BY <2>1, <3>1 DEF KnowsOffset
  <2> QED BY <2>2 DEF Init, FitInv
<1> QED BY <1>1, FileInvariant, FitNext, PTL DEF Spec

\* No fragment crosses the end of a block, in a file that crashes cut and that new Writers
\* go on with: Writer's block_offset_ is that of the end of the file, unless an append
\* fails, and a trailer is left where no header fits.
THEOREM FragmentsFitInBlocks == Spec => []FitsInBlock
<1>1. FileInv /\ FitInv => FitsInBlock
  BY FitMeansFits
<1> QED BY <1>1, FileInvariant, FitInvariant, PTL

-----------------------------------------------------------------------------
(***************************************************************************)
(* What the reader returns.                                                *)
(***************************************************************************)
ReaderType ==
    /\ pos \in Nat /\ end_of_buffer_offset_ \in Nat /\ pos <= end_of_buffer_offset_
    /\ eof_ \in BOOLEAN /\ resyncing_ \in BOOLEAN /\ in_fragmented_record \in BOOLEAN
    /\ scratch \in Seq(fragments) /\ out \in Seq(Seq(fragments))
    /\ reading = "no" => out = <<>> /\ scratch = <<>> /\ ~in_fragmented_record

\* g is the last fragment read, and no header fits into what lies between it and pos.
Behind(g) ==
    /\ End(g) <= pos /\ pos < End(g) + HeaderSize
    /\ pos # End(g) => eof_ \/ BufferSize >= HeaderSize

\* The beginning of one record, without a gap.
Begun(record) ==
    /\ record # <<>>
    /\ \A i \in DOMAIN record : record[i].rec = record[1].rec /\ record[i].nth = i

Collecting ==
    reading = "yes" /\ in_fragmented_record =>
        /\ ~resyncing_ /\ Begun(scratch)
        /\ scratch[Len(scratch)].type \in {"first", "middle"}
        /\ scratch[Len(scratch)].state = "intact" /\ Behind(scratch[Len(scratch)])
        /\ scratch[1].at < pos
        /\ \A i \in DOMAIN out : out[i][1].at < scratch[1].at

\* The records returned are whole, and lie in the file in their order.
Returning ==
    /\ \A i \in DOMAIN out : out[i] # <<>> /\ Whole(out[i]) /\ out[i][1].at < pos
    /\ \A i, j \in DOMAIN out : i < j => out[i][1].at < out[j][1].at

ReaderInv == ReaderType /\ Collecting /\ Returning

\* The first fragment of a record returned.
LEMMA FirstOfRecord ==
    ASSUME NEW F, NEW r \in Seq(F), r # <<>>
    PROVE  1 \in DOMAIN r /\ r[1] \in F /\ Len(r) \in Nat \ {0} /\ DOMAIN r = 1..Len(r)
<1>1. Len(r) \in Nat /\ DOMAIN r = 1..Len(r)
  BY LenProperties
<1>2. Len(r) # 0
  BY EmptySeq
<1> QED BY <1>1, <1>2, ElementOfSeq

LEMMA OutIs ==
    ASSUME FileInv, ReaderInv, NEW i \in DOMAIN out
    PROVE  /\ out[i] \in Seq(fragments) /\ out[i] # <<>> /\ out[i][1] \in fragments
           /\ out[i][1].at \in Nat /\ out[i][1].nth = 1 /\ out[i][1].rec \in Nat
<1>1. out[i] \in Seq(fragments) /\ out[i] # <<>>
  <2>1. i \in 1..Len(out)
    BY LenProperties DEF ReaderInv, ReaderType
  <2> QED BY <2>1, ElementOfSeq DEF ReaderInv, ReaderType, Returning
<1>2. 1 \in DOMAIN out[i] /\ out[i][1] \in fragments
  BY <1>1, FirstOfRecord
<1>3. out[i][1].nth = 1
  BY <1>2 DEF ReaderInv, Returning, Whole
<1> QED BY <1>1, <1>2, <1>3, FragmentIs DEF FileInv, GoodFile

\* Records that lie in the file in their order are in the order of their writing.
LEMMA WholeMeansInOrder == FileInv /\ ReaderInv => ReturnsWholeRecords
<1> SUFFICES ASSUME FileInv, ReaderInv PROVE ReturnsWholeRecords
  OBVIOUS
<1>1. ASSUME NEW i \in DOMAIN out, NEW j \in DOMAIN out, i < j
      PROVE  out[i][1].rec < out[j][1].rec
  <2>1. out[i][1].at < out[j][1].at
    BY <1>1 DEF ReaderInv, Returning
  <2>2. /\ out[i][1] \in fragments /\ out[j][1] \in fragments
        /\ out[i][1].nth = 1 /\ out[j][1].nth = 1
    BY OutIs
  <2>3. Precedes(out[i][1], out[j][1])
    BY <2>1, <2>2 DEF FileInv, GoodFile
  <2> QED BY <2>2, <2>3 DEF Precedes
<1> QED BY <1>1 DEF ReturnsWholeRecords, ReaderInv, Returning

\* The reader goes on, or drops what it has, and returns nothing.
LEMMA ReaderMoves ==
    ASSUME FileInv, ReaderInv, UNCHANGED <<fragments, out>>,
           pos' \in Nat, end_of_buffer_offset_' \in Nat,
           pos <= pos' \/ out = <<>>, pos' <= end_of_buffer_offset_',
           eof_' \in BOOLEAN, resyncing_' \in BOOLEAN, in_fragmented_record' \in BOOLEAN,
           scratch' = scratch \/ scratch' = <<>>, reading' # "no", Collecting'
    PROVE  ReaderInv'
<1>1. scratch' \in Seq(fragments)
  BY EmptySeq DEF ReaderInv, ReaderType
<1>2. ReaderType'
  BY <1>1 DEF ReaderInv, ReaderType
<1>3. Returning'
  <2>1. ASSUME NEW i \in DOMAIN out PROVE out[i][1].at < pos'
    <3>1. out # <<>>
      BY EmptySeq DEF ReaderInv, ReaderType
    <3>2. out[i][1].at \in Nat /\ out[i][1].at < pos /\ pos \in Nat
      BY OutIs DEF ReaderInv, Returning, ReaderType
    <3> QED BY <3>1, <3>2
  <2> QED BY <2>1 DEF ReaderInv, Returning
<1> QED BY <1>2, <1>3 DEF ReaderInv

LEMMA ReaderStarts ==
    ASSUME FileInv, ReaderInv, NEW offset \in Offsets, StartReading(offset)
    PROVE  ReaderInv'
<1>1. /\ out = <<>> /\ ~in_fragmented_record /\ eof_ \in BOOLEAN
      /\ in_fragmented_record \in BOOLEAN
  BY DEF StartReading, ReaderInv, ReaderType
<1>2. /\ pos' = InitialBlock(offset) /\ end_of_buffer_offset_' = InitialBlock(offset)
      /\ resyncing_' \in BOOLEAN /\ reading' = "yes"
      /\ UNCHANGED <<fragments, out, eof_, scratch, in_fragmented_record>>
  BY DEF StartReading, fileVars
<1>3. InitialBlock(offset) \in Nat
  <2>1. offset \in Nat /\ BlockSize \in Nat \ {0}
    BY BoundsAssumption, BlockAssumption DEF HeaderSize
  <2>2. PICK q : q = offset \div BlockSize
    OBVIOUS
  <2>3. q \in Nat /\ q + 1 \in Nat
    BY <2>1, <2>2
  <2>4. BlockSize * q \in Nat /\ BlockSize * (q + 1) \in Nat
    BY <2>1, <2>3
  <2> QED BY <2>2, <2>4 DEF InitialBlock, BlockOf
<1>4. Collecting'
  BY <1>1, <1>2 DEF Collecting
<1> QED BY <1>1, <1>2, <1>3, <1>4, ReaderMoves

\* A block is read behind the fragment read last, or behind the trailer after it.
LEMMA ReaderReadsBlock ==
    ASSUME FileInv, ReaderInv, ReadBlock
    PROVE  ReaderInv'
<1>1. PICK got : got = IF size <= end_of_buffer_offset_ THEN 0
                       ELSE IF size - end_of_buffer_offset_ < BlockSize
                            THEN size - end_of_buffer_offset_ ELSE BlockSize
  OBVIOUS
<1>2. /\ pos' = end_of_buffer_offset_ /\ end_of_buffer_offset_' = end_of_buffer_offset_ + got
      /\ eof_' = (got < BlockSize)
      /\ UNCHANGED <<fragments, out, resyncing_, scratch, in_fragmented_record, reading>>
      /\ BufferSize < HeaderSize /\ ~eof_ /\ reading = "yes"
  BY <1>1 DEF ReadBlock, fileVars, recordVars
<1>3. /\ size \in Nat /\ BlockSize \in Nat /\ BlockSize > 7 /\ pos \in Nat
      /\ end_of_buffer_offset_ \in Nat /\ pos <= end_of_buffer_offset_
      /\ resyncing_ \in BOOLEAN /\ in_fragmented_record \in BOOLEAN
  BY BlockAssumption DEF FileInv, WriterType, ReaderInv, ReaderType, HeaderSize
<1>4. got \in Nat /\ got <= BlockSize /\ end_of_buffer_offset_ - pos < 7
  BY <1>1, <1>2, <1>3 DEF BufferSize, HeaderSize
<1>5. /\ pos' \in Nat /\ pos <= pos' /\ end_of_buffer_offset_' \in Nat
      /\ pos' <= end_of_buffer_offset_' /\ eof_' \in BOOLEAN
      /\ ~eof_' => end_of_buffer_offset_' - pos' >= 7
  <2>1. eof_' \in BOOLEAN /\ (~eof_' => ~(got < BlockSize))
    <3>1. CASE got < BlockSize
      <4>1. eof_' = TRUE
        BY <1>2, <3>1, Zenon
      <4> QED BY <4>1
    <3>2. CASE ~(got < BlockSize)
      <4>1. (got < BlockSize) = FALSE
        BY <1>3, <1>4, <3>2
      <4>2. eof_' = FALSE
        BY <1>2, <4>1, Zenon
      <4> QED BY <3>2, <4>2
    <3> QED BY <3>1, <3>2
  <2> QED BY <1>2, <1>3, <1>4, <2>1
<1>6. Collecting'
  <2> SUFFICES ASSUME in_fragmented_record PROVE Collecting'
    BY <1>2 DEF Collecting
  <2>1. PICK g : g = scratch[Len(scratch)]
    OBVIOUS
  <2>2. /\ ~resyncing_ /\ Begun(scratch) /\ g.type \in {"first", "middle"}
        /\ g.state = "intact" /\ Behind(g) /\ scratch[1].at < pos
        /\ \A i \in DOMAIN out : out[i][1].at < scratch[1].at
    BY <1>2, <2>1 DEF ReaderInv, Collecting
  <2>3. pos = End(g)
    BY <1>2, <1>3, <2>2 DEF Behind, BufferSize, HeaderSize
  <2>4. End(g) <= pos' /\ pos' < End(g) + 7
    BY <1>2, <1>3, <1>4, <2>3
  <2>5. Behind(g)'
    BY <1>5, <2>4 DEF Behind, BufferSize, HeaderSize, End
  <2>6. scratch[1].at \in Nat
    <3>1. scratch[1] \in fragments
      BY <2>2, FirstOfRecord DEF Begun, ReaderInv, ReaderType
    <3> QED BY <3>1, FragmentIs DEF FileInv, GoodFile
  <2>7. scratch[1].at < pos'
    BY <1>3, <1>5, <2>2, <2>6
  <2> QED BY <1>2, <2>1, <2>2, <2>5, <2>7 DEF Collecting, Begun, Behind, End, BufferSize
<1> QED BY <1>2, <1>3, <1>5, <1>6, ReaderMoves
\* What was collected is dropped, or there was nothing.
LEMMA ReaderDrops ==
    ASSUME FileInv, ReaderInv,
           EndOfFile \/ WriterDied \/ BadLength \/ ZeroHeader \/ ChecksumMismatch
    PROVE  ReaderInv'
<1>1. /\ pos' = end_of_buffer_offset_ /\ scratch' = <<>>
      /\ UNCHANGED <<fragments, out, end_of_buffer_offset_, eof_>>
      /\ \/ reading' = "done" /\ UNCHANGED <<resyncing_, in_fragmented_record>>
         \/ reading' = "yes" /\ resyncing_' = FALSE /\ in_fragmented_record' = FALSE
  BY DEF EndOfFile, WriterDied, BadLength, ZeroHeader, ChecksumMismatch, BadRecord, Stop,
         fileVars, CanParse, AfterBlock, InFragmentedAfterBad
<1>2. /\ pos' \in Nat /\ end_of_buffer_offset_' \in Nat /\ pos <= pos'
      /\ pos' <= end_of_buffer_offset_' /\ eof_' \in BOOLEAN
  BY <1>1 DEF ReaderInv, ReaderType
<1>3. resyncing_' \in BOOLEAN /\ in_fragmented_record' \in BOOLEAN
  BY <1>1 DEF ReaderInv, ReaderType
<1>4. Collecting'
  BY <1>1 DEF Collecting
<1> QED BY <1>1, <1>2, <1>3, <1>4, ReaderMoves

LEMMA GoodIs ==
    ASSUME FileInv, ReaderInv, NEW f \in fragments, Good(f)
    PROVE  /\ f \in FragmentType /\ f.state = "intact" /\ f.at = pos /\ reading = "yes"
           /\ f.at < End(f) /\ End(f) <= end_of_buffer_offset_
           /\ f.at \in Nat /\ End(f) \in Nat /\ pos \in Nat
BY FragmentIs DEF Good, CanParse, FileInv, GoodFile, ReaderInv, ReaderType

\* A fragment is read, but not collected.
LEMMA ReaderSkips ==
    ASSUME FileInv, ReaderInv, NEW f \in fragments,
           TooEarly(f) \/ Resync(f) \/ (Assemble(f) /\ Continuation(f) /\ ~in_fragmented_record)
    PROVE  ReaderInv'
<1>1. /\ Good(f) /\ pos' = End(f) /\ reading' = reading
      /\ UNCHANGED <<fragments, out, end_of_buffer_offset_, eof_>>
      /\ scratch' = scratch \/ scratch' = <<>>
      /\ resyncing_' \in BOOLEAN
      /\ in_fragmented_record' = FALSE \/ in_fragmented_record' = in_fragmented_record
      /\ in_fragmented_record' => resyncing_
  BY DEF TooEarly, Resync, Assemble, Continuation, fileVars, InFragmentedAfterBad
<1>2. /\ pos' \in Nat /\ end_of_buffer_offset_' \in Nat /\ pos <= pos'
      /\ pos' <= end_of_buffer_offset_' /\ eof_' \in BOOLEAN /\ reading' = "yes"
  BY <1>1, GoodIs DEF ReaderInv, ReaderType
<1>3. in_fragmented_record' \in BOOLEAN
  BY <1>1 DEF ReaderInv, ReaderType
<1>4. ~in_fragmented_record'
  BY <1>1, GoodIs DEF ReaderInv, Collecting
<1>5. Collecting'
  BY <1>4 DEF Collecting
<1> QED BY <1>1, <1>2, <1>3, <1>5, ReaderMoves

\* Whoever goes on with a record finds its predecessor as the last fragment read.
LEMMA NothingBetween ==
    ASSUME FileInv, NEW f \in fragments, NEW g \in fragments, f.nth > 1,
           g.state = "intact", End(g) <= f.at, f.at < End(g) + HeaderSize
    PROVE  f.rec = g.rec /\ f.nth = g.nth + 1
<1>1. PICK h \in fragments : GoesOn(f, h)
  BY DEF FileInv, GoodFile
<1>2. /\ f.at \in Nat /\ g.at \in Nat /\ h.at \in Nat
      /\ f.rec \in Nat /\ g.rec \in Nat /\ h.rec \in Nat
      /\ f.nth \in Nat /\ g.nth \in Nat /\ h.nth \in Nat
      /\ End(g) \in Nat /\ End(h) \in Nat /\ g.at + 7 <= End(g) /\ h.at + 7 <= End(h)
  BY FragmentIs DEF FileInv, GoodFile
<1>3. f.rec = h.rec /\ f.nth = h.nth + 1 /\ End(h) <= f.at
  BY <1>1 DEF GoesOn
<1>4. ~(g.at < h.at)
  <2> SUFFICES ASSUME g.at < h.at PROVE FALSE
    OBVIOUS
  <2>1. End(g) <= h.at
    BY DEF FileInv, GoodFile
  <2> QED BY <1>2, <1>3, <2>1 DEF HeaderSize
<1>5. ~(h.at < g.at)
  <2> SUFFICES ASSUME h.at < g.at PROVE FALSE
    OBVIOUS
  <2>1. g.at < f.at
    BY <1>2
  <2>2. Precedes(h, g) /\ Precedes(g, f)
    BY <2>1 DEF FileInv, GoodFile
  <2> QED BY <1>2, <1>3, <2>2 DEF Precedes
<1>6. g = h
  <2>1. g.at = h.at
    BY <1>2, <1>4, <1>5
  <2> QED BY <2>1 DEF FileInv, GoodFile
<1> QED BY <1>3, <1>6

\* A record is returned that lies behind those returned before.
LEMMA ReaderReturns ==
    ASSUME FileInv, ReaderInv, NEW record \in Seq(fragments), out' = Append(out, record),
           UNCHANGED <<fragments, end_of_buffer_offset_, eof_>>,
           record # <<>>, Whole(record), \A i \in DOMAIN out : out[i][1].at < record[1].at,
           record[1].at < pos', pos' \in Nat, pos' <= end_of_buffer_offset_,
           reading' = "yes", resyncing_' = FALSE, scratch' = <<>>, in_fragmented_record' = FALSE
    PROVE  ReaderInv'
<1>1. /\ out \in Seq(Seq(fragments)) /\ Len(out) \in Nat /\ DOMAIN out = 1..Len(out)
  BY LenProperties DEF ReaderInv, ReaderType
<1>2. /\ out' \in Seq(Seq(fragments)) /\ Len(out') = Len(out) + 1
      /\ \A i \in 1..Len(out) : out'[i] = out[i]
      /\ out'[Len(out) + 1] = record
  BY <1>1, AppendProperties
<1>3. DOMAIN out' = 1..Len(out) + 1
  BY <1>2, LenProperties
<1>4. scratch' \in Seq(fragments)
  BY EmptySeq
<1>5. ReaderType'
  BY <1>2, <1>4 DEF ReaderInv, ReaderType
<1>6. record[1].at \in Nat
  BY FirstOfRecord, FragmentIs DEF FileInv, GoodFile
<1>7. ASSUME NEW i \in DOMAIN out'
      PROVE  out'[i] # <<>> /\ Whole(out'[i]) /\ out'[i][1].at < pos'
  <2>1. CASE i \in 1..Len(out)
    <3>1. out'[i] = out[i]
      BY <1>2, <2>1
    <3>2. out[i] # <<>> /\ Whole(out[i]) /\ out[i][1].at \in Nat /\ out[i][1].at < record[1].at
      BY <1>1, <2>1, OutIs DEF ReaderInv, Returning
    <3>3. out[i][1].at < pos'
      BY <1>6, <3>2
    <3> QED BY <1>1, <2>1, <3>1, <3>2, <3>3
  <2>2. CASE i = Len(out) + 1
    BY <1>2, <2>2
  <2> QED BY <1>1, <1>3, <2>1, <2>2
<1>8. ASSUME NEW i \in DOMAIN out', NEW j \in DOMAIN out', i < j
      PROVE  out'[i][1].at < out'[j][1].at
  <2>1. i \in 1..Len(out) /\ out'[i] = out[i]
    BY <1>1, <1>2, <1>3, <1>8
  <2>2. CASE j \in 1..Len(out)
    <3>1. out'[j] = out[j]
      BY <1>2, <2>2
    <3> QED BY <1>1, <1>8, <2>1, <2>2, <3>1 DEF ReaderInv, Returning
  <2>3. CASE j = Len(out) + 1
    BY <1>1, <1>2, <2>1, <2>3
  <2> QED BY <1>1, <1>3, <2>2, <2>3
<1>9. Returning'
  BY <1>7, <1>8 DEF Returning, Whole
<1>10. Collecting'
  BY DEF Collecting
<1> QED BY <1>5, <1>9, <1>10 DEF ReaderInv
\* The first fragment of a record, or all of it.
LEMMA ReaderBegins ==
    ASSUME FileInv, ReaderInv, NEW f \in fragments, Assemble(f), Beginning(f)
    PROVE  ReaderInv'
<1>1. /\ Good(f) /\ pos' = End(f) /\ reading' = reading /\ resyncing_' = FALSE
      /\ UNCHANGED <<fragments, end_of_buffer_offset_, eof_>>
      /\ f.type \in {"full", "first"}
      /\ f.type = "full" => /\ out' = Append(out, <<f>>) /\ scratch' = <<>>
                            /\ in_fragmented_record' = FALSE
      /\ f.type # "full" => /\ scratch' = <<f>> /\ in_fragmented_record' = TRUE
                            /\ out' = out
  BY DEF Assemble, Beginning, fileVars
<1>2. /\ f.state = "intact" /\ f.at = pos /\ reading = "yes" /\ f.at < End(f)
      /\ End(f) <= end_of_buffer_offset_ /\ f.at \in Nat /\ End(f) \in Nat
  BY <1>1, GoodIs
<1>3. f.nth = 1
  BY <1>1 DEF FileInv, GoodFile
<1>4. /\ <<f>> \in Seq(fragments) /\ <<f>> # <<>> /\ <<f>>[1] = f /\ DOMAIN <<f>> = {1}
      /\ Len(<<f>>) = 1
  OBVIOUS
<1>5. \A i \in DOMAIN out : out[i][1].at < f.at
  BY <1>2 DEF ReaderInv, Returning
<1>6. CASE f.type = "full"
  <2>1. Whole(<<f>>)
    BY <1>3, <1>4, <1>6 DEF Whole, Last
  <2> QED BY <1>1, <1>2, <1>4, <1>5, <1>6, <2>1, ReaderReturns
<1>7. CASE f.type = "first"
  <2>1. PICK s : s = <<f>>
    OBVIOUS
  <2>2. /\ scratch' = s /\ out' = out /\ in_fragmented_record' = TRUE
        /\ s \in Seq(fragments) /\ s # <<>> /\ s[1] = f /\ DOMAIN s = {1} /\ Len(s) = 1
    BY <1>1, <1>4, <1>7, <2>1
  <2>3. ReaderType'
    BY <1>1, <1>2, <2>2 DEF ReaderInv, ReaderType
  <2>4. Begun(s)
    BY <1>3, <2>2 DEF Begun
  <2>5. End(f) <= pos' /\ pos' < End(f) + 7 /\ pos' = End(f)
    BY <1>1, <1>2
  <2>6. Collecting'
    BY <1>1, <1>2, <1>5, <1>7, <2>2, <2>4, <2>5
    DEF Collecting, Begun, Behind, HeaderSize, End
  <2>7. Returning'
    <3>1. \A i \in DOMAIN out : out[i][1].at < pos'
      <4> SUFFICES ASSUME NEW i \in DOMAIN out PROVE out[i][1].at < pos'
        OBVIOUS
      <4>1. out[i][1].at \in Nat /\ out[i][1].at < f.at
        BY <1>5, OutIs
      <4> QED BY <1>1, <1>2, <4>1
    <3> QED BY <2>2, <3>1 DEF ReaderInv, Returning
  <2> QED BY <2>3, <2>6, <2>7 DEF ReaderInv
<1> QED BY <1>1, <1>6, <1>7

\* The next fragment of the record, or its last.
LEMMA ReaderContinues ==
    ASSUME FileInv, ReaderInv, NEW f \in fragments, Assemble(f), Continuation(f),
           in_fragmented_record
    PROVE  ReaderInv'
<1>1. /\ Good(f) /\ pos' = End(f) /\ reading' = reading /\ resyncing_' = FALSE
      /\ UNCHANGED <<fragments, end_of_buffer_offset_, eof_>>
      /\ f.type \in {"middle", "last"}
      /\ f.type = "middle" => /\ scratch' = Append(scratch, f) /\ out' = out
                              /\ in_fragmented_record' = in_fragmented_record
      /\ f.type # "middle" => /\ out' = Append(out, Append(scratch, f)) /\ scratch' = <<>>
                              /\ in_fragmented_record' = FALSE
  BY DEF Assemble, Continuation, fileVars
<1>2. /\ f \in FragmentType /\ f.state = "intact" /\ f.at = pos /\ reading = "yes"
      /\ f.at < End(f)
      /\ End(f) <= end_of_buffer_offset_ /\ f.at \in Nat /\ End(f) \in Nat /\ pos \in Nat
      /\ end_of_buffer_offset_ \in Nat
  BY <1>1, GoodIs DEF ReaderInv, ReaderType
<1>3. PICK g : g = scratch[Len(scratch)]
  OBVIOUS
<1>4. /\ Begun(scratch) /\ g.state = "intact" /\ Behind(g) /\ scratch[1].at < pos
      /\ \A i \in DOMAIN out : out[i][1].at < scratch[1].at
      /\ scratch \in Seq(fragments) /\ scratch # <<>>
  BY <1>2, <1>3 DEF ReaderInv, Collecting, ReaderType, Begun
<1>5. /\ 1 \in DOMAIN scratch /\ scratch[1] \in fragments
      /\ Len(scratch) \in Nat \ {0} /\ DOMAIN scratch = 1..Len(scratch)
  BY <1>4, FirstOfRecord
<1>6. /\ g \in fragments /\ g.rec = scratch[1].rec /\ g.nth = Len(scratch)
      /\ scratch[1].nth = 1 /\ scratch[1].at \in Nat
  <2>1. Len(scratch) \in 1..Len(scratch) /\ Len(scratch) \in DOMAIN scratch
    BY <1>5
  <2>2. g \in fragments
    BY <1>3, <1>4, <2>1, ElementOfSeq
  <2>3. g.rec = scratch[1].rec /\ g.nth = Len(scratch) /\ scratch[1].nth = 1
    BY <1>3, <1>4, <1>5, <2>1 DEF Begun
  <2>4. scratch[1].at \in Nat
    BY <1>5, FragmentIs DEF FileInv, GoodFile
  <2> QED BY <2>2, <2>3, <2>4
<1>7. f.rec = scratch[1].rec /\ f.nth = Len(scratch) + 1
  <2>1. f.nth > 1
    <3>1. f.nth # 1 /\ f.nth \in Nat \ {0}
      BY <1>1, <1>2, FragmentIs DEF FileInv, GoodFile
    <3> QED BY <3>1
  <2>2. End(g) <= f.at /\ f.at < End(g) + HeaderSize
    BY <1>2, <1>4 DEF Behind
  <2> QED BY <1>4, <1>6, <2>1, <2>2, NothingBetween
<1>8. PICK s : s = Append(scratch, f)
  OBVIOUS
<1>9. /\ s \in Seq(fragments) /\ Len(s) = Len(scratch) + 1
      /\ \A i \in 1..Len(scratch) : s[i] = scratch[i]
      /\ s[Len(scratch) + 1] = f
  BY <1>4, <1>8, AppendProperties
<1>10. DOMAIN s = 1..Len(scratch) + 1
  BY <1>9, LenProperties
<1>11. /\ s # <<>> /\ s[1] = scratch[1] /\ s[Len(s)] = f
  <2>1. Len(s) # 0
    BY <1>5, <1>9
  <2> QED BY <1>5, <1>9, <2>1, EmptySeq
<1>12. \A i \in DOMAIN s : s[i].rec = s[1].rec /\ s[i].nth = i
  <2> SUFFICES ASSUME NEW i \in 1..Len(scratch) + 1
               PROVE  s[i].rec = s[1].rec /\ s[i].nth = i
    BY <1>10
  <2>1. CASE i \in 1..Len(scratch)
    BY <1>4, <1>5, <1>9, <1>11, <2>1 DEF Begun
  <2>2. CASE i = Len(scratch) + 1
    BY <1>7, <1>9, <1>11, <2>2
  <2> QED BY <1>5, <2>1, <2>2
<1>13. s[1].at < pos'
  BY <1>1, <1>2, <1>4, <1>6, <1>11
<1>14. CASE f.type = "middle"
  <2>1. scratch' = s /\ out' = out /\ in_fragmented_record' = in_fragmented_record
    BY <1>1, <1>8, <1>14
  <2>2. ReaderType'
    BY <1>1, <1>2, <1>9, <2>1 DEF ReaderInv, ReaderType
  <2>3. End(f) <= pos' /\ pos' < End(f) + 7 /\ pos' = End(f)
    BY <1>1, <1>2
  <2>4. \A i \in DOMAIN out : out[i][1].at < s[1].at
    BY <1>4, <1>11
  <2>5. Begun(s)
    BY <1>11, <1>12 DEF Begun
  <2>6. Collecting'
    BY <1>1, <1>2, <1>11, <1>13, <1>14, <2>1, <2>3, <2>4, <2>5
    DEF Collecting, Begun, Behind, HeaderSize, End
  <2>7. Returning'
    <3>1. \A i \in DOMAIN out : out[i][1].at < pos'
      <4> SUFFICES ASSUME NEW i \in DOMAIN out PROVE out[i][1].at < pos'
        OBVIOUS
      <4>1. out[i][1].at \in Nat /\ out[i][1].at < pos
        BY OutIs DEF ReaderInv, Returning
      <4> QED BY <1>1, <1>2, <4>1
    <3> QED BY <2>1, <3>1 DEF ReaderInv, Returning
  <2> QED BY <2>2, <2>6, <2>7 DEF ReaderInv
<1>15. CASE f.type = "last"
  <2>1. /\ out' = Append(out, s) /\ scratch' = <<>> /\ in_fragmented_record' = FALSE
    BY <1>1, <1>8, <1>15
  <2>2. Whole(s)
    BY <1>11, <1>12, <1>15 DEF Whole, Last
  <2>3. \A i \in DOMAIN out : out[i][1].at < s[1].at
    BY <1>4, <1>11
  <2> QED BY <1>1, <1>2, <1>9, <1>11, <1>13, <2>1, <2>2, <2>3, ReaderReturns
<1> QED BY <1>1, <1>14, <1>15

LEMMA ReaderNext == FileInv /\ ReaderInv /\ [Next]_vars => ReaderInv'
<1> SUFFICES ASSUME FileInv, ReaderInv, [Next]_vars PROVE ReaderInv'
  OBVIOUS
<1>1. CASE Write \/ Crash \/ Damage
  <2>1. /\ reading = "no"
        /\ UNCHANGED <<reading, pos, end_of_buffer_offset_, eof_, resyncing_, scratch,
                       in_fragmented_record, out>>
    BY <1>1 DEF Write, AddRecord, EmitPhysicalRecord, EmitFails, ReopenWriter, Crash, Damage,
                readerVars, bufferVars, recordVars
  <2>2. out = <<>> /\ scratch = <<>> /\ ~in_fragmented_record
    BY <2>1 DEF ReaderInv, ReaderType
  <2>3. out' \in Seq(Seq(fragments')) /\ scratch' \in Seq(fragments') /\ DOMAIN out' = {}
    BY <2>1, <2>2
  <2>4. ReaderType'
    BY <2>1, <2>2, <2>3 DEF ReaderInv, ReaderType
  <2> QED BY <2>1, <2>3, <2>4 DEF ReaderInv, Collecting, Returning
<1>2. CASE ReadRecord
  <2>1. ASSUME NEW f \in fragments, Assemble(f)
        PROVE  ReaderInv'
    <3>1. Beginning(f) \/ Continuation(f)
      BY <2>1 DEF Assemble
    <3>2. CASE Continuation(f) /\ ~in_fragmented_record
      BY <2>1, <3>2, ReaderSkips
    <3> QED BY <2>1, <3>1, <3>2, ReaderBegins, ReaderContinues
  <2> QED BY <1>2, <2>1, ReaderReadsBlock, ReaderDrops, ReaderSkips DEF ReadRecord
<1>3. CASE UNCHANGED vars
  BY <1>3 DEF vars, fileVars, readerVars, bufferVars, recordVars, ReaderInv, ReaderType,
              Collecting, Returning, Begun, Behind, End, BufferSize, Whole
<1> QED BY <1>1, <1>2, <1>3, ReaderStarts DEF Next

LEMMA ReaderInvariant == Spec => []ReaderInv
<1>1. Init => ReaderInv
  <2> SUFFICES ASSUME Init PROVE ReaderInv
    OBVIOUS
  <2>1. /\ pos = 0 /\ end_of_buffer_offset_ = 0 /\ eof_ = FALSE /\ resyncing_ = FALSE
        /\ in_fragmented_record = FALSE /\ scratch = <<>> /\ out = <<>> /\ reading = "no"
    BY DEF Init
  <2>2. out \in Seq(Seq(fragments)) /\ scratch \in Seq(fragments) /\ DOMAIN out = {}
    BY <2>1
  <2>3. /\ eof_ \in BOOLEAN /\ resyncing_ \in BOOLEAN /\ in_fragmented_record \in BOOLEAN
        /\ pos \in Nat /\ end_of_buffer_offset_ \in Nat /\ pos <= end_of_buffer_offset_
    <3>1. eof_ \in BOOLEAN /\ resyncing_ \in BOOLEAN /\ in_fragmented_record \in BOOLEAN
      BY <2>1, Zenon
    <3> QED BY <2>1, <3>1
  <2>4. ReaderType
    BY <2>1, <2>2, <2>3 DEF ReaderType
  <2> QED BY <2>1, <2>2, <2>4 DEF ReaderInv, Collecting, Returning
<1> QED BY <1>1, FileInvariant, ReaderNext, PTL DEF Spec

\* Whatever crashes, failed appends and damaged fragments have made of the file, and from
\* whatever initial_offset_: Reader::ReadRecord returns whole records only, in the order in
\* which AddRecord was called, and none twice.  What it takes for a fragment of the record
\* in scratch is always the fragment that follows.
THEOREM OnlyWholeRecords == Spec => []ReturnsWholeRecords
<1>1. FileInv /\ ReaderInv => ReturnsWholeRecords
  BY WholeMeansInOrder
<1> QED BY <1>1, FileInvariant, ReaderInvariant, PTL

-----------------------------------------------------------------------------
(***************************************************************************)
(* The types.  What is reported lies as far back from the reader's place   *)
(* as what it has collected is long.                                       *)
(***************************************************************************)
Lengths(s) == [i \in DOMAIN s |-> s[i].len]

LEMMA LengthsAre ==
    ASSUME NEW s \in Seq(FragmentType)
    PROVE  /\ IsFiniteSet(DOMAIN s) /\ Summable(Lengths(s), DOMAIN s)
           /\ \A i \in DOMAIN s : Lengths(s)[i] = s[i].len /\ s[i].len \in Nat
<1>1. Len(s) \in Nat /\ DOMAIN s = 1..Len(s)
  BY LenProperties
<1>2. IsFiniteSet(DOMAIN s)
  BY <1>1, FS_Interval
<1>3. \A i \in DOMAIN s : s[i].len \in Nat
  BY <1>1, ElementOfSeq, FragmentIs
<1> QED BY <1>2, <1>3 DEF Lengths, Summable

\* FoldSeq adds on the other side.
LEMMA PayloadIs ==
    ASSUME NEW s \in Seq(FragmentType)
    PROVE  Payload(s) = Total(Lengths(s), DOMAIN s) /\ Payload(s) \in Nat
<1> DEFINE IsFold(f) ==
        f = [t \in SUBSET DOMAIN s |->
                IF t = {} THEN 0 ELSE f[t \ {Picked(t)}] + s[Picked(t)].len]
<1>1. Payload(s) = (CHOOSE f : IsFold(f))[DOMAIN s]
  BY DEF Payload, FoldSeq, FoldFunction, FoldFunctionOnSet, MapThenFoldSet, Picked
<1>2. \A f : IsFold(f) <=> AddsAfter(Lengths(s), DOMAIN s, f)
  <2>1. \A t \in SUBSET DOMAIN s : t # {} => Lengths(s)[Picked(t)] = s[Picked(t)].len
    BY PickedIn DEF Lengths
  <2> SUFFICES ASSUME NEW f PROVE IsFold(f) <=> AddsAfter(Lengths(s), DOMAIN s, f)
    OBVIOUS
  <2>2. [t \in SUBSET DOMAIN s |->
            IF t = {} THEN 0 ELSE f[t \ {Picked(t)}] + s[Picked(t)].len]
      = [t \in SUBSET DOMAIN s |->
            IF t = {} THEN 0 ELSE f[t \ {Picked(t)}] + Lengths(s)[Picked(t)]]
    BY <2>1
  <2> QED BY <2>2 DEF AddsAfter
<1> HIDE DEF IsFold
<1>3. \E f : IsFold(f)
  BY <1>2, LengthsAre, SumAddsAfter
<1>4. IsFold(CHOOSE f : IsFold(f))
  BY <1>3
<1>5. AddsAfter(Lengths(s), DOMAIN s, CHOOSE f : IsFold(f))
  BY <1>2, <1>4
<1>6. Payload(s) = Total(Lengths(s), DOMAIN s)
  BY <1>1, <1>5, LengthsAre, AddingAfter
<1> QED BY <1>6, LengthsAre, TotalInNat

LEMMA PayloadOfOne ==
    ASSUME NEW f \in FragmentType
    PROVE  Payload(<<f>>) = f.len
<1>1. PICK s : s = <<f>>
  OBVIOUS
<1>2. s \in Seq(FragmentType) /\ DOMAIN s = {1} /\ s[1] = f
  BY <1>1
<1>3. Payload(s) = Lengths(s)[1] + Total(Lengths(s), {})
  <2>1. {1} \ {1} = {}
    OBVIOUS
  <2> QED BY <1>2, <2>1, LengthsAre, PayloadIs, TotalOne
<1>4. f.len \in Nat /\ Lengths(s)[1] = f.len
  BY <1>2, LengthsAre
<1> QED BY <1>1, <1>3, <1>4, TotalOfNone

LEMMA PayloadOfMore ==
    ASSUME NEW s \in Seq(FragmentType), NEW f \in FragmentType
    PROVE  Payload(Append(s, f)) = Payload(s) + f.len
<1>1. PICK a : a = Append(s, f)
  OBVIOUS
<1>2. PICK n : n = Len(s)
  OBVIOUS
<1>3. /\ a \in Seq(FragmentType) /\ Len(a) = n + 1 /\ n \in Nat
      /\ \A i \in 1..n : a[i] = s[i]
      /\ a[n + 1] = f /\ DOMAIN s = 1..n
  BY <1>1, <1>2, AppendProperties, LenProperties
<1>4. DOMAIN a = 1..n + 1
  BY <1>3, LenProperties
<1>5. n + 1 \in DOMAIN a /\ DOMAIN a \ {n + 1} = DOMAIN s
  BY <1>3, <1>4
<1>6. Payload(a) = Lengths(a)[n + 1] + Total(Lengths(a), DOMAIN s)
  <2>1. Summable(Lengths(a), DOMAIN a) /\ n + 1 \in DOMAIN a
    BY <1>3, <1>5, LengthsAre
  <2>2. Total(Lengths(a), DOMAIN a)
            = Lengths(a)[n + 1] + Total(Lengths(a), DOMAIN a \ {n + 1})
    BY <2>1, TotalOne
  <2> QED BY <1>3, <1>5, <2>2, PayloadIs
<1>7. Total(Lengths(a), DOMAIN s) = Total(Lengths(s), DOMAIN s)
  <2>1. \A i \in DOMAIN s : Lengths(a)[i] = Lengths(s)[i]
    BY <1>3, <1>5 DEF Lengths
  <2> QED BY <2>1, LengthsAre, TotalSame
<1>8. Lengths(a)[n + 1] = f.len /\ f.len \in Nat
  BY <1>3, <1>5, LengthsAre
<1> QED BY <1>1, <1>6, <1>7, <1>8, PayloadIs

\* What was collected fits into what was read.
Collected == reading = "yes" /\ in_fragmented_record => Payload(scratch) <= pos

LEMMA FragmentsAre ==
    ASSUME FileInv, ReaderInv
    PROVE  /\ scratch \in Seq(FragmentType) /\ out \in Seq(Seq(FragmentType))
           /\ Payload(scratch) \in Nat
<1>1. fragments \subseteq FragmentType
  BY DEF FileInv, GoodFile
<1>2. \A T : T \subseteq FragmentType => Seq(T) \subseteq Seq(FragmentType)
  OBVIOUS
<1>3. Seq(fragments) \subseteq Seq(FragmentType)
  BY <1>1, <1>2
<1>4. Seq(Seq(fragments)) \subseteq Seq(Seq(FragmentType))
  BY <1>3
<1> QED BY <1>3, <1>4, PayloadIs DEF ReaderInv, ReaderType

LEMMA CollectedNext ==
    ASSUME FileInv, ReaderInv, Collected, reported \subseteq Nat, [Next]_vars
    PROVE  Collected' /\ reported' \subseteq Nat
<1>0. /\ pos \in Nat /\ end_of_buffer_offset_ \in Nat /\ pos <= end_of_buffer_offset_
      /\ scratch \in Seq(FragmentType) /\ Payload(scratch) \in Nat
      /\ reading = "no" => ~in_fragmented_record
  BY FragmentsAre DEF ReaderInv, ReaderType
<1>1. ASSUME reading' # "yes" \/ ~in_fragmented_record', reported' = reported
      PROVE  Collected' /\ reported' \subseteq Nat
  BY <1>1 DEF Collected
<1>2. CASE Write \/ Crash \/ Damage
  <2>1. reading = "no" /\ UNCHANGED <<reading, reported>>
    BY <1>2 DEF Write, AddRecord, EmitPhysicalRecord, EmitFails, ReopenWriter, Crash, Damage,
                readerVars
  <2> QED BY <1>1, <2>1
<1>3. ASSUME NEW offset \in Offsets, StartReading(offset)
      PROVE  Collected' /\ reported' \subseteq Nat
  BY <1>0, <1>1, <1>3 DEF StartReading
<1>4. CASE ReadBlock
  <2>1. /\ pos' = end_of_buffer_offset_
        /\ UNCHANGED <<reading, scratch, in_fragmented_record, reported>>
    BY <1>4 DEF ReadBlock, recordVars
  <2> QED BY <1>0, <2>1 DEF Collected
<1>5. CASE EndOfFile \/ WriterDied
  <2>1. reading' = "done" /\ reported' = reported
    BY <1>5 DEF EndOfFile, WriterDied, Stop
  <2> QED BY <1>1, <2>1
<1>6. CASE BadLength \/ ZeroHeader \/ ChecksumMismatch
  <2>1. /\ ~in_fragmented_record' /\ reading = "yes"
        /\ \E P \in SUBSET {pos} :
              reported' = reported \cup {p \in P \cup
                  (IF in_fragmented_record
                   THEN {end_of_buffer_offset_ - Payload(scratch)} ELSE {}) : Reportable(p)}
    BY <1>6 DEF BadLength, ZeroHeader, ChecksumMismatch, BadRecord, CanParse, Report,
                InFragmentedAfterBad
  <2>2. in_fragmented_record => end_of_buffer_offset_ - Payload(scratch) \in Nat
    BY <1>0, <2>1 DEF Collected
  <2> QED BY <1>0, <2>1, <2>2 DEF Collected
<1>7. ASSUME NEW f \in fragments, TooEarly(f) \/ Resync(f)
      PROVE  Collected' /\ reported' \subseteq Nat
  <2>1. /\ Good(f) /\ pos' = End(f) /\ UNCHANGED <<reading, reported>>
        /\ \/ ~in_fragmented_record'
           \/ UNCHANGED <<scratch, in_fragmented_record>>
    BY <1>7 DEF TooEarly, Resync, InFragmentedAfterBad
  <2>2. CASE ~in_fragmented_record'
    BY <1>1, <2>1, <2>2
  <2>3. CASE UNCHANGED <<scratch, in_fragmented_record>>
    <3>1. pos <= pos' /\ pos' \in Nat
      BY <2>1, GoodIs
    <3>2. Payload(scratch)' = Payload(scratch)
      BY <2>3
    <3> QED BY <1>0, <2>1, <2>3, <3>1, <3>2 DEF Collected
  <2> QED BY <2>1, <2>2, <2>3
<1>8. ASSUME NEW f \in fragments, Assemble(f)
      PROVE  Collected' /\ reported' \subseteq Nat
  <2>1. /\ Good(f) /\ pos' = End(f) /\ reading' = reading
        /\ Beginning(f) \/ Continuation(f)
    BY <1>8 DEF Assemble
  <2>2. /\ f \in FragmentType /\ reading = "yes" /\ f.at = pos /\ f.len \in Nat
        /\ End(f) = pos + 7 + f.len /\ End(f) \in Nat
    BY <2>1, GoodIs, FragmentIs DEF End, HeaderSize
  <2>3. CASE Beginning(f)
    <3>1. reported' \subseteq Nat
      <4>1. \/ reported' = reported
            \/ /\ in_fragmented_record
               /\ reported' = reported
                     \cup {p \in {End(f) - Payload(scratch)} : Reportable(p)}
        BY <2>3 DEF Beginning, Report
      <4>2. in_fragmented_record => End(f) - Payload(scratch) \in Nat
        BY <1>0, <2>2 DEF Collected
      <4> QED BY <4>1, <4>2
    <3>2. Collected'
      <4>1. ~in_fragmented_record' \/ scratch' = <<f>>
        BY <2>3 DEF Beginning
      <4>2. CASE scratch' = <<f>>
        <5>1. Payload(scratch)' = f.len
          BY <2>2, <4>2, PayloadOfOne
        <5>2. f.len <= pos'
          BY <1>0, <2>1, <2>2
        <5> QED BY <5>1, <5>2 DEF Collected
      <4> QED BY <4>1, <4>2 DEF Collected
    <3> QED BY <3>1, <3>2
  <2>4. CASE Continuation(f)
    <3>1. reported' \subseteq Nat
      <4>1. \/ reported' = reported
            \/ reported' = reported \cup {p \in {f.at + HeaderSize} : Reportable(p)}
        BY <2>4 DEF Continuation, Report
      <4>2. f.at + HeaderSize \in Nat
        BY <1>0, <2>2 DEF HeaderSize
      <4> QED BY <4>1, <4>2
    <3>2. Collected'
      <4>1. \/ ~in_fragmented_record'
            \/ in_fragmented_record /\ scratch' = Append(scratch, f)
        BY <2>4 DEF Continuation
      <4>2. CASE in_fragmented_record /\ scratch' = Append(scratch, f)
        <5>1. Payload(scratch)' = Payload(scratch) + f.len
          BY <1>0, <2>2, <4>2, PayloadOfMore
        <5>2. Payload(scratch) <= pos
          BY <2>2, <4>2 DEF Collected
        <5> QED BY <1>0, <2>1, <2>2, <5>1, <5>2 DEF Collected
      <4> QED BY <4>1, <4>2 DEF Collected
    <3> QED BY <3>1, <3>2
  <2> QED BY <2>1, <2>3, <2>4
<1>9. CASE UNCHANGED vars
  BY <1>9 DEF vars, readerVars, bufferVars, recordVars, Collected
<1> QED BY <1>2, <1>3, <1>4, <1>5, <1>6, <1>7, <1>8, <1>9 DEF Next, ReadRecord

\* The types; among the rest, no Corruption is reported at a negative offset: a drop of
\* what was collected is never reported as more bytes than were read before it.
THEOREM TypeCorrect == Spec => []TypeOK
<1>1. Init => Collected /\ reported \subseteq Nat
  BY DEF Init, Collected
<1>2. FileInv /\ ReaderInv /\ reported \subseteq Nat => TypeOK
  <2> SUFFICES ASSUME FileInv, ReaderInv, reported \subseteq Nat PROVE TypeOK
    OBVIOUS
  <2>1. fragments \subseteq FragmentType
    BY DEF FileInv, GoodFile
  <2>2. pos \in 0..end_of_buffer_offset_
    BY DEF ReaderInv, ReaderType
  <2> QED BY <2>1, <2>2, FragmentsAre DEF TypeOK, FileInv, WriterType, ReaderInv, ReaderType
<1>3. FileInv /\ ReaderInv /\ Collected /\ reported \subseteq Nat /\ [Next]_vars
          => (Collected /\ reported \subseteq Nat)'
  BY CollectedNext
<1>4. Spec => []ReaderInv
  BY ReaderInvariant
<1> QED BY <1>1, <1>2, <1>3, <1>4, FileInvariant, PTL DEF Spec

-----------------------------------------------------------------------------
(***************************************************************************)
(* A file that was written to its end, or up to a crash.                   *)
(***************************************************************************)
Plain == ~Happened("append") /\ ~Happened("damage") /\ ~Happened("reopen")
Ends == {"full", "last"}

\* What is written behind p begins at q: there, or in the next block if no header fits.
Follows(p, q) == p <= q /\ q < p + HeaderSize /\ (q = p \/ BlockStart(q))
After(g, f) == Follows(End(g), f.at) /\ (f.nth = 1 <=> g.type \in Ends)

\* There is no gap in the file, and no record begins before the last one has ended.
Tiled ==
    /\ \A f \in fragments : IF f.at = 0 THEN f.nth = 1 ELSE \E g \in fragments : After(g, f)
    /\ \A f, g \in fragments : f.at < g.at => End(f) <= g.at
    /\ size = 0 \/ \E f \in fragments : size < End(f) + HeaderSize

\* Only a crash has cut off anything, and then no more is written.
CutShort ==
    /\ \A f \in fragments :
           f.state # "intact" =>
               /\ block_offset_ = Closed /\ size < End(f)
               /\ f.state = "header" => size < f.at + HeaderSize
    /\ block_offset_ = Closed => left = -1

\* The last record ends where the file does, if none is under way.
Placed ==
    block_offset_ # Closed /\ (left = -1 \/ part = 0) =>
        \/ size = 0
        \/ \E f \in fragments : End(f) = size /\ f.type \in Ends

\* What the history of the records says of the fragments.
Recorded ==
    /\ \A f \in fragments :
           /\ f.rec \in DOMAIN written
           /\ written[f.rec].start \in Nat /\ written[f.rec].start <= f.at
           /\ f.nth = 1 => written[f.rec].start = f.at
           /\ f.type \in Ends =>
                  /\ f.state = "intact" => written[f.rec].complete
                  /\ \A g \in fragments : g.rec = f.rec => g.at <= f.at
                  /\ left # -1 => f.rec # Len(written)
    /\ \A i \in DOMAIN written :
           written[i].complete =>
               \E f \in fragments : f.rec = i /\ f.type \in Ends /\ f.state = "intact"

PlainFile == Plain => Tiled /\ CutShort /\ Placed /\ Recorded

\* What the reader has in its buffer, and where it stands.
Buffered ==
    /\ IF eof_ THEN size <= end_of_buffer_offset_ ELSE BlockStart(end_of_buffer_offset_)
    /\ pos = end_of_buffer_offset_ \/ end_of_buffer_offset_ <= size
    /\ \E b \in Nat : BlockStart(b) /\ b <= pos /\ end_of_buffer_offset_ <= b + BlockSize
Outside == \A f \in fragments : f.at < pos => End(f) <= pos

\* The record of f begins where it is wanted, and the reader has passed f.
Sought(f) == written[f.rec].start >= initial_offset_
Passed(f) == IF reading = "yes" THEN f.at < pos ELSE f.state = "intact"

Found ==
    \A f \in fragments : Passed(f) /\ Sought(f) /\ f.type \in Ends => f.rec \in Returned
Pending ==
    \A f \in fragments :
        /\ f.at < pos /\ Sought(f) /\ f.type \notin Ends
        /\ \A g \in fragments : ~(f.at < g.at /\ g.at < pos)
        => in_fragmented_record
Within ==
    /\ \A i \in DOMAIN out :
           /\ out[i][1].at >= initial_offset_
           /\ Last(out[i]).state = "intact"
    /\ reading = "yes" /\ in_fragmented_record => scratch[1].at >= initial_offset_
Silent == initial_offset_ = 0 => reported = {} /\ (reading = "yes" => ~resyncing_)

PlainReader ==
    /\ initial_offset_ \in Nat
    /\ reading = "no" => ~eof_ /\ reported = {}
    /\ Plain /\ reading # "no" =>
          /\ reading = "yes" => Buffered /\ Outside /\ Pending
          /\ Found /\ Within /\ Silent

-----------------------------------------------------------------------------
(***************************************************************************)
(* The Writer leaves no gap, and a crash cuts off no more than the end.    *)
(***************************************************************************)
LEMMA PlainKept ==
    ASSUME FitInv, [Next]_vars, Plain'
    PROVE  /\ Plain
           /\ \/ \E n \in Sizes : AddRecord(n)
              \/ EmitPhysicalRecord \/ Crash \/ Reads \/ UNCHANGED vars
<1>1. ASSUME NEW kind \in {"append", "reopen", "damage"}, events' = Append(events, kind)
      PROVE  FALSE
  <2>1. \E i \in DOMAIN events' : events'[i] = kind
    BY <1>1, EventKept DEF FitInv, Kinds
  <2> QED BY <2>1 DEF Plain, Happened
<1>2. ~EmitFails /\ ~ReopenWriter /\ ~Damage
  BY <1>1 DEF EmitFails, ReopenWriter, Damage, Event
<1>3. \/ \E n \in Sizes : AddRecord(n)
      \/ EmitPhysicalRecord \/ Crash \/ Reads \/ UNCHANGED vars
  BY <1>2 DEF Next, Write, Reads
<1>4. events' = events \/ events' = Append(events, "crash")
  BY <1>3, ReadsOnly DEF AddRecord, EmitPhysicalRecord, Crash, Event, vars
<1>5. Plain
  <2>1. CASE events' = events
    BY <2>1 DEF Plain, Happened
  <2>2. CASE events' = Append(events, "crash")
    <3>1. \A k : Happened(k) => \E i \in DOMAIN events' : events'[i] = k
      BY <2>2, EventKept DEF FitInv, Kinds
    <3> QED BY <3>1 DEF Plain, Happened
  <2> QED BY <1>4, <2>1, <2>2
<1> QED BY <1>3, <1>5

\* The first block begins at 0, and the next ones not behind any bytes of the last.
LEMMA NoBlockBetween ==
    ASSUME NEW a \in Nat, BlockStart(a), NEW b \in Nat, BlockStart(b), a < b
    PROVE  a + BlockSize <= b
<1>1. PICK p \in Nat : a = p * BlockSize
  BY DEF BlockStart
<1>2. PICK q \in Nat : b = q * BlockSize
  BY DEF BlockStart
<1>3. BlockSize \in Nat
  BY BlockAssumption
<1>4. p < q
  <2> SUFFICES ASSUME q <= p PROVE FALSE
    BY <1>1, <1>2
  <2>1. p - q \in Nat /\ p * BlockSize = q * BlockSize + (p - q) * BlockSize
    BY <1>3
  <2>2. (p - q) * BlockSize \in Nat
    BY <1>3, <2>1
  <2> QED BY <1>1, <1>2, <2>1, <2>2
<1>5. q - p - 1 \in Nat /\ q * BlockSize = p * BlockSize + BlockSize + (q - p - 1) * BlockSize
  BY <1>3, <1>4
<1>6. (q - p - 1) * BlockSize \in Nat
  BY <1>3, <1>5
<1> QED BY <1>1, <1>2, <1>3, <1>5, <1>6

\* The new fragment follows what is in the file.
LEMMA EmitFollows ==
    ASSUME FileInv, KnowsOffset, left # -1, NEW f, f = NewFragment
    PROVE  Follows(size, f.at) /\ (size = 0 => f.at = 0)
<1>1. /\ f.at \in Nat /\ size <= f.at /\ f.at < size + HeaderSize
  BY NewFragmentIs, FragmentIs DEF FileInv
<1>2. /\ block_offset_ \in Nat /\ block_offset_ <= BlockSize /\ block_offset_ # Closed
      /\ BlockSize \in Nat /\ size \in Nat /\ BlockSize > 7
  BY BlockAssumption DEF FileInv, WriterType, Closed, HeaderSize
<1>3. PICK b \in Nat : BlockStart(b) /\ size = b + block_offset_
  BY <1>2 DEF KnowsOffset
<1>4. CASE Trailer(BlockSize - block_offset_)
  <2>1. f.at = size + (BlockSize - block_offset_) /\ block_offset_ > 0
    BY <1>2, <1>4 DEF NewFragment, Fragment, HeaderSize, Trailer
  <2>2. f.at = b + BlockSize /\ size # 0
    BY <1>2, <1>3, <2>1
  <2> QED BY <1>1, <1>3, <2>2, NextBlock DEF Follows
<1>5. CASE ~Trailer(BlockSize - block_offset_)
  <2>1. f.at = size
    BY <1>2, <1>5 DEF NewFragment, Fragment
  <2> QED BY <1>1, <2>1 DEF Follows
<1> QED BY <1>4, <1>5

LEMMA PlainAddRecord ==
    ASSUME FileInv, Tiled, CutShort, Placed, Recorded, NEW n \in Sizes, AddRecord(n)
    PROVE  (Tiled /\ CutShort /\ Placed /\ Recorded)'
<1> DEFINE r == [start |-> -1, complete |-> FALSE]
<1>1. /\ left = -1 /\ left' = n /\ part' = 0 /\ written' = Append(written, r)
      /\ UNCHANGED <<fragments, size, block_offset_>> /\ block_offset_ # Closed
  BY DEF AddRecord, fileVars
<1>2. /\ Len(written) \in Nat /\ DOMAIN written = 1..Len(written)
      /\ DOMAIN written' = 1..Len(written) + 1 /\ Len(written') = Len(written) + 1
      /\ \A i \in 1..Len(written) : written'[i] = written[i]
      /\ written'[Len(written) + 1] = r
  <2>1. written' \in Seq([start : Nat \cup {-1}, complete : BOOLEAN])
    BY <1>1, AppendProperties DEF FileInv, WriterType
  <2> QED BY <1>1, <2>1, AppendProperties, LenProperties DEF FileInv, WriterType
<1>3. Tiled'
  BY <1>1 DEF Tiled, After, Follows, End, BlockStart
<1>4. CutShort'
  BY <1>1 DEF CutShort, Closed, End
<1>5. Placed'
  BY <1>1 DEF Placed, Closed, End
<1>6. Recorded'
  <2>1. \A f \in fragments : f.rec \in 1..Len(written) /\ f.rec # Len(written')
    BY <1>2 DEF Recorded
  <2>2. ~written'[Len(written) + 1].complete
    BY <1>2
  <2>3. \A f \in fragments :
            /\ f.rec \in DOMAIN written' /\ written'[f.rec] = written[f.rec]
            /\ f.rec # Len(written')
    BY <1>2, <2>1
  <2>4. \A f \in fragments' :
           /\ f.rec \in DOMAIN written'
           /\ written'[f.rec].start \in Nat /\ written'[f.rec].start <= f.at
           /\ f.nth = 1 => written'[f.rec].start = f.at
           /\ f.type \in Ends =>
                  /\ f.state = "intact" => written'[f.rec].complete
                  /\ \A g \in fragments' : g.rec = f.rec => g.at <= f.at
                  /\ left' # -1 => f.rec # Len(written')
    BY <1>1, <2>3 DEF Recorded
  <2>5. ASSUME NEW i \in DOMAIN written', written'[i].complete
        PROVE  \E f \in fragments' : f.rec = i /\ f.type \in Ends /\ f.state = "intact"
    <3>1. i \in DOMAIN written /\ written'[i] = written[i]
      BY <1>2, <2>2, <2>5
    <3> QED BY <1>1, <2>5, <3>1 DEF Recorded
  <2> QED BY <2>4, <2>5 DEF Recorded
<1> QED BY <1>3, <1>4, <1>5, <1>6

LEMMA PlainEmit ==
    ASSUME FileInv, KnowsOffset, Tiled, CutShort, Placed, Recorded, EmitPhysicalRecord
    PROVE  (Tiled /\ CutShort /\ Placed /\ Recorded)'
<1>1. PICK f : f = NewFragment
  OBVIOUS
<1>2. PICK n : n = Len(written)
  OBVIOUS
<1>3. /\ left # -1 /\ left \in Nat /\ part \in Nat /\ size \in Nat /\ n \in Nat /\ n > 0
      /\ block_offset_ # Closed
      /\ fragments' = fragments \cup {f} /\ size' = End(f)
      /\ block_offset_' = BlockOffsetAfter(f)
      /\ left' = (IF left = f.len THEN -1 ELSE left - f.len)
      /\ written' = [written EXCEPT ![n] =
                        [start |-> RecordStart(f), complete |-> left = f.len]]
      /\ part' = part + 1
  BY <1>1, <1>2, WrittenIs DEF EmitPhysicalRecord, FileInv, WriterType
<1>4. /\ f \in FragmentType /\ f.state = "intact" /\ f.rec = n /\ f.nth = part + 1
      /\ size <= f.at
      /\ f.type \in {"full", "last"} <=> f.len = left
      /\ f.at \in Nat /\ f.len \in Nat /\ End(f) \in Nat /\ f.at + 7 <= End(f)
      /\ f.len <= left /\ BlockOffsetAfter(f) # Closed
  BY <1>1, <1>2, <1>3, NewFragmentIs, FragmentIs, BlockAssumption DEF FileInv, Closed
<1>5. Follows(size, f.at) /\ (size = 0 => f.at = 0)
  BY <1>1, <1>3, EmitFollows
<1>6. ASSUME NEW g \in fragments
      PROVE  /\ g.state = "intact" /\ g.at \in Nat /\ End(g) \in Nat /\ g.at + 7 <= End(g)
             /\ End(g) <= size /\ g.rec <= n /\ (g.rec = n => g.nth <= part)
             /\ g.nth \in Nat \ {0} /\ g.rec \in 1..n /\ g.at < size
  <2>1. g.state = "intact"
    BY <1>3 DEF CutShort
  <2>2. g.rec \in DOMAIN written /\ DOMAIN written = 1..n
    BY <1>2, LenProperties DEF Recorded, FileInv, WriterType
  <2> QED BY <1>2, <1>3, <2>1, <2>2, FragmentIs DEF FileInv, GoodFile, UnderWay
<1>7. ASSUME part > 0
      PROVE  \E g \in fragments : g.rec = n /\ End(g) = size /\ g.type \in {"first", "middle"}
  BY <1>2, <1>3, <1>7 DEF FileInv, UnderWay
<1>8. ASSUME NEW i \in 1..n
      PROVE  /\ i # n => written'[i] = written[i]
             /\ i = n => /\ written'[i].start = RecordStart(f)
                         /\ written'[i].complete = (left = f.len)
  <2>1. DOMAIN written = 1..n
    BY <1>2, LenProperties DEF FileInv, WriterType
  <2> QED BY <1>3, <2>1
<1>9. /\ DOMAIN written' = 1..n /\ Len(written') = n
  <2>1. /\ written' \in Seq([start : Nat \cup {-1}, complete : BOOLEAN]) /\ Len(written') = n
    BY <1>1, <1>2, <1>3, WrittenKept
  <2> QED BY <2>1, LenProperties
<1>10. Tiled'
  <2>1. f.at = 0 => f.nth = 1
    <3>1. part > 0 => size > 0
      <4> SUFFICES ASSUME part > 0 PROVE size > 0
        OBVIOUS
      <4>1. PICK g \in fragments : End(g) = size
        BY <1>7
      <4> QED BY <1>6, <4>1
    <3> QED BY <1>3, <1>4, <3>1
  <2>2. ASSUME f.at # 0
        PROVE  \E g \in fragments : After(g, f)
    <3>1. CASE part > 0
      <4>1. PICK g \in fragments : End(g) = size /\ g.type \in {"first", "middle"}
        BY <1>7, <3>1
      <4>2. f.nth # 1
        BY <1>3, <1>4, <3>1
      <4> QED BY <1>5, <4>1, <4>2 DEF After, Ends
    <3>2. CASE part = 0
      <4>1. PICK g \in fragments : End(g) = size /\ g.type \in Ends
        BY <1>3, <1>5, <2>2, <3>2 DEF Placed
      <4>2. f.nth = 1
        BY <1>4, <3>2
      <4> QED BY <1>5, <4>1, <4>2 DEF After
    <3> QED BY <1>3, <3>1, <3>2
  <2>3. \A g \in fragments : End(g) <= f.at /\ ~(f.at < g.at)
    BY <1>3, <1>4, <1>6
  <2>4. End(f) < End(f) + HeaderSize /\ ~(f.at < f.at)
    BY <1>4 DEF HeaderSize
  <2>5. \A g \in fragments' :
            IF g.at = 0 THEN g.nth = 1 ELSE \E h \in fragments' : After(h, g)
    BY <1>3, <2>1, <2>2 DEF Tiled
  <2>6. \A g, h \in fragments' : g.at < h.at => End(g) <= h.at
    BY <1>3, <2>3, <2>4 DEF Tiled
  <2>7. \E g \in fragments' : size' < End(g) + HeaderSize
    BY <1>3, <2>4
  <2> QED BY <2>5, <2>6, <2>7 DEF Tiled, After, Follows, End, BlockStart
<1>11. CutShort'
  BY <1>3, <1>4, <1>6 DEF CutShort, Closed
<1>12. Placed'
  <2> SUFFICES ASSUME left' = -1 \/ part' = 0
               PROVE  \E g \in fragments' : End(g) = size' /\ g.type \in Ends
    BY DEF Placed, End
  <2>1. left = f.len
    BY <1>3, <1>4
  <2> QED BY <1>3, <1>4, <2>1 DEF Ends
<1>13. Recorded'
  <2>1. /\ RecordStart(f) \in Nat /\ RecordStart(f) <= f.at /\ (f.nth = 1 => RecordStart(f) = f.at)
        /\ part > 0 => RecordStart(f) = written[n].start
    <3>1. CASE part = 0
      <4>1. RecordStart(f) = f.at
        BY <3>1 DEF RecordStart
      <4> QED BY <1>4, <3>1, <4>1
    <3>2. CASE part > 0
      <4>1. RecordStart(f) = written[n].start
        BY <1>2, <3>2 DEF RecordStart
      <4>2. PICK g \in fragments : g.rec = n
        BY <1>7, <3>2
      <4>3. /\ written[n].start \in Nat /\ written[n].start <= g.at
            /\ g.at <= f.at /\ g.at \in Nat /\ f.nth # 1
        <5>1. written[n].start \in Nat /\ written[n].start <= g.at
          BY <4>2 DEF Recorded
        <5>2. g.at < size /\ g.at \in Nat
          BY <1>6
        <5>3. g.at <= f.at
          BY <1>3, <1>4, <5>2
        <5>4. f.nth # 1
          BY <1>3, <1>4, <3>2
        <5> QED BY <5>1, <5>2, <5>3, <5>4
      <4>4. written[n].start <= f.at
        BY <1>4, <4>3
      <4> QED BY <3>2, <4>1, <4>3, <4>4
    <3> QED BY <1>3, <3>1, <3>2
  <2>2. f.type \in Ends <=> left = f.len
    BY <1>4 DEF Ends
  <2>3. \A g \in fragments : g.rec = n => g.type \notin Ends /\ part > 0
    BY <1>2, <1>3, <1>6 DEF Recorded
  <2>4. ASSUME NEW g \in fragments
        PROVE  /\ g.rec \in DOMAIN written'
               /\ written'[g.rec].start \in Nat /\ written'[g.rec].start <= g.at
               /\ g.nth = 1 => written'[g.rec].start = g.at
               /\ g.type \in Ends =>
                      /\ g.rec # n /\ written'[g.rec].complete
                      /\ \A h \in fragments' : h.rec = g.rec => h.at <= g.at
    <3>1. written'[g.rec].start = written[g.rec].start
      BY <1>6, <1>8, <2>1, <2>3
    <3>2. g.type \in Ends =>
                      /\ g.rec # n /\ written'[g.rec].complete
                      /\ \A h \in fragments' : h.rec = g.rec => h.at <= g.at
      BY <1>3, <1>4, <1>6, <1>8, <2>3 DEF Recorded
    <3> QED BY <1>6, <1>9, <3>1, <3>2 DEF Recorded
  <2>5. /\ f.rec \in DOMAIN written'
        /\ written'[f.rec].start \in Nat /\ written'[f.rec].start <= f.at
        /\ f.nth = 1 => written'[f.rec].start = f.at
        /\ f.type \in Ends =>
               /\ written'[f.rec].complete /\ left' = -1
               /\ \A g \in fragments' : g.at <= f.at
    <3>1. n \in 1..n
      BY <1>3
    <3>2. \A g \in fragments' : g.at <= f.at
      BY <1>3, <1>4, <1>6
    <3>3. f.type \in Ends => written'[n].complete
      BY <1>8, <2>2, <3>1
    <3> QED BY <1>3, <1>4, <1>8, <1>9, <2>1, <2>2, <3>1, <3>2, <3>3
  <2>6. \A g \in fragments' :
           /\ g.rec \in DOMAIN written'
           /\ written'[g.rec].start \in Nat /\ written'[g.rec].start <= g.at
           /\ g.nth = 1 => written'[g.rec].start = g.at
           /\ g.type \in Ends =>
                  /\ g.state = "intact" => written'[g.rec].complete
                  /\ \A h \in fragments' : h.rec = g.rec => h.at <= g.at
                  /\ left' # -1 => g.rec # Len(written')
    BY <1>3, <1>9, <2>4, <2>5
  <2>7. ASSUME NEW i \in DOMAIN written', written'[i].complete
        PROVE  \E g \in fragments' : g.rec = i /\ g.type \in Ends /\ g.state = "intact"
    <3>1. CASE i = n
      BY <1>3, <1>4, <1>8, <1>9, <2>2, <2>7, <3>1
    <3>2. CASE i # n
      <4>1. i \in DOMAIN written /\ written[i].complete
        BY <1>2, <1>8, <1>9, <2>7, <3>2, LenProperties DEF FileInv, WriterType
      <4> QED BY <1>3, <4>1 DEF Recorded
    <3> QED BY <3>1, <3>2
  <2> QED BY <2>6, <2>7 DEF Recorded
<1> QED BY <1>10, <1>11, <1>12, <1>13

\* What a crash leaves of fragment f.
LEMMA CutOneStates ==
    ASSUME NEW f \in FragmentType, NEW n \in Nat
    PROVE  /\ CutOne(n, f).state # "intact" => f.state # "intact" \/ n < End(f)
           /\ CutOne(n, f).state = "header" => f.state = "header" \/ n < f.at + HeaderSize
           /\ f.state = "intact" /\ End(f) <= n => CutOne(n, f) = f
<1>1. \A s : [f EXCEPT !.state = s].state = s
  BY DEF FragmentType
<1>2. f.at \in Nat /\ End(f) \in Nat /\ "payload" # "header"
  BY FragmentIs
<1> QED BY <1>1, <1>2 DEF CutOne, HeaderSize

LEMMA PlainCrash ==
    ASSUME FileInv, Tiled, CutShort, Recorded, Crash
    PROVE  (Tiled /\ CutShort /\ Placed /\ Recorded)'
<1>1. PICK n \in 0..size :
           /\ size' = n /\ fragments' = CutAt(n, fragments)
           /\ written' = [i \in DOMAIN written |->
                  [written[i] EXCEPT !.complete =
                      @ /\ \A f \in fragments : f.rec = i => End(f) <= n]]
  BY DEF Crash
<1>2. /\ left' = -1 /\ part' = 0 /\ block_offset_' = Closed /\ n \in Nat /\ size \in Nat
      /\ n <= size
  BY DEF Crash, FileInv, WriterType
<1>3. ASSUME NEW f \in fragments
      PROVE  /\ f \in FragmentType /\ f.at \in Nat /\ End(f) \in Nat /\ f.at + 7 <= End(f)
             /\ f.rec \in DOMAIN written
             /\ End(CutOne(n, f)) = End(f) /\ DamagedTo(f, CutOne(n, f))
             /\ CutOne(n, f) \in fragments' <=> f.at < n
             /\ CutOne(n, f).state = "intact" => End(f) <= n
             /\ f.state = "intact" /\ End(f) <= n => f \in fragments'
             /\ n < End(f) => CutOne(n, f).state # "intact"
  <2>1. f \in FragmentType
    BY DEF FileInv, GoodFile
  <2>2. /\ f.at \in Nat /\ End(f) \in Nat /\ f.at + 7 <= End(f) /\ f.rec \in DOMAIN written
        /\ End(CutOne(n, f)) = End(f) /\ DamagedTo(f, CutOne(n, f))
        /\ CutOne(n, f).state = "intact" => End(f) <= n
        /\ f.state = "intact" /\ End(f) <= n => CutOne(n, f) = f
    BY <1>2, <2>1, FragmentIs, CutOneIs, CutOneStates, DamagedIs DEF Recorded
  <2>3. f.at < n => CutOne(n, f) \in fragments'
    BY <1>1 DEF CutAt, CutOne
  <2>4. CutOne(n, f) \in fragments' => f.at < n
    <3> SUFFICES ASSUME CutOne(n, f) \in fragments' PROVE f.at < n
      OBVIOUS
    <3>1. GoodFile(fragments', n)
      BY <1>1, <1>2, GoodWhenCut DEF FileInv
    <3> QED BY <2>2, <3>1 DEF GoodFile, DamagedTo
  <2> QED BY <1>2, <2>1, <2>2, <2>3, <2>4
<1>4. ASSUME NEW g \in fragments'
      PROVE  \E f \in fragments : g = CutOne(n, f) /\ f.at < n
  BY <1>1 DEF CutAt, CutOne
<1>5. Tiled'
  <2>1. ASSUME NEW g \in fragments'
        PROVE  IF g.at = 0 THEN g.nth = 1 ELSE \E h \in fragments' : After(h, g)
    <3>1. PICK f \in fragments : g = CutOne(n, f) /\ f.at < n
      BY <1>4
    <3>2. g.at = f.at /\ g.nth = f.nth
      BY <1>3, <3>1 DEF DamagedTo
    <3>3. ASSUME f.at # 0
          PROVE  \E h \in fragments' : After(h, g)
      <4>1. PICK e \in fragments : After(e, f)
        BY <3>3 DEF Tiled
      <4>2. e.at < n
        BY <1>2, <1>3, <3>1, <4>1 DEF After, Follows
      <4>3. CutOne(n, e) \in fragments' /\ After(CutOne(n, e), g)
        BY <1>3, <3>2, <4>1, <4>2 DEF After, DamagedTo
      <4> QED BY <4>3
    <3> QED BY <3>2, <3>3 DEF Tiled
  <2>2. ASSUME NEW g \in fragments', NEW h \in fragments', g.at < h.at
        PROVE  End(g) <= h.at
    <3>1. PICK f \in fragments : g = CutOne(n, f)
      BY <1>4
    <3>2. PICK e \in fragments : h = CutOne(n, e)
      BY <1>4
    <3> QED BY <1>3, <2>2, <3>1, <3>2 DEF Tiled, DamagedTo
  <2>3. ASSUME n # 0
        PROVE  \E g \in fragments' : n < End(g) + HeaderSize
    <3> DEFINE S == {End(f) : f \in {e \in fragments : n < End(e) + HeaderSize}}
    <3>1. S \subseteq Nat
      BY <1>3
    <3>2. S # {}
      <4>1. PICK f \in fragments : size < End(f) + HeaderSize
        BY <1>2, <2>3 DEF Tiled
      <4>2. n < End(f) + HeaderSize
        BY <1>2, <1>3, <4>1 DEF HeaderSize
      <4> QED BY <4>2
    <3>3. PICK m : m = Min(S)
      OBVIOUS
    <3>4. m \in S /\ \A y \in S : m <= y
      <4> HIDE DEF S
      <4> QED BY <3>1, <3>2, <3>3, MinIsMin
    <3>5. PICK f \in fragments : n < End(f) + HeaderSize /\ m = End(f)
      BY <3>4
    <3>6. f.at < n
      <4> SUFFICES ASSUME n <= f.at PROVE FALSE
        BY <1>2, <1>3
      <4>1. PICK g \in fragments : After(g, f)
        BY <1>2, <1>3, <2>3 DEF Tiled
      <4>2. End(g) <= f.at /\ f.at < End(g) + 7
        BY <4>1 DEF After, Follows, HeaderSize
      <4>3. n < End(g) + HeaderSize
        BY <1>2, <1>3, <4>2 DEF HeaderSize
      <4>4. End(f) <= End(g)
        BY <3>4, <3>5, <4>3
      <4> QED BY <1>3, <4>2, <4>4
    <3>7. CutOne(n, f) \in fragments' /\ n < End(CutOne(n, f)) + HeaderSize
      BY <1>3, <3>5, <3>6
    <3> QED BY <3>7
  <2>4. /\ \A g \in fragments' :
               IF g.at = 0 THEN g.nth = 1 ELSE \E h \in fragments' : After(h, g)
        /\ \A g, h \in fragments' : g.at < h.at => End(g) <= h.at
        /\ size' = 0 \/ \E g \in fragments' : size' < End(g) + HeaderSize
    BY <1>1, <2>1, <2>2, <2>3
  <2> QED BY <2>4 DEF Tiled, After, Follows, End, BlockStart
<1>6. CutShort'
  <2>1. ASSUME NEW g \in fragments', g.state # "intact"
        PROVE  n < End(g) /\ (g.state = "header" => n < g.at + HeaderSize)
    <3>1. PICK f \in fragments : g = CutOne(n, f)
      BY <1>4
    <3>2. /\ f.state # "intact" => size < End(f)
          /\ f.state = "header" => size < f.at + 7
      BY DEF CutShort, HeaderSize
    <3>3. /\ f.state # "intact" \/ n < End(f)
          /\ g.state = "header" => f.state = "header" \/ n < f.at + 7
      BY <1>2, <1>3, <2>1, <3>1, CutOneStates DEF HeaderSize
    <3>4. n < End(f) /\ (g.state = "header" => n < f.at + 7)
      BY <1>2, <1>3, <3>2, <3>3
    <3> QED BY <1>3, <3>1, <3>4 DEF DamagedTo, HeaderSize
  <2> QED BY <1>1, <1>2, <2>1 DEF CutShort, Closed, End
<1>7. Placed'
  BY <1>2 DEF Placed, Closed
<1>8. ASSUME NEW i \in DOMAIN written
      PROVE  /\ i \in DOMAIN written' /\ written'[i].start = written[i].start
             /\ written'[i].complete
                    <=> written[i].complete /\ \A f \in fragments : f.rec = i => End(f) <= n
  <2>1. written[i] \in [start : Nat \cup {-1}, complete : BOOLEAN]
    BY ElementOfSeq, LenProperties DEF FileInv, WriterType
  <2>2. PICK b \in BOOLEAN : b <=> \A f \in fragments : f.rec = i => End(f) <= n
    <3>1. CASE \A f \in fragments : f.rec = i => End(f) <= n
      BY <3>1
    <3>2. CASE ~ \A f \in fragments : f.rec = i => End(f) <= n
      BY <3>2
    <3> QED BY <3>1, <3>2
  <2>3. DOMAIN written' = DOMAIN written
    BY <1>1
  <2>4. written'[i] = [written[i] EXCEPT !.complete =
                      @ /\ \A f \in fragments : f.rec = i => End(f) <= n]
    BY <1>1
  <2> QED BY <2>1, <2>3, <2>4
<1>9. Recorded'
  <2>1. ASSUME NEW g \in fragments'
        PROVE  /\ g.rec \in DOMAIN written'
               /\ written'[g.rec].start \in Nat /\ written'[g.rec].start <= g.at
               /\ g.nth = 1 => written'[g.rec].start = g.at
               /\ g.type \in Ends =>
                      /\ g.state = "intact" => written'[g.rec].complete
                      /\ \A h \in fragments' : h.rec = g.rec => h.at <= g.at
    <3>1. PICK f \in fragments : g = CutOne(n, f)
      BY <1>4
    <3>2. /\ g.rec = f.rec /\ g.at = f.at /\ g.nth = f.nth /\ g.type = f.type
          /\ g.state = "intact" => f.state = "intact" /\ End(f) <= n
      BY <1>3, <3>1 DEF DamagedTo
    <3>3. ASSUME g.type \in Ends, NEW e \in fragments, e.rec = f.rec
          PROVE  e.at <= f.at
      BY <3>2, <3>3 DEF Recorded
    <3>4. ASSUME g.type \in Ends, g.state = "intact"
          PROVE  written'[g.rec].complete
      <4>1. written[f.rec].complete
        BY <3>2, <3>4 DEF Recorded
      <4>2. ASSUME NEW e \in fragments, e.rec = f.rec
            PROVE  End(e) <= n
        <5>1. CASE e.at = f.at
          BY <3>2, <3>4, <5>1 DEF FileInv, GoodFile
        <5>2. CASE e.at < f.at
          <6>1. End(e) <= f.at /\ f.at < End(f) /\ End(f) <= n
            BY <1>3, <3>2, <3>4, <5>2 DEF Tiled
          <6> QED BY <1>2, <1>3, <6>1
        <5>3. e.at <= f.at
          BY <3>3, <3>4, <4>2
        <5> QED BY <1>3, <5>1, <5>2, <5>3
      <4> QED BY <1>3, <1>8, <3>2, <4>1, <4>2
    <3>5. ASSUME g.type \in Ends, NEW h \in fragments', h.rec = g.rec
          PROVE  h.at <= g.at
      <4>1. PICK e \in fragments : h = CutOne(n, e)
        BY <1>4
      <4>2. e.rec = f.rec /\ e.at = h.at
        BY <1>3, <3>2, <3>5, <4>1 DEF DamagedTo
      <4> QED BY <3>2, <3>3, <3>5, <4>2
    <3>6. f.rec \in DOMAIN written' /\ written'[f.rec].start = written[f.rec].start
      BY <1>3, <1>8
    <3> QED BY <3>2, <3>4, <3>5, <3>6 DEF Recorded
  <2>2. ASSUME NEW i \in DOMAIN written', written'[i].complete
        PROVE  \E g \in fragments' : g.rec = i /\ g.type \in Ends /\ g.state = "intact"
    <3>1. i \in DOMAIN written
      BY <1>1
    <3>2. PICK f \in fragments : f.rec = i /\ f.type \in Ends /\ f.state = "intact"
      BY <1>8, <2>2, <3>1 DEF Recorded
    <3>3. f \in fragments'
      BY <1>3, <1>8, <2>2, <3>1, <3>2
    <3> QED BY <3>2, <3>3
  <2> QED BY <1>2, <2>1, <2>2 DEF Recorded
<1> QED BY <1>5, <1>6, <1>7, <1>9

LEMMA PlainNext == FileInv /\ FitInv /\ PlainFile /\ [Next]_vars => PlainFile'
<1> SUFFICES ASSUME FileInv, FitInv, PlainFile, [Next]_vars, Plain'
             PROVE  (Tiled /\ CutShort /\ Placed /\ Recorded)'
  BY DEF PlainFile
<1>1. /\ Plain
      /\ \/ \E n \in Sizes : AddRecord(n)
         \/ EmitPhysicalRecord \/ Crash \/ Reads \/ UNCHANGED vars
  BY PlainKept
<1>2. Tiled /\ CutShort /\ Placed /\ Recorded /\ KnowsOffset
  BY <1>1 DEF PlainFile, FitInv, Plain
<1>3. CASE Reads \/ UNCHANGED vars
  <2>1. UNCHANGED <<fragments, size, block_offset_, left, part, written>>
    BY <1>3, ReadsOnly DEF vars, fileVars, writerVars
  <2> QED BY <1>2, <2>1 DEF Tiled, CutShort, Placed, Recorded, After, Follows, End, BlockStart,
                            Closed
<1> QED BY <1>1, <1>2, <1>3, PlainAddRecord, PlainEmit, PlainCrash

LEMMA PlainInvariant == Spec => []PlainFile
<1>1. Init => PlainFile
  <2> SUFFICES ASSUME Init PROVE Tiled /\ CutShort /\ Placed /\ Recorded
    BY DEF PlainFile
  <2>1. fragments = {} /\ size = 0 /\ left = -1 /\ DOMAIN written = {}
    BY DEF Init
  <2> QED BY <2>1 DEF Tiled, CutShort, Placed, Recorded
<1>2. Spec => []FitInv
  BY FitInvariant
<1> QED BY <1>1, <1>2, FileInvariant, PlainNext, PTL DEF Spec

-----------------------------------------------------------------------------
(***************************************************************************)
(* The reader of such a file loses nothing.                                *)
(***************************************************************************)
\* A reader is in the middle of such a file.
Underway ==
    /\ FileInv /\ ReaderInv /\ reading = "yes" /\ initial_offset_ \in Nat
    /\ Tiled /\ CutShort /\ Recorded /\ \A f \in fragments : Fits(f)
    /\ Buffered /\ Outside /\ Pending /\ Found /\ Within /\ Silent

LEMMA PlacesAre ==
    ASSUME FileInv, ReaderInv
    PROVE  /\ pos \in Nat /\ end_of_buffer_offset_ \in Nat /\ pos <= end_of_buffer_offset_
           /\ size \in Nat /\ BlockSize \in Nat /\ BlockSize > 7 /\ eof_ \in BOOLEAN
           /\ \A f \in fragments :
                 /\ f \in FragmentType /\ f.at \in Nat /\ End(f) \in Nat /\ f.at + 7 <= End(f)
                 /\ f.at < size /\ (f.state = "intact" => End(f) <= size)
                 /\ f.state \in {"intact", "payload", "header"}
                 /\ f.type \in {"full", "first", "middle", "last"}
BY FragmentIs, BlockAssumption DEF FileInv, GoodFile, WriterType, ReaderInv, ReaderType, HeaderSize

\* One fragment at most is the last before p.
LEMMA OneBehind ==
    ASSUME FileInv, Tiled, NEW g \in fragments, NEW h \in fragments, NEW p \in Nat,
           End(g) <= p, p < End(g) + HeaderSize, End(h) <= p, p < End(h) + HeaderSize
    PROVE  g = h
<1>1. /\ g.at \in Nat /\ End(g) \in Nat /\ g.at + 7 <= End(g)
      /\ h.at \in Nat /\ End(h) \in Nat /\ h.at + 7 <= End(h)
  BY FragmentIs DEF FileInv, GoodFile
<1>2. ~(g.at < h.at)
  <2>1. g.at < h.at => End(g) <= h.at
    BY DEF Tiled
  <2> QED BY <1>1, <2>1 DEF HeaderSize
<1>3. ~(h.at < g.at)
  <2>1. h.at < g.at => End(h) <= g.at
    BY DEF Tiled
  <2> QED BY <1>1, <2>1 DEF HeaderSize
<1>4. g.at = h.at
  BY <1>1, <1>2, <1>3
<1> QED BY <1>4 DEF FileInv, GoodFile

\* The fragments that start before the beginning of a block end there.
LEMMA EndsBefore ==
    ASSUME FileInv, NEW f \in fragments, Fits(f), NEW p \in Nat, BlockStart(p), f.at < p
    PROVE  End(f) <= p
<1>1. PICK a \in Nat : BlockStart(a) /\ a <= f.at /\ End(f) <= a + BlockSize
  BY DEF Fits
<1>2. f.at \in Nat /\ End(f) \in Nat /\ BlockSize \in Nat
  BY FragmentIs, BlockAssumption DEF FileInv, GoodFile
<1>3. a < p
  BY <1>1, <1>2
<1>4. a + BlockSize <= p
  BY <1>1, <1>3, NoBlockBetween
<1> QED BY <1>1, <1>2, <1>4

\* There is a fragment where the reader looks for a header, and it can see whether it is
\* all there.
LEMMA NextFragment ==
    ASSUME Underway, BufferSize >= HeaderSize
    PROVE  \E m \in fragments :
              /\ m.at = pos /\ Here = {m} /\ m.state # "header"
              /\ m.state = "intact" <=> End(m) <= end_of_buffer_offset_
              /\ ~eof_ => m.state = "intact"
              /\ m.state # "intact" => size < End(m)
<1> USE DEF HeaderSize
<1>1. /\ pos \in Nat /\ end_of_buffer_offset_ \in Nat /\ size \in Nat
      /\ BlockSize \in Nat /\ BlockSize > 7
      /\ \A f \in fragments :
            /\ f.at \in Nat /\ End(f) \in Nat /\ f.at + 7 <= End(f)
            /\ f.at < size /\ (f.state = "intact" => End(f) <= size)
  BY PlacesAre DEF Underway
<1>2. pos + 7 <= end_of_buffer_offset_ /\ end_of_buffer_offset_ <= size
  BY <1>1 DEF BufferSize, Underway, Buffered
<1>3. PICK b \in Nat : BlockStart(b) /\ b <= pos /\ end_of_buffer_offset_ <= b + BlockSize
  BY DEF Underway, Buffered
<1> DEFINE S == {f.at : f \in {g \in fragments : pos <= g.at}}
<1>4. S # {}
  <2>1. PICK f \in fragments : size < End(f) + 7
    BY <1>1, <1>2 DEF Underway, Tiled
  <2>2. ~(f.at < pos)
    <3> SUFFICES ASSUME f.at < pos PROVE FALSE
      OBVIOUS
    <3>1. End(f) <= pos
      BY DEF Underway, Outside
    <3> QED BY <1>1, <1>2, <2>1, <3>1
  <2>3. pos <= f.at
    BY <1>1, <2>2
  <2> QED BY <2>3
<1>5. PICK a : a \in S /\ \A x \in S : a <= x
  <2>1. S \subseteq Nat
    BY <1>1
  <2> HIDE DEF S
  <2> QED BY <1>4, <2>1, MinIsMin
<1>6. PICK m \in fragments : a = m.at /\ pos <= m.at
  BY <1>5
<1>7. \A f \in fragments : pos <= f.at => m.at <= f.at
  BY <1>5, <1>6
<1> HIDE DEF S
<1>8. m.at = pos
  <2> SUFFICES ASSUME pos < m.at PROVE FALSE
    BY <1>1, <1>6
  <2>1. PICK g \in fragments : After(g, m)
    BY <1>1 DEF Underway, Tiled
  <2>2. /\ End(g) <= m.at /\ m.at < End(g) + 7 /\ (m.at = End(g) \/ BlockStart(m.at))
    BY <2>1 DEF After, Follows
  <2>3. g.at < pos
    BY <1>1, <1>7, <2>2
  <2>4. End(g) <= pos
    BY <2>3 DEF Underway, Outside
  <2>5. BlockStart(m.at) /\ m.at < pos + 7
    BY <1>1, <2>2, <2>4
  <2>6. b < m.at /\ m.at < b + BlockSize
    BY <1>1, <1>2, <1>3, <2>5
  <2>7. b + BlockSize <= m.at
    BY <1>1, <1>3, <2>5, <2>6, NoBlockBetween
  <2> QED BY <1>1, <2>6, <2>7
<1>9. Here = {m}
  BY <1>8 DEF Here, Underway, FileInv, GoodFile
<1>10. m.state # "intact" => size < End(m) /\ (m.state = "header" => size < pos + 7)
  BY <1>8 DEF Underway, CutShort
<1>11. m.state # "header"
  BY <1>1, <1>2, <1>10
<1>12. m.state = "intact" => End(m) <= end_of_buffer_offset_
  <2> SUFFICES ASSUME m.state = "intact" PROVE End(m) <= end_of_buffer_offset_
    OBVIOUS
  <2>1. CASE eof_
    BY <1>1, <2>1 DEF Underway, Buffered
  <2>2. CASE ~eof_
    <3>1. BlockStart(end_of_buffer_offset_)
      BY <2>2 DEF Underway, Buffered
    <3>2. m.at < end_of_buffer_offset_ /\ Fits(m)
      BY <1>1, <1>2, <1>8 DEF Underway
    <3> QED BY <1>1, <3>1, <3>2, EndsBefore DEF Underway
  <2> QED BY <2>1, <2>2
<1>13. End(m) <= end_of_buffer_offset_ => m.state = "intact"
  BY <1>1, <1>2, <1>10
<1>14. ~eof_ => m.state = "intact"
  <2> SUFFICES ASSUME ~eof_ PROVE m.state = "intact"
    OBVIOUS
  <2>1. BlockStart(end_of_buffer_offset_) /\ m.at < end_of_buffer_offset_ /\ Fits(m)
    BY <1>1, <1>2, <1>8 DEF Underway, Buffered
  <2>2. End(m) <= end_of_buffer_offset_
    BY <1>1, <2>1, EndsBefore DEF Underway
  <2> QED BY <1>13, <2>2
<1> QED BY <1>8, <1>9, <1>10, <1>11, <1>12, <1>13, <1>14

LEMMA LengthIsKnown ==
    ASSUME FileInv, ReaderInv, NEW m \in fragments, m.at = pos, Here = {m},
           m.state \in {"intact", "payload"}
    PROVE  HeaderIntact /\ TooLong = {End(m) > end_of_buffer_offset_}
<1>1. HeaderIntact
  BY DEF HeaderIntact
<1>2. LengthAt = m.len
  <2>1. {f.len : f \in Here} = {m.len}
    OBVIOUS
  <2> QED BY <2>1 DEF LengthAt
<1>3. TooLong = {HeaderSize + m.len > BufferSize}
  BY <1>1, <1>2 DEF TooLong
<1>4. (HeaderSize + m.len > BufferSize) = (End(m) > end_of_buffer_offset_)
  <2>1. m \in FragmentType /\ pos \in Nat /\ end_of_buffer_offset_ \in Nat
    BY PlacesAre
  <2>2. m.len \in Nat /\ End(m) = pos + 7 + m.len
    BY <2>1, FragmentIs DEF End, HeaderSize
  <2> QED BY <2>1, <2>2 DEF BufferSize, HeaderSize
<1> QED BY <1>1, <1>3, <1>4

\* So nothing is dropped as corrupted.
LEMMA NothingDropped ==
    ASSUME Underway
    PROVE  ~BadLength /\ ~ZeroHeader /\ ~ChecksumMismatch
<1> SUFFICES ASSUME BadLength \/ ZeroHeader \/ ChecksumMismatch PROVE FALSE
  OBVIOUS
<1>1. BufferSize >= HeaderSize
  BY DEF BadLength, ZeroHeader, ChecksumMismatch, CanParse
<1>2. PICK m \in fragments :
              /\ m.at = pos /\ Here = {m} /\ m.state # "header"
              /\ m.state = "intact" <=> End(m) <= end_of_buffer_offset_
              /\ ~eof_ => m.state = "intact"
  BY <1>1, NextFragment
<1>3. m.state \in {"intact", "payload"}
  BY <1>2, PlacesAre DEF Underway
<1>4. HeaderIntact /\ TooLong = {End(m) > end_of_buffer_offset_}
  BY <1>2, <1>3, LengthIsKnown DEF Underway
<1>7. end_of_buffer_offset_ \in Nat /\ End(m) \in Nat
  BY PlacesAre DEF Underway
<1>8. CASE BadLength
  <2>1. ~eof_ /\ TRUE \in TooLong
    BY <1>8 DEF BadLength, MayHaveDied
  <2>2. End(m) > end_of_buffer_offset_
    BY <1>4, <2>1
  <2> QED BY <1>2, <1>7, <2>1, <2>2
<1>9. CASE ZeroHeader
  BY <1>4, <1>9 DEF ZeroHeader
<1>10. CASE ChecksumMismatch
  <2>1. FALSE \in TooLong /\ m.state # "intact"
    BY <1>2, <1>10 DEF ChecksumMismatch
  <2>2. ~(End(m) > end_of_buffer_offset_)
    BY <1>4, <2>1
  <2> QED BY <1>2, <1>7, <2>1, <2>2
<1> QED BY <1>8, <1>9, <1>10

\* Where the reader stops, it has passed all that is there as a whole.
LEMMA AllPassed ==
    ASSUME Underway, EndOfFile \/ WriterDied
    PROVE  \A f \in fragments : f.state = "intact" => f.at < pos
<1> SUFFICES ASSUME NEW f \in fragments, f.state = "intact", ~(f.at < pos) PROVE FALSE
  OBVIOUS
<1>1. /\ pos \in Nat /\ end_of_buffer_offset_ \in Nat /\ size \in Nat
      /\ f.at \in Nat /\ End(f) \in Nat /\ f.at + 7 <= End(f) /\ f.at < size /\ End(f) <= size
  BY PlacesAre DEF Underway
<1>2. CASE EndOfFile
  <2>1. size <= end_of_buffer_offset_ /\ end_of_buffer_offset_ - pos < 7
    BY <1>2 DEF EndOfFile, Underway, Buffered, BufferSize, HeaderSize
  <2> QED BY <1>1, <2>1
<1>3. CASE WriterDied
  <2>1. BufferSize >= HeaderSize /\ TRUE \in TooLong
    BY <1>3 DEF WriterDied, CanParse
  <2>2. PICK m \in fragments :
              /\ m.at = pos /\ Here = {m} /\ m.state # "header"
              /\ m.state = "intact" <=> End(m) <= end_of_buffer_offset_
              /\ ~eof_ => m.state = "intact"
              /\ m.state # "intact" => size < End(m)
    BY <2>1, NextFragment
  <2>3. m.state # "intact"
    <3>1. m.state \in {"intact", "payload"} /\ End(m) \in Nat
      BY <2>2, PlacesAre DEF Underway
    <3>2. TooLong = {End(m) > end_of_buffer_offset_}
      BY <2>2, <3>1, LengthIsKnown DEF Underway
    <3>3. End(m) > end_of_buffer_offset_
      BY <2>1, <3>2
    <3> QED BY <1>1, <2>2, <3>1, <3>3
  <2>4. m # f /\ m.at # f.at
    BY <2>2, <2>3 DEF Underway, FileInv, GoodFile
  <2>5. End(m) <= f.at
    <3>1. m.at < f.at
      BY <1>1, <2>2, <2>4
    <3> QED BY <3>1 DEF Underway, Tiled
  <2>6. End(m) \in Nat
    BY PlacesAre DEF Underway
  <2> QED BY <1>1, <2>2, <2>3, <2>5, <2>6
<1> QED BY <1>2, <1>3

\* What is read before a fragment that goes on with a wanted record is being collected.
LEMMA CollectingBefore ==
    ASSUME Underway, NEW f \in fragments, f.at = pos, f.type \in {"middle", "last"}, Sought(f)
    PROVE  in_fragmented_record
<1>1. f.nth > 1
  <2>1. f.nth # 1 /\ f.nth \in Nat \ {0}
    BY PlacesAre, FragmentIs DEF Underway, FileInv, GoodFile
  <2> QED BY <2>1
<1>2. PICK g \in fragments : GoesOn(f, g)
  BY <1>1 DEF Underway, FileInv, GoodFile
<1>3. /\ g.at \in Nat /\ End(g) \in Nat /\ g.at + 7 <= End(g) /\ pos \in Nat
      /\ End(g) <= pos /\ pos < End(g) + 7
      /\ g.type \notin Ends /\ Sought(g)
  BY <1>2, PlacesAre DEF Underway, GoesOn, Ends, Sought, HeaderSize
<1>4. ASSUME NEW h \in fragments, g.at < h.at, h.at < pos
      PROVE  FALSE
  <2>1. End(g) <= h.at /\ End(h) <= f.at
    BY <1>4 DEF Underway, Tiled
  <2>2. h.at \in Nat /\ End(h) \in Nat /\ h.at + 7 <= End(h)
    BY PlacesAre DEF Underway
  <2> QED BY <1>3, <2>1, <2>2
<1>5. g.at < pos
  BY <1>3
<1> QED BY <1>3, <1>4, <1>5 DEF Underway, Pending

\* The reader goes on behind an intact fragment.
LEMMA GoesBehind ==
    ASSUME FileInv, ReaderInv, Buffered, NEW f \in fragments, Good(f), pos' = End(f),
           UNCHANGED <<fragments, size, eof_, end_of_buffer_offset_>>
    PROVE  /\ Buffered' /\ pos \in Nat /\ End(f) \in Nat /\ f.at = pos /\ pos < pos'
           /\ \A g \in fragments : g.at < pos' => g.at < pos \/ g = f
<1>1. /\ pos \in Nat /\ end_of_buffer_offset_ \in Nat /\ size \in Nat
      /\ f.at = pos /\ End(f) \in Nat /\ pos + 7 <= End(f) /\ End(f) <= end_of_buffer_offset_
      /\ f.state = "intact" /\ \A g \in fragments : g.at \in Nat
  BY PlacesAre DEF Good
<1>2. Buffered'
  <2>1. end_of_buffer_offset_ <= size
    BY <1>1 DEF Buffered
  <2>2. PICK b \in Nat : BlockStart(b) /\ b <= pos /\ end_of_buffer_offset_ <= b + BlockSize
    BY DEF Buffered
  <2>3. b <= pos'
    BY <1>1, <2>2
  <2> QED BY <2>1, <2>2, <2>3 DEF Buffered, BlockStart
<1>3. ASSUME NEW g \in fragments, g.at < pos'
      PROVE  g.at < pos \/ g = f
  <2> SUFFICES ASSUME ~(g.at < pos), g # f PROVE FALSE
    OBVIOUS
  <2>1. g.at # f.at
    BY DEF FileInv, GoodFile
  <2>2. f.at < g.at
    BY <1>1, <2>1
  <2>3. End(f) <= g.at
    BY <1>1, <2>2 DEF FileInv, GoodFile
  <2> QED BY <1>1, <1>3, <2>3
<1> QED BY <1>1, <1>2, <1>3

\* The reader has gone on behind f, whatever it has made of it.
LEMMA Advanced ==
    ASSUME Underway, NEW f \in fragments, Good(f), pos' = End(f),
           UNCHANGED <<fragments, size, written, eof_, end_of_buffer_offset_, initial_offset_,
                       reading>>,
           Returned \subseteq Returned',
           Sought(f) /\ f.type \in Ends => f.rec \in Returned',
           Sought(f) /\ f.type \notin Ends => in_fragmented_record'
    PROVE  (Buffered /\ Outside /\ Found /\ Pending)'
<1>1. /\ Buffered' /\ pos \in Nat /\ End(f) \in Nat /\ f.at = pos /\ pos < pos'
      /\ \A g \in fragments : g.at < pos' => g.at < pos \/ g = f
  BY GoesBehind DEF Underway
<1>2. Outside'
  <2> SUFFICES ASSUME NEW g \in fragments, g.at < pos' PROVE End(g) <= pos'
    BY DEF Outside, End
  <2>1. CASE g = f
    BY <1>1, <2>1
  <2>2. CASE g.at < pos
    <3>1. End(g) <= pos /\ End(g) \in Nat
      BY <2>2, PlacesAre DEF Underway, Outside
    <3> QED BY <1>1, <3>1
  <2> QED BY <1>1, <2>1, <2>2
<1>3. Found'
  <2> SUFFICES ASSUME NEW g \in fragments, g.at < pos', Sought(g), g.type \in Ends
               PROVE  g.rec \in Returned'
    BY DEF Found, Passed, Sought, Underway
  <2>1. g.at < pos => g.rec \in Returned
    BY DEF Underway, Found, Passed
  <2> QED BY <1>1, <2>1
<1>4. Pending'
  <2> SUFFICES ASSUME NEW g \in fragments, g.at < pos', Sought(g), g.type \notin Ends,
                      \A h \in fragments : ~(g.at < h.at /\ h.at < pos')
               PROVE  in_fragmented_record'
    BY DEF Pending, Sought
  <2>1. ~(g.at < pos)
    BY <1>1
  <2> QED BY <1>1, <2>1
<1> QED BY <1>1, <1>2, <1>3, <1>4

Progress == Buffered /\ Outside /\ Pending /\ Found /\ Within /\ Silent

\* A record is returned.
LEMMA ReturnedMore ==
    ASSUME ReaderInv, NEW r \in Seq(fragments), out' = Append(out, r)
    PROVE  /\ Returned' = Returned \cup {r[1].rec}
           /\ DOMAIN out \subseteq DOMAIN out'
           /\ \E k \in DOMAIN out' : out'[k] = r
           /\ \A i \in DOMAIN out' : out'[i] = r \/ (i \in DOMAIN out /\ out'[i] = out[i])
<1>1. /\ out \in Seq(Seq(fragments)) /\ Len(out) \in Nat /\ DOMAIN out = 1..Len(out)
  BY LenProperties DEF ReaderInv, ReaderType
<1>2. /\ out' \in Seq(Seq(fragments)) /\ Len(out') = Len(out) + 1
      /\ \A i \in 1..Len(out) : out'[i] = out[i]
      /\ out'[Len(out) + 1] = r
  BY <1>1, AppendProperties
<1>3. DOMAIN out' = 1..Len(out) + 1
  BY <1>2, LenProperties
<1>4. DOMAIN out \subseteq DOMAIN out' /\ Len(out) + 1 \in DOMAIN out'
  BY <1>1, <1>3
<1>5. \A i \in DOMAIN out' : i = Len(out) + 1 \/ i \in DOMAIN out
  BY <1>1, <1>3
<1>6. Returned' = Returned \cup {r[1].rec}
  BY <1>1, <1>2, <1>4, <1>5 DEF Returned
<1> QED BY <1>1, <1>2, <1>4, <1>5, <1>6

\* No wanted record begins before the block that the reader starts with.
LEMMA InitialBlockIs ==
    ASSUME NEW offset \in Nat
    PROVE  /\ InitialBlock(offset) \in Nat /\ BlockStart(InitialBlock(offset))
           /\ \A x \in Nat : offset <= x /\ x < InitialBlock(offset)
                                 => InitialBlock(offset) < x + HeaderSize
<1>1. BlockSize \in Nat /\ BlockSize > 7
  BY BlockAssumption DEF HeaderSize
<1>2. PICK q : q = offset \div BlockSize
  OBVIOUS
<1>3. PICK r : r = offset % BlockSize
  OBVIOUS
<1>4. q \in Nat /\ r \in Nat /\ r < BlockSize /\ offset = BlockSize * q + r
  BY <1>1, <1>2, <1>3
<1>5. BlockSize * q \in Nat /\ BlockSize * (q + 1) = BlockSize * q + BlockSize
  BY <1>1, <1>4
<1>6. /\ BlockStart(BlockSize * q) /\ BlockStart(BlockSize * (q + 1))
  <2>1. BlockSize * q = q * BlockSize /\ BlockSize * (q + 1) = (q + 1) * BlockSize
        /\ q + 1 \in Nat
    BY <1>1, <1>4
  <2> QED BY <1>4, <2>1 DEF BlockStart
<1>7. CASE r > BlockSize - 6
  <2>1. InitialBlock(offset) = BlockSize * (q + 1)
    BY <1>2, <1>3, <1>7 DEF InitialBlock, BlockOf
  <2> QED BY <1>1, <1>4, <1>5, <1>6, <1>7, <2>1 DEF HeaderSize
<1>8. CASE ~(r > BlockSize - 6)
  <2>1. InitialBlock(offset) = BlockSize * q
    BY <1>2, <1>3, <1>8 DEF InitialBlock, BlockOf
  <2> QED BY <1>1, <1>4, <1>5, <1>6, <2>1
<1> QED BY <1>7, <1>8

\* The reader starts at a block, and no record that is wanted begins before it.
LEMMA StartsAtBlock ==
    ASSUME FileInv, ReaderInv, \A f \in fragments : Fits(f), ~eof_,
           NEW offset \in Offsets, StartReading(offset)
    PROVE  /\ Buffered' /\ pos' \in Nat /\ offset \in Nat
           /\ \A f \in fragments :
                 f.at < pos' => /\ End(f) <= pos'
                                /\ \A s \in Nat : s <= f.at => ~(s >= offset)
<1>1. PICK p : p = InitialBlock(offset)
  OBVIOUS
<1>2. /\ offset \in Nat /\ p \in Nat /\ BlockStart(p)
      /\ \A x \in Nat : offset <= x /\ x < p => p < x + 7
  BY <1>1, InitialBlockIs, BoundsAssumption DEF HeaderSize
<1>3. pos' = p /\ end_of_buffer_offset_' = p /\ UNCHANGED <<fragments, size, eof_>>
  BY <1>1 DEF StartReading, fileVars
<1>4. BlockSize \in Nat /\ \A f \in fragments : f.at \in Nat /\ End(f) \in Nat /\ f.at + 7 <= End(f)
  BY PlacesAre
<1>5. \A f \in fragments : f.at < p => End(f) <= p
  BY <1>2, EndsBefore
<1>6. ASSUME NEW f \in fragments, f.at < p, NEW s \in Nat, s <= f.at, s >= offset
      PROVE  FALSE
  <2>1. offset <= f.at
    BY <1>2, <1>4, <1>6
  <2>2. p < f.at + 7 /\ End(f) <= p
    BY <1>2, <1>4, <1>5, <1>6, <2>1
  <2> QED BY <1>2, <1>4, <2>2
<1>7. Buffered'
  <2>1. p <= p /\ p <= p + BlockSize
    BY <1>2, <1>4
  <2> QED BY <1>2, <1>3, <2>1 DEF Buffered, BlockStart
<1> QED BY <1>2, <1>3, <1>5, <1>6, <1>7

LEMMA PlainStarts ==
    ASSUME FileInv, ReaderInv, Recorded, \A f \in fragments : Fits(f),
           ~eof_, reported = {}, NEW offset \in Offsets, StartReading(offset)
    PROVE  Progress'
<1>1. /\ initial_offset_' = offset /\ reading' = "yes" /\ resyncing_' = (offset > 0)
      /\ UNCHANGED <<fragments, written, scratch, in_fragmented_record, out, reported>>
      /\ out = <<>> /\ ~in_fragmented_record
  BY DEF StartReading, fileVars, writerVars, ReaderInv, ReaderType
<1>2. /\ Buffered' /\ offset \in Nat
      /\ \A f \in fragments :
            f.at < pos' => End(f) <= pos' /\ ~(written[f.rec].start >= offset)
  BY StartsAtBlock DEF Recorded
<1>3. Outside'
  BY <1>1, <1>2 DEF Outside, End
<1>4. Found' /\ Pending'
  BY <1>1, <1>2 DEF Found, Pending, Passed, Sought
<1>5. Within'
  BY <1>1 DEF Within
<1>6. Silent'
  <2>1. offset = 0 => ~resyncing_'
    <3> SUFFICES ASSUME offset = 0 PROVE ~resyncing_'
      OBVIOUS
    <3>1. ~(offset > 0)
      BY <1>2
    <3> QED BY <1>1, <3>1, Zenon
  <2> QED BY <1>1, <2>1 DEF Silent
<1> QED BY <1>2, <1>3, <1>4, <1>5, <1>6 DEF Progress

\* Between the reader's place and the end of its buffer there is nothing but a trailer.
LEMMA ReadsNextBlock ==
    ASSUME FileInv, ReaderInv, Buffered, \A f \in fragments : Fits(f), ReadBlock
    PROVE  /\ Buffered' /\ reading' = "yes"
           /\ UNCHANGED <<fragments, size, written, initial_offset_, recordVars, reported>>
           /\ \A f \in fragments : (f.at < pos' <=> f.at < pos) /\ (f.at < pos' => End(f) <= pos')
<1>1. PICK got : got = IF size <= end_of_buffer_offset_ THEN 0
                       ELSE IF size - end_of_buffer_offset_ < BlockSize
                            THEN size - end_of_buffer_offset_ ELSE BlockSize
  OBVIOUS
<1>2. PICK e : e = end_of_buffer_offset_
  OBVIOUS
<1>3. /\ pos' = e /\ end_of_buffer_offset_' = e + got /\ reading' = "yes"
      /\ eof_' = (got < BlockSize) /\ e - pos < 7 /\ ~eof_
      /\ UNCHANGED <<fragments, size, written, initial_offset_, recordVars, reported>>
  BY <1>1, <1>2 DEF ReadBlock, fileVars, writerVars, BufferSize, HeaderSize
<1>4. /\ pos \in Nat /\ e \in Nat /\ pos <= e /\ size \in Nat /\ BlockSize \in Nat
      /\ BlockSize > 7
      /\ \A f \in fragments : f.at \in Nat /\ End(f) \in Nat /\ f.at + 7 <= End(f)
  BY <1>2, PlacesAre
<1>5. BlockStart(e)
  BY <1>2, <1>3 DEF Buffered
<1>6. Buffered'
  <2>1. got \in Nat /\ got <= BlockSize
    BY <1>1, <1>2, <1>4
  <2>2. eof_' => size <= e + got
    <3>1. eof_' => got < BlockSize
      BY <1>3, Zenon
    <3> QED BY <1>1, <1>2, <1>4, <3>1
  <2>3. ~eof_' => BlockStart(e + got)
    <3>1. ~eof_' => ~(got < BlockSize)
      BY <1>3, Zenon
    <3>2. ~eof_' => got = BlockSize
      BY <1>4, <2>1, <3>1
    <3> QED BY <1>4, <1>5, <3>2, NextBlock
  <2>4. e = e + got \/ e + got <= size
    BY <1>1, <1>2, <1>4
  <2>5. e <= e /\ e + got <= e + BlockSize
    BY <1>4, <2>1
  <2> QED BY <1>3, <1>4, <1>5, <2>2, <2>3, <2>4, <2>5 DEF Buffered, BlockStart
<1>7. ASSUME NEW f \in fragments, f.at < e
      PROVE  f.at < pos /\ End(f) <= e
  <2>1. Fits(f)
    OBVIOUS
  <2>2. End(f) <= e
    BY <1>4, <1>5, <1>7, <2>1, EndsBefore
  <2> QED BY <1>3, <1>4, <2>2
<1>8. \A f \in fragments : f.at < pos => f.at < e
  BY <1>4
<1> QED BY <1>3, <1>6, <1>7, <1>8

LEMMA PlainReadsBlock ==
    ASSUME Underway, ReadBlock
    PROVE  Progress'
<1>1. /\ Buffered' /\ reading' = "yes" /\ reading = "yes"
      /\ UNCHANGED <<fragments, written, initial_offset_, resyncing_, scratch,
                     in_fragmented_record, out, reported>>
      /\ \A f \in fragments : (f.at < pos' <=> f.at < pos) /\ (f.at < pos' => End(f) <= pos')
  BY ReadsNextBlock DEF Underway, recordVars
<1>2. Outside'
  BY <1>1 DEF Outside, End
<1>3. Found' /\ Pending'
  BY <1>1 DEF Underway, Found, Pending, Passed, Sought, Returned
<1>4. Within' /\ Silent'
  BY <1>1 DEF Underway, Within, Silent, Last
<1> QED BY <1>1, <1>2, <1>3, <1>4 DEF Progress

LEMMA PlainStops ==
    ASSUME Underway, EndOfFile \/ WriterDied
    PROVE  reading' = "done" /\ Found' /\ Within' /\ Silent'
<1>1. /\ reading' = "done"
      /\ UNCHANGED <<fragments, written, initial_offset_, out, reported>>
  BY DEF EndOfFile, WriterDied, Stop, fileVars, writerVars
<1>2. Found'
  BY <1>1, AllPassed DEF Underway, Found, Passed, Sought, Returned
<1> QED BY <1>1, <1>2 DEF Underway, Within, Silent, Last

\* What is not collected was not wanted.
LEMMA PlainSkips ==
    ASSUME Underway, NEW f \in fragments, TooEarly(f) \/ Resync(f)
    PROVE  Progress'
<1>1. /\ Good(f) /\ pos' = End(f)
      /\ UNCHANGED <<fragments, size, written, eof_, end_of_buffer_offset_, initial_offset_,
                     reading, out, reported>>
  BY DEF TooEarly, Resync, fileVars, writerVars
<1>2. ~in_fragmented_record'
  <2>1. Resync(f) => resyncing_ /\ in_fragmented_record' = in_fragmented_record
    BY DEF Resync
  <2>2. TooEarly(f) => in_fragmented_record' = FALSE
    BY DEF TooEarly, InFragmentedAfterBad
  <2> QED BY <2>1, <2>2 DEF Underway, ReaderInv, Collecting
<1>3. ~Sought(f) /\ initial_offset_ # 0
  <2>1. CASE TooEarly(f)
    <3>1. /\ written[f.rec].start \in Nat /\ written[f.rec].start <= f.at
          /\ f.at \in Nat /\ initial_offset_ \in Nat
      BY PlacesAre DEF Underway, Recorded
    <3>2. f.at < initial_offset_
      BY <2>1 DEF TooEarly
    <3> QED BY <3>1, <3>2 DEF Sought
  <2>2. CASE Resync(f)
    <3>1. resyncing_ /\ f.type \in {"middle", "last"} /\ f.at = pos
      BY <1>1, <2>2 DEF Resync, Good
    <3>2. ~in_fragmented_record
      BY <3>1 DEF Underway, ReaderInv, Collecting
    <3> QED BY <3>1, <3>2, CollectingBefore DEF Underway, Silent
  <2> QED BY <2>1, <2>2
<1>4. Returned' = Returned
  BY <1>1 DEF Returned
<1>5. (Buffered /\ Outside /\ Found /\ Pending)'
  BY <1>1, <1>3, <1>4, Advanced
<1>6. Within'
  BY <1>1, <1>2 DEF Underway, Within, Last
<1>7. Silent'
  BY <1>1, <1>3 DEF Silent
<1> QED BY <1>5, <1>6, <1>7 DEF Progress

\* No record begins while another one is being collected.
LEMMA NothingUnfinished ==
    ASSUME Underway, NEW f \in fragments, f.at = pos, f.nth = 1
    PROVE  ~in_fragmented_record
<1> SUFFICES ASSUME in_fragmented_record PROVE FALSE
  OBVIOUS
<1>1. PICK g : g = scratch[Len(scratch)]
  OBVIOUS
<1>2. /\ Begun(scratch) /\ Behind(g) /\ g.type \in {"first", "middle"}
      /\ scratch \in Seq(fragments) /\ scratch # <<>>
  BY <1>1 DEF Underway, ReaderInv, Collecting, ReaderType, Begun
<1>3. g \in fragments
  <2>1. Len(scratch) \in Nat \ {0}
    BY <1>2, FirstOfRecord
  <2>2. Len(scratch) \in 1..Len(scratch)
    BY <2>1
  <2> QED BY <1>1, <1>2, <2>2, ElementOfSeq
<1>4. /\ f.at \in Nat /\ End(g) \in Nat /\ g.at + 7 <= End(g) /\ g.at \in Nat
      /\ End(g) <= f.at /\ f.at < End(g) + HeaderSize
  BY <1>2, <1>3, PlacesAre DEF Underway, Behind
<1>5. f.at # 0
  BY <1>4
<1>6. PICK h \in fragments : After(h, f)
  BY <1>5 DEF Underway, Tiled
<1>7. h = g
  BY <1>3, <1>4, <1>6, OneBehind DEF Underway, After, Follows
<1> QED BY <1>2, <1>6, <1>7 DEF After, Ends

\* A record that is returned was wanted.
LEMMA ReturnedWithin ==
    ASSUME Underway, NEW r \in Seq(fragments), out' = Append(out, r),
           UNCHANGED <<initial_offset_, fragments>>, ~in_fragmented_record',
           r[1].at >= initial_offset_, Last(r).state = "intact"
    PROVE  Within'
<1>1. \A i \in DOMAIN out' : out'[i] = r \/ (i \in DOMAIN out /\ out'[i] = out[i])
  BY ReturnedMore DEF Underway
<1>2. ASSUME NEW i \in DOMAIN out'
      PROVE  out'[i][1].at >= initial_offset_' /\ Last(out'[i]).state = "intact"
  <2>1. CASE out'[i] = r
    BY <2>1
  <2>2. CASE i \in DOMAIN out /\ out'[i] = out[i]
    BY <2>2 DEF Underway, Within
  <2> QED BY <1>1, <2>1, <2>2
<1> QED BY <1>2 DEF Within, Last

LEMMA PlainBegins ==
    ASSUME Underway, NEW f \in fragments, Assemble(f), Beginning(f)
    PROVE  Progress'
<1>1. /\ Good(f) /\ pos' = End(f) /\ f.at >= initial_offset_ /\ ~resyncing_'
      /\ UNCHANGED <<fragments, size, written, eof_, end_of_buffer_offset_, initial_offset_,
                     reading>>
      /\ f.type \in {"full", "first"}
      /\ f.type = "full" => out' = Append(out, <<f>>) /\ ~in_fragmented_record'
      /\ f.type # "full" => out' = out /\ scratch' = <<f>> /\ in_fragmented_record'
  BY DEF Assemble, Beginning, fileVars, writerVars
<1>2. f.at = pos /\ f.nth = 1 /\ f.state = "intact"
  BY <1>1 DEF Good, Underway, FileInv, GoodFile
<1>3. reported' = reported
  BY <1>2, NothingUnfinished DEF Beginning
<1>4. <<f>> \in Seq(fragments) /\ <<f>>[1] = f /\ Last(<<f>>) = f
  BY DEF Last
<1>5. Returned \subseteq Returned' /\ (f.type = "full" => f.rec \in Returned')
  <2>1. CASE f.type = "full"
    <3>1. Returned' = Returned \cup {<<f>>[1].rec}
      BY <1>1, <1>4, <2>1, ReturnedMore DEF Underway
    <3> QED BY <1>4, <3>1
  <2>2. CASE f.type # "full"
    BY <1>1, <2>2 DEF Returned
  <2> QED BY <2>1, <2>2
<1>6. (Buffered /\ Outside /\ Found /\ Pending)'
  <2>1. f.type \in Ends => f.type = "full"
    BY <1>1 DEF Ends
  <2>2. f.type \notin Ends => in_fragmented_record'
    BY <1>1 DEF Ends
  <2> QED BY <1>1, <1>5, <2>1, <2>2, Advanced
<1>7. Within'
  <2>1. CASE f.type = "full"
    BY <1>1, <1>2, <1>4, <2>1, ReturnedWithin
  <2>2. CASE f.type # "full"
    <3>1. scratch'[1] = f
      BY <1>1, <1>4, <2>2
    <3> QED BY <1>1, <2>2, <3>1 DEF Underway, Within, Last
  <2> QED BY <2>1, <2>2
<1>8. Silent'
  BY <1>1, <1>3 DEF Underway, Silent
<1> QED BY <1>6, <1>7, <1>8 DEF Progress

LEMMA PlainContinues ==
    ASSUME Underway, NEW f \in fragments, Assemble(f), Continuation(f)
    PROVE  Progress'
<1>1. /\ Good(f) /\ pos' = End(f) /\ f.at >= initial_offset_ /\ ~resyncing_'
      /\ UNCHANGED <<fragments, size, written, eof_, end_of_buffer_offset_, initial_offset_,
                     reading>>
      /\ f.type \in {"middle", "last"} /\ f.at = pos /\ f.state = "intact"
  BY DEF Assemble, Continuation, fileVars, writerVars, Good
<1>2. CASE ~in_fragmented_record
  <2>1. ~Sought(f)
    BY <1>1, <1>2, CollectingBefore
  <2>2. initial_offset_ # 0
    <3>1. written[f.rec].start \in Nat
      BY DEF Underway, Recorded
    <3> QED BY <2>1, <3>1 DEF Sought
  <2>3. ~in_fragmented_record' /\ out' = out
    BY <1>2 DEF Continuation
  <2>4. Returned' = Returned
    BY <2>3 DEF Returned
  <2>5. (Buffered /\ Outside /\ Found /\ Pending)'
    BY <1>1, <2>1, <2>4, Advanced
  <2>6. Within'
    BY <1>1, <2>3 DEF Underway, Within, Last
  <2> QED BY <1>1, <2>2, <2>5, <2>6 DEF Progress, Silent
<1>3. CASE in_fragmented_record
  <2>1. PICK s : s = Append(scratch, f)
    OBVIOUS
  <2>2. /\ reported' = reported
        /\ f.type = "middle" => scratch' = s /\ in_fragmented_record' /\ out' = out
        /\ f.type # "middle" => out' = Append(out, s) /\ ~in_fragmented_record'
    BY <1>3, <2>1 DEF Continuation
  <2>3. scratch \in Seq(fragments) /\ scratch # <<>> /\ scratch[1].at >= initial_offset_
    BY <1>3 DEF Underway, ReaderInv, ReaderType, Collecting, Begun, Within
  <2>4. /\ s \in Seq(fragments) /\ s[1] = scratch[1] /\ Last(s) = f
        /\ Len(s) \in DOMAIN s /\ s[Len(s)] = f
    <3>1. Len(scratch) \in Nat \ {0}
      BY <2>3, FirstOfRecord
    <3>2. /\ s \in Seq(fragments) /\ Len(s) = Len(scratch) + 1
          /\ \A i \in 1..Len(scratch) : s[i] = scratch[i]
          /\ s[Len(scratch) + 1] = f
      BY <2>1, <2>3, AppendProperties
    <3>3. DOMAIN s = 1..Len(scratch) + 1
      BY <3>2, LenProperties
    <3> QED BY <3>1, <3>2, <3>3 DEF Last
  <2>5. s[1].at >= initial_offset_
    BY <2>3, <2>4
  <2>6. CASE f.type = "middle"
    <3>1. Returned' = Returned
      BY <2>2, <2>6 DEF Returned
    <3>2. (Buffered /\ Outside /\ Found /\ Pending)'
      BY <1>1, <2>2, <2>6, <3>1, Advanced DEF Ends
    <3>3. Within'
      BY <1>1, <2>2, <2>5, <2>6 DEF Underway, Within, Last
    <3> QED BY <1>1, <2>2, <3>2, <3>3 DEF Progress, Underway, Silent
  <2>7. CASE f.type # "middle"
    <3>1. ReaderInv'
      <4>1. Next
        BY DEF Next, ReadRecord
      <4> QED BY <4>1, ReaderNext DEF Underway
    <3>2. /\ Returned' = Returned \cup {s[1].rec}
          /\ \E k \in DOMAIN out' : out'[k] = s
      BY <2>2, <2>4, <2>7, ReturnedMore DEF Underway
    <3>3. Whole(s)
      BY <3>1, <3>2 DEF ReaderInv, Returning, Whole
    <3>4. f.rec = s[1].rec
      BY <2>4, <3>3 DEF Whole
    <3>5. (Buffered /\ Outside /\ Found /\ Pending)'
      <4>1. f.type \in Ends
        BY <1>1, <2>7 DEF Ends
      <4> QED BY <1>1, <3>2, <3>4, <4>1, Advanced
    <3>6. Within'
      BY <1>1, <2>2, <2>4, <2>5, <2>7, ReturnedWithin
    <3> QED BY <1>1, <2>2, <3>5, <3>6 DEF Progress, Underway, Silent
  <2> QED BY <2>6, <2>7
<1> QED BY <1>2, <1>3

LEMMA PlainReads ==
    ASSUME FileInv, FitInv, ReaderInv, Tiled, CutShort, Recorded, Plain, PlainReader, Reads
    PROVE  PlainReader'
<1>1. \A f \in fragments : Fits(f)
  BY DEF FitInv, Plain
<1>2. CASE \E offset \in Offsets : StartReading(offset)
  <2>1. PICK offset \in Offsets : StartReading(offset)
    BY <1>2
  <2>2. reading = "no" /\ reading' = "yes" /\ initial_offset_' \in Nat
    BY <2>1, BoundsAssumption DEF StartReading
  <2>3. Progress'
    BY <1>1, <2>1, <2>2, PlainStarts DEF PlainReader
  <2> QED BY <2>2, <2>3 DEF Progress, PlainReader
<1>3. CASE ReadRecord
  <2>1. reading = "yes" /\ initial_offset_' = initial_offset_
    BY <1>3 DEF ReadRecord, ReadBlock, EndOfFile, WriterDied, BadLength, ZeroHeader,
                ChecksumMismatch, BadRecord, TooEarly, Resync, Assemble, Good, CanParse
  <2>2. Underway
    BY <1>1, <2>1 DEF Underway, PlainReader
  <2>3. CASE EndOfFile \/ WriterDied
    BY <2>1, <2>2, <2>3, PlainStops DEF PlainReader
  <2>4. CASE ~(EndOfFile \/ WriterDied)
    <3>1. \/ ReadBlock
          \/ \E f \in fragments : TooEarly(f) \/ Resync(f) \/ Assemble(f)
      BY <1>3, <2>2, <2>4, NothingDropped DEF ReadRecord
    <3>2. Progress'
      BY <2>2, <3>1, PlainReadsBlock, PlainSkips, PlainBegins, PlainContinues DEF Assemble
    <3>3. reading' = "yes"
      BY <2>1, <3>1 DEF ReadBlock, TooEarly, Resync, Assemble
    <3> QED BY <2>1, <3>2, <3>3 DEF Progress, PlainReader
  <2> QED BY <2>3, <2>4
<1> QED BY <1>2, <1>3 DEF Reads

LEMMA PlainReaderNext ==
    FileInv /\ FitInv /\ PlainFile /\ ReaderInv /\ PlainReader /\ [Next]_vars => PlainReader'
<1> SUFFICES ASSUME FileInv, FitInv, PlainFile, ReaderInv, PlainReader, [Next]_vars
             PROVE  PlainReader'
  OBVIOUS
<1>1. CASE Write \/ Crash \/ Damage
  <2>1. reading = "no" /\ UNCHANGED <<reading, initial_offset_, eof_, reported>>
    BY <1>1 DEF Write, AddRecord, EmitPhysicalRecord, EmitFails, ReopenWriter, Crash, Damage,
                readerVars, bufferVars
  <2> QED BY <2>1 DEF PlainReader
<1>2. CASE UNCHANGED vars
  BY <1>2 DEF vars, fileVars, writerVars, readerVars, bufferVars, recordVars, PlainReader,
              Plain, Happened, Buffered, Outside, Pending, Found, Within, Silent, Passed,
              Sought, Returned, Last, End, BlockStart
<1>3. CASE Reads
  <2>1. reading = "no" => reading' = "yes" /\ initial_offset_' \in Nat
    BY <1>3, BoundsAssumption
    DEF Reads, StartReading, ReadRecord, ReadBlock, EndOfFile, WriterDied, BadLength,
        ZeroHeader, ChecksumMismatch, TooEarly, Resync, Assemble, Good, CanParse
  <2>2. reading # "no" => reading' # "no" /\ initial_offset_' = initial_offset_
    BY <1>3 DEF Reads, StartReading, ReadRecord, ReadBlock, EndOfFile, WriterDied, BadLength,
                ZeroHeader, ChecksumMismatch, BadRecord, TooEarly, Resync, Assemble, Good,
                CanParse, Stop
  <2>3. Plain' = Plain
    BY <1>3, ReadsOnly DEF Plain, Happened
  <2>4. CASE Plain
    BY <1>3, <2>4, PlainReads DEF PlainFile
  <2>5. CASE ~Plain
    BY <2>1, <2>2, <2>3, <2>5 DEF PlainReader
  <2> QED BY <2>4, <2>5
<1> QED BY <1>1, <1>2, <1>3 DEF Next, Reads

\* A reader that has come to the end has returned what it should, and nothing else.
LEMMA PlainIsRead ==
    ASSUME FileInv, ReaderInv, PlainFile, PlainReader
    PROVE  ReadsEverything
<1> SUFFICES ASSUME reading = "done", Plain
             PROVE  /\ Returned = {i \in DOMAIN written : Wanted(i)}
                    /\ initial_offset_ = 0 => reported = {}
  BY DEF ReadsEverything, Plain
<1>1. Recorded /\ Found /\ Within /\ Silent
  BY DEF PlainFile, PlainReader
<1>2. ASSUME NEW i \in DOMAIN written, Wanted(i)
      PROVE  i \in Returned
  <2>1. PICK f \in fragments : f.rec = i /\ f.type \in Ends /\ f.state = "intact"
    BY <1>1, <1>2 DEF Recorded, Wanted
  <2>2. Passed(f) /\ Sought(f)
    BY <1>2, <2>1 DEF Passed, Sought, Wanted
  <2> QED BY <1>1, <2>1, <2>2 DEF Found
<1>3. ASSUME NEW i \in DOMAIN out
      PROVE  out[i][1].rec \in DOMAIN written /\ Wanted(out[i][1].rec)
  <2>1. PICK r : r = out[i]
    OBVIOUS
  <2>2. /\ r \in Seq(fragments) /\ r # <<>> /\ r[1] \in fragments /\ r[1].nth = 1
        /\ Whole(r) /\ r[1].at >= initial_offset_ /\ Last(r).state = "intact"
    BY <1>1, <2>1, OutIs DEF ReaderInv, Returning, Within
  <2>3. Len(r) \in DOMAIN r /\ Last(r) \in fragments
    <3>1. Len(r) \in Nat \ {0} /\ DOMAIN r = 1..Len(r)
      BY <2>2, FirstOfRecord
    <3>2. Len(r) \in 1..Len(r)
      BY <3>1
    <3> QED BY <2>2, <3>1, <3>2, ElementOfSeq DEF Last
  <2>4. Last(r).rec = r[1].rec /\ Last(r).type \in Ends
    BY <2>2, <2>3 DEF Whole, Last, Ends
  <2>5. written[r[1].rec].complete /\ r[1].rec \in DOMAIN written
    BY <1>1, <2>2, <2>3, <2>4 DEF Recorded
  <2>6. written[r[1].rec].start = r[1].at
    BY <1>1, <2>2 DEF Recorded
  <2> QED BY <2>1, <2>2, <2>5, <2>6 DEF Wanted
<1> QED BY <1>1, <1>2, <1>3 DEF Returned, Silent

\* Recovery of a log that was written to its end, or up to a crash, loses no record that is
\* there as a whole: from every initial_offset_, Reader::ReadRecord returns exactly those
\* that begin at it or behind it, and a log read from its beginning is never taken for a
\* corrupted one.
THEOREM EverythingIsRead == Spec => []ReadsEverything
<1>1. Init => PlainReader
  BY DEF Init, PlainReader
<1>2. Spec => []FitInv
  BY FitInvariant
<1>3. Spec => []PlainFile
  BY PlainInvariant
<1>4. Spec => []ReaderInv
  BY ReaderInvariant
<1>5. FileInv /\ ReaderInv /\ PlainFile /\ PlainReader => ReadsEverything
  BY PlainIsRead
<1> QED BY <1>1, <1>2, <1>3, <1>4, <1>5, FileInvariant, PlainReaderNext, PTL DEF Spec

-----------------------------------------------------------------------------
(***************************************************************************)
(* A file that was cut, gone on with, and damaged; only no append failed.  *)
(***************************************************************************)
\* g is not all there, and p is where a part of it was or would have been.
Covers(g, p) == g.state # "intact" /\ g.at < p /\ p < End(g)
Joins(g, p) == Follows(End(g), p) \/ Covers(g, p)

\* There is no gap in the file.
Chained ==
    /\ \A f \in fragments : f.at = 0 \/ \E g \in fragments : Joins(g, f.at)
    /\ \/ size = 0
       \/ \E g \in fragments :
             \/ Covers(g, size)
             \/ \E q \in Nat : End(g) <= size /\ size <= q /\ Follows(End(g), q)

\* A complete record, and the one under way, has all its bytes in the file, and none of
\* them belong to another one.
Kept(i) == written[i].complete \/ (left # -1 /\ i = Len(written))
Unharmed ==
    \A f \in fragments : Kept(f.rec) =>
        /\ End(f) <= size
        /\ \A g \in fragments : f.at < g.at => End(f) <= g.at
        /\ f.type \notin Ends =>
               \/ \E h \in fragments : GoesOn(h, f)
               \/ ~written[f.rec].complete /\ f.nth = part

Dated ==
    /\ \A f \in fragments :
           /\ written[f.rec].start \in Nat /\ written[f.rec].start <= f.at
           /\ f.nth = 1 => written[f.rec].start = f.at
    /\ \A i \in DOMAIN written : written[i].complete => \E f \in fragments : f.rec = i

Untorn == ~Happened("crash") => \A f \in fragments : End(f) <= size

SoundFile == ~Happened("append") => Chained /\ Unharmed /\ Dated /\ Untorn

\* What the reader has passed lies behind it, unless it has given up.
Cleared ==
    \A f \in fragments : f.at < pos =>
        End(f) <= pos \/ (eof_ /\ pos = end_of_buffer_offset_ /\ ~in_fragmented_record)

\* A wanted record that the reader has met is returned, or being collected, or in E.
Had(i) == i \in Returned \/ (reading = "yes" /\ in_fragmented_record /\ i = scratch[1].rec)
Accounted(E) ==
    \A f \in fragments :
        (reading = "yes" => f.at < pos) /\ Wanted(f.rec) => f.rec \in E \/ Had(f.rec)

NearDamage == {i \in DOMAIN written : \E f \in Damaged : BlockOf(f.at) \in BlocksOf(i)}
Told == {i \in DOMAIN written : \E p \in reported : BlockOf(p) \in BlocksOf(i)}

OnlyPayloads ==
    initial_offset_ = 0 /\ ~Happened("crash") /\ \A f \in Damaged : f.state = "payload"

SoundReader ==
    /\ initial_offset_ \in Nat
    /\ reading = "no" => ~eof_ /\ reported = {}
    /\ ~Happened("append") /\ reading # "no" =>
          /\ reading = "yes" => Buffered /\ Cleared
          /\ Accounted(NearDamage)
          /\ OnlyPayloads => Accounted(Told) /\ (reading = "yes" => ~resyncing_)

-----------------------------------------------------------------------------
(***************************************************************************)
(* The Writer goes on where the file ends, and what it has completed stays *)
(* whole.                                                                  *)
(***************************************************************************)
LEMMA EmitIs ==
    ASSUME FileInv, EmitPhysicalRecord, NEW f, f = NewFragment, NEW n, n = Len(written)
    PROVE  /\ left # -1 /\ left \in Nat /\ part \in Nat /\ size \in Nat /\ n \in Nat /\ n > 0
           /\ block_offset_ # Closed
           /\ fragments' = fragments \cup {f} /\ size' = End(f)
           /\ block_offset_' = BlockOffsetAfter(f)
           /\ left' = (IF left = f.len THEN -1 ELSE left - f.len)
           /\ part' = part + 1 /\ events' = events
           /\ f \in FragmentType /\ f.state = "intact" /\ f.rec = n /\ f.nth = part + 1
           /\ size <= f.at
           /\ f.type \in {"full", "last"} <=> f.len = left
           /\ f.at \in Nat /\ f.len \in Nat /\ End(f) \in Nat /\ f.at + 7 <= End(f)
           /\ f.len <= left /\ BlockOffsetAfter(f) # Closed
           /\ DOMAIN written = 1..n /\ DOMAIN written' = 1..n /\ Len(written') = n
           /\ \A i \in 1..n :
                 /\ i # n => written'[i] = written[i]
                 /\ i = n => /\ written'[i].start = RecordStart(f)
                             /\ written'[i].complete = (left = f.len)
<1>1. /\ left # -1 /\ left \in Nat /\ part \in Nat /\ size \in Nat /\ n \in Nat /\ n > 0
      /\ block_offset_ # Closed
      /\ fragments' = fragments \cup {f} /\ size' = End(f)
      /\ block_offset_' = BlockOffsetAfter(f)
      /\ left' = (IF left = f.len THEN -1 ELSE left - f.len)
      /\ written' = [written EXCEPT ![n] =
                        [start |-> RecordStart(f), complete |-> left = f.len]]
      /\ part' = part + 1 /\ events' = events
  BY WrittenIs DEF EmitPhysicalRecord, FileInv, WriterType
<1>2. /\ f \in FragmentType /\ f.state = "intact" /\ f.rec = n /\ f.nth = part + 1
      /\ size <= f.at
      /\ f.type \in {"full", "last"} <=> f.len = left
      /\ f.at \in Nat /\ f.len \in Nat /\ End(f) \in Nat /\ f.at + 7 <= End(f)
      /\ f.len <= left /\ BlockOffsetAfter(f) # Closed
  BY <1>1, NewFragmentIs, FragmentIs, BlockAssumption DEF FileInv, Closed
<1>3. DOMAIN written = 1..n
  BY LenProperties DEF FileInv, WriterType
<1>4. ASSUME NEW i \in 1..n
      PROVE  /\ i # n => written'[i] = written[i]
             /\ i = n => /\ written'[i].start = RecordStart(f)
                         /\ written'[i].complete = (left = f.len)
  BY <1>1, <1>3
<1>5. DOMAIN written' = 1..n /\ Len(written') = n
  <2>1. /\ written' \in Seq([start : Nat \cup {-1}, complete : BOOLEAN]) /\ Len(written') = n
    BY <1>1, WrittenKept
  <2> QED BY <2>1, LenProperties
<1> QED BY <1>1, <1>2, <1>3, <1>4, <1>5

\* A fragment's record was begun; the one under way has fragments only up to its part.
LEMMA RecordsAre ==
    ASSUME FileInv, NEW f \in fragments
    PROVE  /\ f \in FragmentType /\ f.at \in Nat /\ End(f) \in Nat /\ f.at + 7 <= End(f)
           /\ f.nth \in Nat \ {0} /\ f.rec \in 1..Len(written) /\ f.rec \in DOMAIN written
           /\ DOMAIN written = 1..Len(written) /\ Len(written) \in Nat
           /\ f.type \in {"full", "first", "middle", "last"}
           /\ left # -1 /\ f.rec = Len(written) => f.nth <= part
<1>1. DOMAIN written = 1..Len(written) /\ Len(written) \in Nat
  BY LenProperties DEF FileInv, WriterType
<1>2. f \in FragmentType
  BY DEF FileInv, GoodFile
<1> QED BY <1>1, <1>2, FragmentIs DEF FileInv, UnderWay

\* One fragment at most is the n-th of record i.
LEMMA OneOfRecord ==
    ASSUME FileInv, NEW f \in fragments, NEW g \in fragments, f.rec = g.rec, f.nth = g.nth
    PROVE  f = g
<1>1. /\ f.at \in Nat /\ g.at \in Nat /\ f.rec \in Nat /\ f.nth \in Nat
  BY RecordsAre, FragmentIs
<1>2. ~Precedes(f, g) /\ ~Precedes(g, f)
  BY <1>1 DEF Precedes
<1>3. ~(f.at < g.at) /\ ~(g.at < f.at) /\ (f.at = g.at => f = g)
  BY <1>2 DEF FileInv, GoodFile
<1> QED BY <1>1, <1>3

LEMMA SoundAddRecord ==
    ASSUME FileInv, Chained, Unharmed, Dated, NEW n \in Sizes, AddRecord(n)
    PROVE  (Chained /\ Unharmed /\ Dated)'
<1> DEFINE r == [start |-> -1, complete |-> FALSE]
<1>1. /\ left = -1 /\ left' = n /\ part' = 0 /\ written' = Append(written, r)
      /\ UNCHANGED <<fragments, size>>
  BY DEF AddRecord, fileVars
<1>2. /\ Len(written) \in Nat /\ DOMAIN written = 1..Len(written)
      /\ DOMAIN written' = 1..Len(written) + 1 /\ Len(written') = Len(written) + 1
      /\ \A i \in 1..Len(written) : written'[i] = written[i]
      /\ written'[Len(written) + 1] = r
  <2>1. written' \in Seq([start : Nat \cup {-1}, complete : BOOLEAN])
    BY <1>1, AppendProperties DEF FileInv, WriterType
  <2> QED BY <1>1, <2>1, AppendProperties, LenProperties DEF FileInv, WriterType
<1>3. \A f \in fragments :
          /\ f.rec \in DOMAIN written' /\ written'[f.rec] = written[f.rec]
          /\ f.rec # Len(written')
  <2>1. \A f \in fragments : f.rec \in 1..Len(written)
    BY RecordsAre
  <2> QED BY <1>2, <2>1
<1>4. Chained'
  BY <1>1 DEF Chained, Covers, Joins, Follows, End, BlockStart
<1>5. Unharmed'
  <2> SUFFICES ASSUME NEW f \in fragments, Kept(f.rec)'
               PROVE  /\ End(f) <= size
                      /\ \A g \in fragments : f.at < g.at => End(f) <= g.at
                      /\ f.type \notin Ends => \E h \in fragments : GoesOn(h, f)
    BY <1>1 DEF Unharmed, GoesOn, End
  <2>1. Kept(f.rec) /\ written[f.rec].complete
    BY <1>3 DEF Kept
  <2> QED BY <2>1 DEF Unharmed
<1>6. Dated'
  <2>1. \A f \in fragments' :
           /\ written'[f.rec].start \in Nat /\ written'[f.rec].start <= f.at
           /\ f.nth = 1 => written'[f.rec].start = f.at
    BY <1>1, <1>3 DEF Dated
  <2>2. ASSUME NEW i \in DOMAIN written', written'[i].complete
        PROVE  \E f \in fragments' : f.rec = i
    <3>1. ~written'[Len(written) + 1].complete
      BY <1>2
    <3>2. i \in DOMAIN written /\ written[i].complete
      BY <1>2, <2>2, <3>1
    <3> QED BY <1>1, <3>2 DEF Dated
  <2> QED BY <2>1, <2>2 DEF Dated
<1> QED BY <1>4, <1>5, <1>6

\* A new fragment is joined to what is in the file.
LEMMA EmitJoins ==
    ASSUME FileInv, KnowsOffset, Chained, left # -1, NEW f, f = NewFragment, Fits(f)
    PROVE  f.at = 0 \/ \E g \in fragments : Joins(g, f.at)
<1>1. /\ f.at \in Nat /\ End(f) \in Nat /\ f.at + 7 <= End(f) /\ size \in Nat
      /\ BlockSize \in Nat /\ BlockSize > 7
  BY NewFragmentIs, FragmentIs, BlockAssumption DEF FileInv, WriterType, HeaderSize
<1>2. /\ size <= f.at /\ f.at < size + 7 /\ (f.at = size \/ BlockStart(f.at))
      /\ (size = 0 => f.at = 0)
  BY EmitFollows DEF Follows, HeaderSize
<1>3. CASE size = 0
  BY <1>2, <1>3
<1>4. ASSUME NEW g \in fragments, Covers(g, size)
      PROVE  Joins(g, f.at)
  <2>1. g.at \in Nat /\ End(g) \in Nat
    BY RecordsAre
  <2>2. CASE f.at < End(g)
    BY <1>1, <1>2, <1>4, <2>1, <2>2 DEF Covers, Joins
  <2>3. CASE End(g) <= f.at
    BY <1>1, <1>2, <1>4, <2>1, <2>3 DEF Covers, Joins, Follows, HeaderSize
  <2> QED BY <1>1, <2>1, <2>2, <2>3
<1>5. ASSUME NEW g \in fragments, NEW q \in Nat,
             End(g) <= size, size <= q, Follows(End(g), q)
      PROVE  Joins(g, f.at)
  <2>1. g.at \in Nat /\ End(g) \in Nat
    BY RecordsAre
  <2>2. q < End(g) + 7 /\ (q = End(g) \/ BlockStart(q))
    BY <1>5 DEF Follows, HeaderSize
  <2>3. ASSUME BlockStart(q), f.at < q
        PROVE  FALSE
    <3>1. \E b \in Nat : BlockStart(b) /\ b <= f.at /\ End(f) <= b + BlockSize
      BY DEF Fits
    <3>2. PICK b \in Nat : BlockStart(b) /\ b <= f.at /\ End(f) <= b + BlockSize
      BY <3>1
    <3>3. b + BlockSize <= q
      BY <1>1, <2>3, <3>2, NoBlockBetween
    <3> QED BY <1>1, <1>2, <1>5, <2>1, <2>2, <3>2, <3>3
  <2>4. ASSUME BlockStart(q), BlockStart(f.at), q < f.at
        PROVE  FALSE
    <3>1. q + BlockSize <= f.at
      BY <1>1, <2>4, NoBlockBetween
    <3> QED BY <1>1, <1>2, <1>5, <3>1
  <2>5. CASE f.at = size
    BY <1>1, <1>5, <2>1, <2>2, <2>3, <2>5 DEF Joins, Follows, HeaderSize
  <2>6. CASE f.at # size
    <3>1. CASE q = End(g)
      BY <1>1, <1>2, <1>5, <2>1, <2>6, <3>1 DEF Joins, Follows, HeaderSize
    <3>2. CASE BlockStart(q)
      <4>1. f.at = q
        BY <1>1, <1>2, <2>3, <2>4, <2>6, <3>2
      <4> QED BY <1>5, <4>1 DEF Joins
    <3> QED BY <2>2, <3>1, <3>2
  <2> QED BY <2>5, <2>6
<1> QED BY <1>3, <1>4, <1>5 DEF Chained

LEMMA SoundEmit ==
    ASSUME FileInv, KnowsOffset, Chained, Unharmed, Dated, EmitPhysicalRecord,
           \A f \in fragments' : Fits(f)
    PROVE  /\ (Chained /\ Unharmed /\ Dated)'
           /\ (\A f \in fragments : End(f) <= size) => \A f \in fragments' : End(f) <= size'
<1>1. PICK f : f = NewFragment
  OBVIOUS
<1>2. PICK n : n = Len(written)
  OBVIOUS
<1>3. /\ left # -1 /\ part \in Nat /\ size \in Nat /\ n \in Nat /\ n > 0
      /\ fragments' = fragments \cup {f} /\ size' = End(f)
      /\ left' = (IF left = f.len THEN -1 ELSE left - f.len)
      /\ part' = part + 1
      /\ f.rec = n /\ f.nth = part + 1
      /\ size <= f.at /\ f.at \in Nat /\ End(f) \in Nat /\ f.at + 7 <= End(f)
      /\ f.type \in {"full", "last"} <=> f.len = left
      /\ DOMAIN written = 1..n /\ DOMAIN written' = 1..n /\ Len(written') = n
      /\ \A i \in 1..n :
            /\ i # n => written'[i] = written[i]
            /\ i = n => /\ written'[i].start = RecordStart(f)
                        /\ written'[i].complete = (left = f.len)
  BY <1>1, <1>2, EmitIs
<1>4. f.at < size + HeaderSize
  BY <1>1, <1>3, NewFragmentIs DEF FileInv
<1>5. ASSUME NEW g \in fragments
      PROVE  /\ g.at \in Nat /\ End(g) \in Nat /\ g.at + 7 <= End(g) /\ g.at < size
             /\ g.nth \in Nat \ {0} /\ g.rec \in 1..n /\ (g.rec = n => g.nth <= part)
             /\ g.type \in {"full", "first", "middle", "last"}
  BY <1>2, <1>3, RecordsAre DEF FileInv, GoodFile
<1>6. ASSUME part > 0
      PROVE  \E g \in fragments : g.rec = n /\ g.nth = part /\ End(g) = size
  BY <1>2, <1>3, <1>6 DEF FileInv, UnderWay
<1>7. Chained'
  <2>1. f.at = 0 \/ \E g \in fragments : Joins(g, f.at)
    BY <1>1, <1>3, EmitJoins
  <2>2. \A g \in fragments' : g.at = 0 \/ \E h \in fragments' : Joins(h, g.at)
    BY <1>3, <2>1 DEF Chained
  <2>3. Follows(End(f), End(f)) /\ End(f) <= End(f)
    BY <1>3 DEF Follows, HeaderSize
  <2>4. \E g \in fragments' : \E q \in Nat :
            End(g) <= size' /\ size' <= q /\ Follows(End(g), q)
    BY <1>3, <2>3
  <2> QED BY <2>2, <2>4 DEF Chained, Joins, Covers, Follows, End, BlockStart
<1>8. ASSUME NEW i \in 1..n, Kept(i)'
      PROVE  Kept(i) /\ (~written[i].complete => i = n)
  BY <1>2, <1>3, <1>8 DEF Kept
<1>9. Unharmed'
  <2>1. ASSUME NEW g \in fragments, Kept(g.rec)'
        PROVE  /\ End(g) <= size /\ End(g) <= f.at /\ End(g) <= size'
               /\ \A h \in fragments : g.at < h.at => End(g) <= h.at
               /\ g.type \notin Ends => \E h \in fragments' : GoesOn(h, g)
    <3>1. Kept(g.rec) /\ (~written[g.rec].complete => g.rec = n)
      BY <1>5, <1>8, <2>1
    <3>2. /\ End(g) <= size
          /\ \A h \in fragments : g.at < h.at => End(g) <= h.at
          /\ g.type \notin Ends =>
                 \/ \E h \in fragments : GoesOn(h, g)
                 \/ ~written[g.rec].complete /\ g.nth = part
      BY <3>1 DEF Unharmed
    <3>3. ASSUME g.type \notin Ends, ~written[g.rec].complete, g.nth = part
          PROVE  GoesOn(f, g)
      <4>1. g.rec = n /\ part > 0
        BY <1>3, <1>5, <3>1, <3>3
      <4>2. PICK u \in fragments : u.rec = n /\ u.nth = part /\ End(u) = size
        BY <1>6, <4>1
      <4>3. g = u
        BY <3>3, <4>1, <4>2, OneOfRecord
      <4>4. g.type \in {"first", "middle"}
        BY <1>5, <3>3 DEF Ends
      <4> QED BY <1>3, <1>4, <3>3, <4>1, <4>2, <4>3, <4>4 DEF GoesOn
    <3>4. g.type \notin Ends => \E h \in fragments' : GoesOn(h, g)
      BY <1>3, <3>2, <3>3
    <3> QED BY <1>3, <1>5, <3>2, <3>4
  <2>2. /\ End(f) <= size' /\ \A h \in fragments' : ~(f.at < h.at)
        /\ f.type \notin Ends => ~written'[f.rec].complete /\ f.nth = part'
    <3>1. \A h \in fragments' : ~(f.at < h.at)
      BY <1>3, <1>5
    <3>2. f.type \notin Ends => ~written'[n].complete
      <4>1. n \in 1..n
        BY <1>3
      <4> QED BY <1>3, <4>1 DEF Ends
    <3> QED BY <1>3, <3>1, <3>2
  <2> SUFFICES ASSUME NEW g \in fragments', Kept(g.rec)'
               PROVE  /\ End(g) <= size'
                      /\ \A h \in fragments' : g.at < h.at => End(g) <= h.at
                      /\ g.type \notin Ends =>
                             \/ \E h \in fragments' : GoesOn(h, g)
                             \/ ~written'[g.rec].complete /\ g.nth = part'
    BY DEF Unharmed, End, GoesOn
  <2>3. CASE g \in fragments
    BY <1>3, <2>1, <2>3
  <2>4. CASE g = f
    BY <2>2, <2>4
  <2> QED BY <1>3, <2>3, <2>4
<1>10. /\ RecordStart(f) \in Nat /\ RecordStart(f) <= f.at
       /\ f.nth = 1 => RecordStart(f) = f.at
       /\ part > 0 => RecordStart(f) = written[n].start
  <2>1. CASE part = 0
    <3>1. RecordStart(f) = f.at
      BY <2>1 DEF RecordStart
    <3> QED BY <1>3, <2>1, <3>1
  <2>2. CASE part > 0
    <3>1. RecordStart(f) = written[n].start
      BY <1>2, <2>2 DEF RecordStart
    <3>2. PICK g \in fragments : g.rec = n
      BY <1>6, <2>2
    <3>3. /\ written[n].start \in Nat /\ written[n].start <= g.at /\ g.at \in Nat
          /\ g.at < size
      BY <1>5, <3>2 DEF Dated
    <3> QED BY <1>3, <2>2, <3>1, <3>3
  <2> QED BY <1>3, <2>1, <2>2
<1>11. Dated'
  <2>1. ASSUME NEW g \in fragments
        PROVE  /\ written'[g.rec].start \in Nat /\ written'[g.rec].start <= g.at
               /\ g.nth = 1 => written'[g.rec].start = g.at
    <3>1. g.rec = n => part > 0
      BY <1>3, <1>5
    <3>2. written'[g.rec].start = written[g.rec].start
      BY <1>3, <1>5, <1>10, <3>1
    <3> QED BY <3>2 DEF Dated
  <2>2. /\ written'[f.rec].start \in Nat /\ written'[f.rec].start <= f.at
        /\ f.nth = 1 => written'[f.rec].start = f.at
    <3>1. n \in 1..n
      BY <1>3
    <3> QED BY <1>3, <1>10, <3>1
  <2>3. ASSUME NEW i \in DOMAIN written', written'[i].complete
        PROVE  \E g \in fragments' : g.rec = i
    <3>1. CASE i = n
      BY <1>3, <3>1
    <3>2. CASE i # n
      <4>1. i \in DOMAIN written /\ written[i].complete
        BY <1>3, <2>3, <3>2
      <4> QED BY <1>3, <4>1 DEF Dated
    <3> QED BY <3>1, <3>2
  <2> QED BY <1>3, <2>1, <2>2, <2>3 DEF Dated
<1>12. (\A g \in fragments : End(g) <= size) => \A g \in fragments' : End(g) <= size'
  BY <1>3, <1>5
<1> QED BY <1>7, <1>9, <1>11, <1>12

\* A crash leaves the history, but for what it cuts off.
LEMMA CrashKeeps ==
    ASSUME FileInv, NEW n,
           written' = [i \in DOMAIN written |->
                  [written[i] EXCEPT !.complete =
                      @ /\ \A f \in fragments : f.rec = i => End(f) <= n]]
    PROVE  /\ DOMAIN written' = DOMAIN written
           /\ \A i \in DOMAIN written :
                 /\ written'[i].start = written[i].start
                 /\ written'[i].complete
                       <=> written[i].complete /\ \A f \in fragments : f.rec = i => End(f) <= n
<1>1. DOMAIN written' = DOMAIN written
  OBVIOUS
<1>2. ASSUME NEW i \in DOMAIN written
      PROVE  /\ written'[i].start = written[i].start
             /\ written'[i].complete
                    <=> written[i].complete /\ \A f \in fragments : f.rec = i => End(f) <= n
  <2>1. written[i] \in [start : Nat \cup {-1}, complete : BOOLEAN]
    BY ElementOfSeq, LenProperties DEF FileInv, WriterType
  <2>2. written'[i] = [written[i] EXCEPT !.complete =
                      @ /\ \A f \in fragments : f.rec = i => End(f) <= n]
    OBVIOUS
  <2> QED BY <2>1, <2>2
<1> QED BY <1>1, <1>2

\* The file is cut at n, fragments become m of what they were, and a record stays complete
\* only if all of it is left.
LEMMA SoundWhenWorn ==
    ASSUME FileInv, Chained, Unharmed, Dated, NEW m, NEW n \in Nat, n <= size,
           size' = n, left' = -1,
           \A g \in fragments' : \E f \in fragments : g = m[f],
           \A f \in fragments : /\ DamagedTo(f, m[f])
                                /\ m[f] \in fragments' <=> f.at < n
                                /\ m[f].state = "intact" => End(f) <= n,
           DOMAIN written' = DOMAIN written,
           \A i \in DOMAIN written :
               /\ written'[i].start = written[i].start
               /\ written'[i].complete =>
                      written[i].complete /\ \A f \in fragments : f.rec = i => End(f) <= n
    PROVE  (Chained /\ Unharmed /\ Dated)'
<1>1. size \in Nat
  BY DEF FileInv, WriterType
<1>2. ASSUME NEW f \in fragments
      PROVE  /\ f.at \in Nat /\ End(f) \in Nat /\ f.at + 7 <= End(f) /\ f.rec \in DOMAIN written
             /\ m[f].at = f.at /\ m[f].rec = f.rec /\ m[f].nth = f.nth /\ m[f].type = f.type
             /\ End(m[f]) = End(f)
             /\ m[f].state = "intact" => f.state = "intact"
  BY RecordsAre, DamagedIs DEF DamagedTo
<1>3. ASSUME NEW f \in fragments, NEW e \in fragments, f.at < n, Joins(e, f.at)
      PROVE  m[e] \in fragments' /\ Joins(m[e], f.at)
  <2>1. e.at < f.at
    BY <1>2, <1>3 DEF Joins, Follows, Covers
  <2>2. e.at < n
    BY <1>2, <1>3, <2>1
  <2>3. Joins(m[e], f.at)
    BY <1>2, <1>3 DEF Joins, Covers
  <2> QED BY <2>2, <2>3
<1>4. ASSUME NEW g \in fragments, g.at < n, n < End(g)
      PROVE  m[g] \in fragments' /\ Covers(m[g], n)
  BY <1>2, <1>4 DEF Covers
<1>5. ASSUME n # 0
      PROVE  \E g \in fragments' :
                \/ Covers(g, n)
                \/ \E q \in Nat : End(g) <= n /\ n <= q /\ Follows(End(g), q)
  <2> DEFINE S == {f.at : f \in {e \in fragments : n <= e.at}}
  <2>1. CASE S = {}
    <3>1. ASSUME NEW f \in fragments
          PROVE  f.at < n
      <4>1. n <= f.at => f.at \in S
        OBVIOUS
      <4> HIDE DEF S
      <4> QED BY <1>2, <2>1, <4>1
    <3>2. PICK g \in fragments :
              \/ Covers(g, size)
              \/ \E q \in Nat : End(g) <= size /\ size <= q /\ Follows(End(g), q)
      BY <1>1, <1>5 DEF Chained
    <3>3. g.at < n
      BY <3>1
    <3>4. CASE n < End(g)
      BY <1>4, <3>3, <3>4
    <3>5. CASE ~(n < End(g))
      <4>1. ~Covers(g, size)
        BY <1>1, <1>2, <3>5 DEF Covers
      <4>2. PICK q \in Nat : size <= q /\ Follows(End(g), q)
        BY <3>2, <4>1
      <4>3. m[g] \in fragments' /\ End(m[g]) = End(g) /\ End(g) <= n /\ n <= q
        BY <1>1, <1>2, <3>3, <3>5, <4>2
      <4> QED BY <4>2, <4>3
    <3> QED BY <3>4, <3>5
  <2>2. CASE S # {}
    <3>1. S \subseteq Nat
      BY <1>2
    <3>2. PICK a : a \in S /\ \A x \in S : a <= x
      <4> HIDE DEF S
      <4> QED BY <2>2, <3>1, MinIsMin
    <3>3. PICK f \in fragments : n <= f.at /\ a = f.at
      BY <3>2
    <3>4. PICK e \in fragments : Joins(e, f.at)
      BY <1>2, <1>5, <3>3 DEF Chained
    <3>5. e.at < f.at
      BY <1>2, <3>4 DEF Joins, Follows, Covers
    <3>6. e.at < n
      <4> SUFFICES ASSUME n <= e.at PROVE FALSE
        BY <1>2
      <4>1. f.at <= e.at
        BY <3>2, <3>3
      <4> QED BY <1>2, <3>5, <4>1
    <3>7. CASE n < End(e)
      BY <1>4, <3>6, <3>7
    <3>8. CASE ~(n < End(e))
      <4>1. Follows(End(e), f.at)
        BY <1>2, <3>3, <3>4, <3>8 DEF Joins, Covers
      <4>2. m[e] \in fragments' /\ End(m[e]) = End(e) /\ End(e) <= n
        BY <1>2, <3>6, <3>8
      <4> QED BY <1>2, <3>3, <4>1, <4>2
    <3> QED BY <3>7, <3>8
  <2> QED BY <2>1, <2>2
<1>6. Chained'
  <2>1. ASSUME NEW g \in fragments'
        PROVE  g.at = 0 \/ \E h \in fragments' : Joins(h, g.at)
    <3>1. PICK f \in fragments : g = m[f]
      OBVIOUS
    <3>2. f.at < n /\ g.at = f.at
      BY <1>2, <3>1
    <3> QED BY <1>3, <3>2 DEF Chained
  <2> QED BY <1>5, <2>1 DEF Chained, Joins, Covers, Follows, End, BlockStart
<1>7. Unharmed'
  <2> SUFFICES ASSUME NEW g \in fragments', written'[g.rec].complete
               PROVE  /\ End(g) <= n
                      /\ \A h \in fragments' : g.at < h.at => End(g) <= h.at
                      /\ g.type \notin Ends => \E h \in fragments' : GoesOn(h, g)
    BY DEF Unharmed, Kept, End, GoesOn
  <2>1. PICK f \in fragments : g = m[f]
    OBVIOUS
  <2>2. written[f.rec].complete /\ \A e \in fragments : e.rec = f.rec => End(e) <= n
    BY <1>2, <2>1
  <2>3. \A e \in fragments : f.at < e.at => End(f) <= e.at
    BY <2>2 DEF Unharmed, Kept
  <2>4. ASSUME NEW h \in fragments', g.at < h.at
        PROVE  End(g) <= h.at
    <3>1. PICK e \in fragments : h = m[e]
      OBVIOUS
    <3> QED BY <1>2, <2>1, <2>3, <2>4, <3>1
  <2>5. ASSUME g.type \notin Ends
        PROVE  \E h \in fragments' : GoesOn(h, g)
    <3>1. PICK e \in fragments : GoesOn(e, f)
      BY <1>2, <2>1, <2>2, <2>5 DEF Unharmed, Kept
    <3>2. e.at < n
      <4>1. End(e) <= n
        BY <2>2, <3>1 DEF GoesOn
      <4> QED BY <1>2, <4>1
    <3>3. GoesOn(m[e], g)
      BY <1>2, <2>1, <3>1 DEF GoesOn
    <3> QED BY <3>2, <3>3
  <2> QED BY <1>2, <2>1, <2>2, <2>4, <2>5
<1>8. Dated'
  <2>1. ASSUME NEW g \in fragments'
        PROVE  /\ written'[g.rec].start \in Nat /\ written'[g.rec].start <= g.at
               /\ g.nth = 1 => written'[g.rec].start = g.at
    <3>1. PICK f \in fragments : g = m[f]
      OBVIOUS
    <3>2. written'[f.rec].start = written[f.rec].start
      BY <1>2
    <3> QED BY <1>2, <3>1, <3>2 DEF Dated
  <2>2. ASSUME NEW i \in DOMAIN written', written'[i].complete
        PROVE  \E g \in fragments' : g.rec = i
    <3>1. written[i].complete /\ \A f \in fragments : f.rec = i => End(f) <= n
      BY <2>2
    <3>2. PICK f \in fragments : f.rec = i
      BY <3>1 DEF Dated
    <3>3. f.at < n
      BY <1>2, <3>1, <3>2
    <3> QED BY <1>2, <3>2, <3>3
  <2> QED BY <2>1, <2>2 DEF Dated
<1> QED BY <1>6, <1>7, <1>8

LEMMA SoundCrash ==
    ASSUME FileInv, Chained, Unharmed, Dated, Crash
    PROVE  (Chained /\ Unharmed /\ Dated)'
<1>1. PICK n \in 0..size :
           /\ size' = n /\ fragments' = CutAt(n, fragments)
           /\ written' = [i \in DOMAIN written |->
                  [written[i] EXCEPT !.complete =
                      @ /\ \A f \in fragments : f.rec = i => End(f) <= n]]
  BY DEF Crash
<1>2. left' = -1 /\ n \in Nat /\ n <= size
  BY DEF Crash, FileInv, WriterType
<1>3. PICK m : m = [f \in fragments |-> CutOne(n, f)]
  OBVIOUS
<1>4. \A f \in fragments : m[f] = CutOne(n, f)
  BY <1>3
<1>5. \A g \in fragments' : \E f \in fragments : g = m[f] /\ f.at < n
  BY <1>1, <1>4 DEF CutAt, CutOne
<1>6. ASSUME NEW f \in fragments
      PROVE  /\ DamagedTo(f, m[f])
             /\ m[f] \in fragments' <=> f.at < n
             /\ m[f].state = "intact" => End(f) <= n
  <2>1. DamagedTo(f, m[f]) /\ (m[f].state = "intact" => End(f) <= n)
    BY <1>2, <1>4, RecordsAre, CutOneIs
  <2>2. f.at < n => m[f] \in fragments'
    BY <1>1, <1>4 DEF CutAt, CutOne
  <2>3. m[f] \in fragments' => f.at < n
    <3>1. GoodFile(fragments', n)
      BY <1>1, <1>2, GoodWhenCut DEF FileInv, WriterType
    <3> QED BY <2>1, <3>1 DEF GoodFile, DamagedTo
  <2> QED BY <2>1, <2>2, <2>3
<1>7. /\ DOMAIN written' = DOMAIN written
      /\ \A i \in DOMAIN written :
            /\ written'[i].start = written[i].start
            /\ written'[i].complete =>
                   written[i].complete /\ \A f \in fragments : f.rec = i => End(f) <= n
  BY <1>1, CrashKeeps
<1> QED BY <1>1, <1>2, <1>5, <1>6, <1>7, SoundWhenWorn

LEMMA SoundDamage ==
    ASSUME FileInv, Chained, Unharmed, Dated, Damage
    PROVE  /\ (Chained /\ Unharmed /\ Dated)'
           /\ (\A f \in fragments : End(f) <= size) => \A f \in fragments' : End(f) <= size'
<1>1. PICK f \in fragments, s \in {"payload", "header"} :
            fragments' = (fragments \ {f}) \cup {[f EXCEPT !.state = s]}
  BY DEF Damage
<1>2. size' = size /\ size \in Nat /\ left' = -1 /\ written' = written
  BY DEF Damage, writerVars, FileInv, WriterType
<1>3. PICK g : g = [f EXCEPT !.state = s]
  OBVIOUS
<1>4. PICK m : m = [e \in fragments |-> IF e = f THEN g ELSE e]
  OBVIOUS
<1>5. ASSUME NEW e \in fragments
      PROVE  /\ e \in FragmentType /\ e.at < size /\ (e.state = "intact" => End(e) <= size)
             /\ m[e] = IF e = f THEN g ELSE e
             /\ DamagedTo(e, e)
  <2>1. m[e] = IF e = f THEN g ELSE e
    BY <1>4
  <2> QED BY <2>1 DEF FileInv, GoodFile, DamagedTo
<1>6. DamagedTo(f, g) /\ g.state # "intact"
  BY <1>3, <1>5 DEF DamagedTo, FragmentType
<1>7. ASSUME NEW e \in fragments
      PROVE  /\ DamagedTo(e, m[e]) /\ m[e] \in fragments' /\ e.at < size
             /\ m[e].state = "intact" => End(e) <= size
             /\ End(m[e]) = End(e)
  <2>1. DamagedTo(e, m[e]) /\ m[e] \in fragments' /\ e.at < size
    BY <1>1, <1>3, <1>5, <1>6
  <2>2. m[e].state = "intact" => End(e) <= size
    BY <1>5, <1>6
  <2> QED BY <1>5, <2>1, <2>2, DamagedIs
<1>8. ASSUME NEW h \in fragments'
      PROVE  \E e \in fragments : h = m[e]
  <2>1. CASE h = g
    <3>1. m[f] = h
      BY <1>5, <2>1
    <3> QED BY <3>1
  <2>2. CASE h # g
    <3>1. h \in fragments /\ h # f
      BY <1>1, <1>3, <2>2
    <3>2. m[h] = h
      BY <1>5, <3>1
    <3> QED BY <3>1, <3>2
  <2> QED BY <2>1, <2>2
<1>9. \A i \in DOMAIN written :
          written[i].complete => \A e \in fragments : e.rec = i => End(e) <= size
  BY DEF Unharmed, Kept
<1>10. (Chained /\ Unharmed /\ Dated)'
  <2>1. size <= size
    BY <1>2
  <2> QED BY <1>2, <1>7, <1>8, <1>9, <2>1, SoundWhenWorn
<1>11. (\A e \in fragments : End(e) <= size) => \A h \in fragments' : End(h) <= size'
  BY <1>2, <1>7, <1>8
<1> QED BY <1>10, <1>11

LEMMA SoundNext == FileInv /\ FitInv /\ SoundFile /\ [Next]_vars => SoundFile'
<1> SUFFICES ASSUME FileInv, FitInv, SoundFile, [Next]_vars,
                    ~ \E i \in DOMAIN events' : events'[i] = "append"
             PROVE  (Chained /\ Unharmed /\ Dated /\ Untorn)'
  BY DEF SoundFile, Happened
<1>1. ASSUME NEW kind \in Kinds, events' = Append(events, kind)
      PROVE  /\ kind # "append" /\ ~Happened("append")
             /\ kind = "crash" \/ Happened("crash")
                    => \E i \in DOMAIN events' : events'[i] = "crash"
  BY <1>1, EventKept DEF FitInv
<1>2. ASSUME events' = events
      PROVE  ~Happened("append") /\ (~Happened("crash"))' = ~Happened("crash")
  BY <1>2 DEF Happened
<1>3. ~EmitFails
  BY <1>1 DEF EmitFails, Event, Kinds
<1>4. \/ events' = events
      \/ \E kind \in Kinds : events' = Append(events, kind)
  <2>1. \/ \E n \in Sizes : AddRecord(n)
        \/ EmitPhysicalRecord \/ ReopenWriter \/ Crash \/ Damage \/ Reads \/ UNCHANGED vars
    BY <1>3 DEF Next, Write, Reads
  <2> QED BY <2>1, ReadsOnly DEF AddRecord, EmitPhysicalRecord, ReopenWriter, Crash, Damage,
                                 Event, Kinds, vars
<1>5. ~Happened("append")
  BY <1>1, <1>2, <1>4
<1>6. /\ Chained /\ Unharmed /\ Dated /\ Untorn /\ KnowsOffset
      /\ \A f \in fragments : Fits(f)
  BY <1>5 DEF SoundFile, FitInv
<1>7. (~Happened("crash"))' => ~Happened("crash")
  BY <1>1, <1>2, <1>4 DEF Happened
<1>8. ASSUME UNCHANGED <<fragments, size, left, part, written>>
      PROVE  (Chained /\ Unharmed /\ Dated /\ Untorn)'
  <2>1. (Chained /\ Unharmed /\ Dated)'
    BY <1>6, <1>8 DEF Chained, Unharmed, Dated, Kept, Joins, Covers, Follows, End, BlockStart,
                      GoesOn
  <2>2. Untorn'
    BY <1>6, <1>7, <1>8 DEF Untorn, End
  <2> QED BY <2>1, <2>2
<1>9. CASE \E n \in Sizes : AddRecord(n)
  <2>1. UNCHANGED <<fragments, size>>
    BY <1>9 DEF AddRecord, fileVars
  <2>2. Untorn'
    BY <1>6, <1>7, <2>1 DEF Untorn, End
  <2> QED BY <1>6, <1>9, <2>2, SoundAddRecord
<1>10. CASE EmitPhysicalRecord
  <2>1. \A f \in fragments' : Fits(f)
    BY <1>6, <1>10, FitEmit
  <2>2. /\ (Chained /\ Unharmed /\ Dated)'
        /\ (\A f \in fragments : End(f) <= size) => \A f \in fragments' : End(f) <= size'
    BY <1>6, <1>10, <2>1, SoundEmit
  <2> QED BY <1>6, <1>7, <2>2 DEF Untorn, End
<1>11. CASE Crash
  <2>1. (Chained /\ Unharmed /\ Dated)'
    BY <1>6, <1>11, SoundCrash
  <2>2. Untorn'
    <3>1. events' = Append(events, "crash") /\ "crash" \in Kinds
      BY <1>11 DEF Crash, Event, Kinds
    <3>2. \E i \in DOMAIN events' : events'[i] = "crash"
      BY <1>1, <3>1
    <3> QED BY <3>2 DEF Untorn, Happened
  <2> QED BY <2>1, <2>2
<1>12. CASE Damage
  <2>1. /\ (Chained /\ Unharmed /\ Dated)'
        /\ (\A f \in fragments : End(f) <= size) => \A f \in fragments' : End(f) <= size'
    BY <1>6, <1>12, SoundDamage
  <2> QED BY <1>6, <1>7, <2>1 DEF Untorn, End
<1>13. CASE Reads \/ UNCHANGED vars \/ ReopenWriter
  BY <1>8, <1>13, ReadsOnly DEF vars, fileVars, writerVars, ReopenWriter
<1> QED BY <1>3, <1>9, <1>10, <1>11, <1>12, <1>13 DEF Next, Write, Reads

LEMMA SoundInvariant == Spec => []SoundFile
<1>1. Init => SoundFile
  <2> SUFFICES ASSUME Init PROVE Chained /\ Unharmed /\ Dated /\ Untorn
    BY DEF SoundFile
  <2>1. fragments = {} /\ size = 0 /\ DOMAIN written = {}
    BY DEF Init
  <2> QED BY <2>1 DEF Chained, Unharmed, Dated, Untorn
<1>2. Spec => []FitInv
  BY FitInvariant
<1> QED BY <1>1, <1>2, FileInvariant, SoundNext, PTL DEF Spec

-----------------------------------------------------------------------------
(***************************************************************************)
(* The reader of such a file knows where it is.                            *)
(***************************************************************************)
Going ==
    /\ FileInv /\ ReaderInv /\ reading = "yes" /\ initial_offset_ \in Nat
    /\ Chained /\ Unharmed /\ Dated /\ \A f \in fragments : Fits(f)
    /\ Buffered /\ Cleared

LEMMA SameBlock ==
    ASSUME NEW b \in Nat, BlockStart(b), NEW x \in Nat, NEW y \in Nat,
           b <= x, x < b + BlockSize, b <= y, y < b + BlockSize
    PROVE  BlockOf(x) = BlockOf(y)
<1>1. BlockSize \in Nat /\ BlockSize > 7
  BY BlockAssumption DEF HeaderSize
<1>2. BlockOf(x) * BlockSize = b /\ BlockOf(y) * BlockSize = b
  BY BlockOfIs
<1>3. BlockOf(x) \in Int /\ BlockOf(y) \in Int
  BY <1>1 DEF BlockOf
<1>4. \A i, j \in Int : i * BlockSize = j * BlockSize => i = j
  BY <1>1
<1> QED BY <1>2, <1>3, <1>4

\* There is a fragment where the reader looks for a header, and what is left in the buffer
\* is in the same block.
LEMMA Lookahead ==
    ASSUME Going, BufferSize >= HeaderSize
    PROVE  \E m \in fragments :
              /\ m.at = pos /\ Here = {m}
              /\ m.state = "intact" => End(m) <= end_of_buffer_offset_
              /\ End(m) <= size => End(m) <= end_of_buffer_offset_
              /\ \A p \in Nat : pos <= p /\ p < end_of_buffer_offset_ => BlockOf(p) = BlockOf(m.at)
<1> USE DEF HeaderSize
<1>1. /\ pos \in Nat /\ end_of_buffer_offset_ \in Nat /\ size \in Nat
      /\ BlockSize \in Nat /\ BlockSize > 7
      /\ \A f \in fragments :
            /\ f.at \in Nat /\ End(f) \in Nat /\ f.at + 7 <= End(f)
            /\ f.at < size /\ (f.state = "intact" => End(f) <= size)
  BY PlacesAre DEF Going
<1>2. pos + 7 <= end_of_buffer_offset_ /\ end_of_buffer_offset_ <= size
  BY <1>1 DEF BufferSize, Going, Buffered
<1>3. PICK b \in Nat : BlockStart(b) /\ b <= pos /\ end_of_buffer_offset_ <= b + BlockSize
  BY DEF Going, Buffered
<1>4. ASSUME NEW f \in fragments, f.at < pos
      PROVE  End(f) <= pos
  BY <1>1, <1>2, <1>4 DEF Going, Cleared
<1> DEFINE S == {f.at : f \in {g \in fragments : pos <= g.at}}
<1>5. S # {}
  <2>1. PICK g \in fragments :
            \/ Covers(g, size)
            \/ \E q \in Nat : End(g) <= size /\ size <= q /\ Follows(End(g), q)
    BY <1>1, <1>2 DEF Going, Chained
  <2>2. size < End(g) + 7
    BY <1>1, <2>1 DEF Covers, Follows
  <2>3. pos <= g.at
    BY <1>1, <1>2, <1>4, <2>2
  <2> QED BY <2>3
<1>6. PICK a : a \in S /\ \A x \in S : a <= x
  <2>1. S \subseteq Nat
    BY <1>1
  <2> HIDE DEF S
  <2> QED BY <1>5, <2>1, MinIsMin
<1>7. PICK m \in fragments : a = m.at /\ pos <= m.at
  BY <1>6
<1>8. \A f \in fragments : pos <= f.at => m.at <= f.at
  BY <1>6, <1>7
<1> HIDE DEF S
<1>9. m.at = pos
  <2> SUFFICES ASSUME pos < m.at PROVE FALSE
    BY <1>1, <1>7
  <2>1. PICK g \in fragments : Joins(g, m.at)
    BY <1>1 DEF Going, Chained
  <2>2. g.at < m.at
    BY <1>1, <2>1 DEF Joins, Follows, Covers
  <2>3. g.at < pos
    BY <1>1, <1>8, <2>2
  <2>4. End(g) <= pos
    BY <1>4, <2>3
  <2>5. BlockStart(m.at) /\ m.at < pos + 7
    BY <1>1, <2>1, <2>4 DEF Joins, Follows, Covers
  <2>6. b < m.at /\ m.at < b + BlockSize
    BY <1>1, <1>2, <1>3, <2>5
  <2>7. b + BlockSize <= m.at
    BY <1>1, <1>3, <2>5, <2>6, NoBlockBetween
  <2> QED BY <1>1, <2>6, <2>7
<1>10. Here = {m}
  BY <1>9 DEF Here, Going, FileInv, GoodFile
<1>11. End(m) <= size => End(m) <= end_of_buffer_offset_
  <2>1. CASE eof_
    BY <1>1, <2>1 DEF Going, Buffered
  <2>2. CASE ~eof_
    <3>1. BlockStart(end_of_buffer_offset_)
      BY <2>2 DEF Going, Buffered
    <3>2. m.at < end_of_buffer_offset_ /\ Fits(m)
      BY <1>1, <1>2, <1>9 DEF Going
    <3> QED BY <1>1, <3>1, <3>2, EndsBefore DEF Going
  <2> QED BY <2>1, <2>2
<1>12. \A p \in Nat : pos <= p /\ p < end_of_buffer_offset_ => BlockOf(p) = BlockOf(m.at)
  <2> SUFFICES ASSUME NEW p \in Nat, pos <= p, p < end_of_buffer_offset_
               PROVE  BlockOf(p) = BlockOf(m.at)
    OBVIOUS
  <2>1. b <= p /\ p < b + BlockSize /\ b <= m.at /\ m.at < b + BlockSize
    BY <1>1, <1>2, <1>3, <1>9
  <2> QED BY <1>1, <1>3, <2>1, SameBlock
<1> QED BY <1>1, <1>9, <1>10, <1>11, <1>12

\* What is dropped as corrupted, or taken for the end of the file, begins with a damaged
\* fragment.
LEMMA DropsDamaged ==
    ASSUME Going, BadLength \/ ZeroHeader \/ ChecksumMismatch \/ WriterDied
    PROVE  /\ BufferSize >= HeaderSize
           /\ \A m \in fragments : Here = {m} =>
                 /\ m.state = "intact" => ~(End(m) <= end_of_buffer_offset_)
                 /\ m.state = "payload" /\ End(m) <= end_of_buffer_offset_ => ChecksumMismatch
<1>1. BufferSize >= HeaderSize
  BY DEF BadLength, ZeroHeader, ChecksumMismatch, WriterDied, CanParse
<1>2. ASSUME NEW m \in fragments, Here = {m}, m.state \in {"intact", "payload"},
             End(m) <= end_of_buffer_offset_
      PROVE  ChecksumMismatch /\ m.state # "intact"
  <2>1. m.at = pos
    BY <1>2 DEF Here
  <2>2. HeaderIntact /\ TooLong = {End(m) > end_of_buffer_offset_}
    BY <1>2, <2>1, LengthIsKnown DEF Going
  <2>3. TRUE \notin TooLong
    <3> SUFFICES ASSUME TRUE \in TooLong PROVE FALSE
      OBVIOUS
    <3>1. End(m) \in Nat /\ end_of_buffer_offset_ \in Nat
      BY PlacesAre DEF Going
    <3>2. End(m) > end_of_buffer_offset_
      BY <2>2
    <3> QED BY <1>2, <3>1, <3>2
  <2>4. ~BadLength /\ ~ZeroHeader /\ ~WriterDied
    BY <2>2, <2>3 DEF BadLength, ZeroHeader, WriterDied
  <2>5. ChecksumMismatch
    BY <2>4
  <2>6. m.state # "intact"
    BY <1>2, <2>5 DEF ChecksumMismatch
  <2> QED BY <2>5, <2>6
<1> QED BY <1>1, <1>2

\* The next fragment of a record that is being collected is not far, if the record is all
\* there.
LEMMA NextOfScratch ==
    ASSUME Going, in_fragmented_record, Wanted(scratch[1].rec)
    PROVE  \E h \in fragments :
              /\ h.rec = scratch[1].rec /\ h.nth > 1
              /\ pos <= h.at /\ h.at < pos + HeaderSize
<1>1. PICK g : g = scratch[Len(scratch)]
  OBVIOUS
<1>2. /\ Begun(scratch) /\ Behind(g) /\ g.type \in {"first", "middle"}
      /\ scratch \in Seq(fragments) /\ scratch # <<>>
  BY <1>1 DEF Going, ReaderInv, Collecting, ReaderType, Begun
<1>3. g \in fragments /\ g.rec = scratch[1].rec
  <2>1. Len(scratch) \in Nat \ {0} /\ DOMAIN scratch = 1..Len(scratch)
    BY <1>2, FirstOfRecord
  <2>2. Len(scratch) \in 1..Len(scratch)
    BY <2>1
  <2>3. g \in fragments
    BY <1>1, <1>2, <2>2, ElementOfSeq
  <2> QED BY <1>1, <1>2, <2>1, <2>2, <2>3 DEF Begun
<1>4. PICK h \in fragments : GoesOn(h, g)
  <2>1. g.type \notin Ends
    BY <1>2 DEF Ends
  <2> QED BY <1>3, <2>1 DEF Going, Unharmed, Kept, Wanted
<1>5. /\ h.at \in Nat /\ End(h) \in Nat /\ h.at + 7 <= End(h) /\ pos \in Nat
      /\ End(g) \in Nat /\ g.nth \in Nat \ {0}
  BY <1>3, PlacesAre, RecordsAre DEF Going
<1>6. /\ End(g) <= h.at /\ h.at < End(g) + 7 /\ End(g) <= pos /\ pos < End(g) + 7
      /\ h.nth = g.nth + 1 /\ h.rec = g.rec
  BY <1>2, <1>4 DEF GoesOn, Behind, HeaderSize
<1>7. ~(h.at < pos)
  <2> SUFFICES ASSUME h.at < pos PROVE FALSE
    OBVIOUS
  <2>1. End(h) <= pos
    BY DEF Going, Cleared
  <2> QED BY <1>5, <1>6, <2>1
<1> QED BY <1>3, <1>5, <1>6, <1>7 DEF HeaderSize

\* What has been accounted for stays so, but for what is dropped now.
LEMMA StillAccounted ==
    ASSUME Going, NEW E, NEW F, Accounted(E), E \subseteq F,
           UNCHANGED <<fragments, written, initial_offset_>>,
           \A f \in fragments :
               /\ Wanted(f.rec)
               /\ Had(f.rec) \/ (pos <= f.at /\ (reading' = "yes" => f.at < pos'))
               => f.rec \in F \/ Had(f.rec)'
    PROVE  Accounted(F)'
<1> SUFFICES ASSUME NEW f \in fragments, reading' = "yes" => f.at < pos', Wanted(f.rec)
             PROVE  f.rec \in F \/ Had(f.rec)'
  BY DEF Accounted, Wanted, Had
<1>1. f.at < pos \/ pos <= f.at
  BY PlacesAre DEF Going
<1>2. CASE f.at < pos
  <2>1. f.rec \in E \/ Had(f.rec)
    BY <1>2 DEF Accounted
  <2> QED BY <2>1
<1>3. CASE pos <= f.at
  BY <1>3
<1> QED BY <1>1, <1>2, <1>3

\* A whole fragment is passed.
LEMMA PassesOne ==
    ASSUME Going, NEW f \in fragments, TooEarly(f) \/ Resync(f) \/ Assemble(f)
    PROVE  /\ Buffered' /\ Cleared' /\ reading' = "yes" /\ f.at = pos
           /\ UNCHANGED <<fragments, size, written, initial_offset_>>
           /\ \A g \in fragments : g.at < pos' => g.at < pos \/ g = f
<1>1. /\ Good(f) /\ pos' = End(f) /\ reading' = "yes"
      /\ UNCHANGED <<fragments, size, written, initial_offset_, eof_, end_of_buffer_offset_>>
  BY DEF TooEarly, Resync, Assemble, fileVars, writerVars, Going
<1>2. /\ Buffered' /\ pos \in Nat /\ End(f) \in Nat /\ f.at = pos /\ pos < pos'
      /\ \A g \in fragments : g.at < pos' => g.at < pos \/ g = f
  BY <1>1, GoesBehind DEF Going
<1>3. Cleared'
  <2> SUFFICES ASSUME NEW g \in fragments, g.at < pos' PROVE End(g) <= pos'
    BY <1>1 DEF Cleared, End
  <2>1. CASE g = f
    BY <1>1, <1>2, <2>1
  <2>2. CASE g.at < pos
    <3>1. pos # end_of_buffer_offset_
      BY <1>1, <1>2, PlacesAre DEF Good, CanParse, BufferSize, HeaderSize, Going
    <3>2. End(g) <= pos /\ End(g) \in Nat
      BY <2>2, <3>1, PlacesAre DEF Going, Cleared
    <3> QED BY <1>1, <1>2, <3>2
  <2> QED BY <1>2, <2>1, <2>2
<1> QED BY <1>1, <1>2, <1>3

\* The reader has met the record of a fragment that is not the first of its record.
LEMMA MetBefore ==
    ASSUME Going, NEW E, Accounted(E), NEW f \in fragments, f.at = pos, f.nth # 1,
           Wanted(f.rec)
    PROVE  f.rec \in E \/ Had(f.rec)
<1>1. f.nth > 1
  BY RecordsAre DEF Going
<1>2. PICK g \in fragments : GoesOn(f, g)
  BY <1>1 DEF Going, FileInv, GoodFile
<1>3. g.at < pos /\ g.rec = f.rec
  <2>1. End(g) <= f.at /\ f.rec = g.rec
    BY <1>2 DEF GoesOn
  <2> QED BY <2>1, RecordsAre, PlacesAre DEF Going
<1> QED BY <1>3 DEF Accounted

\* No record that was begun before initial_offset_ is wanted.
LEMMA DropsEarly ==
    ASSUME Going, NEW f \in fragments, f.at < initial_offset_, f.nth = 1
    PROVE  ~Wanted(f.rec)
<1>1. written[f.rec].start = f.at
  BY DEF Going, Dated
<1>2. f.at \in Nat /\ initial_offset_ \in Nat
  BY RecordsAre DEF Going
<1> QED BY <1>1, <1>2 DEF Wanted

LEMMA FirstOfScratch ==
    ASSUME Going, in_fragmented_record
    PROVE  scratch[1] \in fragments /\ scratch[1].nth = 1 /\ scratch[1].at < pos
           /\ scratch \in Seq(fragments) /\ ~resyncing_
<1>1. scratch \in Seq(fragments) /\ Begun(scratch) /\ scratch[1].at < pos /\ ~resyncing_
  BY DEF Going, ReaderInv, ReaderType, Collecting
<1>2. 1 \in DOMAIN scratch /\ scratch[1] \in fragments
  BY <1>1, FirstOfRecord DEF Begun
<1> QED BY <1>1, <1>2 DEF Begun

LEMMA EarlyAccounted ==
    ASSUME Going, NEW E, NEW F, Accounted(E), E \subseteq F,
           NEW f \in fragments, TooEarly(f)
    PROVE  Accounted(F)'
<1>1. /\ f.at = pos /\ UNCHANGED <<fragments, written, initial_offset_>>
      /\ reading' = "yes" /\ \A g \in fragments : g.at < pos' => g.at < pos \/ g = f
  BY PassesOne
<1>2. out' = out /\ f.at < initial_offset_ /\ Returned' = Returned
  BY DEF TooEarly, Returned
<1>3. \A g \in fragments : Wanted(g.rec) /\ Had(g.rec) => g.rec \in Returned
  <2> SUFFICES ASSUME in_fragmented_record, Wanted(scratch[1].rec) PROVE FALSE
    BY DEF Had
  <2>1. scratch[1] \in fragments /\ scratch[1].nth = 1 /\ scratch[1].at < pos
    BY FirstOfScratch
  <2>2. scratch[1].at < initial_offset_
    <3>1. PICK a, b, l : a = scratch[1].at /\ b = f.at /\ l = initial_offset_
      OBVIOUS
    <3>2. a \in Nat /\ b \in Nat /\ l \in Nat
      BY <2>1, <3>1, RecordsAre, PlacesAre DEF Going
    <3> QED BY <1>1, <1>2, <2>1, <3>1, <3>2
  <2> QED BY <2>1, <2>2, DropsEarly
<1>4. ASSUME NEW g \in fragments, Wanted(g.rec),
             Had(g.rec) \/ (pos <= g.at /\ g.at < pos')
      PROVE  g.rec \in F \/ g.rec \in Returned'
  <2>1. CASE Had(g.rec)
    BY <1>2, <1>3, <1>4, <2>1
  <2>2. CASE pos <= g.at /\ g.at < pos'
    <3>1. g = f
      BY <1>1, <2>2, RecordsAre, PlacesAre DEF Going
    <3>2. f.nth # 1
      BY <1>2, <1>4, <3>1, DropsEarly
    <3>3. f.rec \in E \/ Had(f.rec)
      BY <1>1, <1>4, <3>1, <3>2, MetBefore
    <3> QED BY <1>2, <1>3, <1>4, <3>1, <3>3
  <2> QED BY <1>4, <2>1, <2>2
<1> QED BY <1>1, <1>4, StillAccounted DEF Had

LEMMA ResyncAccounted ==
    ASSUME Going, NEW E, NEW F, Accounted(E), E \subseteq F,
           NEW f \in fragments, Resync(f)
    PROVE  Accounted(F)'
<1>1. /\ f.at = pos /\ UNCHANGED <<fragments, written, initial_offset_>>
      /\ reading' = "yes" /\ \A g \in fragments : g.at < pos' => g.at < pos \/ g = f
  BY PassesOne
<1>2. UNCHANGED <<out, scratch, in_fragmented_record>> /\ f.nth # 1 /\ Returned' = Returned
  BY DEF Resync, Returned, Going, FileInv, GoodFile
<1>3. ASSUME NEW g \in fragments, Wanted(g.rec),
             Had(g.rec) \/ (pos <= g.at /\ g.at < pos')
      PROVE  g.rec \in F \/ Had(g.rec)
  <2>1. CASE pos <= g.at /\ g.at < pos'
    <3>1. g = f
      BY <1>1, <2>1, RecordsAre, PlacesAre DEF Going
    <3>2. f.rec \in E \/ Had(f.rec)
      BY <1>1, <1>2, <1>3, <3>1, MetBefore
    <3> QED BY <3>1, <3>2
  <2> QED BY <1>3, <2>1
<1>4. \A g \in fragments : Had(g.rec) => Had(g.rec)'
  BY <1>1, <1>2 DEF Had
<1> QED BY <1>1, <1>3, <1>4, StillAccounted

\* A record begins only where the one before it has ended.
LEMMA NothingCollected ==
    ASSUME Going, NEW f \in fragments, f.at = pos, f.state = "intact", f.nth = 1,
           in_fragmented_record
    PROVE  ~Wanted(scratch[1].rec)
<1> SUFFICES ASSUME Wanted(scratch[1].rec) PROVE FALSE
  OBVIOUS
<1>1. PICK h \in fragments :
          h.rec = scratch[1].rec /\ h.nth > 1 /\ pos <= h.at /\ h.at < pos + 7
  BY NextOfScratch DEF HeaderSize
<1>2. f.at < h.at => End(f) <= h.at
  BY DEF Going, FileInv, GoodFile
<1>3. /\ f.at \in Nat /\ h.at \in Nat /\ End(f) \in Nat /\ f.at + 7 <= End(f)
      /\ f.at <= h.at /\ h.at < f.at + 7
  BY <1>1, RecordsAre, PlacesAre DEF Going
<1>4. f.at = h.at
  BY <1>2, <1>3
<1>5. h = f
  BY <1>4 DEF Going, FileInv, GoodFile
<1> QED BY <1>1, <1>5

LEMMA BeginningAccounted ==
    ASSUME Going, NEW E, NEW F, Accounted(E), E \subseteq F,
           NEW f \in fragments, Assemble(f), Beginning(f)
    PROVE  Accounted(F)'
<1>1. /\ f.at = pos /\ UNCHANGED <<fragments, written, initial_offset_>>
      /\ reading' = "yes" /\ \A g \in fragments : g.at < pos' => g.at < pos \/ g = f
  BY PassesOne DEF Assemble
<1>2. f.state = "intact" /\ f.type \in {"full", "first"} /\ f.nth = 1
  BY DEF Assemble, Good, Beginning, Going, FileInv, GoodFile
<1>3. \A g \in fragments : Wanted(g.rec) /\ Had(g.rec) => g.rec \in Returned
  BY <1>1, <1>2, NothingCollected DEF Had
<1>4. Returned \subseteq Returned' /\ Had(f.rec)'
  <2>1. CASE f.type = "full"
    <3>1. out' = Append(out, <<f>>) /\ <<f>> \in Seq(fragments) /\ <<f>>[1] = f
      BY <2>1 DEF Beginning
    <3>2. Returned' = Returned \cup {f.rec}
      BY <3>1, ReturnedMore DEF Going
    <3> QED BY <3>2 DEF Had
  <2>2. CASE f.type # "full"
    <3>1. out' = out /\ scratch' = <<f>> /\ in_fragmented_record' = TRUE /\ <<f>>[1] = f
      BY <2>2 DEF Beginning
    <3>2. Returned' = Returned
      BY <3>1 DEF Returned
    <3> QED BY <1>1, <3>1, <3>2 DEF Had
  <2> QED BY <2>1, <2>2
<1>5. ASSUME NEW g \in fragments, Wanted(g.rec),
             Had(g.rec) \/ (pos <= g.at /\ g.at < pos')
      PROVE  g.rec \in Returned' \/ g = f
  BY <1>1, <1>3, <1>4, <1>5, RecordsAre, PlacesAre DEF Going
<1>6. ASSUME NEW g \in fragments, Wanted(g.rec),
             Had(g.rec) \/ (pos <= g.at /\ g.at < pos')
      PROVE  Had(g.rec)'
  <2>1. CASE g = f
    BY <1>4, <2>1
  <2>2. CASE g.rec \in Returned'
    BY <2>2 DEF Had
  <2> QED BY <1>5, <1>6, <2>1, <2>2
<1> QED BY <1>1, <1>6, StillAccounted

LEMMA ScratchGrows ==
    ASSUME Going, in_fragmented_record, NEW f \in fragments
    PROVE  Append(scratch, f) \in Seq(fragments) /\ Append(scratch, f)[1] = scratch[1]
<1>1. scratch \in Seq(fragments) /\ scratch # <<>>
  BY FirstOfScratch DEF Going, ReaderInv, Collecting, Begun
<1>2. Len(scratch) \in Nat \ {0} /\ 1 \in 1..Len(scratch)
  BY <1>1, FirstOfRecord
<1> QED BY <1>1, <1>2, AppendProperties

LEMMA ContinuationAccounted ==
    ASSUME Going, NEW E, NEW F, Accounted(E), E \subseteq F,
           NEW f \in fragments, Assemble(f), Continuation(f)
    PROVE  Accounted(F)'
<1>1. /\ f.at = pos /\ UNCHANGED <<fragments, written, initial_offset_>>
      /\ reading' = "yes" /\ \A g \in fragments : g.at < pos' => g.at < pos \/ g = f
  BY PassesOne DEF Assemble
<1>2. f.nth # 1
  BY DEF Continuation, Going, FileInv, GoodFile
<1>3. \A i : Had(i) => Had(i)'
  <2>1. CASE ~in_fragmented_record
    <3>1. UNCHANGED <<out, scratch, in_fragmented_record>>
      BY <2>1 DEF Continuation
    <3> QED BY <1>1, <3>1 DEF Had, Returned
  <2>2. CASE in_fragmented_record /\ f.type = "middle"
    <3>1. /\ scratch' = Append(scratch, f) /\ UNCHANGED <<out, in_fragmented_record>>
      BY <2>2 DEF Continuation
    <3>2. scratch'[1] = scratch[1]
      BY <2>2, <3>1, FirstOfScratch, ScratchGrows
    <3> QED BY <1>1, <3>1, <3>2 DEF Had, Returned
  <2>3. CASE in_fragmented_record /\ f.type # "middle"
    <3>1. out' = Append(out, Append(scratch, f))
      BY <2>3 DEF Continuation
    <3>2. Append(scratch, f) \in Seq(fragments) /\ Append(scratch, f)[1] = scratch[1]
      BY <2>3, FirstOfScratch, ScratchGrows
    <3>3. Returned' = Returned \cup {scratch[1].rec}
      BY <3>1, <3>2, ReturnedMore DEF Going
    <3> QED BY <3>3 DEF Had
  <2> QED BY <2>1, <2>2, <2>3
<1>4. ASSUME NEW g \in fragments, Wanted(g.rec),
             Had(g.rec) \/ (pos <= g.at /\ g.at < pos')
      PROVE  g.rec \in F \/ Had(g.rec)
  <2>1. CASE pos <= g.at /\ g.at < pos'
    <3>1. g = f
      BY <1>1, <2>1, RecordsAre, PlacesAre DEF Going
    <3>2. f.rec \in E \/ Had(f.rec)
      BY <1>1, <1>2, <1>4, <3>1, MetBefore
    <3> QED BY <3>1, <3>2
  <2> QED BY <1>4, <2>1
<1> QED BY <1>1, <1>3, <1>4, StillAccounted

Drops == BadLength \/ ZeroHeader \/ ChecksumMismatch \/ WriterDied

LEMMA DropsAre ==
    ASSUME Going, Drops
    PROVE  /\ BufferSize >= HeaderSize
           /\ UNCHANGED <<fragments, size, written, initial_offset_, out, eof_,
                          end_of_buffer_offset_>>
           /\ pos' = end_of_buffer_offset_
           /\ reading' = "yes" => ~in_fragmented_record'
           /\ reading' = "yes" \/ (reading' = "done" /\ eof_)
           /\ resyncing_' = FALSE \/ reading' = "done"
<1>1. BufferSize >= HeaderSize
  BY DropsDamaged DEF Drops
<1>2. CASE BadLength \/ ZeroHeader \/ ChecksumMismatch
  <2>1. PICK positions : BadRecord(positions)
    BY <1>2 DEF BadLength, ZeroHeader, ChecksumMismatch
  <2> QED BY <1>1, <2>1 DEF BadRecord, AfterBlock, InFragmentedAfterBad, fileVars, writerVars, Going
<1>3. CASE WriterDied
  BY <1>1, <1>3 DEF WriterDied, Stop, fileVars, writerVars, MayHaveDied
<1> QED BY <1>2, <1>3 DEF Drops

\* What is dropped of a wanted record begins before the end of the buffer.
LEMMA DropsAccounted ==
    ASSUME Going, NEW E, NEW F, Accounted(E), E \subseteq F, Drops,
           \A h \in fragments :
               Wanted(h.rec) /\ pos <= h.at /\ h.at < end_of_buffer_offset_ => h.rec \in F
    PROVE  Accounted(F)'
<1>1. /\ UNCHANGED <<fragments, written, initial_offset_, out>> /\ Returned' = Returned
      /\ pos' = end_of_buffer_offset_ /\ BufferSize >= 7
      /\ reading' = "yes" \/ (reading' = "done" /\ eof_)
  BY DropsAre DEF Returned, HeaderSize
<1>2. ASSUME in_fragmented_record, Wanted(scratch[1].rec)
      PROVE  scratch[1].rec \in F
  <2>1. PICK h \in fragments : h.rec = scratch[1].rec /\ pos <= h.at /\ h.at < pos + 7
    BY <1>2, NextOfScratch DEF HeaderSize
  <2>2. h.at < end_of_buffer_offset_
    BY <1>1, <2>1, RecordsAre, PlacesAre DEF BufferSize, Going
  <2> QED BY <1>2, <2>1, <2>2
<1>3. ASSUME NEW f \in fragments, Wanted(f.rec), pos <= f.at,
             reading' = "yes" => f.at < pos'
      PROVE  f.rec \in F
  <2>1. f.at < end_of_buffer_offset_
    <3>1. CASE reading' = "yes"
      BY <1>1, <1>3, <3>1
    <3>2. CASE reading' # "yes"
      <4>1. size <= end_of_buffer_offset_
        BY <1>1, <3>2 DEF Going, Buffered
      <4> QED BY <4>1, PlacesAre DEF Going
    <3> QED BY <3>1, <3>2
  <2> QED BY <1>3, <2>1
<1>4. ASSUME NEW f \in fragments, Wanted(f.rec),
             Had(f.rec) \/ (pos <= f.at /\ (reading' = "yes" => f.at < pos'))
      PROVE  f.rec \in F \/ Had(f.rec)'
  <2>1. CASE f.rec \in Returned
    BY <1>1, <2>1 DEF Had
  <2>2. CASE in_fragmented_record /\ f.rec = scratch[1].rec
    BY <1>2, <1>4, <2>2
  <2> QED BY <1>3, <1>4, <2>1, <2>2 DEF Had
<1> QED BY <1>1, <1>4, StillAccounted

LEMMA DropsMove ==
    ASSUME Going, Drops, reading' = "yes"
    PROVE  Buffered' /\ Cleared'
<1>1. /\ UNCHANGED <<fragments, size, eof_, end_of_buffer_offset_>>
      /\ pos' = end_of_buffer_offset_ /\ ~in_fragmented_record'
  BY DropsAre
<1>2. Buffered'
  <2>1. PICK b \in Nat : BlockStart(b) /\ b <= pos /\ end_of_buffer_offset_ <= b + BlockSize
    BY DEF Going, Buffered
  <2>2. b <= end_of_buffer_offset_
    BY <2>1, PlacesAre DEF Going
  <2> QED BY <1>1, <2>1, <2>2 DEF Going, Buffered, BlockStart
<1>3. Cleared'
  <2> SUFFICES ASSUME ~eof_, NEW f \in fragments, f.at < end_of_buffer_offset_
               PROVE  End(f) <= end_of_buffer_offset_
    BY <1>1 DEF Cleared, End
  <2>1. BlockStart(end_of_buffer_offset_)
    BY DEF Going, Buffered
  <2> QED BY <2>1, EndsBefore, PlacesAre DEF Going
<1> QED BY <1>2, <1>3

\* A record that loses a fragment has one in the block of a damaged one.
LEMMA DropsNear ==
    ASSUME Going, Drops, NEW h \in fragments, pos <= h.at, h.at < end_of_buffer_offset_
    PROVE  h.rec \in NearDamage
<1>1. PICK m \in fragments :
          /\ Here = {m} /\ (m.state = "intact" => End(m) <= end_of_buffer_offset_)
          /\ \A p \in Nat : pos <= p /\ p < end_of_buffer_offset_ => BlockOf(p) = BlockOf(m.at)
  BY DropsAre, Lookahead
<1>2. m \in Damaged
  BY <1>1, DropsDamaged DEF Drops, Damaged
<1>3. BlockOf(h.at) = BlockOf(m.at)
  BY <1>1, RecordsAre DEF Going
<1>4. BlockOf(m.at) \in BlocksOf(h.rec) /\ h.rec \in DOMAIN written
  BY <1>3, RecordsAre DEF BlocksOf, Going
<1> QED BY <1>2, <1>4 DEF NearDamage

\* It is told of, if nothing but payloads is damaged.
LEMMA DropsTold ==
    ASSUME Going, Drops, Untorn, OnlyPayloads,
           NEW h \in fragments, pos <= h.at, h.at < end_of_buffer_offset_
    PROVE  h.rec \in Told'
<1>1. PICK m \in fragments :
          /\ Here = {m} /\ m.at = pos /\ (m.state = "intact" => End(m) <= end_of_buffer_offset_)
          /\ End(m) <= size => End(m) <= end_of_buffer_offset_
          /\ \A p \in Nat : pos <= p /\ p < end_of_buffer_offset_ => BlockOf(p) = BlockOf(m.at)
  BY DropsAre, Lookahead
<1>2. m.state = "payload" /\ End(m) <= end_of_buffer_offset_
  <2>1. m \in Damaged
    BY <1>1, DropsDamaged DEF Drops, Damaged
  <2> QED BY <1>1, <2>1 DEF OnlyPayloads, Untorn
<1>3. ChecksumMismatch
  BY <1>1, <1>2, DropsDamaged DEF Drops
<1>4. pos \in reported' /\ UNCHANGED <<fragments, written>>
  <2>1. Reportable(pos)
    BY PlacesAre DEF Reportable, OnlyPayloads, Going
  <2> QED BY <1>3, <2>1 DEF ChecksumMismatch, BadRecord, Report, fileVars, writerVars
<1>5. BlockOf(pos) = BlockOf(h.at) /\ h.rec \in DOMAIN written
  BY <1>1, RecordsAre DEF Going
<1>6. BlockOf(pos) \in BlocksOf(h.rec)
  BY <1>5 DEF BlocksOf
<1>7. (BlocksOf(h.rec))' = BlocksOf(h.rec)
  BY <1>4 DEF BlocksOf
<1> QED BY <1>4, <1>5, <1>6, <1>7 DEF Told, BlocksOf

\* Nothing complete is left where the reader stops.
LEMMA EndAccounted ==
    ASSUME Going, NEW E, NEW F, Accounted(E), E \subseteq F, EndOfFile
    PROVE  Accounted(F)' /\ reading' = "done"
<1>1. /\ UNCHANGED <<fragments, written, initial_offset_, out>> /\ Returned' = Returned
      /\ reading' = "done" /\ eof_ /\ BufferSize < 7
  BY DEF EndOfFile, Stop, fileVars, writerVars, Returned, HeaderSize
<1>2. ASSUME NEW f \in fragments, Wanted(f.rec), pos <= f.at
      PROVE  FALSE
  <2>1. End(f) <= size
    BY <1>2 DEF Going, Unharmed, Kept, Wanted
  <2>2. size <= end_of_buffer_offset_
    BY <1>1 DEF Going, Buffered
  <2> QED BY <1>1, <1>2, <2>1, <2>2, PlacesAre DEF BufferSize, Going
<1>3. ASSUME NEW f \in fragments, Wanted(f.rec), Had(f.rec)
      PROVE  f.rec \in Returned
  <2> SUFFICES ASSUME in_fragmented_record, f.rec = scratch[1].rec PROVE FALSE
    BY <1>3 DEF Had
  <2>1. PICK h \in fragments : h.rec = scratch[1].rec /\ pos <= h.at
    BY <1>3, NextOfScratch
  <2> QED BY <1>2, <1>3, <2>1
<1>4. ASSUME NEW f \in fragments, Wanted(f.rec),
             Had(f.rec) \/ (pos <= f.at /\ (reading' = "yes" => f.at < pos'))
      PROVE  f.rec \in F \/ Had(f.rec)'
  <2>1. f.rec \in Returned
    BY <1>2, <1>3, <1>4
  <2> QED BY <1>1, <2>1 DEF Had
<1> QED BY <1>1, <1>4, StillAccounted

LEMMA BlockAccounted ==
    ASSUME Going, NEW E, NEW F, Accounted(E), E \subseteq F, ReadBlock
    PROVE  Accounted(F)' /\ Buffered' /\ Cleared' /\ reading' = "yes"
<1>1. /\ Buffered' /\ reading' = "yes"
      /\ UNCHANGED <<fragments, written, initial_offset_, scratch, in_fragmented_record, out>>
      /\ \A f \in fragments : (f.at < pos' <=> f.at < pos) /\ (f.at < pos' => End(f) <= pos')
  BY ReadsNextBlock DEF Going, recordVars
<1>2. Cleared'
  BY <1>1 DEF Cleared, End
<1>3. Accounted(F)'
  <2>1. \A i : Had(i) => Had(i)'
    BY <1>1 DEF Had, Returned
  <2>2. \A f \in fragments : ~(pos <= f.at /\ f.at < pos')
    BY <1>1, RecordsAre, PlacesAre DEF Going
  <2>3. \A f \in fragments :
            /\ Wanted(f.rec)
            /\ Had(f.rec) \/ (pos <= f.at /\ (reading' = "yes" => f.at < pos'))
            => f.rec \in F \/ Had(f.rec)'
    BY <1>1, <2>1, <2>2
  <2> QED BY <1>1, <2>3, StillAccounted
<1> QED BY <1>1, <1>2, <1>3

LEMMA StartAccounted ==
    ASSUME FileInv, ReaderInv, Dated, \A f \in fragments : Fits(f), ~eof_,
           NEW offset \in Offsets, StartReading(offset), NEW F
    PROVE  Accounted(F)' /\ Buffered' /\ Cleared' /\ initial_offset_' \in Nat
           /\ (initial_offset_' = 0 => ~resyncing_')
<1>1. /\ initial_offset_' = offset /\ reading' = "yes" /\ resyncing_' = (offset > 0)
      /\ UNCHANGED <<fragments, written>>
  BY DEF StartReading, fileVars, writerVars
<1>2. /\ Buffered' /\ offset \in Nat
      /\ \A f \in fragments :
            f.at < pos' => /\ End(f) <= pos'
                           /\ \A s \in Nat : s <= f.at => ~(s >= offset)
  BY StartsAtBlock
<1>3. Cleared'
  BY <1>1, <1>2 DEF Cleared, End
<1>4. \A f \in fragments : f.at < pos' => ~(written[f.rec].start >= offset)
  BY <1>2 DEF Dated
<1>5. Accounted(F)'
  BY <1>1, <1>4 DEF Accounted, Wanted
<1>6. offset = 0 => ~resyncing_'
  <2> SUFFICES ASSUME offset = 0 PROVE ~resyncing_'
    OBVIOUS
  <2>1. ~(offset > 0)
    BY <1>2
  <2> QED BY <1>1, <2>1, Zenon
<1> QED BY <1>1, <1>2, <1>3, <1>5, <1>6

\* Every step but those that drop something.
Keeps ==
    \/ ReadBlock \/ EndOfFile
    \/ \E f \in fragments : TooEarly(f) \/ Resync(f) \/ Assemble(f)

LEMMA ReadIs == ReadRecord <=> Keeps \/ Drops
BY DEF ReadRecord, Keeps, Drops

LEMMA KeepsAccounted ==
    ASSUME Going, NEW E, NEW F, Accounted(E), E \subseteq F, Keeps
    PROVE  Accounted(F)' /\ (reading' = "yes" => Buffered' /\ Cleared')
<1>1. CASE ReadBlock
  BY <1>1, BlockAccounted
<1>2. CASE EndOfFile
  BY <1>2, EndAccounted
<1>3. ASSUME NEW f \in fragments, TooEarly(f) \/ Resync(f) \/ Assemble(f)
      PROVE  Accounted(F)' /\ Buffered' /\ Cleared'
  <2>1. Assemble(f) => Beginning(f) \/ Continuation(f)
    BY DEF Assemble
  <2> QED BY <1>3, <2>1, PassesOne, EarlyAccounted, ResyncAccounted, BeginningAccounted,
            ContinuationAccounted
<1> QED BY <1>1, <1>2, <1>3 DEF Keeps

\* Without an initial offset the reader has nothing to resynchronise with.
LEMMA KeepsInStep ==
    ASSUME Going, Keeps, ~resyncing_, initial_offset_ = 0
    PROVE  reading' = "yes" => ~resyncing_'
<1>1. CASE ReadBlock
  BY <1>1 DEF ReadBlock, recordVars
<1>2. CASE EndOfFile
  BY <1>2 DEF EndOfFile
<1>3. ASSUME NEW f \in fragments, TooEarly(f) \/ Resync(f) \/ Assemble(f)
      PROVE  ~resyncing_'
  BY <1>3 DEF TooEarly, Resync, Assemble
<1> QED BY <1>1, <1>2, <1>3 DEF Keeps

LEMMA SoundStarts ==
    ASSUME FileInv, FitInv, SoundFile, ReaderInv, SoundReader,
           NEW offset \in Offsets, StartReading(offset)
    PROVE  SoundReader'
<1>1. /\ reading = "no" /\ reading' = "yes" /\ ~eof_
      /\ UNCHANGED <<fragments, size, written, events>>
  BY DEF StartReading, fileVars, writerVars, SoundReader
<1>2. initial_offset_' \in Nat
  BY BoundsAssumption DEF StartReading
<1>3. ASSUME ~Happened("append")'
      PROVE  /\ Buffered' /\ Cleared' /\ Accounted(NearDamage)'
             /\ OnlyPayloads' => Accounted(Told)' /\ ~resyncing_'
  <2>1. /\ ~Happened("append") /\ Dated /\ \A f \in fragments : Fits(f)
    BY <1>1, <1>3 DEF Happened, SoundFile, FitInv
  <2>2. \A F : Accounted(F)' /\ Buffered' /\ Cleared' /\ (initial_offset_' = 0 => ~resyncing_')
    BY <1>1, <2>1, StartAccounted
  <2>3. PICK n : n = NearDamage'
    OBVIOUS
  <2>4. PICK t : t = Told'
    OBVIOUS
  <2>5. Accounted(n)' /\ Accounted(t)'
    BY <2>2
  <2>6. Accounted(NearDamage)' /\ Accounted(Told)'
    BY <2>3, <2>4, <2>5 DEF Accounted
  <2> QED BY <2>2, <2>6 DEF OnlyPayloads
<1> QED BY <1>1, <1>2, <1>3 DEF SoundReader

LEMMA SoundReads ==
    ASSUME FileInv, FitInv, SoundFile, ReaderInv, SoundReader, ReadRecord
    PROVE  SoundReader'
<1>1. /\ reading = "yes" /\ reading' # "no"
      /\ UNCHANGED <<fragments, size, written, events, initial_offset_>>
      /\ reported \subseteq reported'
  BY DEF ReadRecord, ReadBlock, EndOfFile, WriterDied, BadLength, ZeroHeader, ChecksumMismatch,
         BadRecord, TooEarly, Resync, Assemble, Beginning, Continuation, Report, Good,
         CanParse, Stop, fileVars, writerVars, Reads
<1>2. ASSUME ~Happened("append")'
      PROVE  /\ reading' = "yes" => Buffered' /\ Cleared'
             /\ Accounted(NearDamage)'
             /\ OnlyPayloads' => Accounted(Told)' /\ (reading' = "yes" => ~resyncing_')
  <2>1. ~Happened("append")
    BY <1>1, <1>2 DEF Happened
  <2>2. Going
    BY <1>1, <2>1 DEF Going, SoundFile, FitInv, SoundReader
  <2>3. PICK n : n = NearDamage
    OBVIOUS
  <2>4. PICK t : t = Told
    OBVIOUS
  <2>5. PICK u : u = Told'
    OBVIOUS
  <2>6. NearDamage' = n /\ t \subseteq u
    BY <1>1, <2>3, <2>4, <2>5 DEF NearDamage, Told, Damaged, BlocksOf
  <2>7. Accounted(n)
    BY <1>1, <2>1, <2>3 DEF SoundReader, Accounted
  <2>8. Accounted(n)' /\ (reading' = "yes" => Buffered' /\ Cleared')
    <3>1. CASE Keeps
      BY <2>2, <2>7, <3>1, KeepsAccounted
    <3>2. CASE Drops
      <4>1. \A h \in fragments : pos <= h.at /\ h.at < end_of_buffer_offset_ => h.rec \in n
        BY <2>2, <2>3, <3>2, DropsNear
      <4> QED BY <2>2, <2>7, <3>2, <4>1, DropsAccounted, DropsMove
    <3> QED BY <3>1, <3>2, ReadIs
  <2>9. ASSUME OnlyPayloads'
        PROVE  Accounted(u)' /\ (reading' = "yes" => ~resyncing_')
    <3>1. OnlyPayloads /\ Untorn /\ initial_offset_ = 0
      BY <1>1, <2>1, <2>9 DEF OnlyPayloads, Happened, Damaged, SoundFile
    <3>2. Accounted(t) /\ ~resyncing_
      BY <1>1, <2>1, <2>4, <3>1 DEF SoundReader, Accounted
    <3>3. CASE Keeps
      BY <2>2, <2>6, <3>1, <3>2, <3>3, KeepsAccounted, KeepsInStep
    <3>4. CASE Drops
      <4>1. \A h \in fragments : pos <= h.at /\ h.at < end_of_buffer_offset_ => h.rec \in u
        BY <2>2, <2>5, <3>1, <3>4, DropsTold
      <4> QED BY <2>2, <2>6, <3>2, <3>4, <4>1, DropsAccounted, DropsAre
    <3> QED BY <3>3, <3>4, ReadIs
  <2>10. Accounted(NearDamage)'
    BY <2>6, <2>8 DEF Accounted
  <2>11. OnlyPayloads' => Accounted(Told)'
    BY <2>5, <2>9 DEF Accounted
  <2> QED BY <2>8, <2>9, <2>10, <2>11
<1> QED BY <1>1, <1>2 DEF SoundReader

LEMMA SoundReaderNext ==
    FileInv /\ FitInv /\ SoundFile /\ ReaderInv /\ SoundReader /\ [Next]_vars => SoundReader'
<1> SUFFICES ASSUME FileInv, FitInv, SoundFile, ReaderInv, SoundReader, [Next]_vars
             PROVE  SoundReader'
  OBVIOUS
<1>1. CASE Write \/ Crash \/ Damage
  <2>1. reading = "no" /\ UNCHANGED <<reading, initial_offset_, eof_, reported>>
    BY <1>1 DEF Write, AddRecord, EmitPhysicalRecord, EmitFails, ReopenWriter, Crash, Damage,
                readerVars, bufferVars
  <2> QED BY <2>1 DEF SoundReader
<1>2. CASE UNCHANGED vars
  BY <1>2 DEF vars, fileVars, writerVars, readerVars, bufferVars, recordVars, SoundReader,
              Happened, Buffered, Cleared, Accounted, Had, Wanted, Returned, NearDamage, Told,
              Damaged, BlocksOf, OnlyPayloads, End, BlockStart
<1>3. CASE ReadRecord
  BY <1>3, SoundReads
<1>4. CASE \E offset \in Offsets : StartReading(offset)
  BY <1>4, SoundStarts
<1> QED BY <1>1, <1>2, <1>3, <1>4 DEF Next

LEMMA SoundReaderInvariant == Spec => []SoundReader
<1>1. Init => SoundReader
  BY DEF Init, SoundReader
<1> QED BY <1>1, SoundReaderNext, FileInvariant, FitInvariant, SoundInvariant, ReaderInvariant,
           PTL DEF Spec

\* Of a record that is lost the reader has met a fragment.
LEMMA LostIsAccounted ==
    ASSUME FileInv, SoundFile, SoundReader, reading = "done", ~Happened("append"),
           NEW i \in DOMAIN written, Lost(i)
    PROVE  i \in NearDamage /\ (OnlyPayloads => i \in Told)
<1>1. PICK f \in fragments : f.rec = i
  BY DEF SoundFile, Dated, Lost, Wanted
<1>2. /\ Accounted(NearDamage) /\ (OnlyPayloads => Accounted(Told))
      /\ Wanted(f.rec) /\ ~Had(f.rec)
  BY <1>1 DEF SoundReader, Lost, Had
<1> QED BY <1>1, <1>2 DEF Accounted

\* When a log or a MANIFEST is damaged, or goes on behind what a crash has torn, the reader
\* skips blocks: whatever record it does not return had a fragment in a block with a damaged
\* one, so damage in one place does not cost what was written elsewhere.
THEOREM DamageStaysLocal == Spec => []DamageIsLocal
<1>1. FileInv /\ SoundFile /\ SoundReader => DamageIsLocal
  BY LostIsAccounted DEF DamageIsLocal, NearDamage
<1> QED BY <1>1, FileInvariant, SoundInvariant, SoundReaderInvariant, PTL

\* Reporter::Corruption is called, in a block of the record, for every complete record that
\* is lost, as long as every length in the file can be trusted.
THEOREM LossesAreReported == Spec => []LossIsReported
<1>1. ASSUME FileInv, SoundFile, SoundReader
      PROVE  LossIsReported
  <2> SUFFICES ASSUME reading = "done", initial_offset_ = 0, ~Happened("append"),
                      ~Happened("crash"), NEW i \in DOMAIN written, Lost(i),
                      \A f \in Damaged : f.state = "payload"
               PROVE  \E p \in reported : BlockOf(p) \in BlocksOf(i)
    BY DEF LossIsReported
  <2>1. i \in Told
    BY <1>1, LostIsAccounted DEF OnlyPayloads
  <2> QED BY <2>1 DEF Told
<1> QED BY <1>1, FileInvariant, SoundInvariant, SoundReaderInvariant, PTL
=============================================================================
