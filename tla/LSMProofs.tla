------------------------------- MODULE LSMProofs -------------------------------
(***************************************************************************)
(* Theorems about LSM, for every set of keys, every number of levels and   *)
(* writes, and every limit on the sizes of files and compactions.          *)
(***************************************************************************)
EXTENDS LSM, FiniteOrders, SequenceTheorems

-----------------------------------------------------------------------------
(***************************************************************************)
(* Entries and tables.                                                     *)
(***************************************************************************)
GoodLog == log \in Seq([key : Keys, del : BOOLEAN])

LEMMA EntriesType ==
    ASSUME GoodLog
    PROVE  /\ Len(log) \in Nat /\ Entries \subseteq Nat \ {0} /\ IsFiniteSet(Entries)
           /\ \A e \in Entries : UserKey(e) \in Keys /\ UserKey(e) \in Nat
                                 /\ IsDeletion(e) \in BOOLEAN
<1>1. Len(log) \in Nat
  BY LenProperties DEF GoodLog
<1>2. IsFiniteSet(Entries)
  BY <1>1, FS_Interval DEF Entries
<1>3. ASSUME NEW e \in Entries
      PROVE  UserKey(e) \in Keys /\ IsDeletion(e) \in BOOLEAN
  <2>1. log[e] \in [key : Keys, del : BOOLEAN]
    BY <1>3, ElementOfSeq DEF GoodLog, Entries
  <2> QED BY <2>1 DEF UserKey, IsDeletion
<1>4. \A e \in Entries : UserKey(e) \in Nat
  BY <1>3, KeysAssumption
<1>5. Entries \subseteq Nat \ {0}
  BY <1>1 DEF Entries
<1> QED BY <1>1, <1>2, <1>3, <1>4, <1>5

LEMMA KeysAreFinite ==
    ASSUME GoodLog
    PROVE  IsFiniteSet({UserKey(e) : e \in Entries})
<1> DEFINE f == [e \in Entries |-> UserKey(e)]
<1>1. {UserKey(e) : e \in Entries} = {f[e] : e \in Entries}
  OBVIOUS
<1>2. IsFiniteSet(Entries)
  BY EntriesType
<1> HIDE DEF f
<1> QED BY <1>1, <1>2, ImageIsFinite

LEMMA BeforeIsOrder ==
    ASSUME GoodLog, NEW d \in Entries, NEW e \in Entries
    PROVE  /\ d = e \/ Before(d, e) \/ Before(e, d)
           /\ ~Before(e, e) /\ ~(Before(d, e) /\ Before(e, d))
           /\ Before(d, e) => UserKey(d) <= UserKey(e)
           /\ UserKey(d) < UserKey(e) => Before(d, e)
<1>1. d \in Nat /\ e \in Nat /\ UserKey(d) \in Nat /\ UserKey(e) \in Nat
  BY EntriesType
<1> QED BY <1>1 DEF Before

LEMMA BeforeIsTransitive ==
    ASSUME GoodLog, NEW d \in Entries, NEW e \in Entries, NEW x \in Entries,
           Before(d, e), Before(e, x)
    PROVE  Before(d, x)
<1>1. /\ d \in Nat /\ e \in Nat /\ x \in Nat
      /\ UserKey(d) \in Nat /\ UserKey(e) \in Nat /\ UserKey(x) \in Nat
  BY EntriesType
<1> QED BY <1>1 DEF Before

LEMMA Ends ==
    ASSUME GoodLog, NEW S, S \subseteq Entries, S # {}
    PROVE  /\ First(S) \in S /\ \A d \in S : First(S) = d \/ Before(First(S), d)
           /\ Last(S) \in S /\ \A d \in S : Last(S) = d \/ Before(d, Last(S))
<1>1. IsFiniteSet(S)
  BY EntriesType, FS_Subset
<1>2. \E e \in S : \A d \in S : e = d \/ Before(e, d)
  <2> DEFINE R == {r \in S \X S : Before(r[1], r[2])}
  <2>1. \A x \in S : <<x, x>> \notin R
    BY BeforeIsOrder
  <2>2. \A x, y, z \in S : <<x, y>> \in R /\ <<y, z>> \in R => <<x, z>> \in R
    BY BeforeIsTransitive
  <2>3. PICK e \in S : \A d \in S : <<d, e>> \notin R
    <3> HIDE DEF R
    <3> QED BY <1>1, <2>1, <2>2, MinimalExists
  <2>4. \A d \in S : e = d \/ Before(e, d)
    BY <2>3, BeforeIsOrder
  <2> QED BY <2>4
<1>3. \E e \in S : \A d \in S : e = d \/ Before(d, e)
  <2> DEFINE R == {r \in S \X S : Before(r[2], r[1])}
  <2>1. \A x \in S : <<x, x>> \notin R
    BY BeforeIsOrder
  <2>2. \A x, y, z \in S : <<x, y>> \in R /\ <<y, z>> \in R => <<x, z>> \in R
    BY BeforeIsTransitive
  <2>3. PICK e \in S : \A d \in S : <<d, e>> \notin R
    <3> HIDE DEF R
    <3> QED BY <1>1, <2>1, <2>2, MinimalExists
  <2>4. \A d \in S : e = d \/ Before(d, e)
    BY <2>3, BeforeIsOrder
  <2> QED BY <2>4
<1>4. First(S) \in S /\ \A d \in S : First(S) = d \/ Before(First(S), d)
  BY <1>2 DEF First
<1>5. Last(S) \in S /\ \A d \in S : Last(S) = d \/ Before(d, Last(S))
  BY <1>3 DEF Last
<1> QED BY <1>4, <1>5

\* A table with entries whose ends are those of what it holds.
GoodTable(f) ==
    /\ f = [entries |-> f.entries, smallest |-> f.smallest, largest |-> f.largest]
    /\ f.entries \subseteq Entries
    /\ f.smallest \in f.entries /\ f.largest \in f.entries
    /\ \A e \in f.entries : /\ e = f.smallest \/ Before(f.smallest, e)
                            /\ e = f.largest \/ Before(e, f.largest)

LEMMA NewTable ==
    ASSUME GoodLog, NEW S, S \subseteq Entries, S # {}
    PROVE  GoodTable(Table(S)) /\ Table(S).entries = S
BY Ends DEF GoodTable, Table

LEMMA TableIsTable ==
    ASSUME GoodLog, NEW f, GoodTable(f)
    PROVE  f = Table(f.entries)
<1>1. f.entries \subseteq Entries /\ f.entries # {}
  BY DEF GoodTable
<1>2. First(f.entries) = f.smallest
  <2>1. First(f.entries) \in f.entries
        /\ (First(f.entries) = f.smallest \/ Before(First(f.entries), f.smallest))
    BY <1>1, Ends DEF GoodTable
  <2> QED BY <1>1, <2>1, BeforeIsOrder DEF GoodTable
<1>3. Last(f.entries) = f.largest
  <2>1. Last(f.entries) \in f.entries
        /\ (Last(f.entries) = f.largest \/ Before(f.largest, Last(f.entries)))
    BY <1>1, Ends DEF GoodTable
  <2> QED BY <1>1, <2>1, BeforeIsOrder DEF GoodTable
<1> QED BY <1>2, <1>3 DEF GoodTable, Table

LEMMA TableRange ==
    ASSUME GoodLog, NEW f, GoodTable(f)
    PROVE  /\ Lo(f) \in Keys /\ Hi(f) \in Keys /\ Lo(f) \in Nat /\ Hi(f) \in Nat
           /\ Lo(f) <= Hi(f)
           /\ \A e \in f.entries : Lo(f) <= UserKey(e) /\ UserKey(e) <= Hi(f)
<1>1. f.smallest \in Entries /\ f.largest \in Entries /\ f.smallest \in f.entries
  BY DEF GoodTable
<1>2. Lo(f) \in Keys /\ Hi(f) \in Keys /\ Lo(f) \in Nat /\ Hi(f) \in Nat
  BY <1>1, EntriesType DEF Lo, Hi
<1>3. ASSUME NEW e \in f.entries
      PROVE  Lo(f) <= UserKey(e) /\ UserKey(e) <= Hi(f)
  <2>1. e \in Entries /\ UserKey(e) \in Nat
    BY <1>3, EntriesType DEF GoodTable
  <2>2. e = f.smallest \/ Before(f.smallest, e)
    BY DEF GoodTable
  <2>3. e = f.largest \/ Before(e, f.largest)
    BY DEF GoodTable
  <2> QED BY <1>1, <1>2, <2>1, <2>2, <2>3, BeforeIsOrder DEF Lo, Hi
<1>4. Lo(f) <= Hi(f)
  <2>1. UserKey(f.smallest) \in Nat
    BY <1>1, EntriesType
  <2> QED BY <1>1, <1>2, <1>3, <2>1
<1> QED BY <1>2, <1>3, <1>4

\* Tables whose ranges of user keys do not overlap hold entries of different keys.
LEMMA ApartRanges ==
    ASSUME GoodLog, NEW f, NEW g, GoodTable(f), GoodTable(g),
           ~Overlaps(f, Lo(g), Hi(g)), NEW d \in f.entries, NEW e \in g.entries
    PROVE  UserKey(d) # UserKey(e)
<1>1. /\ Lo(f) \in Nat /\ Hi(f) \in Nat /\ Lo(g) \in Nat /\ Hi(g) \in Nat
      /\ Lo(f) <= UserKey(d) /\ UserKey(d) <= Hi(f)
      /\ Lo(g) <= UserKey(e) /\ UserKey(e) <= Hi(g)
  BY TableRange
<1>2. d \in Entries /\ e \in Entries
  BY DEF GoodTable
<1>3. UserKey(d) \in Nat /\ UserKey(e) \in Nat
  BY <1>2, EntriesType
<1> QED BY <1>1, <1>3 DEF Overlaps

\* A table is determined by its entries, so there are finitely many.
LEMMA TablesAreFinite ==
    ASSUME GoodLog, NEW S, \A f \in S : GoodTable(f)
    PROVE  IsFiniteSet(S)
<1> DEFINE t == [E \in SUBSET Entries |-> Table(E)]
           T == {t[E] : E \in SUBSET Entries}
<1>1. IsFiniteSet(SUBSET Entries)
  BY EntriesType, FS_SUBSET
<1>2. IsFiniteSet(T)
  <2> HIDE DEF t
  <2> QED BY <1>1, ImageIsFinite
<1>3. S \subseteq T
  <2> SUFFICES ASSUME NEW f \in S PROVE f \in T
    OBVIOUS
  <2>1. f.entries \in SUBSET Entries /\ f = Table(f.entries)
    BY TableIsTable DEF GoodTable
  <2> QED BY <2>1
<1> HIDE DEF T
<1> QED BY <1>2, <1>3, FS_Subset

\* The log only grows, and what has been said of its entries stays true.
LEMMA LogGrows ==
    ASSUME GoodLog, NEW r \in [key : Keys, del : BOOLEAN], log' = Append(log, r)
    PROVE  /\ GoodLog' /\ Len(log') = Len(log) + 1 /\ Entries \subseteq Entries'
           /\ \A e \in Entries : log'[e] = log[e]
           /\ log'[Len(log) + 1] = r
<1>1. Len(log) \in Nat
  BY EntriesType
<1>2. /\ Append(log, r) \in Seq([key : Keys, del : BOOLEAN])
      /\ Len(Append(log, r)) = Len(log) + 1
      /\ \A i \in 1..Len(log) : Append(log, r)[i] = log[i]
      /\ Append(log, r)[Len(log) + 1] = r
  BY AppendProperties DEF GoodLog
<1> QED BY <1>1, <1>2 DEF GoodLog, Entries

\* What a step leaves of the log: every entry it had.
LogKept == Entries \subseteq Entries' /\ \A e \in Entries : log'[e] = log[e]

LEMMA TablesStay ==
    ASSUME GoodLog, LogKept, NEW f, GoodTable(f)
    PROVE  GoodTable(f)'
<1>1. \A e \in f.entries : e \in Entries /\ e \in Entries' /\ UserKey(e)' = UserKey(e)
  BY DEF GoodTable, LogKept, UserKey
<1>2. \A d, e \in f.entries : Before(d, e)' = Before(d, e)
  BY <1>1 DEF Before, UserKey
<1> QED BY <1>1, <1>2 DEF GoodTable

-----------------------------------------------------------------------------
(***************************************************************************)
(* The type invariant.                                                     *)
(***************************************************************************)
GoodMem ==
    /\ mem_ \subseteq Entries /\ imm_ \subseteq Entries
    /\ has_imm_ \in BOOLEAN /\ (~has_imm_ => imm_ = {})

GoodLevels ==
    /\ levels = [l \in Levels |-> levels[l]]
    /\ \A l \in Levels : \A f \in levels[l] : GoodTable(f)

GoodSnapshots ==
    /\ snapshots_ = [h \in Snapshots |-> snapshots_[h]]
    /\ \A h \in Snapshots : snapshots_[h] = None \/ snapshots_[h] \in 0..Len(log)

\* What a compaction reads is still where it was found, and what it writes is
\* some of that.
InputsThere(p) ==
    /\ p.level \in 0..NumLevels - 2
    /\ p.in0 \subseteq levels[p.level] /\ p.in1 \subseteq levels[p.level + 1]

GoodWork ==
    c # None => /\ InputsThere(c)
                /\ \A f \in c.outputs : GoodTable(f) /\ f.entries \subseteq Inputs(c)

TypeInv == GoodLog /\ GoodMem /\ GoodLevels /\ GoodSnapshots /\ GoodWork

LEMMA LevelsExist ==
    /\ 0 \in Levels
    /\ \A l \in 0..NumLevels - 2 : l \in Levels /\ l + 1 \in Levels /\ l + 1 # 0
BY LevelsAssumption DEF Levels

-----------------------------------------------------------------------------
(***************************************************************************)
(* The choice of inputs.                                                   *)
(***************************************************************************)
LEMMA HullIs ==
    ASSUME GoodLog, NEW S, S # {}, \A f \in S : GoodTable(f)
    PROVE  /\ GetLo(S) \in Keys /\ GetHi(S) \in Keys
           /\ GetLo(S) \in Nat /\ GetHi(S) \in Nat
           /\ \A f \in S : GetLo(S) <= Lo(f) /\ Hi(f) <= GetHi(S)
           /\ \E f \in S : GetLo(S) = Lo(f)
           /\ \E f \in S : GetHi(S) = Hi(f)
<1> DEFINE los == {Lo(f) : f \in S}
           his == {Hi(f) : f \in S}
<1>1. los \subseteq Nat /\ his \subseteq Nat /\ los \subseteq Keys /\ his \subseteq Keys
  BY TableRange
<1>2. los # {} /\ his # {}
  OBVIOUS
<1>3. IsFiniteSet(his)
  <2> DEFINE keys == {UserKey(e) : e \in Entries}
  <2>1. IsFiniteSet(keys)
    BY KeysAreFinite
  <2>2. his \subseteq keys
    BY DEF GoodTable, Hi
  <2> QED BY <2>1, <2>2, FS_Subset
<1>4. Min(los) \in los /\ \A y \in los : Min(los) <= y
  <2> HIDE DEF los
  <2> QED BY <1>1, <1>2, MinIsMin
<1>5. Max(his) \in his /\ \A y \in his : Max(his) >= y
  <2>1. his \subseteq Int
    BY <1>1
  <2> HIDE DEF his
  <2> QED BY <1>2, <1>3, <2>1, MaxIsMax
<1>6. \A f \in S : Lo(f) \in los /\ Hi(f) \in his
  OBVIOUS
<1>7. GetLo(S) = Min(los) /\ GetHi(S) = Max(his)
  BY DEF GetLo, GetHi
<1>8. (\E f \in S : GetLo(S) = Lo(f)) /\ (\E f \in S : GetHi(S) = Hi(f))
  BY <1>4, <1>5, <1>7
<1>9. \A f \in S : GetLo(S) <= Lo(f) /\ Hi(f) <= GetHi(S)
  <2> TAKE f \in S
  <2>1. Min(los) <= Lo(f) /\ Max(his) >= Hi(f)
    <3> HIDE DEF los, his
    <3> QED BY <1>4, <1>5, <1>6
  <2>2. Max(his) \in Nat /\ Hi(f) \in Nat
    <3> HIDE DEF los, his
    <3> QED BY <1>1, <1>5, <1>6
  <2> HIDE DEF los, his
  <2> QED BY <1>7, <2>1, <2>2
<1>10. GetLo(S) \in Keys /\ GetHi(S) \in Keys /\ GetLo(S) \in Nat /\ GetHi(S) \in Nat
  <2> HIDE DEF los, his
  <2> QED BY <1>1, <1>4, <1>5, <1>7
<1> QED BY <1>8, <1>9, <1>10

\* What GetOverlappingInputs takes of level 0: the files that touch the least range
\* that contains lo..hi and every file that it touches.
LEMMA Level0Range ==
    ASSUME GoodLog, GoodLevels, NEW lo \in Keys, NEW hi \in Keys
    PROVE  \E b, e \in Keys :
              /\ b <= lo /\ hi <= e
              /\ GetOverlappingInputs(0, lo, hi) = {f \in levels[0] : Overlaps(f, b, e)}
              /\ \A f \in levels[0] : Overlaps(f, b, e) => b <= Lo(f) /\ Hi(f) <= e
              /\ \A r \in ClosedRanges(lo, hi) : r[1] <= b /\ e <= r[2]
<1> DEFINE R == ClosedRanges(lo, hi)
           b == Max({r[1] : r \in R})
           e == Min({r[2] : r \in R})
<1>0. lo \in Nat /\ hi \in Nat /\ Keys \subseteq Nat
  BY KeysAssumption
<1>1. \A f \in levels[0] : /\ Lo(f) \in Nat /\ Hi(f) \in Nat /\ Lo(f) <= Hi(f)
                           /\ f.smallest \in Entries /\ f.largest \in Entries
  <2> TAKE f \in levels[0]
  <2>1. GoodTable(f)
    BY LevelsExist DEF GoodLevels
  <2>2. f.smallest \in Entries /\ f.largest \in Entries
    BY <2>1 DEF GoodTable
  <2> QED BY <2>1, <2>2, TableRange
<1>2. R # {}
  <2> DEFINE keys == {UserKey(x) : x \in Entries} \cup {lo, hi}
  <2>1. IsFiniteSet(keys) /\ keys \subseteq Keys /\ keys # {}
    <3>2. IsFiniteSet({UserKey(x) : x \in Entries})
      BY KeysAreFinite
    <3>3. IsFiniteSet({lo, hi})
      <4>1. IsFiniteSet({lo}) /\ {lo, hi} = {lo} \cup {hi}
        BY FS_Singleton
      <4> QED BY <4>1, FS_AddElement
    <3>4. IsFiniteSet(keys)
      BY <3>2, <3>3, FS_Union
    <3>5. {UserKey(x) : x \in Entries} \subseteq Keys
      BY EntriesType
    <3> QED BY <3>4, <3>5
  <2>2. keys \subseteq Nat /\ keys \subseteq Int
    <3> HIDE DEF keys
    <3> QED BY <1>0, <2>1
  <2>3. Min(keys) \in keys /\ \A y \in keys : Min(keys) <= y
    <3> HIDE DEF keys
    <3> QED BY <2>1, <2>2, MinIsMin
  <2>4. Max(keys) \in keys /\ \A y \in keys : Max(keys) >= y
    <3> HIDE DEF keys
    <3> QED BY <2>1, <2>2, MaxIsMax
  <2>5. lo \in keys /\ hi \in keys /\ \A f \in levels[0] : Lo(f) \in keys /\ Hi(f) \in keys
    BY <1>1 DEF Lo, Hi
  <2>6. <<Min(keys), Max(keys)>> \in Keys \X Keys
    <3> HIDE DEF keys
    <3> QED BY <2>1, <2>3, <2>4
  <2>7. Min(keys) <= lo /\ hi <= Max(keys)
        /\ \A f \in levels[0] : Min(keys) <= Lo(f) /\ Hi(f) <= Max(keys)
    <3>1. \A y \in keys : y \in Nat /\ Max(keys) \in Nat /\ y <= Max(keys)
      <4> HIDE DEF keys
      <4> QED BY <2>2, <2>4
    <3> HIDE DEF keys
    <3> QED BY <2>3, <2>5, <3>1
  <2>8. <<Min(keys), Max(keys)>> \in R
    <3> HIDE DEF keys
    <3> QED BY <2>6, <2>7 DEF ClosedRanges
  <2> QED BY <2>8
<1>3. \A r \in R : /\ r[1] \in Keys /\ r[2] \in Keys /\ r[1] <= lo /\ hi <= r[2]
                   /\ \A f \in levels[0] :
                        Overlaps(f, r[1], r[2]) => r[1] <= Lo(f) /\ Hi(f) <= r[2]
  BY DEF ClosedRanges
<1>30. \A r \in R : r[1] \in Nat /\ r[1] \in 0..lo /\ r[2] \in Nat
  <2> TAKE r \in R
  <2>1. r[1] \in Keys /\ r[2] \in Keys /\ r[1] <= lo
    <3> HIDE DEF R
    <3> QED BY <1>3
  <2>2. r[1] \in Nat /\ r[2] \in Nat
    BY <1>0, <2>1
  <2> QED BY <1>0, <2>1, <2>2
<1>4. b \in {r[1] : r \in R} /\ \A y \in {r[1] : r \in R} : b >= y
  <2> DEFINE F == {r[1] : r \in R}
  <2>1. F \subseteq Int /\ F # {}
    <3> HIDE DEF R
    <3> QED BY <1>2, <1>30
  <2>2. IsFiniteSet(F)
    <3>1. F \subseteq 0..lo
      <4> HIDE DEF R
      <4> QED BY <1>30
    <3>2. IsFiniteSet(0..lo)
      BY <1>0, FS_Interval
    <3> QED BY <3>1, <3>2, FS_Subset
  <2> HIDE DEF F
  <2>3. Max(F) \in F /\ \A y \in F : Max(F) >= y
    BY <2>1, <2>2, MaxIsMax
  <2> QED BY <2>3 DEF F
<1>5. e \in {r[2] : r \in R} /\ \A y \in {r[2] : r \in R} : e <= y
  <2> DEFINE F == {r[2] : r \in R}
  <2>1. F \subseteq Nat /\ F # {}
    <3> HIDE DEF R
    <3> QED BY <1>2, <1>30
  <2> HIDE DEF F
  <2>2. Min(F) \in F /\ \A y \in F : Min(F) <= y
    BY <2>1, MinIsMin
  <2> QED BY <2>2 DEF F
<1>6. GetOverlappingInputs(0, lo, hi) = {f \in levels[0] : Overlaps(f, b, e)}
  BY DEF GetOverlappingInputs
<1> HIDE DEF b, e
<1>7. PICK r \in R : b = r[1]
  BY <1>4
<1>8. PICK q \in R : e = q[2]
  BY <1>5
<1>9. b \in Keys /\ e \in Keys /\ b <= lo /\ hi <= e /\ b \in Nat /\ e \in Nat
  BY <1>0, <1>3, <1>7, <1>8
<1>10. \A x \in R : x[1] <= b /\ e <= x[2]
  <2> TAKE x \in R
  <2>1. x[1] \in Nat /\ b >= x[1] /\ e <= x[2]
    <3> HIDE DEF R
    <3> QED BY <1>0, <1>3, <1>4, <1>5
  <2> QED BY <1>9, <2>1
<1>11. ASSUME NEW f \in levels[0], Overlaps(f, b, e)
       PROVE  b <= Lo(f) /\ Hi(f) <= e
  <2>1. /\ r[2] \in Nat /\ q[1] \in Nat /\ e <= r[2] /\ q[1] <= b
        /\ Lo(f) \in Nat /\ Hi(f) \in Nat
    BY <1>0, <1>1, <1>3, <1>10
  <2>2. Overlaps(f, r[1], r[2]) /\ Overlaps(f, q[1], q[2])
    BY <1>7, <1>8, <1>9, <1>11, <2>1 DEF Overlaps
  <2> QED BY <1>3, <1>7, <1>8, <2>2
<1> QED BY <1>6, <1>9, <1>10, <1>11

LEMMA InputsThatOverlap ==
    ASSUME GoodLog, GoodLevels, NEW l \in Levels, NEW lo \in Keys, NEW hi \in Keys
    PROVE  /\ GetOverlappingInputs(l, lo, hi) \subseteq levels[l]
           /\ \A f \in levels[l] : Overlaps(f, lo, hi) => f \in GetOverlappingInputs(l, lo, hi)
           /\ l # 0 => GetOverlappingInputs(l, lo, hi) = {f \in levels[l] : Overlaps(f, lo, hi)}
<1>1. CASE l # 0
  <2>1. GetOverlappingInputs(l, lo, hi) = {f \in levels[l] : Overlaps(f, lo, hi)}
    BY <1>1 DEF GetOverlappingInputs
  <2> QED BY <2>1
<1>2. CASE l = 0
  <2>1. PICK b, e \in Keys :
            /\ b <= lo /\ hi <= e
            /\ GetOverlappingInputs(0, lo, hi) = {f \in levels[0] : Overlaps(f, b, e)}
            /\ \A f \in levels[0] : Overlaps(f, b, e) => b <= Lo(f) /\ Hi(f) <= e
            /\ \A r \in ClosedRanges(lo, hi) : r[1] <= b /\ e <= r[2]
    BY Level0Range
  <2>2. b \in Nat /\ e \in Nat /\ lo \in Nat /\ hi \in Nat
    BY KeysAssumption
  <2>3. ASSUME NEW f \in levels[0], Overlaps(f, lo, hi)
        PROVE  Overlaps(f, b, e)
    <3>1. Lo(f) \in Nat /\ Hi(f) \in Nat
      BY LevelsExist, TableRange DEF GoodLevels
    <3> QED BY <2>1, <2>2, <2>3, <3>1 DEF Overlaps
  <2> QED BY <1>2, <2>1, <2>3
<1> QED BY <1>1, <1>2

\* What a choice of inputs promises: all files of the next level that the first inputs
\* touch, and no file of level 0 left behind that they touch.
GoodChoice(p) ==
    /\ InputsThere(p) /\ p.in0 # {}
    /\ p.in1 = {f \in levels[p.level + 1] : Overlaps(f, GetLo(p.in0), GetHi(p.in0))}
    /\ p.level = 0 =>
          \A f \in levels[0] \ p.in0 : ~Overlaps(f, GetLo(p.in0), GetHi(p.in0))

LEMMA Level0Choice ==
    ASSUME GoodLog, GoodLevels, NEW lo \in Keys, NEW hi \in Keys,
           NEW S, S = GetOverlappingInputs(0, lo, hi), S # {}
    PROVE  \A f \in levels[0] \ S : ~Overlaps(f, GetLo(S), GetHi(S))
<1>1. PICK b, e \in Keys :
          /\ S = {f \in levels[0] : Overlaps(f, b, e)}
          /\ \A f \in levels[0] : Overlaps(f, b, e) => b <= Lo(f) /\ Hi(f) <= e
  BY Level0Range
<1>2. \A f \in levels[0] : GoodTable(f) /\ Lo(f) \in Nat /\ Hi(f) \in Nat
  BY LevelsExist, TableRange DEF GoodLevels
<1>3. \A f \in S : GoodTable(f)
  BY <1>1, <1>2
<1>4. GetLo(S) \in Nat /\ GetHi(S) \in Nat /\ b \in Nat /\ e \in Nat
  BY <1>3, HullIs, KeysAssumption
<1>5. b <= GetLo(S)
  <2>1. PICK f \in S : GetLo(S) = Lo(f)
    BY <1>3, HullIs
  <2> QED BY <1>1, <2>1
<1>6. GetHi(S) <= e
  <2>1. PICK f \in S : GetHi(S) = Hi(f)
    BY <1>3, HullIs
  <2> QED BY <1>1, <2>1
<1> SUFFICES ASSUME NEW f \in levels[0], Overlaps(f, GetLo(S), GetHi(S))
             PROVE  f \in S
  OBVIOUS
<1>7. Overlaps(f, b, e)
  <2>1. Lo(f) \in Nat /\ Hi(f) \in Nat /\ Lo(f) <= GetHi(S) /\ Hi(f) >= GetLo(S)
    BY <1>2 DEF Overlaps
  <2> QED BY <1>4, <1>5, <1>6, <2>1 DEF Overlaps
<1> QED BY <1>1, <1>7

LEMMA SetupIsGood ==
    ASSUME GoodLog, GoodLevels, NEW l \in 0..NumLevels - 2,
           NEW in0, in0 \subseteq levels[l], in0 # {},
           l = 0 => \A f \in levels[0] \ in0 : ~Overlaps(f, GetLo(in0), GetHi(in0))
    PROVE  /\ GoodChoice(SetupOtherInputs(l, in0))
           /\ SetupOtherInputs(l, in0).level = l
<1> DEFINE p == SetupOtherInputs(l, in0)
           in1 == GetOverlappingInputs(l + 1, GetLo(in0), GetHi(in0))
           expanded0 == GetOverlappingInputs(l, GetLo(in0 \cup in1), GetHi(in0 \cup in1))
           expanded1 == GetOverlappingInputs(l + 1, GetLo(expanded0), GetHi(expanded0))
<1>1. l \in Levels /\ l + 1 \in Levels /\ l + 1 # 0
  BY LevelsExist
<1>2. \A f \in in0 : GoodTable(f)
  BY <1>1 DEF GoodLevels
<1>3. GetLo(in0) \in Keys /\ GetHi(in0) \in Keys /\ GetLo(in0) \in Nat /\ GetHi(in0) \in Nat
  BY <1>2, HullIs
<1>4. in1 = {f \in levels[l + 1] : Overlaps(f, GetLo(in0), GetHi(in0))}
  BY <1>1, <1>3, InputsThatOverlap
<1>5. \A f \in in0 \cup in1 : GoodTable(f)
  BY <1>1, <1>2, <1>4 DEF GoodLevels
<1>6. GetLo(in0 \cup in1) \in Keys /\ GetHi(in0 \cup in1) \in Keys
      /\ GetLo(in0 \cup in1) \in Nat /\ GetHi(in0 \cup in1) \in Nat
  <2> HIDE DEF in1
  <2> QED BY <1>5, HullIs
<1>7. expanded0 \subseteq levels[l] /\ in0 \subseteq expanded0
  <2>1. ASSUME NEW f \in in0
        PROVE  Overlaps(f, GetLo(in0 \cup in1), GetHi(in0 \cup in1))
    <3>1. f \in in0 \cup in1 /\ GoodTable(f)
      BY <1>2
    <3>2. GetLo(in0 \cup in1) <= Lo(f) /\ Hi(f) <= GetHi(in0 \cup in1)
      <4> HIDE DEF in1
      <4> QED BY <1>5, <3>1, HullIs
    <3>3. Lo(f) \in Nat /\ Hi(f) \in Nat /\ Lo(f) <= Hi(f)
      BY <3>1, TableRange
    <3> HIDE DEF in1
    <3> QED BY <1>6, <3>2, <3>3 DEF Overlaps
  <2>2. \A f \in levels[l] : Overlaps(f, GetLo(in0 \cup in1), GetHi(in0 \cup in1))
                             => f \in expanded0
    <3> HIDE DEF in1
    <3> QED BY <1>1, <1>6, InputsThatOverlap
  <2>3. expanded0 \subseteq levels[l]
    <3> HIDE DEF in1
    <3> QED BY <1>1, <1>6, InputsThatOverlap
  <2> HIDE DEF in1, expanded0
  <2> QED BY <2>1, <2>2, <2>3
<1>8. \A f \in expanded0 : GoodTable(f)
  <2> HIDE DEF expanded0
  <2> QED BY <1>1, <1>7 DEF GoodLevels
<1>9. expanded1 = {f \in levels[l + 1] : Overlaps(f, GetLo(expanded0), GetHi(expanded0))}
  <2> HIDE DEF expanded0
  <2>1. expanded0 # {}
    BY <1>7
  <2>2. GetLo(expanded0) \in Keys /\ GetHi(expanded0) \in Keys
    BY <1>8, <2>1, HullIs
  <2> QED BY <1>1, <2>2, InputsThatOverlap
<1>10. l = 0 => \A f \in levels[0] \ expanded0 : ~Overlaps(f, GetLo(expanded0), GetHi(expanded0))
  <2> HAVE l = 0
  <2> HIDE DEF in1
  <2>1. expanded0 = GetOverlappingInputs(0, GetLo(in0 \cup in1), GetHi(in0 \cup in1))
    OBVIOUS
  <2> HIDE DEF expanded0
  <2>2. expanded0 # {}
    BY <1>7
  <2> QED BY <1>6, <2>1, <2>2, Level0Choice
<1>11. p \in {[level |-> l, in0 |-> expanded0, in1 |-> expanded1],
              [level |-> l, in0 |-> in0, in1 |-> in1]}
  BY DEF SetupOtherInputs
<1> HIDE DEF in1, expanded0, expanded1, p
<1>12. CASE p = [level |-> l, in0 |-> expanded0, in1 |-> expanded1]
  <2>1. p.level = l /\ p.in0 = expanded0 /\ p.in1 = expanded1
    BY <1>12
  <2> QED BY <1>7, <1>9, <1>10, <2>1 DEF GoodChoice, InputsThere, p
<1>13. CASE p = [level |-> l, in0 |-> in0, in1 |-> in1]
  <2>1. p.level = l /\ p.in0 = in0 /\ p.in1 = in1
    BY <1>13
  <2> QED BY <1>4, <2>1 DEF GoodChoice, InputsThere, p
<1> QED BY <1>11, <1>12, <1>13

LEMMA PickIsGood ==
    ASSUME GoodLog, GoodLevels, NEW l \in 0..NumLevels - 2, NEW f \in levels[l]
    PROVE  GoodChoice(PickCompaction(l, f)) /\ PickCompaction(l, f).level = l
<1> DEFINE in0 == IF l = 0 THEN GetOverlappingInputs(0, Lo(f), Hi(f)) ELSE {f}
<1>1. l \in Levels
  BY LevelsExist
<1>2. GoodTable(f) /\ Lo(f) \in Keys /\ Hi(f) \in Keys /\ Overlaps(f, Lo(f), Hi(f))
  <2>1. GoodTable(f)
    BY <1>1 DEF GoodLevels
  <2> QED BY <2>1, TableRange DEF Overlaps
<1>3. in0 \subseteq levels[l] /\ f \in in0
  BY <1>1, <1>2, InputsThatOverlap
<1>4. l = 0 => \A g \in levels[0] \ in0 : ~Overlaps(g, GetLo(in0), GetHi(in0))
  <2> HAVE l = 0
  <2>1. in0 = GetOverlappingInputs(0, Lo(f), Hi(f))
    OBVIOUS
  <2>2. in0 # {}
    BY <1>3
  <2> HIDE DEF in0
  <2> QED BY <1>2, <2>1, <2>2, Level0Choice
<1>5. PickCompaction(l, f) = SetupOtherInputs(l, in0)
  BY DEF PickCompaction
<1> HIDE DEF in0
<1> QED BY <1>3, <1>4, <1>5, SetupIsGood

LEMMA ManualIsGood ==
    ASSUME GoodLog, GoodLevels, NEW l \in 0..NumLevels - 2, NEW lo \in Keys, NEW hi \in Keys,
           GetOverlappingInputs(l, lo, hi) # {}
    PROVE  GoodChoice(CompactRange(l, lo, hi)) /\ CompactRange(l, lo, hi).level = l
<1> DEFINE all == GetOverlappingInputs(l, lo, hi)
           first == {f \in all :
                       Size({g \in all : Before(g.largest, f.largest)}) < MaxFileSize}
           in0 == IF l = 0 THEN all ELSE first
<1>1. l \in Levels
  BY LevelsExist
<1>2. all \subseteq levels[l] /\ all # {}
  BY <1>1, InputsThatOverlap
<1>3. first # {}
  <2> DEFINE ends == {f.largest : f \in all}
  <2> HIDE DEF all
  <2>1. ends \subseteq Entries /\ ends # {}
    BY <1>1, <1>2 DEF GoodLevels, GoodTable
  <2>2. First(ends) \in ends /\ \A d \in ends : First(ends) = d \/ Before(First(ends), d)
    <3> HIDE DEF ends
    <3> QED BY <2>1, Ends
  <2>3. PICK f \in all : f.largest = First(ends)
    BY <2>2
  <2>4. ASSUME NEW g \in all
        PROVE  ~Before(g.largest, f.largest)
    <3>1. g.largest \in ends /\ f.largest \in ends
      OBVIOUS
    <3> HIDE DEF ends
    <3> QED BY <2>1, <2>2, <2>3, <3>1, BeforeIsOrder
  <2>5. {g \in all : Before(g.largest, f.largest)} = {}
    BY <2>4
  <2>6. UNION {g.entries : g \in {}} = {}
    OBVIOUS
  <2>7. Size({}) = 0
    BY <2>6, FS_EmptySet DEF Size
  <2> QED BY <2>5, <2>7, SizesAssumption
<1>4. in0 \subseteq levels[l] /\ in0 # {}
  BY <1>2, <1>3
<1>5. l = 0 => \A g \in levels[0] \ in0 : ~Overlaps(g, GetLo(in0), GetHi(in0))
  <2> HAVE l = 0
  <2>1. in0 = GetOverlappingInputs(0, lo, hi)
    OBVIOUS
  <2> HIDE DEF in0
  <2> QED BY <1>4, <2>1, Level0Choice
<1>6. CompactRange(l, lo, hi) = SetupOtherInputs(l, in0)
  BY DEF CompactRange
<1> HIDE DEF in0
<1> QED BY <1>4, <1>5, <1>6, SetupIsGood

-----------------------------------------------------------------------------
(***************************************************************************)
(* What a compaction writes.                                               *)
(***************************************************************************)
LEMMA InputsAreWritten ==
    ASSUME GoodLog, GoodLevels, NEW p, InputsThere(p)
    PROVE  /\ Inputs(p) \subseteq Entries
           /\ \A f \in p.in0 \cup p.in1 : GoodTable(f)
<1>1. p.level \in Levels /\ p.level + 1 \in Levels
  BY LevelsExist DEF InputsThere
<1>2. \A f \in p.in0 \cup p.in1 : GoodTable(f)
  BY <1>1 DEF GoodLevels, InputsThere
<1> QED BY <1>2 DEF Inputs, GoodTable

OutputTables(p, heads) == {Table(Output(p, heads, h)) : h \in heads}

\* The outputs hold the entries that are kept, each in one of them, and their
\* ranges of internal keys are apart.
LEMMA OutputsAre ==
    ASSUME GoodLog, GoodLevels, NEW p, InputsThere(p), NEW heads \in Cuts(p),
           NEW outputs, outputs = OutputTables(p, heads)
    PROVE  /\ \A f \in outputs : GoodTable(f) /\ f.entries \subseteq Inputs(p)
           /\ UNION {f.entries : f \in outputs} = Kept(p)
           /\ \A f, g \in outputs :
                 f # g => Before(f.largest, g.smallest) \/ Before(g.largest, f.smallest)
<1>1. /\ heads \subseteq Kept(p) /\ Kept(p) \subseteq Inputs(p) /\ Inputs(p) \subseteq Entries
      /\ UNION {Output(p, heads, h) : h \in heads} = Kept(p)
  BY InputsAreWritten DEF Cuts, Kept
<1>2. ASSUME NEW h \in heads
      PROVE  /\ Output(p, heads, h) \subseteq Kept(p) /\ h \in Output(p, heads, h)
             /\ \A e \in Output(p, heads, h) :
                   /\ e = h \/ Before(h, e)
                   /\ \A g \in heads : Before(h, g) => Before(e, g)
  BY <1>1 DEF Output
<1>3. ASSUME NEW h \in heads
      PROVE  /\ GoodTable(Table(Output(p, heads, h)))
             /\ Table(Output(p, heads, h)).entries = Output(p, heads, h)
  <2>1. Output(p, heads, h) \subseteq Entries /\ Output(p, heads, h) # {}
    BY <1>1, <1>2
  <2> QED BY <2>1, NewTable
<1>0. outputs = {Table(Output(p, heads, h)) : h \in heads}
  BY DEF OutputTables
<1>4. \A f \in outputs : GoodTable(f) /\ f.entries \subseteq Inputs(p)
  BY <1>0, <1>1, <1>2, <1>3
<1>5. UNION {f.entries : f \in outputs} = Kept(p)
  <2>1. {f.entries : f \in outputs} = {Output(p, heads, h) : h \in heads}
    BY <1>0, <1>3
  <2> QED BY <1>1, <2>1
<1>6. ASSUME NEW g \in heads, NEW h \in heads, Before(g, h)
      PROVE  Before(Table(Output(p, heads, g)).largest, Table(Output(p, heads, h)).smallest)
  <2> DEFINE x == Table(Output(p, heads, g)).largest
             y == Table(Output(p, heads, h)).smallest
  <2>1. x \in Output(p, heads, g) /\ y \in Output(p, heads, h)
    BY <1>3 DEF GoodTable
  <2>2. Before(x, h) /\ (y = h \/ Before(h, y))
    BY <1>2, <1>6, <2>1
  <2>3. x \in Entries /\ y \in Entries /\ h \in Entries
    BY <1>1, <1>2, <2>1
  <2> HIDE DEF x, y
  <2>4. Before(x, y)
    BY <2>2, <2>3, BeforeIsTransitive
  <2> QED BY <2>4 DEF x, y
<1>7. ASSUME NEW f \in outputs, NEW g \in outputs, f # g
      PROVE  Before(f.largest, g.smallest) \/ Before(g.largest, f.smallest)
  <2>1. PICK h \in heads : f = Table(Output(p, heads, h))
    BY <1>0
  <2>2. PICK i \in heads : g = Table(Output(p, heads, i))
    BY <1>0
  <2>3. h \in Entries /\ i \in Entries /\ h # i
    BY <1>1, <1>7, <2>1, <2>2
  <2>4. Before(h, i) \/ Before(i, h)
    BY <2>3, BeforeIsOrder
  <2> QED BY <1>6, <2>1, <2>2, <2>4
<1> QED BY <1>4, <1>5, <1>7

\* A memtable's table goes to a level that exists, and passes no file whose range it
\* overlaps.
LEMMA FlushPlace ==
    ASSUME NEW lo, NEW hi, NEW L, L = PickLevelForMemTableOutput(lo, hi)
    PROVE  /\ L \in Levels
           /\ L # 0 => \A l \in 0..L : \A f \in levels[l] : ~Overlaps(f, lo, hi)
<1> DEFINE mayPass(l) ==
               /\ ~OverlapInLevel(l, lo, hi)
               /\ l + 1 < NumLevels => Size(GetOverlappingInputs(l + 1, lo, hi)) <= GrandparentLimit
           M == {l \in 0..MaxMemCompactLevel : \A i \in 1..l : mayPass(i)}
<1>1. CASE OverlapInLevel(0, lo, hi)
  BY <1>1, LevelsExist DEF PickLevelForMemTableOutput
<1>2. CASE ~OverlapInLevel(0, lo, hi)
  <2>1. L = Max(M)
    BY <1>2 DEF PickLevelForMemTableOutput
  <2>2. M \subseteq 0..MaxMemCompactLevel /\ 0 \in M
    <3> HIDE DEF mayPass
    <3> QED BY LevelsAssumption
  <2>3. IsFiniteSet(M)
    <3>1. IsFiniteSet(0..MaxMemCompactLevel)
      BY LevelsAssumption, FS_Interval
    <3> HIDE DEF M
    <3> QED BY <2>2, <3>1, FS_Subset
  <2>4. L \in M
    <3>1. M \subseteq Int
      BY LevelsAssumption
    <3> HIDE DEF M
    <3> QED BY <2>1, <2>2, <2>3, <3>1, MaxIsMax
  <2>5. L \in 0..MaxMemCompactLevel /\ \A i \in 1..L : ~OverlapInLevel(i, lo, hi)
    BY <2>4
  <2>6. L \in Levels
    BY <2>5, LevelsAssumption DEF Levels
  <2>7. ASSUME NEW l \in 0..L
        PROVE  ~OverlapInLevel(l, lo, hi)
    <3>1. l = 0 \/ l \in 1..L
      BY <2>5, LevelsAssumption
    <3> QED BY <1>2, <2>5, <3>1
  <2> QED BY <2>6, <2>7 DEF OverlapInLevel
<1> QED BY <1>1, <1>2

-----------------------------------------------------------------------------
(***************************************************************************)
(* The steps of the background thread, level by level.                     *)
(***************************************************************************)
\* A file f has entered level L.
Enters(f, L) ==
    levels' = [l \in Levels |-> IF l = L THEN levels[l] \cup {f} ELSE levels[l]]

\* gone0 has left level n, gone1 the level below, where new has entered.
Replaces(n, gone0, gone1, new) ==
    levels' = [l \in Levels |-> IF l = n THEN levels[l] \ gone0
                                ELSE IF l = n + 1 THEN (levels[l] \ gone1) \cup new
                                ELSE levels[l]]

LEMMA FlushCases ==
    ASSUME TypeInv, CompactMemTable
    PROVE  /\ UNCHANGED <<log, mem_, snapshots_, c>>
           /\ imm_' = {} /\ has_imm_' = FALSE
           /\ imm_ = {} => UNCHANGED levels
           /\ imm_ # {} =>
                 \E f : \E L \in Levels :
                    /\ GoodTable(f) /\ f.entries = imm_ /\ Enters(f, L)
                    /\ L # 0 => \A l \in 0..L : \A g \in levels[l] : ~Overlaps(g, Lo(f), Hi(f))
<1>1. /\ UNCHANGED <<log, mem_, snapshots_, c>> /\ imm_' = {} /\ has_imm_' = FALSE
      /\ imm_ = {} => UNCHANGED levels
  BY DEF CompactMemTable
<1>2. ASSUME imm_ # {}
      PROVE  \E f : \E L \in Levels :
                /\ GoodTable(f) /\ f.entries = imm_ /\ Enters(f, L)
                /\ L # 0 => \A l \in 0..L : \A g \in levels[l] : ~Overlaps(g, Lo(f), Hi(f))
  <2> DEFINE f == Table(imm_)
             L == PickLevelForMemTableOutput(Lo(f), Hi(f))
  <2>1. GoodTable(f) /\ f.entries = imm_
    BY <1>2, NewTable DEF TypeInv, GoodMem
  <2>2. levels' = [levels EXCEPT ![L] = @ \cup {f}]
    BY <1>2 DEF CompactMemTable
  <2> HIDE DEF f
  <2>3. /\ L \in Levels
        /\ L # 0 => \A l \in 0..L : \A g \in levels[l] : ~Overlaps(g, Lo(f), Hi(f))
    <3> DEFINE lo == Lo(f)
               hi == Hi(f)
    <3> HIDE DEF lo, hi
    <3>1. /\ PickLevelForMemTableOutput(lo, hi) \in Levels
          /\ PickLevelForMemTableOutput(lo, hi) # 0 =>
                \A l \in 0..PickLevelForMemTableOutput(lo, hi) :
                    \A g \in levels[l] : ~Overlaps(g, lo, hi)
      BY FlushPlace
    <3> QED BY <3>1 DEF lo, hi
  <2> HIDE DEF L
  <2>4. Enters(f, L)
    BY <2>2, <2>3 DEF Enters, TypeInv, GoodLevels
  <2> QED BY <2>1, <2>3, <2>4
<1> QED BY <1>1, <1>2

\* What a compaction may do at once: move its only file, or settle what it writes.
Moves(p) ==
    /\ UNCHANGED <<log, mem_, imm_, has_imm_, snapshots_, c>>
    /\ (\E f : p.in0 = {f}) /\ p.in1 = {} /\ Replaces(p.level, p.in0, {}, p.in0)

Starts(p) ==
    /\ UNCHANGED <<log, mem_, imm_, has_imm_, snapshots_, levels>>
    /\ \E heads \in Cuts(p) :
          c' = [level |-> p.level, in0 |-> p.in0, in1 |-> p.in1,
                outputs |-> OutputTables(p, heads)]

LEMMA AutoCases ==
    ASSUME TypeInv, AutoCompaction
    PROVE  /\ c = None /\ ~has_imm_ /\ imm_ = {}
           /\ \E l \in 0..NumLevels - 2 : \E f \in levels[l] : \E p :
                 /\ p = PickCompaction(l, f) /\ GoodChoice(p)
                 /\ Moves(p) \/ Starts(p)
<1>1. c = None /\ ~has_imm_ /\ imm_ = {}
  BY DEF AutoCompaction, MayStart, TypeInv, GoodMem
<1>2. PICK l \in 0..NumLevels - 2 : \E f \in levels[l] :
          LET p == PickCompaction(l, f)
          IN  IF IsTrivialMove(p) THEN TrivialMove(p) ELSE StartWork(p)
  BY DEF AutoCompaction
<1>3. PICK f \in levels[l] :
          LET p == PickCompaction(l, f)
          IN  IF IsTrivialMove(p) THEN TrivialMove(p) ELSE StartWork(p)
  BY <1>2
<1> DEFINE p == PickCompaction(l, f)
<1>4. GoodChoice(p)
  BY PickIsGood DEF TypeInv
<1>5. (IsTrivialMove(p) /\ TrivialMove(p)) \/ StartWork(p)
  BY <1>3
<1> HIDE DEF p
<1>6. CASE IsTrivialMove(p) /\ TrivialMove(p)
  <2>1. /\ p.in1 = {} /\ UNCHANGED <<log, mem_, imm_, has_imm_, snapshots_, c>>
        /\ levels' = [levels EXCEPT ![p.level] = @ \ p.in0, ![p.level + 1] = @ \cup p.in0]
    BY <1>6 DEF IsTrivialMove, TrivialMove
  <2>5. \E g : p.in0 = {g}
    <3>1. \A g \in p.in0 : GoodTable(g)
      BY <1>4, InputsAreWritten DEF TypeInv, GoodChoice
    <3>2. IsFiniteSet(p.in0)
      BY <3>1, TablesAreFinite DEF TypeInv
    <3>3. Cardinality(p.in0) = 1
      BY <1>6 DEF IsTrivialMove
    <3> QED BY <3>2, <3>3, FS_Singleton
  <2>2. p.level \in Levels /\ p.level + 1 \in Levels /\ p.level + 1 # p.level
    BY <1>4, LevelsExist, LevelsAssumption DEF GoodChoice, InputsThere
  <2>3. levels = [i \in Levels |-> levels[i]]
    BY DEF TypeInv, GoodLevels
  <2>4. Replaces(p.level, p.in0, {}, p.in0)
    BY <2>1, <2>2, <2>3 DEF Replaces
  <2> QED BY <1>1, <1>4, <2>1, <2>4, <2>5 DEF Moves, p
<1>7. CASE StartWork(p)
  BY <1>1, <1>4, <1>7 DEF StartWork, Starts, OutputTables, p
<1> QED BY <1>5, <1>6, <1>7

LEMMA ManualCases ==
    ASSUME TypeInv, ManualCompaction
    PROVE  /\ c = None /\ ~has_imm_ /\ imm_ = {} /\ ManualLevels # {}
           /\ \E p : GoodChoice(p) /\ Starts(p)
<1>1. c = None /\ ~has_imm_ /\ imm_ = {} /\ ManualLevels # {}
  BY DEF ManualCompaction, MayStart, TypeInv, GoodMem
<1>2. PICK l \in ManualLevels, lo \in Keys, hi \in Keys :
          GetOverlappingInputs(l, lo, hi) # {} /\ StartWork(CompactRange(l, lo, hi))
  BY DEF ManualCompaction
<1>3. l \in 0..NumLevels - 2
  BY LevelsAssumption
<1> DEFINE p == CompactRange(l, lo, hi)
<1>4. GoodChoice(p)
  BY <1>2, <1>3, ManualIsGood DEF TypeInv
<1> HIDE DEF p
<1>5. Starts(p)
  BY <1>2 DEF StartWork, Starts, OutputTables, p
<1> QED BY <1>1, <1>4, <1>5

LEMMA InstallCases ==
    ASSUME TypeInv, InstallCompactionResults
    PROVE  /\ c # None /\ c' = None
           /\ UNCHANGED <<log, mem_, imm_, has_imm_, snapshots_>>
           /\ Replaces(c.level, c.in0, c.in1, c.outputs)
<1>1. /\ c # None /\ c' = None
      /\ UNCHANGED <<log, mem_, imm_, has_imm_, snapshots_>>
      /\ levels' = [levels EXCEPT ![c.level] = @ \ c.in0,
                                  ![c.level + 1] = (@ \ c.in1) \cup c.outputs]
  BY DEF InstallCompactionResults
<1>2. c.level \in Levels /\ c.level + 1 \in Levels /\ c.level + 1 # c.level
  BY <1>1, LevelsExist, LevelsAssumption DEF TypeInv, GoodWork, InputsThere
<1>3. levels = [i \in Levels |-> levels[i]]
  BY DEF TypeInv, GoodLevels
<1>4. Replaces(c.level, c.in0, c.in1, c.outputs)
  BY <1>1, <1>2, <1>3 DEF Replaces
<1> QED BY <1>1, <1>4

-----------------------------------------------------------------------------
(***************************************************************************)
(* Type correctness.                                                       *)
(***************************************************************************)
LEMMA LogStep ==
    ASSUME TypeInv, [Next]_vars
    PROVE  GoodLog' /\ LogKept
<1>1. CASE UNCHANGED log
  BY <1>1 DEF TypeInv, GoodLog, LogKept, Entries
<1>2. ASSUME NEW k \in Keys, NEW d \in Deletions, Write(k, d)
      PROVE  GoodLog' /\ LogKept
  <2>1. [key |-> k, del |-> d] \in [key : Keys, del : BOOLEAN]
    BY DeletionsAssumption
  <2>2. log' = Append(log, [key |-> k, del |-> d])
    BY <1>2 DEF Write
  <2> QED BY <2>1, <2>2, LogGrows DEF TypeInv, LogKept
<1>3. Next => UNCHANGED log \/ \E k \in Keys, d \in Deletions : Write(k, d)
  BY DEF Next, Client, Background, SwitchMemTable, GetSnapshot, ReleaseSnapshot,
         CompactMemTable, AutoCompaction, ManualCompaction, TrivialMove, StartWork,
         InstallCompactionResults
<1> QED BY <1>1, <1>2, <1>3 DEF vars

LEMMA LevelsStep ==
    ASSUME TypeInv, LogKept, UNCHANGED levels
    PROVE  GoodLevels'
BY TablesStay DEF TypeInv, GoodLevels, Levels

LEMMA WorkStep ==
    ASSUME TypeInv, LogKept, UNCHANGED <<levels, c>>
    PROVE  GoodWork'
BY TablesStay DEF TypeInv, GoodWork, InputsThere, Inputs

LEMMA TypeInvInit == Init => TypeInv
<1> SUFFICES ASSUME Init PROVE TypeInv
  OBVIOUS
<1>1. GoodLog
  BY EmptySeq DEF Init, GoodLog
<1> QED BY <1>1 DEF Init, TypeInv, GoodMem, GoodLevels, GoodSnapshots, GoodWork

LEMMA TypeInvFlush ==
    ASSUME TypeInv, GoodLog', LogKept, CompactMemTable
    PROVE  TypeInv'
<1>1. /\ UNCHANGED <<log, mem_, snapshots_, c>> /\ imm_' = {} /\ has_imm_' = FALSE
      /\ imm_ = {} => UNCHANGED levels
  BY FlushCases
<1>2. CASE imm_ = {}
  <2>1. UNCHANGED levels
    BY <1>1, <1>2
  <2>2. GoodLevels' /\ GoodWork'
    BY <1>1, <2>1, LevelsStep, WorkStep
  <2> QED BY <1>1, <2>2 DEF TypeInv, GoodMem, GoodSnapshots, Entries
<1>3. CASE imm_ # {}
  <2>1. PICK f : \E L \in Levels : GoodTable(f) /\ Enters(f, L)
    BY <1>3, FlushCases
  <2>2. PICK L \in Levels : GoodTable(f) /\ Enters(f, L)
    BY <2>1
  <2>3. GoodTable(f)'
    BY <2>2, TablesStay DEF TypeInv
  <2>4. GoodLevels'
    BY <2>2, <2>3, TablesStay DEF TypeInv, GoodLevels, Enters, Levels
  <2>5. GoodWork'
    <3> SUFFICES ASSUME c # None
                 PROVE  GoodWork'
      BY <1>1 DEF GoodWork
    <3>1. \A l \in Levels : levels[l] \subseteq levels'[l]
      BY <2>2 DEF Enters
    <3>2. InputsThere(c)'
      BY <1>1, <3>1, LevelsExist DEF TypeInv, GoodWork, InputsThere
    <3>3. \A g \in c.outputs : GoodTable(g)' /\ g.entries \subseteq Inputs(c)
      BY TablesStay DEF TypeInv, GoodWork
    <3> QED BY <1>1, <3>2, <3>3 DEF GoodWork, Inputs
  <2> QED BY <1>1, <2>4, <2>5 DEF TypeInv, GoodMem, GoodSnapshots, Entries
<1> QED BY <1>2, <1>3

LEMMA TypeInvMove ==
    ASSUME TypeInv, GoodLog', LogKept, c = None, NEW p, GoodChoice(p), Moves(p)
    PROVE  TypeInv'
<1>1. /\ UNCHANGED <<log, mem_, imm_, has_imm_, snapshots_, c>>
      /\ Replaces(p.level, p.in0, {}, p.in0)
  BY DEF Moves
<1>2. \A g \in p.in0 : GoodTable(g)
  BY InputsAreWritten DEF TypeInv, GoodChoice
<1>3. GoodLevels'
  BY <1>1, <1>2, TablesStay DEF TypeInv, GoodLevels, Replaces, Levels
<1> QED BY <1>1, <1>3 DEF TypeInv, GoodMem, GoodSnapshots, GoodWork, Entries

LEMMA TypeInvStart ==
    ASSUME TypeInv, GoodLog', LogKept, NEW p, GoodChoice(p), Starts(p)
    PROVE  TypeInv'
<1>1. UNCHANGED <<log, mem_, imm_, has_imm_, snapshots_, levels>>
  BY DEF Starts
<1>2. PICK heads \in Cuts(p) :
          c' = [level |-> p.level, in0 |-> p.in0, in1 |-> p.in1,
                outputs |-> OutputTables(p, heads)]
  BY DEF Starts
<1> DEFINE outputs == OutputTables(p, heads)
<1>3. InputsThere(p)
  BY DEF GoodChoice
<1>4. \A f \in outputs : GoodTable(f) /\ f.entries \subseteq Inputs(p)
  BY <1>3, OutputsAre DEF TypeInv
<1>5. c'.level = p.level /\ c'.in0 = p.in0 /\ c'.in1 = p.in1 /\ c'.outputs = outputs
  BY <1>2
<1> HIDE DEF outputs
<1>6. \A f \in outputs : GoodTable(f)'
  BY <1>4, TablesStay DEF TypeInv
<1>7. GoodWork'
  BY <1>1, <1>3, <1>4, <1>5, <1>6 DEF GoodWork, InputsThere, Inputs
<1>8. GoodLevels'
  BY <1>1, LevelsStep
<1> QED BY <1>1, <1>7, <1>8 DEF TypeInv, GoodMem, GoodSnapshots, Entries

LEMMA TypeInvInstall ==
    ASSUME TypeInv, GoodLog', LogKept, InstallCompactionResults
    PROVE  TypeInv'
<1>1. /\ c # None /\ c' = None
      /\ UNCHANGED <<log, mem_, imm_, has_imm_, snapshots_>>
      /\ Replaces(c.level, c.in0, c.in1, c.outputs)
  BY InstallCases
<1>2. \A f \in c.outputs : GoodTable(f)
  BY <1>1 DEF TypeInv, GoodWork
<1>3. GoodLevels'
  BY <1>1, <1>2, TablesStay DEF TypeInv, GoodLevels, Replaces, Levels
<1> QED BY <1>1, <1>3 DEF TypeInv, GoodMem, GoodSnapshots, GoodWork, Entries

LEMMA TypeInvClient ==
    ASSUME TypeInv, GoodLog', LogKept, Client
    PROVE  TypeInv'
<1>0. UNCHANGED <<levels, c>>
  BY DEF Client, Write, SwitchMemTable, GetSnapshot, ReleaseSnapshot
<1>1. GoodLevels' /\ GoodWork'
  BY <1>0, LevelsStep, WorkStep
<1>2. Len(log) \in Nat
  BY EntriesType DEF TypeInv
<1>3. ASSUME NEW k \in Keys, NEW d \in Deletions, Write(k, d)
      PROVE  TypeInv'
  <2>1. /\ mem_' = mem_ \cup {Len(log) + 1}
        /\ UNCHANGED <<imm_, has_imm_, snapshots_>>
        /\ log' = Append(log, [key |-> k, del |-> d])
    BY <1>3 DEF Write
  <2>2. Len(log') = Len(log) + 1
    <3>1. [key |-> k, del |-> d] \in [key : Keys, del : BOOLEAN]
      BY DeletionsAssumption
    <3> QED BY <2>1, <3>1, LogGrows DEF TypeInv
  <2>3. Len(log) + 1 \in Entries'
    BY <1>2, <2>2 DEF Entries
  <2>4. GoodMem'
    BY <2>1, <2>3 DEF TypeInv, GoodMem, LogKept
  <2>5. GoodSnapshots'
    BY <1>2, <2>1, <2>2 DEF TypeInv, GoodSnapshots
  <2> QED BY <1>1, <2>4, <2>5 DEF TypeInv
<1>4. CASE SwitchMemTable
  BY <1>1, <1>4 DEF SwitchMemTable, TypeInv, GoodMem, GoodSnapshots, Entries
<1>5. ASSUME NEW h \in Snapshots, GetSnapshot(h) \/ ReleaseSnapshot(h)
      PROVE  TypeInv'
  <2>1. UNCHANGED <<log, mem_, imm_, has_imm_>>
    BY <1>5 DEF GetSnapshot, ReleaseSnapshot
  <2>2. PICK s \in {None, Len(log)} : snapshots_' = [snapshots_ EXCEPT ![h] = s]
    BY <1>5 DEF GetSnapshot, ReleaseSnapshot
  <2>3. GoodSnapshots'
    BY <1>2, <2>1, <2>2 DEF TypeInv, GoodSnapshots
  <2> QED BY <1>1, <2>1, <2>3 DEF TypeInv, GoodMem, Entries
<1> QED BY <1>3, <1>4, <1>5 DEF Client

LEMMA TypeInvNext ==
    TypeInv /\ [Next]_vars => TypeInv'
<1> SUFFICES ASSUME TypeInv, [Next]_vars
             PROVE  TypeInv'
  OBVIOUS
<1>1. GoodLog' /\ LogKept
  BY LogStep
<1>2. CASE Client
  BY <1>1, <1>2, TypeInvClient
<1>3. CASE CompactMemTable
  BY <1>1, <1>3, TypeInvFlush
<1>4. CASE AutoCompaction
  BY <1>1, <1>4, AutoCases, TypeInvMove, TypeInvStart
<1>5. CASE ManualCompaction
  BY <1>1, <1>5, ManualCases, TypeInvStart
<1>6. CASE InstallCompactionResults
  BY <1>1, <1>6, TypeInvInstall
<1>7. CASE UNCHANGED vars
  BY <1>1, <1>7, LevelsStep, WorkStep DEF vars, TypeInv, GoodMem, GoodSnapshots, Entries
<1> QED BY <1>2, <1>3, <1>4, <1>5, <1>6, <1>7 DEF Next, Background

\* Tables, memtables and snapshots hold what they say: no table is empty, and its
\* smallest and largest key are the ends of its range, whatever was flushed,
\* compacted, cut and moved.
THEOREM TypeCorrect == Spec => []TypeOK
<1>1. Spec => []TypeInv
  BY TypeInvInit, TypeInvNext, PTL DEF Spec
<1>2. TypeInv => TypeOK
  <2> SUFFICES ASSUME TypeInv PROVE TypeOK
    OBVIOUS
  <2>1. ASSUME NEW l \in Levels, NEW f \in levels[l]
        PROVE  f.entries \subseteq Entries /\ f.entries # {} /\ f = Table(f.entries)
    <3>1. GoodTable(f)
      BY DEF TypeInv, GoodLevels
    <3> QED BY <3>1, TableIsTable DEF TypeInv, GoodTable
  <2>2. snapshots_ \in [Snapshots -> Nat \cup {None}]
    <3>1. Len(log) \in Nat
      BY EntriesType DEF TypeInv
    <3> QED BY <3>1 DEF TypeInv, GoodSnapshots
  <2> QED BY <2>1, <2>2 DEF TypeInv, GoodLog, GoodMem, TypeOK
<1> QED BY <1>1, <1>2, PTL

-----------------------------------------------------------------------------
(***************************************************************************)
(* The order of the entries of a key.                                      *)
(***************************************************************************)
\* Of a key that f and g share, f has the newer entries; f and g share no key.
Above(f, g) == \A e \in f.entries, d \in g.entries : UserKey(e) = UserKey(d) => e > d
Apart(f, g) == \A e \in f.entries, d \in g.entries : UserKey(e) # UserKey(d)

\* The files of a level other than 0 share no user key.  NoOverlap does not say so: it is
\* about internal keys, and two files may meet between two entries of one key.
KeysApart ==
    \A l \in Levels \ {0} : \A f, g \in levels[l] : f # g => Apart(f, g)

\* Memtables are newer than tables, and mem_ is newer than imm_.
MemNewest ==
    /\ \A e \in mem_, d \in imm_ : e > d
    /\ \A l \in Levels : \A f \in levels[l] :
          \A e \in mem_ \cup imm_, d \in f.entries : e > d

\* The files of level 0 hold intervals of sequence numbers.
Stacked0 ==
    \A f, g \in levels[0] : f # g =>
        \/ \A e \in f.entries, d \in g.entries : e > d
        \/ \A e \in f.entries, d \in g.entries : e < d

LevelOrder ==
    \A l, m \in Levels : l < m => \A f \in levels[l], g \in levels[m] : Above(f, g)

\* While a compaction writes, memtables become tables: what has stayed in its level, or
\* has come there since, is above what it writes, and what is in the level it writes to
\* shares no key with it.
CompOrder ==
    c # None => \A f \in levels[c.level] \ c.in0, g \in c.in0 \cup c.in1 : Above(f, g)

CompApart ==
    c # None => \A f \in levels[c.level + 1] \ c.in1, g \in c.in0 \cup c.in1 : Apart(f, g)

OrderInv == MemNewest /\ Stacked0 /\ LevelOrder /\ CompOrder /\ CompApart

\* Without snapshots, a key has at most one entry in what a compaction writes.
OutputsApart ==
    c # None => \A f, g \in c.outputs : f # g => Apart(f, g)

\* Any range of keys that overlaps no file of S has all of S on one side.
Solid(S) ==
    \A lo, hi \in Nat :
        lo <= hi /\ (\A f \in S : ~Overlaps(f, lo, hi)) =>
            (\A f \in S : Hi(f) < lo) \/ (\A f \in S : hi < Lo(f))

CompSolid == c # None => Solid(c.in0 \cup c.in1)

\* The other files of the level that a compaction writes to lie on one side of all that
\* it reads.
CompSides ==
    c # None => \A f \in levels[c.level + 1] \ c.in1 :
        \/ \A g \in c.in0 \cup c.in1 : Before(f.largest, g.smallest)
        \/ \A g \in c.in0 \cup c.in1 : Before(g.largest, f.smallest)

OutputsOrdered ==
    c # None => \A f, g \in c.outputs :
        f # g => Before(f.largest, g.smallest) \/ Before(g.largest, f.smallest)

LEMMA RelationsStay ==
    ASSUME GoodLog, LogKept, NEW f, NEW g, GoodTable(f), GoodTable(g)
    PROVE  Above(f, g)' = Above(f, g) /\ Apart(f, g)' = Apart(f, g)
<1>1. \A e \in f.entries : e \in Entries
  BY DEF GoodTable
<1>2. \A e \in g.entries : e \in Entries
  BY DEF GoodTable
<1>3. \A e \in Entries : UserKey(e)' = UserKey(e)
  BY DEF LogKept, UserKey
<1> QED BY <1>1, <1>2, <1>3 DEF Above, Apart

LEMMA ApartIsAbove ==
    ASSUME NEW f, NEW g, Apart(f, g)
    PROVE  Above(f, g) /\ Above(g, f) /\ Apart(g, f)
BY DEF Above, Apart

LEMMA NoOverlapIsApart ==
    ASSUME GoodLog, NEW f, NEW g, GoodTable(f), GoodTable(g), ~Overlaps(f, Lo(g), Hi(g))
    PROVE  Apart(f, g)
BY ApartRanges DEF Apart

\* What does not overlap the range of all files in S overlaps none of them.
LEMMA OutsideHull ==
    ASSUME GoodLog, NEW S, \A g \in S : GoodTable(g), NEW f, GoodTable(f),
           ~Overlaps(f, GetLo(S), GetHi(S)), NEW g \in S
    PROVE  ~Overlaps(f, Lo(g), Hi(g))
<1>1. /\ GetLo(S) \in Nat /\ GetHi(S) \in Nat
      /\ GetLo(S) <= Lo(g) /\ Hi(g) <= GetHi(S)
  BY HullIs
<1>2. /\ Lo(f) \in Nat /\ Hi(f) \in Nat /\ Lo(g) \in Nat /\ Hi(g) \in Nat
  BY TableRange
<1> QED BY <1>1, <1>2 DEF Overlaps

\* How the inputs of a good choice relate to the files left behind.
LEMMA LeftBehind ==
    ASSUME TypeInv, LevelOrder, KeysApart, NEW p, GoodChoice(p)
    PROVE  /\ \A f \in levels[p.level] \ p.in0, g \in p.in0 : Apart(f, g)
           /\ \A f \in levels[p.level] \ p.in0, g \in p.in0 \cup p.in1 : Above(f, g)
           /\ \A f \in levels[p.level + 1] \ p.in1, g \in p.in0 \cup p.in1 : Apart(f, g)
<1>1. /\ p.level \in Levels /\ p.level + 1 \in Levels /\ p.level + 1 # 0
      /\ p.level < p.level + 1
      /\ p.in0 \subseteq levels[p.level] /\ p.in1 \subseteq levels[p.level + 1]
  BY LevelsExist, LevelsAssumption DEF GoodChoice, InputsThere
<1>2. /\ \A f \in levels[p.level] : GoodTable(f)
      /\ \A f \in levels[p.level + 1] : GoodTable(f)
  BY <1>1 DEF TypeInv, GoodLevels
<1>3. ASSUME NEW f \in levels[p.level] \ p.in0, NEW g \in p.in0
      PROVE  Apart(f, g)
  <2>1. CASE p.level # 0
    BY <1>1, <2>1 DEF KeysApart
  <2>2. CASE p.level = 0
    <3>1. ~Overlaps(f, GetLo(p.in0), GetHi(p.in0))
      BY <2>2 DEF GoodChoice
    <3>2. ~Overlaps(f, Lo(g), Hi(g))
      BY <1>1, <1>2, <3>1, OutsideHull DEF TypeInv
    <3> QED BY <1>1, <1>2, <3>2, NoOverlapIsApart DEF TypeInv
  <2> QED BY <2>1, <2>2
<1>4. ASSUME NEW f \in levels[p.level] \ p.in0, NEW g \in p.in0 \cup p.in1
      PROVE  Above(f, g)
  <2>1. CASE g \in p.in0
    BY <1>3, <2>1, ApartIsAbove
  <2>2. CASE g \in p.in1
    BY <1>1, <2>2 DEF LevelOrder
  <2> QED BY <2>1, <2>2
<1>5. ASSUME NEW f \in levels[p.level + 1] \ p.in1, NEW g \in p.in0 \cup p.in1
      PROVE  Apart(f, g)
  <2>1. CASE g \in p.in0
    <3>1. ~Overlaps(f, GetLo(p.in0), GetHi(p.in0))
      BY DEF GoodChoice
    <3>2. ~Overlaps(f, Lo(g), Hi(g))
      BY <1>1, <1>2, <2>1, <3>1, OutsideHull DEF TypeInv
    <3> QED BY <1>1, <1>2, <2>1, <3>2, NoOverlapIsApart DEF TypeInv
  <2>2. CASE g \in p.in1
    BY <1>1, <2>2 DEF KeysApart
  <2> QED BY <2>1, <2>2
<1> QED BY <1>3, <1>4, <1>5

LEMMA OrderFlush ==
    ASSUME TypeInv, OrderInv, CompactMemTable
    PROVE  OrderInv'
<1>1. UNCHANGED <<log, mem_, snapshots_, c>> /\ imm_' = {}
  BY FlushCases
<1>2. CASE imm_ = {}
  <2>1. UNCHANGED levels
    BY <1>2, FlushCases
  <2> QED BY <1>1, <1>2, <2>1 DEF OrderInv, MemNewest, Stacked0, LevelOrder, CompOrder,
            CompApart, Above, Apart, UserKey
<1>3. CASE imm_ # {}
  <2>1. PICK f : \E L \in Levels :
            /\ GoodTable(f) /\ f.entries = imm_ /\ Enters(f, L)
            /\ L # 0 => \A l \in 0..L : \A g \in levels[l] : ~Overlaps(g, Lo(f), Hi(f))
    BY <1>3, FlushCases
  <2>2. PICK L \in Levels :
            /\ GoodTable(f) /\ f.entries = imm_ /\ Enters(f, L)
            /\ L # 0 => \A l \in 0..L : \A g \in levels[l] : ~Overlaps(g, Lo(f), Hi(f))
    BY <2>1
  <2>3. \A l \in Levels : levels'[l] = IF l = L THEN levels[l] \cup {f} ELSE levels[l]
    BY <2>2 DEF Enters
  <2>4. ASSUME NEW l \in Levels, NEW g \in levels[l]
        PROVE  Above(f, g) /\ \A e \in f.entries, d \in g.entries : e > d
    BY <2>2, <2>4 DEF OrderInv, MemNewest, Above
  <2>5. ASSUME L # 0, NEW l \in Levels, l <= L, NEW g \in levels[l]
        PROVE  Apart(g, f)
    <3>1. l \in 0..L
      BY <2>5, LevelsAssumption DEF Levels
    <3>2. ~Overlaps(g, Lo(f), Hi(f))
      BY <2>2, <2>5, <3>1
    <3> QED BY <2>2, <3>2, NoOverlapIsApart DEF TypeInv, GoodLevels
  <2>6. \A g, h : Above(g, h)' = Above(g, h) /\ Apart(g, h)' = Apart(g, h)
    BY <1>1 DEF Above, Apart, UserKey
  <2>7. MemNewest'
    BY <1>1, <2>2, <2>3 DEF OrderInv, MemNewest
  <2>8. Stacked0'
    <3>1. 0 \in Levels /\ \A e \in f.entries : e \in Int
      BY <2>2, LevelsExist, EntriesType DEF TypeInv, GoodTable
    <3>2. \A g \in levels[0] : \A e \in f.entries, d \in g.entries : e > d /\ d < e
      <4> TAKE g \in levels[0]
      <4> TAKE e \in f.entries, d \in g.entries
      <4>1. e > d
        BY <2>4, <3>1
      <4>2. d \in Int
        BY <3>1, EntriesType DEF TypeInv, GoodLevels, GoodTable
      <4> QED BY <3>1, <4>1, <4>2
    <3>3. levels'[0] \subseteq levels[0] \cup {f}
      BY <2>3, <3>1
    <3> QED BY <3>2, <3>3 DEF OrderInv, Stacked0
  <2>9. LevelOrder'
    <3> SUFFICES ASSUME NEW l \in Levels, NEW m \in Levels, l < m,
                        NEW g \in levels'[l], NEW h \in levels'[m]
                 PROVE  Above(g, h)
      BY <2>6 DEF LevelOrder, Levels
    <3>1. g \in levels[l] \/ (g = f /\ l = L)
      BY <2>3
    <3>2. h \in levels[m] \/ (h = f /\ m = L)
      BY <2>3
    <3>3. l \in Int /\ m \in Int /\ 0 <= l
      BY LevelsAssumption DEF Levels
    <3>4. CASE g \in levels[l] /\ h \in levels[m]
      BY <3>4 DEF OrderInv, LevelOrder
    <3>5. CASE g = f /\ l = L /\ h \in levels[m]
      BY <2>4, <3>5
    <3>6. CASE g \in levels[l] /\ h = f /\ m = L
      <4>1. L # 0 /\ l <= L
        BY <3>3, <3>6
      <4> QED BY <2>5, <3>6, <4>1, ApartIsAbove
    <3> QED BY <3>1, <3>2, <3>3, <3>4, <3>5, <3>6
  <2>10. CompOrder' /\ CompApart'
    <3> SUFFICES ASSUME c # None
                 PROVE  CompOrder' /\ CompApart'
      BY <1>1 DEF CompOrder, CompApart
    <3>1. /\ c.level \in Levels /\ c.level + 1 \in Levels /\ c.level + 1 # 0
          /\ c.level <= c.level + 1 /\ c.level + 1 <= c.level + 1
          /\ c.in0 \subseteq levels[c.level] /\ c.in1 \subseteq levels[c.level + 1]
      BY LevelsExist, LevelsAssumption DEF TypeInv, GoodWork, InputsThere
    <3>2. ASSUME NEW g \in levels'[c.level] \ c.in0, NEW h \in c.in0 \cup c.in1
          PROVE  Above(g, h)
      BY <2>3, <2>4, <3>1 DEF OrderInv, CompOrder
    <3>3. ASSUME NEW g \in levels'[c.level + 1] \ c.in1, NEW h \in c.in0 \cup c.in1
          PROVE  Apart(g, h)
      <4>1. g \in levels[c.level + 1] \ c.in1 \/ (g = f /\ L = c.level + 1)
        BY <2>3, <3>1
      <4>2. CASE g \in levels[c.level + 1] \ c.in1
        BY <4>2 DEF OrderInv, CompApart
      <4>3. CASE g = f /\ L = c.level + 1
        <5>1. Apart(h, f)
          BY <2>5, <3>1, <4>3
        <5> QED BY <4>3, <5>1, ApartIsAbove
      <4> QED BY <4>1, <4>2, <4>3
    <3> QED BY <1>1, <2>6, <3>2, <3>3 DEF CompOrder, CompApart
  <2> QED BY <2>7, <2>8, <2>9, <2>10 DEF OrderInv
<1> QED BY <1>2, <1>3

LEMMA OrderMove ==
    ASSUME TypeInv, OrderInv, KeysApart, c = None, NEW p, GoodChoice(p), Moves(p)
    PROVE  OrderInv'
<1>1. /\ UNCHANGED <<log, mem_, imm_, has_imm_, snapshots_, c>>
      /\ Replaces(p.level, p.in0, {}, p.in0)
  BY DEF Moves
<1>2. /\ p.level \in Levels /\ p.level + 1 \in Levels /\ p.level + 1 # 0
      /\ p.level \in Nat
      /\ p.in0 \subseteq levels[p.level]
  BY LevelsExist, LevelsAssumption DEF GoodChoice, InputsThere
<1>3. \A l \in Levels :
          levels'[l] = IF l = p.level THEN levels[l] \ p.in0
                       ELSE IF l = p.level + 1 THEN (levels[l] \ {}) \cup p.in0
                       ELSE levels[l]
  BY <1>1 DEF Replaces
<1>4. \A g, h : Above(g, h)' = Above(g, h) /\ Apart(g, h)' = Apart(g, h)
  BY <1>1 DEF Above, Apart, UserKey
<1>5. MemNewest'
  BY <1>1, <1>2, <1>3 DEF OrderInv, MemNewest
<1>6. Stacked0'
  BY <1>1, <1>2, <1>3, LevelsExist DEF OrderInv, Stacked0
<1>7. LevelOrder'
  <2> SUFFICES ASSUME NEW l \in Levels, NEW m \in Levels, l < m,
                      NEW g \in levels'[l], NEW h \in levels'[m]
               PROVE  Above(g, h)
    BY <1>4 DEF LevelOrder, Levels
  <2>0. l \in Int /\ m \in Int
    BY LevelsAssumption DEF Levels
  <2>1. g \in levels[l] \/ (g \in levels[p.level] /\ l = p.level + 1)
    BY <1>2, <1>3
  <2>2. h \in levels[m] \/ (h \in p.in0 /\ m = p.level + 1)
    BY <1>3
  <2>3. CASE h \in levels[m]
    <3>1. PICK n \in Levels : n < m /\ g \in levels[n]
      BY <1>2, <2>0, <2>1
    <3> QED BY <2>3, <3>1 DEF OrderInv, LevelOrder
  <2>4. CASE h \in p.in0 /\ m = p.level + 1
    <3>1. l < p.level \/ l = p.level
      BY <1>2, <2>0, <2>4
    <3>2. CASE l < p.level
      <4>1. g \in levels[l]
        BY <1>2, <2>0, <2>1, <3>2
      <4> QED BY <1>2, <2>4, <3>2, <4>1 DEF OrderInv, LevelOrder
    <3>3. CASE l = p.level
      <4>1. g \in levels[p.level] \ p.in0
        BY <1>3, <3>3
      <4>2. Apart(g, h)
        BY <2>4, <4>1, LeftBehind DEF OrderInv
      <4> QED BY <4>2, ApartIsAbove
    <3> QED BY <3>1, <3>2, <3>3
  <2> QED BY <2>2, <2>3, <2>4
<1> QED BY <1>1, <1>5, <1>6, <1>7 DEF OrderInv, CompOrder, CompApart

LEMMA OrderStart ==
    ASSUME TypeInv, OrderInv, KeysApart, NEW p, GoodChoice(p), Starts(p)
    PROVE  OrderInv'
<1>1. UNCHANGED <<log, mem_, imm_, has_imm_, snapshots_, levels>>
  BY DEF Starts
<1>2. c'.level = p.level /\ c'.in0 = p.in0 /\ c'.in1 = p.in1
  BY DEF Starts
<1>3. \A g, h : Above(g, h)' = Above(g, h) /\ Apart(g, h)' = Apart(g, h)
  BY <1>1 DEF Above, Apart, UserKey
<1>4. /\ \A f \in levels[p.level] \ p.in0, g \in p.in0 \cup p.in1 : Above(f, g)
      /\ \A f \in levels[p.level + 1] \ p.in1, g \in p.in0 \cup p.in1 : Apart(f, g)
  BY LeftBehind DEF OrderInv
<1>5. CompOrder' /\ CompApart'
  BY <1>1, <1>2, <1>3, <1>4 DEF CompOrder, CompApart
<1>6. MemNewest' /\ Stacked0' /\ LevelOrder'
  BY <1>1, <1>3 DEF OrderInv, MemNewest, Stacked0, LevelOrder, Levels
<1> QED BY <1>5, <1>6 DEF OrderInv

LEMMA OrderInstall ==
    ASSUME TypeInv, OrderInv, InstallCompactionResults
    PROVE  OrderInv'
<1>1. /\ c # None /\ c' = None
      /\ UNCHANGED <<log, mem_, imm_, has_imm_, snapshots_>>
      /\ Replaces(c.level, c.in0, c.in1, c.outputs)
  BY InstallCases
<1>2. /\ c.level \in Levels /\ c.level + 1 \in Levels /\ c.level + 1 # 0
      /\ c.level \in Nat /\ c.level + 1 # c.level
      /\ c.in0 \subseteq levels[c.level] /\ c.in1 \subseteq levels[c.level + 1]
  BY <1>1, LevelsExist, LevelsAssumption DEF TypeInv, GoodWork, InputsThere
<1>3. \A l \in Levels :
          levels'[l] = IF l = c.level THEN levels[l] \ c.in0
                       ELSE IF l = c.level + 1 THEN (levels[l] \ c.in1) \cup c.outputs
                       ELSE levels[l]
  BY <1>1 DEF Replaces
<1>4. \A g, h : Above(g, h)' = Above(g, h) /\ Apart(g, h)' = Apart(g, h)
  BY <1>1 DEF Above, Apart, UserKey
<1>5. ASSUME NEW f \in c.outputs, NEW e \in f.entries
      PROVE  \E g \in c.in0 \cup c.in1 : e \in g.entries
  BY <1>1 DEF TypeInv, GoodWork, Inputs
<1>6. MemNewest'
  <2>1. ASSUME NEW f \in c.outputs, NEW d \in f.entries, NEW e \in mem_ \cup imm_
        PROVE  e > d
    <3>1. PICK g \in c.in0 \cup c.in1 : d \in g.entries
      BY <1>5, <2>1
    <3>2. \E l \in Levels : g \in levels[l]
      BY <1>2
    <3> QED BY <3>1, <3>2 DEF OrderInv, MemNewest
  <2>2. ASSUME NEW l \in Levels, NEW f \in levels'[l]
        PROVE  f \in levels[l] \/ f \in c.outputs
    BY <1>3, <2>2
  <2>3. ASSUME NEW l \in Levels, NEW f \in levels'[l],
               NEW e \in mem_ \cup imm_, NEW d \in f.entries
        PROVE  e > d
    BY <2>1, <2>2, <2>3 DEF OrderInv, MemNewest
  <2> QED BY <1>1, <2>3 DEF OrderInv, MemNewest, Levels
<1>7. Stacked0'
  <2>1. levels'[0] \subseteq levels[0]
    BY <1>2, <1>3, LevelsExist
  <2> QED BY <2>1 DEF OrderInv, Stacked0
<1>8. LevelOrder'
  <2> SUFFICES ASSUME NEW l \in Levels, NEW m \in Levels, l < m,
                      NEW g \in levels'[l], NEW h \in levels'[m]
               PROVE  Above(g, h)
    BY <1>4 DEF LevelOrder, Levels
  <2>0. l \in Int /\ m \in Int
    BY LevelsAssumption DEF Levels
  <2>1. g \in levels[l] \/ (g \in c.outputs /\ l = c.level + 1)
    BY <1>3
  <2>2. h \in levels[m] \/ (h \in c.outputs /\ m = c.level + 1)
    BY <1>3
  <2>3. CASE g \in levels[l] /\ h \in levels[m]
    BY <2>3 DEF OrderInv, LevelOrder
  <2>4. CASE g \in c.outputs /\ l = c.level + 1 /\ h \in levels[m]
    <3>1. ASSUME NEW i \in c.in0 \cup c.in1
          PROVE  Above(i, h)
      BY <1>2, <2>0, <2>4 DEF OrderInv, LevelOrder
    <3> QED BY <1>5, <2>4, <3>1 DEF Above
  <2>5. CASE g \in levels[l] /\ h \in c.outputs /\ m = c.level + 1
    <3>1. ASSUME NEW i \in c.in0 \cup c.in1
          PROVE  Above(g, i)
      <4>1. CASE l = c.level
        <5>1. g \in levels[c.level] \ c.in0
          BY <1>3, <4>1
        <5> QED BY <1>1, <5>1 DEF OrderInv, CompOrder
      <4>2. CASE l < c.level
        BY <1>2, <2>0, <2>5, <4>2 DEF OrderInv, LevelOrder
      <4> QED BY <1>2, <2>0, <2>5, <4>1, <4>2
    <3> QED BY <1>5, <2>5, <3>1 DEF Above
  <2> QED BY <1>2, <2>0, <2>1, <2>2, <2>3, <2>4, <2>5
<1> QED BY <1>1, <1>6, <1>7, <1>8 DEF OrderInv, CompOrder, CompApart

LEMMA OrderClient ==
    ASSUME TypeInv, GoodLog', LogKept, OrderInv, Client
    PROVE  OrderInv'
<1>1. UNCHANGED <<levels, c>>
  BY DEF Client, Write, SwitchMemTable, GetSnapshot, ReleaseSnapshot
<1>2. \A l \in Levels : \A f \in levels[l] : GoodTable(f) /\ f.entries \subseteq Entries
  BY DEF TypeInv, GoodLevels, GoodTable
<1>3. \A l, m \in Levels : \A f \in levels[l], g \in levels[m] :
          Above(f, g)' = Above(f, g) /\ Apart(f, g)' = Apart(f, g)
  BY <1>2, RelationsStay DEF TypeInv
<1>4. LevelOrder' /\ Stacked0'
  BY <1>1, <1>3 DEF OrderInv, LevelOrder, Stacked0, Levels
<1>5. CompOrder' /\ CompApart'
  <2> SUFFICES ASSUME c # None
               PROVE  CompOrder' /\ CompApart'
    BY <1>1 DEF CompOrder, CompApart
  <2>1. /\ c.level \in Levels /\ c.level + 1 \in Levels
        /\ c.in0 \subseteq levels[c.level] /\ c.in1 \subseteq levels[c.level + 1]
    BY LevelsExist DEF TypeInv, GoodWork, InputsThere
  <2>2. ASSUME NEW f \in levels[c.level] \ c.in0, NEW g \in c.in0 \cup c.in1
        PROVE  Above(f, g)'
    BY <1>3, <2>1 DEF OrderInv, CompOrder
  <2>3. ASSUME NEW f \in levels[c.level + 1] \ c.in1, NEW g \in c.in0 \cup c.in1
        PROVE  Apart(f, g)'
    BY <1>3, <2>1 DEF OrderInv, CompApart
  <2> QED BY <1>1, <2>2, <2>3 DEF CompOrder, CompApart
<1>6. MemNewest'
  <2>0. Len(log) \in Nat /\ mem_ \subseteq Entries /\ imm_ \subseteq Entries
    BY EntriesType DEF TypeInv, GoodMem
  <2>1. ASSUME NEW k \in Keys, NEW d \in Deletions, Write(k, d)
        PROVE  MemNewest'
    <3>1. mem_' = mem_ \cup {Len(log) + 1} /\ imm_' = imm_
      BY <2>1 DEF Write
    <3>2. \A x \in Entries : Len(log) + 1 > x
      BY <2>0 DEF Entries
    <3> QED BY <1>1, <1>2, <2>0, <3>1, <3>2 DEF OrderInv, MemNewest, Levels
  <2>2. CASE SwitchMemTable
    BY <1>1, <2>2 DEF SwitchMemTable, OrderInv, MemNewest, Levels
  <2>3. ASSUME NEW h \in Snapshots, GetSnapshot(h) \/ ReleaseSnapshot(h)
        PROVE  MemNewest'
    BY <1>1, <2>3 DEF GetSnapshot, ReleaseSnapshot, OrderInv, MemNewest, Levels
  <2> QED BY <2>1, <2>2, <2>3 DEF Client
<1> QED BY <1>4, <1>5, <1>6 DEF OrderInv

LEMMA OrderInvInit == Init => OrderInv
<1> SUFFICES ASSUME Init PROVE OrderInv
  OBVIOUS
<1>1. /\ mem_ = {} /\ imm_ = {} /\ c = None
      /\ \A l \in Levels : levels[l] = {}
  BY DEF Init
<1>2. levels[0] = {}
  BY <1>1, LevelsExist
<1> QED BY <1>1, <1>2 DEF OrderInv, MemNewest, Stacked0, LevelOrder, CompOrder, CompApart

LEMMA OrderInvNext ==
    TypeInv /\ KeysApart /\ OrderInv /\ [Next]_vars => OrderInv'
<1> SUFFICES ASSUME TypeInv, KeysApart, OrderInv, [Next]_vars
             PROVE  OrderInv'
  OBVIOUS
<1>1. GoodLog' /\ LogKept
  BY LogStep
<1>2. CASE Client
  BY <1>1, <1>2, OrderClient
<1>3. CASE CompactMemTable
  BY <1>3, OrderFlush
<1>4. CASE AutoCompaction
  BY <1>4, AutoCases, OrderMove, OrderStart
<1>5. CASE ManualCompaction
  BY <1>5, ManualCases, OrderStart
<1>6. CASE InstallCompactionResults
  BY <1>6, OrderInstall
<1>7. CASE UNCHANGED vars
  BY <1>7 DEF vars, OrderInv, MemNewest, Stacked0, LevelOrder, CompOrder, CompApart,
              Levels, Above, Apart, UserKey
<1> QED BY <1>2, <1>3, <1>4, <1>5, <1>6, <1>7 DEF Next, Background

LEMMA OrderMeansNewerAbove ==
    ASSUME TypeInv, OrderInv
    PROVE  NewerAbove
<1> SUFFICES ASSUME NEW l \in Levels, NEW m \in Levels,
                    NEW f \in levels[l], NEW g \in levels[m],
                    l < m \/ (l = 0 /\ m = 0 /\ Newer(f, g))
             PROVE  Above(f, g)
  BY DEF NewerAbove, Above
<1>1. CASE l < m
  BY <1>1 DEF OrderInv, LevelOrder
<1>2. CASE l = 0 /\ m = 0 /\ Newer(f, g)
  <2>1. \A h \in levels[0] : Max(h.entries) \in h.entries /\ Max(h.entries) \in Int
    <3> TAKE h \in levels[0]
    <3>1. h.entries \subseteq Entries /\ h.entries # {}
      BY LevelsExist DEF TypeInv, GoodLevels, GoodTable
    <3>2. h.entries \subseteq Int /\ IsFiniteSet(h.entries)
      BY <3>1, EntriesType, FS_Subset DEF TypeInv
    <3> QED BY <3>1, <3>2, MaxIsMax
  <2>2. Max(f.entries) > Max(g.entries)
    BY <1>2 DEF Newer
  <2>3. \A e \in f.entries, d \in g.entries : e > d
    BY <1>2, <2>1, <2>2 DEF OrderInv, Stacked0
  <2> QED BY <2>3 DEF Above
<1> QED BY <1>1, <1>2

\* Of the entries of a key, the newer one is in the level above, or in the newer file of
\* level 0, as long as no two files of a deeper level share a user key: a compaction then
\* leaves nothing behind that is older than what it takes down.
THEOREM NewerStaysAbove == Spec /\ []KeysApart => []NewerAbove
<1>1. Spec => []TypeInv
  BY TypeInvInit, TypeInvNext, PTL DEF Spec
<1>2. Spec /\ []KeysApart => []OrderInv
  BY <1>1, OrderInvInit, OrderInvNext, PTL DEF Spec
<1>3. TypeInv /\ OrderInv => NewerAbove
  BY OrderMeansNewerAbove
<1> QED BY <1>1, <1>2, <1>3, PTL

-----------------------------------------------------------------------------
(***************************************************************************)
(* Without snapshots the files of a level share no user key.               *)
(***************************************************************************)
\* All entries but the newest of a key are dropped, so that no two outputs get one.
LEMMA OneEntryPerKey ==
    ASSUME Snapshots = {}, GoodLog, GoodLevels, NEW p, InputsThere(p),
           NEW d \in Kept(p), NEW e \in Kept(p), UserKey(d) = UserKey(e)
    PROVE  d = e
<1>1. SmallestSnapshot = Len(log)
  BY DEF SmallestSnapshot
<1>2. d \in Inputs(p) /\ e \in Inputs(p) /\ ~Hidden(p, d) /\ ~Hidden(p, e)
  BY DEF Kept
<1>3. d \in Entries /\ e \in Entries
  BY <1>2, InputsAreWritten
<1>4. Len(log) \in Nat /\ d \in Nat /\ e \in Nat /\ d <= Len(log) /\ e <= Len(log)
  BY <1>3, EntriesType DEF Entries
<1>5. ~(d > e) /\ ~(e > d)
  BY <1>1, <1>2, <1>4 DEF Hidden
<1> QED BY <1>4, <1>5

LEMMA ApartStart ==
    ASSUME Snapshots = {}, TypeInv, NEW p, GoodChoice(p), Starts(p)
    PROVE  OutputsApart'
<1>1. PICK heads \in Cuts(p) :
          c' = [level |-> p.level, in0 |-> p.in0, in1 |-> p.in1,
                outputs |-> OutputTables(p, heads)]
  BY DEF Starts
<1> DEFINE outputs == OutputTables(p, heads)
<1>2. c'.outputs = outputs /\ log' = log
  BY <1>1 DEF Starts
<1>3. InputsThere(p) /\ outputs = OutputTables(p, heads)
  BY DEF GoodChoice
<1> HIDE DEF outputs
<1>4. /\ \A f \in outputs : GoodTable(f)
      /\ UNION {f.entries : f \in outputs} = Kept(p)
      /\ \A f, g \in outputs :
            f # g => Before(f.largest, g.smallest) \/ Before(g.largest, f.smallest)
  BY <1>3, OutputsAre DEF TypeInv
<1>5. ASSUME NEW f \in outputs, NEW g \in outputs, Before(f.largest, g.smallest)
      PROVE  Apart(f, g)
  <2> SUFFICES ASSUME NEW e \in f.entries, NEW d \in g.entries, UserKey(e) = UserKey(d)
               PROVE  FALSE
    BY DEF Apart
  <2>1. e = d
    <3>1. e \in Kept(p) /\ d \in Kept(p)
      BY <1>4
    <3> QED BY <1>3, <3>1, OneEntryPerKey DEF TypeInv
  <2>2. /\ f.largest \in Entries /\ g.smallest \in Entries /\ e \in Entries
        /\ e = f.largest \/ Before(e, f.largest)
        /\ e = g.smallest \/ Before(g.smallest, e)
    BY <1>4, <2>1 DEF GoodTable
  <2>3. Before(e, g.smallest)
    BY <1>5, <2>2, BeforeIsTransitive DEF TypeInv
  <2> QED BY <2>2, <2>3, BeforeIsOrder DEF TypeInv
<1>6. \A f, g \in outputs : f # g => Apart(f, g)
  BY <1>4, <1>5, ApartIsAbove
<1>7. \A f, g : Apart(f, g)' = Apart(f, g)
  BY <1>2 DEF Apart, UserKey
<1> QED BY <1>2, <1>6, <1>7 DEF OutputsApart

LEMMA ApartFlush ==
    ASSUME TypeInv, KeysApart, CompactMemTable
    PROVE  KeysApart'
<1>1. UNCHANGED log
  BY FlushCases
<1>2. \A g, h : Apart(g, h)' = Apart(g, h)
  BY <1>1 DEF Apart, UserKey
<1>3. CASE imm_ = {}
  BY <1>2, <1>3, FlushCases DEF KeysApart, Levels
<1>4. CASE imm_ # {}
  <2>1. PICK f : \E L \in Levels :
            /\ GoodTable(f) /\ f.entries = imm_ /\ Enters(f, L)
            /\ L # 0 => \A l \in 0..L : \A g \in levels[l] : ~Overlaps(g, Lo(f), Hi(f))
    BY <1>4, FlushCases
  <2>2. PICK L \in Levels :
            /\ GoodTable(f) /\ f.entries = imm_ /\ Enters(f, L)
            /\ L # 0 => \A l \in 0..L : \A g \in levels[l] : ~Overlaps(g, Lo(f), Hi(f))
    BY <2>1
  <2>3. ASSUME L # 0, NEW g \in levels[L]
        PROVE  Apart(f, g) /\ Apart(g, f)
    <3>1. L \in 0..L
      BY LevelsAssumption DEF Levels
    <3>2. ~Overlaps(g, Lo(f), Hi(f)) /\ GoodTable(g)
      BY <2>2, <2>3, <3>1 DEF TypeInv, GoodLevels
    <3> QED BY <2>2, <3>2, NoOverlapIsApart, ApartIsAbove DEF TypeInv
  <2>4. \A l \in Levels : levels'[l] = IF l = L THEN levels[l] \cup {f} ELSE levels[l]
    BY <2>2 DEF Enters
  <2> QED BY <1>2, <2>3, <2>4 DEF KeysApart, Levels
<1> QED BY <1>3, <1>4

LEMMA ApartMove ==
    ASSUME TypeInv, OrderInv, KeysApart, NEW p, GoodChoice(p), Moves(p)
    PROVE  KeysApart'
<1>1. /\ UNCHANGED log /\ p.in1 = {} /\ \E f : p.in0 = {f}
      /\ Replaces(p.level, p.in0, {}, p.in0)
  BY DEF Moves
<1>2. \A g, h : Apart(g, h)' = Apart(g, h)
  BY <1>1 DEF Apart, UserKey
<1>3. \A g \in levels[p.level + 1], h \in p.in0 : Apart(g, h) /\ Apart(h, g)
  BY <1>1, LeftBehind, ApartIsAbove DEF OrderInv
<1>4. \A l \in Levels :
          levels'[l] = IF l = p.level THEN levels[l] \ p.in0
                       ELSE IF l = p.level + 1 THEN (levels[l] \ {}) \cup p.in0
                       ELSE levels[l]
  BY <1>1 DEF Replaces
<1>5. ASSUME NEW l \in Levels \ {0}, NEW g \in levels'[l], NEW h \in levels'[l], g # h
      PROVE  Apart(g, h)
  <2>1. CASE g \in levels[l] /\ h \in levels[l]
    BY <1>5, <2>1 DEF KeysApart
  <2>2. CASE ~(g \in levels[l] /\ h \in levels[l])
    <3>0. PICK f : p.in0 = {f}
      BY <1>1
    <3>1. l = p.level + 1 /\ g \in levels[l] \cup {f} /\ h \in levels[l] \cup {f}
      BY <1>4, <2>2, <3>0
    <3>2. (g = f /\ h \in levels[l]) \/ (h = f /\ g \in levels[l])
      BY <1>5, <2>2, <3>1
    <3> QED BY <1>3, <3>0, <3>1, <3>2
  <2> QED BY <2>1, <2>2
<1> QED BY <1>2, <1>5 DEF KeysApart, Levels

LEMMA ApartInstall ==
    ASSUME TypeInv, OrderInv, KeysApart, OutputsApart, InstallCompactionResults
    PROVE  KeysApart'
<1>1. /\ c # None /\ UNCHANGED log /\ Replaces(c.level, c.in0, c.in1, c.outputs)
  BY InstallCases
<1>2. \A g, h : Apart(g, h)' = Apart(g, h)
  BY <1>1 DEF Apart, UserKey
<1>3. \A l \in Levels :
          levels'[l] = IF l = c.level THEN levels[l] \ c.in0
                       ELSE IF l = c.level + 1 THEN (levels[l] \ c.in1) \cup c.outputs
                       ELSE levels[l]
  BY <1>1 DEF Replaces
<1>4. ASSUME NEW g \in levels[c.level + 1] \ c.in1, NEW h \in c.outputs
      PROVE  Apart(g, h) /\ Apart(h, g)
  <2>1. \A i \in c.in0 \cup c.in1 : Apart(g, i)
    BY <1>1 DEF OrderInv, CompApart
  <2>2. \A e \in h.entries : \E i \in c.in0 \cup c.in1 : e \in i.entries
    BY <1>1 DEF TypeInv, GoodWork, Inputs
  <2>3. Apart(g, h)
    BY <2>1, <2>2 DEF Apart
  <2> QED BY <2>3, ApartIsAbove
<1>5. ASSUME NEW l \in Levels \ {0}, NEW g \in levels'[l], NEW h \in levels'[l], g # h
      PROVE  Apart(g, h)
  <2>1. CASE g \in levels[l] /\ h \in levels[l]
    BY <1>5, <2>1 DEF KeysApart
  <2>2. CASE ~(g \in levels[l] /\ h \in levels[l])
    <3>0. c.level + 1 # c.level
      BY <1>1, LevelsAssumption DEF TypeInv, GoodWork, InputsThere
    <3>1. /\ l = c.level + 1
          /\ g \in levels[l] \ c.in1 \/ g \in c.outputs
          /\ h \in levels[l] \ c.in1 \/ h \in c.outputs
      BY <1>3, <2>2, <3>0
    <3>2. CASE g \in c.outputs /\ h \in c.outputs
      BY <1>1, <1>5, <3>2 DEF OutputsApart
    <3>3. CASE ~(g \in c.outputs /\ h \in c.outputs)
      BY <1>4, <2>2, <3>1, <3>3
    <3> QED BY <3>2, <3>3
  <2> QED BY <2>1, <2>2
<1> QED BY <1>2, <1>5 DEF KeysApart, Levels

LEMMA OutputsApartStays ==
    ASSUME TypeInv, LogKept, OutputsApart, UNCHANGED c
    PROVE  OutputsApart'
<1> SUFFICES ASSUME c # None, NEW f \in c.outputs, NEW g \in c.outputs, f # g
             PROVE  Apart(f, g)'
  BY DEF OutputsApart
<1>1. GoodTable(f) /\ GoodTable(g) /\ Apart(f, g)
  BY DEF TypeInv, GoodWork, OutputsApart
<1> QED BY <1>1, RelationsStay DEF TypeInv

LEMMA KeysApartStays ==
    ASSUME TypeInv, LogKept, KeysApart, UNCHANGED levels
    PROVE  KeysApart'
<1> SUFFICES ASSUME NEW l \in Levels \ {0}, NEW f \in levels[l], NEW g \in levels[l], f # g
             PROVE  Apart(f, g)'
  BY DEF KeysApart, Levels
<1>1. GoodTable(f) /\ GoodTable(g) /\ Apart(f, g)
  BY DEF TypeInv, GoodLevels, KeysApart
<1> QED BY <1>1, RelationsStay DEF TypeInv

LEMMA KeysApartNext ==
    ASSUME Snapshots = {}, TypeInv, OrderInv, KeysApart, OutputsApart, [Next]_vars
    PROVE  KeysApart' /\ OutputsApart'
<1>1. LogKept
  BY LogStep
<1>2. CASE Client
  <2>1. UNCHANGED <<levels, c>>
    BY <1>2 DEF Client, Write, SwitchMemTable, GetSnapshot, ReleaseSnapshot
  <2> QED BY <1>1, <2>1, KeysApartStays, OutputsApartStays
<1>3. CASE CompactMemTable
  <2>1. UNCHANGED c
    BY <1>3, FlushCases
  <2> QED BY <1>1, <1>3, <2>1, ApartFlush, OutputsApartStays
<1>4. CASE AutoCompaction
  <2>1. PICK p : GoodChoice(p) /\ (Moves(p) \/ Starts(p))
    BY <1>4, AutoCases
  <2>2. CASE Moves(p)
    <3>1. UNCHANGED c
      BY <2>2 DEF Moves
    <3> QED BY <1>1, <2>1, <2>2, <3>1, ApartMove, OutputsApartStays
  <2>3. CASE Starts(p)
    <3>1. UNCHANGED levels
      BY <2>3 DEF Starts
    <3> QED BY <1>1, <2>1, <2>3, <3>1, ApartStart, KeysApartStays
  <2> QED BY <2>1, <2>2, <2>3
<1>5. CASE ManualCompaction
  <2>1. PICK p : GoodChoice(p) /\ Starts(p)
    BY <1>5, ManualCases
  <2>2. UNCHANGED levels
    BY <2>1 DEF Starts
  <2> QED BY <1>1, <2>1, <2>2, ApartStart, KeysApartStays
<1>6. CASE InstallCompactionResults
  <2>1. c' = None
    BY <1>6, InstallCases
  <2> QED BY <1>6, <2>1, ApartInstall DEF OutputsApart
<1>7. CASE UNCHANGED vars
  BY <1>1, <1>7, KeysApartStays, OutputsApartStays DEF vars
<1> QED BY <1>2, <1>3, <1>4, <1>5, <1>6, <1>7 DEF Next, Background

\* Where no snapshot is ever taken, a compaction keeps one entry of a key and the files
\* of a sorted level share no key.
THEOREM KeysStayApart ==
    ASSUME Snapshots = {}
    PROVE  Spec => []KeysApart
<1>1. Spec => []TypeInv
  BY TypeInvInit, TypeInvNext, PTL DEF Spec
<1>2. Init => KeysApart /\ OutputsApart
  BY DEF Init, KeysApart, OutputsApart
<1>3. TypeInv /\ OrderInv /\ KeysApart /\ OutputsApart /\ [Next]_vars
      => KeysApart' /\ OutputsApart'
  BY KeysApartNext
<1> QED BY <1>1, <1>2, <1>3, OrderInvInit, OrderInvNext, PTL DEF Spec

\* Without snapshots a newer entry of a key is never below an older one, whatever is
\* written, compacted, cut and moved.
THEOREM NewerStaysAboveWithoutSnapshots ==
    ASSUME Snapshots = {}
    PROVE  Spec => []NewerAbove
BY KeysStayApart, NewerStaysAbove, PTL

-----------------------------------------------------------------------------
(***************************************************************************)
(* The ranges of a level's files.                                          *)
(***************************************************************************)
Precedes(f, g) == Before(f.largest, g.smallest)

LEMMA PrecedesStays ==
    ASSUME GoodLog, LogKept, NEW f, NEW g, GoodTable(f), GoodTable(g)
    PROVE  Precedes(f, g)' = Precedes(f, g)
<1>1. f.largest \in Entries /\ g.smallest \in Entries
  BY DEF GoodTable
<1>2. \A e \in Entries : UserKey(e)' = UserKey(e)
  BY DEF LogKept, UserKey
<1> QED BY <1>1, <1>2 DEF Precedes, Before

\* Tables whose keys do not overlap are one before the other.
LEMMA OneSide ==
    ASSUME GoodLog, NEW f, NEW g, GoodTable(f), GoodTable(g)
    PROVE  /\ Hi(f) < Lo(g) => Precedes(f, g)
           /\ Precedes(f, g) => Hi(f) <= Lo(g)
           /\ ~Overlaps(f, Lo(g), Hi(g)) => Hi(f) < Lo(g) \/ Hi(g) < Lo(f)
<1>1. f.largest \in Entries /\ g.smallest \in Entries
  BY DEF GoodTable
<1>2. Lo(f) \in Nat /\ Hi(f) \in Nat /\ Lo(g) \in Nat /\ Hi(g) \in Nat
  BY TableRange
<1>3. /\ Hi(f) < Lo(g) => Precedes(f, g)
      /\ Precedes(f, g) => Hi(f) <= Lo(g)
  BY <1>1, BeforeIsOrder DEF Precedes, Hi, Lo
<1>4. ~Overlaps(f, Lo(g), Hi(g)) => Hi(f) < Lo(g) \/ Hi(g) < Lo(f)
  BY <1>2 DEF Overlaps
<1> QED BY <1>3, <1>4

LEMMA SolidAlone ==
    ASSUME GoodLog, NEW f, GoodTable(f)
    PROVE  Solid({f})
<1>1. Lo(f) \in Nat /\ Hi(f) \in Nat
  BY TableRange
<1> SUFFICES ASSUME NEW lo \in Nat, NEW hi \in Nat, lo <= hi, ~Overlaps(f, lo, hi)
             PROVE  Hi(f) < lo \/ hi < Lo(f)
  BY DEF Solid
<1> QED BY <1>1 DEF Overlaps

\* Files that overlap the range of a solid set may join it.
LEMMA SolidGrows ==
    ASSUME GoodLog, NEW S, S # {}, \A f \in S : GoodTable(f), Solid(S),
           NEW X, \A x \in X : GoodTable(x) /\ Overlaps(x, GetLo(S), GetHi(S))
    PROVE  Solid(S \cup X)
<1>1. /\ GetLo(S) \in Nat /\ GetHi(S) \in Nat
      /\ (\E f \in S : GetLo(S) = Lo(f)) /\ (\E f \in S : GetHi(S) = Hi(f))
  BY HullIs
<1> SUFFICES ASSUME NEW lo \in Nat, NEW hi \in Nat, lo <= hi,
                    \A f \in S \cup X : ~Overlaps(f, lo, hi)
             PROVE  \/ \A f \in S \cup X : Hi(f) < lo
                    \/ \A f \in S \cup X : hi < Lo(f)
  BY DEF Solid
<1>2. (\A f \in S : Hi(f) < lo) \/ (\A f \in S : hi < Lo(f))
  BY DEF Solid
<1>3. \A x \in X : /\ Lo(x) \in Nat /\ Hi(x) \in Nat
                   /\ Lo(x) <= GetHi(S) /\ GetLo(S) <= Hi(x)
                   /\ ~(Lo(x) <= hi /\ lo <= Hi(x))
  <2> TAKE x \in X
  <2>1. Lo(x) \in Nat /\ Hi(x) \in Nat
    BY TableRange
  <2> QED BY <1>1, <2>1 DEF Overlaps
<1>4. CASE \A f \in S : Hi(f) < lo
  <2>1. GetHi(S) < lo
    BY <1>1, <1>4
  <2>2. \A x \in X : Hi(x) < lo
    BY <1>1, <1>3, <2>1
  <2> QED BY <1>4, <2>2
<1>5. CASE \A f \in S : hi < Lo(f)
  <2>1. hi < GetLo(S)
    BY <1>1, <1>5
  <2>2. \A x \in X : hi < Lo(x)
    BY <1>1, <1>3, <2>1
  <2> QED BY <1>5, <2>2
<1> QED BY <1>2, <1>4, <1>5

\* So may all the files of level 0 that its range leads to: otherwise a smaller range
\* would contain every file that it touches.
LEMMA SolidInLevel0 ==
    ASSUME GoodLog, GoodLevels, NEW S, S # {}, \A f \in S : GoodTable(f), Solid(S),
           NEW X, X = GetOverlappingInputs(0, GetLo(S), GetHi(S))
    PROVE  Solid(S \cup X)
<1>1. /\ GetLo(S) \in Keys /\ GetHi(S) \in Keys
      /\ GetLo(S) \in Nat /\ GetHi(S) \in Nat
      /\ (\E f \in S : GetLo(S) = Lo(f)) /\ (\E f \in S : GetHi(S) = Hi(f))
  BY HullIs
<1>2. PICK b, e \in Keys :
          /\ b <= GetLo(S) /\ GetHi(S) <= e
          /\ X = {f \in levels[0] : Overlaps(f, b, e)}
          /\ \A f \in levels[0] : Overlaps(f, b, e) => b <= Lo(f) /\ Hi(f) <= e
          /\ \A r \in ClosedRanges(GetLo(S), GetHi(S)) : r[1] <= b /\ e <= r[2]
  BY <1>1, Level0Range
<1>3. b \in Nat /\ e \in Nat
  BY KeysAssumption
<1>4. \A f \in levels[0] : /\ Lo(f) \in Keys /\ Hi(f) \in Keys
                           /\ Lo(f) \in Nat /\ Hi(f) \in Nat /\ Lo(f) <= Hi(f)
  BY LevelsExist, TableRange DEF GoodLevels
<1> SUFFICES ASSUME NEW lo \in Nat, NEW hi \in Nat, lo <= hi,
                    \A f \in S \cup X : ~Overlaps(f, lo, hi)
             PROVE  \/ \A f \in S \cup X : Hi(f) < lo
                    \/ \A f \in S \cup X : hi < Lo(f)
  BY DEF Solid
<1>5. \A x \in X : Hi(x) < lo \/ hi < Lo(x)
  BY <1>2, <1>4 DEF Overlaps
<1>6. (\A f \in S : Hi(f) < lo) \/ (\A f \in S : hi < Lo(f))
  BY DEF Solid
<1>7. CASE \A f \in S : Hi(f) < lo
  <2>1. GetHi(S) < lo
    BY <1>1, <1>7
  <2> SUFFICES ASSUME NEW y \in X, ~(Hi(y) < lo)
               PROVE  FALSE
    BY <1>7
  <2> DEFINE ends == {GetHi(S)} \cup {Hi(x) : x \in {z \in X : Hi(z) < lo}}
             m == Max(ends)
  <2>2. ends \subseteq Keys /\ ends \subseteq Int /\ ends # {}
    <3>1. \A x \in X : Hi(x) \in Keys
      BY <1>2, <1>4
    <3>2. ends \subseteq Keys
      BY <1>1, <3>1
    <3> HIDE DEF ends
    <3>3. Keys \subseteq Int
      BY KeysAssumption
    <3> QED BY <3>2, <3>3 DEF ends
  <2>3. IsFiniteSet(ends)
    <3>1. IsFiniteSet(0..lo)
      BY FS_Interval
    <3>2. \A x \in X : Hi(x) \in Nat
      BY <1>2, <1>4
    <3>3. ends \subseteq 0..lo
      BY <1>1, <2>1, <3>2
    <3> HIDE DEF ends
    <3> QED BY <3>1, <3>3, FS_Subset
  <2>4. m \in ends /\ \A x \in ends : m >= x
    <3> HIDE DEF ends
    <3> QED BY <2>2, <2>3, MaxIsMax
  <2>5. m \in Keys /\ m \in Nat /\ m < lo /\ GetHi(S) <= m
    <3>1. \A x \in ends : x \in Keys /\ x \in Nat /\ x < lo
      BY <1>1, <1>2, <1>4, <2>1
    <3>2. GetHi(S) \in ends
      OBVIOUS
    <3>3. m \in Keys /\ m \in Nat /\ m < lo /\ m >= GetHi(S)
      <4> HIDE DEF ends, m
      <4> QED BY <2>4, <3>1, <3>2
    <3> HIDE DEF ends, m
    <3> QED BY <1>1, <3>3
  <2>6. \A x \in X : Hi(x) < lo => Hi(x) <= m
    <3> TAKE x \in X
    <3> HAVE Hi(x) < lo
    <3>1. Hi(x) \in ends
      OBVIOUS
    <3>2. m >= Hi(x) /\ Hi(x) \in Nat
      <4>1. Hi(x) \in Nat
        BY <1>2, <1>4
      <4> HIDE DEF ends, m
      <4> QED BY <2>4, <3>1, <4>1
    <3> HIDE DEF ends, m
    <3> QED BY <2>5, <3>2
  <2> HIDE DEF ends, m
  <2>7. m < e
    <3>1. y \in levels[0] /\ hi < Lo(y) /\ Hi(y) <= e
      BY <1>2, <1>5
    <3> QED BY <1>3, <1>4, <2>5, <3>1
  <2>8. <<b, m>> \in ClosedRanges(GetLo(S), GetHi(S))
    <3>1. ASSUME NEW f \in levels[0], Overlaps(f, b, m)
          PROVE  b <= Lo(f) /\ Hi(f) <= m
      <4>1. Lo(f) \in Nat /\ Hi(f) \in Nat /\ Lo(f) <= m /\ b <= Hi(f)
        BY <1>3, <1>4, <2>5, <3>1 DEF Overlaps
      <4>2. Overlaps(f, b, e)
        BY <1>3, <2>5, <2>7, <4>1 DEF Overlaps
      <4>3. f \in X /\ b <= Lo(f)
        BY <1>2, <4>2
      <4>4. ~(hi < Lo(f))
        BY <2>5, <4>1
      <4> QED BY <1>5, <2>6, <4>3, <4>4
    <3> QED BY <1>2, <2>5, <3>1 DEF ClosedRanges
  <2>9. e <= m
    BY <1>2, <2>8
  <2> QED BY <1>3, <2>5, <2>7, <2>9
<1>8. CASE \A f \in S : hi < Lo(f)
  <2>1. hi < GetLo(S)
    BY <1>1, <1>8
  <2> SUFFICES ASSUME NEW y \in X, ~(hi < Lo(y))
               PROVE  FALSE
    BY <1>8
  <2> DEFINE ends == {GetLo(S)} \cup {Lo(x) : x \in {z \in X : hi < Lo(z)}}
             m == Min(ends)
  <2>2. ends \subseteq Nat /\ ends # {}
    <3>1. \A x \in X : Lo(x) \in Nat
      BY <1>2, <1>4
    <3> QED BY <1>1, <3>1
  <2>4. m \in ends /\ \A x \in ends : m <= x
    <3> HIDE DEF ends
    <3> QED BY <2>2, MinIsMin
  <2>5. m \in Keys /\ m \in Nat /\ hi < m /\ m <= GetLo(S)
    <3>1. \A x \in ends : x \in Keys /\ x \in Nat /\ hi < x
      BY <1>1, <1>2, <1>4, <2>1
    <3>2. GetLo(S) \in ends
      OBVIOUS
    <3> HIDE DEF ends, m
    <3> QED BY <1>1, <2>4, <3>1, <3>2
  <2>6. \A x \in X : hi < Lo(x) => m <= Lo(x)
    <3> TAKE x \in X
    <3> HAVE hi < Lo(x)
    <3>1. Lo(x) \in ends
      OBVIOUS
    <3> HIDE DEF ends, m
    <3> QED BY <2>4, <3>1
  <2> HIDE DEF ends, m
  <2>7. b < m
    <3>1. y \in levels[0] /\ Hi(y) < lo /\ b <= Lo(y)
      BY <1>2, <1>5
    <3> QED BY <1>3, <1>4, <2>5, <3>1
  <2>8. <<m, e>> \in ClosedRanges(GetLo(S), GetHi(S))
    <3>1. ASSUME NEW f \in levels[0], Overlaps(f, m, e)
          PROVE  m <= Lo(f) /\ Hi(f) <= e
      <4>1. Lo(f) \in Nat /\ Hi(f) \in Nat /\ Lo(f) <= e /\ m <= Hi(f)
        BY <1>3, <1>4, <2>5, <3>1 DEF Overlaps
      <4>2. Overlaps(f, b, e)
        BY <1>3, <2>5, <2>7, <4>1 DEF Overlaps
      <4>3. f \in X /\ Hi(f) <= e
        BY <1>2, <4>2
      <4>4. ~(Hi(f) < lo)
        BY <2>5, <4>1
      <4> QED BY <1>5, <2>6, <4>3, <4>4
    <3> QED BY <1>2, <2>5, <3>1 DEF ClosedRanges
  <2>9. m <= b
    BY <1>2, <2>8
  <2> QED BY <1>3, <2>5, <2>7, <2>9
<1> QED BY <1>6, <1>7, <1>8

\* The range of a set of files contains that of a part of it.
LEMMA WiderHull ==
    ASSUME GoodLog, NEW S, NEW T, S # {}, S \subseteq T, \A f \in T : GoodTable(f),
           NEW x, GoodTable(x), Overlaps(x, GetLo(S), GetHi(S))
    PROVE  Overlaps(x, GetLo(T), GetHi(T))
<1>1. /\ GetLo(S) \in Nat /\ GetHi(S) \in Nat
      /\ (\E f \in S : GetLo(S) = Lo(f)) /\ (\E f \in S : GetHi(S) = Hi(f))
  BY HullIs
<1>2. /\ GetLo(T) \in Nat /\ GetHi(T) \in Nat
      /\ \A f \in T : GetLo(T) <= Lo(f) /\ Hi(f) <= GetHi(T)
  BY HullIs
<1>3. GetLo(T) <= GetLo(S) /\ GetHi(S) <= GetHi(T)
  BY <1>1, <1>2
<1>4. Lo(x) \in Nat /\ Hi(x) \in Nat
  BY TableRange
<1> QED BY <1>1, <1>2, <1>3, <1>4 DEF Overlaps

LEMMA SetupIsSolid ==
    ASSUME GoodLog, GoodLevels, NEW l \in 0..NumLevels - 2,
           NEW in0, in0 \subseteq levels[l], in0 # {}, Solid(in0)
    PROVE  Solid(SetupOtherInputs(l, in0).in0 \cup SetupOtherInputs(l, in0).in1)
<1> DEFINE p == SetupOtherInputs(l, in0)
           in1 == GetOverlappingInputs(l + 1, GetLo(in0), GetHi(in0))
           S == in0 \cup in1
           expanded0 == GetOverlappingInputs(l, GetLo(S), GetHi(S))
           expanded1 == GetOverlappingInputs(l + 1, GetLo(expanded0), GetHi(expanded0))
<1>1. l \in Levels /\ l + 1 \in Levels /\ l + 1 # 0
  BY LevelsExist
<1>2. \A f \in in0 : GoodTable(f)
  BY <1>1 DEF GoodLevels
<1>3. GetLo(in0) \in Keys /\ GetHi(in0) \in Keys
  BY <1>2, HullIs
<1>4. in1 = {f \in levels[l + 1] : Overlaps(f, GetLo(in0), GetHi(in0))}
  BY <1>1, <1>3, InputsThatOverlap
<1>5. \A f \in in1 : GoodTable(f) /\ Overlaps(f, GetLo(in0), GetHi(in0))
  BY <1>1, <1>4 DEF GoodLevels
<1>6. S = in0 \cup in1 /\ in1 \subseteq levels[l + 1]
  BY <1>4
<1>7. p \in {[level |-> l, in0 |-> expanded0, in1 |-> expanded1],
             [level |-> l, in0 |-> in0, in1 |-> in1]}
  BY DEF SetupOtherInputs
<1> HIDE DEF in1, S
<1>8. Solid(S) /\ S # {} /\ \A f \in S : GoodTable(f)
  BY <1>2, <1>5, <1>6, SolidGrows
<1>9. /\ GetLo(S) \in Keys /\ GetHi(S) \in Keys /\ GetLo(S) \in Nat /\ GetHi(S) \in Nat
      /\ \A f \in S : GetLo(S) <= Lo(f) /\ Hi(f) <= GetHi(S)
  BY <1>8, HullIs
<1>10. /\ expanded0 \subseteq levels[l]
       /\ \A f \in levels[l] : Overlaps(f, GetLo(S), GetHi(S)) => f \in expanded0
       /\ l # 0 => \A f \in expanded0 : Overlaps(f, GetLo(S), GetHi(S))
  BY <1>1, <1>9, InputsThatOverlap
<1>11. l = 0 => expanded0 = GetOverlappingInputs(0, GetLo(S), GetHi(S))
  OBVIOUS
<1>12. p = [level |-> l, in0 |-> expanded0, in1 |-> expanded1]
       \/ p = [level |-> l, in0 |-> in0, in1 |-> in1]
  BY <1>7
<1>13. expanded1 = GetOverlappingInputs(l + 1, GetLo(expanded0), GetHi(expanded0))
  OBVIOUS
<1> HIDE DEF expanded0, expanded1, p
<1>14. in0 \subseteq expanded0
  <2> SUFFICES ASSUME NEW f \in in0
               PROVE  Overlaps(f, GetLo(S), GetHi(S))
    BY <1>10
  <2>1. GetLo(S) <= Lo(f) /\ Hi(f) <= GetHi(S)
    BY <1>6, <1>9
  <2>2. Lo(f) \in Nat /\ Hi(f) \in Nat /\ Lo(f) <= Hi(f)
    BY <1>2, TableRange
  <2> QED BY <1>9, <2>1, <2>2 DEF Overlaps
<1>15. expanded0 # {} /\ \A f \in expanded0 : GoodTable(f)
  BY <1>1, <1>10, <1>14 DEF GoodLevels
<1>16. expanded1 = {f \in levels[l + 1] : Overlaps(f, GetLo(expanded0), GetHi(expanded0))}
  <2>1. GetLo(expanded0) \in Keys /\ GetHi(expanded0) \in Keys
    BY <1>15, HullIs
  <2> QED BY <1>1, <1>13, <2>1, InputsThatOverlap
<1>17. in1 \subseteq expanded1
  <2> SUFFICES ASSUME NEW f \in in1
               PROVE  Overlaps(f, GetLo(expanded0), GetHi(expanded0))
    BY <1>6, <1>16
  <2> QED BY <1>5, <1>14, <1>15, WiderHull
<1>18. Solid(S \cup expanded0)
  <2>1. CASE l = 0
    BY <1>8, <1>11, <2>1, SolidInLevel0
  <2>2. CASE l # 0
    <3>1. \A f \in expanded0 : GoodTable(f) /\ Overlaps(f, GetLo(S), GetHi(S))
      BY <1>10, <1>15, <2>2
    <3> QED BY <1>8, <3>1, SolidGrows
  <2> QED BY <2>1, <2>2
<1>19. Solid((S \cup expanded0) \cup expanded1)
  <2> DEFINE T == S \cup expanded0
  <2>1. \A f \in T : GoodTable(f)
    BY <1>8, <1>15
  <2>2. T # {} /\ expanded0 \subseteq T
    BY <1>8
  <2>3. \A f \in expanded1 : GoodTable(f) /\ Overlaps(f, GetLo(expanded0), GetHi(expanded0))
    BY <1>1, <1>16 DEF GoodLevels
  <2>4. Solid(T)
    BY <1>18
  <2> HIDE DEF T
  <2>5. \A f \in expanded1 : GoodTable(f) /\ Overlaps(f, GetLo(T), GetHi(T))
    BY <1>15, <2>1, <2>2, <2>3, WiderHull
  <2>6. Solid(T \cup expanded1)
    BY <2>1, <2>2, <2>4, <2>5, SolidGrows
  <2> QED BY <2>6 DEF T
<1>20. (S \cup expanded0) \cup expanded1 = expanded0 \cup expanded1
  BY <1>6, <1>14, <1>17
<1>21. CASE p = [level |-> l, in0 |-> expanded0, in1 |-> expanded1]
  <2>1. p.in0 \cup p.in1 = expanded0 \cup expanded1
    BY <1>21
  <2>2. Solid(p.in0 \cup p.in1)
    BY <1>19, <1>20, <2>1
  <2> QED BY <2>2 DEF p
<1>22. CASE p = [level |-> l, in0 |-> in0, in1 |-> in1]
  <2>1. p.in0 \cup p.in1 = S
    BY <1>6, <1>22
  <2>2. Solid(p.in0 \cup p.in1)
    BY <1>8, <2>1
  <2> QED BY <2>2 DEF p
<1> QED BY <1>12, <1>21, <1>22

\* The inputs of a compaction that starts from one file are solid.
LEMMA PickIsSolid ==
    ASSUME GoodLog, GoodLevels, NEW l \in 0..NumLevels - 2, NEW f \in levels[l],
           NEW p, p = PickCompaction(l, f)
    PROVE  Solid(p.in0 \cup p.in1)
<1> DEFINE in0 == IF l = 0 THEN GetOverlappingInputs(0, Lo(f), Hi(f)) ELSE {f}
<1>1. l \in Levels
  BY LevelsExist
<1>2. /\ GoodTable(f) /\ Lo(f) \in Keys /\ Hi(f) \in Keys /\ Overlaps(f, Lo(f), Hi(f))
      /\ Lo(f) \in Nat /\ Hi(f) \in Nat
  <2>1. GoodTable(f)
    BY <1>1 DEF GoodLevels
  <2> QED BY <2>1, TableRange DEF Overlaps
<1>3. in0 \subseteq levels[l] /\ f \in in0
  BY <1>1, <1>2, InputsThatOverlap
<1>4. Solid({f})
  BY <1>2, SolidAlone
<1>5. GetLo({f}) = Lo(f) /\ GetHi({f}) = Hi(f)
  <2>1. \A g \in {f} : GoodTable(g)
    BY <1>2
  <2>2. (\E g \in {f} : GetLo({f}) = Lo(g)) /\ (\E g \in {f} : GetHi({f}) = Hi(g))
    BY <2>1, HullIs
  <2> QED BY <2>2
<1>6. Solid(in0)
  <2>1. CASE l = 0
    <3>1. in0 = GetOverlappingInputs(0, GetLo({f}), GetHi({f}))
      BY <1>5, <2>1
    <3> HIDE DEF in0
    <3>2. \A g \in {f} : GoodTable(g)
      BY <1>2
    <3>3. Solid({f} \cup in0)
      BY <1>4, <3>1, <3>2, SolidInLevel0
    <3>4. {f} \cup in0 = in0
      BY <1>3
    <3> QED BY <3>3, <3>4
  <2>2. CASE l # 0
    BY <1>4, <2>2
  <2> QED BY <2>1, <2>2
<1>7. p = SetupOtherInputs(l, in0) /\ in0 # {}
  BY <1>3 DEF PickCompaction
<1> HIDE DEF in0
<1> QED BY <1>3, <1>6, <1>7, SetupIsSolid

RangesInv == NoOverlap /\ CompSolid /\ CompSides /\ OutputsOrdered

LEMMA RangesStart ==
    ASSUME TypeInv, RangesInv, NEW p, GoodChoice(p), Solid(p.in0 \cup p.in1), Starts(p)
    PROVE  RangesInv'
<1>1. UNCHANGED <<log, levels>>
  BY DEF Starts
<1>2. PICK heads \in Cuts(p) :
          c' = [level |-> p.level, in0 |-> p.in0, in1 |-> p.in1,
                outputs |-> OutputTables(p, heads)]
  BY DEF Starts
<1>3. /\ c'.level = p.level /\ c'.in0 = p.in0 /\ c'.in1 = p.in1
      /\ c'.outputs = OutputTables(p, heads)
  BY <1>2
<1>4. \A f, g : Before(f, g)' = Before(f, g)
  BY <1>1 DEF Before, UserKey
<1>5. NoOverlap'
  BY <1>1, <1>4 DEF RangesInv, NoOverlap, Levels
<1>6. CompSolid'
  <2>1. Solid(p.in0 \cup p.in1)'
    BY <1>1 DEF Solid, Overlaps, Lo, Hi, UserKey
  <2> QED BY <1>3, <2>1 DEF CompSolid
<1>7. OutputsOrdered'
  <2>1. InputsThere(p)
    BY DEF GoodChoice
  <2>2. \A f, g \in OutputTables(p, heads) :
            f # g => Before(f.largest, g.smallest) \/ Before(g.largest, f.smallest)
    BY <2>1, OutputsAre DEF TypeInv
  <2> QED BY <1>3, <1>4, <2>2 DEF OutputsOrdered
<1>8. CompSides'
  <2>0. /\ p.level + 1 \in Levels \ {0} /\ p.in1 \subseteq levels[p.level + 1]
        /\ \A f \in levels[p.level + 1] : GoodTable(f)
        /\ \A f \in p.in0 \cup p.in1 : GoodTable(f)
    <3>1. p.level + 1 \in Levels /\ p.level + 1 # 0 /\ InputsThere(p)
      BY LevelsExist DEF GoodChoice, InputsThere
    <3> QED BY <3>1, InputsAreWritten DEF TypeInv, GoodLevels, InputsThere
  <2>1. /\ GetLo(p.in0) \in Nat /\ GetHi(p.in0) \in Nat
        /\ \A f \in p.in0 : GetLo(p.in0) <= Lo(f) /\ Hi(f) <= GetHi(p.in0)
    BY <2>0, HullIs DEF GoodChoice, TypeInv
  <2> SUFFICES ASSUME NEW f \in levels[p.level + 1] \ p.in1
               PROVE  \/ \A g \in p.in0 \cup p.in1 : Precedes(f, g)
                      \/ \A g \in p.in0 \cup p.in1 : Precedes(g, f)
    BY <1>1, <1>3, <1>4 DEF CompSides, Precedes
  <2>2. GoodTable(f) /\ Lo(f) \in Nat /\ Hi(f) \in Nat /\ Lo(f) <= Hi(f)
    BY <2>0, TableRange DEF TypeInv
  <2>3. Hi(f) < GetLo(p.in0) \/ GetHi(p.in0) < Lo(f)
    BY <2>1, <2>2 DEF GoodChoice, Overlaps
  <2>4. ASSUME NEW g \in p.in1
        PROVE  /\ Precedes(f, g) \/ Precedes(g, f)
               /\ GoodTable(g) /\ Lo(g) \in Nat /\ Hi(g) \in Nat
               /\ Lo(g) <= GetHi(p.in0) /\ GetLo(p.in0) <= Hi(g)
    <3>1. Precedes(f, g) \/ Precedes(g, f)
      BY <2>0 DEF RangesInv, NoOverlap, Precedes
    <3>2. GoodTable(g) /\ Lo(g) \in Nat /\ Hi(g) \in Nat
      BY <2>0, TableRange DEF TypeInv
    <3>3. Overlaps(g, GetLo(p.in0), GetHi(p.in0))
      BY DEF GoodChoice
    <3> QED BY <2>1, <3>1, <3>2, <3>3 DEF Overlaps
  <2>5. CASE Hi(f) < GetLo(p.in0)
    <3>1. ASSUME NEW g \in p.in0
          PROVE  Precedes(f, g)
      <4>1. GoodTable(g) /\ Lo(g) \in Nat
        BY <2>0, TableRange DEF TypeInv
      <4>2. Hi(f) < Lo(g)
        BY <2>1, <2>2, <2>5, <4>1
      <4> QED BY <2>2, <4>1, <4>2, OneSide DEF TypeInv
    <3>2. ASSUME NEW g \in p.in1
          PROVE  Precedes(f, g)
      <4>1. ~Precedes(g, f)
        <5>1. Precedes(g, f) => Hi(g) <= Lo(f)
          BY <2>2, <2>4, OneSide DEF TypeInv
        <5> QED BY <2>1, <2>2, <2>4, <2>5, <5>1
      <4> QED BY <2>4, <4>1
    <3> QED BY <3>1, <3>2
  <2>6. CASE GetHi(p.in0) < Lo(f)
    <3>1. ASSUME NEW g \in p.in0
          PROVE  Precedes(g, f)
      <4>1. GoodTable(g) /\ Hi(g) \in Nat
        BY <2>0, TableRange DEF TypeInv
      <4>2. Hi(g) < Lo(f)
        BY <2>1, <2>2, <2>6, <4>1
      <4> QED BY <2>2, <4>1, <4>2, OneSide DEF TypeInv
    <3>2. ASSUME NEW g \in p.in1
          PROVE  Precedes(g, f)
      <4>1. ~Precedes(f, g)
        <5>1. Precedes(f, g) => Hi(f) <= Lo(g)
          BY <2>2, <2>4, OneSide DEF TypeInv
        <5> QED BY <2>1, <2>2, <2>4, <2>6, <5>1
      <4> QED BY <2>4, <4>1
    <3> QED BY <3>1, <3>2
  <2> QED BY <2>3, <2>5, <2>6
<1> QED BY <1>5, <1>6, <1>7, <1>8 DEF RangesInv

LEMMA RangesFlush ==
    ASSUME TypeInv, RangesInv, CompactMemTable
    PROVE  RangesInv'
<1>1. UNCHANGED <<log, c>>
  BY FlushCases
<1>2. \A f, g : Before(f, g)' = Before(f, g)
  BY <1>1 DEF Before, UserKey
<1>3. CompSolid' /\ OutputsOrdered'
  BY <1>1, <1>2 DEF RangesInv, CompSolid, OutputsOrdered, Solid, Overlaps, Lo, Hi, UserKey
<1>4. CASE imm_ = {}
  BY <1>1, <1>2, <1>3, <1>4, FlushCases DEF RangesInv, NoOverlap, CompSides, Levels
<1>5. CASE imm_ # {}
  <2>1. PICK f : \E L \in Levels :
            /\ GoodTable(f) /\ f.entries = imm_ /\ Enters(f, L)
            /\ L # 0 => \A l \in 0..L : \A g \in levels[l] : ~Overlaps(g, Lo(f), Hi(f))
    BY <1>5, FlushCases
  <2>2. PICK L \in Levels :
            /\ GoodTable(f) /\ f.entries = imm_ /\ Enters(f, L)
            /\ L # 0 => \A l \in 0..L : \A g \in levels[l] : ~Overlaps(g, Lo(f), Hi(f))
    BY <2>1
  <2>3. \A l \in Levels : levels'[l] = IF l = L THEN levels[l] \cup {f} ELSE levels[l]
    BY <2>2 DEF Enters
  <2>4. Lo(f) \in Nat /\ Hi(f) \in Nat /\ Lo(f) <= Hi(f)
    BY <2>2, TableRange DEF TypeInv
  <2>5. ASSUME L # 0, NEW l \in Levels, l <= L, NEW g \in levels[l]
        PROVE  ~Overlaps(g, Lo(f), Hi(f)) /\ GoodTable(g)
    <3>1. l \in 0..L
      BY <2>5, LevelsAssumption DEF Levels
    <3> QED BY <2>2, <2>5, <3>1 DEF TypeInv, GoodLevels
  <2>6. ASSUME L # 0, NEW g \in levels[L]
        PROVE  Precedes(f, g) \/ Precedes(g, f)
    <3>1. L <= L
      BY LevelsAssumption DEF Levels
    <3>2. ~Overlaps(g, Lo(f), Hi(f)) /\ GoodTable(g)
      BY <2>5, <2>6, <3>1
    <3> QED BY <2>2, <3>2, OneSide DEF TypeInv
  <2>7. NoOverlap'
    <3> SUFFICES ASSUME NEW l \in Levels \ {0}, NEW g \in levels'[l], NEW h \in levels'[l], g # h
                 PROVE  Precedes(g, h) \/ Precedes(h, g)
      BY <1>2 DEF NoOverlap, Precedes, Levels
    <3>1. CASE g \in levels[l] /\ h \in levels[l]
      BY <3>1 DEF RangesInv, NoOverlap, Precedes
    <3>2. CASE ~(g \in levels[l] /\ h \in levels[l])
      <4>1. l = L /\ g \in levels[l] \cup {f} /\ h \in levels[l] \cup {f}
        BY <2>3, <3>2
      <4>2. (g = f /\ h \in levels[l]) \/ (h = f /\ g \in levels[l])
        BY <3>2, <4>1
      <4> QED BY <2>6, <4>1, <4>2
    <3> QED BY <3>1, <3>2
  <2>8. CompSides'
    <3> SUFFICES ASSUME c # None, NEW g \in levels'[c.level + 1] \ c.in1
                 PROVE  \/ \A i \in c.in0 \cup c.in1 : Precedes(g, i)
                        \/ \A i \in c.in0 \cup c.in1 : Precedes(i, g)
      BY <1>1, <1>2 DEF CompSides, Precedes
    <3>1. /\ c.level \in Levels /\ c.level + 1 \in Levels /\ c.level + 1 # 0
          /\ c.level <= c.level + 1 /\ c.level + 1 <= c.level + 1
          /\ c.in0 \subseteq levels[c.level] /\ c.in1 \subseteq levels[c.level + 1]
      BY LevelsExist, LevelsAssumption DEF TypeInv, GoodWork, InputsThere
    <3>2. CASE g \in levels[c.level + 1]
      BY <3>2 DEF RangesInv, CompSides, Precedes
    <3>3. CASE g = f /\ L = c.level + 1
      <4>1. \A i \in c.in0 \cup c.in1 : ~Overlaps(i, Lo(f), Hi(f)) /\ GoodTable(i)
        BY <2>5, <3>1, <3>3
      <4>2. (\A i \in c.in0 \cup c.in1 : Hi(i) < Lo(f)) \/ (\A i \in c.in0 \cup c.in1 : Hi(f) < Lo(i))
        BY <2>4, <4>1 DEF RangesInv, CompSolid, Solid
      <4>3. \A i \in c.in0 \cup c.in1 : /\ Hi(i) < Lo(f) => Precedes(i, f)
                                        /\ Hi(f) < Lo(i) => Precedes(f, i)
        BY <2>2, <4>1, OneSide DEF TypeInv
      <4> QED BY <3>3, <4>2, <4>3
    <3> QED BY <2>3, <3>1, <3>2, <3>3
  <2> QED BY <1>3, <2>7, <2>8 DEF RangesInv
<1> QED BY <1>4, <1>5

LEMMA RangesMove ==
    ASSUME TypeInv, RangesInv, c = None, NEW p, GoodChoice(p), Moves(p)
    PROVE  RangesInv'
<1>1. /\ UNCHANGED <<log, c>> /\ p.in1 = {} /\ Replaces(p.level, p.in0, {}, p.in0)
  BY DEF Moves
<1>2. \A f, g : Before(f, g)' = Before(f, g)
  BY <1>1 DEF Before, UserKey
<1>3. PICK f : p.in0 = {f}
  BY DEF Moves
<1>4. p.level + 1 \in Levels /\ GoodTable(f) /\ \A g \in levels[p.level + 1] : GoodTable(g)
  <2>1. p.level + 1 \in Levels /\ InputsThere(p)
    BY LevelsExist DEF GoodChoice, InputsThere
  <2> QED BY <1>3, <2>1, InputsAreWritten DEF TypeInv, GoodLevels
<1>5. ASSUME NEW g \in levels[p.level + 1]
      PROVE  Precedes(g, f) \/ Precedes(f, g)
  <2>1. ~Overlaps(g, GetLo(p.in0), GetHi(p.in0))
    BY <1>1 DEF GoodChoice
  <2>2. ~Overlaps(g, Lo(f), Hi(f))
    <3>1. \A h \in p.in0 : GoodTable(h)
      BY <1>3, <1>4
    <3> QED BY <1>3, <1>4, <2>1, <3>1, OutsideHull DEF TypeInv
  <2> QED BY <1>4, <2>2, OneSide DEF TypeInv
<1>6. \A l \in Levels :
          levels'[l] = IF l = p.level THEN levels[l] \ p.in0
                       ELSE IF l = p.level + 1 THEN (levels[l] \ {}) \cup p.in0
                       ELSE levels[l]
  BY <1>1 DEF Replaces
<1>7. NoOverlap'
  <2> SUFFICES ASSUME NEW l \in Levels \ {0}, NEW g \in levels'[l], NEW h \in levels'[l], g # h
               PROVE  Precedes(g, h) \/ Precedes(h, g)
    BY <1>2 DEF NoOverlap, Precedes, Levels
  <2>1. CASE g \in levels[l] /\ h \in levels[l]
    BY <2>1 DEF RangesInv, NoOverlap, Precedes
  <2>2. CASE ~(g \in levels[l] /\ h \in levels[l])
    <3>1. l = p.level + 1 /\ g \in levels[l] \cup {f} /\ h \in levels[l] \cup {f}
      BY <1>3, <1>6, <2>2
    <3>2. (g = f /\ h \in levels[l]) \/ (h = f /\ g \in levels[l])
      BY <2>2, <3>1
    <3> QED BY <1>5, <3>1, <3>2
  <2> QED BY <2>1, <2>2
<1> QED BY <1>1, <1>7 DEF RangesInv, CompSolid, CompSides, OutputsOrdered

LEMMA RangesInstall ==
    ASSUME TypeInv, RangesInv, InstallCompactionResults
    PROVE  RangesInv'
<1>1. /\ c # None /\ c' = None /\ UNCHANGED log
      /\ Replaces(c.level, c.in0, c.in1, c.outputs)
  BY InstallCases
<1>2. \A f, g : Before(f, g)' = Before(f, g)
  BY <1>1 DEF Before, UserKey
<1>3. /\ c.level + 1 \in Levels /\ InputsThere(c) /\ c.level + 1 # c.level
      /\ \A f \in levels[c.level + 1] : GoodTable(f)
      /\ \A f \in c.outputs : GoodTable(f) /\ f.entries \subseteq Inputs(c)
  BY <1>1, LevelsExist, LevelsAssumption DEF TypeInv, GoodWork, GoodLevels, InputsThere
<1>4. \A g \in c.in0 \cup c.in1 : GoodTable(g)
  BY <1>3, InputsAreWritten DEF TypeInv
<1>5. ASSUME NEW f \in levels[c.level + 1] \ c.in1, NEW g \in c.outputs
      PROVE  Precedes(f, g) \/ Precedes(g, f)
  <2>0. f.smallest \in Entries /\ f.largest \in Entries
    BY <1>3 DEF GoodTable
  <2>1. CASE \A i \in c.in0 \cup c.in1 : Precedes(f, i)
    <3>1. PICK i \in c.in0 \cup c.in1 : g.smallest \in i.entries
      BY <1>3 DEF GoodTable, Inputs
    <3>2. /\ g.smallest \in Entries /\ i.smallest \in Entries
          /\ i.smallest = g.smallest \/ Before(i.smallest, g.smallest)
      BY <1>4, <3>1 DEF GoodTable
    <3>3. Before(f.largest, i.smallest)
      BY <2>1 DEF Precedes
    <3> QED BY <2>0, <3>2, <3>3, BeforeIsTransitive DEF Precedes, TypeInv
  <2>2. CASE \A i \in c.in0 \cup c.in1 : Precedes(i, f)
    <3>1. PICK i \in c.in0 \cup c.in1 : g.largest \in i.entries
      BY <1>3 DEF GoodTable, Inputs
    <3>2. /\ g.largest \in Entries /\ i.largest \in Entries
          /\ g.largest = i.largest \/ Before(g.largest, i.largest)
      BY <1>4, <3>1 DEF GoodTable
    <3>3. Before(i.largest, f.smallest)
      BY <2>2 DEF Precedes
    <3> QED BY <2>0, <3>2, <3>3, BeforeIsTransitive DEF Precedes, TypeInv
  <2> QED BY <1>1, <2>1, <2>2 DEF RangesInv, CompSides, Precedes
<1>6. \A l \in Levels :
          levels'[l] = IF l = c.level THEN levels[l] \ c.in0
                       ELSE IF l = c.level + 1 THEN (levels[l] \ c.in1) \cup c.outputs
                       ELSE levels[l]
  BY <1>1 DEF Replaces
<1>7. NoOverlap'
  <2> SUFFICES ASSUME NEW l \in Levels \ {0}, NEW g \in levels'[l], NEW h \in levels'[l], g # h
               PROVE  Precedes(g, h) \/ Precedes(h, g)
    BY <1>2 DEF NoOverlap, Precedes, Levels
  <2>1. CASE g \in levels[l] /\ h \in levels[l]
    BY <2>1 DEF RangesInv, NoOverlap, Precedes
  <2>2. CASE ~(g \in levels[l] /\ h \in levels[l])
    <3>1. /\ l = c.level + 1
          /\ g \in levels[l] \ c.in1 \/ g \in c.outputs
          /\ h \in levels[l] \ c.in1 \/ h \in c.outputs
      BY <1>3, <1>6, <2>2
    <3>2. CASE g \in c.outputs /\ h \in c.outputs
      BY <1>1, <3>2 DEF RangesInv, OutputsOrdered, Precedes
    <3>3. CASE ~(g \in c.outputs /\ h \in c.outputs)
      BY <1>5, <2>2, <3>1, <3>3
    <3> QED BY <3>2, <3>3
  <2> QED BY <2>1, <2>2
<1> QED BY <1>1, <1>7 DEF RangesInv, CompSolid, CompSides, OutputsOrdered

\* A step that changes neither the levels nor the compaction.
LEMMA RangesStay ==
    ASSUME TypeInv, LogKept, RangesInv, UNCHANGED <<levels, c>>
    PROVE  RangesInv'
<1>1. \A f, g : GoodTable(f) /\ GoodTable(g) => Precedes(f, g)' = Precedes(f, g)
  BY PrecedesStays DEF TypeInv
<1>2. NoOverlap'
  <2> SUFFICES ASSUME NEW l \in Levels \ {0}, NEW g \in levels[l], NEW h \in levels[l], g # h
               PROVE  Precedes(g, h)' \/ Precedes(h, g)'
    BY DEF NoOverlap, Precedes, Levels
  <2>1. GoodTable(g) /\ GoodTable(h) /\ (Precedes(g, h) \/ Precedes(h, g))
    BY DEF TypeInv, GoodLevels, RangesInv, NoOverlap, Precedes
  <2> QED BY <1>1, <2>1
<1> SUFFICES ASSUME c # None
             PROVE  CompSolid' /\ CompSides' /\ OutputsOrdered'
  BY <1>2 DEF RangesInv, CompSolid, CompSides, OutputsOrdered
<1>3. /\ InputsThere(c) /\ \A f \in c.outputs : GoodTable(f)
      /\ \A f \in levels[c.level + 1] : GoodTable(f)
  BY LevelsExist DEF TypeInv, GoodLevels, GoodWork, InputsThere
<1>4. \A f \in c.in0 \cup c.in1 : GoodTable(f)
  BY <1>3, InputsAreWritten DEF TypeInv
<1>5. OutputsOrdered'
  <2> SUFFICES ASSUME NEW g \in c.outputs, NEW h \in c.outputs, g # h
               PROVE  Precedes(g, h)' \/ Precedes(h, g)'
    BY DEF OutputsOrdered, Precedes
  <2>1. Precedes(g, h) \/ Precedes(h, g)
    BY DEF RangesInv, OutputsOrdered, Precedes
  <2> QED BY <1>1, <1>3, <2>1
<1>6. CompSides'
  <2> SUFFICES ASSUME NEW f \in levels[c.level + 1] \ c.in1
               PROVE  \/ \A g \in c.in0 \cup c.in1 : Precedes(f, g)'
                      \/ \A g \in c.in0 \cup c.in1 : Precedes(g, f)'
    BY DEF CompSides, Precedes
  <2>1. \/ \A g \in c.in0 \cup c.in1 : Precedes(f, g)
        \/ \A g \in c.in0 \cup c.in1 : Precedes(g, f)
    BY DEF RangesInv, CompSides, Precedes
  <2> QED BY <1>1, <1>3, <1>4, <2>1
<1>7. CompSolid'
  <2>1. \A f \in c.in0 \cup c.in1 : Lo(f)' = Lo(f) /\ Hi(f)' = Hi(f)
    <3>1. \A f \in c.in0 \cup c.in1 : f.smallest \in Entries /\ f.largest \in Entries
      BY <1>4 DEF GoodTable
    <3>2. \A e \in Entries : UserKey(e)' = UserKey(e)
      BY DEF LogKept, UserKey
    <3> QED BY <3>1, <3>2 DEF Lo, Hi
  <2> QED BY <2>1 DEF RangesInv, CompSolid, Solid, Overlaps
<1> QED BY <1>5, <1>6, <1>7

LEMMA RangesNext ==
    ASSUME ManualLevels = {}, TypeInv, RangesInv, [Next]_vars
    PROVE  RangesInv'
<1>1. LogKept
  BY LogStep
<1>2. CASE Client
  <2>1. UNCHANGED <<levels, c>>
    BY <1>2 DEF Client, Write, SwitchMemTable, GetSnapshot, ReleaseSnapshot
  <2> QED BY <1>1, <2>1, RangesStay
<1>3. CASE CompactMemTable
  BY <1>3, RangesFlush
<1>4. CASE AutoCompaction
  <2>1. c = None
    BY <1>4, AutoCases
  <2>2. PICK l \in 0..NumLevels - 2 : \E f \in levels[l] : \E p :
            p = PickCompaction(l, f) /\ GoodChoice(p) /\ (Moves(p) \/ Starts(p))
    BY <1>4, AutoCases
  <2>3. PICK f \in levels[l] : \E p :
            p = PickCompaction(l, f) /\ GoodChoice(p) /\ (Moves(p) \/ Starts(p))
    BY <2>2
  <2>4. PICK p : p = PickCompaction(l, f) /\ GoodChoice(p) /\ (Moves(p) \/ Starts(p))
    BY <2>3
  <2>5. Solid(p.in0 \cup p.in1)
    BY <2>4, PickIsSolid DEF TypeInv
  <2> QED BY <2>1, <2>4, <2>5, RangesMove, RangesStart
<1>5. CASE ManualCompaction
  BY <1>5, ManualCases
<1>6. CASE InstallCompactionResults
  BY <1>6, RangesInstall
<1>7. CASE UNCHANGED vars
  BY <1>1, <1>7, RangesStay DEF vars
<1> QED BY <1>2, <1>3, <1>4, <1>5, <1>6, <1>7 DEF Next, Background

\* The files of a sorted level never overlap, where every compaction starts from a file
\* and none from a range that TEST_CompactRange is given: the inputs then leave no gap
\* for a memtable that becomes a table while the compaction writes.
THEOREM FilesDoNotOverlap ==
    ASSUME ManualLevels = {}
    PROVE  Spec => []NoOverlap
<1>1. Spec => []TypeInv
  BY TypeInvInit, TypeInvNext, PTL DEF Spec
<1>2. Init => RangesInv
  BY DEF Init, RangesInv, NoOverlap, CompSolid, CompSides, OutputsOrdered
<1>3. TypeInv /\ RangesInv /\ [Next]_vars => RangesInv'
  BY RangesNext
<1>4. RangesInv => NoOverlap
  BY DEF RangesInv
<1> QED BY <1>1, <1>2, <1>3, <1>4, PTL DEF Spec

-----------------------------------------------------------------------------
(***************************************************************************)
(* What compactions drop, and what reads find.                             *)
(***************************************************************************)
Stored  == UNION {f.entries : f \in UNION {levels[l] : l \in Levels}}
Present == mem_ \cup imm_ \cup Stored

\* w is the newest entry of its key at sequence number s.
Newest(w, s) == w \in 1..s /\ \A e \in 1..s : UserKey(e) = UserKey(w) => e <= w

\* The newest entry of a key at a live sequence number is still there, or is a deletion
\* and no older entry of the key is left for it to hide.
Retained ==
    \A s \in LiveSequences : \A w \in 1..s : Newest(w, s) =>
        \/ w \in Present
        \/ IsDeletion(w) /\ \A e \in Present : UserKey(e) = UserKey(w) => e > s

\* No older entry of e's key is in a level below the one the compaction writes to, nor
\* in what it writes.
NothingToHide(e) ==
    /\ \A l \in c.level + 2..NumLevels - 1 : \A f \in levels[l] : \A x \in f.entries :
          UserKey(x) = UserKey(e) => x > e
    /\ \A f \in c.outputs : \A x \in f.entries : UserKey(x) = UserKey(e) => x > e

\* Why an entry that a compaction reads may be missing from what it writes, t being the
\* compaction's smallest_snapshot.
MayDrop(e, t) ==
    \/ \E d \in Inputs(c) : UserKey(d) = UserKey(e) /\ d > e /\ d <= t
    \/ IsDeletion(e) /\ e <= t /\ NothingToHide(e)

DropsRight ==
    c # None => \E t \in 0..Len(log) :
        /\ \A s \in LiveSequences : t <= s
        /\ \A e \in Inputs(c) : (\E f \in c.outputs : e \in f.entries) \/ MayDrop(e, t)

LEMMA StoredIs ==
    ASSUME NEW e
    PROVE  e \in Stored <=> \E l \in Levels : \E f \in levels[l] : e \in f.entries
BY DEF Stored

LEMMA PresentAreWritten ==
    ASSUME TypeInv
    PROVE  Present \subseteq Entries
<1>1. Stored \subseteq Entries
  BY StoredIs DEF TypeInv, GoodLevels, GoodTable
<1> QED BY <1>1 DEF Present, TypeInv, GoodMem

LEMMA LiveAreWritten ==
    ASSUME TypeInv
    PROVE  LiveSequences \subseteq 0..Len(log) /\ Len(log) \in LiveSequences
<1>1. Len(log) \in Nat
  BY EntriesType DEF TypeInv
<1> QED BY <1>1 DEF LiveSequences, TypeInv, GoodSnapshots

\* The oldest live sequence number is what a compaction goes by.
LEMMA SmallestIsSmallest ==
    ASSUME TypeInv
    PROVE  /\ SmallestSnapshot \in 0..Len(log)
           /\ \A s \in LiveSequences : SmallestSnapshot <= s
<1> DEFINE live == {snapshots_[h] : h \in {g \in Snapshots : snapshots_[g] # None}}
<1>1. Len(log) \in Nat
  BY EntriesType DEF TypeInv
<1>2. live \subseteq 0..Len(log) /\ live \subseteq Nat
  BY <1>1 DEF TypeInv, GoodSnapshots
<1>3. LiveSequences = {Len(log)} \cup live
  BY DEF LiveSequences
<1>4. SmallestSnapshot = IF live = {} THEN Len(log) ELSE Min(live)
  BY DEF SmallestSnapshot
<1> HIDE DEF live
<1>5. CASE live = {}
  BY <1>1, <1>3, <1>4, <1>5
<1>6. CASE live # {}
  <2>1. Min(live) \in live /\ \A y \in live : Min(live) <= y
    BY <1>2, <1>6, MinIsMin
  <2>2. Min(live) \in 0..Len(log)
    BY <1>2, <2>1
  <2>3. Min(live) <= Len(log)
    BY <1>1, <2>2
  <2> QED BY <1>3, <1>4, <1>6, <2>1, <2>2, <2>3
<1> QED BY <1>5, <1>6

LEMMA DropsStart ==
    ASSUME TypeInv, NEW p, GoodChoice(p), Starts(p)
    PROVE  DropsRight'
<1>1. UNCHANGED <<log, snapshots_, levels>>
  BY DEF Starts
<1>2. PICK heads \in Cuts(p) :
          c' = [level |-> p.level, in0 |-> p.in0, in1 |-> p.in1,
                outputs |-> OutputTables(p, heads)]
  BY DEF Starts
<1> DEFINE outputs == OutputTables(p, heads)
<1>0. PICK t : t = SmallestSnapshot
  OBVIOUS
<1>3. /\ c'.level = p.level /\ c'.in0 = p.in0 /\ c'.in1 = p.in1
      /\ c'.outputs = outputs
  BY <1>2
<1>4. InputsThere(p) /\ outputs = OutputTables(p, heads)
  BY DEF GoodChoice
<1> HIDE DEF outputs
<1>5. UNION {f.entries : f \in outputs} = Kept(p)
  BY <1>4, OutputsAre DEF TypeInv
<1>6. \A e : (\E f \in outputs : e \in f.entries) <=> e \in Kept(p)
  BY <1>5
<1>7. Inputs(p) \subseteq Entries
  BY <1>4, InputsAreWritten DEF TypeInv
<1>8. t \in 0..Len(log) /\ \A s \in LiveSequences : t <= s
  BY <1>0, SmallestIsSmallest
<1>9. Len(log) \in Nat /\ Entries \subseteq Nat
  BY EntriesType DEF TypeInv
<1>10. ASSUME NEW e \in Inputs(p), e \notin Kept(p)
       PROVE  \/ \E d \in Inputs(p) : UserKey(d) = UserKey(e) /\ d > e /\ d <= t
              \/ /\ IsDeletion(e) /\ e <= t
                 /\ \A l \in p.level + 2..NumLevels - 1 : \A f \in levels[l] : \A x \in f.entries :
                       UserKey(x) # UserKey(e)
                 /\ \A f \in outputs : \A x \in f.entries :
                       UserKey(x) = UserKey(e) => x > e
  <2>1. CASE Hidden(p, e)
    BY <1>0, <2>1 DEF Hidden
  <2>2. CASE Obsolete(p, e)
    <3>1. IsDeletion(e) /\ e <= t /\ IsBaseLevelForKey(p, UserKey(e))
      BY <1>0, <2>2 DEF Obsolete
    <3>2. ASSUME NEW l \in p.level + 2..NumLevels - 1, NEW f \in levels[l], NEW x \in f.entries,
                 UserKey(x) = UserKey(e)
          PROVE  FALSE
      <4>1. l \in Levels
        BY <1>4, LevelsAssumption DEF Levels, InputsThere
      <4>2. Lo(f) <= UserKey(x) /\ UserKey(x) <= Hi(f) /\ Hi(f) \in Nat
        BY <4>1, TableRange DEF TypeInv, GoodLevels
      <4>3. ~Overlaps(f, UserKey(e), UserKey(e)) /\ UserKey(e) \in Nat
        BY <1>7, <3>1, EntriesType DEF IsBaseLevelForKey, TypeInv
      <4> QED BY <3>2, <4>2, <4>3 DEF Overlaps
    <3>3. ASSUME NEW f \in outputs, NEW x \in f.entries, UserKey(x) = UserKey(e)
          PROVE  x > e
      <4>1. x \in Kept(p)
        BY <1>6
      <4>2. x \in Inputs(p) /\ ~Hidden(p, x) /\ x # e
        BY <1>10, <4>1 DEF Kept
      <4>3. x \in Nat /\ e \in Nat
        BY <1>7, <1>9, <4>2
      <4>4. ~(e > x)
        BY <1>0, <3>1, <3>3, <4>2 DEF Hidden
      <4> QED BY <4>2, <4>3, <4>4
    <3> QED BY <3>1, <3>2, <3>3
  <2> QED BY <1>10, <2>1, <2>2 DEF Kept
<1>11. /\ t \in 0..Len(log')
       /\ \A s \in LiveSequences' : t <= s
  BY <1>1, <1>8 DEF LiveSequences
<1>12. Inputs(c)' = Inputs(p)
  BY <1>3 DEF Inputs
<1>13. \A e : UserKey(e)' = UserKey(e) /\ IsDeletion(e)' = IsDeletion(e)
  BY <1>1 DEF UserKey, IsDeletion
<1>14. ASSUME NEW e \in Inputs(p)
       PROVE  (\E f \in outputs : e \in f.entries) \/ MayDrop(e, t)'
  <2>1. CASE e \in Kept(p)
    BY <1>6, <2>1
  <2>2. CASE \E d \in Inputs(p) : UserKey(d) = UserKey(e) /\ d > e /\ d <= t
    BY <1>12, <1>13, <2>2 DEF MayDrop
  <2>3. CASE /\ IsDeletion(e) /\ e <= t
             /\ \A l \in p.level + 2..NumLevels - 1 : \A f \in levels[l] : \A x \in f.entries :
                   UserKey(x) # UserKey(e)
             /\ \A f \in outputs : \A x \in f.entries :
                   UserKey(x) = UserKey(e) => x > e
    <3>1. NothingToHide(e)'
      BY <1>1, <1>3, <1>13, <2>3 DEF NothingToHide
    <3> QED BY <1>13, <2>3, <3>1 DEF MayDrop
  <2> QED BY <1>10, <2>1, <2>2, <2>3
<1>15. \A e \in Inputs(c)' : (\E f \in c'.outputs : e \in f.entries) \/ MayDrop(e, t)'
  BY <1>3, <1>12, <1>14
<1>16. \E u \in 0..Len(log') :
          /\ \A s \in LiveSequences' : u <= s
          /\ \A e \in Inputs(c)' : (\E f \in c'.outputs : e \in f.entries) \/ MayDrop(e, u)'
  BY <1>11, <1>15
<1> QED BY <1>16 DEF DropsRight

\* While c writes: the log grows, live sequence numbers come after live ones, and a file
\* that comes is newer than what c reads.
LEMMA DropsStay ==
    ASSUME TypeInv, GoodLog', LogKept, DropsRight, UNCHANGED c, Len(log) <= Len(log'),
           \A s \in LiveSequences' : \E r \in LiveSequences : r <= s,
           LiveSequences' \subseteq Nat,
           c # None => \A l \in Levels : \A f \in levels'[l] :
              \/ f \in levels[l]
              \/ f.entries \subseteq Entries /\ \A x \in f.entries, e \in Inputs(c) : x > e
    PROVE  DropsRight'
<1> SUFFICES ASSUME c # None
             PROVE  DropsRight'
  BY DEF DropsRight
<1>1. PICK t \in 0..Len(log) :
          /\ \A s \in LiveSequences : t <= s
          /\ \A e \in Inputs(c) : (\E f \in c.outputs : e \in f.entries) \/ MayDrop(e, t)
  BY DEF DropsRight
<1>2. Len(log) \in Nat /\ Len(log') \in Nat /\ LiveSequences \subseteq Nat
  <2>1. Len(log) \in Nat /\ Len(log') \in Nat
    BY EntriesType, LenProperties DEF TypeInv, GoodLog
  <2> QED BY <2>1, LiveAreWritten
<1>3. t \in 0..Len(log') /\ \A s \in LiveSequences' : t <= s
  <2>1. t \in 0..Len(log')
    BY <1>2
  <2>2. ASSUME NEW s \in LiveSequences'
        PROVE  t <= s
    <3>1. PICK r \in LiveSequences : r <= s
      OBVIOUS
    <3>2. t <= r /\ r \in Nat /\ s \in Nat
      BY <1>1, <1>2
    <3> QED BY <3>1, <3>2
  <2> QED BY <2>1, <2>2
<1>4. /\ InputsThere(c) /\ Inputs(c) \subseteq Entries
      /\ \A f \in c.outputs : GoodTable(f)
      /\ \A l \in Levels : \A f \in levels[l] : GoodTable(f)
  BY InputsAreWritten DEF TypeInv, GoodWork, GoodLevels
<1>5. \A e \in Entries : UserKey(e)' = UserKey(e) /\ IsDeletion(e)' = IsDeletion(e)
  BY DEF LogKept, UserKey, IsDeletion
<1>6. Inputs(c)' = Inputs(c)
  BY DEF Inputs
<1>7. ASSUME NEW e \in Inputs(c), MayDrop(e, t)
      PROVE  MayDrop(e, t)'
  <2>1. CASE \E d \in Inputs(c) : UserKey(d) = UserKey(e) /\ d > e /\ d <= t
    <3>1. PICK d \in Inputs(c) : UserKey(d) = UserKey(e) /\ d > e /\ d <= t
      BY <2>1
    <3>2. d \in Inputs(c)' /\ UserKey(d)' = UserKey(e)'
      BY <1>4, <1>5, <1>6, <3>1
    <3> QED BY <3>1, <3>2 DEF MayDrop
  <2>2. CASE IsDeletion(e) /\ e <= t /\ NothingToHide(e)
    <3>1. IsDeletion(e)'
      BY <1>4, <1>5, <2>2
    <3>2. ASSUME NEW f \in c.outputs, NEW x \in f.entries, UserKey(x)' = UserKey(e)'
          PROVE  x > e
      <4>1. x \in Entries /\ e \in Entries
        BY <1>4 DEF GoodTable
      <4>2. UserKey(x) = UserKey(e)
        BY <1>5, <3>2, <4>1
      <4> QED BY <2>2, <4>2 DEF NothingToHide
    <3>3. ASSUME NEW l \in c.level + 2..NumLevels - 1, NEW f \in levels'[l], NEW x \in f.entries,
                 UserKey(x)' = UserKey(e)'
          PROVE  x > e
      <4>1. l \in Levels
        BY <1>4, LevelsAssumption DEF Levels, InputsThere
      <4>2. CASE f \in levels[l]
        <5>1. x \in Entries /\ e \in Entries
          BY <1>4, <4>1, <4>2 DEF GoodTable
        <5>2. UserKey(x) = UserKey(e)
          BY <1>5, <3>3, <5>1
        <5> QED BY <2>2, <4>2, <5>2 DEF NothingToHide
      <4>3. CASE \A y \in f.entries, d \in Inputs(c) : y > d
        BY <4>3
      <4> QED BY <4>1, <4>2, <4>3
    <3>4. NothingToHide(e)'
      BY <3>2, <3>3 DEF NothingToHide
    <3> QED BY <2>2, <3>1, <3>4 DEF MayDrop
  <2> QED BY <1>7, <2>1, <2>2 DEF MayDrop
<1>8. \A e \in Inputs(c)' : (\E f \in c'.outputs : e \in f.entries) \/ MayDrop(e, t)'
  BY <1>1, <1>6, <1>7
<1> QED BY <1>3, <1>8 DEF DropsRight

LEMMA RetainedStays ==
    ASSUME Retained, UNCHANGED log, LiveSequences' \subseteq LiveSequences,
           Present' \subseteq Present,
           \A s \in LiveSequences' : \A w \in Present \ Present' :
              Newest(w, s) => IsDeletion(w) /\ \A e \in Present' : UserKey(e) = UserKey(w) => e > s
    PROVE  Retained'
<1>1. \A e : UserKey(e)' = UserKey(e) /\ IsDeletion(e)' = IsDeletion(e)
  BY DEF UserKey, IsDeletion
<1>2. \A w, s : Newest(w, s)' = Newest(w, s)
  BY <1>1 DEF Newest
<1>3. ASSUME NEW s \in LiveSequences', NEW w \in 1..s, Newest(w, s)
      PROVE  \/ w \in Present'
             \/ IsDeletion(w) /\ \A e \in Present' : UserKey(e) = UserKey(w) => e > s
  <2>1. CASE w \in Present
    BY <1>3, <2>1
  <2>2. CASE w \notin Present
    BY <1>3, <2>2 DEF Retained
  <2> QED BY <2>1, <2>2
<1> QED BY <1>1, <1>2, <1>3 DEF Retained

LEMMA RetainedWrite ==
    ASSUME TypeInv, GoodLog', LogKept, Retained,
           NEW k \in Keys, NEW d \in Deletions, Write(k, d)
    PROVE  Retained'
<1>0. PICK n : n = Len(log)
  OBVIOUS
<1>1. /\ mem_' = mem_ \cup {n + 1} /\ UNCHANGED <<imm_, levels, snapshots_>>
      /\ log' = Append(log, [key |-> k, del |-> d])
  BY <1>0 DEF Write
<1>2. Len(log') = n + 1 /\ n \in Nat /\ Entries \subseteq Nat /\ Entries = 1..n
  <2>1. [key |-> k, del |-> d] \in [key : Keys, del : BOOLEAN]
    BY DeletionsAssumption
  <2> QED BY <1>0, <1>1, <2>1, LogGrows, EntriesType DEF TypeInv, Entries
<1>3. Present' = Present \cup {n + 1}
  <2>1. Stored' = Stored
    BY <1>1 DEF Stored, Levels
  <2> QED BY <1>1, <2>1 DEF Present
<1>4. Present \subseteq Entries
  BY PresentAreWritten
<1>5. \A e \in Entries : UserKey(e)' = UserKey(e) /\ IsDeletion(e)' = IsDeletion(e)
  BY DEF LogKept, UserKey, IsDeletion
<1>6. LiveSequences \subseteq 0..n /\ n \in LiveSequences
  BY <1>0, LiveAreWritten
<1>7. \A s \in LiveSequences' : s \in LiveSequences \/ s = n + 1
  BY <1>0, <1>1, <1>2 DEF LiveSequences
<1> SUFFICES ASSUME NEW s \in LiveSequences', NEW w \in 1..s, Newest(w, s)'
             PROVE  \/ w \in Present'
                    \/ IsDeletion(w)' /\ \A e \in Present' : UserKey(e)' = UserKey(w)' => e > s
  BY DEF Retained
<1>8. ASSUME NEW r \in LiveSequences, w \in 1..r, r <= s, s <= r + 1, s \in Nat,
             s = r \/ (r = n /\ UserKey(n + 1)' # UserKey(w)')
      PROVE  \/ w \in Present'
             \/ IsDeletion(w)' /\ \A e \in Present' : UserKey(e)' = UserKey(w)' => e > s
  <2>1. r \in Nat /\ r <= n /\ w \in Nat /\ w \in Entries
    BY <1>2, <1>6, <1>8
  <2>2. Newest(w, r)
    <3>1. ASSUME NEW e \in 1..r, UserKey(e) = UserKey(w)
          PROVE  e <= w
      <4>1. e \in Entries /\ e \in 1..s
        BY <1>2, <1>8, <2>1
      <4>2. UserKey(e)' = UserKey(w)'
        BY <1>5, <2>1, <3>1, <4>1
      <4> QED BY <4>1, <4>2 DEF Newest
    <3> QED BY <1>8, <3>1 DEF Newest
  <2>3. CASE w \in Present
    BY <1>3, <2>3
  <2>4. CASE w \notin Present
    <3>1. IsDeletion(w) /\ \A e \in Present : UserKey(e) = UserKey(w) => e > r
      BY <1>8, <2>2, <2>4 DEF Retained
    <3>2. ASSUME NEW e \in Present', UserKey(e)' = UserKey(w)'
          PROVE  e > s
      <4>1. CASE e = n + 1
        BY <1>2, <1>8, <2>1, <3>2, <4>1
      <4>2. CASE e \in Present
        <5>1. e \in Entries /\ e \in Nat /\ e <= n
          BY <1>2, <1>4, <4>2
        <5>2. UserKey(e) = UserKey(w)
          BY <1>5, <2>1, <3>2, <5>1
        <5>3. e > r
          BY <3>1, <4>2, <5>2
        <5> QED BY <1>2, <1>8, <2>1, <5>1, <5>3
      <4> QED BY <1>3, <4>1, <4>2
    <3> QED BY <1>5, <2>1, <3>1, <3>2
  <2> QED BY <2>3, <2>4
<1>9. CASE s \in LiveSequences
  <2>1. s \in Nat /\ s <= s /\ s <= s + 1
    BY <1>2, <1>6, <1>9
  <2> QED BY <1>8, <1>9, <2>1
<1>10. CASE s = n + 1 /\ w = n + 1
  BY <1>3, <1>10
<1>11. CASE s = n + 1 /\ w # n + 1
  <2>1. w \in 1..n /\ n <= s /\ s <= n + 1 /\ s \in Nat
    BY <1>2, <1>11
  <2>2. UserKey(n + 1)' # UserKey(w)'
    <3>1. n + 1 \in 1..s /\ ~(n + 1 <= w)
      BY <1>2, <1>11, <2>1
    <3> QED BY <3>1 DEF Newest
  <2> QED BY <1>6, <1>8, <2>1, <2>2
<1> QED BY <1>7, <1>9, <1>10, <1>11

\* The installation of a compaction's results loses no entry that a read could want.
LEMMA RetainedInstall ==
    ASSUME TypeInv, OrderInv, Retained, DropsRight, InstallCompactionResults
    PROVE  Retained'
<1>1. /\ c # None /\ UNCHANGED <<log, mem_, imm_, snapshots_>>
      /\ Replaces(c.level, c.in0, c.in1, c.outputs)
  BY InstallCases
<1>2. \A l \in Levels :
          levels'[l] = IF l = c.level THEN levels[l] \ c.in0
                       ELSE IF l = c.level + 1 THEN (levels[l] \ c.in1) \cup c.outputs
                       ELSE levels[l]
  BY <1>1 DEF Replaces
<1>3. /\ c.level \in Levels /\ c.level + 1 \in Levels /\ c.level + 1 # c.level
      /\ c.level \in Nat /\ InputsThere(c)
      /\ c.in0 \subseteq levels[c.level] /\ c.in1 \subseteq levels[c.level + 1]
      /\ \A f \in c.outputs : f.entries \subseteq Inputs(c)
  BY <1>1, LevelsExist, LevelsAssumption DEF TypeInv, GoodWork, InputsThere
<1>4. \A e \in Inputs(c) : \E i \in c.in0 \cup c.in1 : e \in i.entries
  BY DEF Inputs
<1>5. Inputs(c) \subseteq Stored
  BY <1>3, <1>4, StoredIs
<1>6. \A e : e \in Stored' <=> \E l \in Levels : \E f \in levels'[l] : e \in f.entries
  BY DEF Stored, Levels
<1>7. Present' = mem_ \cup imm_ \cup Stored'
  BY <1>1 DEF Present
<1>8. Present' \subseteq Present
  <2> SUFFICES ASSUME NEW e \in Stored'
               PROVE  e \in Stored
    BY <1>7 DEF Present
  <2>1. PICK l \in Levels : \E f \in levels'[l] : e \in f.entries
    BY <1>6
  <2>2. PICK f \in levels'[l] : e \in f.entries
    BY <2>1
  <2>3. CASE f \in levels[l]
    BY <2>2, <2>3, StoredIs
  <2>4. CASE f \in c.outputs
    BY <1>3, <1>5, <2>2, <2>4
  <2> QED BY <1>2, <2>3, <2>4
<1>9. LiveSequences' = LiveSequences
  BY <1>1 DEF LiveSequences
<1>10. PICK t \in 0..Len(log) :
          /\ \A s \in LiveSequences : t <= s
          /\ \A e \in Inputs(c) : (\E f \in c.outputs : e \in f.entries) \/ MayDrop(e, t)
  BY <1>1 DEF DropsRight
<1>11. Present \subseteq Entries /\ Entries \subseteq Nat \ {0} /\ Len(log) \in Nat
       /\ LiveSequences \subseteq Nat
  <2>1. Len(log) \in Nat
    BY EntriesType DEF TypeInv
  <2> QED BY <2>1, EntriesType, PresentAreWritten, LiveAreWritten DEF TypeInv
<1>12. ASSUME NEW s \in LiveSequences, NEW w \in Present \ Present', Newest(w, s)
       PROVE  IsDeletion(w) /\ \A e \in Present' : UserKey(e) = UserKey(w) => e > s
  <2>1. w \in Inputs(c) /\ ~(\E f \in c.outputs : w \in f.entries)
    <3>1. w \in Stored /\ w \notin Stored'
      BY <1>7, <1>12 DEF Present
    <3>2. PICK l \in Levels : \E f \in levels[l] : w \in f.entries
      BY <3>1, StoredIs
    <3>3. PICK f \in levels[l] : w \in f.entries
      BY <3>2
    <3>4. f \notin levels'[l]
      BY <1>6, <3>1, <3>3
    <3>5. f \in c.in0 \cup c.in1
      BY <1>2, <3>4
    <3>6. w \in Inputs(c)
      BY <3>3, <3>5 DEF Inputs
    <3>7. c.outputs \subseteq levels'[c.level + 1]
      BY <1>2, <1>3
    <3>8. ~(\E g \in c.outputs : w \in g.entries)
      BY <1>3, <1>6, <3>1, <3>7
    <3> QED BY <3>6, <3>8
  <2>2. ~(\E d \in Inputs(c) : UserKey(d) = UserKey(w) /\ d > w /\ d <= t)
    <3> SUFFICES ASSUME NEW d \in Inputs(c), UserKey(d) = UserKey(w), d > w, d <= t
                 PROVE  FALSE
      OBVIOUS
    <3>1. d \in Nat \ {0} /\ w \in Nat
      BY <1>5, <1>11, <1>12 DEF Present
    <3>2. t <= s /\ s \in Nat
      BY <1>10, <1>11
    <3>3. d \in 1..s
      BY <3>1, <3>2
    <3>4. d <= w
      BY <1>12, <3>3 DEF Newest
    <3> QED BY <3>1, <3>4
  <2>3. IsDeletion(w) /\ NothingToHide(w)
    BY <1>10, <2>1, <2>2 DEF MayDrop
  <2>4. PICK i \in c.in0 \cup c.in1 : w \in i.entries
    BY <1>4, <2>1
  <2> SUFFICES ASSUME NEW x \in Present', UserKey(x) = UserKey(w), ~(x > s)
               PROVE  FALSE
    BY <2>3
  <2>5. x \in Nat /\ w \in Nat /\ x # w
    BY <1>8, <1>11, <1>12
  <2>6. x <= w
    <3>1. x \in Nat \ {0} /\ s \in Nat
      BY <1>8, <1>11
    <3>2. x \in 1..s
      BY <3>1
    <3> QED BY <1>12, <3>2 DEF Newest
  <2>7. ~(x > w)
    BY <2>5, <2>6
  <2>8. x \notin mem_ \cup imm_
    <3>1. \E l \in Levels : i \in levels[l]
      BY <1>3
    <3> QED BY <2>4, <2>7, <3>1 DEF OrderInv, MemNewest
  <2>9. PICK l \in Levels : \E f \in levels'[l] : x \in f.entries
    BY <1>6, <1>7, <2>8
  <2>10. PICK f \in levels'[l] : x \in f.entries
    BY <2>9
  <2>11. ~Above(f, i) /\ ~Apart(f, i)
    BY <2>4, <2>7, <2>10 DEF Above, Apart
  <2>12. l \in Int /\ l <= NumLevels - 1
    BY LevelsAssumption DEF Levels
  <2>13. CASE l < c.level
    <3>1. f \in levels[l]
      <4>1. l # c.level /\ l # c.level + 1
        BY <1>3, <2>12, <2>13
      <4> QED BY <1>2, <4>1
    <3>2. l < c.level + 1
      BY <1>3, <2>12, <2>13
    <3> QED BY <1>3, <2>11, <2>13, <3>1, <3>2 DEF OrderInv, LevelOrder
  <2>14. CASE l = c.level
    <3>1. f \in levels[c.level] \ c.in0
      BY <1>2, <2>14
    <3> QED BY <1>1, <2>11, <3>1 DEF OrderInv, CompOrder
  <2>15. CASE l = c.level + 1
    <3>1. CASE f \in c.outputs
      BY <2>3, <2>7, <2>10, <3>1 DEF NothingToHide
    <3>2. CASE f \in levels[c.level + 1] \ c.in1
      BY <1>1, <2>11, <3>2 DEF OrderInv, CompApart
    <3> QED BY <1>2, <1>3, <2>15, <3>1, <3>2
  <2>16. CASE l > c.level + 1
    <3>1. l \in c.level + 2..NumLevels - 1
      BY <1>3, <2>12, <2>16, LevelsAssumption
    <3>2. f \in levels[l]
      <4>1. l # c.level /\ l # c.level + 1
        BY <1>3, <2>12, <2>16
      <4> QED BY <1>2, <4>1
    <3> QED BY <2>3, <2>7, <2>10, <3>1, <3>2 DEF NothingToHide
  <2> QED BY <1>3, <2>12, <2>13, <2>14, <2>15, <2>16
<1> QED BY <1>1, <1>8, <1>9, <1>12, RetainedStays

LEMMA PresentAfterFlush ==
    ASSUME TypeInv, CompactMemTable
    PROVE  Present' \subseteq Present /\ Present \subseteq Present'
<1>1. mem_' = mem_ /\ imm_' = {}
  BY FlushCases
<1>2. CASE imm_ = {}
  BY <1>1, <1>2, FlushCases DEF Present, Stored, Levels
<1>3. CASE imm_ # {}
  <2>1. PICK f : \E L \in Levels : f.entries = imm_ /\ Enters(f, L)
    BY <1>3, FlushCases
  <2>2. PICK L \in Levels : f.entries = imm_ /\ Enters(f, L)
    BY <2>1
  <2>3. \A l \in Levels : levels'[l] = IF l = L THEN levels[l] \cup {f} ELSE levels[l]
    BY <2>2 DEF Enters
  <2>4. \A e : e \in Stored' <=> \E l \in Levels : \E g \in levels'[l] : e \in g.entries
    BY DEF Stored, Levels
  <2>5. \A e : e \in Stored' <=> e \in Stored \/ e \in imm_
    BY <2>2, <2>3, <2>4, StoredIs
  <2> QED BY <1>1, <2>5 DEF Present
<1> QED BY <1>2, <1>3

LEMMA PresentAfterMove ==
    ASSUME TypeInv, NEW p, GoodChoice(p), Moves(p)
    PROVE  Present' \subseteq Present /\ Present \subseteq Present'
<1>1. UNCHANGED <<mem_, imm_>> /\ Replaces(p.level, p.in0, {}, p.in0)
  BY DEF Moves
<1>2. /\ p.level \in Levels /\ p.level + 1 \in Levels /\ p.level + 1 # p.level
      /\ p.in0 \subseteq levels[p.level]
  BY LevelsExist, LevelsAssumption DEF GoodChoice, InputsThere
<1>3. \A l \in Levels :
          levels'[l] = IF l = p.level THEN levels[l] \ p.in0
                       ELSE IF l = p.level + 1 THEN (levels[l] \ {}) \cup p.in0
                       ELSE levels[l]
  BY <1>1 DEF Replaces
<1>4. \A e : e \in Stored' <=> \E l \in Levels : \E g \in levels'[l] : e \in g.entries
  BY DEF Stored, Levels
<1>5. ASSUME NEW e \in Stored'
      PROVE  e \in Stored
  BY <1>2, <1>3, <1>4, StoredIs
<1>6. ASSUME NEW e \in Stored
      PROVE  e \in Stored'
  <2>1. PICK l \in Levels : \E g \in levels[l] : e \in g.entries
    BY StoredIs
  <2>2. PICK g \in levels[l] : e \in g.entries
    BY <2>1
  <2>3. g \in levels'[l] \/ g \in levels'[p.level + 1]
    BY <1>2, <1>3
  <2> QED BY <1>2, <1>4, <2>2, <2>3
<1> QED BY <1>1, <1>5, <1>6 DEF Present

LEMMA RetainedSame ==
    ASSUME Retained, UNCHANGED log, LiveSequences' \subseteq LiveSequences,
           Present' \subseteq Present, Present \subseteq Present'
    PROVE  Retained'
<1>1. Present \ Present' = {}
  OBVIOUS
<1> QED BY <1>1, RetainedStays

LEMMA DataSame ==
    ASSUME TypeInv, GoodLog', LogKept, Retained, DropsRight, UNCHANGED <<log, levels, c>>,
           LiveSequences' \subseteq LiveSequences, Present' = Present
    PROVE  Retained' /\ DropsRight'
<1>1. Len(log) \in Nat /\ LiveSequences \subseteq 0..Len(log)
  BY EntriesType, LiveAreWritten DEF TypeInv
<1>2. Retained'
  BY RetainedSame
<1>3. Len(log) <= Len(log') /\ LiveSequences' \subseteq Nat
  BY <1>1
<1>4. \A s \in LiveSequences' : \E r \in LiveSequences : r <= s
  <2> TAKE s \in LiveSequences'
  <2>1. s \in LiveSequences /\ s <= s
    BY <1>1
  <2> QED BY <2>1
<1>5. c # None => \A l \in Levels : \A f \in levels'[l] : f \in levels[l]
  OBVIOUS
<1>6. DropsRight'
  BY <1>3, <1>4, <1>5, DropsStay
<1> QED BY <1>2, <1>6

LEMMA DataClient ==
    ASSUME TypeInv, GoodLog', LogKept, Retained, DropsRight, Client
    PROVE  Retained' /\ DropsRight'
<1>1. UNCHANGED <<levels, c>> /\ Stored' = Stored
  <2>1. UNCHANGED <<levels, c>>
    BY DEF Client, Write, SwitchMemTable, GetSnapshot, ReleaseSnapshot
  <2> QED BY <2>1 DEF Stored, Levels
<1>2. Len(log) \in Nat /\ LiveSequences \subseteq 0..Len(log) /\ Len(log) \in LiveSequences
  BY EntriesType, LiveAreWritten DEF TypeInv
<1>3. ASSUME NEW k \in Keys, NEW d \in Deletions, Write(k, d)
      PROVE  Retained' /\ DropsRight'
  <2>1. Retained'
    BY <1>3, RetainedWrite
  <2>2. Len(log') = Len(log) + 1 /\ UNCHANGED snapshots_
    <3>1. [key |-> k, del |-> d] \in [key : Keys, del : BOOLEAN]
      BY DeletionsAssumption
    <3>2. log' = Append(log, [key |-> k, del |-> d]) /\ UNCHANGED snapshots_
      BY <1>3 DEF Write
    <3> QED BY <3>1, <3>2, LogGrows DEF TypeInv
  <2>3. \A s \in LiveSequences' : s \in LiveSequences \/ s = Len(log) + 1
    BY <2>2 DEF LiveSequences
  <2>4. Len(log) <= Len(log')
    BY <1>2, <2>2
  <2>5. LiveSequences' \subseteq Nat
    <3>1. Len(log) + 1 \in Nat /\ LiveSequences \subseteq Nat
      BY <1>2
    <3> QED BY <2>3, <3>1
  <2>6. \A s \in LiveSequences' : \E r \in LiveSequences : r <= s
    <3> TAKE s \in LiveSequences'
    <3>1. CASE s \in LiveSequences
      <4>1. s <= s
        BY <1>2, <3>1
      <4> QED BY <3>1, <4>1
    <3>2. CASE s = Len(log) + 1
      <4>1. Len(log) <= s
        BY <1>2, <3>2
      <4> QED BY <1>2, <4>1
    <3> QED BY <2>3, <3>1, <3>2
  <2>7. c # None => \A l \in Levels : \A f \in levels'[l] : f \in levels[l]
    BY <1>1
  <2>8. DropsRight'
    BY <1>1, <2>4, <2>5, <2>6, <2>7, DropsStay
  <2> QED BY <2>1, <2>8
<1>4. CASE SwitchMemTable
  <2>1. /\ UNCHANGED <<log, snapshots_>> /\ imm_ = {} /\ imm_' = mem_ /\ mem_' = {}
    BY <1>4 DEF SwitchMemTable, TypeInv, GoodMem
  <2>2. LiveSequences' = LiveSequences /\ Present' = Present
    BY <1>1, <2>1 DEF LiveSequences, Present
  <2> QED BY <1>1, <2>1, <2>2, DataSame
<1>5. ASSUME NEW h \in Snapshots, GetSnapshot(h) \/ ReleaseSnapshot(h)
      PROVE  Retained' /\ DropsRight'
  <2>1. UNCHANGED <<log, mem_, imm_>>
    BY <1>5 DEF GetSnapshot, ReleaseSnapshot
  <2>2. Present' = Present
    BY <1>1, <2>1 DEF Present
  <2>3. PICK s \in {None, Len(log)} : snapshots_' = [snapshots_ EXCEPT ![h] = s]
    BY <1>5 DEF GetSnapshot, ReleaseSnapshot
  <2>4. \A g \in Snapshots : snapshots_'[g] = snapshots_[g] \/ snapshots_'[g] = None
                             \/ snapshots_'[g] = Len(log)
    BY <2>3 DEF TypeInv, GoodSnapshots
  <2>5. LiveSequences' \subseteq LiveSequences
    BY <2>1, <2>4 DEF LiveSequences
  <2> QED BY <1>1, <2>1, <2>2, <2>5, DataSame
<1> QED BY <1>3, <1>4, <1>5 DEF Client

LEMMA DataFlush ==
    ASSUME TypeInv, GoodLog', LogKept, OrderInv, Retained, DropsRight, CompactMemTable
    PROVE  Retained' /\ DropsRight'
<1>1. UNCHANGED <<log, mem_, snapshots_, c>>
  BY FlushCases
<1>2. LiveSequences' = LiveSequences
  BY <1>1 DEF LiveSequences
<1>3. Retained'
  BY <1>1, <1>2, PresentAfterFlush, RetainedSame
<1>4. LiveSequences \subseteq Nat /\ Len(log) \in Nat
  BY EntriesType, LiveAreWritten DEF TypeInv
<1>5. \A s \in LiveSequences' : \E r \in LiveSequences : r <= s
  <2> TAKE s \in LiveSequences'
  <2>1. s \in LiveSequences /\ s <= s
    BY <1>2, <1>4
  <2> QED BY <2>1
<1>6. ASSUME c # None, NEW l \in Levels, NEW f \in levels'[l]
      PROVE  \/ f \in levels[l]
             \/ f.entries \subseteq Entries /\ \A x \in f.entries, e \in Inputs(c) : x > e
  <2>1. CASE imm_ = {}
    BY <1>6, <2>1, FlushCases
  <2>2. CASE imm_ # {}
    <3>1. PICK g : \E L \in Levels : GoodTable(g) /\ g.entries = imm_ /\ Enters(g, L)
      BY <2>2, FlushCases
    <3>2. PICK L \in Levels : GoodTable(g) /\ g.entries = imm_ /\ Enters(g, L)
      BY <3>1
    <3>3. f \in levels[l] \/ f = g
      BY <3>2 DEF Enters
    <3>4. imm_ \subseteq Entries
      BY DEF TypeInv, GoodMem
    <3>5. ASSUME NEW x \in imm_, NEW e \in Inputs(c)
          PROVE  x > e
      <4>1. PICK i \in c.in0 \cup c.in1 : e \in i.entries
        BY DEF Inputs
      <4>2. \E m \in Levels : i \in levels[m]
        BY <1>6, LevelsExist DEF TypeInv, GoodWork, InputsThere
      <4> QED BY <4>1, <4>2 DEF OrderInv, MemNewest
    <3> QED BY <3>2, <3>3, <3>4, <3>5
  <2> QED BY <2>1, <2>2
<1>7. Len(log) <= Len(log')
  BY <1>1, <1>4
<1>8. DropsRight'
  BY <1>1, <1>2, <1>4, <1>5, <1>6, <1>7, DropsStay
<1> QED BY <1>3, <1>8

DataInv == Retained /\ DropsRight

LEMMA DataNext ==
    ASSUME TypeInv, OrderInv, DataInv, [Next]_vars
    PROVE  DataInv'
<1>1. GoodLog' /\ LogKept
  BY LogStep
<1>2. CASE Client
  BY <1>1, <1>2, DataClient DEF DataInv
<1>3. CASE CompactMemTable
  BY <1>1, <1>3, DataFlush DEF DataInv
<1>4. ASSUME NEW p, GoodChoice(p), Moves(p), c = None
      PROVE  DataInv'
  <2>1. UNCHANGED <<log, c>> /\ LiveSequences' = LiveSequences
    BY <1>4 DEF Moves, LiveSequences
  <2>2. Retained'
    BY <1>4, <2>1, PresentAfterMove, RetainedSame DEF DataInv
  <2> QED BY <1>4, <2>1, <2>2 DEF DataInv, DropsRight
<1>5. ASSUME NEW p, GoodChoice(p), Starts(p)
      PROVE  DataInv'
  <2>1. UNCHANGED log /\ LiveSequences' = LiveSequences /\ Present' = Present
    BY <1>5 DEF Starts, LiveSequences, Present, Stored, Levels
  <2>2. Retained'
    BY <2>1, RetainedSame DEF DataInv
  <2> QED BY <1>5, <2>2, DropsStart DEF DataInv
<1>6. CASE AutoCompaction
  BY <1>4, <1>5, <1>6, AutoCases
<1>7. CASE ManualCompaction
  BY <1>5, <1>7, ManualCases
<1>8. CASE InstallCompactionResults
  <2>1. c' = None
    BY <1>8, InstallCases
  <2> QED BY <1>8, <2>1, RetainedInstall DEF DataInv, DropsRight
<1>9. CASE UNCHANGED vars
  <2>1. /\ UNCHANGED <<log, levels, c>> /\ Present' = Present
        /\ LiveSequences' = LiveSequences
    BY <1>9 DEF vars, Present, Stored, Levels, LiveSequences
  <2> QED BY <1>1, <2>1, DataSame DEF DataInv
<1> QED BY <1>2, <1>3, <1>6, <1>7, <1>8, <1>9 DEF Next, Background

LEMMA DataInit == Init => DataInv
<1> SUFFICES ASSUME Init PROVE DataInv
  OBVIOUS
<1>1. Len(log) = 0
  BY DEF Init
<1>2. LiveSequences = {0}
  BY <1>1 DEF Init, LiveSequences
<1>3. Retained
  BY <1>2 DEF Retained
<1> QED BY <1>3 DEF Init, DataInv, DropsRight

\* The entries of k that a read at sequence number s may see.
Visible(k, s) == Entry(Present, k, s)

LEMMA EntryIs ==
    ASSUME TypeInv, NEW S, S \subseteq Entries, NEW k, NEW s
    PROVE  /\ Entry(S, k, s) \subseteq Int /\ IsFiniteSet(Entry(S, k, s))
           /\ \A e : e \in Entry(S, k, s) <=> e \in S /\ UserKey(e) = k /\ e <= s
<1>1. Entry(S, k, s) \subseteq Entries
  BY DEF Entry
<1>2. Entries \subseteq Int /\ IsFiniteSet(Entries)
  BY EntriesType DEF TypeInv
<1>3. IsFiniteSet(Entry(S, k, s))
  BY <1>1, <1>2, FS_Subset
<1> QED BY <1>1, <1>2, <1>3 DEF Entry

\* An iterator shows what was written last.
LEMMA IterateIsWritten ==
    ASSUME TypeInv, Retained, NEW k \in Keys, NEW s \in LiveSequences
    PROVE  Iterate(k, s) = Written(k, s)
<1> DEFINE V == Entry(Present, k, s)
           W == {e \in 1..s : UserKey(e) = k}
<1>1. s \in Nat /\ s <= Len(log) /\ Len(log) \in Nat
  <2>1. Len(log) \in Nat
    BY EntriesType DEF TypeInv
  <2> QED BY <2>1, LiveAreWritten
<1>2. Iterate(k, s) = IF V = {} \/ IsDeletion(Max(V)) THEN 0 ELSE Max(V)
  BY DEF Iterate, Present, Stored
<1>3. Written(k, s) = IF W = {} \/ IsDeletion(Max(W)) THEN 0 ELSE Max(W)
  BY DEF Written
<1>4. Present \subseteq Entries /\ Entries \subseteq Nat \ {0}
  BY PresentAreWritten, EntriesType DEF TypeInv
<1>5. V \subseteq Int /\ IsFiniteSet(V)
      /\ \A e : e \in V <=> e \in Present /\ UserKey(e) = k /\ e <= s
  BY <1>4, EntryIs
<1>6. W \subseteq Int /\ IsFiniteSet(W)
  <2>1. IsFiniteSet(1..s) /\ W \subseteq 1..s /\ 1..s \subseteq Int
    BY <1>1, FS_Interval
  <2> HIDE DEF W
  <2> QED BY <2>1, FS_Subset
<1>7. \A e : e \in W <=> e \in 1..s /\ UserKey(e) = k
  OBVIOUS
<1>8. V \subseteq W
  <2> SUFFICES ASSUME NEW e \in V PROVE e \in W
    OBVIOUS
  <2>1. e \in Present /\ UserKey(e) = k /\ e <= s /\ e \in Nat \ {0}
    <3> HIDE DEF V
    <3> QED BY <1>4, <1>5
  <2>2. e \in 1..s
    BY <1>1, <2>1
  <2> QED BY <2>1, <2>2
<1> HIDE DEF V, W
<1>9. CASE W = {}
  BY <1>2, <1>3, <1>8, <1>9
<1>10. CASE W # {}
  <2> DEFINE w == Max(W)
  <2>1. w \in W /\ \A y \in W : w >= y
    BY <1>6, <1>10, MaxIsMax
  <2> HIDE DEF w
  <2>2. w \in 1..s /\ UserKey(w) = k
    BY <1>7, <2>1
  <2>3. Newest(w, s)
    <3>1. ASSUME NEW e \in 1..s, UserKey(e) = UserKey(w)
          PROVE  e <= w
      <4>1. e \in W /\ e \in Int /\ w \in Int
        BY <1>6, <1>7, <2>1, <2>2, <3>1
      <4>2. w >= e
        BY <2>1, <4>1
      <4> QED BY <4>1, <4>2
    <3> QED BY <2>2, <3>1 DEF Newest
  <2>4. CASE w \in Present
    <3>1. w \in V /\ \A x \in V : x <= w
      <4>1. w <= s
        BY <1>1, <2>2
      <4>2. w \in V
        BY <1>5, <2>2, <2>4, <4>1
      <4>3. \A x \in V : x <= w
        <5> TAKE x \in V
        <5>1. x \in W /\ x \in Int /\ w \in Int /\ w >= x
          BY <1>5, <1>8, <2>1, <4>2
        <5> QED BY <5>1
      <4> QED BY <4>2, <4>3
    <3>2. Max(V) = w
      BY <1>5, <3>1, MaxEquals
    <3>3. V # {}
      BY <3>1
    <3> QED BY <1>2, <1>3, <1>10, <3>2, <3>3 DEF w
  <2>5. CASE w \notin Present
    <3>1. IsDeletion(w) /\ \A e \in Present : UserKey(e) = UserKey(w) => e > s
      BY <2>2, <2>3, <2>5 DEF Retained
    <3>2. V = {}
      <4> SUFFICES ASSUME NEW e \in V PROVE FALSE
        OBVIOUS
      <4>1. e \in Present /\ UserKey(e) = k /\ e <= s /\ e \in Int
        BY <1>5
      <4>2. e > s
        BY <2>2, <3>1, <4>1
      <4> QED BY <1>1, <4>1, <4>2
    <3> QED BY <1>2, <1>3, <1>10, <3>1, <3>2 DEF w
  <2> QED BY <2>4, <2>5
<1> QED BY <1>9, <1>10

\* Version::Get looks into every file that has an entry for k.
LEMMA HitsAre ==
    ASSUME TypeInv, KeysApart, NoOverlap, NEW l \in Levels, NEW k \in Keys, NEW s \in Nat
    PROVE  Hits(l, k, s) = {f \in levels[l] : Entry(f.entries, k, s) # {}}
<1>1. Candidates(l, k, s) \subseteq levels[l]
  BY DEF Candidates, FindFile
<1> SUFFICES ASSUME NEW f \in levels[l], NEW e \in Entry(f.entries, k, s)
             PROVE  f \in Candidates(l, k, s)
  BY <1>1 DEF Hits
<1>2. \A g \in levels[l] :
          /\ GoodTable(g) /\ Lo(g) \in Nat /\ Hi(g) \in Nat /\ Lo(g) <= Hi(g)
          /\ g.smallest \in Entries /\ g.largest \in Entries
          /\ g.smallest \in g.entries /\ g.largest \in g.entries
  <2> TAKE g \in levels[l]
  <2>1. GoodTable(g)
    BY DEF TypeInv, GoodLevels
  <2>2. /\ g.smallest \in Entries /\ g.largest \in Entries
        /\ g.smallest \in g.entries /\ g.largest \in g.entries
    BY <2>1 DEF GoodTable
  <2> QED BY <2>1, <2>2, TableRange DEF TypeInv
<1>3. e \in f.entries /\ UserKey(e) = k /\ e <= s /\ e \in Entries /\ e \in Nat /\ k \in Nat
  <2>1. e \in f.entries /\ UserKey(e) = k /\ e <= s
    BY DEF Entry
  <2>2. e \in Entries
    BY <1>2, <2>1 DEF GoodTable
  <2> QED BY <2>1, <2>2, EntriesType DEF TypeInv
<1>4. Lo(f) <= k /\ k <= Hi(f)
  BY <1>2, <1>3, TableRange DEF TypeInv
<1>5. CASE l = 0
  BY <1>4, <1>5, <1>2, <1>3 DEF Candidates, Overlaps
<1>6. CASE l # 0
  <2> DEFINE after == {g \in levels[l] : k < Hi(g) \/ (k = Hi(g) /\ g.largest <= s)}
  <2>1. f \in after
    <3>1. CASE k < Hi(f)
      BY <3>1
    <3>2. CASE k = Hi(f)
      <4>1. e = f.largest \/ Before(e, f.largest)
        BY <1>2, <1>3 DEF GoodTable
      <4>2. f.largest \in Nat /\ UserKey(f.largest) = UserKey(e)
        BY <1>2, <1>3, <3>2, EntriesType DEF TypeInv, Hi
      <4>3. f.largest <= e
        BY <1>3, <4>1, <4>2, EntriesType DEF Before, TypeInv
      <4>4. f.largest <= s
        BY <1>3, <4>2, <4>3
      <4> QED BY <3>2, <4>4
    <3> QED BY <1>2, <1>3, <1>4, <3>1, <3>2
  <2>2. ASSUME NEW g \in after, g # f
        PROVE  Before(f.largest, g.largest)
    <3>1. g \in levels[l] /\ (k < Hi(g) \/ k = Hi(g)) /\ l \in Levels \ {0}
      BY <1>6
    <3>2. Before(f.largest, g.smallest) \/ Before(g.largest, f.smallest)
      BY <2>2, <3>1 DEF NoOverlap
    <3>3. CASE Before(f.largest, g.smallest)
      <4>1. g.smallest = g.largest \/ Before(g.smallest, g.largest)
        BY <1>2, <3>1 DEF GoodTable
      <4>2. f.largest \in Entries /\ g.smallest \in Entries /\ g.largest \in Entries
        BY <1>2, <3>1
      <4> QED BY <3>3, <4>1, <4>2, BeforeIsTransitive DEF TypeInv
    <3>4. CASE Before(g.largest, f.smallest)
      <4>1. Hi(g) <= Lo(f)
        BY <1>2, <3>1, <3>4, BeforeIsOrder DEF TypeInv, Hi, Lo
      <4>2. Hi(g) = k /\ Lo(f) = k
        BY <1>2, <1>3, <1>4, <3>1, <4>1
      <4>3. UserKey(g.largest) = UserKey(f.smallest)
        BY <4>2 DEF Hi, Lo
      <4>4. Apart(f, g)
        BY <2>2, <3>1 DEF KeysApart
      <4> QED BY <1>2, <3>1, <4>3, <4>4 DEF Apart
    <3> QED BY <3>2, <3>3, <3>4
  <2>3. FindFile(l, k, s)
        = {g \in after : Lo(g) <= k /\ \A h \in after : h = g \/ Before(g.largest, h.largest)}
    BY DEF FindFile
  <2> HIDE DEF after
  <2>4. f \in FindFile(l, k, s)
    BY <1>4, <2>1, <2>2, <2>3
  <2> QED BY <1>6, <2>4 DEF Candidates
<1> QED BY <1>5, <1>6

\* Of the files of a level that have an entry for k, one is newer than all the others.
LEMMA NewestHit ==
    ASSUME TypeInv, OrderInv, KeysApart, NEW l \in Levels, NEW k, NEW s,
           NEW H, H \subseteq levels[l], H # {}, \A f \in H : Entry(f.entries, k, s) # {}
    PROVE  \E g \in H : \A h \in H : h = g \/ Newer(g, h)
<1>1. \A g \in H : /\ g \in levels[l] /\ g.entries \subseteq Entries
                   /\ \E e \in g.entries : UserKey(e) = k
  BY DEF TypeInv, GoodLevels, GoodTable, Entry
<1>2. CASE l # 0
  <2>1. ASSUME NEW g \in H, NEW h \in H, g # h
        PROVE  FALSE
    <3>1. Apart(g, h)
      BY <1>1, <1>2, <2>1 DEF KeysApart
    <3> QED BY <1>1, <3>1 DEF Apart
  <2> QED BY <2>1
<1>3. CASE l = 0
  <2> DEFINE tops == {Max(g.entries) : g \in H}
  <2>1. Entries \subseteq Int /\ IsFiniteSet(Entries)
    BY EntriesType DEF TypeInv
  <2>2. ASSUME NEW g \in H
        PROVE  /\ Max(g.entries) \in g.entries /\ Max(g.entries) \in Entries
               /\ Max(g.entries) \in Int
    <3>1. g.entries \subseteq Int /\ IsFiniteSet(g.entries) /\ g.entries # {}
      BY <1>1, <2>1, FS_Subset
    <3>2. Max(g.entries) \in g.entries
      BY <3>1, MaxIsMax
    <3> QED BY <1>1, <2>1, <3>2
  <2>3. tops \subseteq Int /\ IsFiniteSet(tops) /\ tops # {}
    <3>1. tops \subseteq Entries /\ tops # {}
      BY <2>2
    <3> HIDE DEF tops
    <3> QED BY <2>1, <3>1, FS_Subset
  <2>4. Max(tops) \in tops /\ \A y \in tops : Max(tops) >= y
    <3> HIDE DEF tops
    <3> QED BY <2>3, MaxIsMax
  <2>5. PICK g \in H : Max(tops) = Max(g.entries)
    BY <2>4
  <2>6. ASSUME NEW h \in H, h # g
        PROVE  Newer(g, h)
    <3>1. Max(g.entries) >= Max(h.entries)
      <4>1. Max(h.entries) \in tops
        OBVIOUS
      <4> HIDE DEF tops
      <4> QED BY <2>4, <2>5, <4>1
    <3>2. \/ \A e \in g.entries, d \in h.entries : e > d
          \/ \A e \in g.entries, d \in h.entries : e < d
      BY <1>1, <1>3, <2>6 DEF OrderInv, Stacked0
    <3>3. Max(g.entries) > Max(h.entries) \/ Max(g.entries) < Max(h.entries)
      BY <2>2, <3>2
    <3> QED BY <2>2, <3>1, <3>3 DEF Newer
  <2> QED BY <2>6
<1> QED BY <1>2, <1>3

\* What is found first, level by level and newest file first, is the newest of all.
LEMMA LookupFilesIs ==
    ASSUME TypeInv, OrderInv, KeysApart, NoOverlap, NEW k \in Keys, NEW s \in Nat
    PROVE  LookupFiles(k, s) = IF Entry(Stored, k, s) = {} THEN {}
                               ELSE {Max(Entry(Stored, k, s))}
<1> DEFINE found == {n \in Levels : Hits(n, k, s) # {}}
           hits(n) == {f \in levels[n] : Entry(f.entries, k, s) # {}}
<1>1. \A n \in Levels : Hits(n, k, s) = hits(n)
  BY HitsAre
<1>2. found = {n \in Levels : hits(n) # {}}
  <2> HIDE DEF hits
  <2> QED BY <1>1
<1>3. Stored \subseteq Entries
  BY PresentAreWritten DEF Present
<1>4. ASSUME NEW x \in Entry(Stored, k, s)
      PROVE  \E n \in found : \E g \in hits(n) : x \in Entry(g.entries, k, s)
  <2>0. PICK n \in Levels : \E g \in levels[n] : x \in g.entries
    BY <1>3, EntryIs, StoredIs
  <2>1. PICK g \in levels[n] : x \in g.entries
    BY <2>0
  <2>2. x \in Entry(g.entries, k, s)
    BY <2>1 DEF Entry
  <2>3. g \in hits(n)
    BY <2>1, <2>2
  <2>4. n \in found
    <3> HIDE DEF hits
    <3> QED BY <1>2, <2>1, <2>3
  <2> HIDE DEF hits, found
  <2> QED BY <2>2, <2>3, <2>4
<1>5. CASE found = {}
  <2>1. Entry(Stored, k, s) = {}
    BY <1>4, <1>5
  <2>2. LookupFiles(k, s) = {}
    BY <1>5 DEF LookupFiles
  <2> QED BY <2>1, <2>2
<1>6. CASE found # {}
  <2>1. PICK l : l = Min(found)
    OBVIOUS
  <2>2. l \in found /\ \A n \in found : l <= n
    <3>1. found \subseteq Nat
      BY LevelsAssumption DEF Levels
    <3> HIDE DEF found
    <3> QED BY <1>6, <2>1, <3>1, MinIsMin
  <2>3. PICK H : H = hits(l)
    OBVIOUS
  <2>4. l \in Levels /\ H # {} /\ Hits(l, k, s) = H
    <3> HIDE DEF hits
    <3> QED BY <1>1, <1>2, <2>2, <2>3
  <2>5. PICK f : f = CHOOSE g \in H : \A h \in H : h = g \/ Newer(g, h)
    OBVIOUS
  <2>6. f \in H /\ \A h \in H : h = f \/ Newer(f, h)
    <3>1. H \subseteq levels[l] /\ \A g \in H : Entry(g.entries, k, s) # {}
      BY <2>3
    <3>2. \E g \in H : \A h \in H : h = g \/ Newer(g, h)
      BY <2>4, <3>1, NewestHit
    <3> QED BY <2>5, <3>2
  <2>7. LookupFiles(k, s) = {Max(Entry(f.entries, k, s))}
    BY <1>6, <2>1, <2>4, <2>5 DEF LookupFiles
  <2>8. f \in levels[l] /\ f.entries \subseteq Entries /\ Entry(f.entries, k, s) # {}
    BY <2>3, <2>4, <2>6 DEF TypeInv, GoodLevels, GoodTable
  <2> DEFINE own == Entry(f.entries, k, s)
             all == Entry(Stored, k, s)
             m == Max(own)
  <2>9. /\ own \subseteq Int /\ IsFiniteSet(own)
        /\ \A e : e \in own <=> e \in f.entries /\ UserKey(e) = k /\ e <= s
    BY <2>8, EntryIs
  <2>10. /\ all \subseteq Int /\ IsFiniteSet(all)
         /\ \A e : e \in all <=> e \in Stored /\ UserKey(e) = k /\ e <= s
    BY <1>3, EntryIs
  <2>11. m \in own /\ m \in Int /\ \A y \in own : m >= y
    <3> HIDE DEF own
    <3> QED BY <2>8, <2>9, MaxIsMax DEF own
  <2> HIDE DEF m
  <2>12. m \in f.entries /\ UserKey(m) = k /\ m \in all
    <3>1. f.entries \subseteq Stored
      BY <2>4, <2>8 DEF Stored
    <3> HIDE DEF own, all
    <3> QED BY <2>9, <2>10, <2>11, <3>1
  <2>13. ASSUME NEW x \in all
         PROVE  x <= m
    <3>0. PICK n \in found : \E g \in hits(n) : x \in Entry(g.entries, k, s)
      BY <1>4
    <3>1. PICK g \in hits(n) : x \in Entry(g.entries, k, s)
      BY <3>0
    <3>2. n \in Levels /\ g \in levels[n] /\ x \in g.entries /\ UserKey(x) = k
      BY <3>1 DEF Entry
    <3>3. x \in Int /\ n \in Nat /\ l \in Nat /\ l <= n
      BY <2>2, <2>4, <2>10, <2>13, <3>1, <3>2, LevelsAssumption DEF Levels
    <3>4. CASE g = f
      <4>1. x \in own
        BY <3>1, <3>4
      <4>2. m >= x
        BY <2>11, <4>1
      <4> QED BY <2>11, <3>3, <4>2
    <3>5. CASE g # f
      <4>1. l < n \/ (l = n /\ Newer(f, g))
        <5>1. CASE l = n
          BY <2>3, <2>6, <3>1, <3>5, <5>1
        <5> QED BY <3>3, <5>1
      <4>2. l = n => l = 0
        <5> SUFFICES ASSUME l = n, l # 0 PROVE FALSE
          OBVIOUS
        <5>1. Apart(f, g)
          BY <2>4, <2>8, <3>2, <3>5 DEF KeysApart
        <5> QED BY <2>12, <3>2, <5>1 DEF Apart
      <4>3. l < n \/ (l = 0 /\ n = 0 /\ Newer(f, g))
        BY <4>1, <4>2
      <4>4. m > x
        BY <2>4, <2>8, <2>12, <3>2, <4>3, OrderMeansNewerAbove DEF NewerAbove
      <4> QED BY <2>11, <3>3, <4>4
    <3> QED BY <3>4, <3>5
  <2>14. Max(all) = m /\ all # {}
    <3> HIDE DEF all
    <3> QED BY <2>10, <2>12, <2>13, MaxEquals
  <2> QED BY <2>7, <2>14 DEF m
<1> QED BY <1>5, <1>6

\* When the entries of some places are newer than all the others, the newest is there.
LEMMA MaxIsAbove ==
    ASSUME NEW V, V \subseteq Int, IsFiniteSet(V), NEW A, A \subseteq V, A # {},
           \A x \in V \ A : \A y \in A : y > x
    PROVE  Max(V) = Max(A)
<1>1. A \subseteq Int /\ IsFiniteSet(A)
  BY FS_Subset
<1>2. Max(A) \in A /\ \A y \in A : Max(A) >= y
  BY <1>1, MaxIsMax
<1>3. PICK m : m = Max(A)
  OBVIOUS
<1>4. m \in A /\ m \in V /\ m \in Int /\ \A y \in A : m >= y
  BY <1>1, <1>2, <1>3
<1>5. ASSUME NEW x \in V
      PROVE  x <= m
  <2>1. m >= x \/ m > x
    BY <1>4
  <2> QED BY <1>4, <2>1
<1> QED BY <1>3, <1>4, <1>5, MaxEquals

\* A Get finds the newest entry that it may see, wherever it is.
LEMMA LookupIs ==
    ASSUME TypeInv, OrderInv, KeysApart, NoOverlap, NEW k \in Keys, NEW s \in Nat
    PROVE  Lookup(k, s) = IF Visible(k, s) = {} THEN {} ELSE {Max(Visible(k, s))}
<1> DEFINE V == Visible(k, s)
           M == Entry(mem_, k, s)
           I == Entry(imm_, k, s)
           F == Entry(Stored, k, s)
<1>1. V = M \cup I \cup F
  BY DEF Visible, Entry, Present
<1>2. V \subseteq Int /\ IsFiniteSet(V)
  BY PresentAreWritten, EntryIs DEF Visible
<1>3. M \subseteq mem_ /\ I \subseteq imm_ /\ F \subseteq Stored
  BY DEF Entry
<1>4. \A e \in mem_ : \A d \in imm_ \cup Stored : e > d
  BY StoredIs DEF OrderInv, MemNewest
<1>5. \A e \in imm_ : \A d \in Stored : e > d
  BY StoredIs DEF OrderInv, MemNewest
<1>6. Lookup(k, s) = IF M # {} THEN {Max(M)} ELSE IF I # {} THEN {Max(I)}
                     ELSE LookupFiles(k, s)
  BY DEF Lookup
<1>7. LookupFiles(k, s) = IF F = {} THEN {} ELSE {Max(F)}
  BY LookupFilesIs
<1> HIDE DEF V, M, I, F
<1>8. CASE M # {}
  <2>1. M \subseteq V /\ \A x \in V \ M : \A y \in M : y > x
    BY <1>1, <1>3, <1>4
  <2>2. Max(V) = Max(M)
    BY <1>2, <1>8, <2>1, MaxIsAbove
  <2>3. Lookup(k, s) = IF V = {} THEN {} ELSE {Max(V)}
    BY <1>1, <1>6, <1>8, <2>2
  <2> QED BY <2>3 DEF V
<1>9. CASE M = {} /\ I # {}
  <2>1. I \subseteq V /\ \A x \in V \ I : \A y \in I : y > x
    BY <1>1, <1>3, <1>5, <1>9
  <2>2. Max(V) = Max(I)
    BY <1>2, <1>9, <2>1, MaxIsAbove
  <2>3. Lookup(k, s) = IF V = {} THEN {} ELSE {Max(V)}
    BY <1>1, <1>6, <1>9, <2>2
  <2> QED BY <2>3 DEF V
<1>10. CASE M = {} /\ I = {}
  <2>1. V = F
    BY <1>1, <1>10
  <2>2. Lookup(k, s) = IF V = {} THEN {} ELSE {Max(V)}
    BY <1>6, <1>7, <1>10, <2>1
  <2> QED BY <2>2 DEF V
<1> QED BY <1>8, <1>9, <1>10

LEMMA GetIsIterate ==
    ASSUME TypeInv, OrderInv, KeysApart, NoOverlap, NEW k \in Keys, NEW s \in Nat
    PROVE  Get(k, s) = Iterate(k, s)
<1> DEFINE V == Visible(k, s)
           live == {e \in Lookup(k, s) : ~IsDeletion(e)}
<1>1. Lookup(k, s) = IF V = {} THEN {} ELSE {Max(V)}
  BY LookupIs
<1>2. Iterate(k, s) = IF V = {} \/ IsDeletion(Max(V)) THEN 0 ELSE Max(V)
  BY DEF Iterate, Visible, Present, Stored
<1>3. V \subseteq Entries /\ V \subseteq Int /\ IsFiniteSet(V)
  BY PresentAreWritten, EntryIs DEF Visible
<1>4. Get(k, s) = Max({0} \cup live)
  BY DEF Get
<1> HIDE DEF V
<1>5. CASE V = {} \/ IsDeletion(Max(V))
  <2>1. live = {}
    BY <1>1, <1>5
  <2>2. Max({0} \cup live) = 0
    <3>1. {0} \subseteq Int /\ 0 \in {0} /\ \A x \in {0} : x <= 0
      OBVIOUS
    <3>2. IsFiniteSet({0})
      BY FS_Singleton
    <3>3. Max({0}) = 0
      BY <3>1, <3>2, MaxEquals
    <3> QED BY <2>1, <3>3
  <2> QED BY <1>2, <1>4, <1>5, <2>2
<1>6. CASE ~(V = {} \/ IsDeletion(Max(V)))
  <2>1. PICK m : m = Max(V)
    OBVIOUS
  <2>2. live = {m}
    BY <1>1, <1>6, <2>1
  <2>3. m \in V
    BY <1>3, <1>6, <2>1, MaxIsMax
  <2>4. m \in Nat /\ m > 0
    BY <1>3, <2>3, EntriesType DEF TypeInv
  <2>5. Max({0, m}) = m
    <3>1. {0, m} \subseteq Int /\ m \in {0, m} /\ \A x \in {0, m} : x <= m
      BY <2>4
    <3>2. IsFiniteSet({0, m})
      <4>1. IsFiniteSet(0..m) /\ {0, m} \subseteq 0..m
        BY <2>4, FS_Interval
      <4> QED BY <4>1, FS_Subset
    <3> QED BY <3>1, <3>2, MaxEquals
  <2>6. {0} \cup live = {0, m}
    BY <2>2
  <2>7. Get(k, s) = m
    BY <1>4, <2>5, <2>6
  <2> QED BY <1>2, <1>6, <2>1, <2>7
<1> QED BY <1>5, <1>6

LEMMA GetIsWritten ==
    ASSUME TypeInv, OrderInv, Retained, KeysApart, NoOverlap,
           NEW k \in Keys, NEW s \in LiveSequences
    PROVE  Get(k, s) = Written(k, s)
<1>1. s \in Nat
  <2>1. Len(log) \in Nat
    BY EntriesType DEF TypeInv
  <2> QED BY <2>1, LiveAreWritten
<1> QED BY <1>1, GetIsIterate, IterateIsWritten

\* An iterator and a Get show, now and at every snapshot, what was written last, whatever
\* compactions have dropped and moved: as long as no two files of a sorted level share a
\* user key or overlap.
THEOREM ReadsAreRight == Spec /\ []KeysApart /\ []NoOverlap => []ReadsRight
<1>1. Spec => []TypeInv
  BY TypeInvInit, TypeInvNext, PTL DEF Spec
<1>2. Spec /\ []KeysApart => []OrderInv
  BY <1>1, OrderInvInit, OrderInvNext, PTL DEF Spec
<1>3. TypeInv /\ OrderInv /\ DataInv /\ [Next]_vars => DataInv'
  BY DataNext
<1>4. Spec /\ []KeysApart => []DataInv
  BY <1>1, <1>2, <1>3, DataInit, PTL DEF Spec
<1>5. TypeInv /\ OrderInv /\ DataInv /\ KeysApart /\ NoOverlap => ReadsRight
  BY GetIsWritten, IterateIsWritten DEF ReadsRight, DataInv
<1> QED BY <1>1, <1>2, <1>4, <1>5, PTL

\* With no snapshot and no manual compaction both conditions hold.
THEOREM ReadsAreRightWithoutSnapshots ==
    ASSUME Snapshots = {}, ManualLevels = {}
    PROVE  Spec => []ReadsRight
BY KeysStayApart, FilesDoNotOverlap, ReadsAreRight, PTL
-----------------------------------------------------------------------------
(***************************************************************************)
(* The store implements a map with snapshots.                              *)
(***************************************************************************)
\* Written, of any log.
WrittenIn(L, k, s) ==
    LET w == {e \in 1..s : L[e].key = k}
    IN  IF w = {} \/ L[Max(w)].del THEN 0 ELSE Max(w)

\* The map and its copies, as reads show them and as they have been written.
Store  == [k \in Keys |-> Get(k, Len(log))]
Copies == [h \in Snapshots |-> IF snapshots_[h] = None THEN None
                               ELSE [k \in Keys |-> Get(k, snapshots_[h])]]

WrittenStore  == [k \in Keys |-> WrittenIn(log, k, Len(log))]
WrittenCopies == [h \in Snapshots |-> IF snapshots_[h] = None THEN None
                               ELSE [k \in Keys |-> WrittenIn(log, k, snapshots_[h])]]

ReadInv == TypeInv /\ OrderInv /\ DataInv /\ KeysApart /\ NoOverlap

LEMMA ShowsWhatWasWritten == ReadInv => Store = WrittenStore /\ Copies = WrittenCopies
<1> SUFFICES ASSUME ReadInv PROVE Store = WrittenStore /\ Copies = WrittenCopies
  OBVIOUS
<1>1. ASSUME NEW k \in Keys, NEW s \in LiveSequences
      PROVE  Get(k, s) = WrittenIn(log, k, s)
  <2>1. Get(k, s) = Written(k, s)
    BY GetIsWritten DEF ReadInv, DataInv
  <2>2. Written(k, s) = WrittenIn(log, k, s)
    BY DEF Written, WrittenIn, UserKey, IsDeletion
  <2> QED BY <2>1, <2>2
<1>2. Store = WrittenStore
  BY <1>1 DEF Store, WrittenStore, LiveSequences
<1>3. \A h \in Snapshots : snapshots_[h] # None => snapshots_[h] \in LiveSequences
  BY DEF LiveSequences
<1>4. Copies = WrittenCopies
  BY <1>1, <1>3 DEF Copies, WrittenCopies
<1> QED BY <1>2, <1>4

\* What the first s entries say does not depend on those after them.
LEMMA WrittenStays ==
    ASSUME NEW L, NEW M, NEW k, NEW s \in Nat, \A e \in 1..s : L[e] = M[e]
    PROVE  WrittenIn(L, k, s) = WrittenIn(M, k, s)
<1> DEFINE w == {e \in 1..s : L[e].key = k}
           v == {e \in 1..s : M[e].key = k}
<1>1. w = v /\ w \subseteq 1..s
  OBVIOUS
<1>2. w \subseteq Int /\ IsFiniteSet(w)
  <2>1. IsFiniteSet(1..s) /\ 1..s \subseteq Int
    BY FS_Interval
  <2> HIDE DEF w
  <2> QED BY <1>1, <2>1, FS_Subset
<1>3. /\ WrittenIn(L, k, s) = IF w = {} \/ L[Max(w)].del THEN 0 ELSE Max(w)
      /\ WrittenIn(M, k, s) = IF v = {} \/ M[Max(v)].del THEN 0 ELSE Max(v)
  BY DEF WrittenIn
<1> HIDE DEF w, v
<1>4. w # {} => Max(w) \in 1..s
  BY <1>1, <1>2, MaxIsMax
<1> QED BY <1>1, <1>3, <1>4

\* What a new entry changes.
LEMMA WrittenNext ==
    ASSUME NEW L, NEW s \in Nat, NEW j
    PROVE  WrittenIn(L, j, s + 1) = IF L[s + 1].key # j THEN WrittenIn(L, j, s)
                                    ELSE IF L[s + 1].del THEN 0 ELSE s + 1
<1> DEFINE w == {e \in 1..s : L[e].key = j}
           v == {e \in 1..s + 1 : L[e].key = j}
<1>1. /\ WrittenIn(L, j, s) = IF w = {} \/ L[Max(w)].del THEN 0 ELSE Max(w)
      /\ WrittenIn(L, j, s + 1) = IF v = {} \/ L[Max(v)].del THEN 0 ELSE Max(v)
  BY DEF WrittenIn
<1>2. CASE L[s + 1].key # j
  <2>1. v = w
    BY <1>2
  <2> HIDE DEF w, v
  <2> QED BY <1>1, <1>2, <2>1
<1>3. CASE L[s + 1].key = j
  <2>1. s + 1 \in v /\ v \subseteq 1..s + 1
    BY <1>3
  <2>2. IsFiniteSet(1..s + 1) /\ 1..s + 1 \subseteq Int /\ \A x \in 1..s + 1 : x <= s + 1
    BY FS_Interval
  <2> HIDE DEF w, v
  <2>3. v \subseteq Int /\ IsFiniteSet(v) /\ \A x \in v : x <= s + 1
    BY <2>1, <2>2, FS_Subset
  <2>4. Max(v) = s + 1
    BY <2>1, <2>3, MaxEquals
  <2> QED BY <1>1, <1>3, <2>1, <2>4
<1> QED BY <1>2, <1>3

\* A step of the map, in what has been written.
LEMMA WriteWrites ==
    ASSUME TypeInv, NEW k \in Keys, NEW d \in Deletions, Write(k, d)
    PROVE  /\ Len(log)' = Len(log) + 1
           /\ WrittenStore' = [WrittenStore EXCEPT ![k] = IF d THEN 0 ELSE Len(log) + 1]
           /\ WrittenCopies' = WrittenCopies
<1> DEFINE r == [key |-> k, del |-> d]
<1>1. r \in [key : Keys, del : BOOLEAN] /\ log' = Append(log, r) /\ snapshots_' = snapshots_
  BY DeletionsAssumption DEF Write
<1>2. /\ Len(log') = Len(log) + 1
      /\ \A e \in Entries : log'[e] = log[e]
      /\ log'[Len(log) + 1] = r
  BY <1>1, LogGrows DEF TypeInv
<1>3. Len(log) \in Nat
  BY EntriesType DEF TypeInv
<1>4. ASSUME NEW j, NEW s \in 0..Len(log)
      PROVE  WrittenIn(log', j, s) = WrittenIn(log, j, s)
  <2>1. s \in Nat /\ \A e \in 1..s : log'[e] = log[e]
    BY <1>2, <1>3 DEF Entries
  <2> QED BY <2>1, WrittenStays
<1>5. ASSUME NEW j \in Keys
      PROVE  WrittenIn(log', j, Len(log'))
             = IF j = k THEN IF d THEN 0 ELSE Len(log) + 1 ELSE WrittenIn(log, j, Len(log))
  <2>1. WrittenIn(log', j, Len(log) + 1)
        = IF k # j THEN WrittenIn(log', j, Len(log)) ELSE IF d THEN 0 ELSE Len(log) + 1
    <3>1. PICK L, n : L = log' /\ n = Len(log)
      OBVIOUS
    <3>2. n \in Nat /\ L[n + 1] = r /\ r.key = k /\ r.del = d
      BY <1>2, <1>3, <3>1
    <3>3. WrittenIn(L, j, n + 1) = IF L[n + 1].key # j THEN WrittenIn(L, j, n)
                                   ELSE IF L[n + 1].del THEN 0 ELSE n + 1
      BY <3>2, WrittenNext
    <3> QED BY <3>1, <3>2, <3>3
  <2>2. WrittenIn(log', j, Len(log)) = WrittenIn(log, j, Len(log))
    BY <1>3, <1>4
  <2> QED BY <1>2, <2>1, <2>2
<1>6. WrittenStore' = [WrittenStore EXCEPT ![k] = IF d THEN 0 ELSE Len(log) + 1]
  BY <1>5 DEF WrittenStore
<1>7. \A h \in Snapshots : snapshots_[h] # None => snapshots_[h] \in 0..Len(log)
  BY DEF TypeInv, GoodSnapshots
<1>8. WrittenCopies' = WrittenCopies
  BY <1>1, <1>4, <1>7 DEF WrittenCopies
<1> QED BY <1>2, <1>6, <1>8

LEMMA StepIsStepOfMap ==
    ASSUME ReadInv, ReadInv', [Next]_vars
    PROVE  [KV!Next]_(KV!vars)
<1>1. Store = WrittenStore /\ Copies = WrittenCopies
  BY ShowsWhatWasWritten
<1>2. (Store = WrittenStore /\ Copies = WrittenCopies)'
  BY ShowsWhatWasWritten, PTL
<1>3. ASSUME Len(log)' = Len(log), Store' = Store, Copies' = Copies
      PROVE  UNCHANGED KV!vars
  BY <1>3 DEF KV!vars, Store, Copies
<1>4. ASSUME UNCHANGED <<log, snapshots_>>
      PROVE  UNCHANGED KV!vars
  BY <1>1, <1>2, <1>3, <1>4 DEF WrittenStore, WrittenCopies
<1>5. ASSUME NEW k \in Keys, NEW d \in Deletions, Write(k, d)
      PROVE  KV!Next
  <2>1. /\ Len(log)' = Len(log) + 1
        /\ Store' = [Store EXCEPT ![k] = IF d THEN 0 ELSE Len(log) + 1]
        /\ Copies' = Copies
    BY <1>1, <1>2, <1>5, WriteWrites DEF ReadInv
  <2>2. CASE d = TRUE
    <3>1. KV!Delete(k)
      BY <2>1, <2>2 DEF KV!Delete, Store, Copies
    <3> QED BY <3>1 DEF KV!Next
  <2>3. CASE d = FALSE
    <3>1. KV!Put(k)
      BY <2>1, <2>3 DEF KV!Put, Store, Copies
    <3> QED BY <3>1 DEF KV!Next
  <2> QED BY <2>2, <2>3, DeletionsAssumption
<1>6. ASSUME NEW h \in Snapshots, GetSnapshot(h)
      PROVE  [KV!Next]_(KV!vars)
  <2>1. /\ UNCHANGED log /\ snapshots_[h] = None
        /\ snapshots_' = [snapshots_ EXCEPT ![h] = Len(log)]
        /\ snapshots_ = [g \in Snapshots |-> snapshots_[g]]
    BY <1>6 DEF GetSnapshot, ReadInv, TypeInv, GoodSnapshots
  <2>2. Store' = Store
    BY <1>1, <1>2, <2>1 DEF WrittenStore
  <2>3. CASE Len(log) # None
    <3>1. /\ WrittenCopies[h] = None
          /\ WrittenCopies' = [WrittenCopies EXCEPT ![h] = WrittenStore]
      BY <2>1, <2>3 DEF WrittenCopies, WrittenStore
    <3>2. KV!GetSnapshot(h)
      BY <1>1, <1>2, <2>1, <2>2, <3>1 DEF KV!GetSnapshot, Store, Copies
    <3> QED BY <3>2 DEF KV!Next
  <2>4. CASE Len(log) = None
    <3>1. snapshots_' = snapshots_
      BY <2>1, <2>4
    <3> QED BY <1>4, <2>1, <3>1
  <2> QED BY <2>3, <2>4
<1>7. ASSUME NEW h \in Snapshots, ReleaseSnapshot(h)
      PROVE  [KV!Next]_(KV!vars)
  <2>1. /\ UNCHANGED log /\ snapshots_[h] # None
        /\ snapshots_' = [snapshots_ EXCEPT ![h] = None]
        /\ snapshots_ = [g \in Snapshots |-> snapshots_[g]]
    BY <1>7 DEF ReleaseSnapshot, ReadInv, TypeInv, GoodSnapshots
  <2>2. Store' = Store
    BY <1>1, <1>2, <2>1 DEF WrittenStore
  <2>3. WrittenCopies' = [WrittenCopies EXCEPT ![h] = None]
    BY <2>1 DEF WrittenCopies
  <2>4. CASE WrittenCopies[h] # None
    <3>1. KV!ReleaseSnapshot(h)
      BY <1>1, <1>2, <2>1, <2>2, <2>3, <2>4 DEF KV!ReleaseSnapshot, Store, Copies
    <3> QED BY <3>1 DEF KV!Next
  <2>5. CASE WrittenCopies[h] = None
    <3>1. WrittenCopies' = WrittenCopies
      BY <2>3, <2>5 DEF WrittenCopies
    <3> QED BY <1>1, <1>2, <1>3, <2>1, <2>2, <3>1
  <2> QED BY <2>4, <2>5
<1>8. CASE Client
  <2>1. CASE SwitchMemTable
    BY <1>4, <2>1 DEF SwitchMemTable
  <2> QED BY <1>5, <1>6, <1>7, <1>8, <2>1 DEF Client
<1>9. CASE Background
  <2>1. UNCHANGED <<log, snapshots_>>
    BY <1>9 DEF Background, CompactMemTable, AutoCompaction, ManualCompaction,
                InstallCompactionResults, TrivialMove, StartWork
  <2> QED BY <1>4, <2>1
<1>10. CASE UNCHANGED vars
  BY <1>4, <1>10 DEF vars
<1> QED BY <1>8, <1>9, <1>10 DEF Next

LEMMA StartIsStartOfMap == Init => ReadInv /\ KV!Init
<1> SUFFICES ASSUME Init PROVE ReadInv /\ KV!Init
  OBVIOUS
<1>1. KeysApart /\ NoOverlap
  BY DEF Init, KeysApart, NoOverlap
<1>2. ReadInv
  BY <1>1, TypeInvInit, OrderInvInit, DataInit DEF ReadInv
<1>3. Store = WrittenStore /\ Copies = WrittenCopies
  BY <1>2, ShowsWhatWasWritten
<1>4. Len(log) = 0 /\ \A h \in Snapshots : snapshots_[h] = None
  BY DEF Init
<1>5. \A k \in Keys : WrittenIn(log, k, 0) = 0
  BY DEF WrittenIn
<1>6. /\ Store = [k \in Keys |-> 0]
      /\ Copies = [h \in Snapshots |-> None]
  BY <1>3, <1>4, <1>5 DEF WrittenStore, WrittenCopies
<1>7. KV!Init
  BY <1>4, <1>6 DEF KV!Init, Store, Copies
<1> QED BY <1>2, <1>7

\* The store implements the map with snapshots of db.h, step by step: a write changes one
\* key, a snapshot copies the map, and nothing the background thread does shows.
THEOREM StoreIsAMap == Spec /\ []KeysApart /\ []NoOverlap => ReadsLikeAMap
<1>1. Spec => []TypeInv
  BY TypeInvInit, TypeInvNext, PTL DEF Spec
<1>2. Spec /\ []KeysApart => []OrderInv
  BY <1>1, OrderInvInit, OrderInvNext, PTL DEF Spec
<1>3. TypeInv /\ OrderInv /\ DataInv /\ [Next]_vars => DataInv'
  BY DataNext
<1>4. Spec /\ []KeysApart => []DataInv
  BY <1>1, <1>2, <1>3, DataInit, PTL DEF Spec
<1>5. TypeInv /\ OrderInv /\ DataInv /\ KeysApart /\ NoOverlap => ReadInv
  BY DEF ReadInv
<1>6. Spec /\ []KeysApart /\ []NoOverlap => []ReadInv
  BY <1>1, <1>2, <1>4, <1>5, PTL
<1>7. ReadInv /\ ReadInv' /\ [Next]_vars => [KV!Next]_(KV!vars)
  BY StepIsStepOfMap
<1>8. Init => KV!Init
  BY StartIsStartOfMap
<1> QED BY <1>6, <1>7, <1>8, PTL DEF Spec, ReadsLikeAMap, KV!Spec

\* It does where no snapshot is taken and no range is compacted by hand.
THEOREM StoreIsAMapWithoutSnapshots ==
    ASSUME Snapshots = {}, ManualLevels = {}
    PROVE  Spec => ReadsLikeAMap
BY KeysStayApart, FilesDoNotOverlap, StoreIsAMap, PTL
=============================================================================
