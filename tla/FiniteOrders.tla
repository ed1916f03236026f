----------------------------- MODULE FiniteOrders -----------------------------
(***************************************************************************)
(* Facts about finite sets that the proofs about several components need.  *)
(***************************************************************************)
EXTENDS Integers, FiniteSets, FiniteSetsExt, FiniteSetTheorems, WellFoundedInduction, TLAPS

\* A set of finite sets has a minimal member.
LEMMA MinimalSet ==
    ASSUME NEW E, IsFiniteSet(E), NEW B, B \subseteq SUBSET E, B # {}
    PROVE  \E T \in B : \A U \in SUBSET T : U # T => U \notin B
<1>1. IsWellFoundedOn(StrictSubsetOrdering(E), FiniteSubsetsOf(E))
  BY FS_StrictSubsetOrderingWellFounded
<1>2. B \subseteq FiniteSubsetsOf(E)
  BY FS_Subset DEF FiniteSubsetsOf
<1>3. PICK T \in B : \A U \in B : ~(<<U, T>> \in StrictSubsetOrdering(E))
  BY <1>1, <1>2, WFMin
<1>4. ASSUME NEW U \in SUBSET T, U # T
      PROVE  U \notin B
  BY <1>3, <1>4 DEF StrictSubsetOrdering
<1> QED BY <1>4

\* A finite set that is not empty has a minimal element, for any strict order R on it:
\* strict inclusion is well founded on finite sets.
LEMMA MinimalExists ==
    ASSUME NEW S, IsFiniteSet(S), S # {}, NEW R,
           \A x \in S : <<x, x>> \notin R,
           \A x, y, z \in S : <<x, y>> \in R /\ <<y, z>> \in R => <<x, z>> \in R
    PROVE  \E x \in S : \A y \in S : <<y, x>> \notin R
<1> DEFINE Below(x) == {y \in S : y = x \/ <<y, x>> \in R}
           T == {Below(x) : x \in S}
<1>1. T \subseteq FiniteSubsetsOf(S) /\ T # {}
  <2>1. ASSUME NEW x \in S
        PROVE  Below(x) \in SUBSET S /\ IsFiniteSet(Below(x))
    BY FS_Subset
  <2>2. T \subseteq FiniteSubsetsOf(S)
    <3> HIDE DEF Below
    <3> QED BY <2>1 DEF FiniteSubsetsOf
  <2>3. T # {}
    <3> PICK x \in S : TRUE
      OBVIOUS
    <3>1. Below(x) \in T
      OBVIOUS
    <3> HIDE DEF T, Below
    <3> QED BY <3>1
  <2> QED BY <2>2, <2>3
<1>2. IsWellFoundedOn(StrictSubsetOrdering(S), FiniteSubsetsOf(S))
  BY FS_StrictSubsetOrderingWellFounded
<1>3. PICK U \in T : \A V \in T : ~(<<V, U>> \in StrictSubsetOrdering(S))
  <2> HIDE DEF T
  <2> QED BY <1>1, <1>2, WFMin
<1>4. PICK x \in S : U = Below(x)
  BY <1>3
<1>5. ASSUME NEW y \in S, <<y, x>> \in R
      PROVE  FALSE
  <2>1. x \notin Below(y)
    BY <1>5
  <2>2. Below(y) \subseteq Below(x) /\ x \in Below(x)
    BY <1>5
  <2>3. <<Below(y), Below(x)>> \in StrictSubsetOrdering(S)
    <3>1. Below(y) \in SUBSET S /\ Below(x) \in SUBSET S /\ Below(y) # Below(x)
      BY <2>1, <2>2
    <3> HIDE DEF Below
    <3> QED BY <2>2, <3>1 DEF StrictSubsetOrdering
  <2> QED BY <1>3, <1>4, <2>3
<1> QED BY <1>5

\* Max and Min of FiniteSetsExt choose what their names say.
LEMMA MaxIsMax ==
    ASSUME NEW S, S \subseteq Int, IsFiniteSet(S), S # {}
    PROVE  Max(S) \in S /\ \A y \in S : Max(S) >= y
<1> DEFINE R == {r \in S \X S : r[1] > r[2]}
<1>1. \A x \in S : <<x, x>> \notin R
  OBVIOUS
<1>2. \A x, y, z \in S : <<x, y>> \in R /\ <<y, z>> \in R => <<x, z>> \in R
  OBVIOUS
<1>3. PICK x \in S : \A y \in S : <<y, x>> \notin R
  <2> HIDE DEF R
  <2> QED BY <1>1, <1>2, MinimalExists
<1>4. ASSUME NEW y \in S
      PROVE  x >= y
  <2>1. <<y, x>> \in S \X S /\ ~(y > x)
    BY <1>3
  <2> QED BY <2>1
<1>5. \E m \in S : \A y \in S : m >= y
  BY <1>4
<1> QED BY <1>5, Zenon DEF Max

LEMMA MinIsMin ==
    ASSUME NEW S, S \subseteq Nat, S # {}
    PROVE  Min(S) \in S /\ \A y \in S : Min(S) <= y
<1>1. PICK a : a \in S /\ a \in Nat
  OBVIOUS
<1> DEFINE T == {x \in S : x <= a}
           R == {r \in T \X T : r[1] < r[2]}
<1>2. T \subseteq Nat /\ a \in T
  <2>1. a <= a
    BY <1>1
  <2> QED BY <1>1, <2>1
<1>3. IsFiniteSet(T)
  <2>1. T \subseteq 0..a
    <3>1. \A x \in T : x \in Nat /\ x <= a
      OBVIOUS
    <3> HIDE DEF T
    <3> QED BY <1>1, <3>1
  <2>2. IsFiniteSet(0..a)
    BY <1>1, FS_Interval
  <2> HIDE DEF T
  <2> QED BY <2>1, <2>2, FS_Subset
<1>4. \A x \in T : <<x, x>> \notin R
  BY <1>2
<1>5. \A x, y, z \in T : <<x, y>> \in R /\ <<y, z>> \in R => <<x, z>> \in R
  <2> HIDE DEF T
  <2> QED BY <1>2
<1>6. PICK x \in T : \A y \in T : <<y, x>> \notin R
  <2> HIDE DEF R, T
  <2> QED BY <1>2, <1>3, <1>4, <1>5, MinimalExists
<1>7. ASSUME NEW y \in S
      PROVE  x =< y
  <2>1. CASE y \in T
    <3>1. <<y, x>> \in T \X T /\ ~(y < x)
      BY <1>6, <2>1
    <3> QED BY <3>1, <1>2
  <2>2. CASE y \notin T
    BY <1>2, <1>1, <2>2
  <2> QED BY <2>1, <2>2
<1>8. \E m \in S : \A y \in S : m =< y
  BY <1>7
<1> QED BY <1>8 DEF Min

\* The image of a finite set under a function is finite.
LEMMA ImageIsFinite ==
    ASSUME NEW S, IsFiniteSet(S), NEW f
    PROVE  IsFiniteSet({f[x] : x \in S})
<1> DEFINE T == {f[x] : x \in S}
           g == [x \in S |-> f[x]]
<1>1. g \in Surjection(S, T)
  BY DEF Surjection
<1> QED BY <1>1, FS_Surjection

LEMMA MaxEquals ==
    ASSUME NEW S, S \subseteq Int, IsFiniteSet(S), NEW m \in S, \A x \in S : x <= m
    PROVE  Max(S) = m
<1>1. Max(S) \in S /\ Max(S) >= m
  BY MaxIsMax
<1>2. Max(S) \in Int /\ m \in Int /\ Max(S) <= m
  BY <1>1
<1> QED BY <1>1, <1>2

-----------------------------------------------------------------------------
(***************************************************************************)
(* Sums over finite sets.  The folds of the community modules are such     *)
(* recursive functions on the subsets of their argument, which take an     *)
(* element that CHOOSE picks.                                              *)
(***************************************************************************)
Picked(s) == CHOOSE x \in s : TRUE
IsSum(v, E, f) ==
    f = [s \in SUBSET E |-> IF s = {} THEN 0 ELSE v[Picked(s)] + f[s \ {Picked(s)}]]
Sum(v, E) == CHOOSE f : IsSum(v, E, f)
Total(v, E) == Sum(v, E)[E]

LEMMA PickedIn == ASSUME NEW s, s # {} PROVE Picked(s) \in s
BY DEF Picked

LEMMA SumAt ==
    ASSUME NEW v, NEW E, NEW f, IsSum(v, E, f), NEW s \in SUBSET E
    PROVE  f[s] = IF s = {} THEN 0 ELSE v[Picked(s)] + f[s \ {Picked(s)}]
BY Zenon DEF IsSum

\* Two such functions agree where both are defined.
LEMMA SumsAgree ==
    ASSUME NEW v, NEW A, NEW B, IsFiniteSet(A), NEW f, NEW g, IsSum(v, A, f), IsSum(v, B, g),
           NEW s \in SUBSET A, s \in SUBSET B
    PROVE  f[s] = g[s]
<1>0. ASSUME NEW r
      PROVE  /\ r \in SUBSET A => f[r] = IF r = {} THEN 0 ELSE v[Picked(r)] + f[r \ {Picked(r)}]
             /\ r \in SUBSET B => g[r] = IF r = {} THEN 0 ELSE v[Picked(r)] + g[r \ {Picked(r)}]
  <2>1. ASSUME r \in SUBSET A
        PROVE  f[r] = IF r = {} THEN 0 ELSE v[Picked(r)] + f[r \ {Picked(r)}]
    BY <2>1, Zenon DEF IsSum
  <2>2. ASSUME r \in SUBSET B
        PROVE  g[r] = IF r = {} THEN 0 ELSE v[Picked(r)] + g[r \ {Picked(r)}]
    BY <2>2, Zenon DEF IsSum
  <2> QED BY <2>1, <2>2
<1> DEFINE D == {t \in SUBSET A : t \in SUBSET B /\ f[t] # g[t]}
<1> SUFFICES ASSUME D # {} PROVE FALSE
  OBVIOUS
<1>1. PICK t \in D : \A u \in SUBSET t : u # t => u \notin D
  <2>1. D \subseteq SUBSET A
    OBVIOUS
  <2> HIDE DEF D
  <2> QED BY <2>1, MinimalSet
<1>2. t \in SUBSET A /\ t \in SUBSET B /\ f[t] # g[t]
  BY <1>1
<1>3. t # {}
  BY <1>0, <1>2
<1> DEFINE u == t \ {Picked(t)}
<1>4. u \in SUBSET t /\ u # t
  BY <1>3, PickedIn
<1>5. f[u] = g[u]
  BY <1>1, <1>2, <1>4
<1>6. f[t] = v[Picked(t)] + f[u] /\ g[t] = v[Picked(t)] + g[u]
  BY <1>0, <1>2, <1>3
<1> HIDE DEF u, D
<1> QED BY <1>2, <1>5, <1>6

LEMMA SumExists ==
    ASSUME NEW v, NEW E, IsFiniteSet(E)
    PROVE  IsSum(v, E, Sum(v, E))
<1> DEFINE B == {T \in SUBSET E : ~\E f : IsSum(v, T, f)}
<1>1. SUFFICES ASSUME B # {} PROVE FALSE
  <2>1. E \notin B
    BY <1>1
  <2>2. \E f : IsSum(v, E, f)
    BY <2>1
  <2> QED BY <2>2 DEF Sum
<1>2. PICK T \in B : \A U \in SUBSET T : U # T => U \notin B
  <2>1. B \subseteq SUBSET E
    OBVIOUS
  <2> HIDE DEF B
  <2> QED BY <1>1, <2>1, MinimalSet
<1>3. T \in SUBSET E /\ IsFiniteSet(T)
  BY <1>2, FS_Subset
<1>4. ASSUME NEW U \in SUBSET T, U # T
      PROVE  IsSum(v, U, Sum(v, U))
  <2>1. U \in SUBSET E
    BY <1>3
  <2>2. \E f : IsSum(v, U, f)
    BY <1>2, <1>4, <2>1
  <2> QED BY <2>2 DEF Sum
<1> DEFINE Rest(s) == s \ {Picked(s)}
           f == [s \in SUBSET T |->
                    IF s = {} THEN 0 ELSE v[Picked(s)] + Sum(v, Rest(s))[Rest(s)]]
<1>5. ASSUME NEW s \in SUBSET T, s # {}
      PROVE  Sum(v, Rest(s))[Rest(s)] = f[Rest(s)]
  <2> DEFINE u == Rest(s)
  <2>1. u \in SUBSET T /\ u # T /\ IsFiniteSet(u)
    BY <1>3, <1>5, PickedIn, FS_Subset
  <2>2. IsSum(v, u, Sum(v, u))
    BY <1>4, <2>1
  <2>3. Sum(v, u)[u] = IF u = {} THEN 0 ELSE v[Picked(u)] + Sum(v, u)[Rest(u)]
    <3> HIDE DEF u
    <3> QED BY <2>2, SumAt
  <2>4. ASSUME u # {}
        PROVE  Sum(v, u)[Rest(u)] = Sum(v, Rest(u))[Rest(u)]
    <3>1. Rest(u) \in SUBSET u /\ Rest(u) \in SUBSET T /\ Rest(u) # T
      BY <2>1
    <3>2. IsSum(v, Rest(u), Sum(v, Rest(u)))
      BY <1>4, <3>1
    <3> HIDE DEF u, Rest
    <3> QED BY <2>1, <2>2, <3>1, <3>2, SumsAgree
  <2>5. f[u] = IF u = {} THEN 0 ELSE v[Picked(u)] + Sum(v, Rest(u))[Rest(u)]
    <3> HIDE DEF u, Rest
    <3> QED BY <2>1
  <2> HIDE DEF f
  <2> QED BY <2>3, <2>4, <2>5
<1>6. f = [s \in SUBSET T |-> IF s = {} THEN 0 ELSE v[Picked(s)] + f[Rest(s)]]
  <2>1. \A s \in SUBSET T : f[s] = IF s = {} THEN 0 ELSE v[Picked(s)] + f[Rest(s)]
    <3> SUFFICES ASSUME NEW s \in SUBSET T
                 PROVE  f[s] = IF s = {} THEN 0 ELSE v[Picked(s)] + f[Rest(s)]
      OBVIOUS
    <3>1. f[s] = IF s = {} THEN 0 ELSE v[Picked(s)] + Sum(v, Rest(s))[Rest(s)]
      OBVIOUS
    <3> HIDE DEF f
    <3> QED BY <3>1, <1>5
  <2>2. f = [s \in SUBSET T |-> f[s]]
    OBVIOUS
  <2> HIDE DEF f
  <2> QED BY <2>1, <2>2, Zenon
<1>7. IsSum(v, T, f)
  <2> HIDE DEF f
  <2> QED BY <1>6 DEF IsSum
<1> QED BY <1>2, <1>7

LEMMA TotalIs ==
    ASSUME NEW v, NEW E, IsFiniteSet(E), NEW f, IsSum(v, E, f), NEW D \in SUBSET E
    PROVE  f[D] = Total(v, D)
<1>1. IsFiniteSet(D)
  BY FS_Subset
<1>2. IsSum(v, D, Sum(v, D))
  BY <1>1, SumExists
<1> QED BY <1>1, <1>2, SumsAgree DEF Total

\* The sum of nothing, and what one element adds.
LEMMA TotalOfNone == ASSUME NEW v PROVE Total(v, {}) = 0
BY SumExists, SumAt, FS_EmptySet DEF Total

LEMMA TotalPicked ==
    ASSUME NEW v, NEW E, IsFiniteSet(E), E # {}
    PROVE  Total(v, E) = v[Picked(E)] + Total(v, E \ {Picked(E)})
<1> DEFINE u == E \ {Picked(E)}
<1>1. u \in SUBSET E /\ E \in SUBSET E
  OBVIOUS
<1>2. IsSum(v, E, Sum(v, E))
  BY SumExists
<1>3. Sum(v, E)[u] = Total(v, u)
  <2> HIDE DEF u
  <2> QED BY <1>1, <1>2, TotalIs
<1>4. Sum(v, E)[E] = v[Picked(E)] + Sum(v, E)[u]
  BY <1>1, <1>2, SumAt
<1> HIDE DEF u
<1> QED BY <1>3, <1>4 DEF Total, u

\* A finite set whose elements have numbers v.
Summable(v, E) == IsFiniteSet(E) /\ \A x \in E : v[x] \in Nat

LEMMA TotalInNat ==
    ASSUME NEW v, NEW E, Summable(v, E)
    PROVE  Total(v, E) \in Nat
<1> DEFINE B == {T \in SUBSET E : Total(v, T) \notin Nat}
<1> SUFFICES ASSUME B # {} PROVE FALSE
  OBVIOUS
<1>1. PICK T \in B : \A U \in SUBSET T : U # T => U \notin B
  <2>1. B \subseteq SUBSET E /\ IsFiniteSet(E)
    BY DEF Summable
  <2> HIDE DEF B
  <2> QED BY <2>1, MinimalSet
<1>2. T \in SUBSET E /\ IsFiniteSet(T) /\ Total(v, T) \notin Nat
  BY <1>1, FS_Subset DEF Summable
<1>3. T # {}
  BY <1>2, TotalOfNone
<1> DEFINE u == T \ {Picked(T)}
<1>4. u \in SUBSET T /\ u # T /\ u \in SUBSET E /\ Picked(T) \in E
  BY <1>2, <1>3, PickedIn
<1>5. Total(v, u) \in Nat
  BY <1>1, <1>4
<1>6. Total(v, T) = v[Picked(T)] + Total(v, u)
  BY <1>2, <1>3, TotalPicked
<1> QED BY <1>2, <1>4, <1>5, <1>6 DEF Summable

\* The order of summation does not matter.
LEMMA TotalOne ==
    ASSUME NEW v, NEW E, Summable(v, E), NEW x \in E
    PROVE  Total(v, E) = v[x] + Total(v, E \ {x})
<1> DEFINE B == {T \in SUBSET E : \E y \in T :
                     Total(v, T) # v[y] + Total(v, T \ {y})}
<1> SUFFICES ASSUME B # {} PROVE FALSE
  OBVIOUS
<1>1. PICK T \in B : \A U \in SUBSET T : U # T => U \notin B
  <2>1. B \subseteq SUBSET E /\ IsFiniteSet(E)
    BY DEF Summable
  <2> HIDE DEF B
  <2> QED BY <2>1, MinimalSet
<1>2. PICK y \in T : Total(v, T) # v[y] + Total(v, T \ {y})
  BY <1>1
<1>3. T \in SUBSET E /\ IsFiniteSet(T) /\ T # {}
  BY <1>1, <1>2, FS_Subset DEF Summable
<1> DEFINE p == Picked(T)
           rest == Total(v, (T \ {p}) \ {y})
<1>4. p \in T
  BY <1>3, PickedIn
<1>5. Total(v, T) = v[p] + Total(v, T \ {p})
  BY <1>3, TotalPicked
<1>6. p # y
  BY <1>2, <1>5
<1>7. Total(v, T \ {p}) = v[y] + rest
  <2>1. T \ {p} \in SUBSET T /\ T \ {p} # T /\ T \ {p} \in SUBSET E /\ y \in T \ {p}
    BY <1>3, <1>4, <1>6
  <2> QED BY <1>1, <2>1
<1>8. Total(v, T \ {y}) = v[p] + rest
  <2>1. T \ {y} \in SUBSET T /\ T \ {y} # T /\ T \ {y} \in SUBSET E /\ p \in T \ {y}
    BY <1>3, <1>4, <1>6
  <2>2. (T \ {y}) \ {p} = (T \ {p}) \ {y}
    OBVIOUS
  <2>3. Total(v, T \ {y}) = v[p] + Total(v, (T \ {y}) \ {p})
    BY <1>1, <2>1
  <2> QED BY <2>2, <2>3
<1>9. v[p] \in Nat /\ v[y] \in Nat /\ rest \in Nat
  <2>1. IsFiniteSet((T \ {p}) \ {y})
    BY <1>3, FS_Subset
  <2> HIDE DEF p
  <2>2. Summable(v, (T \ {p}) \ {y})
    BY <1>3, <2>1 DEF Summable
  <2> QED BY <1>3, <1>4, <2>2, TotalInNat DEF Summable
<1> HIDE DEF p, rest
<1> QED BY <1>2, <1>5, <1>7, <1>8, <1>9

\* The sum of a set is that of a part and that of the rest.
LEMMA TotalParts ==
    ASSUME NEW v, NEW E, Summable(v, E), NEW D \in SUBSET E
    PROVE  Total(v, E) = Total(v, D) + Total(v, E \ D)
<1> DEFINE B == {T \in SUBSET D : Total(v, E) # Total(v, T) + Total(v, E \ T)}
<1> SUFFICES ASSUME B # {} PROVE FALSE
  OBVIOUS
<1>1. PICK T \in B : \A U \in SUBSET T : U # T => U \notin B
  <2>1. B \subseteq SUBSET D /\ IsFiniteSet(D)
    BY FS_Subset DEF Summable
  <2> HIDE DEF B
  <2> QED BY <2>1, MinimalSet
<1>2. /\ T \in SUBSET D /\ T \in SUBSET E
      /\ Total(v, E) # Total(v, T) + Total(v, E \ T)
  BY <1>1
<1>3. \A S \in SUBSET E : Summable(v, S) /\ Total(v, S) \in Nat
  <2>1. \A S \in SUBSET E : Summable(v, S)
    BY FS_Subset DEF Summable
  <2> QED BY <2>1, TotalInNat
<1>4. T # {}
  <2>1. E \ {} = E
    OBVIOUS
  <2>2. Total(v, E) \in Nat
    BY <1>3
  <2> QED BY <1>2, <2>1, <2>2, TotalOfNone
<1>5. PICK x \in T : TRUE
  BY <1>4
<1> DEFINE U == T \ {x}
<1>6. Total(v, E) = Total(v, U) + Total(v, E \ U)
  <2>1. U \in SUBSET T /\ U # T /\ U \in SUBSET D
    BY <1>2
  <2> QED BY <1>1, <2>1
<1>7. Total(v, T) = v[x] + Total(v, U)
  BY <1>2, <1>3, TotalOne
<1>8. Total(v, E \ U) = v[x] + Total(v, E \ T)
  <2>1. E \ U \in SUBSET E /\ x \in E \ U /\ (E \ U) \ {x} = E \ T
    BY <1>2
  <2> HIDE DEF U
  <2> QED BY <1>3, <2>1, TotalOne
<1>9. U \in SUBSET E /\ E \ U \in SUBSET E /\ E \ T \in SUBSET E /\ x \in E
  BY <1>2
<1>10. /\ Total(v, U) \in Nat /\ Total(v, E \ T) \in Nat
       /\ v[x] \in Nat
  BY <1>3, <1>9 DEF Summable
<1> HIDE DEF U
<1> QED BY <1>2, <1>6, <1>7, <1>8, <1>10

\* Only the numbers of its elements matter.
LEMMA TotalSame ==
    ASSUME NEW w, NEW v, NEW E, IsFiniteSet(E), \A x \in E : w[x] = v[x]
    PROVE  Total(w, E) = Total(v, E)
<1> DEFINE B == {T \in SUBSET E : Total(w, T) # Total(v, T)}
<1> SUFFICES ASSUME B # {} PROVE FALSE
  OBVIOUS
<1>1. PICK T \in B : \A U \in SUBSET T : U # T => U \notin B
  <2>1. B \subseteq SUBSET E
    OBVIOUS
  <2> HIDE DEF B
  <2> QED BY <2>1, MinimalSet
<1>2. T \in SUBSET E /\ IsFiniteSet(T) /\ Total(w, T) # Total(v, T)
  BY <1>1, FS_Subset
<1>3. T # {}
  BY <1>2, TotalOfNone
<1> DEFINE u == T \ {Picked(T)}
<1>4. u \in SUBSET T /\ u # T /\ u \in SUBSET E /\ Picked(T) \in E
  BY <1>2, <1>3, PickedIn
<1>5. Total(w, u) = Total(v, u)
  BY <1>1, <1>4
<1>6. /\ Total(w, T) = w[Picked(T)] + Total(w, u)
      /\ Total(v, T) = v[Picked(T)] + Total(v, u)
  BY <1>2, <1>3, TotalPicked
<1> QED BY <1>2, <1>4, <1>5, <1>6

\* A fold may add on the other side.
AddsAfter(v, E, f) ==
    f = [s \in SUBSET E |-> IF s = {} THEN 0 ELSE f[s \ {Picked(s)}] + v[Picked(s)]]

LEMMA AddsAfterAt ==
    ASSUME NEW v, NEW E, NEW f, AddsAfter(v, E, f), NEW s \in SUBSET E
    PROVE  f[s] = IF s = {} THEN 0 ELSE f[s \ {Picked(s)}] + v[Picked(s)]
BY Zenon DEF AddsAfter

LEMMA SumAddsAfter ==
    ASSUME NEW v, NEW E, Summable(v, E)
    PROVE  AddsAfter(v, E, Sum(v, E))
<1>1. PICK g : g = Sum(v, E)
  OBVIOUS
<1>2. IsFiniteSet(E) /\ IsSum(v, E, g)
  BY <1>1, SumExists DEF Summable
<1>3. ASSUME NEW t \in SUBSET E
      PROVE  g[t] \in Nat
  <2>1. g[t] = Total(v, t)
    BY <1>2, TotalIs
  <2>2. Summable(v, t)
    BY FS_Subset DEF Summable
  <2> QED BY <2>1, <2>2, TotalInNat
<1>4. ASSUME NEW t \in SUBSET E
      PROVE  g[t] = IF t = {} THEN 0 ELSE g[t \ {Picked(t)}] + v[Picked(t)]
  <2>1. g[t] = IF t = {} THEN 0 ELSE v[Picked(t)] + g[t \ {Picked(t)}]
    BY <1>2, SumAt
  <2>2. CASE t # {}
    <3>1. t \ {Picked(t)} \in SUBSET E /\ Picked(t) \in E
      BY <2>2, PickedIn
    <3>2. g[t \ {Picked(t)}] \in Nat /\ v[Picked(t)] \in Nat
      BY <1>3, <3>1 DEF Summable
    <3> QED BY <2>1, <2>2, <3>2
  <2> QED BY <2>1, <2>2
<1>5. g = [t \in SUBSET E |-> g[t]]
  BY <1>2 DEF IsSum
<1>6. AddsAfter(v, E, g)
  BY <1>4, <1>5, Zenon DEF AddsAfter
<1> QED BY <1>1, <1>6

LEMMA AddingAfter ==
    ASSUME NEW v, NEW E, Summable(v, E), NEW f, AddsAfter(v, E, f)
    PROVE  f[E] = Total(v, E)
<1>1. PICK g : g = Sum(v, E)
  OBVIOUS
<1>2. IsFiniteSet(E) /\ AddsAfter(v, E, g)
  BY <1>1, SumAddsAfter DEF Summable
<1> DEFINE B == {t \in SUBSET E : f[t] # g[t]}
<1>3. SUFFICES ASSUME B # {} PROVE FALSE
  <2>1. E \in SUBSET E /\ E \notin B
    BY <1>3
  <2> QED BY <1>1, <2>1 DEF Total
<1>4. PICK t \in B : \A u \in SUBSET t : u # t => u \notin B
  <2>1. B \subseteq SUBSET E
    OBVIOUS
  <2> HIDE DEF B
  <2> QED BY <1>2, <1>3, <2>1, MinimalSet
<1>5. t \in SUBSET E /\ f[t] # g[t]
  BY <1>4
<1>6. t # {}
  BY <1>2, <1>5, AddsAfterAt
<1> DEFINE u == t \ {Picked(t)}
<1>7. u \in SUBSET t /\ u # t
  BY <1>6, PickedIn
<1>8. f[u] = g[u]
  BY <1>4, <1>5, <1>7
<1>9. f[t] = f[u] + v[Picked(t)] /\ g[t] = g[u] + v[Picked(t)]
  BY <1>2, <1>5, <1>6, AddsAfterAt
<1> QED BY <1>5, <1>8, <1>9
=============================================================================
