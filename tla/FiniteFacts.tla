---------------------------- MODULE FiniteFacts ----------------------------
(***************************************************************************)
(* Facts about finite sets that the proofs share: extremal elements,       *)
(* induction over an interval and over subsets, ranks in an order, and the *)
(* sum of a function's values over a finite set; and that one sequence at  *)
(* most is the flattening of others.                                       *)
(***************************************************************************)
EXTENDS Integers, Sequences, FiniteSetTheorems, TLAPS

-----------------------------------------------------------------------------
(* Extremal elements *)

\* A finite non-empty set has a minimal element under a strict order.
LEMMA MinimalExists ==
    ASSUME NEW S, IsFiniteSet(S), S # {}, NEW R,
           \A x \in S : <<x, x>> \notin R,
           \A x, y, z \in S : <<x, y>> \in R /\ <<y, z>> \in R => <<x, z>> \in R
    PROVE  \E m \in S : \A y \in S : <<y, m>> \notin R
<1> DEFINE HasMin(T) == \E m \in T : \A y \in T : <<y, m>> \notin R
           Bad == {T \in SUBSET S : T # {} /\ ~HasMin(T)}
<1>1. SUFFICES Bad = {}
  OBVIOUS
<1>2. SUFFICES ASSUME Bad # {} PROVE FALSE
  OBVIOUS
<1>3. Bad \subseteq FiniteSubsetsOf(S)
  BY FS_FiniteSubsetsOfFinite
<1>4. PICK T \in Bad : \A U \in Bad : <<U, T>> \notin StrictSubsetOrdering(S)
  <2> HIDE DEF Bad
  <2> QED
    BY <1>2, <1>3, FS_StrictSubsetOrderingWellFounded, WFMin
<1>5. PICK x \in T : TRUE
  OBVIOUS
<1>6. T \ {x} \notin Bad
  <2>1. <<T \ {x}, T>> \in (SUBSET S) \X (SUBSET S)
    OBVIOUS
  <2>2. <<T \ {x}, T>> \in StrictSubsetOrdering(S)
    BY <2>1, <1>5 DEF StrictSubsetOrdering
  <2> QED
    BY <1>4, <2>2
<1>7. CASE T \ {x} = {}
  <2>1. \A y \in T : <<y, x>> \notin R
    BY <1>5, <1>7
  <2> QED
    BY <1>5, <2>1
<1>8. CASE T \ {x} # {}
  <2>1. PICK m \in T \ {x} : \A y \in T \ {x} : <<y, m>> \notin R
    BY <1>6, <1>8
  <2>2. CASE <<x, m>> \in R
    <3>1. \A y \in T : <<y, x>> \notin R
      BY <2>1, <2>2, <1>5
    <3> QED
      BY <1>5, <3>1
  <2>3. CASE <<x, m>> \notin R
    BY <2>1, <2>3
  <2> QED
    BY <2>2, <2>3
<1> QED
  BY <1>7, <1>8

\* The image of a finite set under a function is finite.
LEMMA FiniteImage ==
    ASSUME NEW S, IsFiniteSet(S), NEW f, f = [x \in S |-> f[x]]
    PROVE  IsFiniteSet({f[x] : x \in S})
<1> DEFINE T == {f[x] : x \in S}
<1>1. f \in Surjection(S, T)
  BY DEF Surjection
<1> QED
  BY <1>1, FS_Surjection

\* A finite non-empty set of numbers has a least and a greatest element.
LEMMA LeastAndGreatest ==
    ASSUME NEW S \in SUBSET Int, IsFiniteSet(S), S # {}
    PROVE  /\ \E t \in S : \A u \in S : t <= u
           /\ \E t \in S : \A u \in S : t >= u
<1> DEFINE Up == {p \in S \X S : p[1] < p[2]}
           Down == {p \in S \X S : p[1] > p[2]}
<1>1. \E m \in S : \A y \in S : <<y, m>> \notin Up
  <2>1. \A x, y, z \in S :
          /\ <<x, x>> \notin Up
          /\ <<x, y>> \in Up /\ <<y, z>> \in Up => <<x, z>> \in Up
    OBVIOUS
  <2> HIDE DEF Up
  <2> QED
    BY <2>1, MinimalExists
<1>2. \E m \in S : \A y \in S : <<y, m>> \notin Down
  <2>1. \A x, y, z \in S :
          /\ <<x, x>> \notin Down
          /\ <<x, y>> \in Down /\ <<y, z>> \in Down => <<x, z>> \in Down
    OBVIOUS
  <2> HIDE DEF Down
  <2> QED
    BY <2>1, MinimalExists
<1>3. \E m \in S : \A y \in S : ~(y < m)
  BY <1>1
<1>4. \E m \in S : \A y \in S : ~(y > m)
  BY <1>2
<1>5. \A t, u \in S : (~(u < t) => t <= u) /\ (~(u > t) => t >= u)
  OBVIOUS
<1>6. \E t \in S : \A u \in S : t <= u
  BY <1>3, <1>5
<1>7. \E t \in S : \A u \in S : t >= u
  BY <1>4, <1>5
<1> QED
  BY <1>6, <1>7

\* A finite set of numbers that is not empty has the extremes that CHOOSE names.
LEMMA Extremes ==
    ASSUME NEW S \in SUBSET Int, IsFiniteSet(S), S # {}
    PROVE  /\ (CHOOSE v \in S : \A w \in S : v <= w) \in S
           /\ \A u \in S : (CHOOSE v \in S : \A w \in S : v <= w) <= u
           /\ (CHOOSE v \in S : \A w \in S : w <= v) \in S
           /\ \A u \in S : u <= (CHOOSE v \in S : \A w \in S : w <= v)
  <1>1. \E v \in S : \A w \in S : v <= w
    BY LeastAndGreatest
  <1>2. \E v \in S : \A w \in S : w <= v
    <2>1. PICK t \in S : \A u \in S : t >= u
      BY LeastAndGreatest
    <2> QED BY <2>1
  <1>3. PICK a : a = CHOOSE v \in S : \A w \in S : v <= w
    OBVIOUS
  <1>4. PICK b : b = CHOOSE v \in S : \A w \in S : w <= v
    OBVIOUS
  <1>5. a \in S /\ \A w \in S : a <= w
    BY <1>1, <1>3
  <1>6. b \in S /\ \A w \in S : w <= b
    BY <1>2, <1>4
  <1> QED BY <1>3, <1>4, <1>5, <1>6

-----------------------------------------------------------------------------
(* Induction over an interval, with a set for the numbers that a claim holds of. *)

\* Induction from 0 up to n, for a set of numbers.
LEMMA UpTo ==
    ASSUME NEW n \in Nat, NEW Good, 0 \in Good,
           \A k \in 0..(n - 1) : k \in Good => k + 1 \in Good
    PROVE  0..n \subseteq Good
<1> DEFINE Bad == (0..n) \ Good
<1>1. SUFFICES ASSUME Bad # {} PROVE FALSE
  OBVIOUS
<1>2. PICK m \in Bad : \A k \in Bad : m <= k
  <2>1. IsFiniteSet(0..n)
    BY FS_Interval
  <2>2. Bad \in SUBSET (0..n) /\ Bad \in SUBSET Int
    OBVIOUS
  <2> HIDE DEF Bad
  <2>3. IsFiniteSet(Bad)
    BY <2>1, <2>2, FS_Subset
  <2> QED
    BY <1>1, <2>2, <2>3, LeastAndGreatest
<1>3. m # 0 /\ m - 1 \in 0..(n - 1) /\ m - 1 \notin Bad
  BY <1>2
<1> QED
  BY <1>2, <1>3

\* Induction from n down to 0.
LEMMA DownFrom ==
    ASSUME NEW n \in Nat, NEW Good, n \in Good,
           \A k \in 0..(n - 1) : k + 1 \in Good => k \in Good
    PROVE  0..n \subseteq Good
<1> DEFINE Bad == (0..n) \ Good
<1>1. SUFFICES ASSUME Bad # {} PROVE FALSE
  OBVIOUS
<1>2. PICK m \in Bad : \A k \in Bad : m >= k
  <2>1. IsFiniteSet(0..n)
    BY FS_Interval
  <2>2. Bad \in SUBSET (0..n) /\ Bad \in SUBSET Int
    OBVIOUS
  <2> HIDE DEF Bad
  <2>3. IsFiniteSet(Bad)
    BY <2>1, <2>2, FS_Subset
  <2> QED
    BY <1>1, <2>2, <2>3, LeastAndGreatest
<1>3. m # n /\ m \in 0..(n - 1) /\ m + 1 \notin Bad
  BY <1>2
<1> QED
  BY <1>2, <1>3

\* Induction over the subsets of a finite set.
LEMMA SubsetInduction ==
    ASSUME NEW S, IsFiniteSet(S), NEW Good, {} \in Good,
           \A s \in SUBSET S : s # {} => \E x \in s : s \ {x} \in Good => s \in Good
    PROVE  S \in Good
  <1> DEFINE N == Cardinality(S)
             All == {n \in 0..N : \A s \in SUBSET S : Cardinality(s) = n => s \in Good}
  <1>1. N \in Nat
    BY FS_CardinalityType
  <1>2. \A s \in SUBSET S : IsFiniteSet(s) /\ Cardinality(s) \in Nat
    BY FS_Subset, FS_CardinalityType
  <1>3. 0 \in All
    <2>1. \A s \in SUBSET S : Cardinality(s) = 0 => s = {}
      BY <1>2, FS_EmptySet
    <2> HIDE DEF N
    <2> QED BY <1>1, <2>1
  <1>4. ASSUME NEW n \in 0..(N - 1), n \in All PROVE n + 1 \in All
    <2> SUFFICES ASSUME NEW s \in SUBSET S, Cardinality(s) = n + 1 PROVE s \in Good
      BY <1>1
    <2>1. s # {}
      <3>1. Cardinality({}) = 0 /\ n + 1 # 0
        BY FS_EmptySet
      <3> QED BY <3>1
    <2>2. PICK x \in s : s \ {x} \in Good => s \in Good
      BY <2>1
    <2>3. Cardinality(s \ {x}) = n
      <3>1. IsFiniteSet(s)
        BY <1>2
      <3>2. Cardinality(s \ {x}) = Cardinality(s) - 1
        BY <3>1, FS_RemoveElement
      <3>3. n \in Nat
        BY <1>1
      <3> QED BY <3>2, <3>3
    <2>4. s \ {x} \in Good
      BY <1>4, <2>3
    <2> QED BY <2>2, <2>4
  <1>5. N \in All
    <2> HIDE DEF All, N
    <2> QED BY <1>1, <1>3, <1>4, UpTo
  <1> QED BY <1>5

-----------------------------------------------------------------------------
(* Ranks.  In a strict total order on 1..n a number's place is one more than   *)
(* the number of those before it.                                              *)

PlaceOf(R, n, m) == 1 + Cardinality({l \in 1..n : <<l, m>> \in R})

StrictOrder(R, n) ==
    /\ \A m \in 1..n : <<m, m>> \notin R
    /\ \A l, m, k \in 1..n : <<l, m>> \in R /\ <<m, k>> \in R => <<l, k>> \in R
    /\ \A m, k \in 1..n : m # k => <<m, k>> \in R \/ <<k, m>> \in R

\* A strict total order on 1..n gives every number a place of its own.
LEMMA PlacesAreDistinct ==
    ASSUME NEW n \in Nat, NEW R, StrictOrder(R, n)
    PROVE  /\ \A m, k \in 1..n : <<m, k>> \in R => PlaceOf(R, n, m) < PlaceOf(R, n, k)
           /\ \A m \in 1..n : PlaceOf(R, n, m) \in 1..n
           /\ \A p \in 1..n : \E m \in 1..n : PlaceOf(R, n, m) = p
<1> DEFINE Ahead(m) == {l \in 1..n : <<l, m>> \in R}
<1> PICK place : place = [m \in 1..n |-> PlaceOf(R, n, m)]
  OBVIOUS
<1>1. IsFiniteSet(1..n) /\ Cardinality(1..n) = n
  BY FS_Interval
<1>2. ASSUME NEW m \in 1..n
      PROVE  IsFiniteSet(Ahead(m)) /\ Cardinality(Ahead(m)) \in Nat /\ place[m] = 1 + Cardinality(Ahead(m))
  <2>1. Ahead(m) \in SUBSET (1..n)
    OBVIOUS
  <2>2. IsFiniteSet(Ahead(m))
    <3> HIDE DEF Ahead
    <3> QED BY <1>1, <2>1, FS_Subset
  <2>3. Cardinality(Ahead(m)) \in Nat
    BY <2>2, FS_CardinalityType
  <2>4. place[m] = 1 + Cardinality(Ahead(m))
    BY DEF PlaceOf
  <2> QED BY <2>2, <2>3, <2>4
<1>3. ASSUME NEW m \in 1..n, NEW k \in 1..n, <<m, k>> \in R PROVE place[m] < place[k]
  <2>1. m \notin Ahead(m) /\ Ahead(m) \cup {m} \in SUBSET Ahead(k)
    BY <1>3 DEF StrictOrder
  <2> HIDE DEF Ahead
  <2>2. Cardinality(Ahead(m) \cup {m}) = Cardinality(Ahead(m)) + 1
    BY <1>2, <2>1, FS_AddElement
  <2>3. Cardinality(Ahead(m) \cup {m}) <= Cardinality(Ahead(k))
    BY <1>2, <2>1, FS_Subset
  <2>4. PICK a \in Nat, b \in Nat : a = Cardinality(Ahead(m)) /\ b = Cardinality(Ahead(k))
    BY <1>2
  <2>5. place[m] = 1 + a /\ place[k] = 1 + b
    BY <1>2, <2>4
  <2>6. a + 1 <= b
    BY <2>2, <2>3, <2>4
  <2> QED BY <2>5, <2>6
<1>4. ASSUME NEW m \in 1..n PROVE place[m] \in 1..n
  <2>1. m \notin Ahead(m) /\ Ahead(m) \cup {m} \in SUBSET (1..n)
    BY DEF StrictOrder
  <2> HIDE DEF Ahead
  <2>2. Cardinality(Ahead(m) \cup {m}) = Cardinality(Ahead(m)) + 1
    BY <1>2, <2>1, FS_AddElement
  <2>3. Cardinality(Ahead(m) \cup {m}) <= n
    BY <1>1, <2>1, FS_Subset
  <2> QED BY <1>2, <2>2, <2>3
<1>5. place \in Injection(1..n, 1..n)
  <2>1. place = [m \in 1..n |-> place[m]]
    OBVIOUS
  <2>2. ASSUME NEW m \in 1..n, NEW k \in 1..n, place[m] = place[k] PROVE m = k
    <3>1. \A a \in 1..n : ~(a < a)
      OBVIOUS
    <3>2. ~(place[m] < place[k]) /\ ~(place[k] < place[m])
      BY <1>4, <2>2, <3>1, Zenon
    <3>3. m # k => <<m, k>> \in R \/ <<k, m>> \in R
      BY DEF StrictOrder
    <3> QED BY <1>3, <3>2, <3>3, Zenon
  <2> HIDE DEF Ahead
  <2> QED BY <1>4, <2>1, <2>2 DEF Injection, IsInjective
<1>6. place \in Surjection(1..n, 1..n)
  BY <1>1, <1>5, FS_Injection
<1>7. \A p \in 1..n : \E m \in 1..n : place[m] = p
  BY <1>6 DEF Surjection
<1> QED BY <1>3, <1>4, <1>7

-----------------------------------------------------------------------------
(* Sums.  MapThenSumSet of the community modules is a choice of a solution of  *)
(* a recursion (SumFun); it is the number of units that the function hands     *)
(* out, and moves with the one value that changes.                             *)

\* The units a function hands out, each told by its owner and a number.
UnitsOf(h, x) == {x} \X (1..h[x])
Units(h, S)   == UNION {UnitsOf(h, x) : x \in S}

\* A solution of the recursion that defines the sum.
IsSumFun(g, h, S) ==
    g = [s \in SUBSET S |-> IF s = {} THEN 0
                            ELSE LET x == CHOOSE x \in s : TRUE IN h[x] + g[s \ {x}]]

SumFun(h, S) ==
    CHOOSE g : g = [s \in SUBSET S |-> IF s = {} THEN 0
                    ELSE LET x == CHOOSE x \in s : TRUE IN h[x] + g[s \ {x}]]

\* The units of finitely many owners are finitely many.
LEMMA UnitsFinite ==
    ASSUME NEW S, IsFiniteSet(S), NEW h, \A x \in S : h[x] \in Nat
    PROVE  IsFiniteSet(Units(h, S)) /\ Cardinality(Units(h, S)) \in Nat
  <1> DEFINE T == {UnitsOf(h, x) : x \in S}
             f == [x \in S |-> UnitsOf(h, x)]
  <1>1. f \in Surjection(S, T)
    BY DEF Surjection
  <1>2. IsFiniteSet(T)
    <2> HIDE DEF f, T
    <2> QED BY <1>1, FS_Surjection
  <1>3. \A x \in S : IsFiniteSet(UnitsOf(h, x))
    <2> HIDE DEF T, f
    <2> TAKE x \in S
    <2>1. IsFiniteSet({x})
      BY FS_Singleton
    <2>2. h[x] \in Int /\ 1 \in Int
      OBVIOUS
    <2>3. IsFiniteSet(1..h[x])
      BY <2>2, FS_Interval
    <2> QED BY <2>1, <2>3, FS_Product DEF UnitsOf
  <1>4. \A U \in T : IsFiniteSet(U)
    BY <1>3
  <1>5. IsFiniteSet(UNION T)
    <2> HIDE DEF T
    <2> QED BY <1>2, <1>4, FS_UNION
  <1> QED BY <1>5, FS_CardinalityType DEF Units

\* An owner's units are counted with the others', each once.
LEMMA UnitsSplit ==
    ASSUME NEW S, IsFiniteSet(S), NEW h, \A x \in S : h[x] \in Nat, NEW t \in S
    PROVE  Cardinality(Units(h, S)) = h[t] + Cardinality(Units(h, S \ {t}))
  <1> DEFINE A == UnitsOf(h, t)
             B == Units(h, S \ {t})
  <1>1. IsFiniteSet(S \ {t})
    BY FS_RemoveElement
  <1>2. IsFiniteSet(B) /\ Cardinality(B) \in Nat
    BY <1>1, UnitsFinite
  <1>3. IsFiniteSet(A) /\ Cardinality(A) = h[t]
    <2>1. IsFiniteSet({t}) /\ Cardinality({t}) = 1
      BY FS_Singleton
    <2>2. IsFiniteSet(1..h[t]) /\ Cardinality(1..h[t]) = h[t]
      BY FS_Interval
    <2>3. IsFiniteSet(A) /\ Cardinality(A) = 1 * h[t]
      BY <2>1, <2>2, FS_Product DEF UnitsOf
    <2> QED BY <2>3
  <1>4. A \cap B = {}
    BY DEF Units, UnitsOf
  <1>5. Units(h, S) = A \cup B
    BY DEF Units
  <1> HIDE DEF A, B
  <1>6. Cardinality(A \cup B) = Cardinality(A) + Cardinality(B) - 0
    BY <1>2, <1>3, <1>4, FS_Union, FS_EmptySet
  <1> QED BY <1>2, <1>3, <1>5, <1>6 DEF B

\* Counting units solves the recursion.
LEMMA CountSolves ==
    ASSUME NEW S, IsFiniteSet(S), NEW h, \A x \in S : h[x] \in Nat
    PROVE  IsSumFun([s \in SUBSET S |-> Cardinality(Units(h, s))], h, S)
  <1> DEFINE g == [s \in SUBSET S |-> Cardinality(Units(h, s))]
             k == [s \in SUBSET S |-> IF s = {} THEN 0
                    ELSE LET x == CHOOSE x \in s : TRUE IN h[x] + g[s \ {x}]]
  <1>1. ASSUME NEW s \in SUBSET S PROVE g[s] = k[s]
    <2>1. CASE s = {}
      <3>1. Units(h, {}) = {}
        BY DEF Units
      <3> QED BY <2>1, <3>1, FS_EmptySet
    <2>2. CASE s # {}
      <3>1. PICK x : x = CHOOSE y \in s : TRUE
        OBVIOUS
      <3>2. x \in s
        BY <2>2, <3>1
      <3>3. k[s] = h[x] + g[s \ {x}]
        BY <2>2, <3>1
      <3>4. IsFiniteSet(s)
        BY FS_Subset
      <3>5. Cardinality(Units(h, s)) = h[x] + Cardinality(Units(h, s \ {x}))
        BY <3>2, <3>4, UnitsSplit
      <3> QED BY <3>3, <3>5
    <2> QED BY <2>1, <2>2
  <1>2. g = k
    BY <1>1
  <1> QED BY <1>2 DEF IsSumFun

\* Solutions of the recursion agree: there is no smallest set on which two of
\* them differ.
LEMMA OneSolution ==
    ASSUME NEW S, IsFiniteSet(S), NEW h, NEW f, NEW g, IsSumFun(f, h, S), IsSumFun(g, h, S)
    PROVE  f[S] = g[S]
  <1> DEFINE Bad == {s \in SUBSET S : f[s] # g[s]}
  <1>1. SUFFICES ASSUME Bad # {} PROVE FALSE
    OBVIOUS
  <1>2. Bad \subseteq FiniteSubsetsOf(S)
    BY FS_FiniteSubsetsOfFinite
  <1>3. PICK s \in Bad : \A u \in Bad : <<u, s>> \notin StrictSubsetOrdering(S)
    <2> HIDE DEF Bad
    <2> QED BY <1>1, <1>2, FS_StrictSubsetOrderingWellFounded, WFMin
  <1>4. ASSUME NEW k, IsSumFun(k, h, S)
        PROVE  k[s] = IF s = {} THEN 0 ELSE LET x == CHOOSE x \in s : TRUE IN h[x] + k[s \ {x}]
    BY <1>4 DEF IsSumFun
  <1>5. s # {}
    BY <1>4
  <1>6. PICK x : x = CHOOSE y \in s : TRUE
    OBVIOUS
  <1>7. x \in s
    BY <1>5, <1>6
  <1>8. f[s] = h[x] + f[s \ {x}] /\ g[s] = h[x] + g[s \ {x}]
    BY <1>4, <1>5, <1>6
  <1>9. s \ {x} \in Bad
    BY <1>8
  <1>10. <<s \ {x}, s>> \in StrictSubsetOrdering(S)
    BY <1>7 DEF StrictSubsetOrdering
  <1> QED BY <1>3, <1>9, <1>10

\* A sum is a number of units.
LEMMA SumIsCount ==
    ASSUME NEW S, IsFiniteSet(S), NEW h, \A x \in S : h[x] \in Nat
    PROVE  SumFun(h, S)[S] = Cardinality(Units(h, S))
  <1> DEFINE g == [s \in SUBSET S |-> Cardinality(Units(h, s))]
  <1>1. IsSumFun(g, h, S)
    BY CountSolves
  <1> HIDE DEF g
  <1>2. IsSumFun(SumFun(h, S), h, S)
    BY <1>1 DEF SumFun, IsSumFun
  <1>3. SumFun(h, S)[S] = g[S]
    BY <1>1, <1>2, OneSolution
  <1> QED BY <1>3 DEF g

\* When one owner's share changes, the number of units changes by as much.
LEMMA OneShareChanges ==
    ASSUME NEW S, IsFiniteSet(S), NEW t \in S, NEW g, NEW h,
           \A x \in S : g[x] \in Nat /\ h[x] \in Nat,
           \A x \in S \ {t} : g[x] = h[x]
    PROVE  Cardinality(Units(g, S)) - g[t] = Cardinality(Units(h, S)) - h[t]
  <1>1. Units(g, S \ {t}) = Units(h, S \ {t})
    BY DEF Units, UnitsOf
  <1>2. /\ Cardinality(Units(g, S)) = g[t] + Cardinality(Units(g, S \ {t}))
        /\ Cardinality(Units(h, S)) = h[t] + Cardinality(Units(h, S \ {t}))
    BY UnitsSplit
  <1>3. IsFiniteSet(S \ {t})
    BY FS_RemoveElement
  <1>4. Cardinality(Units(h, S \ {t})) \in Nat
    BY <1>3, UnitsFinite
  <1> QED BY <1>1, <1>2, <1>4

\* Owners with n units each have n times as many units as they are.
LEMMA EqualShares ==
    ASSUME NEW S, IsFiniteSet(S), NEW h, \A x \in S : h[x] \in Nat,
           NEW R \in SUBSET S, NEW n \in Nat, \A x \in R : h[x] = n
    PROVE  Cardinality(R) * n <= Cardinality(Units(h, S))
  <1>1. R \X (1..n) \subseteq Units(h, S)
    BY DEF Units, UnitsOf
  <1>2. IsFiniteSet(R) /\ IsFiniteSet(1..n) /\ Cardinality(1..n) = n
    BY FS_Subset, FS_Interval
  <1>3. Cardinality(R \X (1..n)) = Cardinality(R) * n
    BY <1>2, FS_Product
  <1>4. IsFiniteSet(Units(h, S))
    BY UnitsFinite
  <1> QED BY <1>1, <1>3, <1>4, FS_Subset

\* The sum of integers: the units gained less the units lost.
Gains(h)  == [x \in DOMAIN h |-> IF h[x] > 0 THEN h[x] ELSE 0]
Losses(h) == [x \in DOMAIN h |-> IF h[x] < 0 THEN -h[x] ELSE 0]

Total(h, S) == Cardinality(Units(Gains(h), S)) - Cardinality(Units(Losses(h), S))

\* Gains and losses are natural numbers.
LEMMA GainsAndLosses ==
    ASSUME NEW h, NEW S \in SUBSET DOMAIN h, \A x \in S : h[x] \in Int
    PROVE  \A x \in S : /\ Gains(h)[x] \in Nat /\ Losses(h)[x] \in Nat
                        /\ Gains(h)[x] - Losses(h)[x] = h[x]
  <1> SUFFICES ASSUME NEW x \in S
               PROVE  /\ Gains(h)[x] \in Nat /\ Losses(h)[x] \in Nat
                      /\ Gains(h)[x] - Losses(h)[x] = h[x]
    OBVIOUS
  <1>1. PICK n \in Int : n = h[x]
    OBVIOUS
  <1>2. Gains(h)[x] = (IF n > 0 THEN n ELSE 0) /\ Losses(h)[x] = (IF n < 0 THEN -n ELSE 0)
    BY <1>1 DEF Gains, Losses
  <1> QED BY <1>1, <1>2

\* A sum is one of its elements and the sum of the others; of none it is 0.
LEMMA TotalSplit ==
    ASSUME NEW h, NEW S \in SUBSET DOMAIN h, IsFiniteSet(S), \A x \in S : h[x] \in Int
    PROVE  /\ Total(h, S) \in Int
           /\ Total(h, {}) = 0
           /\ \A t \in S : Total(h, S) = h[t] + Total(h, S \ {t})
  <1>1. ASSUME NEW g, \A x \in S : g[x] \in Nat
        PROVE  /\ Cardinality(Units(g, S)) \in Nat
               /\ Cardinality(Units(g, {})) = 0
               /\ \A t \in S : /\ Cardinality(Units(g, S)) = g[t] + Cardinality(Units(g, S \ {t}))
                               /\ Cardinality(Units(g, S \ {t})) \in Nat
    <2>1. Cardinality(Units(g, {})) = 0
      <3>1. Units(g, {}) = {}
        BY DEF Units
      <3> QED BY <3>1, FS_EmptySet
    <2>2. \A t \in S : IsFiniteSet(S \ {t})
      BY FS_RemoveElement
    <2> QED BY <1>1, <2>1, <2>2, UnitsFinite, UnitsSplit
  <1>2. PICK g, l : g = Gains(h) /\ l = Losses(h)
    OBVIOUS
  <1>3. \A x \in S : g[x] \in Nat /\ l[x] \in Nat /\ g[x] - l[x] = h[x]
    BY <1>2, GainsAndLosses
  <1>4. \A T : Total(h, T) = Cardinality(Units(g, T)) - Cardinality(Units(l, T))
    BY <1>2 DEF Total
  <1>5. /\ Cardinality(Units(g, S)) \in Nat
        /\ Cardinality(Units(g, {})) = 0
        /\ \A t \in S : /\ Cardinality(Units(g, S)) = g[t] + Cardinality(Units(g, S \ {t}))
                        /\ Cardinality(Units(g, S \ {t})) \in Nat
    BY <1>1, <1>3
  <1>6. /\ Cardinality(Units(l, S)) \in Nat
        /\ Cardinality(Units(l, {})) = 0
        /\ \A t \in S : /\ Cardinality(Units(l, S)) = l[t] + Cardinality(Units(l, S \ {t}))
                        /\ Cardinality(Units(l, S \ {t})) \in Nat
    BY <1>1, <1>3
  <1>7. ASSUME NEW t \in S PROVE Total(h, S) = h[t] + Total(h, S \ {t})
    <2>1. PICK gt \in Nat, lt \in Nat : gt = g[t] /\ lt = l[t] /\ h[t] = gt - lt
      BY <1>3
    <2>2. PICK gs \in Nat, ls \in Nat :
            gs = Cardinality(Units(g, S \ {t})) /\ ls = Cardinality(Units(l, S \ {t}))
      BY <1>5, <1>6
    <2>3. Cardinality(Units(g, S)) = gt + gs /\ Cardinality(Units(l, S)) = lt + ls
      BY <1>5, <1>6, <2>1, <2>2
    <2>4. Total(h, S) = (gt + gs) - (lt + ls) /\ Total(h, S \ {t}) = gs - ls
      BY <1>4, <2>2, <2>3
    <2> QED BY <2>1, <2>4
  <1> QED BY <1>4, <1>5, <1>6, <1>7

\* Sums over sets apart add up.
LEMMA TotalUnion ==
    ASSUME NEW h, NEW S \in SUBSET DOMAIN h, IsFiniteSet(S),
           NEW T \in SUBSET DOMAIN h, IsFiniteSet(T), S \cap T = {},
           \A x \in S \cup T : h[x] \in Int
    PROVE  Total(h, S \cup T) = Total(h, S) + Total(h, T)
  <1> DEFINE Good == {U \in SUBSET S : Total(h, U \cup T) = Total(h, U) + Total(h, T)}
  <1>1. \A U \in SUBSET S : /\ IsFiniteSet(U) /\ IsFiniteSet(U \cup T)
                            /\ U \cup T \in SUBSET DOMAIN h /\ U \in SUBSET DOMAIN h
    BY FS_Subset, FS_Union
  <1>2. {} \in Good
    <2>1. Total(h, {}) = 0 /\ Total(h, T) \in Int
      BY TotalSplit
    <2>2. {} \cup T = T
      OBVIOUS
    <2> QED BY <2>1, <2>2
  <1>3. ASSUME NEW U \in SUBSET S, NEW x \in U, U \ {x} \in Good PROVE U \in Good
    <2>1. Total(h, U) = h[x] + Total(h, U \ {x})
      BY <1>1, TotalSplit
    <2>2. Total(h, U \cup T) = h[x] + Total(h, (U \cup T) \ {x})
      BY <1>1, TotalSplit
    <2>3. (U \cup T) \ {x} = (U \ {x}) \cup T
      OBVIOUS
    <2>4. /\ h[x] \in Int /\ Total(h, U \ {x}) \in Int /\ Total(h, T) \in Int
      <3>1. U \ {x} \in SUBSET S
        OBVIOUS
      <3> QED BY <1>1, <3>1, TotalSplit
    <2>5. Total(h, (U \ {x}) \cup T) = Total(h, U \ {x}) + Total(h, T)
      BY <1>3
    <2>6. PICK a \in Int, b \in Int, c \in Int : a = h[x] /\ b = Total(h, U \ {x}) /\ c = Total(h, T)
      BY <2>4
    <2>7. Total(h, U \cup T) = a + (b + c) /\ Total(h, U) = a + b
      BY <2>1, <2>2, <2>3, <2>5, <2>6
    <2>8. Total(h, U \cup T) = Total(h, U) + Total(h, T)
      BY <2>6, <2>7
    <2> QED BY <2>8
  <1>4. \A U \in SUBSET S : U # {} => \E x \in U : U \ {x} \in Good => U \in Good
    <2> HIDE DEF Good
    <2> QED BY <1>3
  <1>5. S \in Good
    <2> HIDE DEF Good
    <2> QED BY <1>2, <1>4, SubsetInduction
  <1> QED BY <1>5

\* The sum over a set is such a total.
LEMMA SumIsTotal ==
    ASSUME NEW h, NEW S \in SUBSET DOMAIN h, IsFiniteSet(S), \A x \in S : h[x] \in Int
    PROVE  SumFun(h, S)[S] = Total(h, S)
  <1> DEFINE g == [s \in SUBSET S |-> Total(h, s)]
             k == [s \in SUBSET S |-> IF s = {} THEN 0
                    ELSE LET x == CHOOSE x \in s : TRUE IN h[x] + g[s \ {x}]]
  <1>1. ASSUME NEW s \in SUBSET S PROVE g[s] = k[s]
    <2>1. CASE s = {}
      BY <2>1, TotalSplit
    <2>2. CASE s # {}
      <3>1. PICK x : x = CHOOSE y \in s : TRUE
        OBVIOUS
      <3>2. x \in s
        BY <2>2, <3>1
      <3>3. k[s] = h[x] + Total(h, s \ {x})
        BY <2>2, <3>1
      <3>4. IsFiniteSet(s) /\ s \in SUBSET DOMAIN h
        BY FS_Subset
      <3>5. Total(h, s) = h[x] + Total(h, s \ {x})
        BY <3>2, <3>4, TotalSplit
      <3> QED BY <3>3, <3>5
    <2> QED BY <2>1, <2>2
  <1>2. IsSumFun(g, h, S)
    BY <1>1 DEF IsSumFun
  <1> HIDE DEF g
  <1>3. IsSumFun(SumFun(h, S), h, S)
    BY <1>2 DEF SumFun, IsSumFun
  <1>4. SumFun(h, S)[S] = g[S]
    BY <1>2, <1>3, OneSolution
  <1> QED BY <1>4 DEF g

-----------------------------------------------------------------------------
(* Flattening *)

\* A solution of the recursion that flattens the first n sequences of s.
IsFlat(f, s, n) == f = [i \in 1..n |-> IF i = 1 THEN s[i] ELSE f[i - 1] \o s[i]]

\* All solutions agree.
LEMMA FlatUnique ==
    ASSUME NEW s, NEW n \in Nat, NEW f, NEW g, IsFlat(f, s, n), IsFlat(g, s, n)
    PROVE  f = g
  <1> DEFINE Good == {i \in 0..n : i = 0 \/ f[i] = g[i]}
  <1>1. \A i \in 1..n : /\ f[i] = IF i = 1 THEN s[i] ELSE f[i - 1] \o s[i]
                        /\ g[i] = IF i = 1 THEN s[i] ELSE g[i - 1] \o s[i]
    BY DEF IsFlat
  <1>2. ASSUME NEW k \in 0..(n - 1), k \in Good PROVE k + 1 \in Good
    <2>1. k + 1 \in 1..n /\ k + 1 - 1 = k
      OBVIOUS
    <2>2. k = 0 \/ f[k] = g[k]
      BY <1>2
    <2>3. f[k + 1] = g[k + 1]
      BY <1>1, <2>1, <2>2
    <2> QED BY <2>1, <2>3
  <1>3. 0 \in Good
    OBVIOUS
  <1>4. 0..n \subseteq Good
    <2> HIDE DEF Good
    <2> QED BY <1>2, <1>3, UpTo
  <1>5. \A i \in 1..n : f[i] = g[i]
    BY <1>4
  <1>6. f = [i \in 1..n |-> f[i]] /\ g = [i \in 1..n |-> g[i]]
    BY <1>1 DEF IsFlat
  <1> QED BY <1>5, <1>6
=============================================================================
