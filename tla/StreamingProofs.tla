--------------------------- MODULE StreamingProofs ---------------------------
(***************************************************************************)
(* Proofs about the streaming operators.                                   *)
(* The sort: for any child, budget and spills, its tracker counts what is  *)
(* held, and its rows come out each once and in order.                     *)
(* The entity operators: however a child's rows are cut into batches, the  *)
(* adapter gives each entity what its operator promises for its rows.      *)
(***************************************************************************)
EXTENDS ExternalSort, FiniteFacts, SequenceTheorems

-----------------------------------------------------------------------------
(* Flattening.  FlattenSeq is a choice of a solution of a recursion: one       *)
(* exists for every prefix, and all agree.                                     *)

\* A solution for a sequence more.
LEMMA FlatNext ==
    ASSUME NEW s, NEW n \in Nat, NEW f, IsFlat(f, s, n), NEW g,
           g = [i \in 1..(n + 1) |-> IF i <= n THEN f[i] ELSE IF i = 1 THEN s[i] ELSE f[i - 1] \o s[i]]
    PROVE  IsFlat(g, s, n + 1)
  <1>1. \A i \in 1..n : f[i] = IF i = 1 THEN s[i] ELSE f[i - 1] \o s[i]
    BY DEF IsFlat
  <1>2. \A i \in 1..n : g[i] = f[i]
    OBVIOUS
  <1>3. ASSUME NEW i \in 1..(n + 1)
        PROVE  g[i] = IF i = 1 THEN s[i] ELSE g[i - 1] \o s[i]
    <2>1. CASE i <= n
      <3>1. i \in 1..n /\ (i # 1 => i - 1 \in 1..n)
        BY <2>1
      <3> QED BY <1>1, <1>2, <3>1
    <2>2. CASE i = n + 1
      <3>1. i # 1 => i - 1 \in 1..n
        BY <2>2
      <3> QED BY <1>2, <2>2, <3>1
    <2> QED BY <2>1, <2>2
  <1>4. g = [i \in 1..(n + 1) |-> g[i]]
    OBVIOUS
  <1> QED BY <1>3, <1>4 DEF IsFlat

\* A solution exists for sequences of any length.
LEMMA FlatExists ==
    ASSUME NEW R, NEW s \in Seq(Seq(R))
    PROVE  \E f \in [1..Len(s) -> Seq(R)] : IsFlat(f, s, Len(s))
  <1> DEFINE Solved(m) == \E f \in [1..m -> Seq(R)] : IsFlat(f, s, m)
             Good == {m \in 0..Len(s) : Solved(m)}
  <1>1. Len(s) \in Nat /\ \A i \in 1..Len(s) : s[i] \in Seq(R)
    OBVIOUS
  <1>2. Solved(0)
    <2> DEFINE f == [i \in 1..0 |-> s[i]]
    <2>1. f \in [1..0 -> Seq(R)] /\ IsFlat(f, s, 0)
      BY DEF IsFlat
    <2> QED BY <2>1
  <1>3. ASSUME NEW m \in 0..(Len(s) - 1), Solved(m) PROVE Solved(m + 1)
    <2>1. PICK f \in [1..m -> Seq(R)] : IsFlat(f, s, m)
      BY <1>3
    <2> DEFINE g == [i \in 1..(m + 1) |-> IF i <= m THEN f[i] ELSE IF i = 1 THEN s[i] ELSE f[i - 1] \o s[i]]
    <2>2. m \in Nat /\ m + 1 \in 1..Len(s)
      BY <1>1
    <2>3. IsFlat(g, s, m + 1)
      <3> HIDE DEF Solved
      <3> QED BY <2>1, <2>2, FlatNext
    <2>4. ASSUME NEW i \in 1..(m + 1) PROVE g[i] \in Seq(R)
      <3>1. CASE i <= m
        BY <2>2, <3>1
      <3>2. CASE i = m + 1 /\ i = 1
        BY <1>1, <2>2, <3>2
      <3>3. CASE i = m + 1 /\ i # 1
        <4>1. f[i - 1] \in Seq(R) /\ s[i] \in Seq(R)
          BY <1>1, <2>2, <3>3
        <4>2. ~(i <= m) /\ i \in 1..(m + 1) /\ i # 1
          BY <2>2, <3>3
        <4>3. g[i] = f[i - 1] \o s[i]
          BY <4>2
        <4> HIDE DEF g
        <4> QED BY <4>1, <4>3, ConcatProperties
      <3> QED BY <2>2, <3>1, <3>2, <3>3
    <2>5. g \in [1..(m + 1) -> Seq(R)]
      BY <2>4
    <2> QED BY <2>3, <2>5
  <1> HIDE DEF Solved
  <1>4. 0 \in Good /\ \A k \in 0..(Len(s) - 1) : k \in Good => k + 1 \in Good
    BY <1>1, <1>2, <1>3
  <1>5. 0..Len(s) \subseteq Good
    <2> HIDE DEF Good
    <2> QED BY <1>1, <1>4, UpTo
  <1>6. Solved(Len(s))
    BY <1>1, <1>5
  <1> QED BY <1>6 DEF Solved

\* Any solution tells what a sequence flattens to.
LEMMA FlatIs ==
    ASSUME NEW R, NEW s \in Seq(Seq(R)), NEW f, IsFlat(f, s, Len(s)), Len(s) # 0
    PROVE  FlattenSeq(s) = f[Len(s)]
  <1>1. Len(s) \in Nat
    OBVIOUS
  <1>2. FlattenSeq(s) = (CHOOSE g : IsFlat(g, s, Len(s)))[Len(s)]
    BY DEF FlattenSeq, IsFlat
  <1>3. IsFlat(CHOOSE g : IsFlat(g, s, Len(s)), s, Len(s))
    OBVIOUS
  <1> QED BY <1>1, <1>2, <1>3, FlatUnique

\* A batch more adds its rows at the end.
LEMMA FlattenAppend ==
    ASSUME NEW R, NEW s \in Seq(Seq(R)), NEW x \in Seq(R)
    PROVE  /\ FlattenSeq(s) \in Seq(R)
           /\ FlattenSeq(Append(s, x)) = FlattenSeq(s) \o x
  <1>1. Len(s) \in Nat
    OBVIOUS
  <1>2. PICK f \in [1..Len(s) -> Seq(R)] : IsFlat(f, s, Len(s))
    BY FlatExists
  <1>3. PICK t \in Seq(Seq(R)) : t = Append(s, x)
    BY AppendProperties
  <1>4. Len(t) = Len(s) + 1 /\ (\A i \in 1..Len(s) : t[i] = s[i]) /\ t[Len(s) + 1] = x
    BY <1>3, AppendProperties
  <1>5. PICK n \in Nat : n = Len(s)
    BY <1>1
  <1> DEFINE g == [i \in 1..(n + 1) |-> IF i <= n THEN f[i] ELSE IF i = 1 THEN t[i] ELSE f[i - 1] \o t[i]]
  <1>6. IsFlat(f, t, n)
    BY <1>2, <1>4, <1>5 DEF IsFlat
  <1>7. IsFlat(g, t, Len(t))
    BY <1>4, <1>5, <1>6, FlatNext
  <1>8. g[n + 1] = IF n = 0 THEN x ELSE f[n] \o x
    BY <1>4, <1>5
  <1>9. FlattenSeq(t) = g[n + 1]
    <2> HIDE DEF g
    <2>1. Len(t) = n + 1 /\ Len(t) # 0
      BY <1>4, <1>5
    <2> QED BY <1>7, <2>1, FlatIs
  <1>10. CASE n = 0
    <2>1. s = <<>>
      BY <1>5, <1>10, EmptySeq
    <2>2. FlattenSeq(s) = <<>>
      BY <1>5, <1>10, <2>1 DEF FlattenSeq
    <2>3. <<>> \in Seq(R) /\ <<>> \o x = x
      BY ConcatEmptySeq
    <2> HIDE DEF g
    <2> QED BY <1>3, <1>8, <1>9, <1>10, <2>2, <2>3
  <1>11. CASE n # 0
    <2>1. FlattenSeq(s) = f[n]
      BY <1>2, <1>5, <1>11, FlatIs
    <2>2. f[n] \in Seq(R)
      <3>1. n \in 1..Len(s)
        BY <1>5, <1>11
      <3> HIDE DEF g
      <3> QED BY <1>2, <3>1
    <2> HIDE DEF g
    <2> QED BY <1>3, <1>8, <1>9, <1>11, <2>1, <2>2
  <1> QED BY <1>10, <1>11

\* A prefix and the element behind it.
LEMMA PrefixNext ==
    ASSUME NEW R, NEW s \in Seq(R), NEW m \in Nat, m < Len(s)
    PROVE  /\ SubSeq(s, 1, m) \in Seq(R)
           /\ SubSeq(s, 1, m + 1) = Append(SubSeq(s, 1, m), s[m + 1])
  <1>1. Len(s) \in Nat /\ m + 1 \in 1..Len(s) /\ \A i \in 1..Len(s) : s[i] \in R
    OBVIOUS
  <1>2. SubSeq(s, 1, m) \in Seq(R)
    BY <1>1, SubSeqProperties
  <1>3. SubSeq(s, 1, m + 1) = SubSeq(s, 1, m + 1 - 1) \o <<s[m + 1]>>
    BY <1>1, SubSeqRecursiveSecond
  <1>4. Append(SubSeq(s, 1, m), s[m + 1]) = SubSeq(s, 1, m) \o <<s[m + 1]>>
    BY <1>1, <1>2, AppendIsConcat
  <1> QED BY <1>1, <1>2, <1>3, <1>4

StartsWith(s, p, R) == \E t \in Seq(R) : s = p \o t

\* What starts with a part and more starts with the part.
LEMMA StartsWithPart ==
    ASSUME NEW R, NEW p \in Seq(R), NEW b \in Seq(R), NEW s, StartsWith(s, p \o b, R)
    PROVE  StartsWith(s, p, R)
  <1>1. PICK t \in Seq(R) : s = (p \o b) \o t
    BY DEF StartsWith
  <1>2. s = p \o (b \o t)
    BY <1>1, ConcatAssociative
  <1>3. b \o t \in Seq(R)
    BY ConcatProperties
  <1> QED BY <1>2, <1>3 DEF StartsWith

\* The first sequences flatten to a prefix of what all flatten to.
LEMMA FlattenPrefix ==
    ASSUME NEW R, NEW s \in Seq(Seq(R)), NEW n \in 0..Len(s)
    PROVE  /\ FlattenSeq(SubSeq(s, 1, n)) \in Seq(R)
           /\ StartsWith(FlattenSeq(s), FlattenSeq(SubSeq(s, 1, n)), R)
  <1> DEFINE Good == {m \in 0..Len(s) : StartsWith(FlattenSeq(s), FlattenSeq(SubSeq(s, 1, m)), R)}
  <1>1. Len(s) \in Nat /\ \A i \in 1..Len(s) : s[i] \in Seq(R)
    OBVIOUS
  <1>2. StartsWith(FlattenSeq(s), FlattenSeq(SubSeq(s, 1, Len(s))), R)
    <2>1. SubSeq(s, 1, Len(s)) = s
      BY SubSeqFull
    <2>2. FlattenSeq(s) \in Seq(R) /\ <<>> \in Seq(R)
      BY EmptySeq, FlattenAppend
    <2>3. FlattenSeq(s) = FlattenSeq(s) \o <<>>
      BY <2>2, ConcatEmptySeq
    <2> QED BY <2>1, <2>2, <2>3 DEF StartsWith
  <1>3. ASSUME NEW m \in 0..(Len(s) - 1),
               StartsWith(FlattenSeq(s), FlattenSeq(SubSeq(s, 1, m + 1)), R)
        PROVE  StartsWith(FlattenSeq(s), FlattenSeq(SubSeq(s, 1, m)), R)
    <2>1. m \in Nat /\ m < Len(s) /\ s[m + 1] \in Seq(R)
      BY <1>1
    <2>2. /\ SubSeq(s, 1, m) \in Seq(Seq(R))
          /\ SubSeq(s, 1, m + 1) = Append(SubSeq(s, 1, m), s[m + 1])
      BY <2>1, PrefixNext
    <2>3. FlattenSeq(SubSeq(s, 1, m)) \in Seq(R)
          /\ FlattenSeq(SubSeq(s, 1, m + 1)) = FlattenSeq(SubSeq(s, 1, m)) \o s[m + 1]
      BY <2>1, <2>2, FlattenAppend
    <2> HIDE DEF Good
    <2> QED BY <1>3, <2>1, <2>3, StartsWithPart
  <1>4. Len(s) \in Good /\ \A k \in 0..(Len(s) - 1) : k + 1 \in Good => k \in Good
    BY <1>1, <1>2, <1>3
  <1>5. 0..Len(s) \subseteq Good
    <2> HIDE DEF Good
    <2> QED BY <1>1, <1>4, DownFrom
  <1>6. SubSeq(s, 1, n) \in Seq(Seq(R))
    BY <1>1, SubSeqProperties
  <1>7. FlattenSeq(SubSeq(s, 1, n)) \in Seq(R)
    BY <1>6, EmptySeq, FlattenAppend
  <1> QED BY <1>5, <1>7

-----------------------------------------------------------------------------
(* Rows and runs *)

\* The elements of two sequences joined, and when none occurs twice.
LEMMA InjectiveConcat ==
    ASSUME NEW R, NEW s \in Seq(R), NEW t \in Seq(R)
    PROVE  /\ Range(s \o t) = Range(s) \cup Range(t)
           /\ IsInjective(s \o t)
              <=> IsInjective(s) /\ IsInjective(t) /\ Range(s) \cap Range(t) = {}
  <1>1. /\ s \o t \in Seq(R) /\ Len(s \o t) = Len(s) + Len(t)
        /\ \A i \in 1..(Len(s) + Len(t)) : (s \o t)[i] = IF i <= Len(s) THEN s[i] ELSE t[i - Len(s)]
    BY ConcatProperties
  <1>2. PICK u \in Seq(R) : u = s \o t
    BY <1>1
  <1>3. PICK m \in Nat : m = Len(s)
    OBVIOUS
  <1>4. PICK n \in Nat : n = Len(t)
    OBVIOUS
  <1>5. DOMAIN s = 1..m /\ DOMAIN t = 1..n /\ DOMAIN u = 1..(m + n)
    BY <1>1, <1>2, <1>3, <1>4
  <1>6. ASSUME NEW i \in 1..m PROVE i \in 1..(m + n) /\ u[i] = s[i] /\ s[i] \in Range(s)
    <2>1. i \in 1..(m + n) /\ i <= m
      OBVIOUS
    <2>2. u[i] = s[i]
      BY <1>1, <1>2, <1>3, <1>4, <2>1
    <2> QED BY <1>5, <2>1, <2>2 DEF Range
  <1>7. ASSUME NEW i \in 1..n
        PROVE  i + m \in 1..(m + n) /\ u[i + m] = t[i] /\ t[i] \in Range(t)
    <2>1. i + m \in 1..(m + n) /\ ~(i + m <= m) /\ (i + m) - m = i
      OBVIOUS
    <2> QED BY <1>1, <1>2, <1>3, <1>4, <1>5, <2>1 DEF Range
  <1>8. ASSUME NEW i \in 1..(m + n) PROVE i \in 1..m \/ \E k \in 1..n : i = k + m
    <2>1. CASE i <= m
      BY <2>1
    <2>2. CASE i > m
      <3>1. i - m \in 1..n /\ i = (i - m) + m
        BY <2>2
      <3> QED BY <3>1
    <2> QED BY <2>1, <2>2
  <1>9. Range(u) = Range(s) \cup Range(t)
    <2>1. Range(u) \subseteq Range(s) \cup Range(t)
      <3> SUFFICES ASSUME NEW i \in 1..(m + n) PROVE u[i] \in Range(s) \cup Range(t)
        BY <1>5 DEF Range
      <3> QED BY <1>6, <1>7, <1>8
    <2>2. Range(s) \subseteq Range(u)
      BY <1>5, <1>6 DEF Range
    <2>3. Range(t) \subseteq Range(u)
      <3> SUFFICES ASSUME NEW i \in 1..n PROVE t[i] \in Range(u)
        BY <1>5 DEF Range
      <3>1. i + m \in DOMAIN u /\ u[i + m] = t[i]
        BY <1>5, <1>7
      <3> QED BY <3>1 DEF Range
    <2> QED BY <2>1, <2>2, <2>3
  <1>10. ASSUME IsInjective(u) PROVE IsInjective(s) /\ IsInjective(t) /\ Range(s) \cap Range(t) = {}
    <2>1. \A a, b \in 1..(m + n) : u[a] = u[b] => a = b
      BY <1>5, <1>10 DEF IsInjective
    <2>2. IsInjective(s)
      BY <1>5, <1>6, <2>1 DEF IsInjective
    <2>3. IsInjective(t)
      <3> SUFFICES ASSUME NEW a \in 1..n, NEW b \in 1..n, t[a] = t[b] PROVE a = b
        BY <1>5 DEF IsInjective
      <3>1. a + m \in 1..(m + n) /\ b + m \in 1..(m + n) /\ u[a + m] = u[b + m]
        BY <1>7
      <3>2. a + m = b + m
        BY <2>1, <3>1
      <3> QED BY <3>2
    <2>4. ASSUME NEW a \in 1..m, NEW b \in 1..n, s[a] = t[b] PROVE FALSE
      <3>1. a \in 1..(m + n) /\ b + m \in 1..(m + n) /\ u[a] = u[b + m]
        BY <1>6, <1>7, <2>4
      <3>2. a = b + m
        BY <2>1, <3>1
      <3> QED BY <3>2
    <2>5. Range(s) \cap Range(t) = {}
      BY <1>5, <2>4 DEF Range
    <2> QED BY <2>2, <2>3, <2>5
  <1>11. ASSUME IsInjective(s), IsInjective(t), Range(s) \cap Range(t) = {} PROVE IsInjective(u)
    <2> SUFFICES ASSUME NEW a \in 1..(m + n), NEW b \in 1..(m + n), u[a] = u[b] PROVE a = b
      BY <1>5 DEF IsInjective
    <2>1. CASE a \in 1..m /\ b \in 1..m
      BY <1>5, <1>6, <1>11, <2>1 DEF IsInjective
    <2>2. CASE \E k, l \in 1..n : a = k + m /\ b = l + m
      <3>1. PICK k \in 1..n, l \in 1..n : a = k + m /\ b = l + m
        BY <2>2
      <3>2. t[k] = t[l]
        BY <1>7, <3>1
      <3>3. k = l
        BY <1>5, <1>11, <3>2 DEF IsInjective
      <3> QED BY <3>1, <3>3
    <2>3. ASSUME NEW x \in 1..m, NEW k \in 1..n, u[x] = u[k + m] PROVE FALSE
      BY <1>6, <1>7, <1>11, <2>3
    <2> QED BY <1>8, <2>1, <2>2, <2>3
  <1> QED BY <1>2, <1>9, <1>10, <1>11

RunRows(runs) == UNION {Range(runs[r]) : r \in DOMAIN runs}

\* The runs are sorted, and no row is in two places of them.
RunsOK(runs) ==
    /\ runs \in Seq(Seq(Row))
    /\ \A r \in DOMAIN runs : IsSortedRun(runs[r])
    /\ \A r, q \in DOMAIN runs : \A i \in DOMAIN runs[r], j \in DOMAIN runs[q] :
        runs[r][i] = runs[q][j] => r = q /\ i = j

\* A run of other rows may be added.
LEMMA AddRun ==
    ASSUME NEW runs, RunsOK(runs), NEW run \in Seq(Row), IsSortedRun(run), IsInjective(run),
           RunRows(runs) \cap Range(run) = {}
    PROVE  RunsOK(Append(runs, run)) /\ RunRows(Append(runs, run)) = RunRows(runs) \cup Range(run)
  <1>1. runs \in Seq(Seq(Row))
    BY DEF RunsOK
  <1>2. PICK n \in Nat : n = Len(runs)
    BY <1>1
  <1>3. PICK more \in Seq(Seq(Row)) : more = Append(runs, run)
    BY <1>1, AppendProperties
  <1>4. /\ DOMAIN runs = 1..n /\ DOMAIN more = 1..(n + 1)
        /\ (\A r \in 1..n : more[r] = runs[r]) /\ more[n + 1] = run
    BY <1>1, <1>2, <1>3, AppendProperties
  <1>5. \A r \in 1..(n + 1) : r \in 1..n \/ r = n + 1
    OBVIOUS
  <1>6. \A r \in 1..(n + 1) : IsSortedRun(more[r])
    BY <1>4, <1>5 DEF RunsOK
  <1>7. RunRows(more) = RunRows(runs) \cup Range(run)
    <2>1. RunRows(more) = UNION {Range(more[r]) : r \in 1..(n + 1)}
      BY <1>4 DEF RunRows
    <2>2. RunRows(runs) = UNION {Range(runs[r]) : r \in 1..n}
      BY <1>4 DEF RunRows
    <2>3. n + 1 \in 1..(n + 1) /\ \A r \in 1..n : r \in 1..(n + 1)
      OBVIOUS
    <2>4. ASSUME NEW x PROVE (\E r \in 1..(n + 1) : x \in Range(more[r]))
                               <=> (\E r \in 1..n : x \in Range(runs[r])) \/ x \in Range(run)
      BY <1>4, <1>5, <2>3, Zenon
    <2> QED BY <2>1, <2>2, <2>4
  <1>8. ASSUME NEW r \in 1..(n + 1), NEW q \in 1..(n + 1),
               NEW i \in DOMAIN more[r], NEW j \in DOMAIN more[q], more[r][i] = more[q][j]
        PROVE  r = q /\ i = j
    <2>1. CASE r \in 1..n /\ q \in 1..n
      <3>1. /\ r \in DOMAIN runs /\ q \in DOMAIN runs
            /\ more[r] = runs[r] /\ more[q] = runs[q]
        BY <1>4, <2>1
      <3> QED BY <1>8, <3>1 DEF RunsOK
    <2>2. CASE r = n + 1 /\ q = n + 1
      BY <1>4, <1>8, <2>2 DEF IsInjective
    <2>3. CASE r \in 1..n /\ q = n + 1
      <3>1. more[r][i] \in RunRows(runs) /\ more[q][j] \in Range(run)
        BY <1>4, <2>3 DEF RunRows, Range
      <3> QED BY <1>8, <3>1
    <2>4. CASE r = n + 1 /\ q \in 1..n
      <3>1. more[q][j] \in RunRows(runs) /\ more[r][i] \in Range(run)
        BY <1>4, <2>4 DEF RunRows, Range
      <3> QED BY <1>8, <3>1
    <2> QED BY <1>5, <2>1, <2>2, <2>3, <2>4
  <1> QED BY <1>3, <1>4, <1>6, <1>7, <1>8 DEF RunsOK

\* A sorted buffer holds the rows of the buffer.
LEMMA SortedBuffer ==
    ASSUME NEW batches \in Seq(Seq(Row)), NEW run \in SortedRuns(batches)
    PROVE  /\ run \in Seq(Row) /\ IsSortedRun(run)
           /\ Range(run) = Range(Rows(batches))
           /\ IsInjective(Rows(batches)) => IsInjective(run)
  <1>1. PICK rows \in Seq(Row) : rows = Rows(batches)
    BY EmptySeq, FlattenAppend DEF Rows
  <1>2. PICK n \in Nat : n = Len(rows) /\ DOMAIN rows = 1..n /\ \A i \in 1..n : rows[i] \in Row
    BY <1>1
  <1>3. PICK p \in Bijection(1..n, 1..n) : run = [i \in 1..n |-> rows[p[i]]]
    BY <1>1, <1>2 DEF SortedRuns
  <1>4. IsSortedRun(run)
    BY DEF SortedRuns
  <1>5. /\ \A i \in 1..n : p[i] \in 1..n
        /\ \A i, j \in 1..n : p[i] = p[j] => i = j
        /\ \A k \in 1..n : \E i \in 1..n : p[i] = k
    BY <1>3 DEF Bijection, Injection, Surjection, IsInjective
  <1>6. run \in Seq(Row) /\ DOMAIN run = 1..n /\ \A i \in 1..n : run[i] = rows[p[i]]
    BY <1>2, <1>3, <1>5
  <1>7. Range(run) = Range(rows)
    <2>1. Range(run) \subseteq Range(rows)
      <3> SUFFICES ASSUME NEW i \in 1..n PROVE run[i] \in Range(rows)
        BY <1>6 DEF Range
      <3>1. run[i] = rows[p[i]] /\ p[i] \in 1..n
        BY <1>5, <1>6
      <3> QED BY <1>2, <3>1 DEF Range
    <2>2. ASSUME NEW k \in 1..n PROVE rows[k] \in Range(run)
      <3>1. PICK i \in 1..n : p[i] = k
        BY <1>5
      <3> QED BY <1>6, <3>1 DEF Range
    <2> QED BY <1>2, <2>1, <2>2 DEF Range
  <1>8. IsInjective(rows) => IsInjective(run)
    <2> SUFFICES ASSUME IsInjective(rows), NEW i \in 1..n, NEW j \in 1..n, run[i] = run[j]
                 PROVE  i = j
      BY <1>6 DEF IsInjective
    <2>1. p[i] \in DOMAIN rows /\ p[j] \in DOMAIN rows /\ rows[p[i]] = rows[p[j]]
      BY <1>2, <1>5, <1>6
    <2>2. p[i] = p[j]
      BY <2>1 DEF IsInjective
    <2> QED BY <1>5, <2>2
  <1> QED BY <1>1, <1>4, <1>6, <1>7, <1>8

\* Every row takes a byte.
LEMMA BytesOfBatches ==
    ASSUME NEW batches \in Seq(Seq(Row)), NEW batch \in Seq(Row)
    PROVE  /\ Rows(<<>>) = <<>> /\ Bytes(<<>>) = 0 /\ Bytes(batches) \in Nat
           /\ Rows(batches) \in Seq(Row)
           /\ Rows(Append(batches, batch)) = Rows(batches) \o batch
           /\ Bytes(Append(batches, batch)) = Bytes(batches) + Len(batch)
  <1>1. Rows(<<>>) = <<>> /\ Len(<<>>) = 0
    BY DEF Rows, FlattenSeq
  <1>2. Rows(batches) \in Seq(Row) /\ Rows(Append(batches, batch)) = Rows(batches) \o batch
    BY FlattenAppend DEF Rows
  <1>3. Len(Rows(batches)) \in Nat
    BY <1>2
  <1>4. Len(Rows(batches) \o batch) = Len(Rows(batches)) + Len(batch)
    BY <1>2, ConcatProperties
  <1> QED BY <1>1, <1>2, <1>3, <1>4 DEF Bytes

-----------------------------------------------------------------------------
(* The order of keys *)

Key == Int \cup {Null}

\* Precedes is a strict weak order on keys, in either direction.
LEMMA KeyOrder ==
    ASSUME Null \notin Int, NEW j \in Key, NEW k \in Key, NEW l \in Key
    PROVE  /\ ~Precedes(k, k)
           /\ Precedes(j, k) => ~Precedes(k, j)
           /\ ~Precedes(j, k) /\ ~Precedes(k, l) => ~Precedes(j, l)
  BY DEF Key, Precedes

\* Of the rows at the heads of some runs one comes out of the heap.
LEMMA HeadExists ==
    ASSUME Null \notin Int, NEW S, IsFiniteSet(S), S # {}, S \subseteq Nat,
           NEW head, \A r \in S : head[r].key \in Key
    PROVE  \E r \in S : \A q \in S : PopsBefore(head[r], r, head[q], q)
  <1> DEFINE R == {p \in S \X S : ~PopsBefore(head[p[2]], p[2], head[p[1]], p[1])}
  <1>1. ASSUME NEW x \in S, NEW y \in S
        PROVE  <<x, y>> \in R
               <=> /\ ~Precedes(head[y].key, head[x].key)
                   /\ Precedes(head[x].key, head[y].key) \/ x < y
    <2>1. x \in Nat /\ y \in Nat
      OBVIOUS
    <2> QED BY <2>1 DEF PopsBefore
  <1> HIDE DEF R
  <1>2. \A x \in S : <<x, x>> \notin R
    <2> SUFFICES ASSUME NEW x \in S PROVE <<x, x>> \notin R
      OBVIOUS
    <2>1. head[x].key \in Key /\ x \in Nat
      OBVIOUS
    <2>2. ~Precedes(head[x].key, head[x].key)
      BY <2>1, KeyOrder
    <2> QED BY <1>1, <2>1, <2>2
  <1>3. ASSUME NEW x \in S, NEW y \in S, NEW z \in S, <<x, y>> \in R, <<y, z>> \in R
        PROVE  <<x, z>> \in R
    <2>1. PICK j \in Key, k \in Key, l \in Key :
            j = head[x].key /\ k = head[y].key /\ l = head[z].key
      OBVIOUS
    <2>2. /\ ~Precedes(k, j) /\ (Precedes(j, k) \/ x < y)
          /\ ~Precedes(l, k) /\ (Precedes(k, l) \/ y < z)
      BY <1>1, <1>3, <2>1
    <2>3. ~Precedes(l, j)
      BY <2>2, KeyOrder
    <2>4. Precedes(j, l) \/ x < z
      <3> SUFFICES ASSUME ~Precedes(j, l) PROVE x < z
        OBVIOUS
      <3>1. ~Precedes(j, k)
        BY <2>2, KeyOrder
      <3>2. ~Precedes(k, l)
        BY <2>2, KeyOrder
      <3>3. x < y /\ y < z /\ x \in Nat /\ y \in Nat /\ z \in Nat
        BY <2>2, <3>1, <3>2
      <3> QED BY <3>3
    <2> QED BY <1>1, <2>1, <2>3, <2>4
  <1>4. PICK r \in S : \A q \in S : <<q, r>> \notin R
    BY <1>2, <1>3, MinimalExists
  <1>5. ASSUME NEW q \in S PROVE PopsBefore(head[r], r, head[q], q)
    BY <1>4 DEF R
  <1> QED BY <1>5

-----------------------------------------------------------------------------
(* Merging *)

\* A merge that has come to the cursors c has put out the rows in front of
\* them, in order, and none of the rows left belongs before one that is out.
Merged(runs, c, o) ==
    /\ c \in [DOMAIN runs -> Nat]
    /\ \A r \in DOMAIN runs : c[r] \in 1..(Len(runs[r]) + 1)
    /\ o \in Seq(Row) /\ IsSortedRun(o) /\ IsInjective(o)
    /\ \A i \in DOMAIN o : \E r \in DOMAIN runs : \E k \in 1..(c[r] - 1) : o[i] = runs[r][k]
    /\ \A r \in DOMAIN runs : \A k \in 1..(c[r] - 1) : runs[r][k] \in Range(o)
    /\ \A i \in DOMAIN o : \A r \in DOMAIN runs : \A k \in c[r]..Len(runs[r]) :
        ~Precedes(runs[r][k].key, o[i].key)

\* Popping the head that comes first keeps the merge in order and complete.
LEMMA PopKeeps ==
    ASSUME Null \notin Int, NEW runs, RunsOK(runs), NEW c, NEW o, Merged(runs, c, o),
           NEW r \in DOMAIN runs, c[r] <= Len(runs[r]),
           \A q \in DOMAIN runs : c[q] <= Len(runs[q])
                => PopsBefore(runs[r][c[r]], r, runs[q][c[q]], q)
    PROVE  Merged(runs, [c EXCEPT ![r] = @ + 1], Append(o, runs[r][c[r]]))
  <1> DEFINE h == runs[r][c[r]]
  <1>1. /\ \A q \in DOMAIN runs : /\ DOMAIN runs[q] = 1..Len(runs[q]) /\ Len(runs[q]) \in Nat
                                  /\ c[q] \in 1..(Len(runs[q]) + 1)
        /\ \A q \in DOMAIN runs : \A k \in 1..Len(runs[q]) : runs[q][k] \in Row
    <2>1. \A q \in DOMAIN runs : runs[q] \in Seq(Row)
      BY DEF RunsOK
    <2> QED BY <2>1 DEF Merged
  <1>2. c[r] \in 1..Len(runs[r]) /\ h \in Row
    BY <1>1
  <1>3. PICK d : d = [c EXCEPT ![r] = @ + 1]
    OBVIOUS
  <1>4. /\ d \in [DOMAIN runs -> Nat] /\ d[r] = c[r] + 1
        /\ \A q \in DOMAIN runs : q # r => d[q] = c[q]
        /\ \A q \in DOMAIN runs : d[q] \in 1..(Len(runs[q]) + 1) /\ c[q] <= d[q]
    BY <1>1, <1>2, <1>3 DEF Merged
  <1>5. PICK m \in Nat : m = Len(o) /\ DOMAIN o = 1..m
    BY DEF Merged
  <1>6. PICK p \in Seq(Row) : p = Append(o, h)
    BY <1>2, AppendProperties DEF Merged
  <1>7. /\ DOMAIN p = 1..(m + 1) /\ (\A i \in 1..m : p[i] = o[i]) /\ p[m + 1] = h
        /\ \A i \in 1..(m + 1) : i \in 1..m \/ i = m + 1
    BY <1>2, <1>5, <1>6, AppendProperties DEF Merged
  <1> HIDE DEF h
  <1>8. \A i \in 1..m : ~Precedes(h.key, o[i].key)
    <2>1. c[r] \in c[r]..Len(runs[r])
      BY <1>1, <1>2
    <2>2. \A i \in DOMAIN o : ~Precedes(runs[r][c[r]].key, o[i].key)
      BY <2>1 DEF Merged
    <2> QED BY <1>5, <2>2 DEF h
  <1>9. IsSortedRun(p)
    <2> SUFFICES ASSUME NEW i \in 1..(m + 1), NEW j \in 1..(m + 1), i < j
                 PROVE  ~Precedes(p[j].key, p[i].key)
      BY <1>7 DEF IsSortedRun
    <2>1. CASE j \in 1..m
      <3>1. i \in 1..m
        BY <2>1
      <3> QED BY <1>5, <1>7, <2>1, <3>1 DEF Merged, IsSortedRun
    <2>2. CASE j = m + 1
      <3>1. i \in 1..m
        BY <2>2
      <3> QED BY <1>7, <1>8, <2>2, <3>1
    <2> QED BY <1>7, <2>1, <2>2
  <1>10. \A i \in 1..m : o[i] # h
    <2> SUFFICES ASSUME NEW i \in 1..m, o[i] = h PROVE FALSE
      OBVIOUS
    <2>1. PICK q \in DOMAIN runs : \E k \in 1..(c[q] - 1) : o[i] = runs[q][k]
      BY <1>5 DEF Merged
    <2>2. PICK k \in 1..(c[q] - 1) : o[i] = runs[q][k]
      BY <2>1
    <2>3. k \in DOMAIN runs[q] /\ c[r] \in DOMAIN runs[r] /\ runs[q][k] = runs[r][c[r]]
      BY <1>1, <1>2, <2>2 DEF h
    <2>4. q = r /\ k = c[r]
      BY <2>3 DEF RunsOK
    <2> QED BY <1>2, <2>4
  <1>11. IsInjective(p)
    <2> SUFFICES ASSUME NEW i \in 1..(m + 1), NEW j \in 1..(m + 1), p[i] = p[j] PROVE i = j
      BY <1>7 DEF IsInjective
    <2>1. CASE i \in 1..m /\ j \in 1..m
      BY <1>5, <1>7, <2>1 DEF Merged, IsInjective
    <2> QED BY <1>7, <1>10, <2>1
  <1>12. ASSUME NEW i \in DOMAIN p
         PROVE  \E q \in DOMAIN runs : \E k \in 1..(d[q] - 1) : p[i] = runs[q][k]
    <2>1. CASE i \in 1..m
      <3>1. PICK q \in DOMAIN runs : \E k \in 1..(c[q] - 1) : o[i] = runs[q][k]
        BY <1>5, <2>1 DEF Merged
      <3>2. PICK k \in 1..(c[q] - 1) : o[i] = runs[q][k]
        BY <3>1
      <3>3. k \in 1..(d[q] - 1)
        BY <1>1, <1>4
      <3> QED BY <1>7, <2>1, <3>2, <3>3
    <2>2. CASE i = m + 1
      <3>1. c[r] \in 1..(d[r] - 1)
        BY <1>2, <1>1, <1>4
      <3> QED BY <1>7, <2>2, <3>1 DEF h
    <2> QED BY <1>7, <2>1, <2>2
  <1>13. ASSUME NEW q \in DOMAIN runs, NEW k \in 1..(d[q] - 1)
         PROVE  runs[q][k] \in Range(p)
    <2>1. CASE k \in 1..(c[q] - 1)
      <3>1. runs[q][k] \in Range(o)
        BY <2>1 DEF Merged
      <3> QED BY <1>5, <1>7, <3>1 DEF Range
    <2>2. CASE q = r /\ k = c[r]
      BY <1>7, <2>2 DEF Range, h
    <2>3. k \in 1..(c[q] - 1) \/ (q = r /\ k = c[r])
      <3>1. CASE q = r
        BY <1>1, <1>4, <3>1
      <3>2. CASE q # r
        BY <1>4, <3>2
      <3> QED BY <3>1, <3>2
    <2> QED BY <2>1, <2>2, <2>3
  <1>14. ASSUME NEW q \in DOMAIN runs, NEW k \in d[q]..Len(runs[q])
         PROVE  ~Precedes(runs[q][k].key, h.key)
    <2>1. k \in c[q]..Len(runs[q]) /\ k \in 1..Len(runs[q]) /\ c[q] \in 1..Len(runs[q])
      BY <1>1, <1>4
    <2>2. PICK x \in Key : x = runs[q][k].key
      BY <1>1, <2>1 DEF Row, Key
    <2>3. PICK y \in Key : y = h.key
      BY <1>2 DEF Row, Key
    <2>4. PICK z \in Key : z = runs[q][c[q]].key
      BY <1>1, <2>1 DEF Row, Key
    <2>5. \A i, j \in 1..Len(runs[q]) : i < j => ~Precedes(runs[q][j].key, runs[q][i].key)
      BY <1>1 DEF RunsOK, IsSortedRun
    <2>6. CASE q = r
      <3>1. c[q] < k
        BY <1>2, <1>4, <2>6, <2>1
      <3> QED BY <2>1, <2>5, <2>6, <3>1 DEF h
    <2>7. CASE q # r
      <3>1. ~Precedes(x, z)
        <4>1. CASE k = c[q]
          BY <2>2, <2>4, <4>1, KeyOrder
        <4>2. CASE k # c[q]
          <5>1. c[q] < k
            BY <2>1, <4>2
          <5> QED BY <2>1, <2>2, <2>4, <2>5, <5>1
        <4> QED BY <4>1, <4>2
      <3>2. PopsBefore(h, r, runs[q][c[q]], q)
        BY <2>1 DEF h
      <3>3. Precedes(y, z) \/ ~Precedes(z, y)
        BY <2>3, <2>4, <3>2 DEF PopsBefore
      <3>4. ~Precedes(z, y)
        BY <3>3, KeyOrder
      <3> QED BY <2>2, <2>3, <3>1, <3>4, KeyOrder
    <2> QED BY <2>6, <2>7
  <1>15. ASSUME NEW i \in DOMAIN p, NEW q \in DOMAIN runs, NEW k \in d[q]..Len(runs[q])
         PROVE  ~Precedes(runs[q][k].key, p[i].key)
    <2>1. CASE i \in 1..m
      <3>1. k \in c[q]..Len(runs[q])
        BY <1>1, <1>4
      <3> QED BY <1>5, <1>7, <2>1, <3>1 DEF Merged
    <2>2. CASE i = m + 1
      BY <1>7, <1>14, <2>2
    <2> QED BY <1>7, <2>1, <2>2
  <1>16. Merged(runs, d, p)
    BY <1>4, <1>6, <1>9, <1>11, <1>12, <1>13, <1>15 DEF Merged
  <1> QED BY <1>3, <1>6, <1>16 DEF h

\* A step of the heap, which stops when all cursors are at the end.
LEMMA PopRowKeeps ==
    ASSUME Null \notin Int, NEW acc, NEW n, RunsOK(state.runs),
           acc = [cursors |-> acc.cursors, out |-> acc.out],
           Merged(state.runs, acc.cursors, acc.out)
    PROVE  LET next == PopRow(acc, n)
           IN  /\ next = [cursors |-> next.cursors, out |-> next.out]
               /\ Merged(state.runs, next.cursors, next.out)
               /\ Live(acc.cursors) = {} => next = acc
  <1>1. CASE Live(acc.cursors) = {}
    BY <1>1 DEF PopRow
  <1>2. CASE Live(acc.cursors) # {}
    <2>1. PICK runs, c, o : runs = state.runs /\ c = acc.cursors /\ o = acc.out
      OBVIOUS
    <2>2. PICK live : live = Live(c)
      OBVIOUS
    <2>3. RunsOK(runs) /\ Merged(runs, c, o) /\ live = {r \in DOMAIN runs : c[r] <= Len(runs[r])}
      BY <2>1, <2>2 DEF Live, Merged
    <2>4. DOMAIN runs = 1..Len(runs) /\ Len(runs) \in Nat
      BY <2>3 DEF RunsOK
    <2>5. IsFiniteSet(live) /\ live # {} /\ live \subseteq Nat
      <3>1. IsFiniteSet(1..Len(runs))
        BY <2>4, FS_Interval
      <3>2. live \in SUBSET (1..Len(runs))
        BY <2>3, <2>4
      <3> QED BY <1>2, <2>1, <2>2, <2>4, <3>1, <3>2, FS_Subset
    <2>6. PICK head : head = [r \in live |-> runs[r][c[r]]]
      OBVIOUS
    <2>7. ASSUME NEW r \in live PROVE head[r].key \in Key
      <3>1. runs[r] \in Seq(Row) /\ c[r] \in 1..Len(runs[r])
        <4>1. runs[r] \in Seq(Row) /\ c[r] \in 1..(Len(runs[r]) + 1) /\ c[r] <= Len(runs[r])
          BY <2>3 DEF RunsOK, Merged
        <4> QED BY <4>1
      <3>2. runs[r][c[r]] \in Row
        BY <3>1
      <3> QED BY <2>6, <3>2 DEF Row, Key
    <2>8. \E r \in live : \A q \in live : PopsBefore(head[r], r, head[q], q)
      BY <2>5, <2>7, HeadExists
    <2>9. \E r \in live : \A q \in live : PopsBefore(runs[r][c[r]], r, runs[q][c[q]], q)
      BY <2>6, <2>8
    <2>10. PICK r : r = CHOOSE p \in live :
                            \A q \in live : PopsBefore(runs[p][c[p]], p, runs[q][c[q]], q)
      OBVIOUS
    <2>11. r \in live /\ \A q \in live : PopsBefore(runs[r][c[r]], r, runs[q][c[q]], q)
      BY <2>9, <2>10
    <2>12. PopRow(acc, n) = [cursors |-> [c EXCEPT ![r] = @ + 1], out |-> Append(o, runs[r][c[r]])]
      BY <1>2, <2>1, <2>2, <2>10 DEF PopRow
    <2>13. Merged(runs, [c EXCEPT ![r] = @ + 1], Append(o, runs[r][c[r]]))
      BY <2>3, <2>11, PopKeeps
    <2> QED BY <1>2, <2>1, <2>12, <2>13
  <1> QED BY <1>1, <1>2

\* The greatest element of a set of batch numbers.
LEMMA MaxIs ==
    ASSUME NEW S \in SUBSET Nat, NEW m \in S, \A k \in S : k <= m
    PROVE  Max(S) = m
  <1>1. Max(S) = CHOOSE x \in S : \A y \in S : x >= y
    BY DEF Max
  <1>2. \E x \in S : \A y \in S : x >= y
    OBVIOUS
  <1>3. PICK x : x = Max(S)
    OBVIOUS
  <1>4. x \in S /\ \A y \in S : x >= y
    BY <1>1, <1>2, <1>3
  <1>5. x >= m /\ x <= m /\ x \in Nat /\ m \in Nat
    BY <1>4
  <1> QED BY <1>3, <1>5

\* A fold is a choice of a solution of a recursion over sets of indices.
IsFold(iter, base, n) ==
    iter = [s \in SUBSET (1..n) |->
                IF s = {} THEN base ELSE PopRow(iter[s \ {Max(s)}], Max(s))]

\* For every number of pops a solution exists.
LEMMA FoldExists ==
    ASSUME NEW base, NEW n \in Nat
    PROVE  \E iter : IsFold(iter, base, n)
  <1> DEFINE Good == {m \in 0..n : \E iter : IsFold(iter, base, m)}
  <1>1. \E iter : IsFold(iter, base, 0)
    <2> DEFINE iter == [s \in SUBSET (1..0) |-> base]
    <2>1. \A s \in SUBSET (1..0) : s = {}
      OBVIOUS
    <2>2. IsFold(iter, base, 0)
      BY <2>1 DEF IsFold
    <2> QED BY <2>2
  <1>2. ASSUME NEW m \in 0..(n - 1), NEW iter, IsFold(iter, base, m)
        PROVE  \E more : IsFold(more, base, m + 1)
    <2> DEFINE more == [s \in SUBSET (1..(m + 1)) |->
                            IF m + 1 \in s THEN PopRow(iter[s \ {m + 1}], m + 1) ELSE iter[s]]
    <2>1. \A s \in SUBSET (1..m) :
            iter[s] = IF s = {} THEN base ELSE PopRow(iter[s \ {Max(s)}], Max(s))
      BY <1>2 DEF IsFold
    <2>2. ASSUME NEW s \in SUBSET (1..(m + 1))
          PROVE  more[s] = IF s = {} THEN base ELSE PopRow(more[s \ {Max(s)}], Max(s))
      <3>1. CASE m + 1 \in s
        <4>1. Max(s) = m + 1
          <5>1. s \in SUBSET Nat /\ \A k \in s : k <= m + 1
            OBVIOUS
          <5> QED BY <3>1, <5>1, MaxIs
        <4>2. s \ {m + 1} \in SUBSET (1..(m + 1)) /\ m + 1 \notin s \ {m + 1}
          OBVIOUS
        <4>3. more[s \ {m + 1}] = iter[s \ {m + 1}]
          BY <4>2
        <4>4. more[s] = PopRow(iter[s \ {m + 1}], m + 1)
          BY <3>1
        <4> HIDE DEF more
        <4> QED BY <3>1, <4>1, <4>3, <4>4
      <3>2. CASE m + 1 \notin s
        <4>1. s \in SUBSET (1..m)
          BY <3>2
        <4>2. s \ {Max(s)} \in SUBSET (1..(m + 1)) /\ m + 1 \notin s \ {Max(s)}
          BY <3>2
        <4>3. more[s \ {Max(s)}] = iter[s \ {Max(s)}]
          BY <4>2
        <4>4. more[s] = iter[s]
          BY <3>2
        <4> HIDE DEF more
        <4> QED BY <2>1, <4>1, <4>3, <4>4
      <3> QED BY <3>1, <3>2
    <2>3. more = [s \in SUBSET (1..(m + 1)) |-> more[s]]
      OBVIOUS
    <2> HIDE DEF more
    <2>4. IsFold(more, base, m + 1)
      BY <2>2, <2>3 DEF IsFold
    <2> QED BY <2>4
  <1>3. 0 \in Good /\ \A k \in 0..(n - 1) : k \in Good => k + 1 \in Good
    BY <1>1, <1>2
  <1>4. 0..n \subseteq Good
    <2> HIDE DEF Good
    <2> QED BY <1>3, UpTo
  <1> QED BY <1>4

\* The rows of a batch pop one after the other.
LEMMA FoldSteps ==
    ASSUME NEW base, NEW n \in Nat
    PROVE  \E g : /\ g[0] = base
                  /\ \A k \in 0..(n - 1) : g[k + 1] = PopRow(g[k], k + 1)
                  /\ FoldLeft(PopRow, base, [k \in 1..n |-> k]) = g[n]
  <1>1. PICK iter : /\ IsFold(iter, base, n)
                    /\ FoldLeft(PopRow, base, [k \in 1..n |-> k]) = iter[1..n]
    <2> DEFINE F(f) == f = [s \in SUBSET (1..n) |->
                            IF s = {} THEN base ELSE PopRow(f[s \ {Max(s)}], [k \in 1..n |-> k][Max(s)])]
    <2>1. FoldLeft(PopRow, base, [k \in 1..n |-> k]) = (CHOOSE f : F(f))[1..n]
      BY DEF FoldLeft, MapThenFoldSet
    <2>2. ASSUME NEW f PROVE F(f) <=> IsFold(f, base, n)
      <3>1. ASSUME NEW s \in SUBSET (1..n), s # {}
            PROVE  [k \in 1..n |-> k][Max(s)] = Max(s)
        <4>1. IsFiniteSet(1..n)
          BY FS_Interval
        <4>2. IsFiniteSet(s) /\ s \in SUBSET Int /\ s \in SUBSET Nat
          <5>1. IsFiniteSet(s)
            BY <4>1, FS_Subset
          <5> QED BY <5>1
        <4>3. PICK m \in s : \A u \in s : m >= u
          BY <3>1, <4>2, LeastAndGreatest
        <4>4. Max(s) = m
          BY <4>2, <4>3, MaxIs
        <4> QED BY <4>3, <4>4
      <3> QED BY <3>1 DEF IsFold
    <2> HIDE DEF F
    <2>3. \E f : F(f)
      BY <2>2, FoldExists
    <2>4. F(CHOOSE f : F(f))
      BY <2>3
    <2> QED BY <2>1, <2>2, <2>4
  <1> DEFINE g == [k \in 0..n |-> iter[1..k]]
  <1>2. \A s \in SUBSET (1..n) :
            iter[s] = IF s = {} THEN base ELSE PopRow(iter[s \ {Max(s)}], Max(s))
    BY <1>1 DEF IsFold
  <1>3. g[0] = base
    <2>1. 1..0 = {} /\ {} \in SUBSET (1..n)
      OBVIOUS
    <2> QED BY <1>2, <2>1
  <1>4. ASSUME NEW k \in 0..(n - 1) PROVE g[k + 1] = PopRow(g[k], k + 1)
    <2>1. /\ 1..(k + 1) \in SUBSET (1..n) /\ 1..(k + 1) # {}
          /\ (1..(k + 1)) \ {k + 1} = 1..k
          /\ 1..(k + 1) \in SUBSET Nat /\ k + 1 \in 1..(k + 1) /\ \A j \in 1..(k + 1) : j <= k + 1
      OBVIOUS
    <2>2. Max(1..(k + 1)) = k + 1
      BY <2>1, MaxIs
    <2>3. iter[1..(k + 1)] = PopRow(iter[1..k], k + 1)
      BY <1>2, <2>1, <2>2
    <2> QED BY <2>3
  <1>5. g[n] = iter[1..n]
    OBVIOUS
  <1> HIDE DEF g
  <1> QED BY <1>1, <1>3, <1>4, <1>5

\* A batch of a merge.
LEMMA BatchKeeps ==
    ASSUME Null \notin Int, BatchSize \in Nat, RunsOK(state.runs),
           Merged(state.runs, state.cursors, out)
    PROVE  LET acc == FoldLeft(PopRow, [cursors |-> state.cursors, out |-> out],
                               [n \in 1..BatchSize |-> n])
           IN  /\ Merged(state.runs, acc.cursors, acc.out)
               /\ Live(state.cursors) = {} => acc.out = out
  <1> DEFINE base == [cursors |-> state.cursors, out |-> out]
             Kept(acc) == /\ acc = [cursors |-> acc.cursors, out |-> acc.out]
                          /\ Merged(state.runs, acc.cursors, acc.out)
                          /\ Live(state.cursors) = {} => acc = base
  <1>1. PICK g : /\ g[0] = base
                 /\ \A k \in 0..(BatchSize - 1) : g[k + 1] = PopRow(g[k], k + 1)
                 /\ FoldLeft(PopRow, base, [n \in 1..BatchSize |-> n]) = g[BatchSize]
    <2> HIDE DEF base
    <2> QED BY FoldSteps
  <1>2. Kept(g[0])
    BY <1>1
  <1>3. ASSUME NEW k \in 0..(BatchSize - 1), Kept(g[k]) PROVE Kept(g[k + 1])
    <2>1. PICK acc : acc = g[k]
      OBVIOUS
    <2>2. PICK next : next = PopRow(acc, k + 1)
      OBVIOUS
    <2>3. /\ next = [cursors |-> next.cursors, out |-> next.out]
          /\ Merged(state.runs, next.cursors, next.out)
          /\ Live(acc.cursors) = {} => next = acc
      BY <1>3, <2>1, <2>2, PopRowKeeps
    <2>4. Live(state.cursors) = {} => next = base
      BY <1>3, <2>1, <2>3
    <2>5. g[k + 1] = next
      BY <1>1, <2>1, <2>2
    <2> QED BY <2>3, <2>4, <2>5
  <1> DEFINE Good == {k \in 0..BatchSize : Kept(g[k])}
  <1> HIDE DEF Kept
  <1>4. 0 \in Good /\ \A k \in 0..(BatchSize - 1) : k \in Good => k + 1 \in Good
    BY <1>2, <1>3
  <1>5. 0..BatchSize \subseteq Good
    <2> HIDE DEF Good
    <2> QED BY <1>4, UpTo
  <1>6. Kept(g[BatchSize])
    BY <1>5
  <1> QED BY <1>1, <1>6 DEF Kept

-----------------------------------------------------------------------------
(* The invariant of a sort *)

\* The results of a sort that gave up with batches in its buffer.
Aborted == {"Execution", "MemoryBudgetExceeded", "Cancelled"}

JobOK ==
    /\ Null \notin Int \cup Results
    /\ BatchSize \in Nat
    /\ job \in Job
    /\ job.others <= job.budget
    /\ IsInjective(InputRows)

StateType ==
    [phase : {"Accumulating", "Merging", "Done", "Dropped"}, next : Nat, buffer : Seq(Seq(Row)),
     used : Int, runs : Seq(Seq(Row)), spilled : Nat, cursors : Seq(Nat),
     cancelled : BOOLEAN, result : {Null} \cup Results]

\* What the tracker counts.
Budgeted(s) == s.used = job.others + Bytes(s.buffer) /\ s.used <= job.budget

\* While the sort accumulates, runs and buffer hold the rows read, each once.
Held(s) ==
    s.phase = "Accumulating" =>
        /\ s.next \in 1..(Len(job.batches) + 1)
        /\ RunsOK(s.runs)
        /\ IsInjective(Rows(s.buffer))
        /\ RunRows(s.runs) \cap Range(Rows(s.buffer)) = {}
        /\ RunRows(s.runs) \cup Range(Rows(s.buffer)) = Range(Rows(SubSeq(job.batches, 1, s.next - 1)))

\* After that nothing is buffered unless the sort gave up.
Emptied(s) ==
    s.phase = "Merging" \/ (s.phase \in {"Done", "Dropped"} /\ s.result \notin Aborted)
        => s.buffer = <<>>

\* While it merges, the runs hold the child's rows.
MergeInv ==
    state.phase = "Merging" =>
        /\ RunsOK(state.runs)
        /\ RunRows(state.runs) = Range(InputRows)
        /\ Merged(state.runs, state.cursors, out)

\* SortExact and BudgetExact hold of what the sort does next because of what its
\* runs and buffer hold now.
SortInv ==
    /\ JobOK
    /\ state \in StateType
    /\ Budgeted(state)
    /\ Held(state)
    /\ Emptied(state)
    /\ MergeInv
    /\ state.phase = "Accumulating" => out = <<>>
    /\ out \in Seq(Row)
    /\ SortExact

\* The rows of a batch more.
LEMMA NextBatch ==
    ASSUME JobOK, NEW n \in 1..Len(job.batches)
    PROVE  /\ job.batches \in Seq(Seq(Row)) /\ job.batches[n] \in Seq(Row)
           /\ Len(job.batches) \in Nat
           /\ LET before == Rows(SubSeq(job.batches, 1, n - 1))
                  after  == Rows(SubSeq(job.batches, 1, n))
              IN  /\ before \in Seq(Row)
                  /\ Range(after) = Range(before) \cup Range(job.batches[n])
                  /\ IsInjective(job.batches[n])
                  /\ Range(before) \cap Range(job.batches[n]) = {}
  <1>1. PICK b \in Seq(Seq(Row)) : b = job.batches
    BY DEF JobOK, Job
  <1>2. n \in 1..Len(b) /\ Len(b) \in Nat /\ n - 1 \in Nat /\ n - 1 < Len(b) /\ n \in 0..Len(b)
        /\ b[n] \in Seq(Row) /\ n - 1 + 1 = n
    BY <1>1
  <1>3. PICK x \in Seq(Row) : x = b[n]
    BY <1>2
  <1>4. /\ SubSeq(b, 1, n - 1) \in Seq(Seq(Row))
        /\ SubSeq(b, 1, n) = Append(SubSeq(b, 1, n - 1), x)
    <2>1. /\ SubSeq(b, 1, n - 1) \in Seq(Seq(Row))
          /\ SubSeq(b, 1, n - 1 + 1) = Append(SubSeq(b, 1, n - 1), b[n - 1 + 1])
      BY <1>2, PrefixNext
    <2> QED BY <1>2, <1>3, <2>1
  <1>5. PICK before \in Seq(Row) : before = Rows(SubSeq(b, 1, n - 1))
    BY <1>4, FlattenAppend DEF Rows
  <1>6. PICK after \in Seq(Row) : after = Rows(SubSeq(b, 1, n))
    BY <1>2, FlattenPrefix DEF Rows
  <1>7. after = before \o x
    BY <1>4, <1>5, <1>6, FlattenAppend DEF Rows
  <1>8. StartsWith(Rows(b), after, Row)
    BY <1>2, <1>6, FlattenPrefix DEF Rows
  <1>9. PICK t \in Seq(Row) : Rows(b) = after \o t
    BY <1>8 DEF StartsWith
  <1>10. IsInjective(Rows(b))
    BY <1>1 DEF JobOK, InputRows
  <1>11. IsInjective(after)
    <2>1. IsInjective(after \o t)
      BY <1>9, <1>10
    <2> QED BY <2>1, InjectiveConcat
  <1>12. /\ Range(after) = Range(before) \cup Range(x)
         /\ IsInjective(x) /\ Range(before) \cap Range(x) = {}
    <2>1. IsInjective(before \o x)
      BY <1>7, <1>11
    <2> QED BY <1>7, <2>1, InjectiveConcat
  <1> QED BY <1>1, <1>2, <1>3, <1>5, <1>6, <1>12

\* A reservation keeps the sort's books, whether or not there is room.
LEMMA ReserveKeeps ==
    ASSUME JobOK, NEW s \in StateType, s.phase = "Accumulating", Budgeted(s), Held(s),
           s.next \in 1..Len(job.batches), NEW batch, batch = job.batches[s.next],
           NEW t, t = Reserve(s, batch)
    PROVE  /\ t \in StateType /\ Budgeted(t) /\ Held(t)
           /\ \/ t.phase = "Accumulating" /\ t.result = s.result
              \/ t.phase = "Done" /\ t.result \in Aborted
  <1>1. PICK n \in Nat : n = Len(batch)
    <2>1. batch \in Seq(Row)
      BY NextBatch
    <2> QED BY <2>1
  <1>2. batch \in Seq(Row) /\ s.buffer \in Seq(Seq(Row)) /\ s.used \in Int /\ s.next \in Nat
        /\ job.budget \in Nat /\ job.others \in Nat
    BY NextBatch DEF StateType, JobOK, Job
  <1>3. ASSUME NEW u \in StateType, NEW error \in Aborted, Budgeted(u), NEW v, v = Fail(u, error)
        PROVE  v \in StateType /\ Budgeted(v) /\ Held(v) /\ v.phase = "Done" /\ v.result = error
    <2>1. v = [u EXCEPT !.phase = "Done", !.result = error] /\ error \in {Null} \cup Results
      BY <1>3 DEF Fail, Aborted, Results
    <2>2. /\ v \in StateType /\ v.phase = "Done" /\ v.result = error
          /\ v.used = u.used /\ v.buffer = u.buffer
      BY <2>1 DEF StateType
    <2> QED BY <1>3, <2>2 DEF Budgeted, Held
  <1>4. CASE ~Fits(s.used, n)
    <2>1. Charge(s.used, n) = s.used
      BY <1>4 DEF Charge
    <2>2. [s EXCEPT !.used = Charge(@, n)] = s
      BY <2>1 DEF StateType
    <2>3. t = Fail(s, "MemoryBudgetExceeded")
      BY <1>1, <1>4, <2>2 DEF Reserve
    <2> QED BY <1>3, <2>3 DEF Aborted
  <1>5. CASE Fits(s.used, n) /\ Len(Taken) > job.maxRows
    <2>1. t = Fail(s, "Execution")
      BY <1>1, <1>5 DEF Reserve, Push
    <2> QED BY <1>3, <2>1 DEF Aborted
  <1>6. CASE Fits(s.used, n) /\ ~(Len(Taken) > job.maxRows)
    <2>1. PICK p : p = [s EXCEPT !.next = @ + 1, !.buffer = Append(@, batch), !.used = @ + n]
      OBVIOUS
    <2>2. t = IF s.cancelled THEN Fail(p, "Cancelled") ELSE p
      BY <1>1, <1>6, <2>1 DEF Reserve, Push, Charge, StateType
    <2>3. Append(s.buffer, batch) \in Seq(Seq(Row)) /\ s.used + n \in Int /\ s.next + 1 \in Nat
      BY <1>1, <1>2, AppendProperties
    <2>4. /\ p \in StateType /\ p.phase = "Accumulating" /\ p.result = s.result
          /\ p.next = s.next + 1 /\ p.buffer = Append(s.buffer, batch)
          /\ p.used = s.used + n /\ p.runs = s.runs
      BY <2>1, <2>3 DEF StateType
    <2>5. Budgeted(p)
      <3>1. Bytes(Append(s.buffer, batch)) = Bytes(s.buffer) + n /\ Bytes(s.buffer) \in Nat
        BY <1>1, <1>2, BytesOfBatches
      <3>2. s.used = job.others + Bytes(s.buffer) /\ s.used + n <= job.budget
        BY <1>6 DEF Budgeted, Fits
      <3> QED BY <1>2, <2>4, <3>1, <3>2 DEF Budgeted
    <2>6. Held(p)
      <3>1. PICK rows \in Seq(Row) : rows = Rows(s.buffer)
        BY <1>2, BytesOfBatches
      <3>2. Rows(p.buffer) = rows \o batch
        BY <1>2, <2>4, <3>1, BytesOfBatches
      <3>3. PICK before : before = Rows(SubSeq(job.batches, 1, s.next - 1))
        OBVIOUS
      <3>4. PICK after : after = Rows(SubSeq(job.batches, 1, s.next))
        OBVIOUS
      <3>5. /\ Range(after) = Range(before) \cup Range(batch)
            /\ IsInjective(batch) /\ Range(before) \cap Range(batch) = {}
        BY <3>3, <3>4, NextBatch
      <3>6. /\ RunsOK(s.runs) /\ IsInjective(rows)
            /\ RunRows(s.runs) \cap Range(rows) = {}
            /\ RunRows(s.runs) \cup Range(rows) = Range(before)
        BY <3>1, <3>3 DEF Held
      <3>7. Range(rows) \cap Range(batch) = {}
        BY <3>5, <3>6
      <3>8. Range(rows \o batch) = Range(rows) \cup Range(batch) /\ IsInjective(rows \o batch)
        BY <1>2, <3>5, <3>6, <3>7, InjectiveConcat
      <3>9. /\ RunRows(s.runs) \cap Range(rows \o batch) = {}
            /\ RunRows(s.runs) \cup Range(rows \o batch) = Range(after)
        BY <3>5, <3>6, <3>8
      <3>10. p.next - 1 = s.next /\ p.next \in 1..(Len(job.batches) + 1)
        <4>1. Len(job.batches) \in Nat
          BY NextBatch
        <4> QED BY <1>2, <2>4, <4>1
      <3> QED BY <2>4, <3>2, <3>4, <3>6, <3>8, <3>9, <3>10 DEF Held
    <2>7. CASE s.cancelled
      <3>1. t = Fail(p, "Cancelled")
        BY <2>2, <2>7
      <3> QED BY <1>3, <2>4, <2>5, <3>1 DEF Aborted
    <2>8. CASE ~s.cancelled
      BY <2>2, <2>4, <2>5, <2>6, <2>8
    <2> QED BY <2>7, <2>8
  <1> QED BY <1>4, <1>5, <1>6

\* A step that leaves the job, and puts the sort in a state t that keeps the books.
LEMMA Concludes ==
    ASSUME SortInv, job' = job, NEW t, t = state', t \in StateType,
           Budgeted(t), Held(t), Emptied(t), MergeInv', out' \in Seq(Row), SortExact',
           t.phase = "Accumulating" => out' = <<>>
    PROVE  SortInv'
  <1>1. JobOK'
    BY DEF SortInv, JobOK, InputRows
  <1>2. Budgeted(state)'
    BY DEF Budgeted
  <1>3. Held(state)'
    BY DEF Held, RunsOK, IsSortedRun, Precedes
  <1>4. Emptied(state)'
    BY DEF Emptied
  <1> QED BY <1>1, <1>2, <1>3, <1>4 DEF SortInv, StateType

\* What is out stays exact when nothing comes out and the sort does not end.
LEMMA SameOutput ==
    ASSUME SortInv, job' = job, out' = out, state'.result = "done" => state.result = "done"
    PROVE  SortExact' /\ out' \in Seq(Row)
  BY DEF SortInv, SortExact, IsSortedRun, Precedes, InputRows

\* The merge is where it was.
LEMMA SameMerge ==
    ASSUME SortInv, job' = job, out' = out,
           state'.phase = "Merging" => /\ state.phase = "Merging"
                                       /\ state'.runs = state.runs /\ state'.cursors = state.cursors
    PROVE  MergeInv'
  <1> SUFFICES ASSUME state'.phase = "Merging"
               PROVE  /\ RunsOK(state.runs)'
                      /\ RunRows(state'.runs) = Range(InputRows')
                      /\ Merged(state.runs, state.cursors, out)'
    BY DEF MergeInv
  <1>1. RunsOK(state.runs) /\ RunRows(state.runs) = Range(InputRows)
        /\ Merged(state.runs, state.cursors, out)
    BY DEF SortInv, MergeInv
  <1>2. RunsOK(state.runs)'
    BY <1>1 DEF RunsOK, IsSortedRun, Precedes
  <1>3. RunRows(state'.runs) = Range(InputRows')
    BY <1>1 DEF InputRows
  <1>4. Merged(state.runs, state.cursors, out)'
    <2>1. state'.runs = state.runs /\ state'.cursors = state.cursors
      OBVIOUS
    <2>2. IsSortedRun(out)'
      BY <1>1 DEF Merged, IsSortedRun, Precedes
    <2>3. (\A i \in DOMAIN out : \A r \in DOMAIN state.runs :
            \A k \in state.cursors[r]..Len(state.runs[r]) :
                ~Precedes(state.runs[r][k].key, out[i].key))'
      <3>1. \A i \in DOMAIN out : \A r \in DOMAIN state.runs :
                \A k \in state.cursors[r]..Len(state.runs[r]) :
                    ~Precedes(state.runs[r][k].key, out[i].key)
        BY <1>1 DEF Merged
      <3> QED BY <2>1, <3>1 DEF Precedes
    <2> QED BY <1>1, <2>1, <2>2, <2>3 DEF Merged
  <1> QED BY <1>2, <1>3, <1>4

\* What a sort without its buffer counts.
LEMMA BufferGone ==
    ASSUME JobOK, NEW s \in StateType, Budgeted(s), NEW t, t = WithoutBuffer(s)
    PROVE  /\ t \in StateType /\ Budgeted(t) /\ t.buffer = <<>>
           /\ t = [s EXCEPT !.buffer = <<>>, !.used = job.others]
  <1>1. s.buffer \in Seq(Seq(Row)) /\ <<>> \in Seq(Seq(Row)) /\ <<>> \in Seq(Row)
    BY EmptySeq DEF StateType
  <1>2. Bytes(<<>>) = 0 /\ Bytes(s.buffer) \in Nat
    BY <1>1, BytesOfBatches
  <1>3. job.others \in Nat /\ job.others <= job.budget
    BY DEF JobOK, Job
  <1>4. s.used - Bytes(s.buffer) = job.others
    BY <1>2, <1>3 DEF Budgeted
  <1>5. t = [s EXCEPT !.buffer = <<>>, !.used = job.others]
    BY <1>4 DEF WithoutBuffer
  <1>6. t \in StateType /\ t.buffer = <<>> /\ t.used = job.others
    <2>1. PICK b \in Seq(Seq(Row)), n \in Int : b = <<>> /\ n = job.others
      <3>1. job.others \in Int
        BY <1>3
      <3> QED BY <1>1, <3>1
    <2>2. t = [s EXCEPT !.buffer = b, !.used = n]
      BY <1>5, <2>1
    <2>3. t \in StateType /\ t.buffer = b /\ t.used = n
      BY <2>2 DEF StateType
    <2> QED BY <2>1, <2>3
  <1> QED BY <1>2, <1>3, <1>5, <1>6 DEF Budgeted

\* Pulling a batch into memory keeps the invariant.
LEMMA PullKeeps == SortInv /\ Pull => SortInv'
  <1> SUFFICES ASSUME SortInv, Pull PROVE SortInv'
    OBVIOUS
  <1>1. PICK t : t = state'
    OBVIOUS
  <1>2. /\ t = Reserve(state, Batch) /\ job' = job /\ out' = out
        /\ state.phase = "Accumulating" /\ state.result = Null /\ state.next <= Len(job.batches)
    BY <1>1 DEF Pull, Pulling
  <1>3. JobOK /\ state \in StateType /\ Budgeted(state) /\ Held(state) /\ out = <<>>
    BY <1>2 DEF SortInv
  <1>4. state.next \in 1..Len(job.batches)
    BY <1>2, <1>3 DEF Held, JobOK, Job
  <1>5. /\ t \in StateType /\ Budgeted(t) /\ Held(t)
        /\ \/ t.phase = "Accumulating" /\ t.result = state.result
           \/ t.phase = "Done" /\ t.result \in Aborted
    BY <1>2, <1>3, <1>4, ReserveKeeps DEF Batch
  <1>6. Emptied(t) /\ t.phase # "Merging" /\ t.result # "done"
    BY <1>2, <1>3, <1>5 DEF Emptied, JobOK, Aborted, Results
  <1>7. SortExact' /\ out' \in Seq(Row)
    BY <1>1, <1>2, <1>6, SameOutput
  <1>8. MergeInv'
    BY <1>1, <1>6 DEF MergeInv
  <1> QED BY <1>1, <1>2, <1>3, <1>5, <1>6, <1>7, <1>8, Concludes

\* So does pulling one that makes the buffer spill,
LEMMA PullSpillingKeeps == SortInv /\ PullSpilling => SortInv'
  <1> SUFFICES ASSUME SortInv, PullSpilling PROVE SortInv'
    OBVIOUS
  <1>1. PICK t : t = state'
    OBVIOUS
  <1>2. PICK run \in SortedRuns(state.buffer) :
            t = Reserve([WithoutBuffer(state) EXCEPT !.runs = Append(@, run), !.spilled = @ + 1], Batch)
    BY <1>1 DEF PullSpilling
  <1>3. /\ job' = job /\ out' = out
        /\ state.phase = "Accumulating" /\ state.result = Null /\ state.next <= Len(job.batches)
    BY DEF PullSpilling, Pulling
  <1>4. JobOK /\ state \in StateType /\ Budgeted(state) /\ Held(state) /\ out = <<>>
    BY <1>3 DEF SortInv
  <1>5. PICK s : s = [WithoutBuffer(state) EXCEPT !.runs = Append(@, run), !.spilled = @ + 1]
    OBVIOUS
  <1>6. PICK w : w = WithoutBuffer(state)
    OBVIOUS
  <1>7. /\ w \in StateType /\ Budgeted(w) /\ w.buffer = <<>>
        /\ w = [state EXCEPT !.buffer = <<>>, !.used = job.others]
    BY <1>4, <1>6, BufferGone
  <1>8. state.buffer \in Seq(Seq(Row)) /\ state.runs \in Seq(Seq(Row))
    BY <1>4 DEF StateType
  <1>9. /\ run \in Seq(Row) /\ IsSortedRun(run)
        /\ Range(run) = Range(Rows(state.buffer)) /\ IsInjective(run)
    BY <1>3, <1>4, <1>8, SortedBuffer DEF Held
  <1>10. /\ RunsOK(Append(state.runs, run))
         /\ RunRows(Append(state.runs, run)) = RunRows(state.runs) \cup Range(run)
    BY <1>3, <1>4, <1>9, AddRun DEF Held
  <1>11. Append(state.runs, run) \in Seq(Seq(Row))
    BY <1>10 DEF RunsOK
  <1>12. /\ s = [w EXCEPT !.runs = Append(state.runs, run), !.spilled = @ + 1]
         /\ s \in StateType /\ s.phase = "Accumulating" /\ s.result = Null /\ s.next = state.next
         /\ s.buffer = <<>> /\ s.used = w.used /\ s.runs = Append(state.runs, run)
    <2>1. w.runs = state.runs /\ w.phase = state.phase /\ w.result = state.result /\ w.next = state.next
      BY <1>4, <1>7 DEF StateType
    <2>2. PICK more \in Seq(Seq(Row)) : more = Append(state.runs, run)
      BY <1>11
    <2>3. s = [w EXCEPT !.runs = more, !.spilled = @ + 1]
      BY <1>5, <1>6, <2>1, <2>2
    <2>4. /\ s \in StateType /\ s.phase = w.phase /\ s.result = w.result /\ s.next = w.next
          /\ s.buffer = w.buffer /\ s.used = w.used /\ s.runs = more
      <3>1. w \in StateType
        BY <1>7
      <3>2. PICK n \in Nat : n = w.spilled + 1
        BY <3>1 DEF StateType
      <3>3. s = [w EXCEPT !.runs = more, !.spilled = n]
        BY <2>3, <3>2
      <3> QED BY <3>1, <3>3 DEF StateType
    <2> QED BY <1>3, <1>7, <2>1, <2>2, <2>3, <2>4
  <1>13. Budgeted(s)
    BY <1>7, <1>12 DEF Budgeted
  <1>14. Held(s)
    <2>1. Rows(<<>>) = <<>>
      BY DEF Rows, FlattenSeq
    <2>2. Range(<<>>) = {} /\ IsInjective(<<>>)
      BY DEF Range, IsInjective
    <2> QED BY <1>3, <1>4, <1>9, <1>10, <1>12, <2>1, <2>2 DEF Held
  <1>15. state.next \in 1..Len(job.batches)
    BY <1>3, <1>4 DEF Held, JobOK, Job
  <1>16. /\ t \in StateType /\ Budgeted(t) /\ Held(t)
         /\ \/ t.phase = "Accumulating" /\ t.result = Null
            \/ t.phase = "Done" /\ t.result \in Aborted
    <2>1. PICK batch : batch = job.batches[s.next]
      OBVIOUS
    <2>2. t = Reserve(s, batch)
      BY <1>2, <1>5, <1>12, <2>1 DEF Batch
    <2>3. s \in StateType /\ s.phase = "Accumulating" /\ s.next \in 1..Len(job.batches)
          /\ s.result = Null
      BY <1>12, <1>15
    <2> QED BY <1>4, <1>13, <1>14, <2>1, <2>2, <2>3, ReserveKeeps
  <1>17. Emptied(t) /\ t.phase # "Merging" /\ t.result # "done"
    BY <1>4, <1>16 DEF Emptied, JobOK, Aborted, Results
  <1>18. SortExact' /\ out' \in Seq(Row)
    BY <1>1, <1>3, <1>17, SameOutput
  <1>19. MergeInv'
    BY <1>1, <1>17 DEF MergeInv
  <1> QED BY <1>1, <1>3, <1>4, <1>16, <1>17, <1>18, <1>19, Concludes

\* The steps that give up, are cancelled or end the query.
LEMMA EndsKeep ==
    ASSUME SortInv, SpillFails \/ CancelledAtEntry \/ BuildFails \/ ReadFails \/ Cancel \/ CloseAndDrop
    PROVE  SortInv'
  <1>1. PICK t : t = state'
    OBVIOUS
  <1>2. JobOK /\ state \in StateType /\ Budgeted(state) /\ Held(state) /\ Emptied(state)
        /\ job' = job /\ out' = out /\ (state.phase = "Accumulating" => out = <<>>)
    BY DEF SortInv, SpillFails, CancelledAtEntry, BuildFails, ReadFails, Cancel, CloseAndDrop
  <1>3. PICK w : w = WithoutBuffer(state)
    OBVIOUS
  <1>4. /\ w \in StateType /\ Budgeted(w) /\ w.buffer = <<>>
        /\ w = [state EXCEPT !.buffer = <<>>, !.used = job.others]
    BY <1>2, <1>3, BufferGone
  <1>5. /\ <<>> \in Seq(Seq(Row)) /\ <<>> \in Seq(Nat)
        /\ "Io" \in {Null} \cup Results /\ "Cancelled" \in {Null} \cup Results
        /\ "MemoryBudgetExceeded" \in {Null} \cup Results
        /\ Null \notin Results
    BY <1>2, EmptySeq DEF Results, JobOK
  <1>6. SUFFICES
            /\ t \in StateType /\ Budgeted(t) /\ Held(t) /\ Emptied(t)
            /\ t.result = "done" => state.result = "done"
            /\ t.phase = "Accumulating" => state.phase = "Accumulating"
            /\ t.phase = "Merging" => /\ state.phase = "Merging"
                                      /\ t.runs = state.runs /\ t.cursors = state.cursors
    <2>1. SortExact' /\ out' \in Seq(Row)
      BY <1>1, <1>2, <1>6, SameOutput
    <2>2. MergeInv'
      BY <1>1, <1>2, <1>6, SameMerge
    <2> QED BY <1>1, <1>2, <1>6, <2>1, <2>2, Concludes
  <1>7. CASE SpillFails
    <2>1. t = [w EXCEPT !.phase = "Done", !.result = "MemoryBudgetExceeded"]
      BY <1>1, <1>3, <1>7 DEF SpillFails, Fail
    <2>2. /\ t \in StateType /\ t.phase = "Done" /\ t.result = "MemoryBudgetExceeded"
          /\ t.buffer = w.buffer /\ t.used = w.used
      BY <1>4, <1>5, <2>1 DEF StateType
    <2> QED BY <1>4, <2>2 DEF Budgeted, Held, Emptied
  <1>8. CASE CancelledAtEntry
    <2>1. t = [state EXCEPT !.result = "Cancelled"]
          /\ state.phase \in {"Merging", "Accumulating"}
      BY <1>1, <1>8 DEF CancelledAtEntry
    <2>2. /\ t \in StateType /\ t.phase = state.phase /\ t.result = "Cancelled"
          /\ t.buffer = state.buffer /\ t.used = state.used /\ t.next = state.next
          /\ t.runs = state.runs /\ t.cursors = state.cursors
      BY <1>2, <1>5, <2>1 DEF StateType
    <2> QED BY <1>2, <2>1, <2>2 DEF Budgeted, Held, Emptied
  <1>9. CASE BuildFails
    <2>1. t = [[w EXCEPT !.runs = <<>>] EXCEPT !.phase = "Done", !.result = "Io"]
      BY <1>1, <1>3, <1>9 DEF BuildFails, Fail
    <2>2. /\ t \in StateType /\ t.phase = "Done" /\ t.result = "Io"
          /\ t.buffer = w.buffer /\ t.used = w.used
      BY <1>4, <1>5, <2>1 DEF StateType
    <2> QED BY <1>4, <2>2 DEF Budgeted, Held, Emptied
  <1>10. CASE ReadFails
    <2>1. t = [state EXCEPT !.result = "Io"] /\ state.phase = "Merging"
      BY <1>1, <1>10 DEF ReadFails
    <2>2. /\ t \in StateType /\ t.phase = state.phase /\ t.result = "Io"
          /\ t.buffer = state.buffer /\ t.used = state.used
          /\ t.runs = state.runs /\ t.cursors = state.cursors
      BY <1>2, <1>5, <2>1 DEF StateType
    <2> QED BY <1>2, <2>1, <2>2 DEF Budgeted, Held, Emptied
  <1>11. CASE Cancel
    <2>1. t = [state EXCEPT !.cancelled = TRUE]
      BY <1>1, <1>11 DEF Cancel
    <2>2. /\ t \in StateType /\ t.phase = state.phase /\ t.result = state.result
          /\ t.buffer = state.buffer /\ t.used = state.used /\ t.next = state.next
          /\ t.runs = state.runs /\ t.cursors = state.cursors
      BY <1>2, <2>1 DEF StateType
    <2> QED BY <1>2, <2>2 DEF Budgeted, Held, Emptied
  <1>12. CASE CloseAndDrop
    <2>1. PICK u : u = IF state.phase = "Done" THEN state ELSE w
      OBVIOUS
    <2>2. t = [u EXCEPT !.phase = "Dropped", !.runs = <<>>, !.cursors = <<>>]
      BY <1>1, <1>3, <1>12, <2>1 DEF CloseAndDrop
    <2>3. u \in StateType /\ Budgeted(u) /\ u.result = state.result
      BY <1>2, <1>4, <2>1 DEF StateType
    <2>4. u.result \notin Aborted => u.buffer = <<>>
      BY <1>2, <1>4, <2>1 DEF Emptied
    <2>5. /\ t \in StateType /\ t.phase = "Dropped" /\ t.result = state.result
          /\ t.buffer = u.buffer /\ t.used = u.used
      BY <1>5, <2>2, <2>3 DEF StateType
    <2> QED BY <2>3, <2>4, <2>5 DEF Budgeted, Held, Emptied
  <1> QED BY <1>7, <1>8, <1>9, <1>10, <1>11, <1>12

\* opening the runs for the merge,
LEMMA BuildMergerKeeps == SortInv /\ BuildMerger => SortInv'
  <1> SUFFICES ASSUME SortInv, BuildMerger PROVE SortInv'
    OBVIOUS
  <1>1. PICK t : t = state'
    OBVIOUS
  <1>2. JobOK /\ state \in StateType /\ Budgeted(state) /\ Held(state) /\ out = <<>>
        /\ job' = job /\ out' = out /\ state.phase = "Accumulating" /\ state.next > Len(job.batches)
    BY DEF SortInv, BuildMerger, Exhausted
  <1>3. PICK w : w = WithoutBuffer(state)
    OBVIOUS
  <1>4. /\ w \in StateType /\ Budgeted(w) /\ w.buffer = <<>>
        /\ w = [state EXCEPT !.buffer = <<>>, !.used = job.others]
    BY <1>2, <1>3, BufferGone
  <1>5. /\ RunsOK(state.runs) /\ IsInjective(Rows(state.buffer))
        /\ RunRows(state.runs) \cap Range(Rows(state.buffer)) = {}
        /\ RunRows(state.runs) \cup Range(Rows(state.buffer)) = Range(InputRows)
    <2>1. job.batches \in Seq(Seq(Row)) /\ Len(job.batches) \in Nat
      BY <1>2 DEF JobOK, Job
    <2>2. state.next - 1 = Len(job.batches)
      <3>1. PICK n \in Nat : n = Len(job.batches)
        BY <2>1
      <3>2. PICK m : m = state.next
        OBVIOUS
      <3>3. m \in 1..(n + 1)
        BY <1>2, <3>1, <3>2 DEF Held
      <3>4. m > n
        BY <1>2, <3>1, <3>2
      <3>5. m - 1 = n
        BY <3>3, <3>4
      <3> QED BY <3>1, <3>2, <3>5
    <2>3. SubSeq(job.batches, 1, state.next - 1) = job.batches
      BY <2>1, <2>2, SubSeqFull
    <2> QED BY <1>2, <2>3 DEF Held, InputRows
  <1>6. Rows(<<>>) = <<>> /\ Range(<<>>) = {} /\ IsInjective(<<>>)
    BY DEF Rows, FlattenSeq, Range, IsInjective
  <1>7. out \in Seq(Row) /\ DOMAIN out = {} /\ Range(out) = {} /\ Len(out) = 0
    BY <1>2, EmptySeq DEF Range
  <1>8. CASE state.buffer = <<>> /\ state.runs = <<>>
    <2>1. t = [state EXCEPT !.phase = "Done", !.result = "done"]
      BY <1>1, <1>8 DEF BuildMerger
    <2>2. /\ t \in StateType /\ t.phase = "Done" /\ t.result = "done"
          /\ t.buffer = state.buffer /\ t.used = state.used
      BY <1>2, <2>1 DEF StateType, Results
    <2>3. Budgeted(t) /\ Held(t) /\ Emptied(t)
      BY <1>2, <1>8, <2>2 DEF Budgeted, Held, Emptied
    <2>4. RunRows(state.runs) = {}
      BY <1>8 DEF RunRows
    <2>5. Range(InputRows) = {}
      BY <1>5, <1>6, <1>8, <2>4
    <2>6. Len(InputRows) = 0
      <3>1. job.batches \in Seq(Seq(Row)) /\ <<>> \in Seq(Row)
        BY <1>2, EmptySeq DEF JobOK, Job
      <3>2. InputRows \in Seq(Row)
        BY <3>1, FlattenAppend DEF InputRows, Rows
      <3>3. \A i \in 1..Len(InputRows) : InputRows[i] \in Range(InputRows)
        BY <3>2 DEF Range
      <3>4. Len(InputRows) \in Nat
        BY <3>2
      <3>5. 1 \in 1..Len(InputRows) => FALSE
        BY <2>5, <3>3
      <3> QED BY <3>4, <3>5
    <2>7. SortExact'
      <3>1. SortExact /\ InputRows' = InputRows
        BY <1>2 DEF SortInv, InputRows
      <3>2. state'.result = "done" => Len(out') = Len(InputRows')
        BY <1>2, <1>7, <2>6, <3>1
      <3> QED BY <1>2, <3>1, <3>2 DEF SortExact, IsSortedRun, Precedes
    <2>8. MergeInv'
      BY <1>1, <2>2 DEF MergeInv
    <2> QED BY <1>1, <1>2, <1>7, <2>2, <2>3, <2>7, <2>8, Concludes
  <1>9. CASE ~(state.buffer = <<>> /\ state.runs = <<>>)
    <2>1. PICK run \in SortedRuns(state.buffer) :
            LET runs == state.runs \o IF state.buffer = <<>> THEN <<>> ELSE <<run>>
            IN  state' = [WithoutBuffer(state) EXCEPT
                            !.phase = "Merging", !.runs = runs, !.cursors = [r \in DOMAIN runs |-> 1]]
      BY <1>9 DEF BuildMerger
    <2>2. state.buffer \in Seq(Seq(Row)) /\ state.runs \in Seq(Seq(Row))
      BY <1>2 DEF StateType
    <2>3. PICK runs : runs = state.runs \o IF state.buffer = <<>> THEN <<>> ELSE <<run>>
      OBVIOUS
    <2>4. RunsOK(runs) /\ RunRows(runs) = Range(InputRows)
      <3>1. CASE state.buffer = <<>>
        <4>1. runs = state.runs
          BY <2>2, <2>3, <3>1, ConcatEmptySeq
        <4> QED BY <1>5, <1>6, <3>1, <4>1
      <3>2. CASE state.buffer # <<>>
        <4>1. /\ run \in Seq(Row) /\ IsSortedRun(run)
              /\ Range(run) = Range(Rows(state.buffer)) /\ IsInjective(run)
          BY <1>5, <2>2, SortedBuffer
        <4>2. runs = Append(state.runs, run)
          BY <2>2, <2>3, <3>2, <4>1, AppendIsConcat
        <4> QED BY <1>5, <4>1, <4>2, AddRun
      <3> QED BY <3>1, <3>2
    <2>5. PICK cursors : cursors = [r \in DOMAIN runs |-> 1]
      OBVIOUS
    <2>6. /\ runs \in Seq(Seq(Row)) /\ cursors \in Seq(Nat) /\ cursors \in [DOMAIN runs -> Nat]
          /\ \A r \in DOMAIN runs : cursors[r] = 1 /\ Len(runs[r]) \in Nat
      <3>1. runs \in Seq(Seq(Row))
        BY <2>4 DEF RunsOK
      <3>2. PICK n \in Nat : DOMAIN runs = 1..n
        BY <3>1
      <3>3. cursors \in [1..n -> Nat]
        BY <2>5, <3>2
      <3>4. cursors \in Seq(Nat)
        BY <3>3
      <3> QED BY <2>5, <3>1, <3>2, <3>3, <3>4
    <2>7. t = [w EXCEPT !.phase = "Merging", !.runs = runs, !.cursors = cursors]
      BY <1>1, <1>3, <2>1, <2>3, <2>5
    <2>8. /\ t \in StateType /\ t.phase = "Merging" /\ t.runs = runs /\ t.cursors = cursors
          /\ t.buffer = w.buffer /\ t.used = w.used /\ t.result = w.result
      <3>1. w \in StateType
        BY <1>4
      <3> QED BY <2>6, <2>7, <3>1 DEF StateType
    <2>9. Budgeted(t) /\ Held(t) /\ Emptied(t)
      BY <1>4, <2>8 DEF Budgeted, Held, Emptied
    <2>10. t.result = "done" => state.result = "done"
      BY <1>2, <1>4, <2>8 DEF StateType
    <2>11. SortExact'
      BY <1>1, <1>2, <2>10, SameOutput
    <2>12. Merged(runs, cursors, out)
      BY <1>7, <2>6 DEF Merged, IsSortedRun, IsInjective
    <2>13. MergeInv'
      <3>1. RunsOK(state.runs)'
        BY <1>1, <1>2, <2>4, <2>8 DEF RunsOK, IsSortedRun, Precedes
      <3>2. RunRows(state'.runs) = Range(InputRows')
        BY <1>1, <1>2, <2>4, <2>8 DEF InputRows
      <3>3. Merged(state.runs, state.cursors, out)'
        BY <1>1, <1>2, <1>7, <2>6, <2>8 DEF Merged, IsSortedRun, IsInjective
      <3> QED BY <3>1, <3>2, <3>3 DEF MergeInv
    <2> QED BY <1>1, <1>2, <1>7, <2>8, <2>9, <2>11, <2>13, Concludes
  <1> QED BY <1>8, <1>9

\* A merge that has come to the end of its runs has put out every row.
LEMMA SameLength ==
    ASSUME NEW s \in Seq(Row), NEW u \in Seq(Row), IsInjective(s), IsInjective(u), Range(s) = Range(u)
    PROVE  Len(s) = Len(u)
  <1>1. ASSUME NEW v \in Seq(Row), IsInjective(v) PROVE Cardinality(Range(v)) = Len(v)
    <2>1. PICK n \in Nat : n = Len(v) /\ DOMAIN v = 1..n
      OBVIOUS
    <2>2. v \in Bijection(1..n, Range(v))
      BY <1>1, <2>1 DEF Bijection, Injection, Surjection, Range, IsInjective
    <2>3. ExistsBijection(1..n, Range(v))
      BY <2>2 DEF ExistsBijection
    <2> QED BY <2>1, <2>3, FS_CountingElements
  <1> QED BY <1>1

\* and emitting a merged batch.
LEMMA MergeBatchKeeps == SortInv /\ MergeBatch => SortInv'
  <1> SUFFICES ASSUME SortInv, MergeBatch PROVE SortInv'
    OBVIOUS
  <1>1. PICK t : t = state'
    OBVIOUS
  <1>2. PICK acc : acc = FoldLeft(PopRow, [cursors |-> state.cursors, out |-> out],
                                  [n \in 1..BatchSize |-> n])
    OBVIOUS
  <1>3. /\ out' = acc.out /\ job' = job /\ state.phase = "Merging" /\ state.result = Null
        /\ t = IF Live(state.cursors) = {}
               THEN [state EXCEPT !.phase = "Done", !.runs = <<>>, !.cursors = <<>>, !.result = "done"]
               ELSE [state EXCEPT !.cursors = acc.cursors]
    BY <1>1, <1>2 DEF MergeBatch
  <1>4. JobOK /\ state \in StateType /\ Budgeted(state) /\ Emptied(state) /\ state.buffer = <<>>
    BY <1>3 DEF SortInv, Emptied
  <1>5. RunsOK(state.runs) /\ RunRows(state.runs) = Range(InputRows)
        /\ Merged(state.runs, state.cursors, out)
    BY <1>3 DEF SortInv, MergeInv
  <1>6. Merged(state.runs, acc.cursors, acc.out) /\ (Live(state.cursors) = {} => acc.out = out)
    <2>1. Null \notin Int /\ BatchSize \in Nat
      BY <1>4 DEF JobOK
    <2> QED BY <1>2, <1>5, <2>1, BatchKeeps
  <1>7. PICK runs, c, o : runs = state.runs /\ c = acc.cursors /\ o = acc.out
    OBVIOUS
  <1>8. Merged(runs, c, o) /\ RunsOK(runs) /\ RunRows(runs) = Range(InputRows)
    BY <1>5, <1>6, <1>7
  <1>9. /\ o \in Seq(Row) /\ IsSortedRun(o) /\ IsInjective(o) /\ Range(o) \subseteq Range(InputRows)
        /\ \A row \in Range(InputRows) \ Range(o) : \A i \in DOMAIN o : ~Precedes(row.key, o[i].key)
    <2>1. ASSUME NEW row \in Range(InputRows)
          PROVE  \E r \in DOMAIN runs : \E k \in 1..Len(runs[r]) : row = runs[r][k]
      <3>1. PICK r \in DOMAIN runs : row \in Range(runs[r])
        BY <1>8 DEF RunRows
      <3>2. DOMAIN runs[r] = 1..Len(runs[r])
        BY <1>8 DEF RunsOK
      <3> QED BY <3>1, <3>2 DEF Range
    <2>2. ASSUME NEW i \in DOMAIN o PROVE o[i] \in Range(InputRows)
      <3>1. PICK r \in DOMAIN runs : \E k \in 1..(c[r] - 1) : o[i] = runs[r][k]
        BY <1>8 DEF Merged
      <3>2. PICK k \in 1..(c[r] - 1) : o[i] = runs[r][k]
        BY <3>1
      <3>3. DOMAIN runs[r] = 1..Len(runs[r]) /\ Len(runs[r]) \in Nat /\ c[r] \in 1..(Len(runs[r]) + 1)
        BY <1>8 DEF Merged, RunsOK
      <3>4. o[i] \in Range(runs[r])
        BY <3>2, <3>3 DEF Range
      <3> QED BY <1>8, <3>4 DEF RunRows
    <2>3. ASSUME NEW row \in Range(InputRows) \ Range(o), NEW i \in DOMAIN o
          PROVE  ~Precedes(row.key, o[i].key)
      <3>1. PICK r \in DOMAIN runs : \E k \in 1..Len(runs[r]) : row = runs[r][k]
        BY <2>1
      <3>2. PICK k \in 1..Len(runs[r]) : row = runs[r][k]
        BY <3>1
      <3>3. c[r] \in 1..(Len(runs[r]) + 1) /\ Len(runs[r]) \in Nat
        BY <1>8 DEF Merged, RunsOK
      <3>4. ~(k \in 1..(c[r] - 1))
        BY <1>8, <2>3, <3>2 DEF Merged
      <3>5. k \in c[r]..Len(runs[r])
        BY <3>3, <3>4
      <3> QED BY <1>8, <3>2, <3>5 DEF Merged
    <2> QED BY <1>8, <2>2, <2>3 DEF Merged, Range
  <1>10. CASE Live(state.cursors) = {}
    <2>1. t = [state EXCEPT !.phase = "Done", !.runs = <<>>, !.cursors = <<>>, !.result = "done"]
      BY <1>3, <1>10
    <2>2. /\ t \in StateType /\ t.phase = "Done" /\ t.result = "done"
          /\ t.buffer = state.buffer /\ t.used = state.used
      <3>1. <<>> \in Seq(Seq(Row)) /\ <<>> \in Seq(Nat)
        BY EmptySeq
      <3> QED BY <1>4, <2>1, <3>1 DEF StateType, Results
    <2>3. Budgeted(t) /\ Held(t) /\ Emptied(t)
      BY <1>4, <2>2 DEF Budgeted, Held, Emptied
    <2>4. out' = out /\ o = out
      BY <1>3, <1>6, <1>7, <1>10
    <2>5. Range(InputRows) \subseteq Range(out)
      <3> SUFFICES ASSUME NEW r \in DOMAIN runs PROVE Range(runs[r]) \subseteq Range(out)
        BY <1>8 DEF RunRows
      <3>1. Merged(runs, state.cursors, out) /\ RunsOK(runs)
        BY <1>5, <1>7
      <3>2. /\ DOMAIN runs[r] = 1..Len(runs[r]) /\ Len(runs[r]) \in Nat
            /\ state.cursors[r] \in 1..(Len(runs[r]) + 1) /\ r \in DOMAIN state.cursors
        BY <3>1 DEF Merged, RunsOK
      <3>3. state.cursors[r] > Len(runs[r])
        BY <1>7, <1>10, <3>2 DEF Live
      <3>4. \A k \in 1..Len(runs[r]) : k \in 1..(state.cursors[r] - 1)
        BY <3>2, <3>3
      <3> QED BY <3>1, <3>2, <3>4 DEF Merged, Range
    <2>6. Len(out) = Len(InputRows)
      <3>1. InputRows \in Seq(Row) /\ IsInjective(InputRows)
        <4>1. job.batches \in Seq(Seq(Row)) /\ <<>> \in Seq(Row)
          BY <1>4, EmptySeq DEF JobOK, Job
        <4>2. InputRows \in Seq(Row)
          BY <4>1, FlattenAppend DEF InputRows, Rows
        <4> QED BY <1>4, <4>2 DEF JobOK
      <3>2. Range(out) = Range(InputRows)
        BY <1>9, <2>4, <2>5
      <3> QED BY <1>9, <2>4, <3>1, <3>2, SameLength
    <2>7. SortExact' /\ out' \in Seq(Row)
      <3>1. SortExact /\ InputRows' = InputRows /\ out \in Seq(Row)
        BY <1>3 DEF SortInv, InputRows
      <3>2. Len(out') = Len(InputRows')
        BY <2>4, <2>6, <3>1
      <3> QED BY <1>3, <2>4, <3>1, <3>2 DEF SortExact, IsSortedRun, Precedes
    <2>8. MergeInv' /\ t.phase # "Accumulating"
      BY <1>1, <2>2 DEF MergeInv
    <2> QED BY <1>1, <1>3, <2>2, <2>3, <2>7, <2>8, Concludes
  <1>11. CASE Live(state.cursors) # {}
    <2>1. t = [state EXCEPT !.cursors = c]
      BY <1>3, <1>7, <1>11
    <2>2. c \in Seq(Nat)
      <3>1. PICK n \in Nat : DOMAIN runs = 1..n
        BY <1>8 DEF RunsOK
      <3>2. c \in [1..n -> Nat]
        BY <1>8, <3>1 DEF Merged
      <3> QED BY <3>2
    <2>3. /\ t \in StateType /\ t.phase = "Merging" /\ t.result = Null
          /\ t.buffer = state.buffer /\ t.used = state.used /\ t.runs = runs /\ t.cursors = c
      BY <1>3, <1>4, <1>7, <2>1, <2>2 DEF StateType
    <2>4. Budgeted(t) /\ Held(t) /\ Emptied(t)
      BY <1>4, <2>3 DEF Budgeted, Held, Emptied
    <2>5. SortExact' /\ out' \in Seq(Row)
      <3>1. InputRows' = InputRows /\ out' = o /\ state'.result # "done"
        BY <1>1, <1>3, <1>4, <1>7, <2>3 DEF InputRows, JobOK, Results
      <3>2. IsSortedRun(out)'
        BY <1>3, <1>9, <3>1 DEF IsSortedRun, Precedes
      <3>3. (\A row \in Range(InputRows) \ Range(out) : \A i \in DOMAIN out :
                ~Precedes(row.key, out[i].key))'
        BY <1>3, <1>9, <3>1 DEF Precedes
      <3> QED BY <1>9, <3>1, <3>2, <3>3 DEF SortExact
    <2>6. MergeInv'
      <3>1. RunsOK(state.runs)'
        <4>1. state'.runs = runs /\ job' = job /\ RunsOK(runs)
          BY <1>1, <1>3, <1>8, <2>3
        <4>2. \A r \in DOMAIN runs : IsSortedRun(runs[r])'
          BY <4>1 DEF RunsOK, IsSortedRun, Precedes
        <4> QED BY <4>1, <4>2 DEF RunsOK
      <3>2. RunRows(state'.runs) = Range(InputRows')
        BY <1>1, <1>3, <1>8, <2>3 DEF InputRows
      <3>3. Merged(state.runs, state.cursors, out)'
        <4>1. state'.runs = runs /\ state'.cursors = c /\ out' = o /\ job' = job
          BY <1>1, <1>3, <1>7, <2>3
        <4>2. IsSortedRun(out)'
          BY <1>9, <4>1 DEF IsSortedRun, Precedes
        <4>3. (\A i \in DOMAIN out : \A r \in DOMAIN state.runs :
                \A k \in state.cursors[r]..Len(state.runs[r]) :
                    ~Precedes(state.runs[r][k].key, out[i].key))'
          <5>1. \A i \in DOMAIN o : \A r \in DOMAIN runs : \A k \in c[r]..Len(runs[r]) :
                    ~Precedes(runs[r][k].key, o[i].key)
            BY <1>8 DEF Merged
          <5> QED BY <4>1, <5>1 DEF Precedes
        <4> QED BY <1>8, <4>1, <4>2, <4>3 DEF Merged
      <3> QED BY <3>1, <3>2, <3>3 DEF MergeInv
    <2> QED BY <1>1, <1>3, <2>3, <2>4, <2>5, <2>6, Concludes
  <1> QED BY <1>10, <1>11

\* Every step of the sort keeps the invariant,
LEMMA SortInductive == SortInv /\ [Next]_vars => SortInv'
  <1> SUFFICES ASSUME SortInv, [Next]_vars PROVE SortInv'
    OBVIOUS
  <1>1. CASE UNCHANGED vars
    <2>1. job' = job /\ out' = out /\ state' = state
      BY <1>1 DEF vars
    <2>2. PICK t : t = state'
      OBVIOUS
    <2>3. SortExact' /\ out' \in Seq(Row) /\ MergeInv'
      BY <2>1, SameOutput, SameMerge
    <2> QED BY <2>1, <2>2, <2>3, Concludes DEF SortInv
  <1> QED
    BY <1>1, PullKeeps, PullSpillingKeeps, EndsKeep, BuildMergerKeeps, MergeBatchKeeps DEF Next

\* and it holds when a sort starts.
LEMMA SortInitially == SortInputs /\ Init => SortInv
  <1> SUFFICES ASSUME SortInputs, Init PROVE SortInv
    OBVIOUS
  <1>1. JobOK
    BY DEF SortInputs, Init, JobOK, InputRows, Rows
  <1>2. /\ state = [phase |-> "Accumulating", next |-> 1, buffer |-> <<>>, used |-> job.others,
                    runs |-> <<>>, spilled |-> 0, cursors |-> <<>>, cancelled |-> FALSE,
                    result |-> Null]
        /\ out = <<>>
    BY DEF Init
  <1>3. /\ <<>> \in Seq(Row) /\ <<>> \in Seq(Seq(Row)) /\ <<>> \in Seq(Nat)
        /\ Range(<<>>) = {} /\ IsInjective(<<>>) /\ DOMAIN <<>> = {}
    BY EmptySeq DEF Range, IsInjective
  <1>4. /\ job.batches \in Seq(Seq(Row)) /\ Len(job.batches) \in Nat
        /\ job.others \in Nat /\ job.others <= job.budget
    BY <1>1 DEF JobOK, Job
  <1>5. Rows(<<>>) = <<>> /\ Bytes(<<>>) = 0
    BY <1>3, BytesOfBatches
  <1>6. state \in StateType
    <2>1. PICK n \in Int : n = job.others
      BY <1>4
    <2> QED BY <1>2, <1>3, <2>1 DEF StateType
  <1>7. Budgeted(state)
    BY <1>2, <1>4, <1>5 DEF Budgeted
  <1>8. Held(state)
    <2>1. RunsOK(<<>>) /\ RunRows(<<>>) = {}
      BY <1>3 DEF RunsOK, RunRows
    <2>2. SubSeq(job.batches, 1, 1 - 1) = <<>>
      BY SubSeqEmpty
    <2>3. state.next = 1 /\ state.runs = <<>> /\ state.buffer = <<>>
      BY <1>2
    <2>4. 1 \in 1..(Len(job.batches) + 1)
      BY <1>4
    <2>5. Rows(SubSeq(job.batches, 1, state.next - 1)) = <<>>
      BY <1>5, <2>2, <2>3
    <2> QED BY <1>3, <1>5, <2>1, <2>3, <2>4, <2>5 DEF Held
  <1>9. SortExact
    BY <1>1, <1>2, <1>3 DEF SortExact, IsSortedRun, JobOK, Results
  <1> QED BY <1>1, <1>2, <1>3, <1>6, <1>7, <1>8, <1>9 DEF SortInv, Emptied, MergeInv

\* What the tracker counts is within the budget, and nothing of the sort's at the end.
LEMMA InvIsInBudget == SortInv => BudgetExact
  <1> SUFFICES ASSUME SortInv PROVE BudgetExact
    OBVIOUS
  <1>1. <<>> \in Seq(Row) /\ <<>> \in Seq(Seq(Row))
    BY EmptySeq
  <1>2. Bytes(<<>>) = 0 /\ job.others \in Nat
    BY <1>1, BytesOfBatches DEF SortInv, JobOK, Job
  <1> QED BY <1>2 DEF SortInv, Budgeted, Emptied, Aborted, BudgetExact

-----------------------------------------------------------------------------

\* For any child, budget, row cap and order of spills and failures: what a sort
\* puts out is in order, each row at most once, and a sort that ends without an
\* error has put out all rows (SortOperator, spill handler and merger).
THEOREM SortReturnsItsRows == SortInputs => (Spec => []SortExact)
  <1> SUFFICES ASSUME SortInputs PROVE Spec => []SortExact
    OBVIOUS
  <1>1. Init => SortInv
    BY SortInitially
  <1>2. SortInv /\ [Next]_vars => SortInv'
    BY SortInductive
  <1>3. SortInv => SortExact
    BY DEF SortInv
  <1> QED BY <1>1, <1>2, <1>3, PTL DEF Spec

\* For any child and budget, the query's tracker counts what the other operators
\* and the sort's buffer hold, never more than the budget, and at the end only
\* the others' share unless the sort gave up while it accumulated or was cancelled.
THEOREM SortStaysInBudget == SortInputs => (Spec => []BudgetExact)
  <1> SUFFICES ASSUME SortInputs PROVE Spec => []BudgetExact
    OBVIOUS
  <1>1. Init => SortInv
    BY SortInitially
  <1>2. SortInv /\ [Next]_vars => SortInv'
    BY SortInductive
  <1>3. SortInv => BudgetExact
    BY InvIsInBudget
  <1> QED BY <1>1, <1>2, <1>3, PTL DEF Spec

-----------------------------------------------------------------------------
(* The entity operators *)

CONSTANT EntityJobs   \* their jobs

Entity == INSTANCE EntityAdapter WITH Jobs <- EntityJobs

\* What the proofs use of the job at hand.
EntityJobOK ==
    /\ Null \notin Int
    /\ job.operator \in {"sessionize", "event_select", "attribute"}
    /\ Entity!Parameters(job)
    /\ job.rows \in Seq(Range(job.rows))
    /\ \A r \in 1..Len(job.rows) :
            job.rows[r].entity # Null /\ job.rows[r].pos # Null /\ job.rows[r].ts \in Int
    /\ Entity!GroupedByEntity(job.rows) /\ Entity!OrderedByTime(job.rows)

-----------------------------------------------------------------------------
(* Folds of the entity operators *)

\* One step of the folds of the entity operators, told apart by a name.
EntityStep(which, acc, seq, i) ==
    CASE which[1] = "run"  -> Entity!ProcessFrom(acc, which[2] + seq[i] - 1, which[2], which[3])
      [] which[1] = "take" -> Entity!Sel!Take(acc, seq[i])
      [] which[1] = "session" -> Entity!Sess!Row(acc, which[2], seq[i])
      [] which[1] = "attribute" -> Entity!Attr!Row(acc, seq[i])
      [] which[1] = "match" -> Entity!Attr!Match(acc, which[2], seq[i])

\* A solution of the recursion by which a fold is defined.
IsEntityFold(which, iter, base, seq, n) ==
    iter = [s \in SUBSET (1..n) |->
                IF s = {} THEN base
                ELSE EntityStep(which, iter[s \ {Max(s)}], seq, Max(s))]

\* What a fold over the first n elements of seq returns.
EntityFold(which, base, seq, n) == (CHOOSE f : IsEntityFold(which, f, base, seq, n))[1..n]

\* For every sequence a solution exists.
LEMMA EntityFoldExists ==
    ASSUME NEW which, NEW base, NEW seq, NEW n \in Nat
    PROVE  \E iter : IsEntityFold(which, iter, base, seq, n)
  <1> DEFINE Good == {m \in 0..n : \E iter : IsEntityFold(which, iter, base, seq, m)}
  <1>1. \E iter : IsEntityFold(which, iter, base, seq, 0)
    <2> DEFINE iter == [s \in SUBSET (1..0) |-> base]
    <2>1. \A s \in SUBSET (1..0) : s = {}
      OBVIOUS
    <2>2. IsEntityFold(which, iter, base, seq, 0)
      BY <2>1 DEF IsEntityFold
    <2> QED BY <2>2
  <1>2. ASSUME NEW m \in 0..(n - 1), NEW iter, IsEntityFold(which, iter, base, seq, m)
        PROVE  \E more : IsEntityFold(which, more, base, seq, m + 1)
    <2> DEFINE more == [s \in SUBSET (1..(m + 1)) |->
                            IF m + 1 \in s THEN EntityStep(which, iter[s \ {m + 1}], seq, m + 1)
                            ELSE iter[s]]
    <2>1. \A s \in SUBSET (1..m) :
            iter[s] = IF s = {} THEN base
                      ELSE EntityStep(which, iter[s \ {Max(s)}], seq, Max(s))
      BY <1>2 DEF IsEntityFold
    <2>2. ASSUME NEW s \in SUBSET (1..(m + 1))
          PROVE  more[s] = IF s = {} THEN base
                           ELSE EntityStep(which, more[s \ {Max(s)}], seq, Max(s))
      <3>1. CASE m + 1 \in s
        <4>1. Max(s) = m + 1
          <5>1. s \in SUBSET Nat /\ \A k \in s : k <= m + 1
            OBVIOUS
          <5> QED BY <3>1, <5>1, MaxIs
        <4>2. s \ {m + 1} \in SUBSET (1..(m + 1)) /\ m + 1 \notin s \ {m + 1}
          OBVIOUS
        <4>3. more[s \ {m + 1}] = iter[s \ {m + 1}]
          BY <4>2
        <4>4. more[s] = EntityStep(which, iter[s \ {m + 1}], seq, m + 1)
          BY <3>1
        <4> HIDE DEF more
        <4> QED BY <3>1, <4>1, <4>3, <4>4
      <3>2. CASE m + 1 \notin s
        <4>1. s \in SUBSET (1..m)
          BY <3>2
        <4>2. s \ {Max(s)} \in SUBSET (1..(m + 1)) /\ m + 1 \notin s \ {Max(s)}
          BY <3>2
        <4>3. more[s \ {Max(s)}] = iter[s \ {Max(s)}]
          BY <4>2
        <4>4. more[s] = iter[s]
          BY <3>2
        <4> HIDE DEF more
        <4> QED BY <2>1, <4>1, <4>3, <4>4
      <3> QED BY <3>1, <3>2
    <2>3. more = [s \in SUBSET (1..(m + 1)) |-> more[s]]
      OBVIOUS
    <2> HIDE DEF more
    <2>4. IsEntityFold(which, more, base, seq, m + 1)
      BY <2>2, <2>3 DEF IsEntityFold
    <2> QED BY <2>4
  <1>3. 0 \in Good /\ \A k \in 0..(n - 1) : k \in Good => k + 1 \in Good
    BY <1>1, <1>2
  <1>4. 0..n \subseteq Good
    <2> HIDE DEF Good
    <2> QED BY <1>3, UpTo
  <1> QED BY <1>4

\* A solution goes through the sequence step by step.
LEMMA EntityFoldSteps ==
    ASSUME NEW which, NEW base, NEW seq, NEW n \in Nat
    PROVE  \E g : /\ g[0] = base
                  /\ \A k \in 0..(n - 1) : g[k + 1] = EntityStep(which, g[k], seq, k + 1)
                  /\ EntityFold(which, base, seq, n) = g[n]
  <1>1. PICK iter : /\ IsEntityFold(which, iter, base, seq, n)
                    /\ iter = CHOOSE f : IsEntityFold(which, f, base, seq, n)
    BY EntityFoldExists
  <1> DEFINE g == [k \in 0..n |-> iter[1..k]]
  <1>2. \A s \in SUBSET (1..n) :
            iter[s] = IF s = {} THEN base
                      ELSE EntityStep(which, iter[s \ {Max(s)}], seq, Max(s))
    BY <1>1 DEF IsEntityFold
  <1>3. g[0] = base
    <2>1. 1..0 = {} /\ {} \in SUBSET (1..n)
      OBVIOUS
    <2> QED BY <1>2, <2>1
  <1>4. ASSUME NEW k \in 0..(n - 1) PROVE g[k + 1] = EntityStep(which, g[k], seq, k + 1)
    <2>1. /\ 1..(k + 1) \in SUBSET (1..n) /\ 1..(k + 1) # {}
          /\ (1..(k + 1)) \ {k + 1} = 1..k
          /\ 1..(k + 1) \in SUBSET Nat /\ k + 1 \in 1..(k + 1) /\ \A j \in 1..(k + 1) : j <= k + 1
      OBVIOUS
    <2>2. Max(1..(k + 1)) = k + 1
      BY <2>1, MaxIs
    <2>3. iter[1..(k + 1)] = EntityStep(which, iter[1..k], seq, k + 1)
      BY <1>2, <2>1, <2>2
    <2> QED BY <2>3
  <1>5. g[n] = iter[1..n]
    OBVIOUS
  <1> HIDE DEF g
  <1> QED BY <1>1, <1>3, <1>4, <1>5 DEF EntityFold

\* EVENT goes through rows one by one.
TakeAll(st, batch) == Entity!Sel!FoldLeft(Entity!Sel!Take, st, batch)

\* So there are the states it goes through.
LEMMA TakeSteps ==
    ASSUME NEW st, NEW batch, NEW n \in Nat, DOMAIN batch = 1..n
    PROVE  \E g : /\ g[0] = st
                  /\ \A k \in 0..(n - 1) : g[k + 1] = Entity!Sel!Take(g[k], batch[k + 1])
                  /\ TakeAll(st, batch) = g[n]
  <1> DEFINE which == <<"take">>
             F(f) == f = [s \in SUBSET (1..n) |->
                        IF s = {} THEN st ELSE Entity!Sel!Take(f[s \ {Max(s)}], batch[Max(s)])]
  <1>1. TakeAll(st, batch) = (CHOOSE f : F(f))[1..n]
    <2>1. \A S : Entity!Sel!Max(S) = Max(S)
      BY DEF Entity!Sel!Max, Max
    <2> QED BY <2>1 DEF TakeAll, Entity!Sel!FoldLeft, Entity!Sel!MapThenFoldSet
  <1>2. \A acc, i : EntityStep(which, acc, batch, i) = Entity!Sel!Take(acc, batch[i])
    BY DEF EntityStep
  <1> HIDE DEF which
  <1>3. \A f : F(f) <=> IsEntityFold(which, f, st, batch, n)
    BY <1>2 DEF IsEntityFold
  <1> HIDE DEF F
  <1>4. (CHOOSE f : F(f))[1..n] = EntityFold(which, st, batch, n)
    BY <1>3 DEF EntityFold
  <1>5. PICK g : /\ g[0] = st
                 /\ \A k \in 0..(n - 1) : g[k + 1] = EntityStep(which, g[k], batch, k + 1)
                 /\ EntityFold(which, st, batch, n) = g[n]
    BY EntityFoldSteps
  <1>6. \A k \in 0..(n - 1) : g[k + 1] = Entity!Sel!Take(g[k], batch[k + 1])
    BY <1>2, <1>5
  <1> QED BY <1>1, <1>4, <1>5, <1>6

\* A child's batch is gone through row by row.
LEMMA RunFold ==
    ASSUME NEW n \in Nat, Entity!ProcessChildBatch(n)
    PROVE  \E g : LET first == state.next
                      last == state.next + n - 1
                  IN  /\ g[0] = [entity |-> state.entity, st |-> state.st, out |-> out]
                      /\ \A k \in 0..(n - 1) :
                            g[k + 1] = Entity!ProcessFrom(g[k], first + (k + 1) - 1, first, last)
                      /\ state' = [state EXCEPT !.next = @ + n, !.entity = g[n].entity, !.st = g[n].st]
                      /\ out' = g[n].out
  <1> DEFINE first == state.next
             last == state.next + n - 1
             seq == [k \in 1..n |-> k]
             base == [entity |-> state.entity, st |-> state.st, out |-> out]
             which == <<"run", first, last>>
             fold == Entity!FoldLeft(LAMBDA a, k : Entity!ProcessFrom(a, first + k - 1, first, last), base, seq)
             F(f) == f = [s \in SUBSET (1..n) |->
                        IF s = {} THEN base
                        ELSE Entity!ProcessFrom(f[s \ {Max(s)}], first + seq[Max(s)] - 1, first, last)]
  <1>1. /\ state' = [state EXCEPT !.next = @ + n, !.entity = fold.entity, !.st = fold.st]
        /\ out' = fold.out
    BY DEF Entity!ProcessChildBatch
  <1>2. fold = (CHOOSE f : F(f))[1..n]
    <2>1. DOMAIN seq = 1..n
      OBVIOUS
    <2>2. \A S : Entity!Max(S) = Max(S)
      BY DEF Entity!Max, Max
    <2> HIDE DEF seq, base, first, last
    <2> QED BY <2>1, <2>2 DEF Entity!FoldLeft, Entity!MapThenFoldSet
  <1> HIDE DEF fold
  <1>3. \A f : F(f) <=> IsEntityFold(which, f, base, seq, n)
    <2>1. which[1] = "run" /\ which[2] = first /\ which[3] = last
      OBVIOUS
    <2> HIDE DEF which, seq, base, first, last
    <2> QED BY <2>1 DEF IsEntityFold, EntityStep
  <1> HIDE DEF F
  <1>4. (CHOOSE f : F(f))[1..n] = EntityFold(which, base, seq, n)
    BY <1>3 DEF EntityFold
  <1> HIDE DEF which, seq, base, first, last
  <1>5. PICK g : /\ g[0] = base
                 /\ \A k \in 0..(n - 1) : g[k + 1] = EntityStep(which, g[k], seq, k + 1)
                 /\ EntityFold(which, base, seq, n) = g[n]
    BY EntityFoldSteps
  <1>6. ASSUME NEW k \in 0..(n - 1)
        PROVE  g[k + 1] = Entity!ProcessFrom(g[k], first + (k + 1) - 1, first, last)
    <2>1. seq[k + 1] = k + 1 /\ which[1] = "run" /\ which[2] = first /\ which[3] = last
      BY DEF seq, which
    <2> QED BY <1>5, <2>1 DEF EntityStep
  <1>7. g[n] = fold
    BY <1>2, <1>4, <1>5
  <1> QED BY <1>1, <1>5, <1>6, <1>7 DEF first, last, base


-----------------------------------------------------------------------------
(* An entity's rows, result and summary *)

\* The outputs that are proved about: all of SESSIONIZE and ATTRIBUTE, and those of
\* EVENT unless a row's predicate fails.
Claimed ==
    \/ job.operator \in {"sessionize", "attribute"}
    \/ job.operator = "event_select" /\ \A row \in Range(job.rows) : row.where # "error"

\* The result of an entity's rows.
ResultOf(rows) ==
    CASE job.operator = "sessionize"   -> Entity!Sess!Sessions(rows)
      [] job.operator = "event_select" -> Entity!Sel!Selected(rows)
      [] job.operator = "attribute"    -> Entity!Attr!Attributions(rows)

\* The row of an entity that EVENT has found in the rows of it that have come.
Chosen(rows) ==
    {r \in Entity!Sel!Qualifying(rows) : Entity!Sel!Place(rows, r) = Entity!Sel!Wanted(rows)}

\* What EVENT's state says of the rows: the one wanted, and how many qualified.
SelSummarises(st, rows) ==
    LET all == Entity!Sel!Qualifying(rows)
    IN  /\ st = [row |-> st.row, count |-> st.count, done |-> st.done]
        /\ st.done \in BOOLEAN /\ st.count \in Nat
        /\ \/ Chosen(rows) = {} /\ st.row = Null
           \/ \E r \in all : Chosen(rows) = {r} /\ st.row = rows[r].pos
        /\ job.op.kind = "First" => (st.done <=> all # {})
        /\ job.op.kind = "Last" => ~st.done
        /\ job.op.kind = "Nth" => /\ st.done <=> Chosen(rows) # {}
                                  /\ ~st.done => st.count = Cardinality(all)

\* Rows of the child.
ChildRows == Seq(Range(job.rows))

\* What the proofs use of the operator at hand.
SessionizeAtHand ==
    /\ Null \notin Int
    /\ job.op.gap \in Nat /\ job.op.cap \in Nat /\ job.op.cap >= 1
    /\ \A row \in Range(job.rows) : row.ts \in Int

Ends(rows, s) == Entity!Sess!EndsSession(rows, s)

\* The session of the row r begins with b, and so far as the first m rows tell ends with e.
IsSessionStart(rows, r, b) ==
    b \in 1..r /\ (b = 1 \/ Ends(rows, b - 1)) /\ \A s \in b..(r - 1) : ~Ends(rows, s)
IsSessionEnd(rows, r, e, m) ==
    e \in r..m /\ (e = m \/ Ends(rows, e)) /\ \A s \in r..(e - 1) : ~Ends(rows, s)

\* The number of the session of row r.
Number(rows, r) == 1 + Cardinality({s \in 1..(r - 1) : Ends(rows, s)})

\* What SESSIONIZE outputs of rows.
SessionRow == [pos : {row.pos : row \in Range(job.rows)}, session : Nat, duration : Int]

\* The first m rows are annotated as those of completed sessions.
Annotated(rows, r, m, entry) ==
    \E b \in 1..r, e \in r..m :
        /\ IsSessionStart(rows, r, b) /\ IsSessionEnd(rows, r, e, m)
        /\ entry = [pos |-> rows[r].pos, session |-> Number(rows, r), duration |-> rows[e].ts - rows[b].ts]

AnnotatedUpTo(completed, rows, m) ==
    /\ completed \in Seq(SessionRow) /\ Len(completed) = m
    /\ \A r \in 1..m : Annotated(rows, r, m, completed[r])

SessionState == {"id", "start", "last", "count", "open", "completed", "skipping"}

\* After n of the rows the open session begins with the row f: all before it are
\* completed, and those from it on are held.
OpenFrom(st, held, rows, n, f) ==
    /\ f \in 1..(n + 1)
    /\ f = 1 \/ Ends(rows, f - 1)
    /\ \A s \in f..(n - 1) : ~Ends(rows, s)
    /\ st.id = Number(rows, f)
    /\ AnnotatedUpTo(st.completed, rows, f - 1)
    /\ held \in ChildRows /\ Len(held) = n - f + 1
    /\ \A i \in 1..(n - f + 1) : held[i] = rows[f + i - 1]
    /\ IF f = n + 1 THEN st.start = Null /\ st.last = Null /\ st.count = 0
       ELSE st.start = rows[f].ts /\ st.last = rows[n].ts /\ st.count = n - f + 1

\* The rows by which a session exceeds the cap.
Over(rows) == {r \in DOMAIN rows : r - Entity!Sess!SessionStart(rows, r) + 1 > job.op.cap}

\* The state of an entity and the rows held summarise the entity's rows so far.
SessSummarisesWith(st, held, rows) ==
    /\ DOMAIN st = SessionState
    /\ st.open \in ChildRows
    /\ IF st.skipping THEN Over(rows) # {} /\ st.completed = Entity!Sess!Sessions(rows)
       ELSE /\ Over(rows) = {}
            /\ \E f : /\ OpenFrom(st, held, rows, Len(rows), f)
                      /\ f <= Len(rows) => ~Ends(rows, Len(rows))

\* The numbers of a set in increasing order.
Enumerates(e, m, S) ==
    /\ m \in Nat /\ \A i \in 1..m : e[i] \in S
    /\ \A t \in S : \E i \in 1..m : e[i] = t
    /\ \A i, j \in 1..m : i < j => e[i] < e[j]

IsTouch(rows, t) == rows[t].type \in job.op.touchpoints

\* The touchpoints that the deque holds when the first n rows have come.
Recent(rows, n) ==
    {t \in 1..n : /\ IsTouch(rows, t)
                  /\ t = n \/ (job.op.window > 0 /\ rows[n].ts - rows[t].ts <= job.op.window)}

Touchpoint == [ts : Int, pos : {row.pos : row \in Range(job.rows)}]

\* The deque holds the rows of a set of numbers, in their order.
HoldsAs(deque, rows, S, e, m) ==
    /\ Enumerates(e, m, S)
    /\ deque \in Seq(Touchpoint) /\ Len(deque) = m
    /\ \A i \in 1..m : deque[i] = [ts |-> rows[e[i]].ts, pos |-> rows[e[i]].pos]
Holds(deque, rows, S) == \E e, m : HoldsAs(deque, rows, S, e, m)

\* The rows with which there is no room in the deque.
OverCap(rows) ==
    {r \in DOMAIN rows : /\ IsTouch(rows, r)
                         /\ Cardinality(Entity!Attr!InWindow(rows, r)) >= job.op.cap}

\* ATTRIBUTE's state says of the rows: what is output for them, whether there was no
\* room, and if there was, the touchpoints that the next row may need.
AttrSummarises(st, rows) ==
    /\ DOMAIN st = {"deque", "rows", "capped"}
    /\ st.rows = Entity!Attr!Attributions(rows)
    /\ IF st.capped THEN OverCap(rows) # {}
       ELSE OverCap(rows) = {} /\ Holds(st.deque, rows, Recent(rows, Len(rows)))

\* The state of an entity says what its operator needs to know of the rows so far.
Summarises(st, rows) ==
    CASE job.operator = "sessionize"   -> SessSummarisesWith(st, st.open, rows)
      [] job.operator = "event_select" -> SelSummarises(st, rows)
      [] job.operator = "attribute"    -> AttrSummarises(st, rows)

\* The rows a to b of the child, of one entity.
Slice(a, b) == SubSeq(job.rows, a, b)
OneEntity(a, b) == \A r \in a..b : job.rows[r].entity = job.rows[a].entity

\* No row of the entity comes before this one.
Begins(a) == ~\E s \in 1..(a - 1) : job.rows[s].entity = job.rows[a].entity

\* The output by the rows that entities begin with.
Parts == [r \in DOMAIN job.rows |-> IF Begins(r) THEN ResultOf(Entity!EntityRows(r)) ELSE <<>>]

\* The output of the entities that begin in the first k rows.
FlatUpTo(k) == IF k = 0 THEN <<>> ELSE (CHOOSE f : IsFlat(f, Parts, Len(job.rows)))[k]

\* Rows 1 to e have been seen: the entities before the last of them are out, and its
\* state summarises its rows.
Reached(acc, e) ==
    IF e = 0 THEN acc.entity = Null /\ acc.out = <<>>
    ELSE /\ acc.entity = job.rows[e].entity
         /\ \E a \in 1..e : /\ Begins(a) /\ OneEntity(a, e)
                            /\ acc.out = FlatUpTo(a - 1)
                            /\ Summarises(acc.st, Slice(a, e))

-----------------------------------------------------------------------------
(* The adapter *)

\* For any sequence of sequences the recursion that flattens it has a solution.
LEMMA FlatSolved ==
    ASSUME NEW s, NEW n \in Nat PROVE \E f : IsFlat(f, s, n)
  <1> DEFINE Good == {m \in 0..n : \E f : IsFlat(f, s, m)}
  <1>1. \E f : IsFlat(f, s, 0)
    <2>1. IsFlat([i \in 1..0 |-> s[i]], s, 0)
      BY DEF IsFlat
    <2> QED BY <2>1
  <1>2. ASSUME NEW m \in 0..(n - 1), NEW f, IsFlat(f, s, m) PROVE \E g : IsFlat(g, s, m + 1)
    <2>1. PICK g : g = [i \in 1..(m + 1) |-> IF i <= m THEN f[i]
                                              ELSE IF i = 1 THEN s[i] ELSE f[i - 1] \o s[i]]
      OBVIOUS
    <2>2. m \in Nat
      OBVIOUS
    <2> QED BY <1>2, <2>1, <2>2, FlatNext
  <1>3. 0 \in Good /\ \A k \in 0..(n - 1) : k \in Good => k + 1 \in Good
    BY <1>1, <1>2
  <1>4. 0..n \subseteq Good
    <2> HIDE DEF Good
    <2> QED BY <1>3, UpTo
  <1> QED BY <1>4

\* The child's rows.
LEMMA RowFacts ==
    ASSUME EntityJobOK
    PROVE  /\ Len(job.rows) \in Nat /\ DOMAIN job.rows = 1..Len(job.rows)
           /\ \A a, b \in 1..Len(job.rows) : a <= b =>
                /\ Slice(a, b) \in Seq(Range(job.rows))
                /\ Len(Slice(a, b)) = b - a + 1
                /\ \A i \in 1..(b - a + 1) : Slice(a, b)[i] = job.rows[a + i - 1]
           /\ \A a, b, c \in 1..Len(job.rows) : a <= b /\ b < c =>
                Slice(a, b) \o Slice(b + 1, c) = Slice(a, c)
  <1>1. job.rows \in Seq(Range(job.rows)) /\ Len(job.rows) \in Nat /\ DOMAIN job.rows = 1..Len(job.rows)
    BY LenProperties DEF EntityJobOK
  <1>2. ASSUME NEW a \in 1..Len(job.rows), NEW b \in 1..Len(job.rows), a <= b
        PROVE  /\ Slice(a, b) \in Seq(Range(job.rows))
               /\ Len(Slice(a, b)) = b - a + 1
               /\ \A i \in 1..(b - a + 1) : Slice(a, b)[i] = job.rows[a + i - 1]
    <2>1. \A i \in 1..Len(job.rows) : job.rows[i] \in Range(job.rows)
      BY <1>1 DEF Range
    <2>2. \A i \in a..b : i \in 1..Len(job.rows)
      BY <1>1
    <2>3. \A i \in a..b : job.rows[i] \in Range(job.rows)
      BY <2>1, <2>2
    <2> QED BY <1>2, <2>3, SubSeqProperties DEF Slice
  <1>3. ASSUME NEW a \in 1..Len(job.rows), NEW b \in 1..Len(job.rows), NEW c \in 1..Len(job.rows), a <= b, b < c
        PROVE  Slice(a, b) \o Slice(b + 1, c) = Slice(a, c)
    <2>1. a \in 1..(Len(job.rows) + 1) /\ b \in (a - 1)..Len(job.rows) /\ c \in b..Len(job.rows)
      BY <1>1, <1>3
    <2> QED BY <1>1, <2>1, ConcatAdjacentSubSeq DEF Slice
  <1> QED BY <1>1, <1>2, <1>3

\* A slice and the row behind it.
LEMMA SliceNext ==
    ASSUME EntityJobOK, NEW a \in 1..Len(job.rows), NEW r \in 1..Len(job.rows), a <= r
    PROVE  /\ Slice(a, r - 1) \in Seq(Range(job.rows))
           /\ Slice(a, r) = Append(Slice(a, r - 1), job.rows[r])
  <1>1. PICK N \in Nat : N = Len(job.rows) /\ DOMAIN job.rows = 1..N
    BY RowFacts
  <1>2. job.rows \in Seq(Range(job.rows)) /\ \A i \in a..r : job.rows[i] \in Range(job.rows)
    <2>1. \A i \in 1..Len(job.rows) : job.rows[i] \in Range(job.rows)
      BY <1>1 DEF Range
    <2>2. \A i \in a..r : i \in 1..Len(job.rows)
      BY <1>1
    <2> QED BY <2>1, <2>2 DEF EntityJobOK
  <1>3. a \in Int /\ r \in Int /\ r - 1 \in Int /\ \A i \in a..(r - 1) : i \in a..r
    BY <1>1
  <1>4. Slice(a, r - 1) \in Seq(Range(job.rows))
    BY <1>2, <1>3, SubSeqProperties DEF Slice
  <1>5. Slice(a, r) = Slice(a, r - 1) \o <<job.rows[r]>>
    BY <1>2, <1>3, SubSeqRecursiveSecond DEF Slice
  <1> QED BY <1>4, <1>5, AppendIsConcat

\* What is to be shown of an operator: its results are sequences.
ResultsAreSequences ==
    \A a, b \in 1..Len(job.rows) :
        a <= b /\ OneEntity(a, b) => ResultOf(Slice(a, b)) \in Seq(Range(ResultOf(Slice(a, b))))

\* A new state summarises no rows.
CreateSummarises == \A a \in 1..Len(job.rows) : Summarises(Entity!CreateState, Slice(a, a - 1))

\* A sub-batch is added to a summary.
SubBatchSummarised ==
    \A st : \A a, c \in 1..Len(job.rows) : \A b \in (a - 1)..(c - 1) :
        a <= c /\ OneEntity(a, c) /\ Summarises(st, Slice(a, b))
        => Summarises(Entity!ProcessSubBatch(st, Slice(b + 1, c)), Slice(a, c))

\* From a summary of all rows of the entity its result is read off.
FinishReturnsResult ==
    \A st : \A a, b \in 1..Len(job.rows) :
        a <= b /\ OneEntity(a, b) /\ Summarises(st, Slice(a, b))
        => Entity!FinishEntity(st) = ResultOf(Slice(a, b))

\* The operator at hand keeps all four promises.
OperatorCorrect ==
    ResultsAreSequences /\ CreateSummarises /\ SubBatchSummarised /\ FinishReturnsResult

\* The rows of an entity that begins with a row, up to a row behind which it does not
\* go on, are all it has.
LEMMA EntityRowsAre ==
    ASSUME EntityJobOK, NEW a \in 1..Len(job.rows), NEW e \in a..Len(job.rows), OneEntity(a, e),
           e < Len(job.rows) => job.rows[e + 1].entity # job.rows[e].entity
    PROVE  /\ Entity!EntityRows(a) = Slice(a, e)
           /\ \A r \in (e + 1)..Len(job.rows) : job.rows[r].entity # job.rows[a].entity
  <1>1. PICK N \in Nat : N = Len(job.rows) /\ DOMAIN job.rows = 1..N
    BY RowFacts
  <1>2. job.rows[e].entity = job.rows[a].entity
    BY DEF OneEntity
  <1>3. ASSUME NEW r \in (e + 1)..N PROVE job.rows[r].entity # job.rows[a].entity
    <2>1. a \in 1..N /\ e + 1 \in 1..N /\ r \in 1..N /\ a <= e + 1 /\ e + 1 <= r /\ e < N
      BY <1>1
    <2>2. job.rows[e + 1].entity # job.rows[a].entity
      BY <1>1, <1>2, <2>1
    <2> QED BY <1>1, <2>1, <2>2 DEF EntityJobOK, Entity!GroupedByEntity
  <1> DEFINE IsLast(r) == /\ job.rows[r].entity = job.rows[a].entity
                          /\ \A s \in (r + 1)..Len(job.rows) : job.rows[s].entity # job.rows[a].entity
  <1>4. e \in a..Len(job.rows) /\ IsLast(e)
    BY <1>1, <1>2, <1>3
  <1>5. ASSUME NEW r \in a..Len(job.rows), IsLast(r) PROVE r = e
    <2>1. ~(r < e)
      <3>1. r < e => e \in (r + 1)..Len(job.rows)
        BY <1>1
      <3> QED BY <1>2, <1>5, <3>1
    <2>2. ~(e < r)
      <3>1. e < r => r \in (e + 1)..N
        BY <1>1
      <3> QED BY <1>3, <1>5, <3>1
    <2> QED BY <2>1, <2>2
  <1>6. (CHOOSE r \in a..Len(job.rows) : IsLast(r)) = e
    <2> HIDE DEF IsLast
    <2> QED BY <1>4, <1>5
  <1>7. Entity!EntityRows(a) = Slice(a, e)
    BY <1>6 DEF Entity!EntityRows, Slice
  <1> QED BY <1>1, <1>3, <1>7

\* The output by entities, row after row.
LEMMA FlatSteps ==
    ASSUME EntityJobOK, ResultsAreSequences
    PROVE  /\ FlatUpTo(0) = <<>>
           /\ \A k \in 0..(Len(job.rows) - 1) : FlatUpTo(k + 1) = FlatUpTo(k) \o Parts[k + 1]
           /\ \A k \in 0..Len(job.rows) : FlatUpTo(k) \o <<>> = FlatUpTo(k)
           /\ Entity!FlattenSeq(Parts) = FlatUpTo(Len(job.rows))
  <1>1. PICK N \in Nat : N = Len(job.rows) /\ DOMAIN job.rows = 1..N
    BY RowFacts
  <1>2. PICK f : f = CHOOSE g : IsFlat(g, Parts, N)
    OBVIOUS
  <1>3. IsFlat(f, Parts, N)
    BY <1>2, FlatSolved
  <1>4. \A i \in 1..N : f[i] = IF i = 1 THEN Parts[i] ELSE f[i - 1] \o Parts[i]
    BY <1>3 DEF IsFlat
  <1>5. FlatUpTo(0) = <<>> /\ \A k \in 1..N : FlatUpTo(k) = f[k]
    BY <1>1, <1>2 DEF FlatUpTo
  <1>6. DOMAIN Parts = 1..N
    BY <1>1 DEF Parts
  <1> DEFINE R == UNION {Range(Parts[r]) : r \in 1..N}
  <1>7. ASSUME NEW r \in 1..N PROVE Parts[r] \in Seq(R)
    <2>1. CASE ~Begins(r)
      BY <1>1, <2>1 DEF Parts
    <2>2. CASE Begins(r)
      <3> DEFINE After == {e \in r..N : e < N => job.rows[e + 1].entity # job.rows[r].entity}
      <3>1. PICK e \in r..N : OneEntity(r, e) /\ (e < N => job.rows[e + 1].entity # job.rows[r].entity)
        <4>1. After \in SUBSET Int /\ IsFiniteSet(After) /\ After # {}
          <5>1. IsFiniteSet(r..N) /\ N \in After
            BY <1>1, FS_Interval
          <5> QED BY <5>1, FS_Subset
        <4> HIDE DEF After
        <4>2. PICK e \in After : \A u \in After : e <= u
          BY <4>1, LeastAndGreatest
        <4>3. e \in r..N /\ (e < N => job.rows[e + 1].entity # job.rows[r].entity)
          BY DEF After
        <4>4. \A k \in r..(e - 1) : k \notin After
          BY <4>2, <4>3
        <4>5. \A k \in r..(e - 1) : job.rows[k + 1].entity = job.rows[r].entity
          BY <4>3, <4>4 DEF After
        <4>6. \A k \in r..e : k = r \/ (k - 1 \in r..(e - 1) /\ k - 1 + 1 = k)
          BY <4>3
        <4>7. OneEntity(r, e)
          BY <4>5, <4>6 DEF OneEntity
        <4> QED BY <4>3, <4>7
      <3>2. job.rows[e].entity = job.rows[r].entity
        BY <3>1 DEF OneEntity
      <3>3. r \in 1..Len(job.rows) /\ e \in r..Len(job.rows) /\ e \in 1..Len(job.rows) /\ r <= e
        BY <1>1
      <3>4. Entity!EntityRows(r) = Slice(r, e)
        BY <1>1, <3>1, <3>2, <3>3, EntityRowsAre
      <3>5. Parts[r] = ResultOf(Slice(r, e))
        BY <1>1, <2>2, <3>4 DEF Parts
      <3>6. Parts[r] \in Seq(Range(Parts[r]))
        BY <3>1, <3>3, <3>5 DEF ResultsAreSequences
      <3>7. Range(Parts[r]) \subseteq R
        OBVIOUS
      <3> HIDE DEF R
      <3> QED BY <3>6, <3>7
    <2> QED BY <2>1, <2>2
  <1> HIDE DEF R
  <1> DEFINE Good == {k \in 0..N : FlatUpTo(k) \in Seq(R)}
  <1>8. ASSUME NEW k \in 0..(N - 1), FlatUpTo(k) \in Seq(R)
        PROVE  FlatUpTo(k + 1) = FlatUpTo(k) \o Parts[k + 1] /\ FlatUpTo(k + 1) \in Seq(R)
    <2>1. k + 1 \in 1..N /\ Parts[k + 1] \in Seq(R)
      BY <1>7
    <2>2. FlatUpTo(k + 1) = FlatUpTo(k) \o Parts[k + 1]
      <3>1. CASE k = 0
        <4>1. FlatUpTo(k + 1) = Parts[k + 1]
          BY <1>4, <1>5, <2>1, <3>1
        <4> QED BY <1>5, <2>1, <3>1, <4>1, ConcatEmptySeq
      <3>2. CASE k # 0
        <4>1. PICK i \in 1..N : i = k + 1 /\ i # 1 /\ i - 1 = k /\ k \in 1..N
          BY <3>2
        <4>2. f[i] = f[i - 1] \o Parts[i]
          BY <1>4, <4>1
        <4>3. f[i] = f[k] \o Parts[i]
          BY <4>1, <4>2
        <4>4. FlatUpTo(i) = f[i] /\ FlatUpTo(k) = f[k]
          BY <1>5, <4>1
        <4> QED BY <4>1, <4>3, <4>4
      <3> QED BY <3>1, <3>2
    <2> QED BY <1>8, <2>1, <2>2, ConcatProperties
  <1>9. 0 \in Good /\ \A k \in 0..(N - 1) : k \in Good => k + 1 \in Good
    <2>1. FlatUpTo(0) \in Seq(R)
      BY <1>5, EmptySeq
    <2> QED BY <1>8, <2>1
  <1>10. \A k \in 0..N : FlatUpTo(k) \in Seq(R)
    <2>1. 0..N \subseteq Good
      <3> HIDE DEF Good
      <3> QED BY <1>9, UpTo
    <2> QED BY <2>1
  <1>11. \A k \in 0..N : FlatUpTo(k) \o <<>> = FlatUpTo(k)
    BY <1>10, ConcatEmptySeq
  <1>12. Entity!FlattenSeq(Parts) = FlatUpTo(N)
    <2>1. CASE N = 0
      <3>1. Parts = <<>>
        BY <1>1, <2>1 DEF Parts
      <3>2. Entity!FlattenSeq(Parts) = <<>>
        BY <3>1 DEF Entity!FlattenSeq
      <3> QED BY <1>5, <2>1, <3>2
    <2>2. CASE N # 0
      <3>1. Len(Parts) = N /\ Parts # <<>>
        BY <1>6, <2>2
      <3>2. Entity!FlattenSeq(Parts) = (CHOOSE g : IsFlat(g, Parts, N))[N]
        BY <3>1 DEF Entity!FlattenSeq, IsFlat
      <3> QED BY <1>2, <1>5, <2>2, <3>2
    <2> QED BY <2>1, <2>2
  <1> QED BY <1>1, <1>5, <1>8, <1>10, <1>11, <1>12


\* No output begins with the rows of an entity behind its first.
LEMMA SameFlat ==
    ASSUME EntityJobOK, ResultsAreSequences, NEW a \in 1..Len(job.rows), NEW e \in a..Len(job.rows),
           OneEntity(a, e)
    PROVE  FlatUpTo(e) = FlatUpTo(a)
  <1>1. PICK N \in Nat : N = Len(job.rows) /\ DOMAIN job.rows = 1..N
    BY RowFacts
  <1>2. a \in 1..N /\ e \in 1..N /\ a <= e
    BY <1>1
  <1> DEFINE Good == {k \in 0..(e - a) : FlatUpTo(a + k) = FlatUpTo(a)}
  <1>3. ASSUME NEW k \in 0..(e - a - 1), FlatUpTo(a + k) = FlatUpTo(a)
        PROVE  FlatUpTo(a + (k + 1)) = FlatUpTo(a)
    <2>1. /\ a + (k + 1) \in 1..N /\ a + (k + 1) - 1 = a + k
          /\ a + (k + 1) \in a..e /\ a \in 1..(a + (k + 1) - 1)
      BY <1>3, <1>2
    <2>2. PICK r \in 1..N : r = a + (k + 1) /\ r - 1 = a + k /\ r \in a..e /\ a \in 1..(r - 1)
      BY <2>1
    <2>3. r - 1 \in 0..(Len(job.rows) - 1) /\ r - 1 + 1 = r
      BY <1>1
    <2>4. ~Begins(r)
      BY <2>2 DEF Begins, OneEntity
    <2>5. Parts[r] = <<>>
      BY <1>1, <2>4 DEF Parts
    <2>6. FlatUpTo(r) = FlatUpTo(r - 1) \o <<>>
      BY <2>3, <2>5, FlatSteps
    <2>7. FlatUpTo(r - 1) \o <<>> = FlatUpTo(r - 1)
      <3>1. r - 1 \in 0..Len(job.rows)
        BY <2>3
      <3> QED BY <3>1, FlatSteps
    <2> QED BY <1>3, <2>2, <2>6, <2>7
  <1>4. e - a \in Nat /\ 0 \in Good /\ \A k \in 0..(e - a - 1) : k \in Good => k + 1 \in Good
    BY <1>2, <1>3
  <1>5. 0..(e - a) \subseteq Good
    <2> HIDE DEF Good
    <2> QED BY <1>4, UpTo
  <1>6. e - a \in 0..(e - a) /\ a + (e - a) = e
    BY <1>2
  <1>7. e - a \in Good
    <2> HIDE DEF Good
    <2> QED BY <1>5, <1>6
  <1> QED BY <1>6, <1>7


\* A run of one entity is added to what has been reached.
LEMMA RunReached ==
    ASSUME EntityJobOK, OperatorCorrect, NEW acc, NEW e \in 0..(Len(job.rows) - 1), Reached(acc, e),
           NEW end \in (e + 1)..Len(job.rows), OneEntity(e + 1, end)
    PROVE  Reached(Entity!ProcessRun(acc, e + 1, end), end)
  <1>1. PICK N \in Nat : N = Len(job.rows) /\ DOMAIN job.rows = 1..N
    BY RowFacts
  <1>2. PICK s \in Int : s = e + 1 /\ s \in 1..N /\ end \in s..N /\ end \in 1..N /\ end # 0
    BY <1>1
  <1>3. PICK next : next = Entity!ProcessRun(acc, s, end)
    OBVIOUS
  <1> DEFINE entity == job.rows[s].entity
             same == acc.entity = entity
  <1>4. /\ next.entity = entity
        /\ next.st = Entity!ProcessSubBatch(IF same THEN acc.st ELSE Entity!CreateState, Slice(s, end))
        /\ next.out = acc.out \o IF same \/ acc.entity = Null THEN <<>> ELSE Entity!FinishEntity(acc.st)
    BY <1>3 DEF Entity!ProcessRun, Slice
  <1>5. job.rows[end].entity = entity /\ entity # Null
    BY <1>1, <1>2 DEF OneEntity, EntityJobOK
  <1>6. ResultsAreSequences /\ CreateSummarises /\ SubBatchSummarised /\ FinishReturnsResult
    BY DEF OperatorCorrect
  <1>7. ASSUME ~same, Begins(s), next.out = FlatUpTo(s - 1) PROVE Reached(next, end)
    <2>1. next.st = Entity!ProcessSubBatch(Entity!CreateState, Slice(s, end))
      BY <1>4, <1>7
    <2>2. Summarises(next.st, Slice(s, end))
      <3>1. s \in 1..Len(job.rows) /\ end \in 1..Len(job.rows) /\ s - 1 \in (s - 1)..(end - 1) /\ s <= end
        BY <1>1, <1>2
      <3>2. Summarises(Entity!CreateState, Slice(s, s - 1)) /\ s - 1 + 1 = s
        BY <1>6, <3>1 DEF CreateSummarises
      <3>3. Summarises(Entity!ProcessSubBatch(Entity!CreateState, Slice((s - 1) + 1, end)), Slice(s, end))
        BY <1>2, <1>6, <3>1, <3>2 DEF SubBatchSummarised
      <3> QED BY <2>1, <3>2, <3>3
    <2>3. s \in 1..end /\ OneEntity(s, end)
      BY <1>2
    <2> QED BY <1>2, <1>4, <1>5, <1>7, <2>2, <2>3 DEF Reached
  <1>8. CASE e = 0
    <2>1. acc.entity = Null /\ acc.out = <<>>
      BY <1>8 DEF Reached
    <2>2. ~same /\ s = 1
      BY <1>2, <1>5, <1>8, <2>1
    <2>3. Begins(s) /\ s - 1 = 0
      BY <2>2 DEF Begins
    <2>4. next.out = <<>> \o <<>>
      BY <1>4, <2>1
    <2>5. FlatUpTo(0) = <<>> /\ FlatUpTo(0) \o <<>> = FlatUpTo(0)
      BY <1>1, <1>6, FlatSteps
    <2> QED BY <1>2, <1>3, <1>7, <2>2, <2>3, <2>4, <2>5
  <1>9. CASE e # 0
    <2>1. acc.entity = job.rows[e].entity /\ e \in 1..N /\ e < N /\ e + 1 = s /\ s - 1 = e
      BY <1>1, <1>2, <1>9 DEF Reached
    <2>2. PICK a \in 1..e : /\ Begins(a) /\ OneEntity(a, e)
                            /\ acc.out = FlatUpTo(a - 1)
                            /\ Summarises(acc.st, Slice(a, e))
      BY <1>9 DEF Reached
    <2>3. a \in 1..N /\ a \in 1..end /\ a <= e /\ e < end
      BY <1>2, <2>1
    <2>4. job.rows[e].entity = job.rows[a].entity
      BY <2>1, <2>2, <2>3 DEF OneEntity
    <2>5. acc.entity # Null
      BY <1>1, <2>1 DEF EntityJobOK
    <2>6. CASE same
      <3>1. OneEntity(a, end)
        <4>1. \A r \in s..end : job.rows[r].entity = entity
          BY <1>2 DEF OneEntity
        <4>2. \A r \in a..e : job.rows[r].entity = job.rows[a].entity
          BY <2>2 DEF OneEntity
        <4>3. \A r \in a..end : r \in a..e \/ r \in s..end
          BY <1>2, <2>3
        <4> QED BY <2>1, <2>4, <2>6, <4>1, <4>2, <4>3 DEF OneEntity
      <3>2. Summarises(next.st, Slice(a, end))
        <4>1. next.st = Entity!ProcessSubBatch(acc.st, Slice(e + 1, end))
          BY <1>4, <2>1, <2>6
        <4>2. /\ a \in 1..Len(job.rows) /\ end \in 1..Len(job.rows) /\ e \in (a - 1)..(end - 1)
              /\ a <= end
          BY <1>1, <1>2, <2>1, <2>3
        <4> QED BY <1>6, <2>2, <3>1, <4>1, <4>2 DEF SubBatchSummarised
      <3>3. next.out = FlatUpTo(a - 1)
        <4>1. next.out = FlatUpTo(a - 1) \o <<>>
          BY <1>4, <2>2, <2>6
        <4>2. a - 1 \in 0..Len(job.rows)
          BY <1>1, <2>3
        <4> QED BY <1>6, <4>1, <4>2, FlatSteps
      <3>4. Reached(next, end)
        BY <1>2, <1>4, <1>5, <2>2, <2>3, <3>1, <3>2, <3>3 DEF Reached
      <3> QED BY <1>2, <1>3, <3>4
    <2>7. CASE ~same
      <3>1. job.rows[e + 1].entity # job.rows[e].entity
        BY <2>1, <2>7
      <3>2. /\ Entity!EntityRows(a) = Slice(a, e)
            /\ \A r \in (e + 1)..N : job.rows[r].entity # job.rows[a].entity
        <4>1. a \in 1..Len(job.rows) /\ e \in a..Len(job.rows)
          BY <1>1, <2>1, <2>3
        <4> QED BY <1>1, <2>2, <3>1, <4>1, EntityRowsAre
      <3>3. Entity!FinishEntity(acc.st) = ResultOf(Slice(a, e))
        BY <1>1, <1>6, <2>1, <2>2, <2>3 DEF FinishReturnsResult
      <3>4. Parts[a] = ResultOf(Slice(a, e))
        BY <1>1, <2>2, <2>3, <3>2 DEF Parts
      <3>5. next.out = FlatUpTo(a - 1) \o Parts[a]
        BY <1>4, <2>2, <2>5, <2>7, <3>3, <3>4
      <3>6. FlatUpTo(a) = FlatUpTo(a - 1) \o Parts[a]
        <4>1. a - 1 \in 0..(Len(job.rows) - 1) /\ a - 1 + 1 = a
          BY <1>1, <2>3
        <4> QED BY <1>6, <4>1, FlatSteps
      <3>7. FlatUpTo(e) = FlatUpTo(a)
        BY <1>1, <1>6, <2>1, <2>2, <2>3, SameFlat
      <3>8. Begins(s)
        <4>1. SUFFICES ASSUME NEW r \in 1..(s - 1), job.rows[r].entity = job.rows[s].entity PROVE FALSE
          BY DEF Begins
        <4>2. r \in 1..N /\ r <= e /\ e <= s
          BY <1>2, <2>1
        <4>3. job.rows[e].entity = job.rows[r].entity
          BY <1>1, <1>2, <2>1, <4>1, <4>2 DEF EntityJobOK, Entity!GroupedByEntity
        <4> QED BY <2>1, <3>1, <4>1, <4>3
      <3>9. next.out = FlatUpTo(s - 1)
        BY <2>1, <3>5, <3>6, <3>7
      <3> QED BY <1>2, <1>3, <1>7, <2>7, <3>8, <3>9
    <2> QED BY <2>6, <2>7
  <1> QED BY <1>8, <1>9


\* A run ends where another entity begins or the batch ends.
LEMMA EntityEnd ==
    ASSUME EntityJobOK, NEW start \in 1..Len(job.rows), NEW last \in start..Len(job.rows)
    PROVE  LET end == Entity!FindEntityEnd(start, last)
           IN  /\ end \in start..last
               /\ OneEntity(start, end)
               /\ end < last => job.rows[end + 1].entity # job.rows[start].entity
  <1>1. start \in Int /\ last \in Int /\ start <= last
    BY RowFacts
  <1> DEFINE IsEnd(e) == /\ \A r \in start..e : job.rows[r].entity = job.rows[start].entity
                         /\ e < last => job.rows[e + 1].entity # job.rows[start].entity
             After == {e \in start..last : e < last => job.rows[e + 1].entity # job.rows[start].entity}
  <1>2. After \in SUBSET Int /\ IsFiniteSet(After) /\ After # {}
    <2>1. IsFiniteSet(start..last) /\ last \in After
      BY <1>1, FS_Interval
    <2>2. After \in SUBSET (start..last) /\ After \in SUBSET Int
      BY <1>1
    <2> HIDE DEF After
    <2> QED BY <2>1, <2>2, FS_Subset
  <1>3. PICK e \in After : \A u \in After : e <= u
    <2> HIDE DEF After
    <2> QED BY <1>2, LeastAndGreatest
  <1>4. e \in start..last /\ e \in Int
    BY <1>1
  <1>5. \A k \in start..(e - 1) : job.rows[k + 1].entity = job.rows[start].entity
    <2>1. \A k \in start..(e - 1) : k \notin After /\ k \in start..last
      BY <1>1, <1>3, <1>4
    <2> QED BY <2>1
  <1>6. \A k \in start..e : k = start \/ (k - 1 \in start..(e - 1) /\ k - 1 + 1 = k)
    BY <1>1, <1>4
  <1>7. \A k \in start..e : job.rows[k].entity = job.rows[start].entity
    BY <1>5, <1>6
  <1>8. IsEnd(e)
    BY <1>3, <1>7
  <1>9. PICK end : end = Entity!FindEntityEnd(start, last)
    OBVIOUS
  <1>10. end = CHOOSE x \in start..last : IsEnd(x)
    BY <1>9 DEF Entity!FindEntityEnd
  <1>11. end \in start..last /\ IsEnd(end)
    <2> HIDE DEF IsEnd
    <2> QED BY <1>4, <1>8, <1>10
  <1> QED BY <1>9, <1>11 DEF OneEntity

\* A batch of the child's rows is added to what has been reached.
LEMMA BatchReached ==
    ASSUME EntityJobOK, OperatorCorrect, NEW n \in Nat, NEW first \in 1..Len(job.rows), n # 0,
           first + n - 1 <= Len(job.rows), NEW g, Reached(g[0], first - 1),
           \A k \in 0..(n - 1) :
              g[k + 1] = Entity!ProcessFrom(g[k], first + (k + 1) - 1, first, first + n - 1)
    PROVE  Reached(g[n], first + n - 1)
  <1>1. PICK N \in Nat : N = Len(job.rows) /\ DOMAIN job.rows = 1..N
    BY RowFacts
  <1>2. PICK last \in Nat : last = first + n - 1 /\ last \in first..N /\ first \in Nat /\ first >= 1
    BY <1>1
  \* The run with the k-th row of the batch, which ends with the row e.
  <1> DEFINE At(k, e) == /\ Reached(g[k], e)
                         /\ first + k - 1 <= e /\ e <= last
                         /\ k = 0 => e = first - 1
                         /\ k # 0 => OneEntity(first + k - 1, e)
                         /\ k # 0 /\ e < last => job.rows[e + 1].entity # job.rows[e].entity
             Good == {k \in 0..n : \E e \in 0..last : At(k, e)}
  <1>3. 0 \in Good
    <2>1. first - 1 \in 0..last /\ At(0, first - 1)
      BY <1>2
    <2> QED BY <2>1
  <1>4. ASSUME NEW k \in 0..(n - 1), NEW e \in 0..last, At(k, e)
        PROVE  \E end \in 0..last : At(k + 1, end)
    <2>1. PICK row \in 1..N : /\ row = first + (k + 1) - 1 /\ row = first + k /\ row - 1 = first + k - 1
                              /\ first <= row /\ row <= last /\ (k = 0 <=> row = first)
      <3>1. /\ first + k \in 1..N /\ first + k = first + (k + 1) - 1 /\ first + k - 1 = first + k - 1
            /\ first <= first + k /\ first + k <= last /\ (k = 0 <=> first + k = first)
        BY <1>1, <1>2
      <3> QED BY <3>1
    <2>2. g[k + 1] = Entity!ProcessFrom(g[k], row, first, last)
      BY <1>2, <2>1
    <2>3. Reached(g[k], e) /\ row - 1 <= e /\ e <= last /\ e \in Nat
      BY <1>4, <2>1
    <2>4. CASE row = first \/ job.rows[row].entity # job.rows[row - 1].entity
      <3>1. e = row - 1
        <4>1. CASE row = first
          BY <1>4, <2>1, <4>1
        <4>2. CASE row # first
          <5>1. OneEntity(row - 1, e)
            BY <1>4, <2>1, <4>2
          <5>2. ~(row <= e)
            <6>1. row <= e => row \in (row - 1)..e
              BY <2>3
            <6> QED BY <2>4, <4>2, <5>1, <6>1 DEF OneEntity
          <5> QED BY <2>3, <5>2
        <4> QED BY <4>1, <4>2
      <3>2. PICK end : end = Entity!FindEntityEnd(row, last)
        OBVIOUS
      <3>3. g[k + 1] = Entity!ProcessRun(g[k], row, end)
        BY <2>2, <2>4, <3>2 DEF Entity!ProcessFrom
      <3>4. /\ end \in row..last /\ OneEntity(row, end)
            /\ end < last => job.rows[end + 1].entity # job.rows[row].entity
        <4>1. row \in 1..Len(job.rows) /\ last \in row..Len(job.rows)
          BY <1>1, <1>2, <2>1
        <4> QED BY <3>2, <4>1, EntityEnd
      <3>5. end \in Int /\ row <= end /\ end <= last
        BY <1>2, <2>1, <3>4
      <3>6. Reached(g[k + 1], end)
        <4>1. N = Len(job.rows) /\ last <= N /\ N \in Nat /\ last \in Nat
          BY <1>1, <1>2
        <4>2. e \in 0..(Len(job.rows) - 1) /\ e + 1 = row /\ end \in (e + 1)..Len(job.rows)
          BY <2>1, <3>1, <3>5, <4>1
        <4> QED BY <2>3, <3>3, <3>4, <4>2, RunReached
      <3>7. end \in row..end /\ job.rows[end].entity = job.rows[row].entity
        BY <2>1, <3>4, <3>5 DEF OneEntity
      <3>8. end \in 0..last /\ k + 1 # 0 /\ first + (k + 1) - 1 <= end /\ end <= last
        BY <1>2, <2>1, <3>5
      <3>9. At(k + 1, end)
        BY <2>1, <3>4, <3>6, <3>7, <3>8
      <3> QED BY <3>8, <3>9
    <2>5. CASE row # first /\ job.rows[row].entity = job.rows[row - 1].entity
      <3>1. g[k + 1] = g[k]
        BY <2>2, <2>5 DEF Entity!ProcessFrom
      <3>2. k # 0 /\ OneEntity(row - 1, e) /\ (e < last => job.rows[e + 1].entity # job.rows[e].entity)
        BY <1>4, <2>1, <2>5
      <3>3. row <= e
        <4>1. row - 1 = e => e < last /\ e + 1 = row
          BY <2>1, <2>3
        <4>2. row - 1 # e
          BY <2>5, <3>2, <4>1
        <4> QED BY <2>1, <2>3, <4>2
      <3>4. OneEntity(row, e)
        <4>1. \A r \in row..e : r \in (row - 1)..e
          BY <2>1, <2>3
        <4>2. row \in row..e
          BY <2>3, <3>3
        <4> QED BY <3>2, <4>1, <4>2 DEF OneEntity
      <3>5. k + 1 # 0 /\ first + (k + 1) - 1 = row
        BY <2>1
      <3>6. At(k + 1, e)
        BY <2>3, <3>1, <3>2, <3>3, <3>4, <3>5
      <3> QED BY <3>6
    <2> QED BY <2>4, <2>5
  <1> HIDE DEF At
  <1>5. \A k \in 0..(n - 1) : k \in Good => k + 1 \in Good
    BY <1>4
  <1>6. n \in Good
    <2>1. 0..n \subseteq Good
      <3> HIDE DEF Good
      <3> QED BY <1>3, <1>5, UpTo
    <2> QED BY <2>1
  <1>7. PICK e \in 0..last : At(n, e)
    BY <1>6
  <1>8. e = last /\ Reached(g[n], e)
    BY <1>2, <1>7 DEF At
  <1> QED BY <1>2, <1>8


-----------------------------------------------------------------------------
(* EVENT *)

\* The rows that qualify are finitely many, each with its place among them.
LEMMA QualifyingFacts ==
    ASSUME NEW R, NEW rows \in Seq(R)
    PROVE  LET all == Entity!Sel!Qualifying(rows)
           IN  /\ all \subseteq 1..Len(rows) /\ IsFiniteSet(all) /\ Cardinality(all) \in Nat
               /\ all = {} <=> Cardinality(all) = 0
               /\ \A r \in all : Entity!Sel!Place(rows, r) \in 1..Cardinality(all)
               /\ \A r : Entity!Sel!Place(rows, r) = Cardinality({s \in all : s <= r})
  <1> DEFINE all == Entity!Sel!Qualifying(rows)
  <1>1. \A S : Entity!Sel!Cardinality(S) = Cardinality(S)
    BY DEF Entity!Sel!Cardinality, Cardinality
  <1>2. Len(rows) \in Nat /\ DOMAIN rows = 1..Len(rows)
    BY LenProperties
  <1>3. all \subseteq 1..Len(rows)
    BY <1>2 DEF Entity!Sel!Qualifying
  <1>4. \A r : Entity!Sel!Place(rows, r) = Cardinality({s \in all : s <= r})
    BY <1>1 DEF Entity!Sel!Place
  <1> HIDE DEF all
  <1>5. IsFiniteSet(all) /\ Cardinality(all) \in Nat /\ (all = {} <=> Cardinality(all) = 0)
    <2>1. IsFiniteSet(1..Len(rows))
      BY <1>2, FS_Interval
    <2>2. IsFiniteSet(all)
      BY <1>3, <2>1, FS_Subset
    <2> QED BY <2>2, FS_CardinalityType, FS_EmptySet
  <1>6. ASSUME NEW r \in all PROVE Entity!Sel!Place(rows, r) \in 1..Cardinality(all)
    <2> DEFINE S == {s \in all : s <= r}
    <2>1. S \in SUBSET all /\ S # {}
      BY <1>2, <1>3, <1>6
    <2>2. Entity!Sel!Place(rows, r) = Cardinality(S)
      BY <1>4
    <2> HIDE DEF S
    <2>3. IsFiniteSet(S) /\ Cardinality(S) <= Cardinality(all)
      BY <1>5, <2>1, FS_Subset
    <2>4. Cardinality(S) \in Nat /\ Cardinality(S) # 0
      BY <2>1, <2>3, FS_CardinalityType, FS_EmptySet
    <2> QED BY <1>5, <2>2, <2>3, <2>4
  <1> QED BY <1>3, <1>4, <1>5, <1>6 DEF all

\* A row more is summarised.
LEMMA TakeSummarises ==
    ASSUME job.op.kind \in {"First", "Last", "Nth"}, job.op.n \in Nat,
           NEW R, NEW rows \in Seq(R), NEW row \in R, NEW st, SelSummarises(st, rows)
    PROVE  SelSummarises(Entity!Sel!Take(st, row), Append(rows, row))
  <1>1. PICK n \in Nat : n = Len(rows)
    BY LenProperties
  <1>2. PICK more \in Seq(R) : more = Append(rows, row)
    BY AppendProperties
  <1>3. /\ Len(more) = n + 1 /\ more[n + 1] = row /\ \A i \in 1..n : more[i] = rows[i]
        /\ DOMAIN more = 1..(n + 1) /\ DOMAIN rows = 1..n
    BY <1>1, <1>2, AppendProperties, LenProperties
  <1> DEFINE all  == Entity!Sel!Qualifying(rows)
             all2 == Entity!Sel!Qualifying(more)
             old  == Chosen(rows)
             new  == Chosen(more)
             wanted == Entity!Sel!Wanted(rows)
  <1>4. PICK c \in Nat : c = Cardinality(all) /\ (c = 0 <=> all = {})
    BY QualifyingFacts
  <1>5. all \subseteq 1..n /\ all2 \subseteq 1..(n + 1)
    BY <1>1, <1>3, QualifyingFacts
  <1>6. \A r \in 1..n : r \in all2 <=> r \in all
    BY <1>3 DEF Entity!Sel!Qualifying
  <1>7. n + 1 \in all2 <=> Entity!Sel!Qualifies(row)
    BY <1>3 DEF Entity!Sel!Qualifying
  <1>8. ASSUME NEW r \in 1..n PROVE Entity!Sel!Place(more, r) = Entity!Sel!Place(rows, r)
    <2>1. {s \in all2 : s <= r} = {s \in all : s <= r}
      BY <1>5, <1>6
    <2> HIDE DEF all, all2
    <2> QED BY <2>1, QualifyingFacts DEF all, all2
  <1>9. \A r \in all : Entity!Sel!Place(rows, r) \in 1..c
    BY <1>4, QualifyingFacts
  <1>10. Entity!Sel!Wanted(more) = CASE job.op.kind = "First" -> 1
                                     [] job.op.kind = "Last" -> Cardinality(all2)
                                     [] job.op.kind = "Nth" -> job.op.n
    <2>1. \A S : Entity!Sel!Cardinality(S) = Cardinality(S)
      BY DEF Entity!Sel!Cardinality, Cardinality
    <2> QED BY <2>1 DEF Entity!Sel!Wanted
  <1>11. wanted = CASE job.op.kind = "First" -> 1
                    [] job.op.kind = "Last" -> c
                    [] job.op.kind = "Nth" -> job.op.n
    <2>1. \A S : Entity!Sel!Cardinality(S) = Cardinality(S)
      BY DEF Entity!Sel!Cardinality, Cardinality
    <2> QED BY <1>4, <2>1 DEF Entity!Sel!Wanted
  <1>12. PICK next : next = Entity!Sel!Take(st, row)
    OBVIOUS
  <1>13. /\ st = [row |-> st.row, count |-> st.count, done |-> st.done]
         /\ st.done \in BOOLEAN /\ st.count \in Nat
         /\ \/ old = {} /\ st.row = Null
            \/ \E r \in all : old = {r} /\ st.row = rows[r].pos
         /\ job.op.kind = "First" => (st.done <=> all # {})
         /\ job.op.kind = "Last" => ~st.done
         /\ job.op.kind = "Nth" => (st.done <=> old # {}) /\ (~st.done => st.count = c)
    BY <1>4 DEF SelSummarises
  <1>14. \A r : r \in old <=> r \in all /\ Entity!Sel!Place(rows, r) = wanted
    BY DEF Chosen
  <1>15. \A r : r \in new <=> r \in all2 /\ Entity!Sel!Place(more, r) = Entity!Sel!Wanted(more)
    BY DEF Chosen
  <1> HIDE DEF all, all2, old, new, wanted
  <1>16. /\ n + 1 \notin 1..n /\ \A r \in 1..(n + 1) : r \in 1..n \/ r = n + 1
         /\ \A r \in 1..(n + 1) : r <= n + 1
    OBVIOUS
  <1>17. \A r : /\ r \in all => r \in 1..n
                /\ r \in all2 => r \in 1..n \/ r = n + 1
                /\ r \in all2 => r <= n + 1
    BY <1>5, <1>16
  <1>18. ASSUME ~Entity!Sel!Qualifies(row) PROVE SelSummarises(next, more)
    <2>1. all2 = all
      <3>1. \A r : r \in all2 <=> r \in all
        BY <1>6, <1>7, <1>18, <1>17
      <3> QED BY <3>1
    <2>2. Entity!Sel!Wanted(more) = wanted
      BY <1>4, <1>10, <1>11, <2>1
    <2>3. new = old
      BY <1>5, <1>8, <1>14, <1>15, <2>1, <2>2
    <2>4. next = st
      BY <1>12, <1>18 DEF Entity!Sel!Take
    <2>5. \A r \in all : more[r] = rows[r]
      BY <1>3, <1>5
    <2> QED BY <1>4, <1>13, <2>1, <2>3, <2>4, <2>5 DEF SelSummarises, all2, new
  <1>19. ASSUME Entity!Sel!Qualifies(row) PROVE SelSummarises(next, more)
    <2>1. all2 = all \cup {n + 1} /\ n + 1 \notin all
      <3>1. \A r : r \in all2 <=> r \in all \/ r = n + 1
        BY <1>6, <1>7, <1>19, <1>17
      <3>2. n + 1 \notin all
        BY <1>16, <1>17
      <3> QED BY <3>1, <3>2
    <2>2. Cardinality(all2) = c + 1 /\ all2 # {}
      <3>1. IsFiniteSet(all)
        BY QualifyingFacts DEF all
      <3> QED BY <1>4, <2>1, <3>1, FS_AddElement
    <2>3. Entity!Sel!Place(more, n + 1) = c + 1
      <3>1. {s \in all2 : s <= n + 1} = all2
        BY <1>17
      <3>2. Entity!Sel!Place(more, n + 1) = Cardinality({s \in all2 : s <= n + 1})
        BY QualifyingFacts DEF all2
      <3> QED BY <2>2, <3>1, <3>2
    <2>4. \A r \in all : more[r] = rows[r] /\ Entity!Sel!Place(more, r) = Entity!Sel!Place(rows, r)
      BY <1>3, <1>5, <1>8
    <2>5. \A r \in new : r = n + 1 \/ (r \in all /\ Entity!Sel!Place(rows, r) = Entity!Sel!Wanted(more))
      BY <1>15, <2>1, <2>4
    <2>6. n + 1 \in new <=> c + 1 = Entity!Sel!Wanted(more)
      BY <1>15, <2>1, <2>3
    <2>7. CASE st.done
      <3>1. next = st /\ job.op.kind \in {"First", "Nth"}
        BY <1>12, <1>13, <2>7 DEF Entity!Sel!Take
      <3>2. Entity!Sel!Wanted(more) = wanted
        BY <1>10, <1>11, <3>1
      <3>3. c + 1 # wanted
        <4>1. CASE job.op.kind = "First"
          BY <1>4, <1>11, <1>13, <2>7, <4>1
        <4>2. CASE job.op.kind = "Nth"
          <5>1. PICK r \in old : TRUE
            BY <1>13, <2>7, <4>2
          <5>2. wanted \in 1..c
            BY <1>9, <1>14, <5>1
          <5> QED BY <1>4, <5>2
        <4> QED BY <3>1, <4>1, <4>2
      <3>4. new = old
        BY <1>14, <1>15, <2>1, <2>4, <2>5, <2>6, <3>2, <3>3
      <3> QED BY <1>13, <2>1, <2>2, <2>4, <2>7, <3>1, <3>4 DEF SelSummarises, all2, new
    <2>8. CASE ~st.done
      <3>1. CASE job.op.kind = "First"
        <4>1. next = [row |-> row.pos, count |-> st.count, done |-> TRUE]
          BY <1>12, <1>13, <1>19, <2>8, <3>1 DEF Entity!Sel!Take
        <4>2. c = 0 /\ Entity!Sel!Wanted(more) = 1 /\ all = {}
          BY <1>4, <1>10, <1>13, <2>8, <3>1
        <4>3. new = {n + 1}
          BY <1>15, <2>1, <2>5, <2>6, <4>2
        <4> QED BY <1>3, <1>13, <2>1, <2>2, <3>1, <4>1, <4>3 DEF SelSummarises, all2, new
      <3>2. CASE job.op.kind = "Last"
        <4>1. next = [row |-> row.pos, count |-> st.count, done |-> FALSE]
          BY <1>12, <1>13, <1>19, <2>8, <3>2 DEF Entity!Sel!Take
        <4>2. Entity!Sel!Wanted(more) = c + 1
          BY <1>10, <2>2, <3>2
        <4>3. \A r \in all : Entity!Sel!Place(rows, r) # c + 1
          BY <1>4, <1>9
        <4>4. new = {n + 1}
          BY <1>15, <2>1, <2>5, <2>6, <4>2, <4>3
        <4> QED BY <1>3, <1>13, <2>1, <2>2, <3>2, <4>1, <4>4 DEF SelSummarises, all2, new
      <3>3. CASE job.op.kind = "Nth"
        <4>1. next = [row |-> IF st.count + 1 = job.op.n THEN row.pos ELSE st.row,
                      count |-> st.count + 1, done |-> st.count + 1 = job.op.n]
          BY <1>12, <1>13, <1>19, <2>8, <3>3 DEF Entity!Sel!Take
        <4>2. Entity!Sel!Wanted(more) = job.op.n /\ wanted = job.op.n /\ st.count = c /\ old = {}
          BY <1>10, <1>11, <1>13, <2>8, <3>3
        <4>3. \A r \in all : Entity!Sel!Place(rows, r) # job.op.n
          BY <1>14, <4>2
        <4>4. new = IF c + 1 = job.op.n THEN {n + 1} ELSE {}
          BY <1>15, <2>1, <2>5, <2>6, <4>2, <4>3
        <4>5. CASE c + 1 = job.op.n
          BY <1>3, <1>13, <2>1, <2>2, <3>3, <4>1, <4>2, <4>4, <4>5 DEF SelSummarises, all2, new
        <4>6. CASE c + 1 # job.op.n
          BY <1>3, <1>13, <2>1, <2>2, <3>3, <4>1, <4>2, <4>4, <4>6 DEF SelSummarises, all2, new
        <4> QED BY <4>5, <4>6
      <3> QED BY <3>1, <3>2, <3>3
    <2> QED BY <1>13, <2>7, <2>8
  <1> QED BY <1>2, <1>12, <1>18, <1>19


\* EVENT gives what is promised of an entity operator.
LEMMA EventSelectCorrect ==
    ASSUME EntityJobOK, job.operator = "event_select",
           \A row \in Range(job.rows) : row.where # "error"
    PROVE  OperatorCorrect
  <1>1. PICK N \in Nat : N = Len(job.rows) /\ DOMAIN job.rows = 1..N
    BY RowFacts
  <1>2. job.op.kind \in {"First", "Last", "Nth"} /\ job.op.n \in Nat
    BY DEF EntityJobOK, Entity!Parameters
  <1>3. \A st, rows : Summarises(st, rows) <=> SelSummarises(st, rows)
    BY DEF Summarises
  <1>4. \A rows : ResultOf(rows) = Entity!Sel!Selected(rows)
    BY DEF ResultOf
  <1>5. ResultsAreSequences
    <2>1. ASSUME NEW rows
          PROVE  Entity!Sel!Selected(rows) \in Seq(Range(Entity!Sel!Selected(rows)))
      <3>1. PICK x : Entity!Sel!Selected(rows) = <<>> \/ Entity!Sel!Selected(rows) = <<x>>
        BY DEF Entity!Sel!Selected
      <3>2. <<>> \in Seq(Range(<<>>)) /\ <<x>> \in Seq(Range(<<x>>))
        BY DEF Range
      <3> QED BY <3>1, <3>2
    <2> QED BY <1>4, <2>1 DEF ResultsAreSequences
  <1>6. CreateSummarises
    <2> SUFFICES ASSUME NEW a \in 1..N PROVE SelSummarises(Entity!CreateState, Slice(a, a - 1))
      BY <1>1, <1>3 DEF CreateSummarises
    <2>1. Slice(a, a - 1) = <<>>
      BY <1>1, SubSeqEmpty DEF Slice
    <2>2. Entity!Sel!Qualifying(<<>>) = {} /\ Chosen(<<>>) = {}
      BY DEF Entity!Sel!Qualifying, Chosen
    <2>3. Entity!CreateState = [row |-> Null, count |-> 0, done |-> FALSE]
      BY DEF Entity!CreateState, Entity!Sel!CreateState
    <2>4. Cardinality({}) = 0
      BY FS_EmptySet
    <2> QED BY <2>1, <2>2, <2>3, <2>4 DEF SelSummarises
  <1>7. SubBatchSummarised
    <2> SUFFICES ASSUME NEW st, NEW a \in 1..N, NEW c \in 1..N, NEW b \in (a - 1)..(c - 1), a <= c,
                        SelSummarises(st, Slice(a, b))
                 PROVE  SelSummarises(Entity!ProcessSubBatch(st, Slice(b + 1, c)), Slice(a, c))
      BY <1>1, <1>3 DEF SubBatchSummarised
    <2>1. /\ b + 1 \in 1..N /\ b + 1 <= c /\ c - (b + 1) + 1 = c - b /\ c - b \in Nat /\ b \in Int
          /\ b + (c - b) = c /\ b + 0 = b
      BY <1>1
    <2>2. PICK batch \in Seq(Range(job.rows)) :
            /\ batch = Slice(b + 1, c) /\ Len(batch) = c - b
            /\ \A i \in 1..(c - b) : batch[i] = job.rows[b + 1 + i - 1]
      <3>1. b + 1 \in 1..Len(job.rows) /\ c \in 1..Len(job.rows) /\ b + 1 <= c
        BY <1>1, <2>1
      <3>2. /\ Slice(b + 1, c) \in Seq(Range(job.rows)) /\ Len(Slice(b + 1, c)) = c - (b + 1) + 1
            /\ \A i \in 1..(c - (b + 1) + 1) : Slice(b + 1, c)[i] = job.rows[b + 1 + i - 1]
        BY <3>1, RowFacts
      <3> QED BY <2>1, <3>2
    <2>3. Entity!ProcessSubBatch(st, batch) = Entity!Sel!ProcessSubBatch(st, batch)
      BY DEF Entity!ProcessSubBatch
    <2>4. ~\E row \in Range(batch) : row.where = "error"
      <3>1. \A row \in Range(batch) : row \in Range(job.rows)
        BY LenProperties DEF Range
      <3> QED BY <3>1
    <2>5. Entity!Sel!ProcessSubBatch(st, batch) = TakeAll(st, batch)
      <3>1. Entity!Sel!Range(batch) = Range(batch)
        BY DEF Entity!Sel!Range, Range
      <3> QED BY <2>4, <3>1 DEF Entity!Sel!ProcessSubBatch, TakeAll
    <2>6. PICK m : m \in Nat /\ m = c - b /\ DOMAIN batch = 1..m
      BY <2>1, <2>2, LenProperties
    <2>7. PICK g : /\ g[0] = st
                   /\ \A k \in 0..(m - 1) : g[k + 1] = Entity!Sel!Take(g[k], batch[k + 1])
                   /\ TakeAll(st, batch) = g[m]
      BY <2>6, TakeSteps
    <2> DEFINE Good == {k \in 0..(c - b) : SelSummarises(g[k], Slice(a, b + k))}
    <2>8. ASSUME NEW k \in 0..(c - b - 1), SelSummarises(g[k], Slice(a, b + k))
          PROVE  SelSummarises(g[k + 1], Slice(a, b + (k + 1)))
      <3>1. PICK r \in 1..N : r = b + (k + 1) /\ r - 1 = b + k /\ a <= r /\ b + 1 + (k + 1) - 1 = r
        <4>1. /\ b + (k + 1) \in 1..N /\ b + (k + 1) - 1 = b + k /\ a <= b + (k + 1)
              /\ b + 1 + (k + 1) - 1 = b + (k + 1)
          BY <1>1, <2>1
        <4> QED BY <4>1
      <3>2. batch[k + 1] = job.rows[r] /\ job.rows[r] \in Range(job.rows)
        <4>1. k + 1 \in 1..(c - b)
          BY <2>1
        <4> QED BY <1>1, <2>2, <3>1, <4>1 DEF Range
      <3>3. g[k + 1] = Entity!Sel!Take(g[k], job.rows[r])
        BY <2>6, <2>7, <3>2
      <3>4. Slice(a, r - 1) \in Seq(Range(job.rows)) /\ Slice(a, r) = Append(Slice(a, r - 1), job.rows[r])
        BY <1>1, <3>1, SliceNext
      <3>5. SelSummarises(Entity!Sel!Take(g[k], job.rows[r]), Append(Slice(a, r - 1), job.rows[r]))
        BY <1>2, <2>8, <3>1, <3>2, <3>4, TakeSummarises
      <3> QED BY <3>1, <3>3, <3>4, <3>5
    <2>9. 0 \in Good /\ \A k \in 0..(c - b - 1) : k \in Good => k + 1 \in Good
      BY <2>1, <2>7, <2>8
    <2>10. SelSummarises(g[c - b], Slice(a, c))
      <3>1. 0..(c - b) \subseteq Good
        <4> HIDE DEF Good
        <4> QED BY <2>1, <2>9, UpTo
      <3> QED BY <2>1, <3>1
    <2> QED BY <2>2, <2>3, <2>5, <2>6, <2>7, <2>10
  <1>8. FinishReturnsResult
    <2> SUFFICES ASSUME NEW st, NEW a \in 1..N, NEW b \in 1..N, a <= b, SelSummarises(st, Slice(a, b))
                 PROVE  Entity!FinishEntity(st) = Entity!Sel!Selected(Slice(a, b))
      BY <1>1, <1>3, <1>4 DEF FinishReturnsResult
    <2>1. Entity!FinishEntity(st) = Entity!Sel!FinishEntity(st)
      BY DEF Entity!FinishEntity
    <2>2. PICK rows \in Seq(Range(job.rows)) :
            /\ rows = Slice(a, b) /\ Len(rows) = b - a + 1
            /\ \A i \in 1..(b - a + 1) : rows[i] = job.rows[a + i - 1]
      BY <1>1, RowFacts
    <2>3. Entity!Sel!Selected(rows) = IF Chosen(rows) = {} THEN <<>>
                                      ELSE <<[pos |-> rows[CHOOSE r \in Chosen(rows) : TRUE].pos]>>
      BY DEF Entity!Sel!Selected, Chosen
    <2>4. CASE Chosen(rows) = {} /\ st.row = Null
      BY <2>1, <2>2, <2>3, <2>4 DEF Entity!Sel!FinishEntity
    <2>5. CASE \E r \in Entity!Sel!Qualifying(rows) : Chosen(rows) = {r} /\ st.row = rows[r].pos
      <3>1. PICK r \in Entity!Sel!Qualifying(rows) : Chosen(rows) = {r} /\ st.row = rows[r].pos
        BY <2>5
      <3>2. (CHOOSE s \in Chosen(rows) : TRUE) = r
        BY <3>1
      <3>3. r \in 1..(b - a + 1) /\ a + r - 1 \in 1..N
        <4>1. r \in 1..Len(rows)
          BY QualifyingFacts
        <4>2. r \in 1..(b - a + 1)
          BY <2>2, <4>1
        <4> QED BY <4>2
      <3>4. st.row # Null
        BY <1>1, <2>2, <3>1, <3>3 DEF EntityJobOK
      <3> QED BY <2>1, <2>2, <2>3, <3>1, <3>2, <3>4 DEF Entity!Sel!FinishEntity
    <2> QED BY <2>2, <2>4, <2>5 DEF SelSummarises
  <1> QED BY <1>5, <1>6, <1>7, <1>8 DEF OperatorCorrect


-----------------------------------------------------------------------------
(* SESSIONIZE *)

\* A set of numbers with a greatest.
LEMMA SessMaxIs ==
    ASSUME NEW S \in SUBSET Nat, NEW m \in S, \A k \in S : k <= m
    PROVE  Entity!Sess!Max(S) = m
  <1>1. \A T : Entity!Sess!Max(T) = Max(T)
    BY DEF Entity!Sess!Max, Max
  <1> QED BY <1>1, MaxIs

\* A session's start is where the reference looks for it.
LEMMA StartIs ==
    ASSUME NEW rows, NEW r \in Nat, NEW b, IsSessionStart(rows, r, b)
    PROVE  Entity!Sess!SessionStart(rows, r) = b
  <1> DEFINE S == {1} \cup {s + 1 : s \in {s \in 1..(r - 1) : Ends(rows, s)}}
  <1>1. b \in 1..r /\ (b = 1 \/ Ends(rows, b - 1)) /\ \A s \in b..(r - 1) : ~Ends(rows, s)
    BY DEF IsSessionStart
  <1>2. b \in S
    <2>1. b # 1 => b - 1 \in 1..(r - 1) /\ b - 1 + 1 = b
      BY <1>1
    <2> QED BY <1>1, <2>1
  <1>3. \A k \in S : k <= b
    <2> SUFFICES ASSUME NEW s \in 1..(r - 1), Ends(rows, s) PROVE s + 1 <= b
      BY <1>1
    <2>1. ~(b <= s)
      BY <1>1
    <2> QED BY <1>1, <2>1
  <1>4. S \in SUBSET Nat
    OBVIOUS
  <1>5. Entity!Sess!SessionStart(rows, r) = Entity!Sess!Max(S)
    BY DEF Entity!Sess!SessionStart, Ends
  <1> HIDE DEF S
  <1> QED BY <1>2, <1>3, <1>4, <1>5, SessMaxIs

\* Every row's session has a start.
LEMMA StartExists ==
    ASSUME NEW rows, NEW r \in Nat, r # 0
    PROVE  \E b : IsSessionStart(rows, r, b)
  <1> DEFINE Good == {k \in 0..(r - 1) : \E b : IsSessionStart(rows, k + 1, b)}
  <1>1. 0 \in Good
    <2>1. IsSessionStart(rows, 0 + 1, 1)
      BY DEF IsSessionStart
    <2> QED BY <2>1
  <1>2. ASSUME NEW k \in 0..(r - 1 - 1), k \in Good PROVE k + 1 \in Good
    <2>1. PICK b : IsSessionStart(rows, k + 1, b)
      BY <1>2
    <2>2. CASE Ends(rows, k + 1)
      <3>1. k + 2 - 1 = k + 1 /\ (k + 1) + 1 = k + 2 /\ k + 2 \in 1..(k + 2)
        OBVIOUS
      <3>2. \A s \in (k + 2)..(k + 2 - 1) : FALSE
        OBVIOUS
      <3>3. IsSessionStart(rows, (k + 1) + 1, k + 2)
        BY <2>2, <3>1, <3>2 DEF IsSessionStart
      <3> QED BY <3>3
    <2>3. CASE ~Ends(rows, k + 1)
      <3>1. \A s \in b..((k + 1) + 1 - 1) : s \in b..(k + 1 - 1) \/ s = k + 1
        BY <2>1 DEF IsSessionStart
      <3>2. IsSessionStart(rows, (k + 1) + 1, b)
        BY <2>1, <2>3, <3>1 DEF IsSessionStart
      <3> QED BY <3>2
    <2> QED BY <2>2, <2>3
  <1>3. r - 1 \in Nat /\ r - 1 \in 0..(r - 1) /\ r - 1 + 1 = r
    OBVIOUS
  <1>4. 0..(r - 1) \subseteq Good
    <2> HIDE DEF Good
    <2> QED BY <1>1, <1>2, <1>3, UpTo
  <1>5. r - 1 \in Good
    BY <1>3, <1>4
  <1> QED BY <1>3, <1>5


\* A session's end is where the reference looks for it.
LEMMA LastIs ==
    ASSUME NEW rows, NEW n \in Nat, NEW r \in 1..n, NEW e, IsSessionEnd(rows, r, e, n)
    PROVE  Entity!Sess!Max({s \in r..n : Entity!Sess!SessionStart(rows, s)
                                          = Entity!Sess!SessionStart(rows, r)}) = e
  <1> DEFINE S == {s \in r..n : Entity!Sess!SessionStart(rows, s) = Entity!Sess!SessionStart(rows, r)}
  <1>1. e \in r..n /\ (e = n \/ Ends(rows, e)) /\ \A s \in r..(e - 1) : ~Ends(rows, s)
    BY DEF IsSessionEnd
  <1>2. PICK b : IsSessionStart(rows, r, b) /\ b \in 1..r
    BY StartExists DEF IsSessionStart
  <1>3. \A s \in b..(r - 1) : ~Ends(rows, s)
    BY <1>2 DEF IsSessionStart
  <1>4. Entity!Sess!SessionStart(rows, r) = b
    BY <1>2, StartIs
  <1>5. e \in S
    <2>1. \A s \in b..(e - 1) : s \in b..(r - 1) \/ s \in r..(e - 1)
      BY <1>1, <1>2
    <2>2. IsSessionStart(rows, e, b)
      BY <1>1, <1>2, <1>3, <2>1 DEF IsSessionStart
    <2> QED BY <1>1, <1>4, <2>2, StartIs
  <1>6. ASSUME NEW s \in S PROVE s <= e
    <2>1. SUFFICES ASSUME e < s PROVE FALSE
      BY <1>1
    <2>2. s \in Nat /\ s # 0 /\ s <= n
      BY <1>2
    <2>3. PICK c : IsSessionStart(rows, s, c) /\ c \in 1..s
      BY <2>2, StartExists DEF IsSessionStart
    <2>4. c = b
      BY <1>4, <2>2, <2>3, StartIs
    <2>5. e \in c..(s - 1)
      BY <1>1, <1>2, <2>1, <2>2, <2>4
    <2> QED BY <1>1, <2>1, <2>2, <2>3, <2>5 DEF IsSessionStart
  <1>7. S \in SUBSET Nat
    OBVIOUS
  <1> HIDE DEF S
  <1>8. Entity!Sess!Max(S) = e
    BY <1>5, <1>6, <1>7, SessMaxIs
  <1> QED BY <1>8 DEF S

\* A row more.
LEMMA RowMore ==
    ASSUME NEW rows \in ChildRows, NEW row \in Range(job.rows), NEW more, more = Append(rows, row),
           NEW n, n = Len(rows)
    PROVE  /\ n \in Nat /\ DOMAIN rows = 1..n
           /\ more \in ChildRows /\ Len(more) = n + 1 /\ DOMAIN more = 1..(n + 1)
           /\ more[n + 1] = row /\ \A r \in 1..n : more[r] = rows[r]
  BY AppendProperties, LenProperties DEF ChildRows

\* It changes at most whether the row before it ends a session, if that did not.
LEMMA EndsSame ==
    ASSUME NEW rows \in ChildRows, NEW row \in Range(job.rows), NEW more, more = Append(rows, row),
           NEW n, n = Len(rows)
    PROVE  /\ \A s \in 1..(n - 1) : Ends(more, s) <=> Ends(rows, s)
           /\ n # 0 /\ Ends(rows, n) => Ends(more, n)
           /\ n # 0 /\ ~Ends(rows, n) =>
                (Ends(more, n) <=> row.ts - rows[n].ts > job.op.gap)
           /\ Ends(more, n + 1) <=> row.type \in job.op.endEvents
           /\ n # 0 => (Ends(rows, n) <=> rows[n].type \in job.op.endEvents)
  <1>1. /\ n \in Nat /\ DOMAIN rows = 1..n
        /\ more \in ChildRows /\ Len(more) = n + 1 /\ DOMAIN more = 1..(n + 1)
        /\ more[n + 1] = row /\ \A r \in 1..n : more[r] = rows[r]
    BY AppendProperties, LenProperties DEF ChildRows
  <1>2. ASSUME NEW s \in 1..(n - 1) PROVE Ends(more, s) <=> Ends(rows, s)
    <2>1. s \in 1..n /\ s + 1 \in 1..n /\ s < n /\ s < n + 1
      BY <1>1
    <2>2. more[s] = rows[s] /\ more[s + 1] = rows[s + 1]
      BY <1>1, <2>1
    <2> QED BY <1>1, <2>1, <2>2 DEF Ends, Entity!Sess!EndsSession
  <1>3. n # 0 => more[n] = rows[n]
    BY <1>1
  <1> QED BY <1>1, <1>2, <1>3 DEF Ends, Entity!Sess!EndsSession

\* What has been completed stays so annotated.
LEMMA AnnotatedStays ==
    ASSUME NEW rows, NEW more, NEW m \in Nat, NEW completed, AnnotatedUpTo(completed, rows, m),
           \A r \in 1..m : more[r] = rows[r],
           \A s \in 1..(m - 1) : Ends(more, s) <=> Ends(rows, s)
    PROVE  AnnotatedUpTo(completed, more, m)
  <1> SUFFICES ASSUME NEW r \in 1..m PROVE Annotated(more, r, m, completed[r])
    BY DEF AnnotatedUpTo
  <1>1. PICK b \in 1..r, e \in r..m :
            /\ IsSessionStart(rows, r, b) /\ IsSessionEnd(rows, r, e, m)
            /\ completed[r] = [pos |-> rows[r].pos, session |-> Number(rows, r),
                               duration |-> rows[e].ts - rows[b].ts]
    BY DEF AnnotatedUpTo, Annotated
  <1>2. r \in 1..m /\ b \in 1..m /\ e \in 1..m
    OBVIOUS
  <1>3. IsSessionStart(more, r, b)
    <2>1. \A s \in b..(r - 1) : s \in 1..(m - 1)
      OBVIOUS
    <2>2. b # 1 => b - 1 \in 1..(m - 1)
      OBVIOUS
    <2> QED BY <1>1, <2>1, <2>2 DEF IsSessionStart
  <1>4. IsSessionEnd(more, r, e, m)
    <2>1. \A s \in r..(e - 1) : s \in 1..(m - 1)
      OBVIOUS
    <2>2. e # m => e \in 1..(m - 1)
      OBVIOUS
    <2> QED BY <1>1, <2>1, <2>2 DEF IsSessionEnd
  <1>5. {s \in 1..(r - 1) : Ends(more, s)} = {s \in 1..(r - 1) : Ends(rows, s)}
    <2>1. \A s \in 1..(r - 1) : s \in 1..(m - 1)
      OBVIOUS
    <2> QED BY <2>1
  <1>6. Number(more, r) = Number(rows, r)
    BY <1>5 DEF Number
  <1>7. more[r] = rows[r] /\ more[b] = rows[b] /\ more[e] = rows[e]
    BY <1>2
  <1> QED BY <1>1, <1>3, <1>4, <1>6, <1>7 DEF Annotated

\* The open session is the same before a row more.
LEMMA OpenStays ==
    ASSUME NEW rows \in ChildRows, NEW row \in Range(job.rows), NEW more, more = Append(rows, row),
           NEW n, n = Len(rows), NEW st, NEW held, NEW f, OpenFrom(st, held, rows, n, f)
    PROVE  OpenFrom(st, held, more, n, f)
  <1>1. /\ n \in Nat /\ \A r \in 1..n : more[r] = rows[r]
    BY RowMore
  <1>2. /\ \A s \in 1..(n - 1) : Ends(more, s) <=> Ends(rows, s)
        /\ n # 0 /\ Ends(rows, n) => Ends(more, n)
    BY EndsSame
  <1>3. f \in 1..(n + 1) /\ f \in Nat /\ f - 1 \in Nat
    BY <1>1 DEF OpenFrom
  <1>4. f = 1 \/ Ends(more, f - 1)
    <2>1. f # 1 => f - 1 \in 1..(n - 1) \/ (f - 1 = n /\ n # 0)
      BY <1>1, <1>3
    <2> QED BY <1>2, <2>1 DEF OpenFrom
  <1>5. \A s \in f..(n - 1) : ~Ends(more, s)
    <2>1. \A s \in f..(n - 1) : s \in 1..(n - 1)
      BY <1>1, <1>3
    <2> QED BY <1>2, <2>1 DEF OpenFrom
  <1>6. \A s \in 1..(f - 1) : Ends(more, s) <=> Ends(rows, s)
    <2>1. \A s \in 1..(f - 1) : s \in 1..(n - 1) \/ (s = n /\ s = f - 1 /\ f # 1 /\ n # 0)
      BY <1>1, <1>3
    <2>2. f # 1 => Ends(rows, f - 1)
      BY DEF OpenFrom
    <2> QED BY <1>2, <2>1, <2>2
  <1>7. Number(more, f) = Number(rows, f)
    <2>1. {s \in 1..(f - 1) : Ends(more, s)} = {s \in 1..(f - 1) : Ends(rows, s)}
      BY <1>6
    <2> QED BY <2>1 DEF Number
  <1>8. AnnotatedUpTo(st.completed, more, f - 1)
    <2>1. \A r \in 1..(f - 1) : more[r] = rows[r]
      BY <1>1, <1>3
    <2>2. \A s \in 1..(f - 1 - 1) : Ends(more, s) <=> Ends(rows, s)
      BY <1>3, <1>6
    <2> QED BY <1>3, <2>1, <2>2, AnnotatedStays DEF OpenFrom
  <1>9. \A i \in 1..(n - f + 1) : held[i] = more[f + i - 1]
    <2>1. \A i \in 1..(n - f + 1) : f + i - 1 \in 1..n
      BY <1>1, <1>3
    <2> QED BY <1>1, <2>1 DEF OpenFrom
  <1>10. f # n + 1 => more[f].ts = rows[f].ts /\ more[n].ts = rows[n].ts
    BY <1>1, <1>3
  <1> QED BY <1>3, <1>4, <1>5, <1>7, <1>8, <1>9, <1>10 DEF OpenFrom


\* The session is joined by the next row.
LEMMA JoinOpens ==
    ASSUME SessionizeAtHand, NEW rows \in ChildRows, NEW n \in Nat, n + 1 <= Len(rows),
           NEW st, DOMAIN st = SessionState, NEW held, NEW f, OpenFrom(st, held, rows, n, f),
           f <= n => ~Ends(rows, n),
           NEW next, next = Entity!Sess!Join(st, rows[n + 1]),
           NEW with, with \in ChildRows, Len(with) = Len(held) + 1,
           \A i \in 1..Len(held) : with[i] = held[i], with[Len(held) + 1] = rows[n + 1]
    PROVE  /\ OpenFrom(next, with, rows, n + 1, f)
           /\ DOMAIN next = SessionState /\ next.open = st.open /\ next.skipping = st.skipping
           /\ next.count = n - f + 2
           /\ st.start # Null <=> f <= n
  <1>1. f \in 1..(n + 1) /\ f \in Nat
    BY DEF OpenFrom
  <1>2. rows[n + 1].ts \in Int /\ \A r \in 1..n : rows[r].ts \in Int
    BY LenProperties DEF ChildRows, SessionizeAtHand
  <1>3. /\ DOMAIN next = SessionState /\ next.open = st.open /\ next.skipping = st.skipping
        /\ next.id = st.id /\ next.completed = st.completed
        /\ next.start = IF st.start = Null THEN rows[n + 1].ts ELSE st.start
        /\ next.last = rows[n + 1].ts
        /\ next.count = st.count + 1
    BY DEF Entity!Sess!Join, SessionState
  <1>4. IF f = n + 1 THEN st.start = Null /\ st.count = 0
        ELSE st.start = rows[f].ts /\ st.count = n - f + 1
    BY DEF OpenFrom
  <1>5. st.start # Null <=> f <= n
    <2>1. f <= n => rows[f].ts # Null
      BY <1>1, <1>2 DEF SessionizeAtHand
    <2> QED BY <1>1, <1>4, <2>1
  <1>6. next.count = n - f + 2 /\ next.start = rows[f].ts
    BY <1>1, <1>3, <1>4, <1>5
  <1>7. \A s \in f..(n + 1 - 1) : ~Ends(rows, s)
    <2>1. \A s \in f..(n + 1 - 1) : s \in f..(n - 1) \/ (s = n /\ f <= n)
      BY <1>1
    <2> QED BY <2>1 DEF OpenFrom
  <1>8. Len(with) = n + 1 - f + 1 /\ \A i \in 1..(n + 1 - f + 1) : with[i] = rows[f + i - 1]
    <2>1. Len(held) = n - f + 1 /\ \A i \in 1..(n - f + 1) : held[i] = rows[f + i - 1]
      BY DEF OpenFrom
    <2>2. f + (n - f + 2) - 1 = n + 1 /\ n + 1 - f + 1 = n - f + 2 /\ n - f + 1 + 1 = n - f + 2
      BY <1>1
    <2>3. \A i \in 1..(n - f + 2) : i \in 1..(n - f + 1) \/ i = n - f + 2
      BY <1>1
    <2> QED BY <1>1, <2>1, <2>2, <2>3
  <1>9. f \in 1..(n + 1 + 1) /\ f # n + 1 + 1 /\ n + 1 - f + 1 = n - f + 2
    BY <1>1
  <1>10. /\ f = 1 \/ Ends(rows, f - 1)
         /\ next.id = Number(rows, f) /\ AnnotatedUpTo(next.completed, rows, f - 1)
    BY <1>3 DEF OpenFrom
  <1>11. PICK p : p = n + 1
    OBVIOUS
  <1>12. OpenFrom(next, with, rows, p, f)
    BY <1>3, <1>6, <1>7, <1>8, <1>9, <1>10, <1>11 DEF OpenFrom
  <1> QED BY <1>3, <1>5, <1>6, <1>11, <1>12

\* The session is closed behind the row n.
LEMMA CloseCompletes ==
    ASSUME SessionizeAtHand, NEW rows \in ChildRows, NEW n \in Nat, n <= Len(rows),
           NEW st, DOMAIN st = SessionState, NEW f, OpenFrom(st, st.open, rows, n, f), f <= n,
           NEW next, next = Entity!Sess!FlushSession(st)
    PROVE  /\ AnnotatedUpTo(next.completed, rows, n)
           /\ Ends(rows, n) => OpenFrom(next, <<>>, rows, n, n + 1)
           /\ DOMAIN next = SessionState /\ next.open = <<>> /\ next.skipping = st.skipping
  <1>1. f \in 1..n /\ f \in Nat /\ n # 0
    BY DEF OpenFrom
  <1>2. \A r \in 1..n : rows[r] \in Range(job.rows) /\ rows[r].ts \in Int
    BY LenProperties DEF ChildRows, SessionizeAtHand
  <1>3. /\ st.open \in ChildRows /\ Len(st.open) = n - f + 1
        /\ \A i \in 1..(n - f + 1) : st.open[i] = rows[f + i - 1]
        /\ st.start = rows[f].ts /\ st.last = rows[n].ts
        /\ st.id = Number(rows, f) /\ AnnotatedUpTo(st.completed, rows, f - 1)
        /\ f = 1 \/ Ends(rows, f - 1)
        /\ \A s \in f..(n - 1) : ~Ends(rows, s)
    BY <1>1 DEF OpenFrom
  <1>4. DOMAIN st.open = 1..(n - f + 1) /\ st.open # <<>>
    BY <1>1, <1>3, LenProperties DEF ChildRows
  <1> DEFINE new == [i \in DOMAIN st.open |->
                        [pos |-> st.open[i].pos, session |-> st.id, duration |-> st.last - st.start]]
  <1>5. /\ DOMAIN next = SessionState /\ next.open = <<>> /\ next.skipping = st.skipping
        /\ next.start = Null /\ next.last = Null /\ next.count = 0
        /\ next.id = st.id + 1
        /\ next.completed = st.completed \o new
    BY <1>4 DEF Entity!Sess!FlushSession, SessionState
  <1>6. IsFiniteSet({s \in 1..(f - 1) : Ends(rows, s)}) /\ Number(rows, f) \in Nat
    <2>1. IsFiniteSet(1..(f - 1)) /\ {s \in 1..(f - 1) : Ends(rows, s)} \in SUBSET (1..(f - 1))
      BY <1>1, FS_Interval
    <2>2. IsFiniteSet({s \in 1..(f - 1) : Ends(rows, s)})
      BY <2>1, FS_Subset
    <2> QED BY <2>2, FS_CardinalityType DEF Number
  <1>7. new \in Seq(SessionRow) /\ Len(new) = n - f + 1
        /\ \A i \in 1..(n - f + 1) :
             new[i] = [pos |-> rows[f + i - 1].pos, session |-> Number(rows, f),
                       duration |-> rows[n].ts - rows[f].ts]
    <2>1. \A i \in 1..(n - f + 1) : f + i - 1 \in 1..n
      BY <1>1
    <2>2. \A i \in 1..(n - f + 1) :
             new[i] = [pos |-> rows[f + i - 1].pos, session |-> Number(rows, f),
                       duration |-> rows[n].ts - rows[f].ts]
      BY <1>3, <1>4
    <2>3. rows[n].ts - rows[f].ts \in Int
      BY <1>1, <1>2
    <2>4. ASSUME NEW i \in 1..(n - f + 1) PROVE new[i] \in SessionRow
      <3>1. PICK row \in Range(job.rows) : row = rows[f + i - 1]
        BY <1>2, <2>1
      <3>2. new[i] = [pos |-> row.pos, session |-> Number(rows, f), duration |-> rows[n].ts - rows[f].ts]
        BY <2>2, <3>1
      <3> HIDE DEF new
      <3> QED BY <1>6, <2>3, <3>2 DEF SessionRow
    <2>5. new = [i \in 1..(n - f + 1) |-> new[i]] /\ n - f + 1 \in Nat
      BY <1>1, <1>4
    <2> HIDE DEF new
    <2> QED BY <2>2, <2>4, <2>5
  <1> HIDE DEF new
  <1>8. PICK k \in Nat : k = f - 1
    BY <1>1
  <1>9. /\ next.completed \in Seq(SessionRow) /\ Len(next.completed) = n
        /\ \A r \in 1..k : next.completed[r] = st.completed[r]
        /\ \A r \in f..n : next.completed[r] = new[r - k]
    <2>1. st.completed \in Seq(SessionRow) /\ Len(st.completed) = k
      BY <1>3, <1>8 DEF AnnotatedUpTo
    <2>2. /\ st.completed \o new \in Seq(SessionRow)
          /\ Len(st.completed \o new) = k + (n - f + 1)
          /\ \A i \in 1..(k + (n - f + 1)) :
                (st.completed \o new)[i] = IF i <= k THEN st.completed[i] ELSE new[i - k]
      <3>1. /\ st.completed \o new \in Seq(SessionRow)
            /\ Len(st.completed \o new) = Len(st.completed) + Len(new)
            /\ \A i \in 1..(Len(st.completed) + Len(new)) :
                  (st.completed \o new)[i] = IF i <= Len(st.completed) THEN st.completed[i]
                                             ELSE new[i - Len(st.completed)]
        BY <1>7, <2>1, ConcatProperties
      <3>2. Len(new) = n - f + 1
        BY <1>7
      <3> QED BY <2>1, <3>1, <3>2
    <2>3. k + (n - f + 1) = n /\ \A r \in f..n : r \in 1..n /\ ~(r <= k)
      BY <1>1, <1>8
    <2>4. \A r \in 1..k : r \in 1..n /\ r <= k
      BY <1>1, <1>8
    <2> QED BY <1>5, <2>2, <2>3, <2>4
  <1>10. ASSUME NEW r \in 1..k PROVE Annotated(rows, r, n, next.completed[r])
    <2> DEFINE entry == next.completed[r]
    <2>1. PICK b \in 1..r, e \in r..k :
            /\ IsSessionStart(rows, r, b) /\ IsSessionEnd(rows, r, e, k)
            /\ entry = [pos |-> rows[r].pos, session |-> Number(rows, r),
                        duration |-> rows[e].ts - rows[b].ts]
      <3>1. Annotated(rows, r, k, st.completed[r]) /\ entry = st.completed[r]
        BY <1>3, <1>8, <1>9 DEF AnnotatedUpTo
      <3> HIDE DEF entry
      <3> QED BY <3>1 DEF Annotated
    <2>2. Ends(rows, k)
      BY <1>3, <1>8
    <2>3. e \in r..n /\ Ends(rows, e)
      BY <1>1, <1>8, <2>1, <2>2 DEF IsSessionEnd
    <2>4. IsSessionEnd(rows, r, e, n)
      BY <2>1, <2>3 DEF IsSessionEnd
    <2> QED BY <2>1, <2>3, <2>4 DEF Annotated
  <1>11. ASSUME NEW r \in f..n
         PROVE  {s \in 1..(r - 1) : Ends(rows, s)} = {s \in 1..(f - 1) : Ends(rows, s)}
    <2>1. \A s \in 1..(r - 1) : s \in 1..(f - 1) \/ s \in f..(n - 1)
      BY <1>1
    <2>2. \A s \in 1..(f - 1) : s \in 1..(r - 1)
      BY <1>1
    <2> QED BY <1>3, <2>1, <2>2
  <1>12. ASSUME NEW r \in f..n PROVE Annotated(rows, r, n, next.completed[r])
    <2>1. Number(rows, r) = Number(rows, f)
      BY <1>11 DEF Number
    <2>2. r - k \in 1..(n - f + 1) /\ f + (r - k) - 1 = r
      BY <1>1, <1>8
    <2>3. next.completed[r] = [pos |-> rows[r].pos, session |-> Number(rows, r),
                               duration |-> rows[n].ts - rows[f].ts]
      BY <1>7, <1>9, <2>1, <2>2
    <2>4. IsSessionStart(rows, r, f)
      <3>1. f \in 1..r /\ \A s \in f..(r - 1) : s \in f..(n - 1)
        BY <1>1
      <3> QED BY <1>3, <3>1 DEF IsSessionStart
    <2>5. IsSessionEnd(rows, r, n, n)
      <3>1. n \in r..n /\ \A s \in r..(n - 1) : s \in f..(n - 1)
        BY <1>1
      <3> QED BY <1>3, <3>1 DEF IsSessionEnd
    <2>6. f \in 1..r /\ n \in r..n
      BY <1>1
    <2> QED BY <2>3, <2>4, <2>5, <2>6 DEF Annotated
  <1>13. AnnotatedUpTo(next.completed, rows, n)
    <2>1. \A r \in 1..n : r \in 1..k \/ r \in f..n
      BY <1>1, <1>8
    <2> QED BY <1>9, <1>10, <1>12, <2>1 DEF AnnotatedUpTo
  <1>14. ASSUME Ends(rows, n) PROVE OpenFrom(next, <<>>, rows, n, n + 1)
    <2>1. Number(rows, n + 1) = Number(rows, f) + 1
      <3> DEFINE S == {s \in 1..(f - 1) : Ends(rows, s)}
                 T == {s \in 1..(n + 1 - 1) : Ends(rows, s)}
      <3>1. T = S \cup {n}
        <4>1. \A s \in 1..(n + 1 - 1) : s \in 1..(f - 1) \/ s \in f..(n - 1) \/ s = n
          BY <1>1
        <4>2. \A s \in 1..(f - 1) : s \in 1..(n + 1 - 1)
          BY <1>1
        <4>3. n \in 1..(n + 1 - 1)
          BY <1>1
        <4> QED BY <1>3, <1>14, <4>1, <4>2, <4>3
      <3>2. n \notin S
        BY <1>1
      <3>3. Number(rows, f) = 1 + Cardinality(S) /\ Number(rows, n + 1) = 1 + Cardinality(T)
        BY DEF Number
      <3> HIDE DEF S, T
      <3>4. IsFiniteSet(S) /\ Cardinality(S) \in Nat
        BY <1>6, FS_CardinalityType DEF S
      <3>5. Cardinality(S \cup {n}) = Cardinality(S) + 1
        BY <3>2, <3>4, FS_AddElement
      <3> QED BY <3>1, <3>3, <3>4, <3>5
    <2>2. n + 1 \in 1..(n + 1) /\ n + 1 - 1 = n /\ n - (n + 1) + 1 = 0
      OBVIOUS
    <2>3. (\A s \in (n + 1)..(n - 1) : FALSE) /\ (\A i \in 1..0 : FALSE)
      OBVIOUS
    <2>4. <<>> \in ChildRows /\ Len(<<>>) = 0
      BY EmptySeq DEF ChildRows
    <2> QED BY <1>3, <1>5, <1>13, <1>14, <2>1, <2>2, <2>3, <2>4 DEF OpenFrom
  <1> QED BY <1>5, <1>13, <1>14

\* Completed to the end, and nothing over the cap, the rows are as the reference has them.
LEMMA CompletedAre ==
    ASSUME NEW rows \in ChildRows, NEW n, n = Len(rows), Entity!Sess!Kept(rows) = n,
           NEW completed, AnnotatedUpTo(completed, rows, n)
    PROVE  completed = Entity!Sess!Sessions(rows)
  <1>1. n \in Nat /\ DOMAIN rows = 1..n /\ SubSeq(rows, 1, n) = rows
    BY LenProperties, SubSeqFull DEF ChildRows
  <1>2. completed \in Seq(SessionRow) /\ Len(completed) = n /\ \A r \in 1..n : Annotated(rows, r, n, completed[r])
    BY DEF AnnotatedUpTo
  <1> DEFINE SessionEnd(r) == Entity!Sess!Max({s \in r..n : Entity!Sess!SessionStart(rows, s)
                                                       = Entity!Sess!SessionStart(rows, r)})
             Entry(r) == [pos      |-> rows[r].pos,
                          session  |-> 1 + Entity!Sess!Cardinality({s \in 1..(r - 1) : Entity!Sess!EndsSession(rows, s)}),
                          duration |-> rows[SessionEnd(r)].ts - rows[Entity!Sess!SessionStart(rows, r)].ts]
  <1>3. Entity!Sess!Sessions(rows) = [r \in 1..n |-> Entry(r)]
    BY <1>1 DEF Entity!Sess!Sessions
  <1>4. ASSUME NEW r \in 1..n PROVE completed[r] = Entry(r)
    <2>1. PICK b \in 1..r, e \in r..n :
            /\ IsSessionStart(rows, r, b) /\ IsSessionEnd(rows, r, e, n)
            /\ completed[r] = [pos |-> rows[r].pos, session |-> Number(rows, r),
                               duration |-> rows[e].ts - rows[b].ts]
      BY <1>2 DEF Annotated
    <2>2. r \in Nat /\ Entity!Sess!SessionStart(rows, r) = b
      BY <1>1, <2>1, StartIs
    <2>3. SessionEnd(r) = e
      BY <1>1, <2>1, LastIs
    <2>4. \A S : Entity!Sess!Cardinality(S) = Cardinality(S)
      BY DEF Entity!Sess!Cardinality, Cardinality
    <2>5. Number(rows, r) = 1 + Entity!Sess!Cardinality({s \in 1..(r - 1) : Entity!Sess!EndsSession(rows, s)})
      BY <2>4 DEF Number, Ends
    <2> HIDE DEF Last
    <2> QED BY <2>1, <2>2, <2>3, <2>5
  <1> HIDE DEF Entry
  <1>5. completed = [r \in 1..n |-> completed[r]]
    BY <1>2, LenProperties
  <1> QED BY <1>3, <1>4, <1>5


\* The least of some rows.
LEMMA SessMinIs ==
    ASSUME NEW S \in SUBSET Nat, NEW m \in S, \A k \in S : m <= k
    PROVE  Entity!Sess!Min(S) = m
  <1>1. Entity!Sess!Min(S) = CHOOSE x \in S : \A y \in S : x =< y
    BY DEF Entity!Sess!Min
  <1>2. \E x \in S : \A y \in S : x =< y
    OBVIOUS
  <1>3. PICK x : x = Entity!Sess!Min(S)
    OBVIOUS
  <1>4. x \in S /\ \A y \in S : x =< y
    BY <1>1, <1>2, <1>3
  <1>5. x >= m /\ x <= m /\ x \in Nat /\ m \in Nat
    BY <1>4
  <1> QED BY <1>3, <1>5

\* Whether a row exceeds the cap.
LEMMA OverIs ==
    ASSUME NEW rows, NEW r \in DOMAIN rows
    PROVE  r \in Over(rows) <=> r - Entity!Sess!SessionStart(rows, r) + 1 > job.op.cap
  BY DEF Over

\* With a row more only that row can be one more over the cap.
LEMMA OverMore ==
    ASSUME NEW rows \in ChildRows, NEW row \in Range(job.rows), NEW more, more = Append(rows, row),
           NEW n, n = Len(rows)
    PROVE  /\ Over(rows) \subseteq 1..n
           /\ Over(more) \subseteq 1..(n + 1)
           /\ \A r \in 1..n : r \in Over(more) <=> r \in Over(rows)
  <1>1. /\ n \in Nat /\ DOMAIN rows = 1..n /\ DOMAIN more = 1..(n + 1)
    BY AppendProperties, LenProperties DEF ChildRows
  <1>2. \A s \in 1..(n - 1) : Ends(more, s) <=> Ends(rows, s)
    BY EndsSame
  <1>3. ASSUME NEW r \in 1..n
        PROVE  Entity!Sess!SessionStart(more, r) = Entity!Sess!SessionStart(rows, r)
    <2>1. \A s \in 1..(r - 1) : s \in 1..(n - 1)
      BY <1>1
    <2>2. {s \in 1..(r - 1) : Ends(more, s)} = {s \in 1..(r - 1) : Ends(rows, s)}
      BY <1>2, <2>1
    <2> QED BY <2>2 DEF Entity!Sess!SessionStart, Ends
  <1>4. \A r \in 1..n : r \in Over(more) <=> r \in Over(rows)
    <2>1. \A r \in 1..n : r \in 1..(n + 1)
      BY <1>1
    <2> QED BY <1>1, <1>3, <2>1 DEF Over
  <1>5. Over(rows) \subseteq 1..n /\ Over(more) \subseteq 1..(n + 1)
    BY <1>1 DEF Over
  <1> QED BY <1>4, <1>5

\* The entity stops with the first row over the cap.
LEMMA KeptIs ==
    ASSUME NEW rows \in ChildRows, NEW n, n = Len(rows)
    PROVE  /\ Over(rows) = {} => Entity!Sess!Kept(rows) = n
           /\ \A m \in Over(rows) : (\A k \in Over(rows) : m <= k) => Entity!Sess!Kept(rows) = m
           /\ Over(rows) # {} => \E m \in Over(rows) : \A k \in Over(rows) : m <= k
  <1>1. n \in Nat /\ DOMAIN rows = 1..n /\ Over(rows) \in SUBSET (1..n)
    BY LenProperties DEF ChildRows, Over
  <1>2. Entity!Sess!Kept(rows) = IF Over(rows) = {} THEN n ELSE Entity!Sess!Min(Over(rows))
    BY DEF Entity!Sess!Kept, Over
  <1>3. Over(rows) \in SUBSET Nat /\ Over(rows) \in SUBSET Int /\ IsFiniteSet(Over(rows))
    <2>1. IsFiniteSet(1..n)
      BY <1>1, FS_Interval
    <2> QED BY <1>1, <2>1, FS_Subset
  <1>4. ASSUME NEW m \in Over(rows), \A k \in Over(rows) : m <= k PROVE Entity!Sess!Kept(rows) = m
    BY <1>2, <1>3, <1>4, SessMinIs
  <1>5. Over(rows) # {} => \E m \in Over(rows) : \A k \in Over(rows) : m <= k
    BY <1>3, LeastAndGreatest
  <1> QED BY <1>2, <1>4, <1>5

\* What is kept of rows decides on their sessions.
SessionsOf(kept) ==
    [r \in DOMAIN kept |->
        [pos      |-> kept[r].pos,
         session  |-> 1 + Entity!Sess!Cardinality({s \in 1..(r - 1) : Entity!Sess!EndsSession(kept, s)}),
         duration |-> kept[Entity!Sess!Max({s \in r..Len(kept) :
                                              Entity!Sess!SessionStart(kept, s) = Entity!Sess!SessionStart(kept, r)})].ts
                      - kept[Entity!Sess!SessionStart(kept, r)].ts]]

\* SESSIONIZE's result is that of the rows kept.
LEMMA SessionsAre ==
    ASSUME NEW rows
    PROVE  Entity!Sess!Sessions(rows) = SessionsOf(SubSeq(rows, 1, Entity!Sess!Kept(rows)))
  BY Zenon DEF Entity!Sess!Sessions, SessionsOf

\* Sequences that agree on their first rows have the same of them.
LEMMA SamePrefix ==
    ASSUME NEW rows \in ChildRows, NEW more \in ChildRows, NEW m \in Nat, m >= 1,
           m <= Len(rows), m <= Len(more), \A r \in 1..m : more[r] = rows[r]
    PROVE  SubSeq(more, 1, m) = SubSeq(rows, 1, m)
  <1>1. \A s \in ChildRows : m <= Len(s) =>
            /\ SubSeq(s, 1, m) \in Seq(Range(job.rows)) /\ Len(SubSeq(s, 1, m)) = m
            /\ \A i \in 1..m : SubSeq(s, 1, m)[i] = s[i]
    <2> SUFFICES ASSUME NEW s \in Seq(Range(job.rows)), m <= Len(s)
                 PROVE  /\ SubSeq(s, 1, m) \in Seq(Range(job.rows)) /\ Len(SubSeq(s, 1, m)) = m
                        /\ \A i \in 1..m : SubSeq(s, 1, m)[i] = s[i]
      BY DEF ChildRows
    <2>1. \A i \in 1..m : s[i] \in Range(job.rows)
      BY LenProperties
    <2>2. /\ SubSeq(s, 1, m) \in Seq(Range(job.rows))
          /\ Len(SubSeq(s, 1, m)) = IF 1 <= m THEN m - 1 + 1 ELSE 0
          /\ \A i \in 1..(m - 1 + 1) : SubSeq(s, 1, m)[i] = s[1 + i - 1]
      BY <2>1, SubSeqProperties
    <2> QED BY <2>2
  <1>2. \A i \in 1..m : SubSeq(more, 1, m)[i] = SubSeq(rows, 1, m)[i]
    BY <1>1
  <1> QED BY <1>1, <1>2, SeqEqual

\* After the entity has stopped its sessions stay what they are.
LEMMA StoppedStays ==
    ASSUME NEW rows \in ChildRows, NEW row \in Range(job.rows), NEW more, more = Append(rows, row),
           Over(rows) # {}
    PROVE  Over(more) # {} /\ Entity!Sess!Sessions(more) = Entity!Sess!Sessions(rows)
  <1>1. PICK n \in Nat : n = Len(rows)
    BY LenProperties DEF ChildRows
  <1>2. /\ more \in ChildRows /\ Len(more) = n + 1 /\ \A r \in 1..n : more[r] = rows[r]
    BY <1>1, AppendProperties DEF ChildRows
  <1>3. /\ Over(rows) \subseteq 1..n
        /\ Over(more) \subseteq 1..(n + 1)
        /\ \A r \in 1..n : r \in Over(more) <=> r \in Over(rows)
    BY <1>1, OverMore
  <1>4. PICK m \in Over(rows) : \A k \in Over(rows) : m <= k
    BY <1>1, KeptIs
  <1>5. Entity!Sess!Kept(rows) = m
    BY <1>1, <1>4, KeptIs
  <1>6. m \in Over(more) /\ \A k \in Over(more) : m <= k
    <2>1. m \in 1..n /\ \A k \in Over(more) : k \in 1..n \/ k = n + 1
      BY <1>1, <1>3
    <2> QED BY <1>1, <1>3, <1>4, <2>1
  <1>7. Entity!Sess!Kept(more) = m
    BY <1>2, <1>6, KeptIs
  <1>8. SubSeq(more, 1, m) = SubSeq(rows, 1, m)
    <2>1. m \in Nat /\ m >= 1 /\ m <= Len(rows) /\ m <= Len(more) /\ \A r \in 1..m : more[r] = rows[r]
      BY <1>1, <1>2, <1>3
    <2> QED BY <1>2, <2>1, SamePrefix
  <1> QED BY <1>5, <1>6, <1>7, <1>8, SessionsAre

\* The rows held when k rows of a sub-batch have been gone through.
HeldRows(acc, batch, k) == acc.st.open \o SubSeq(batch, acc.slice, k)

\* What holds between the rows of a sub-batch.
SessLoop(acc, batch, k, rows) ==
    /\ DOMAIN acc = {"st", "slice"}
    /\ ~acc.st.skipping => acc.slice \in 1..(k + 1)
    /\ SessSummarisesWith(acc.st, HeldRows(acc, batch, k), rows)

\* One more row of the sub-batch is held behind the others.
LEMMA HeldMore ==
    ASSUME NEW open \in ChildRows, NEW batch \in ChildRows, NEW k \in 1..Len(batch), NEW slice \in 1..k
    PROVE  /\ open \o SubSeq(batch, slice, k) \in ChildRows
           /\ Len(open \o SubSeq(batch, slice, k)) = Len(open \o SubSeq(batch, slice, k - 1)) + 1
           /\ \A i \in 1..Len(open \o SubSeq(batch, slice, k - 1)) :
                  (open \o SubSeq(batch, slice, k))[i] = (open \o SubSeq(batch, slice, k - 1))[i]
           /\ (open \o SubSeq(batch, slice, k))[Len(open \o SubSeq(batch, slice, k - 1)) + 1] = batch[k]
  <1> DEFINE R     == Range(job.rows)
             part  == SubSeq(batch, slice, k)
             less  == SubSeq(batch, slice, k - 1)
  <1>1. batch \in Seq(R) /\ open \in Seq(R) /\ Len(batch) \in Nat /\ Len(open) \in Nat
    BY LenProperties DEF ChildRows
  <1>2. /\ part \in Seq(R) /\ Len(part) = k - slice + 1
        /\ \A i \in 1..(k - slice + 1) : part[i] = batch[slice + i - 1]
    <2>1. \A i \in slice..k : batch[i] \in R
      BY <1>1, LenProperties
    <2>2. /\ part \in Seq(R)
          /\ Len(part) = IF slice <= k THEN k - slice + 1 ELSE 0
          /\ \A i \in 1..(k - slice + 1) : part[i] = batch[slice + i - 1]
      BY <1>1, <2>1, SubSeqProperties
    <2> QED BY <2>2
  <1>3. /\ less \in Seq(R) /\ Len(less) = k - slice
        /\ \A i \in 1..(k - slice) : less[i] = batch[slice + i - 1]
    <2>1. \A i \in slice..(k - 1) : batch[i] \in R
      BY <1>1, LenProperties
    <2>2. /\ less \in Seq(R)
          /\ Len(less) = IF slice <= k - 1 THEN k - 1 - slice + 1 ELSE 0
          /\ \A i \in 1..(k - 1 - slice + 1) : less[i] = batch[slice + i - 1]
      BY <1>1, <2>1, SubSeqProperties
    <2> QED BY <2>2
  <1> HIDE DEF part, less, R
  <1>4. /\ open \o part \in Seq(R) /\ Len(open \o part) = Len(open) + Len(part)
        /\ \A i \in 1..(Len(open) + Len(part)) :
              (open \o part)[i] = IF i <= Len(open) THEN open[i] ELSE part[i - Len(open)]
    BY <1>1, <1>2, ConcatProperties
  <1>5. /\ open \o less \in Seq(R) /\ Len(open \o less) = Len(open) + Len(less)
        /\ \A i \in 1..(Len(open) + Len(less)) :
              (open \o less)[i] = IF i <= Len(open) THEN open[i] ELSE less[i - Len(open)]
    BY <1>1, <1>3, ConcatProperties
  <1>6. Len(open \o part) = Len(open \o less) + 1
    BY <1>1, <1>2, <1>3, <1>4, <1>5
  <1>7. \A i \in 1..Len(open \o less) : (open \o part)[i] = (open \o less)[i]
    <2> SUFFICES ASSUME NEW i \in 1..(Len(open) + (k - slice)) PROVE (open \o part)[i] = (open \o less)[i]
      BY <1>3, <1>5
    <2>1. CASE i <= Len(open)
      BY <1>1, <1>2, <1>3, <1>4, <1>5, <2>1
    <2>2. CASE ~(i <= Len(open))
      <3>1. PICK j : j = i - Len(open)
        OBVIOUS
      <3>2. j \in 1..(k - slice) /\ j \in 1..(k - slice + 1)
        BY <1>1, <2>2, <3>1
      <3>3. part[j] = less[j]
        BY <1>2, <1>3, <3>2
      <3>4. (open \o part)[i] = part[j]
        BY <1>1, <1>2, <1>4, <2>2, <3>1
      <3>5. (open \o less)[i] = less[j]
        BY <1>1, <1>3, <1>5, <2>2, <3>1
      <3> QED BY <3>3, <3>4, <3>5
    <2> QED BY <2>1, <2>2
  <1>8. (open \o part)[Len(open \o less) + 1] = batch[k]
    <2>1. PICK i : i = Len(open) + (k - slice) + 1
      OBVIOUS
    <2>2. i \in 1..(Len(open) + Len(part)) /\ ~(i <= Len(open)) /\ i - Len(open) = k - slice + 1
      BY <1>1, <1>2, <2>1
    <2>3. (open \o part)[i] = part[k - slice + 1]
      BY <1>4, <2>2
    <2>4. part[k - slice + 1] = batch[k]
      <3>1. k - slice + 1 \in 1..(k - slice + 1) /\ slice + (k - slice + 1) - 1 = k
        OBVIOUS
      <3> QED BY <1>2, <3>1
    <2>5. Len(open \o less) + 1 = i
      BY <1>1, <1>3, <1>5, <2>1
    <2> QED BY <2>3, <2>4, <2>5
  <1>9. open \o part \in ChildRows
    BY <1>4 DEF R, ChildRows
  <1> QED BY <1>6, <1>7, <1>8, <1>9 DEF part, less

\* Nothing is held behind the end of the sub-batch's rows.
LEMMA HeldNone ==
    ASSUME NEW batch \in ChildRows, NEW k \in 0..Len(batch)
    PROVE  <<>> \o SubSeq(batch, k + 1, k) = <<>>
  <1>1. batch \in Seq(Range(job.rows)) /\ Len(batch) \in Nat
    BY LenProperties DEF ChildRows
  <1>2. \A i \in (k + 1)..k : batch[i] \in Range(job.rows)
    BY <1>1
  <1>3. SubSeq(batch, k + 1, k) \in Seq(Range(job.rows)) /\ Len(SubSeq(batch, k + 1, k)) = 0
    <2>1. /\ SubSeq(batch, k + 1, k) \in Seq(Range(job.rows))
          /\ Len(SubSeq(batch, k + 1, k)) = IF k + 1 <= k THEN k - (k + 1) + 1 ELSE 0
      BY <1>1, <1>2, SubSeqProperties
    <2> QED BY <1>1, <2>1
  <1>4. SubSeq(batch, k + 1, k) = <<>>
    BY <1>3, EmptySeq
  <1> QED BY <1>4

\* The session that begins with the row f of n rows is open, its last rows in the
\* sub-batch.
OpenAt(acc, batch, upto, rows, n, f) ==
    /\ DOMAIN acc.st = SessionState
    /\ OpenFrom(acc.st, HeldRows(acc, batch, upto), rows, n, f)
    /\ f <= n

\* Closing a session completes the rows held.
LEMMA ClosedIs ==
    ASSUME SessionizeAtHand, NEW rows \in ChildRows, NEW n \in Nat, n <= Len(rows),
           NEW acc, NEW batch, NEW upto, NEW f, OpenAt(acc, batch, upto, rows, n, f),
           NEW next, next = Entity!Sess!Close(acc, batch, upto)
    PROVE  /\ AnnotatedUpTo(next.st.completed, rows, n)
           /\ Ends(rows, n) => OpenFrom(next.st, <<>>, rows, n, n + 1)
           /\ DOMAIN next = {"st", "slice"} /\ next.slice = upto + 1
           /\ DOMAIN next.st = SessionState /\ next.st.open = <<>>
           /\ next.st.skipping = acc.st.skipping
  <1>1. PICK st : st = Entity!Sess!PushSlice(acc.st, batch, acc.slice, upto)
    OBVIOUS
  <1>2. st = [acc.st EXCEPT !.open = @ \o SubSeq(batch, acc.slice, upto)]
    BY <1>1 DEF Entity!Sess!PushSlice
  <1>3. /\ DOMAIN st = SessionState /\ st.open = HeldRows(acc, batch, upto)
        /\ st.id = acc.st.id /\ st.start = acc.st.start /\ st.last = acc.st.last
        /\ st.count = acc.st.count /\ st.completed = acc.st.completed /\ st.skipping = acc.st.skipping
    BY <1>2 DEF SessionState, HeldRows, OpenAt
  <1>4. OpenFrom(st, st.open, rows, n, f)
    BY <1>3 DEF OpenFrom, OpenAt
  <1>5. next = [st |-> Entity!Sess!FlushSession(st), slice |-> upto + 1]
    BY <1>1, Zenon DEF Entity!Sess!Close
  <1>6. DOMAIN next = {"st", "slice"} /\ next.st = Entity!Sess!FlushSession(st) /\ next.slice = upto + 1
    BY <1>5
  <1>7. /\ AnnotatedUpTo(next.st.completed, rows, n)
        /\ Ends(rows, n) => OpenFrom(next.st, <<>>, rows, n, n + 1)
        /\ DOMAIN next.st = SessionState /\ next.st.open = <<>> /\ next.st.skipping = st.skipping
    BY <1>3, <1>4, <1>6, CloseCompletes DEF OpenAt
  <1> QED BY <1>3, <1>6, <1>7

\* A row that is too late closes the session before it.
LEMMA LateIs ==
    ASSUME SessionizeAtHand, NEW more \in ChildRows, NEW n \in Nat, n <= Len(more),
           NEW batch \in ChildRows, NEW upto \in 0..Len(batch),
           NEW acc, NEW f, OpenAt(acc, batch, upto, more, n, f), Ends(more, n),
           NEW before, before = Entity!Sess!Close(acc, batch, upto)
    PROVE  /\ DOMAIN before = {"st", "slice"} /\ before.slice = upto + 1
           /\ DOMAIN before.st = SessionState /\ before.st.open \in ChildRows
           /\ before.st.skipping = acc.st.skipping
           /\ OpenFrom(before.st, HeldRows(before, batch, upto), more, n, n + 1)
  <1>1. /\ OpenFrom(before.st, <<>>, more, n, n + 1)
        /\ DOMAIN before = {"st", "slice"} /\ before.slice = upto + 1
        /\ DOMAIN before.st = SessionState /\ before.st.open = <<>>
        /\ before.st.skipping = acc.st.skipping
    BY ClosedIs
  <1>2. HeldRows(before, batch, upto) = <<>>
    BY <1>1, HeldNone DEF HeldRows
  <1>3. <<>> \in ChildRows
    BY DEF ChildRows
  <1> QED BY <1>1, <1>2, <1>3

\* Some rows and one more.
Grown(more, rows, row) == more = Append(rows, row)

\* The row n + 1 joins the open session; with are the rows held with it.
JoinFits(rows, n, st, held, f, next, with) ==
    /\ rows \in ChildRows /\ n \in Nat /\ n + 1 <= Len(rows) /\ DOMAIN st = SessionState
    /\ OpenFrom(st, held, rows, n, f) /\ (f <= n => ~Ends(rows, n))
    /\ next = Entity!Sess!Join(st, rows[n + 1])
    /\ with \in ChildRows /\ Len(with) = Len(held) + 1
    /\ \A i \in 1..Len(held) : with[i] = held[i]
    /\ with[Len(held) + 1] = rows[n + 1]

\* Such a step extends the open session by the row.
LEMMA JoinFitting ==
    ASSUME SessionizeAtHand, NEW rows, NEW n, NEW st, NEW held, NEW f, NEW next, NEW with,
           JoinFits(rows, n, st, held, f, next, with)
    PROVE  /\ OpenFrom(next, with, rows, n + 1, f)
           /\ DOMAIN next = SessionState /\ next.open = st.open /\ next.skipping = st.skipping
           /\ next.count = n - f + 2
           /\ st.start # Null <=> f <= n
  BY JoinOpens DEF JoinFits

\* What is left for a row, which may be too late for the session.
Before(acc, batch, k) ==
    IF Entity!Sess!TooLate(acc.st, batch[k]) THEN Entity!Sess!Close(acc, batch, k - 1) ELSE acc

\* What is left is a summary of the rows before it.
Ready(before, batch, k, more, n) ==
    /\ DOMAIN before = {"st", "slice"} /\ before.slice \in 1..k
    /\ DOMAIN before.st = SessionState /\ before.st.open \in ChildRows
    /\ ~before.st.skipping
    /\ \E g : /\ OpenFrom(before.st, HeldRows(before, batch, k - 1), more, n, g)
              /\ g <= n => ~Ends(more, n)

\* What stays open when a row may have come too late for its session.
LEMMA BeforeIs ==
    ASSUME SessionizeAtHand, NEW rows \in ChildRows, NEW batch \in ChildRows, NEW k \in 1..Len(batch),
           NEW acc, SessLoop(acc, batch, k - 1, rows), ~acc.st.skipping,
           NEW n, n = Len(rows), NEW more, Grown(more, rows, batch[k]),
           NEW before, before = Before(acc, batch, k)
    PROVE  Ready(before, batch, k, more, n)
  <1>1. batch[k] \in Range(job.rows) /\ n \in Nat /\ more \in ChildRows /\ Len(more) = n + 1
    <2>1. batch \in Seq(Range(job.rows)) /\ rows \in Seq(Range(job.rows))
      BY DEF ChildRows
    <2>2. batch[k] \in Range(job.rows)
      BY <2>1, LenProperties
    <2> QED BY <2>1, <2>2, AppendProperties, LenProperties DEF ChildRows, Grown
  <1>2. PICK f : OpenFrom(acc.st, HeldRows(acc, batch, k - 1), rows, n, f) /\ (f <= n => ~Ends(rows, n))
    BY DEF SessLoop, SessSummarisesWith
  <1>3. /\ DOMAIN acc = {"st", "slice"} /\ acc.slice \in 1..(k - 1 + 1)
        /\ DOMAIN acc.st = SessionState /\ acc.st.open \in ChildRows
    BY DEF SessLoop, SessSummarisesWith
  <1>4. OpenFrom(acc.st, HeldRows(acc, batch, k - 1), more, n, f)
    BY <1>1, <1>2, OpenStays DEF Grown
  <1>5. f \in 1..(n + 1) /\ (f <= n => acc.st.start = rows[f].ts /\ acc.st.last = rows[n].ts)
        /\ (f = n + 1 => acc.st.start = Null)
    BY <1>1, <1>2 DEF OpenFrom
  <1>6. Entity!Sess!TooLate(acc.st, batch[k]) <=> f <= n /\ Ends(more, n)
    <2>1. CASE f = n + 1
      BY <1>1, <1>5, <2>1 DEF Entity!Sess!TooLate
    <2>2. CASE f <= n
      <3>1. rows[f] \in Range(job.rows)
        BY <1>1, <1>5, <2>2, LenProperties DEF ChildRows
      <3>2. acc.st.start # Null
        BY <1>5, <2>2, <3>1 DEF SessionizeAtHand
      <3>3. n # 0 /\ ~Ends(rows, n)
        BY <1>1, <1>2, <1>5, <2>2
      <3>4. Ends(more, n) <=> batch[k].ts - rows[n].ts > job.op.gap
        BY <1>1, <3>3, EndsSame DEF Grown
      <3>5. acc.st.last = rows[n].ts
        BY <1>5, <2>2
      <3> QED BY <2>2, <3>2, <3>4, <3>5 DEF Entity!Sess!TooLate
    <2> QED BY <1>1, <1>5, <2>1, <2>2
  <1>7. CASE Entity!Sess!TooLate(acc.st, batch[k])
    <2>1. before = Entity!Sess!Close(acc, batch, k - 1) /\ f <= n /\ Ends(more, n)
      BY <1>6, <1>7 DEF Before
    <2>2. PICK upto : upto = k - 1
      OBVIOUS
    <2>3. /\ n <= Len(more) /\ upto \in 0..Len(batch) /\ before = Entity!Sess!Close(acc, batch, upto)
          /\ OpenAt(acc, batch, upto, more, n, f)
      BY <1>1, <1>3, <1>4, <2>1, <2>2, LenProperties DEF ChildRows, OpenAt
    <2>4. /\ DOMAIN before = {"st", "slice"} /\ before.slice = upto + 1
          /\ DOMAIN before.st = SessionState /\ before.st.open \in ChildRows
          /\ before.st.skipping = acc.st.skipping
          /\ OpenFrom(before.st, HeldRows(before, batch, upto), more, n, n + 1)
      BY <1>1, <2>1, <2>3, LateIs
    <2>5. ~(n + 1 <= n) /\ upto + 1 = k
      BY <1>1, <2>2
    <2> QED BY <2>2, <2>4, <2>5 DEF Ready
  <1>8. CASE ~Entity!Sess!TooLate(acc.st, batch[k])
    BY <1>3, <1>4, <1>6, <1>8 DEF Before, Ready
  <1> QED BY <1>7, <1>8

\* A row of a sub-batch carries the summary on to one row more.
LEMMA SessRowSummarised ==
    ASSUME SessionizeAtHand, NEW rows \in ChildRows, NEW batch \in ChildRows, NEW k \in 1..Len(batch),
           NEW acc, SessLoop(acc, batch, k - 1, rows)
    PROVE  SessLoop(Entity!Sess!Row(acc, batch, k), batch, k, Append(rows, batch[k]))
  <1>1. PICK more : more = Append(rows, batch[k])
    OBVIOUS
  <1>2. PICK n : n = Len(rows)
    OBVIOUS
  <1>3. PICK next : next = Entity!Sess!Row(acc, batch, k)
    OBVIOUS
  <1>4. PICK before : before = Before(acc, batch, k)
    OBVIOUS
  <1>5. PICK joined : joined = [before EXCEPT !.st = Entity!Sess!Join(@, batch[k])]
    OBVIOUS
  <1>6. PICK closed : closed = Entity!Sess!Close(joined, batch, k)
    OBVIOUS
  <1>7. next = IF acc.st.skipping THEN acc
               ELSE IF before.st.start # Null /\ joined.st.count > job.op.cap
                    THEN [closed EXCEPT !.st.skipping = TRUE]
               ELSE IF batch[k].type \in job.op.endEvents THEN closed
               ELSE joined
    BY <1>3, <1>4, <1>5, <1>6, Zenon DEF Entity!Sess!Row, Before
  <1>8. /\ batch[k] \in Range(job.rows) /\ n \in Nat /\ more \in ChildRows /\ Len(more) = n + 1
        /\ more[n + 1] = batch[k] /\ Len(batch) \in Nat
    <2>1. batch \in Seq(Range(job.rows)) /\ rows \in Seq(Range(job.rows))
      BY DEF ChildRows
    <2>2. batch[k] \in Range(job.rows) /\ Len(batch) \in Nat
      BY <2>1, LenProperties
    <2> QED BY <1>1, <1>2, <2>1, <2>2, AppendProperties, LenProperties DEF ChildRows
  <1>9. SUFFICES SessLoop(next, batch, k, more)
    BY <1>1, <1>3
  <1>10. CASE acc.st.skipping
    <2>1. next = acc /\ Over(rows) # {} /\ acc.st.completed = Entity!Sess!Sessions(rows)
      BY <1>7, <1>10 DEF SessLoop, SessSummarisesWith
    <2>2. Over(more) # {} /\ Entity!Sess!Sessions(more) = Entity!Sess!Sessions(rows)
      BY <1>1, <1>8, <2>1, StoppedStays
    <2> QED BY <1>10, <2>1, <2>2 DEF SessLoop, SessSummarisesWith
  <1>11. CASE ~acc.st.skipping
    <2>1. /\ DOMAIN before = {"st", "slice"} /\ before.slice \in 1..k
          /\ DOMAIN before.st = SessionState /\ before.st.open \in ChildRows
          /\ ~before.st.skipping
          /\ \E g : /\ OpenFrom(before.st, HeldRows(before, batch, k - 1), more, n, g)
                    /\ g <= n => ~Ends(more, n)
      <3>1. Grown(more, rows, batch[k])
        BY <1>1 DEF Grown
      <3>2. Ready(before, batch, k, more, n)
        BY <1>2, <1>4, <1>11, <3>1, BeforeIs
      <3> QED BY <3>2 DEF Ready
    <2>2. PICK g : OpenFrom(before.st, HeldRows(before, batch, k - 1), more, n, g) /\ (g <= n => ~Ends(more, n))
      BY <2>1
    <2>3. Over(rows) = {}
      BY <1>11 DEF SessLoop, SessSummarisesWith
    <2>4. /\ DOMAIN joined = {"st", "slice"} /\ joined.slice = before.slice
          /\ joined.st = Entity!Sess!Join(before.st, more[n + 1])
      BY <1>5, <1>8, <2>1
    <2>5. /\ HeldRows(before, batch, k) \in ChildRows
          /\ Len(HeldRows(before, batch, k)) = Len(HeldRows(before, batch, k - 1)) + 1
          /\ \A i \in 1..Len(HeldRows(before, batch, k - 1)) :
                HeldRows(before, batch, k)[i] = HeldRows(before, batch, k - 1)[i]
          /\ HeldRows(before, batch, k)[Len(HeldRows(before, batch, k - 1)) + 1] = more[n + 1]
      BY <1>8, <2>1, HeldMore DEF HeldRows
    <2>6. n + 1 <= Len(more)
      BY <1>8
    <2>7. /\ OpenFrom(joined.st, HeldRows(before, batch, k), more, n + 1, g)
          /\ DOMAIN joined.st = SessionState /\ joined.st.open = before.st.open
          /\ joined.st.skipping = before.st.skipping
          /\ joined.st.count = n - g + 2
          /\ before.st.start # Null <=> g <= n
      <3>1. JoinFits(more, n, before.st, HeldRows(before, batch, k - 1), g, joined.st,
                     HeldRows(before, batch, k))
        BY <1>8, <2>1, <2>2, <2>4, <2>5, <2>6 DEF JoinFits
      <3> QED BY <3>1, JoinFitting
    <2>8. HeldRows(joined, batch, k) = HeldRows(before, batch, k)
      BY <2>4, <2>7 DEF HeldRows
    <2>9. OpenFrom(joined.st, HeldRows(joined, batch, k), more, n + 1, g) /\ ~joined.st.skipping
      BY <2>1, <2>7, <2>8
    <2>10. g \in 1..(n + 2) /\ g <= n + 1 /\ g \in 1..(n + 1)
      BY <1>8, <2>2, <2>9 DEF OpenFrom
    <2>11. n + 1 \in Over(more) <=> n - g + 2 > job.op.cap
      <3>1. PICK p \in Nat : p = n + 1
        BY <1>8
      <3>2. IsSessionStart(more, p, g)
        BY <1>8, <2>9, <2>10, <3>1 DEF IsSessionStart, OpenFrom
      <3>3. Entity!Sess!SessionStart(more, p) = g
        BY <3>2, StartIs
      <3>4. p \in DOMAIN more
        BY <1>8, <3>1, LenProperties DEF ChildRows
      <3>5. p \in Over(more) <=> p - g + 1 > job.op.cap
        BY <3>3, <3>4, OverIs
      <3>6. p - g + 1 = n - g + 2
        BY <1>8, <2>10, <3>1
      <3> QED BY <3>1, <3>5, <3>6
    <2>12. Over(more) \subseteq 1..(n + 1) /\ \A r \in 1..n : r \notin Over(more)
      <3>1. /\ Over(more) \subseteq 1..(n + 1)
            /\ \A r \in 1..n : r \in Over(more) <=> r \in Over(rows)
        BY <1>1, <1>2, <1>8, OverMore
      <3> QED BY <2>3, <3>1
    <2>13. before.st.start # Null /\ joined.st.count > job.op.cap <=> n + 1 \in Over(more)
      <3>1. CASE g <= n
        BY <2>7, <2>11, <3>1
      <3>2. CASE g = n + 1
        <4>1. n - g + 2 = 1 /\ ~(g <= n)
          BY <1>8, <3>2
        <4>2. ~(1 > job.op.cap)
          BY DEF SessionizeAtHand
        <4> QED BY <2>7, <2>11, <4>1, <4>2
      <3> QED BY <1>8, <2>10, <3>1, <3>2
    <2>14. /\ AnnotatedUpTo(closed.st.completed, more, n + 1)
           /\ Ends(more, n + 1) => OpenFrom(closed.st, <<>>, more, n + 1, n + 1 + 1)
           /\ DOMAIN closed = {"st", "slice"} /\ closed.slice = k + 1
           /\ DOMAIN closed.st = SessionState /\ closed.st.open = <<>>
           /\ closed.st.skipping = joined.st.skipping
      <3>1. PICK p : p = n + 1
        OBVIOUS
      <3>2. p \in Nat /\ p <= Len(more) /\ OpenAt(joined, batch, k, more, p, g)
        BY <1>8, <2>7, <2>9, <2>10, <3>1 DEF OpenAt
      <3>3. /\ AnnotatedUpTo(closed.st.completed, more, p)
            /\ Ends(more, p) => OpenFrom(closed.st, <<>>, more, p, p + 1)
            /\ DOMAIN closed = {"st", "slice"} /\ closed.slice = k + 1
            /\ DOMAIN closed.st = SessionState /\ closed.st.open = <<>>
            /\ closed.st.skipping = joined.st.skipping
        BY <1>6, <1>8, <3>2, ClosedIs
      <3> QED BY <3>1, <3>3
    <2>15. CASE n + 1 \in Over(more)
      <3>1. next = [closed EXCEPT !.st.skipping = TRUE]
        BY <1>7, <1>11, <2>13, <2>15
      <3>2. /\ DOMAIN next = {"st", "slice"} /\ DOMAIN next.st = SessionState
            /\ next.st.skipping /\ next.st.open = <<>> /\ next.st.completed = closed.st.completed
        BY <2>14, <3>1 DEF SessionState
      <3>3. PICK p \in Nat : p = n + 1
        BY <1>8
      <3>4. p \in Over(more) /\ \A q \in Over(more) : p <= q
        BY <1>8, <2>12, <2>15, <3>3
      <3>5. p = Len(more)
        BY <1>8, <3>3
      <3>6. Entity!Sess!Kept(more) = p
        BY <1>8, <3>4, <3>5, KeptIs
      <3>7. AnnotatedUpTo(next.st.completed, more, p)
        BY <2>14, <3>2, <3>3
      <3>8. next.st.completed = Entity!Sess!Sessions(more)
        BY <1>8, <3>5, <3>6, <3>7, CompletedAre
      <3>9. next.st.open \in ChildRows
        BY <3>2 DEF ChildRows
      <3> QED BY <3>2, <3>4, <3>8, <3>9 DEF SessLoop, SessSummarisesWith
    <2>16. CASE n + 1 \notin Over(more)
      <3>1. Over(more) = {}
        <4>1. \A r \in 1..(n + 1) : r \in 1..n \/ r = n + 1
          BY <1>8
        <4> QED BY <2>12, <2>16, <4>1
      <3>2. Ends(more, n + 1) <=> batch[k].type \in job.op.endEvents
        BY <1>1, <1>2, <1>8, EndsSame
      <3>3. CASE Ends(more, n + 1)
        <4>1. next = closed
          BY <1>7, <1>11, <2>13, <2>16, <3>2, <3>3
        <4>2. HeldRows(next, batch, k) = <<>>
          <5>1. k \in 0..Len(batch)
            BY <1>8
          <5> QED BY <2>14, <4>1, <5>1, HeldNone DEF HeldRows
        <4>3. OpenFrom(next.st, HeldRows(next, batch, k), more, Len(more), n + 1 + 1)
          BY <1>8, <2>14, <3>3, <4>1, <4>2
        <4>4. ~(n + 1 + 1 <= Len(more)) /\ k + 1 \in 1..(k + 1)
          BY <1>8
        <4>5. /\ DOMAIN next = {"st", "slice"} /\ next.slice = k + 1 /\ DOMAIN next.st = SessionState
              /\ ~next.st.skipping /\ next.st.open = <<>>
          BY <2>9, <2>14, <4>1
        <4>6. next.st.open \in ChildRows
          BY <4>5 DEF ChildRows
        <4> QED BY <3>1, <4>3, <4>4, <4>5, <4>6 DEF SessLoop, SessSummarisesWith
      <3>4. CASE ~Ends(more, n + 1)
        <4>1. next = joined
          BY <1>7, <1>11, <2>13, <2>16, <3>2, <3>4
        <4>2. OpenFrom(next.st, HeldRows(next, batch, k), more, Len(more), g) /\ ~Ends(more, Len(more))
          BY <1>8, <2>9, <3>4, <4>1
        <4>3. /\ DOMAIN next = {"st", "slice"} /\ next.slice \in 1..(k + 1) /\ DOMAIN next.st = SessionState
              /\ ~next.st.skipping /\ next.st.open \in ChildRows
          BY <2>1, <2>4, <2>7, <2>9, <4>1
        <4> QED BY <3>1, <4>2, <4>3 DEF SessLoop, SessSummarisesWith
      <3> QED BY <3>3, <3>4
    <2> QED BY <2>15, <2>16
  <1> QED BY <1>10, <1>11

\* The states through which the rows of a sub-batch take SESSIONIZE.
LEMMA SessionSteps ==
    ASSUME NEW st, NEW batch, NEW n \in Nat, DOMAIN batch = 1..n
    PROVE  \E g : /\ g[0] = [st |-> st, slice |-> 1]
                  /\ \A k \in 0..(n - 1) : g[k + 1] = Entity!Sess!Row(g[k], batch, k + 1)
                  /\ Entity!Sess!ProcessSubBatch(st, batch) =
                        IF g[n].st.skipping THEN g[n].st
                        ELSE Entity!Sess!PushSlice(g[n].st, batch, g[n].slice, Len(batch))
  <1> DEFINE which == <<"session", batch>>
             seq   == [r \in DOMAIN batch |-> r]
             base  == [st |-> st, slice |-> 1]
             fold  == Entity!Sess!FoldLeft(LAMBDA a, r : Entity!Sess!Row(a, batch, r), base, seq)
             F(f) == f = [s \in SUBSET (1..n) |->
                        IF s = {} THEN base
                        ELSE Entity!Sess!Row(f[s \ {Max(s)}], batch, seq[Max(s)])]
  <1>1. Entity!Sess!ProcessSubBatch(st, batch) =
            IF fold.st.skipping THEN fold.st
            ELSE Entity!Sess!PushSlice(fold.st, batch, fold.slice, Len(batch))
    BY Zenon DEF Entity!Sess!ProcessSubBatch
  <1>2. fold = (CHOOSE f : F(f))[1..n]
    <2>1. DOMAIN seq = 1..n
      OBVIOUS
    <2>2. \A S : Entity!Sess!Max(S) = Max(S)
      BY DEF Entity!Sess!Max, Max
    <2> HIDE DEF seq, base
    <2> QED BY <2>1, <2>2 DEF Entity!Sess!FoldLeft, Entity!Sess!MapThenFoldSet
  <1> HIDE DEF fold
  <1>3. \A f : F(f) <=> IsEntityFold(which, f, base, seq, n)
    <2>1. which[1] = "session" /\ which[2] = batch
      OBVIOUS
    <2> HIDE DEF which, seq, base
    <2>2. \A acc, i : EntityStep(which, acc, seq, i) = Entity!Sess!Row(acc, batch, seq[i])
      BY <2>1 DEF EntityStep
    <2> QED BY <2>2 DEF IsEntityFold
  <1> HIDE DEF F
  <1>4. (CHOOSE f : F(f))[1..n] = EntityFold(which, base, seq, n)
    BY <1>3 DEF EntityFold
  <1>5. which[1] = "session" /\ which[2] = batch
    OBVIOUS
  <1>6. \A k \in 0..(n - 1) : seq[k + 1] = k + 1
    OBVIOUS
  <1> HIDE DEF which, seq, base
  <1>7. PICK g : /\ g[0] = base
                 /\ \A k \in 0..(n - 1) : g[k + 1] = EntityStep(which, g[k], seq, k + 1)
                 /\ EntityFold(which, base, seq, n) = g[n]
    BY EntityFoldSteps
  <1>8. ASSUME NEW k \in 0..(n - 1) PROVE g[k + 1] = Entity!Sess!Row(g[k], batch, k + 1)
    BY <1>5, <1>6, <1>7 DEF EntityStep
  <1>9. g[n] = fold
    BY <1>2, <1>4, <1>7
  <1> QED BY <1>1, <1>7, <1>8, <1>9 DEF base

\* A sub-batch carries the summary on.
LEMMA SessBatchSummarised ==
    ASSUME SessionizeAtHand, NEW a \in 1..Len(job.rows), NEW c \in 1..Len(job.rows), a <= c,
           NEW b \in (a - 1)..(c - 1), EntityJobOK,
           NEW st, SessSummarisesWith(st, st.open, Slice(a, b)),
           NEW next, next = Entity!Sess!ProcessSubBatch(st, Slice(b + 1, c))
    PROVE  SessSummarisesWith(next, next.open, Slice(a, c))
  <1>1. PICK N \in Nat : N = Len(job.rows) /\ DOMAIN job.rows = 1..N
    BY RowFacts
  <1>2. /\ a \in 1..N /\ c \in 1..N /\ b + 1 \in 1..N /\ b + 1 <= c /\ b \in Int
        /\ c - b \in Nat /\ c - (b + 1) + 1 = c - b /\ b + (c - b) = c /\ b + 0 = b
    BY <1>1
  <1>3. PICK batch : batch = Slice(b + 1, c)
    OBVIOUS
  <1>4. /\ batch \in ChildRows /\ Len(batch) = c - b /\ DOMAIN batch = 1..(c - b)
        /\ \A i \in 1..(c - b) : batch[i] = job.rows[b + 1 + i - 1]
    <2>1. b + 1 \in 1..Len(job.rows) /\ c \in 1..Len(job.rows) /\ b + 1 <= c
      BY <1>1, <1>2
    <2>2. /\ Slice(b + 1, c) \in Seq(Range(job.rows)) /\ Len(Slice(b + 1, c)) = c - (b + 1) + 1
          /\ \A i \in 1..(c - (b + 1) + 1) : Slice(b + 1, c)[i] = job.rows[b + 1 + i - 1]
      BY <2>1, RowFacts
    <2> QED BY <1>2, <1>3, <2>2, LenProperties DEF ChildRows
  <1>5. PICK m \in Nat : m = c - b
    BY <1>2
  <1>6. PICK g : /\ g[0] = [st |-> st, slice |-> 1]
                 /\ \A k \in 0..(m - 1) : g[k + 1] = Entity!Sess!Row(g[k], batch, k + 1)
                 /\ Entity!Sess!ProcessSubBatch(st, batch) =
                        IF g[m].st.skipping THEN g[m].st
                        ELSE Entity!Sess!PushSlice(g[m].st, batch, g[m].slice, Len(batch))
    <2>1. DOMAIN batch = 1..m
      BY <1>4, <1>5
    <2> QED BY <2>1, SessionSteps
  <1>7. SessLoop(g[0], batch, 0, Slice(a, b))
    <2>1. st.open \in ChildRows
      BY DEF SessSummarisesWith
    <2>2. SubSeq(batch, 1, 0) = <<>> /\ st.open \o <<>> = st.open
      <3>1. SubSeq(batch, 1, 0) = <<>>
        BY <1>4, SubSeqEmpty DEF ChildRows
      <3>2. st.open \in Seq(Range(job.rows))
        BY <2>1 DEF ChildRows
      <3>3. st.open \o <<>> = st.open
        BY <3>2, ConcatEmptySeq
      <3> QED BY <3>1, <3>3, Zenon
    <2>3. HeldRows(g[0], batch, 0) = st.open
      <3>1. g[0].st = st /\ g[0].slice = 1
        BY <1>6
      <3> QED BY <2>2, <3>1, Zenon DEF HeldRows
    <2>4. DOMAIN g[0] = {"st", "slice"} /\ g[0].st = st /\ g[0].slice \in 1..(0 + 1)
      BY <1>6
    <2> QED BY <2>3, <2>4 DEF SessLoop
  <1> DEFINE Good == {k \in 0..m : SessLoop(g[k], batch, k, Slice(a, b + k))}
  <1>8. ASSUME NEW k \in 0..(m - 1), SessLoop(g[k], batch, k, Slice(a, b + k))
        PROVE  SessLoop(g[k + 1], batch, k + 1, Slice(a, b + (k + 1)))
    <2>1. PICK r \in 1..N : r = b + (k + 1) /\ r - 1 = b + k /\ a <= r /\ b + 1 + (k + 1) - 1 = r
      <3>1. /\ b + (k + 1) \in 1..N /\ b + (k + 1) - 1 = b + k /\ a <= b + (k + 1)
            /\ b + 1 + (k + 1) - 1 = b + (k + 1)
        BY <1>1, <1>2, <1>5
      <3> QED BY <3>1
    <2>2. PICK j \in 1..Len(batch) : j = k + 1 /\ j - 1 = k
      BY <1>4, <1>5
    <2>3. batch[j] = job.rows[r]
      BY <1>4, <1>5, <2>1, <2>2
    <2>4. Slice(a, r - 1) \in Seq(Range(job.rows)) /\ Slice(a, r) = Append(Slice(a, r - 1), job.rows[r])
      BY <1>1, <1>2, <2>1, SliceNext
    <2>5. g[k + 1] = Entity!Sess!Row(g[k], batch, j)
      BY <1>6, <2>2
    <2>6. PICK rows \in ChildRows : rows = Slice(a, r - 1)
      BY <2>4 DEF ChildRows
    <2>7. SessLoop(g[k], batch, j - 1, rows)
      BY <1>8, <2>1, <2>2, <2>6
    <2>8. SessLoop(Entity!Sess!Row(g[k], batch, j), batch, j, Append(rows, batch[j]))
      BY <1>4, <2>7, SessRowSummarised
    <2> QED BY <2>1, <2>2, <2>3, <2>4, <2>5, <2>6, <2>8
  <1>9. 0 \in Good /\ \A k \in 0..(m - 1) : k \in Good => k + 1 \in Good
    BY <1>2, <1>7, <1>8
  <1>10. SessLoop(g[m], batch, m, Slice(a, c))
    <2>1. 0..m \subseteq Good
      <3> HIDE DEF Good
      <3> QED BY <1>9, UpTo
    <2> QED BY <1>2, <1>5, <2>1
  <1> DEFINE acc  == g[m]
             rows == Slice(a, c)
  <1> HIDE DEF acc, rows
  <1>11. next = IF acc.st.skipping THEN acc.st
                ELSE Entity!Sess!PushSlice(acc.st, batch, acc.slice, Len(batch))
    BY <1>3, <1>6 DEF acc
  <1>12. SessSummarisesWith(acc.st, HeldRows(acc, batch, m), rows) /\ (~acc.st.skipping => acc.slice \in 1..(m + 1))
    BY <1>10 DEF SessLoop, acc, rows
  <1>13. CASE acc.st.skipping
    BY <1>11, <1>12, <1>13 DEF SessSummarisesWith, rows
  <1>14. CASE ~acc.st.skipping
    <2>1. next = [acc.st EXCEPT !.open = @ \o SubSeq(batch, acc.slice, m)]
      BY <1>4, <1>5, <1>11, <1>14 DEF Entity!Sess!PushSlice
    <2>2. DOMAIN acc.st = SessionState
      BY <1>12 DEF SessSummarisesWith
    <2>3. /\ DOMAIN next = SessionState /\ next.open = HeldRows(acc, batch, m)
          /\ next.id = acc.st.id /\ next.start = acc.st.start /\ next.last = acc.st.last
          /\ next.count = acc.st.count /\ next.completed = acc.st.completed
          /\ next.skipping = acc.st.skipping
      BY <2>1, <2>2 DEF SessionState, HeldRows
    <2>4. PICK f : /\ OpenFrom(acc.st, HeldRows(acc, batch, m), rows, Len(rows), f)
                   /\ f <= Len(rows) => ~Ends(rows, Len(rows))
      BY <1>12, <1>14 DEF SessSummarisesWith
    <2>5. OpenFrom(next, next.open, rows, Len(rows), f) /\ next.open \in ChildRows
      BY <2>3, <2>4 DEF OpenFrom
    <2>6. Over(rows) = {}
      BY <1>12, <1>14 DEF SessSummarisesWith
    <2> QED BY <1>14, <2>3, <2>4, <2>5, <2>6 DEF SessSummarisesWith, rows
  <1> QED BY <1>13, <1>14

\* At the end of the entity its sessions are completed.
LEMMA SessFinished ==
    ASSUME SessionizeAtHand, NEW rows \in ChildRows, NEW st, SessSummarisesWith(st, st.open, rows)
    PROVE  Entity!Sess!FinishEntity(st) = Entity!Sess!Sessions(rows)
  <1>1. PICK n \in Nat : n = Len(rows)
    BY LenProperties DEF ChildRows
  <1>2. CASE st.skipping
    BY <1>2 DEF SessSummarisesWith, Entity!Sess!FinishEntity
  <1>3. CASE ~st.skipping
    <2>1. PICK f : OpenFrom(st, st.open, rows, n, f) /\ DOMAIN st = SessionState
      BY <1>1, <1>3 DEF SessSummarisesWith
    <2>2. Entity!Sess!Kept(rows) = n
      BY <1>1, <1>3, KeptIs DEF SessSummarisesWith
    <2>3. CASE f <= n
      <3>1. st.start = rows[f].ts /\ f \in 1..n
        BY <1>1, <2>1, <2>3 DEF OpenFrom
      <3>2. rows[f] \in Range(job.rows)
        BY <1>1, <3>1, LenProperties DEF ChildRows
      <3>3. st.start # Null
        BY <3>1, <3>2 DEF SessionizeAtHand
      <3>4. Entity!Sess!FinishEntity(st) = Entity!Sess!FlushSession(st).completed
        BY <1>3, <3>3 DEF Entity!Sess!FinishEntity
      <3>5. n <= Len(rows)
        BY <1>1
      <3>6. AnnotatedUpTo(Entity!Sess!FlushSession(st).completed, rows, n)
        BY <1>1, <2>1, <2>3, <3>5, CloseCompletes
      <3> QED BY <1>1, <2>2, <3>4, <3>6, CompletedAre
    <2>4. CASE f = n + 1
      <3>1. st.start = Null /\ AnnotatedUpTo(st.completed, rows, n + 1 - 1) /\ n + 1 - 1 = n
        BY <1>1, <2>1, <2>4 DEF OpenFrom
      <3>2. Entity!Sess!FinishEntity(st) = st.completed
        BY <3>1 DEF Entity!Sess!FinishEntity
      <3>3. AnnotatedUpTo(st.completed, rows, n)
        BY <3>1
      <3> QED BY <1>1, <2>2, <3>2, <3>3, CompletedAre
    <2> QED BY <1>1, <2>1, <2>3, <2>4 DEF OpenFrom
  <1> QED BY <1>2, <1>3

\* SESSIONIZE gives what is promised of an entity operator.
LEMMA SessionizeCorrect == ASSUME EntityJobOK, job.operator = "sessionize" PROVE OperatorCorrect
  <1>1. PICK N \in Nat : N = Len(job.rows) /\ DOMAIN job.rows = 1..N
    BY RowFacts
  <1>2. SessionizeAtHand
    <2>1. job.op.gap \in Nat /\ job.op.cap \in Nat \ {0} /\ Null \notin Int
      BY DEF EntityJobOK, Entity!Parameters
    <2>2. \A row \in Range(job.rows) : row.ts \in Int
      BY <1>1 DEF EntityJobOK, Range
    <2> QED BY <2>1, <2>2 DEF SessionizeAtHand
  <1>3. \A st, rows : Summarises(st, rows) <=> SessSummarisesWith(st, st.open, rows)
    BY DEF Summarises
  <1>4. \A rows : ResultOf(rows) = Entity!Sess!Sessions(rows)
    BY DEF ResultOf
  <1>5. \A a, b \in 1..N : a <= b => Slice(a, b) \in ChildRows
    BY <1>1, RowFacts DEF ChildRows
  <1>6. ResultsAreSequences
    <2> SUFFICES ASSUME NEW a \in 1..N, NEW b \in 1..N, a <= b, NEW rows \in ChildRows, rows = Slice(a, b)
                 PROVE  Entity!Sess!Sessions(rows) \in Seq(Range(Entity!Sess!Sessions(rows)))
      BY <1>1, <1>4, <1>5 DEF ResultsAreSequences
    <2>1. PICK kept : kept = SubSeq(rows, 1, Entity!Sess!Kept(rows))
      OBVIOUS
    <2>2. kept \in ChildRows
      <3>1. PICK n \in Nat : n = Len(rows)
        BY LenProperties DEF ChildRows
      <3>2. Entity!Sess!Kept(rows) \in 0..n
        <4>1. CASE Over(rows) = {}
          BY <3>1, <4>1, KeptIs
        <4>2. CASE Over(rows) # {}
          <5>1. PICK m \in Over(rows) : \A k \in Over(rows) : m <= k
            BY <3>1, <4>2, KeptIs
          <5>2. m \in 1..n
            BY <3>1, LenProperties DEF Over, ChildRows
          <5> QED BY <3>1, <5>1, <5>2, KeptIs
        <4> QED BY <4>1, <4>2
      <3>3. \A i \in 1..Entity!Sess!Kept(rows) : rows[i] \in Range(job.rows)
        BY <3>1, <3>2, LenProperties DEF ChildRows
      <3> QED BY <2>1, <3>1, <3>2, <3>3, SubSeqProperties DEF ChildRows
    <2>3. PICK m \in Nat : DOMAIN kept = 1..m
      BY <2>2, LenProperties DEF ChildRows
    <2>4. Entity!Sess!Sessions(rows) = SessionsOf(kept)
      BY <2>1, SessionsAre
    <2>5. SessionsOf(kept) \in Seq(Range(SessionsOf(kept)))
      <3>1. PICK s : s = SessionsOf(kept)
        OBVIOUS
      <3>2. s = [r \in 1..m |-> s[r]]
        BY <2>3, <3>1 DEF SessionsOf
      <3>3. \A r \in 1..m : s[r] \in Range(s)
        BY <3>2 DEF Range
      <3> QED BY <3>1, <3>2, <3>3
    <2> QED BY <2>4, <2>5
  <1>7. CreateSummarises
    <2> SUFFICES ASSUME NEW a \in 1..N
                 PROVE  SessSummarisesWith(Entity!CreateState, Entity!CreateState.open, Slice(a, a - 1))
      BY <1>1, <1>3 DEF CreateSummarises
    <2>1. Slice(a, a - 1) = <<>> /\ Len(<<>>) = 0 /\ DOMAIN <<>> = {}
      BY <1>1, SubSeqEmpty DEF Slice
    <2>2. PICK st : st = Entity!CreateState
      OBVIOUS
    <2>3. st = [id |-> 1, start |-> Null, last |-> Null, count |-> 0,
                open |-> <<>>, completed |-> <<>>, skipping |-> FALSE]
      BY <2>2 DEF Entity!CreateState, Entity!Sess!CreateState
    <2>4. Over(<<>>) = {}
      BY <2>1 DEF Over
    <2>5. OpenFrom(st, <<>>, <<>>, 0, 1)
      <3>1. Number(<<>>, 1) = 1
        <4>1. {s \in 1..(1 - 1) : Ends(<<>>, s)} = {}
          OBVIOUS
        <4> QED BY <4>1, FS_EmptySet DEF Number
      <3>2. AnnotatedUpTo(<<>>, <<>>, 1 - 1)
        BY <2>1 DEF AnnotatedUpTo
      <3>3. <<>> \in ChildRows
        BY DEF ChildRows
      <3>4. st.id = 1 /\ st.completed = <<>> /\ st.start = Null /\ st.last = Null /\ st.count = 0
        BY <2>3
      <3> QED BY <2>1, <3>1, <3>2, <3>3, <3>4 DEF OpenFrom
    <2>6. DOMAIN st = SessionState /\ st.open = <<>> /\ ~st.skipping /\ <<>> \in ChildRows
      BY <2>3 DEF SessionState, ChildRows
    <2>7. ~(1 <= 0)
      OBVIOUS
    <2> QED BY <2>1, <2>2, <2>4, <2>5, <2>6, <2>7 DEF SessSummarisesWith
  <1>8. SubBatchSummarised
    <2> SUFFICES ASSUME NEW st, NEW a \in 1..N, NEW c \in 1..N, NEW b \in (a - 1)..(c - 1), a <= c,
                        SessSummarisesWith(st, st.open, Slice(a, b)),
                        NEW next, next = Entity!ProcessSubBatch(st, Slice(b + 1, c))
                 PROVE  SessSummarisesWith(next, next.open, Slice(a, c))
      BY <1>1, <1>3 DEF SubBatchSummarised
    <2>1. next = Entity!Sess!ProcessSubBatch(st, Slice(b + 1, c))
      BY DEF Entity!ProcessSubBatch
    <2> QED BY <1>1, <1>2, <2>1, SessBatchSummarised
  <1>9. FinishReturnsResult
    <2> SUFFICES ASSUME NEW st, NEW a \in 1..N, NEW b \in 1..N, a <= b,
                        SessSummarisesWith(st, st.open, Slice(a, b))
                 PROVE  Entity!FinishEntity(st) = Entity!Sess!Sessions(Slice(a, b))
      BY <1>1, <1>3, <1>4 DEF FinishReturnsResult
    <2>1. Entity!FinishEntity(st) = Entity!Sess!FinishEntity(st)
      BY DEF Entity!FinishEntity
    <2> QED BY <1>2, <1>5, <2>1, SessFinished
  <1> QED BY <1>6, <1>7, <1>8, <1>9 DEF OperatorCorrect

-----------------------------------------------------------------------------
(* ATTRIBUTE *)

\* What the proofs use of the operator at hand.
AttributeAtHand == job.op.window \in Nat /\ job.op.cap \in Nat

\* Rows of the child in the order of time.
InTime(rows) ==
    /\ rows \in ChildRows
    /\ \A r \in DOMAIN rows : rows[r].ts \in Int
    /\ \A r, s \in DOMAIN rows : r <= s => rows[r].ts <= rows[s].ts

\* The numbers of a set up to a bound.
Below(S, k) == {t \in S : t <= k}

\* Every set of numbers up to n has an enumeration.
LEMMA EnumerationExists ==
    ASSUME NEW n \in Nat, NEW S \in SUBSET (1..n)
    PROVE  \E e, m : Enumerates(e, m, S)
  <1> DEFINE Good == {k \in 0..n : \E e, m : Enumerates(e, m, Below(S, k))}
  <1>1. \A t, k : t \in Below(S, k) <=> t \in S /\ t <= k
    BY DEF Below
  <1>2. 0 \in Good
    <2>1. Below(S, 0) = {}
      <3>1. \A t \in S : t \in 1..n
        OBVIOUS
      <3>2. \A t \in 1..n : ~(t <= 0)
        OBVIOUS
      <3> QED BY <1>1, <3>1, <3>2
    <2>2. Enumerates(<<>>, 0, {})
      BY DEF Enumerates
    <2>3. \E e, m : Enumerates(e, m, Below(S, 0))
      BY <2>1, <2>2
    <2> QED BY <2>3
  <1>3. ASSUME NEW k \in 0..(n - 1), k \in Good PROVE k + 1 \in Good
    <2>1. PICK e, m : Enumerates(e, m, Below(S, k))
      BY <1>3
    <2>2. /\ \A t \in S : t \in Nat
          /\ \A t \in S : t <= k => t <= k + 1
          /\ \A t \in S : t <= k + 1 => t <= k \/ t = k + 1
          /\ k + 1 <= k + 1
      OBVIOUS
    <2>3. \A t \in Below(S, k) : t \in Nat /\ t <= k
      BY <1>1, <2>2
    <2>4. CASE k + 1 \notin S
      <3>1. Below(S, k + 1) = Below(S, k)
        <4>1. \A t \in S : t <= k + 1 <=> t <= k
          BY <2>4, <2>2
        <4>2. \A t : t \in Below(S, k + 1) <=> t \in Below(S, k)
          BY <1>1, <4>1
        <4> QED BY <4>2
      <3>2. \E d, l : Enumerates(d, l, Below(S, k + 1))
        BY <2>1, <3>1
      <3> QED BY <3>2
    <2>5. CASE k + 1 \in S
      <3>1. Below(S, k + 1) = Below(S, k) \cup {k + 1}
        BY <1>1, <2>5, <2>2
      <3>2. PICK d : d = [i \in 1..(m + 1) |-> IF i <= m THEN e[i] ELSE k + 1]
        OBVIOUS
      <3>3. /\ m \in Nat /\ \A i \in 1..m : e[i] \in Below(S, k)
            /\ \A t \in Below(S, k) : \E i \in 1..m : e[i] = t
            /\ \A i, j \in 1..m : i < j => e[i] < e[j]
        BY <2>1 DEF Enumerates
      <3>4. /\ m + 1 \in 1..(m + 1) /\ d[m + 1] = k + 1
            /\ \A i \in 1..m : i \in 1..(m + 1) /\ d[i] = e[i]
            /\ \A i \in 1..(m + 1) : i \in 1..m \/ i = m + 1
        BY <3>2, <3>3
      <3>5. \A i, j \in 1..(m + 1) : i < j => d[i] < d[j]
        <4> SUFFICES ASSUME NEW i \in 1..(m + 1), NEW j \in 1..(m + 1), i < j PROVE d[i] < d[j]
          OBVIOUS
        <4>1. i \in 1..m
          BY <3>3
        <4>2. CASE j \in 1..m
          BY <3>3, <3>4, <4>1, <4>2
        <4>3. CASE j = m + 1
          <5>1. e[i] \in Nat /\ e[i] <= k /\ d[i] = e[i] /\ d[j] = k + 1
            BY <2>3, <3>3, <3>4, <4>1, <4>3
          <5> QED BY <5>1
        <4> QED BY <3>4, <4>2, <4>3
      <3>6. Enumerates(d, m + 1, Below(S, k + 1))
        BY <3>1, <3>3, <3>4, <3>5 DEF Enumerates
      <3> QED BY <3>6
    <2> QED BY <2>4, <2>5
  <1>4. n \in Good
    <2>1. 0..n \subseteq Good
      <3> HIDE DEF Good
      <3> QED BY <1>2, <1>3, UpTo
    <2> QED BY <2>1
  <1>5. Below(S, n) = S
    <2>1. \A t \in S : t <= n
      OBVIOUS
    <2> QED BY <1>1, <2>1
  <1> QED BY <1>4, <1>5

\* A number's place in an enumeration is the number of those up to it.
LEMMA EnumerationCounts ==
    ASSUME NEW S \in SUBSET Nat, NEW e, NEW m, Enumerates(e, m, S)
    PROVE  /\ IsFiniteSet(S) /\ Cardinality(S) = m
           /\ \A i \in 1..m : Cardinality(Below(S, e[i])) = i
  <1> DEFINE P(k) == {t \in S : \E i \in 1..k : e[i] = t}
             Good == {k \in 0..m : IsFiniteSet(P(k)) /\ Cardinality(P(k)) = k}
  <1>1. /\ m \in Nat /\ \A i \in 1..m : e[i] \in S /\ e[i] \in Nat
        /\ \A t \in S : \E i \in 1..m : e[i] = t
        /\ \A i, j \in 1..m : i < j => e[i] < e[j]
    BY DEF Enumerates
  <1>2. 0 \in Good
    <2>1. P(0) = {}
      OBVIOUS
    <2> QED BY <1>1, <2>1, FS_EmptySet
  <1>3. ASSUME NEW k \in 0..(m - 1), k \in Good PROVE k + 1 \in Good
    <2>1. k + 1 \in 1..m /\ (\A i \in 1..k : i \in 1..m /\ i < k + 1) /\ e[k + 1] \in S
      BY <1>1
    <2>2. P(k + 1) = P(k) \cup {e[k + 1]}
      <3>1. \A i \in 1..(k + 1) : i \in 1..k \/ i = k + 1
        OBVIOUS
      <3>2. k + 1 \in 1..(k + 1) /\ \A i \in 1..k : i \in 1..(k + 1)
        OBVIOUS
      <3>3. \A t : t \in P(k + 1) <=> t \in P(k) \/ t = e[k + 1]
        BY <2>1, <3>1, <3>2
      <3> QED BY <3>3
    <2>3. e[k + 1] \notin P(k)
      <3> SUFFICES ASSUME NEW i \in 1..k, e[i] = e[k + 1] PROVE FALSE
        OBVIOUS
      <3> QED BY <1>1, <2>1
    <2>4. IsFiniteSet(P(k)) /\ Cardinality(P(k)) = k
      BY <1>3
    <2> HIDE DEF P
    <2>5. IsFiniteSet(P(k + 1)) /\ Cardinality(P(k + 1)) = k + 1
      BY <2>2, <2>3, <2>4, FS_AddElement
    <2> QED BY <1>1, <2>5
  <1>4. \A k \in 0..m : IsFiniteSet(P(k)) /\ Cardinality(P(k)) = k
    <2>1. 0..m \subseteq Good
      <3> HIDE DEF Good
      <3> QED BY <1>1, <1>2, <1>3, UpTo
    <2> HIDE DEF P
    <2> QED BY <2>1
  <1>5. P(m) = S
    BY <1>1
  <1>6. ASSUME NEW i \in 1..m PROVE P(i) = Below(S, e[i])
    <2>1. ASSUME NEW t \in S PROVE (\E j \in 1..i : e[j] = t) <=> t <= e[i]
      <3>1. PICK l \in 1..m : e[l] = t
        BY <1>1
      <3>2. CASE l < i
        <4>1. e[l] < e[i] /\ l \in 1..i
          BY <1>1, <3>2
        <4> QED BY <1>1, <3>1, <4>1
      <3>3. CASE l = i
        <4>1. i \in 1..i
          BY <1>1
        <4> QED BY <1>1, <3>1, <3>3, <4>1
      <3>4. CASE i < l
        <4>1. e[i] < e[l]
          BY <1>1, <3>4
        <4>2. ASSUME NEW j \in 1..i, e[j] = t PROVE FALSE
          <5>1. j \in 1..m /\ j < l
            BY <1>1, <3>4
          <5>2. e[j] < e[l]
            BY <1>1, <5>1
          <5> QED BY <1>1, <3>1, <4>2, <5>1, <5>2
        <4> QED BY <1>1, <3>1, <4>1, <4>2
      <3> QED BY <1>1, <3>2, <3>3, <3>4
    <2>2. \A t : t \in Below(S, e[i]) <=> t \in S /\ t <= e[i]
      BY DEF Below
    <2>3. \A t : t \in P(i) <=> t \in S /\ \E j \in 1..i : e[j] = t
      OBVIOUS
    <2> HIDE DEF P
    <2>4. \A t : t \in P(i) <=> t \in Below(S, e[i])
      BY <2>1, <2>2, <2>3
    <2> QED BY <2>4
  <1>7. m \in 0..m /\ \A i \in 1..m : i \in 0..m
    BY <1>1
  <1> HIDE DEF P
  <1> QED BY <1>4, <1>5, <1>6, <1>7

\* The states that ATTRIBUTE goes through with the rows of a sub-batch.
TakesRows(g, st, batch, n) ==
    g[0] = st /\ \A k \in 0..(n - 1) : g[k + 1] = Entity!Attr!Row(g[k], batch[k + 1])

\* It goes through them one by one.
LEMMA AttributeSteps ==
    ASSUME NEW st, NEW batch, NEW n \in Nat, DOMAIN batch = 1..n
    PROVE  \E g : TakesRows(g, st, batch, n) /\ Entity!Attr!ProcessSubBatch(st, batch) = g[n]
  <1> DEFINE which == <<"attribute">>
             F(f) == f = [s \in SUBSET (1..n) |->
                        IF s = {} THEN st ELSE Entity!Attr!Row(f[s \ {Max(s)}], batch[Max(s)])]
  <1>1. Entity!Attr!ProcessSubBatch(st, batch) = (CHOOSE f : F(f))[1..n]
    <2>1. \A S : Entity!Attr!Max(S) = Max(S)
      BY DEF Entity!Attr!Max, Max
    <2> QED BY <2>1 DEF Entity!Attr!ProcessSubBatch, Entity!Attr!FoldLeft, Entity!Attr!MapThenFoldSet
  <1>2. \A acc, i : EntityStep(which, acc, batch, i) = Entity!Attr!Row(acc, batch[i])
    BY DEF EntityStep
  <1> HIDE DEF which
  <1>3. \A f : F(f) <=> IsEntityFold(which, f, st, batch, n)
    BY <1>2 DEF IsEntityFold
  <1> HIDE DEF F
  <1>4. (CHOOSE f : F(f))[1..n] = EntityFold(which, st, batch, n)
    BY <1>3 DEF EntityFold
  <1>5. PICK g : /\ g[0] = st
                 /\ \A k \in 0..(n - 1) : g[k + 1] = EntityStep(which, g[k], batch, k + 1)
                 /\ EntityFold(which, st, batch, n) = g[n]
    BY EntityFoldSteps
  <1>6. \A k \in 0..(n - 1) : g[k + 1] = Entity!Attr!Row(g[k], batch[k + 1])
    BY <1>2, <1>5
  <1> QED BY <1>1, <1>4, <1>5, <1>6 DEF TakesRows

\* A conversion goes through the deque one touchpoint at a time.
LEMMA MatchSteps ==
    ASSUME NEW deque, NEW row, NEW n \in Nat, DOMAIN deque = 1..n
    PROVE  \E g : /\ g[0] = <<>>
                  /\ \A k \in 0..(n - 1) : g[k + 1] = Entity!Attr!Match(g[k], row, deque[k + 1])
                  /\ Entity!Attr!EmitConversion(deque, row) =
                        IF g[n] = <<>> THEN <<[pos |-> row.pos, touch |-> Null]>> ELSE g[n]
  <1> DEFINE which == <<"match", row>>
             fold  == Entity!Attr!FoldLeft(LAMBDA rows, t : Entity!Attr!Match(rows, row, t), <<>>, deque)
             F(f) == f = [s \in SUBSET (1..n) |->
                        IF s = {} THEN <<>>
                        ELSE Entity!Attr!Match(f[s \ {Max(s)}], row, deque[Max(s)])]
  <1>1. Entity!Attr!EmitConversion(deque, row) =
            IF fold = <<>> THEN <<[pos |-> row.pos, touch |-> Null]>> ELSE fold
    BY Zenon DEF Entity!Attr!EmitConversion
  <1>2. fold = (CHOOSE f : F(f))[1..n]
    <2>1. \A S : Entity!Attr!Max(S) = Max(S)
      BY DEF Entity!Attr!Max, Max
    <2> QED BY <2>1 DEF Entity!Attr!FoldLeft, Entity!Attr!MapThenFoldSet
  <1> HIDE DEF fold
  <1>3. \A acc, i : EntityStep(which, acc, deque, i) = Entity!Attr!Match(acc, row, deque[i])
    <2>1. which[1] = "match" /\ which[2] = row
      OBVIOUS
    <2> HIDE DEF which
    <2> QED BY <2>1 DEF EntityStep
  <1> HIDE DEF which
  <1>4. \A f : F(f) <=> IsEntityFold(which, f, <<>>, deque, n)
    BY <1>3 DEF IsEntityFold
  <1> HIDE DEF F
  <1>5. (CHOOSE f : F(f))[1..n] = EntityFold(which, <<>>, deque, n)
    BY <1>4 DEF EntityFold
  <1>6. PICK g : /\ g[0] = <<>>
                 /\ \A k \in 0..(n - 1) : g[k + 1] = EntityStep(which, g[k], deque, k + 1)
                 /\ EntityFold(which, <<>>, deque, n) = g[n]
    BY EntityFoldSteps
  <1>7. \A k \in 0..(n - 1) : g[k + 1] = Entity!Attr!Match(g[k], row, deque[k + 1])
    BY <1>3, <1>6
  <1>8. g[n] = fold
    BY <1>2, <1>5, <1>6
  <1> QED BY <1>1, <1>6, <1>7, <1>8

\* The touchpoints of a conversion are those in its window and before it.
HitsOf(rows, r) == {t \in Entity!Attr!InWindow(rows, r) : rows[t].ts < rows[r].ts}
TouchedBy(rows, r) ==
    IF HitsOf(rows, r) = {} THEN <<Null>>
    ELSE [i \in 1..Entity!Attr!Cardinality(HitsOf(rows, r)) |->
            rows[CHOOSE t \in HitsOf(rows, r) :
                    Entity!Attr!Cardinality({u \in HitsOf(rows, r) : u <= t}) = i].pos]
PairsOf(rows, r) ==
    [i \in DOMAIN TouchedBy(rows, r) |-> [pos |-> rows[r].pos, touch |-> TouchedBy(rows, r)[i]]]
PartOf(rows, r) == IF Entity!Attr!IsConversion(rows[r]) THEN PairsOf(rows, r) ELSE <<>>
PartsUpTo(rows, k) == [r \in 1..k |-> PartOf(rows, r)]

\* They are what the reference speaks of.
LEMMA AttributionsAre ==
    ASSUME NEW rows
    PROVE  Entity!Attr!Attributions(rows) = Entity!Attr!FlattenSeq(PartsUpTo(rows, Entity!Attr!Kept(rows)))
  BY Zenon DEF Entity!Attr!Attributions, PartsUpTo, PartOf, PairsOf, TouchedBy, HitsOf

\* With an enumeration of the touchpoints the pairs can be told.
LEMMA PairsAre ==
    ASSUME NEW rows, NEW r, HitsOf(rows, r) \in SUBSET Nat,
           NEW e, NEW h, Enumerates(e, h, HitsOf(rows, r))
    PROVE  PairsOf(rows, r) = IF h = 0 THEN <<[pos |-> rows[r].pos, touch |-> Null]>>
                              ELSE [i \in 1..h |-> [pos |-> rows[r].pos, touch |-> rows[e[i]].pos]]
  <1> DEFINE H == HitsOf(rows, r)
             Place(i) == CHOOSE t \in H : Entity!Attr!Cardinality({u \in H : u <= t}) = i
  <1>1. \A S : Entity!Attr!Cardinality(S) = Cardinality(S)
    BY DEF Entity!Attr!Cardinality, Cardinality
  <1>2. /\ IsFiniteSet(H) /\ Cardinality(H) = h
        /\ \A i \in 1..h : Cardinality(Below(H, e[i])) = i
    BY EnumerationCounts
  <1>3. h \in Nat /\ (\A i \in 1..h : e[i] \in H) /\ \A t \in H : \E i \in 1..h : e[i] = t
    BY DEF Enumerates
  <1>4. TouchedBy(rows, r) = IF H = {} THEN <<Null>>
                             ELSE [i \in 1..Entity!Attr!Cardinality(H) |-> rows[Place(i)].pos]
    BY Zenon DEF TouchedBy
  <1>5. \A i : Place(i) = CHOOSE t \in H : Cardinality(Below(H, t)) = i
    BY <1>1 DEF Below
  <1> HIDE DEF Place, H
  <1>6. ASSUME NEW i \in 1..h PROVE Place(i) = e[i]
    <2>1. e[i] \in H /\ Cardinality(Below(H, e[i])) = i
      BY <1>2, <1>3
    <2>2. PICK t : t = Place(i)
      OBVIOUS
    <2>3. t \in H /\ Cardinality(Below(H, t)) = i
      BY <1>5, <2>1, <2>2
    <2>4. PICK j \in 1..h : e[j] = t
      BY <1>3, <2>3
    <2>5. j = i
      BY <1>2, <2>3, <2>4
    <2> QED BY <2>2, <2>4, <2>5
  <1>7. CASE h = 0
    <2>1. H = {}
      BY <1>3, <1>7
    <2>2. TouchedBy(rows, r) = <<Null>>
      BY <1>4, <2>1
    <2>3. PairsOf(rows, r) = [i \in 1..1 |-> [pos |-> rows[r].pos, touch |-> Null]]
      BY <2>2 DEF PairsOf
    <2> QED BY <1>7, <2>3
  <1>8. CASE h # 0
    <2>1. H # {}
      <3>1. 1 \in 1..h
        BY <1>3, <1>8
      <3> QED BY <1>3, <3>1
    <2>2. TouchedBy(rows, r) = [i \in 1..h |-> rows[e[i]].pos]
      <3>1. TouchedBy(rows, r) = [i \in 1..h |-> rows[Place(i)].pos]
        BY <1>1, <1>2, <1>4, <2>1
      <3> QED BY <1>6, <3>1
    <2> QED BY <1>8, <2>2 DEF PairsOf
  <1> QED BY <1>7, <1>8

\* The least of some places in the deque.
LEMMA AttrMinIs ==
    ASSUME NEW S \in SUBSET Nat, NEW m \in S, \A k \in S : m <= k
    PROVE  Entity!Attr!Min(S) = m
  <1>1. \A T : Entity!Attr!Min(T) = Entity!Sess!Min(T)
    BY DEF Entity!Attr!Min, Entity!Sess!Min
  <1> QED BY <1>1, SessMinIs

\* The touchpoints in the window before a row.
LEMMA WindowIs ==
    ASSUME NEW rows, NEW r
    PROVE  /\ Entity!Attr!InWindow(rows, r) \in SUBSET (1..(r - 1))
           /\ \A t : t \in Entity!Attr!InWindow(rows, r) <=>
                        /\ t \in 1..(r - 1) /\ IsTouch(rows, t)
                        /\ job.op.window > 0 /\ rows[r].ts - rows[t].ts <= job.op.window
  BY DEF Entity!Attr!InWindow, IsTouch

\* Of the deque remain those in the window before the next row.
LEMMA PrunedHolds ==
    ASSUME AttributeAtHand, NEW rows, InTime(rows), NEW n \in Nat, n + 1 \in DOMAIN rows,
           NEW deque, Holds(deque, rows, Recent(rows, n))
    PROVE  Holds(Entity!Attr!Pruned(deque, rows[n + 1].ts), rows, Entity!Attr!InWindow(rows, n + 1))
  <1>1. PICK e, m : HoldsAs(deque, rows, Recent(rows, n), e, m)
    BY DEF Holds
  <1>2. /\ m \in Nat /\ (\A i \in 1..m : e[i] \in Recent(rows, n))
        /\ (\A t \in Recent(rows, n) : \E i \in 1..m : e[i] = t)
        /\ (\A i, j \in 1..m : i < j => e[i] < e[j])
        /\ deque \in Seq(Touchpoint) /\ Len(deque) = m /\ DOMAIN deque = 1..m
        /\ \A i \in 1..m : deque[i] = [ts |-> rows[e[i]].ts, pos |-> rows[e[i]].pos]
    BY <1>1, LenProperties DEF HoldsAs, Enumerates
  <1>3. \A r \in 1..(n + 1) : r \in DOMAIN rows /\ rows[r].ts \in Int
    <2>1. PICK k \in Nat : DOMAIN rows = 1..k
      BY LenProperties DEF InTime, ChildRows
    <2>2. \A r \in 1..(n + 1) : r \in DOMAIN rows
      BY <2>1
    <2> QED BY <2>2 DEF InTime
  <1>4. \A r, s \in 1..(n + 1) : r <= s => rows[r].ts <= rows[s].ts
    BY <1>3 DEF InTime
  <1>5. PICK ts \in Int : ts = rows[n + 1].ts
    BY <1>3
  <1>6. PICK w \in Nat : w = job.op.window
    BY DEF AttributeAtHand
  <1> DEFINE W == Entity!Attr!InWindow(rows, n + 1)
  <1>7. \A t : t \in Recent(rows, n) <=>
                /\ t \in 1..n /\ IsTouch(rows, t)
                /\ t = n \/ (w > 0 /\ rows[n].ts - rows[t].ts <= w)
    BY <1>6 DEF Recent
  <1>8. \A t : t \in W <=> t \in 1..n /\ IsTouch(rows, t) /\ w > 0 /\ ts - rows[t].ts <= w
    <2>1. n + 1 - 1 = n
      OBVIOUS
    <2> QED BY <1>5, <1>6, <2>1, WindowIs
  <1>9. \A t \in Recent(rows, n) : t \in 1..n /\ t \in 1..(n + 1) /\ rows[t].ts \in Int
    BY <1>3, <1>7
  <1> HIDE DEF W
  <1>10. \A t \in W : t \in Recent(rows, n)
    <2> SUFFICES ASSUME NEW t \in W PROVE t \in Recent(rows, n)
      OBVIOUS
    <2>1. /\ t \in 1..n /\ IsTouch(rows, t) /\ w > 0 /\ ts - rows[t].ts <= w
          /\ t \in 1..(n + 1) /\ n \in 1..(n + 1) /\ n + 1 \in 1..(n + 1) /\ n <= n + 1
      BY <1>8
    <2>2. rows[t].ts \in Int /\ rows[n].ts \in Int /\ rows[n].ts <= ts
      BY <1>3, <1>4, <1>5, <2>1
    <2>3. rows[n].ts - rows[t].ts <= w
      BY <2>1, <2>2
    <2> QED BY <1>7, <2>1, <2>3
  <1>11. \A i \in 1..m : e[i] \in W <=> w > 0 /\ deque[i].ts >= ts - w
    <2> SUFFICES ASSUME NEW i \in 1..m PROVE e[i] \in W <=> w > 0 /\ deque[i].ts >= ts - w
      OBVIOUS
    <2>1. deque[i].ts = rows[e[i]].ts /\ rows[e[i]].ts \in Int /\ e[i] \in 1..n /\ IsTouch(rows, e[i])
      BY <1>2, <1>7, <1>9
    <2>2. PICK x \in Int : x = rows[e[i]].ts
      BY <2>1
    <2>3. ts - x <= w <=> x >= ts - w
      OBVIOUS
    <2> QED BY <1>8, <2>1, <2>2, <2>3
  <1>12. PICK live : live = {i \in DOMAIN deque : deque[i].ts >= ts - w}
    OBVIOUS
  <1>13. Entity!Attr!Pruned(deque, ts) =
            IF w = 0 \/ live = {} THEN <<>> ELSE SubSeq(deque, Entity!Attr!Min(live), m)
    BY <1>2, <1>6, <1>12 DEF Entity!Attr!Pruned
  <1>14. CASE w = 0 \/ live = {}
    <2>1. W = {}
      BY <1>2, <1>8, <1>10, <1>11, <1>12, <1>14
    <2>2. HoldsAs(<<>>, rows, {}, <<>>, 0)
      BY DEF HoldsAs, Enumerates
    <2> QED BY <1>5, <1>13, <1>14, <2>1, <2>2 DEF Holds, W
  <1>15. CASE w # 0 /\ live # {}
    <2>1. live \in SUBSET (1..m) /\ live \in SUBSET Int /\ live \in SUBSET Nat /\ IsFiniteSet(live)
      <3>1. IsFiniteSet(1..m) /\ live \in SUBSET (1..m)
        BY <1>2, <1>12, FS_Interval
      <3>2. IsFiniteSet(live)
        BY <3>1, FS_Subset
      <3>3. live \in SUBSET Nat
        BY <3>1
      <3> QED BY <3>1, <3>2, <3>3
    <2>2. PICK p \in live : \A k \in live : p <= k
      BY <1>15, <2>1, LeastAndGreatest
    <2>3. Entity!Attr!Min(live) = p /\ p \in 1..m
      BY <2>1, <2>2, AttrMinIs
    <2>4. PICK kept : kept = SubSeq(deque, p, m)
      OBVIOUS
    <2>5. PICK h \in Nat : h = m - p + 1
      BY <1>2, <2>3
    <2>6. /\ kept \in Seq(Touchpoint) /\ Len(kept) = h
          /\ \A i \in 1..h : kept[i] = deque[p + i - 1]
      <3>1. \A i \in p..m : deque[i] \in Touchpoint
        BY <1>2, <2>3
      <3>2. p \in Int /\ m \in Int /\ p <= m + 1
        BY <1>2, <2>3
      <3> QED BY <2>4, <2>5, <3>1, <3>2, SubSeqProperties
    <2>7. \A i \in 1..m : i \in live <=> e[i] \in W
      BY <1>2, <1>11, <1>12, <1>15
    <2>8. \A i \in p..m : e[i] \in W
      <3> SUFFICES ASSUME NEW i \in p..m PROVE e[i] \in W
        OBVIOUS
      <3>1. i \in 1..m /\ (i = p \/ p < i)
        BY <1>2, <2>3
      <3>2. CASE i = p
        BY <2>2, <2>3, <2>7, <3>2
      <3>3. CASE p < i
        <4>1. e[p] < e[i] /\ e[p] \in W /\ e[p] \in 1..(n + 1) /\ e[i] \in 1..(n + 1)
          BY <1>2, <1>9, <2>2, <2>3, <2>7, <3>1, <3>3
        <4>2. rows[e[p]].ts <= rows[e[i]].ts
          BY <1>4, <4>1
        <4>3. PICK x \in Int, y \in Int : x = deque[p].ts /\ y = deque[i].ts /\ x <= y
          <5>1. rows[e[p]].ts \in Int /\ rows[e[i]].ts \in Int
            BY <1>3, <4>1
          <5>2. deque[p].ts = rows[e[p]].ts /\ deque[i].ts = rows[e[i]].ts
            BY <1>2, <2>3, <3>1
          <5> QED BY <4>2, <5>1, <5>2
        <4>4. w > 0 /\ x >= ts - w
          BY <1>11, <2>3, <4>1, <4>3
        <4>5. y >= ts - w
          BY <4>3, <4>4
        <4> QED BY <1>11, <3>1, <4>3, <4>4, <4>5
      <3> QED BY <3>1, <3>2, <3>3
    <2>9. PICK d : d = [i \in 1..h |-> e[p + i - 1]]
      OBVIOUS
    <2>10. \A i \in 1..h : p + i - 1 \in p..m /\ p + i - 1 \in 1..m
      BY <1>2, <2>3, <2>5
    <2>11. Enumerates(d, h, W)
      <3>1. \A i \in 1..h : d[i] \in W
        BY <2>8, <2>9, <2>10
      <3>2. ASSUME NEW t \in W PROVE \E i \in 1..h : d[i] = t
        <4>1. PICK j \in 1..m : e[j] = t
          BY <1>2, <1>10
        <4>2. p <= j
          BY <2>2, <2>7, <4>1
        <4>3. j - p + 1 \in 1..h /\ p + (j - p + 1) - 1 = j
          BY <1>2, <2>3, <2>5, <4>1, <4>2
        <4> QED BY <2>9, <4>1, <4>3
      <3>3. ASSUME NEW i \in 1..h, NEW j \in 1..h, i < j PROVE d[i] < d[j]
        <4>1. p + i - 1 \in 1..m /\ p + j - 1 \in 1..m /\ p + i - 1 < p + j - 1
          BY <2>3, <2>10, <3>3
        <4>2. e[p + i - 1] < e[p + j - 1]
          BY <1>2, <4>1
        <4> QED BY <2>9, <4>2
      <3> QED BY <3>1, <3>2, <3>3 DEF Enumerates
    <2>12. \A i \in 1..h : kept[i] = [ts |-> rows[d[i]].ts, pos |-> rows[d[i]].pos]
      BY <1>2, <2>6, <2>9, <2>10
    <2>13. HoldsAs(kept, rows, W, d, h)
      BY <2>6, <2>11, <2>12 DEF HoldsAs
    <2> QED BY <1>5, <1>13, <1>15, <2>3, <2>4, <2>13 DEF Holds, W
  <1> QED BY <1>14, <1>15

\* A conversion is paired with the touchpoints of its window before it, or with none.
LEMMA EmittedIs ==
    ASSUME AttributeAtHand, NEW rows, InTime(rows), NEW r \in DOMAIN rows,
           NEW deque, Holds(deque, rows, Entity!Attr!InWindow(rows, r))
    PROVE  Entity!Attr!EmitConversion(deque, rows[r]) = PairsOf(rows, r)
  <1> DEFINE W == Entity!Attr!InWindow(rows, r)
             H == HitsOf(rows, r)
  <1>1. PICK e, m : HoldsAs(deque, rows, W, e, m)
    BY DEF Holds
  <1>2. /\ m \in Nat /\ (\A i \in 1..m : e[i] \in W)
        /\ (\A t \in W : \E i \in 1..m : e[i] = t)
        /\ (\A i, j \in 1..m : i < j => e[i] < e[j])
        /\ DOMAIN deque = 1..m
        /\ \A i \in 1..m : deque[i] = [ts |-> rows[e[i]].ts, pos |-> rows[e[i]].pos]
    BY <1>1, LenProperties DEF HoldsAs, Enumerates
  <1>3. PICK n \in Nat : DOMAIN rows = 1..n
    BY LenProperties DEF InTime, ChildRows
  <1>4. \A t \in W : t \in 1..n /\ t \in DOMAIN rows /\ rows[t].ts \in Int
    <2>1. \A t \in W : t \in 1..(r - 1)
      BY WindowIs
    <2>2. \A t \in 1..(r - 1) : t \in 1..n
      BY <1>3
    <2> QED BY <1>3, <2>1, <2>2 DEF InTime
  <1>5. PICK ts \in Int : ts = rows[r].ts
    BY DEF InTime
  <1>6. PICK w \in Nat : w = job.op.window
    BY DEF AttributeAtHand
  <1>7. \A t \in W : rows[t].ts >= ts - w
    <2> SUFFICES ASSUME NEW t \in W PROVE rows[t].ts >= ts - w
      OBVIOUS
    <2>1. PICK x \in Int : x = rows[t].ts
      BY <1>4
    <2>2. ts - x <= w
      BY <1>5, <1>6, <2>1, WindowIs
    <2>3. x >= ts - w
      BY <2>2
    <2> QED BY <2>1, <2>3
  <1>8. \A t : t \in H <=> t \in W /\ rows[t].ts < ts
    BY <1>5 DEF HitsOf
  <1>9. \A t, u \in W : t < u /\ rows[u].ts < ts => rows[t].ts < ts
    <2> SUFFICES ASSUME NEW t \in W, NEW u \in W, t < u, rows[u].ts < ts PROVE rows[t].ts < ts
      OBVIOUS
    <2>1. t <= u
      BY <1>4
    <2>2. rows[t].ts <= rows[u].ts
      BY <1>4, <2>1 DEF InTime
    <2>3. PICK x \in Int, y \in Int : x = rows[t].ts /\ y = rows[u].ts
      BY <1>4
    <2> QED BY <2>2, <2>3
  <1> HIDE DEF W, H
  <1>10. PICK g : /\ g[0] = <<>>
                  /\ \A k \in 0..(m - 1) : g[k + 1] = Entity!Attr!Match(g[k], rows[r], deque[k + 1])
                  /\ Entity!Attr!EmitConversion(deque, rows[r]) =
                        IF g[m] = <<>> THEN <<[pos |-> rows[r].pos, touch |-> Null]>> ELSE g[m]
    <2>1. m \in Nat /\ DOMAIN deque = 1..m
      BY <1>2
    <2> QED BY <2>1, MatchSteps
  <1> DEFINE Pair(i) == [pos |-> rows[r].pos, touch |-> rows[e[i]].pos]
             Matched(k, h) == /\ h \in 0..k
                              /\ \A i \in 1..k : e[i] \in H <=> i <= h
                              /\ g[k] = [i \in 1..h |-> Pair(i)]
             Good == {k \in 0..m : \E h : Matched(k, h)}
  <1>11. 0 \in Good
    <2>1. g[0] = [i \in 1..0 |-> Pair(i)]
      <3>1. [i \in 1..0 |-> Pair(i)] = <<>>
        OBVIOUS
      <3> QED BY <1>10, <3>1
    <2>2. Matched(0, 0)
      <3>1. 0 \in 0..0 /\ \A i \in 1..0 : FALSE
        OBVIOUS
      <3> HIDE DEF Pair
      <3> QED BY <2>1, <3>1
    <2> HIDE DEF Matched
    <2> QED BY <1>2, <2>2
  <1>12. ASSUME NEW k \in 0..(m - 1), k \in Good PROVE k + 1 \in Good
    <2>1. PICK h : Matched(k, h)
      BY <1>12
    <2>2. /\ h \in 0..k /\ k \in Nat /\ h \in Nat
          /\ \A i \in 1..k : e[i] \in H <=> i <= h
          /\ g[k] = [i \in 1..h |-> Pair(i)]
      BY <1>2, <2>1
    <2>3. PICK j \in 1..m : j = k + 1
      BY <1>2
    <2>4. e[j] \in W /\ deque[j] = [ts |-> rows[e[j]].ts, pos |-> rows[e[j]].pos]
      BY <1>2
    <2>5. g[j] = IF e[j] \in H THEN Append(g[k], Pair(j)) ELSE g[k]
      <3>1. g[j] = Entity!Attr!Match(g[k], rows[r], deque[j])
        BY <1>10, <2>3
      <3>2. deque[j].ts >= rows[r].ts - job.op.window
        BY <1>5, <1>6, <1>7, <2>4
      <3>3. deque[j].ts < rows[r].ts <=> e[j] \in H
        BY <1>5, <1>8, <2>4
      <3> QED BY <2>4, <3>1, <3>2, <3>3 DEF Entity!Attr!Match
    <2>6. \A i \in 1..j : i \in 1..k \/ i = j
      BY <2>2, <2>3
    <2>7. CASE e[j] \in H
      <3>1. h = k
        <4>1. SUFFICES ASSUME h # k PROVE FALSE
          OBVIOUS
        <4>2. k \in 1..k /\ k \in 1..m /\ ~(k <= h) /\ k < j
          BY <1>2, <2>2, <2>3, <4>1
        <4>3. e[k] < e[j] /\ e[k] \in W
          BY <1>2, <4>2
        <4>4. e[k] \in H
          BY <1>8, <1>9, <2>4, <2>7, <4>3
        <4> QED BY <2>2, <4>2, <4>4
      <3>2. g[j] = [i \in 1..j |-> Pair(i)]
        <4>1. g[j] = Append([i \in 1..k |-> Pair(i)], Pair(j))
          BY <2>2, <2>5, <2>7, <3>1
        <4> HIDE DEF Pair
        <4>2. Append([i \in 1..k |-> Pair(i)], Pair(k + 1)) = [i \in 1..(k + 1) |-> Pair(i)]
          BY <2>2
        <4> QED BY <2>3, <4>1, <4>2
      <3>3. \A i \in 1..j : e[i] \in H <=> i <= j
        BY <2>2, <2>3, <2>6, <2>7, <3>1
      <3>4. j \in 0..j
        OBVIOUS
      <3>5. Matched(j, j)
        BY <3>2, <3>3, <3>4
      <3> HIDE DEF Matched
      <3> QED BY <1>2, <2>3, <3>5
    <2>8. CASE e[j] \notin H
      <3>1. ~(j <= h) /\ h \in 0..j
        BY <2>2, <2>3
      <3>2. \A i \in 1..j : e[i] \in H <=> i <= h
        BY <2>2, <2>6, <2>8, <3>1
      <3>3. g[j] = [i \in 1..h |-> Pair(i)]
        BY <2>2, <2>5, <2>8
      <3>4. Matched(j, h)
        BY <3>1, <3>2, <3>3
      <3> HIDE DEF Matched
      <3> QED BY <1>2, <2>3, <3>4
    <2> QED BY <2>7, <2>8
  <1>13. m \in Good
    <2>1. 0..m \subseteq Good
      <3> HIDE DEF Good
      <3> QED BY <1>2, <1>11, <1>12, UpTo
    <2> HIDE DEF Good
    <2> QED BY <1>2, <2>1
  <1>14. PICK h : /\ h \in 0..m
                  /\ \A i \in 1..m : e[i] \in H <=> i <= h
                  /\ g[m] = [i \in 1..h |-> Pair(i)]
    BY <1>13
  <1>15. Enumerates(e, h, H)
    <2>1. h \in Nat /\ \A i \in 1..h : i \in 1..m /\ i <= h
      BY <1>2, <1>14
    <2>2. \A i \in 1..h : e[i] \in H
      BY <1>14, <2>1
    <2>3. ASSUME NEW t \in H PROVE \E i \in 1..h : e[i] = t
      <3>1. PICK i \in 1..m : e[i] = t
        BY <1>2, <1>8
      <3>2. i <= h
        BY <1>14, <3>1
      <3>3. i \in 1..h
        BY <1>14, <3>1, <3>2
      <3> QED BY <3>1, <3>3
    <2> QED BY <1>2, <2>1, <2>2, <2>3 DEF Enumerates
  <1>16. PairsOf(rows, r) = IF h = 0 THEN <<[pos |-> rows[r].pos, touch |-> Null]>>
                            ELSE [i \in 1..h |-> Pair(i)]
    <2>1. H \in SUBSET Nat
      BY <1>4, <1>8
    <2> QED BY <1>15, <2>1, PairsAre DEF H
  <1>17. CASE h = 0
    <2>1. g[m] = <<>>
      BY <1>14, <1>17
    <2> QED BY <1>10, <1>16, <1>17, <2>1
  <1>18. CASE h # 0
    <2>1. g[m] # <<>>
      <3>1. 1 \in 1..h /\ 1 \in DOMAIN g[m]
        BY <1>14, <1>18
      <3> QED BY <3>1
    <2> QED BY <1>10, <1>14, <1>16, <1>18, <2>1
  <1> QED BY <1>17, <1>18

\* What is output of rows.
PairRow == [pos : {row.pos : row \in Range(job.rows)}, touch : {row.pos : row \in Range(job.rows)} \cup {Null}]

\* A row's part of the output.
LEMMA PartType ==
    ASSUME NEW rows \in ChildRows, NEW r \in DOMAIN rows
    PROVE  /\ HitsOf(rows, r) \in SUBSET (1..(r - 1))
           /\ PartOf(rows, r) \in Seq(PairRow)
  <1>1. PICK n \in Nat : DOMAIN rows = 1..n
    BY LenProperties DEF ChildRows
  <1>2. HitsOf(rows, r) \in SUBSET (1..(r - 1))
    BY WindowIs DEF HitsOf
  <1>3. r - 1 \in Nat /\ \A t \in 1..(r - 1) : t \in 1..n /\ t \in Nat
    BY <1>1
  <1>4. PICK e, h : Enumerates(e, h, HitsOf(rows, r))
    BY <1>2, <1>3, EnumerationExists
  <1>5. PairsOf(rows, r) = IF h = 0 THEN <<[pos |-> rows[r].pos, touch |-> Null]>>
                           ELSE [i \in 1..h |-> [pos |-> rows[r].pos, touch |-> rows[e[i]].pos]]
    <2>1. HitsOf(rows, r) \in SUBSET Nat
      BY <1>2, <1>3
    <2> QED BY <1>4, <2>1, PairsAre
  <1>6. h \in Nat /\ \A i \in 1..h : e[i] \in 1..n
    BY <1>2, <1>3, <1>4 DEF Enumerates
  <1>7. \A t \in 1..n : rows[t] \in Range(job.rows)
    BY <1>1 DEF ChildRows
  <1>8. \A t \in 1..n : rows[t].pos \in {row.pos : row \in Range(job.rows)}
    BY <1>7
  <1>9. PairsOf(rows, r) \in Seq(PairRow)
    <2>1. CASE h = 0
      <3>1. [pos |-> rows[r].pos, touch |-> Null] \in PairRow
        BY <1>1, <1>8 DEF PairRow
      <3> QED BY <1>5, <2>1, <3>1
    <2>2. CASE h # 0
      <3>1. \A i \in 1..h : [pos |-> rows[r].pos, touch |-> rows[e[i]].pos] \in PairRow
        BY <1>1, <1>6, <1>8 DEF PairRow
      <3> QED BY <1>5, <1>6, <2>2, <3>1
    <2> QED BY <2>1, <2>2
  <1> QED BY <1>2, <1>9 DEF PartOf

\* Behind the parts of the first k rows comes that of the next.
LEMMA PartsNext ==
    ASSUME NEW rows \in ChildRows, NEW k \in Nat, k + 1 \in DOMAIN rows
    PROVE  Entity!Attr!FlattenSeq(PartsUpTo(rows, k + 1)) =
                Entity!Attr!FlattenSeq(PartsUpTo(rows, k)) \o PartOf(rows, k + 1)
  <1>1. PICK n \in Nat : DOMAIN rows = 1..n /\ k + 1 <= n
    BY LenProperties DEF ChildRows
  <1>2. \A r \in 1..(k + 1) : PartOf(rows, r) \in Seq(PairRow)
    <2>1. \A r \in 1..(k + 1) : r \in DOMAIN rows
      BY <1>1
    <2> QED BY <2>1, PartType
  <1>3. PICK s \in Seq(Seq(PairRow)) : s = PartsUpTo(rows, k) /\ Len(s) = k
    <2>1. \A r \in 1..k : PartOf(rows, r) \in Seq(PairRow)
      BY <1>2
    <2>2. PartsUpTo(rows, k) \in [1..k -> Seq(PairRow)]
      BY <2>1 DEF PartsUpTo
    <2> QED BY <2>2
  <1>4. PICK x \in Seq(PairRow) : x = PartOf(rows, k + 1)
    BY <1>2
  <1>5. Append(s, x) = PartsUpTo(rows, k + 1)
    <2>1. Append([r \in 1..k |-> PartOf(rows, r)], PartOf(rows, k + 1)) = [r \in 1..(k + 1) |-> PartOf(rows, r)]
      OBVIOUS
    <2> QED BY <1>3, <1>4, <2>1 DEF PartsUpTo
  <1>6. \A q : Entity!Attr!FlattenSeq(q) = FlattenSeq(q)
    BY DEF Entity!Attr!FlattenSeq, FlattenSeq
  <1>7. FlattenSeq(Append(s, x)) = FlattenSeq(s) \o x
    BY FlattenAppend
  <1> QED BY <1>3, <1>4, <1>5, <1>6, <1>7

\* The entity stops with the first of them.
LEMMA KeptOf ==
    ASSUME NEW rows \in ChildRows, NEW n, n = Len(rows)
    PROVE  /\ OverCap(rows) = {} => Entity!Attr!Kept(rows) = n
           /\ \A m \in OverCap(rows) : (\A k \in OverCap(rows) : m <= k) => Entity!Attr!Kept(rows) = m
           /\ OverCap(rows) # {} => \E m \in OverCap(rows) : \A k \in OverCap(rows) : m <= k
  <1>1. n \in Nat /\ DOMAIN rows = 1..n /\ OverCap(rows) \in SUBSET (1..n)
    BY LenProperties DEF ChildRows, OverCap
  <1>2. Entity!Attr!Kept(rows) = IF OverCap(rows) = {} THEN n ELSE Entity!Attr!Min(OverCap(rows))
    <2>1. \A S : Entity!Attr!Cardinality(S) = Cardinality(S)
      BY DEF Entity!Attr!Cardinality, Cardinality
    <2>2. OverCap(rows) = {r \in DOMAIN rows :
                            /\ rows[r].type \in job.op.touchpoints
                            /\ Entity!Attr!Cardinality(Entity!Attr!InWindow(rows, r)) >= job.op.cap}
      BY <2>1 DEF OverCap, IsTouch
    <2> QED BY <2>2, Zenon DEF Entity!Attr!Kept
  <1>3. OverCap(rows) \in SUBSET Nat /\ OverCap(rows) \in SUBSET Int /\ IsFiniteSet(OverCap(rows))
    <2>1. IsFiniteSet(1..n)
      BY <1>1, FS_Interval
    <2> QED BY <1>1, <2>1, FS_Subset
  <1>4. ASSUME NEW m \in OverCap(rows), \A k \in OverCap(rows) : m <= k PROVE Entity!Attr!Kept(rows) = m
    BY <1>2, <1>3, <1>4, AttrMinIs
  <1>5. OverCap(rows) # {} => \E m \in OverCap(rows) : \A k \in OverCap(rows) : m <= k
    BY <1>3, LeastAndGreatest
  <1> QED BY <1>2, <1>4, <1>5

\* With a row more the parts and the room of the earlier rows are the same.
LEMMA PartsStay ==
    ASSUME NEW rows \in ChildRows, NEW more \in ChildRows, NEW n, n = Len(rows), Len(more) = n + 1,
           \A r \in 1..n : more[r] = rows[r]
    PROVE  /\ n \in Nat /\ DOMAIN rows = 1..n /\ DOMAIN more = 1..(n + 1)
           /\ \A r \in 1..n : PartOf(more, r) = PartOf(rows, r)
           /\ \A r \in 1..n : r \in OverCap(more) <=> r \in OverCap(rows)
  <1>1. n \in Nat /\ DOMAIN rows = 1..n /\ DOMAIN more = 1..(n + 1)
    BY LenProperties DEF ChildRows
  <1>2. \A r \in 1..n : r \in DOMAIN rows /\ r \in DOMAIN more /\ \A t \in 1..(r - 1) : t \in 1..n
    BY <1>1
  <1>3. ASSUME NEW r \in 1..n
        PROVE  Entity!Attr!InWindow(more, r) = Entity!Attr!InWindow(rows, r)
    <2>1. more[r] = rows[r] /\ \A t \in 1..(r - 1) : more[t] = rows[t]
      BY <1>2
    <2>2. \A t \in 1..(r - 1) : IsTouch(more, t) <=> IsTouch(rows, t)
      BY <2>1 DEF IsTouch
    <2>3. \A t : t \in Entity!Attr!InWindow(more, r) <=>
                    /\ t \in 1..(r - 1) /\ IsTouch(more, t)
                    /\ job.op.window > 0 /\ more[r].ts - more[t].ts <= job.op.window
      BY ONLY WindowIs
    <2>4. \A t : t \in Entity!Attr!InWindow(rows, r) <=>
                    /\ t \in 1..(r - 1) /\ IsTouch(rows, t)
                    /\ job.op.window > 0 /\ rows[r].ts - rows[t].ts <= job.op.window
      BY ONLY WindowIs
    <2>5. \A t : t \in Entity!Attr!InWindow(more, r) <=> t \in Entity!Attr!InWindow(rows, r)
      BY ONLY <2>1, <2>2, <2>3, <2>4
    <2> QED BY <2>5
  <1>4. ASSUME NEW r \in 1..n PROVE PartOf(more, r) = PartOf(rows, r)
    <2>1. HitsOf(rows, r) \in SUBSET (1..(r - 1)) /\ r - 1 \in Nat
      BY <1>1, <1>2, PartType
    <2>2. HitsOf(rows, r) \in SUBSET Nat
      BY <2>1
    <2>3. HitsOf(more, r) = HitsOf(rows, r)
      <3>1. \A t : t \in HitsOf(more, r) <=> t \in HitsOf(rows, r)
        <4>1. \A t \in Entity!Attr!InWindow(rows, r) : more[t] = rows[t]
          BY <1>2, WindowIs
        <4> QED BY <1>3, <4>1 DEF HitsOf
      <3> QED BY <3>1
    <2>4. PICK e, h : Enumerates(e, h, HitsOf(rows, r))
      BY <2>1, EnumerationExists
    <2>5. PairsOf(rows, r) = IF h = 0 THEN <<[pos |-> rows[r].pos, touch |-> Null]>>
                             ELSE [i \in 1..h |-> [pos |-> rows[r].pos, touch |-> rows[e[i]].pos]]
      BY <2>2, <2>4, PairsAre
    <2>6. PairsOf(more, r) = IF h = 0 THEN <<[pos |-> more[r].pos, touch |-> Null]>>
                             ELSE [i \in 1..h |-> [pos |-> more[r].pos, touch |-> more[e[i]].pos]]
      BY <2>2, <2>3, <2>4, PairsAre
    <2>7. \A i \in 1..h : more[e[i]] = rows[e[i]]
      BY <1>2, <2>1, <2>4 DEF Enumerates
    <2>8. PairsOf(more, r) = PairsOf(rows, r)
      <3>1. more[r].pos = rows[r].pos /\ \A i \in 1..h : more[e[i]].pos = rows[e[i]].pos
        BY <2>7
      <3>2. [i \in 1..h |-> [pos |-> more[r].pos, touch |-> more[e[i]].pos]]
                = [i \in 1..h |-> [pos |-> rows[r].pos, touch |-> rows[e[i]].pos]]
        BY <3>1
      <3>3. CASE h = 0
        BY <2>5, <2>6, <3>1, <3>3
      <3>4. CASE h # 0
        BY <2>5, <2>6, <3>2, <3>4
      <3> QED BY <3>3, <3>4
    <2> QED BY <2>8 DEF PartOf
  <1>5. \A r \in 1..n : r \in OverCap(more) <=> r \in OverCap(rows)
    BY <1>2, <1>3 DEF OverCap, IsTouch
  <1> QED BY <1>1, <1>4, <1>5

\* What the deque holds of rows it holds of more rows.
LEMMA HoldsStays ==
    ASSUME NEW rows, NEW more, NEW n \in Nat, \A r \in 1..n : more[r] = rows[r],
           NEW deque, Holds(deque, rows, Recent(rows, n))
    PROVE  Holds(deque, more, Recent(more, n))
  <1>1. Recent(more, n) = Recent(rows, n)
    <2>1. \A t \in 1..n : more[t] = rows[t] /\ more[n] = rows[n]
      OBVIOUS
    <2> QED BY <2>1 DEF Recent, IsTouch
  <1>2. PICK e, m : HoldsAs(deque, rows, Recent(rows, n), e, m)
    BY DEF Holds
  <1>3. \A i \in 1..m : more[e[i]] = rows[e[i]]
    BY <1>2 DEF HoldsAs, Enumerates, Recent
  <1>4. HoldsAs(deque, more, Recent(rows, n), e, m)
    BY <1>2, <1>3 DEF HoldsAs
  <1> QED BY <1>1, <1>4 DEF Holds

\* A touchpoint more in the deque.
LEMMA HoldsMore ==
    ASSUME NEW rows \in ChildRows, NEW p \in DOMAIN rows, rows[p].ts \in Int,
           NEW S \in SUBSET (1..(p - 1)), NEW deque, Holds(deque, rows, S)
    PROVE  Holds(Append(deque, [ts |-> rows[p].ts, pos |-> rows[p].pos]), rows, S \cup {p})
  <1>1. PICK e, m : HoldsAs(deque, rows, S, e, m)
    BY DEF Holds
  <1>2. /\ m \in Nat /\ (\A i \in 1..m : e[i] \in S)
        /\ (\A t \in S : \E i \in 1..m : e[i] = t)
        /\ (\A i, j \in 1..m : i < j => e[i] < e[j])
        /\ deque \in Seq(Touchpoint) /\ Len(deque) = m
        /\ \A i \in 1..m : deque[i] = [ts |-> rows[e[i]].ts, pos |-> rows[e[i]].pos]
    BY <1>1 DEF HoldsAs, Enumerates
  <1>3. p \in Nat /\ \A t \in S : t \in Nat /\ t < p
    BY LenProperties DEF ChildRows
  <1>4. PICK entry \in Touchpoint : entry = [ts |-> rows[p].ts, pos |-> rows[p].pos]
    <2>1. rows[p] \in Range(job.rows)
      BY LenProperties DEF ChildRows
    <2> QED BY <2>1 DEF Touchpoint
  <1>5. PICK d : d = [i \in 1..(m + 1) |-> IF i <= m THEN e[i] ELSE p]
    OBVIOUS
  <1>6. /\ m + 1 \in 1..(m + 1) /\ d[m + 1] = p
        /\ \A i \in 1..m : i \in 1..(m + 1) /\ d[i] = e[i]
        /\ \A i \in 1..(m + 1) : i \in 1..m \/ i = m + 1
    BY <1>2, <1>5
  <1>7. PICK long : long = Append(deque, entry)
    OBVIOUS
  <1>8. /\ long \in Seq(Touchpoint) /\ Len(long) = m + 1 /\ long[m + 1] = entry
        /\ \A i \in 1..m : long[i] = deque[i]
    BY <1>2, <1>7, AppendProperties
  <1>9. Enumerates(d, m + 1, S \cup {p})
    <2>1. \A i \in 1..(m + 1) : d[i] \in S \cup {p}
      BY <1>2, <1>6
    <2>2. \A t \in S \cup {p} : \E i \in 1..(m + 1) : d[i] = t
      BY <1>2, <1>6
    <2>3. ASSUME NEW i \in 1..(m + 1), NEW j \in 1..(m + 1), i < j PROVE d[i] < d[j]
      <3>1. i \in 1..m
        BY <1>2, <2>3
      <3>2. CASE j \in 1..m
        BY <1>2, <1>6, <2>3, <3>1, <3>2
      <3>3. CASE j = m + 1
        <4>1. d[i] = e[i] /\ d[j] = p /\ e[i] \in S
          BY <1>2, <1>6, <3>1, <3>3
        <4> QED BY <1>3, <4>1
      <3> QED BY <1>6, <3>2, <3>3
    <2>4. m + 1 \in Nat
      BY <1>2
    <2> QED BY <2>1, <2>2, <2>3, <2>4 DEF Enumerates
  <1>10. \A i \in 1..(m + 1) : long[i] = [ts |-> rows[d[i]].ts, pos |-> rows[d[i]].pos]
    <2> SUFFICES ASSUME NEW i \in 1..(m + 1)
                 PROVE  long[i] = [ts |-> rows[d[i]].ts, pos |-> rows[d[i]].pos]
      OBVIOUS
    <2>1. CASE i \in 1..m
      BY <1>2, <1>6, <1>8, <2>1
    <2>2. CASE i = m + 1
      BY <1>4, <1>6, <1>8, <2>2
    <2> QED BY <1>6, <2>1, <2>2
  <1>11. HoldsAs(long, rows, S \cup {p}, d, m + 1)
    BY <1>8, <1>9, <1>10 DEF HoldsAs
  <1> QED BY <1>4, <1>7, <1>11 DEF Holds

\* A row more is summarised.
LEMMA AttrRowSummarised ==
    ASSUME AttributeAtHand, NEW rows \in ChildRows, NEW more \in ChildRows, InTime(more),
           NEW n, n = Len(rows), Len(more) = n + 1, \A r \in 1..n : more[r] = rows[r],
           NEW row, row = more[n + 1],
           NEW st, AttrSummarises(st, rows), NEW next, next = Entity!Attr!Row(st, row)
    PROVE  AttrSummarises(next, more)
  <1>1. n = Len(rows)
    OBVIOUS
  <1>2. /\ n \in Nat /\ DOMAIN rows = 1..n /\ more \in ChildRows /\ Len(more) = n + 1
        /\ DOMAIN more = 1..(n + 1) /\ more[n + 1] = row /\ \A r \in 1..n : more[r] = rows[r]
    BY LenProperties DEF ChildRows
  <1>3. PICK p \in Nat : p = n + 1 /\ p - 1 = n
    BY <1>2
  <1>4. /\ \A r \in 1..n : PartOf(more, r) = PartOf(rows, r)
        /\ \A r \in 1..n : r \in OverCap(more) <=> r \in OverCap(rows)
    BY PartsStay
  <1>5. \A k \in 0..n : PartsUpTo(more, k) = PartsUpTo(rows, k)
    <2> SUFFICES ASSUME NEW k \in 0..n PROVE PartsUpTo(more, k) = PartsUpTo(rows, k)
      OBVIOUS
    <2>1. \A r \in 1..k : PartOf(more, r) = PartOf(rows, r)
      BY <1>2, <1>4
    <2> QED BY <2>1 DEF PartsUpTo
  <1>6. OverCap(rows) \subseteq 1..n /\ OverCap(more) \subseteq 1..(n + 1)
    BY <1>2 DEF OverCap
  <1>7. DOMAIN st = {"deque", "rows", "capped"} /\ st.rows = Entity!Attr!Attributions(rows)
    BY DEF AttrSummarises
  <1>8. CASE st.capped
    <2>1. next = st
      BY <1>8 DEF Entity!Attr!Row
    <2>2. OverCap(rows) # {}
      BY <1>8 DEF AttrSummarises
    <2>3. PICK m \in OverCap(rows) : \A k \in OverCap(rows) : m <= k
      BY <1>1, <2>2, KeptOf
    <2>4. m \in 1..n /\ m \in OverCap(more) /\ m \in 0..n
      BY <1>2, <1>4, <1>6, <2>3
    <2>5. \A k \in OverCap(more) : m <= k
      <3> SUFFICES ASSUME NEW k \in OverCap(more) PROVE m <= k
        OBVIOUS
      <3>1. k \in 1..n \/ k = n + 1
        BY <1>2, <1>6
      <3> QED BY <1>2, <1>4, <2>3, <2>4, <3>1
    <2>6. Entity!Attr!Kept(rows) = m /\ Entity!Attr!Kept(more) = m
      BY <1>1, <1>2, <2>3, <2>4, <2>5, KeptOf
    <2>7. Entity!Attr!Attributions(more) = Entity!Attr!Attributions(rows)
      BY <1>5, <2>4, <2>6, AttributionsAre
    <2> QED BY <1>7, <1>8, <2>1, <2>4, <2>7 DEF AttrSummarises
  <1>9. CASE ~st.capped
    <2>1. OverCap(rows) = {} /\ Holds(st.deque, rows, Recent(rows, n))
      BY <1>1, <1>9 DEF AttrSummarises
    <2>2. Holds(st.deque, more, Recent(more, n))
      BY <1>2, <2>1, HoldsStays
    <2> DEFINE W == Entity!Attr!InWindow(more, p)
               touch == IsTouch(more, p)
               full == Cardinality(W) >= job.op.cap
    <2>3. PICK deque : deque = Entity!Attr!Pruned(st.deque, row.ts)
      OBVIOUS
    <2>4. Holds(deque, more, W)
      <3>1. Holds(Entity!Attr!Pruned(st.deque, more[n + 1].ts), more, Entity!Attr!InWindow(more, n + 1))
        <4>1. n + 1 \in DOMAIN more
          BY <1>2
        <4> QED BY <1>2, <2>2, <4>1, PrunedHolds
      <3> QED BY <1>2, <1>3, <2>3, <3>1
    <2>5. W \in SUBSET (1..n) /\ W \in SUBSET (1..(p - 1)) /\ W \in SUBSET Nat
      BY <1>3, WindowIs
    <2>6. p \in DOMAIN more /\ more[p] = row /\ p \notin 1..n
      BY <1>2, <1>3
    <2> HIDE DEF W
    <2>7. Len(deque) = Cardinality(W)
      BY <2>4, <2>5, EnumerationCounts DEF Holds, HoldsAs
    <2>8. touch <=> row.type \in job.op.touchpoints
      BY <2>6 DEF IsTouch
    <2>9. PICK part : part = PartOf(more, p)
      OBVIOUS
    <2>10. part = IF Entity!Attr!IsConversion(row) THEN Entity!Attr!EmitConversion(deque, row) ELSE <<>>
      <3>1. Entity!Attr!EmitConversion(deque, more[p]) = PairsOf(more, p)
        BY <2>4, <2>6, EmittedIs DEF W
      <3> QED BY <2>6, <2>9, <3>1 DEF PartOf
    <2> HIDE DEF touch
    <2>11. /\ DOMAIN next = {"deque", "rows", "capped"} /\ next.rows = st.rows \o part
           /\ touch /\ full => next.capped
           /\ ~(touch /\ full) => ~next.capped
           /\ ~touch => next.deque = deque
           /\ touch /\ ~full => next.deque = Append(deque, [ts |-> row.ts, pos |-> row.pos])
      <3> DEFINE emitted == [st EXCEPT !.deque = deque, !.rows = @ \o part]
      <3>1. next = IF ~touch THEN emitted
                   ELSE IF full THEN [emitted EXCEPT !.capped = TRUE, !.deque = <<>>]
                   ELSE [emitted EXCEPT !.deque = Append(deque, [ts |-> row.ts, pos |-> row.pos])]
        BY <1>9, <2>3, <2>7, <2>8, <2>10 DEF Entity!Attr!Row
      <3>2. DOMAIN emitted = {"deque", "rows", "capped"} /\ emitted.rows = st.rows \o part
            /\ emitted.deque = deque /\ emitted.capped = st.capped
        BY <1>7
      <3> HIDE DEF emitted, full
      <3> QED BY <1>9, <3>1, <3>2
    <2>12. Entity!Attr!Kept(more) = p /\ (OverCap(more) = {} <=> ~(touch /\ full))
      <3>1. p \in OverCap(more) <=> touch /\ full
        BY <2>6 DEF OverCap, W, touch
      <3> HIDE DEF full
      <3>2. \A k \in OverCap(more) : k = p
        BY <1>3, <1>4, <1>6, <2>1
      <3>3. CASE touch /\ full
        <4>1. p \in OverCap(more) /\ \A k \in OverCap(more) : p <= k
          BY <3>1, <3>2, <3>3
        <4> QED BY <1>2, <1>3, <3>3, <4>1, KeptOf
      <3>4. CASE ~(touch /\ full)
        <4>1. OverCap(more) = {}
          BY <3>1, <3>2, <3>4
        <4> QED BY <1>2, <1>3, <3>4, <4>1, KeptOf
      <3> QED BY <3>3, <3>4
    <2>13. next.rows = Entity!Attr!Attributions(more)
      <3>1. Entity!Attr!Kept(rows) = n /\ n \in 0..n
        BY <1>1, <1>2, <2>1, KeptOf
      <3>2. st.rows = Entity!Attr!FlattenSeq(PartsUpTo(more, n))
        BY <1>5, <1>7, <3>1, AttributionsAre
      <3>3. Entity!Attr!FlattenSeq(PartsUpTo(more, n + 1)) =
                Entity!Attr!FlattenSeq(PartsUpTo(more, n)) \o PartOf(more, n + 1)
        <4>1. n + 1 \in DOMAIN more
          BY <1>2
        <4> QED BY <1>2, <4>1, PartsNext
      <3>4. Entity!Attr!Attributions(more) = Entity!Attr!FlattenSeq(PartsUpTo(more, p))
        BY <2>12, AttributionsAre
      <3> QED BY <1>3, <2>9, <2>11, <3>2, <3>3, <3>4
    <2>14. CASE touch /\ full
      BY <2>11, <2>12, <2>13, <2>14 DEF AttrSummarises
    <2>15. CASE ~(touch /\ full)
      <3>1. Len(more) = p
        BY <1>2, <1>3
      <3>2. \A t \in 1..p : t \in 1..n \/ t = p
        BY <1>3
      <3>3. \A t \in 1..n : t \in 1..p /\ t # p
        BY <1>3
      <3>4. \A t : t \in W <=>
                /\ t \in 1..n /\ IsTouch(more, t)
                /\ job.op.window > 0 /\ more[p].ts - more[t].ts <= job.op.window
        BY <1>3, WindowIs DEF W
      <3>5. Recent(more, p) = IF touch THEN W \cup {p} ELSE W
        <4>1. /\ \A t : t \in Recent(more, p) => t \in 1..p
              /\ \A t \in 1..p : t \in Recent(more, p) <=>
                    /\ IsTouch(more, t)
                    /\ t = p \/ (job.op.window > 0 /\ more[p].ts - more[t].ts <= job.op.window)
          BY DEF Recent
        <4>2. p \in 1..p /\ (touch <=> IsTouch(more, p))
          BY <1>3 DEF touch
        <4>3. p \in Recent(more, p) <=> touch
          BY <4>1, <4>2
        <4>4. \A t \in 1..n : t \in Recent(more, p) <=> t \in W
          BY <3>3, <3>4, <4>1
        <4>5. \A t : t \in W => t \in 1..n
          BY <2>5
        <4>6. \A t : t \in Recent(more, p) <=> t \in W \/ (t = p /\ touch)
          BY <2>6, <3>2, <4>1, <4>3, <4>4, <4>5
        <4> QED BY <4>6
      <3>6. CASE ~touch
        <4>1. Holds(next.deque, more, Recent(more, p))
          BY <2>4, <2>11, <3>5, <3>6
        <4> QED BY <2>11, <2>12, <2>13, <2>15, <3>1, <4>1 DEF AttrSummarises
      <3>7. CASE touch
        <4>1. more[p].ts \in Int
          BY <2>6 DEF InTime
        <4>2. Holds(Append(deque, [ts |-> row.ts, pos |-> row.pos]), more, W \cup {p})
          BY <1>2, <2>4, <2>5, <2>6, <4>1, HoldsMore
        <4>3. next.deque = Append(deque, [ts |-> row.ts, pos |-> row.pos])
          BY <2>11, <2>15, <3>7
        <4>4. Holds(next.deque, more, Recent(more, p))
          BY <3>5, <3>7, <4>2, <4>3
        <4> QED BY <2>11, <2>12, <2>13, <2>15, <3>1, <4>4 DEF AttrSummarises
      <3> QED BY <3>6, <3>7
    <2> QED BY <2>14, <2>15
  <1> QED BY <1>8, <1>9

\* The rows of an entity come in the order of time.
LEMMA SliceInTime ==
    ASSUME EntityJobOK, NEW a \in 1..Len(job.rows), NEW c \in 1..Len(job.rows), a <= c, OneEntity(a, c)
    PROVE  InTime(Slice(a, c))
  <1>1. PICK N \in Nat : N = Len(job.rows) /\ DOMAIN job.rows = 1..N
    BY RowFacts
  <1>2. PICK rows \in ChildRows :
            /\ rows = Slice(a, c) /\ Len(rows) = c - a + 1 /\ DOMAIN rows = 1..(c - a + 1)
            /\ \A i \in 1..(c - a + 1) : rows[i] = job.rows[a + i - 1]
    <2>1. /\ Slice(a, c) \in Seq(Range(job.rows)) /\ Len(Slice(a, c)) = c - a + 1
          /\ \A i \in 1..(c - a + 1) : Slice(a, c)[i] = job.rows[a + i - 1]
      BY RowFacts
    <2> QED BY <2>1, LenProperties DEF ChildRows
  <1>3. \A i \in 1..(c - a + 1) : a + i - 1 \in 1..N /\ a + i - 1 \in a..c
    BY <1>1
  <1>4. \A i \in 1..(c - a + 1) : rows[i].ts \in Int
    BY <1>1, <1>2, <1>3 DEF EntityJobOK
  <1>5. ASSUME NEW i \in 1..(c - a + 1), NEW j \in 1..(c - a + 1), i <= j PROVE rows[i].ts <= rows[j].ts
    <2>1. PICK r \in 1..N : r = a + i - 1 /\ r \in a..c
      BY <1>3
    <2>2. PICK s \in 1..N : s = a + j - 1 /\ s \in a..c
      BY <1>3
    <2>3. r <= s
      BY <1>1, <1>5, <2>1, <2>2
    <2>4. job.rows[r].entity = job.rows[s].entity
      BY <2>1, <2>2 DEF OneEntity
    <2>5. job.rows[r].ts <= job.rows[s].ts
      BY <1>1, <2>3, <2>4 DEF EntityJobOK, Entity!OrderedByTime
    <2> QED BY <1>2, <2>1, <2>2, <2>5
  <1> QED BY <1>2, <1>4, <1>5 DEF InTime

\* ATTRIBUTE's output is a sequence.
LEMMA AttributionsType ==
    ASSUME NEW rows \in ChildRows
    PROVE  Entity!Attr!Attributions(rows) \in Seq(PairRow)
  <1>1. PICK n \in Nat : n = Len(rows) /\ DOMAIN rows = 1..n
    BY LenProperties DEF ChildRows
  <1>2. Entity!Attr!Kept(rows) \in 0..n
    <2>1. OverCap(rows) \subseteq 1..n
      BY <1>1 DEF OverCap
    <2>2. CASE OverCap(rows) = {}
      BY <1>1, <2>2, KeptOf
    <2>3. CASE OverCap(rows) # {}
      <3>1. PICK m \in OverCap(rows) : \A k \in OverCap(rows) : m <= k
        BY <1>1, <2>3, KeptOf
      <3>2. Entity!Attr!Kept(rows) = m
        BY <1>1, <3>1, KeptOf
      <3> QED BY <2>1, <3>2
    <2> QED BY <2>2, <2>3
  <1>3. PICK k \in 0..n : k = Entity!Attr!Kept(rows)
    BY <1>2
  <1>4. \A r \in 1..k : PartOf(rows, r) \in Seq(PairRow)
    <2>1. \A r \in 1..k : r \in DOMAIN rows
      BY <1>1
    <2> QED BY <2>1, PartType
  <1>5. PICK s \in Seq(Seq(PairRow)) : s = PartsUpTo(rows, k)
    <2>1. PartsUpTo(rows, k) \in [1..k -> Seq(PairRow)]
      BY <1>4 DEF PartsUpTo
    <2> QED BY <2>1
  <1>6. \A q : Entity!Attr!FlattenSeq(q) = FlattenSeq(q)
    BY DEF Entity!Attr!FlattenSeq, FlattenSeq
  <1>7. FlattenSeq(s) \in Seq(PairRow)
    BY EmptySeq, FlattenAppend
  <1> QED BY <1>3, <1>5, <1>6, <1>7, AttributionsAre

\* The rows of a sub-batch are taken one by one.
LEMMA AttrBatchSummarised ==
    ASSUME AttributeAtHand, NEW a \in 1..Len(job.rows), NEW c \in 1..Len(job.rows), a <= c,
           NEW b \in (a - 1)..(c - 1), EntityJobOK, OneEntity(a, c),
           NEW st, AttrSummarises(st, Slice(a, b)),
           NEW next, next = Entity!Attr!ProcessSubBatch(st, Slice(b + 1, c))
    PROVE  AttrSummarises(next, Slice(a, c))
  <1>1. PICK N \in Nat : N = Len(job.rows) /\ DOMAIN job.rows = 1..N
    BY RowFacts
  <1>2. /\ a \in 1..N /\ c \in 1..N /\ b + 1 \in 1..N /\ b + 1 <= c /\ b \in Int
        /\ c - b \in Nat /\ c - (b + 1) + 1 = c - b /\ b + (c - b) = c /\ b + 0 = b
    BY <1>1
  <1>3. PICK batch : batch = Slice(b + 1, c)
    OBVIOUS
  <1>4. /\ batch \in ChildRows /\ Len(batch) = c - b /\ DOMAIN batch = 1..(c - b)
        /\ \A i \in 1..(c - b) : batch[i] = job.rows[b + 1 + i - 1]
    <2>1. b + 1 \in 1..Len(job.rows) /\ c \in 1..Len(job.rows) /\ b + 1 <= c
      BY <1>1, <1>2
    <2>2. /\ Slice(b + 1, c) \in Seq(Range(job.rows)) /\ Len(Slice(b + 1, c)) = c - (b + 1) + 1
          /\ \A i \in 1..(c - (b + 1) + 1) : Slice(b + 1, c)[i] = job.rows[b + 1 + i - 1]
      BY <2>1, RowFacts
    <2> QED BY <1>2, <1>3, <2>2, LenProperties DEF ChildRows
  <1>5. PICK m \in Nat : m = c - b
    BY <1>2
  <1>6. PICK g : /\ g[0] = st
                 /\ \A k \in 0..(m - 1) : g[k + 1] = Entity!Attr!Row(g[k], batch[k + 1])
                 /\ Entity!Attr!ProcessSubBatch(st, batch) = g[m]
    <2>1. DOMAIN batch = 1..m
      BY <1>4, <1>5
    <2>2. m \in Nat
      OBVIOUS
    <2>3. \E g : TakesRows(g, st, batch, m) /\ Entity!Attr!ProcessSubBatch(st, batch) = g[m]
      BY ONLY <2>1, <2>2, AttributeSteps
    <2> QED BY <2>3 DEF TakesRows
  <1> DEFINE Good == {k \in 0..m : AttrSummarises(g[k], Slice(a, b + k))}
  <1>7. ASSUME NEW k \in 0..(m - 1), AttrSummarises(g[k], Slice(a, b + k))
        PROVE  AttrSummarises(g[k + 1], Slice(a, b + (k + 1)))
    <2>1. PICK r \in 1..N : r = b + (k + 1) /\ r - 1 = b + k /\ a <= r /\ r <= c /\ b + 1 + (k + 1) - 1 = r
      <3>1. /\ b + (k + 1) \in 1..N /\ b + (k + 1) - 1 = b + k /\ a <= b + (k + 1) /\ b + (k + 1) <= c
            /\ b + 1 + (k + 1) - 1 = b + (k + 1)
        BY <1>1, <1>2, <1>5
      <3> QED BY <3>1
    <2>2. k + 1 \in 1..m /\ batch[k + 1] = job.rows[r] /\ job.rows[r] \in Range(job.rows)
      <3>1. k + 1 \in 1..m
        BY <1>5
      <3> QED BY <1>1, <1>4, <1>5, <2>1, <3>1 DEF Range
    <2>3. g[k + 1] = Entity!Attr!Row(g[k], job.rows[r])
      BY <1>6, <2>2
    <2>4. Slice(a, r - 1) \in Seq(Range(job.rows)) /\ Slice(a, r) = Append(Slice(a, r - 1), job.rows[r])
      BY <1>1, <1>2, <2>1, SliceNext
    <2>5. PICK rows \in ChildRows : rows = Slice(a, r - 1)
      BY <2>4 DEF ChildRows
    <2>6. PICK more : more = Slice(a, r)
      OBVIOUS
    <2>7. PICK n : n = Len(rows)
      OBVIOUS
    <2>8. more \in ChildRows /\ Len(more) = n + 1 /\ more[n + 1] = job.rows[r]
          /\ \A i \in 1..n : more[i] = rows[i]
      <3>1. rows \in ChildRows /\ job.rows[r] \in Range(job.rows) /\ more = Append(rows, job.rows[r])
        BY <2>2, <2>4, <2>5, <2>6
      <3> QED BY ONLY <2>7, <3>1, AppendProperties, LenProperties DEF ChildRows
    <2>9. InTime(more)
      <3>1. OneEntity(a, r) /\ a \in 1..Len(job.rows) /\ r \in 1..Len(job.rows)
        BY <1>1, <1>2, <2>1 DEF OneEntity
      <3> QED BY <2>1, <2>6, <3>1, SliceInTime
    <2>10. AttrSummarises(g[k], rows)
      BY <1>7, <2>1, <2>5
    <2>11. AttrSummarises(g[k + 1], more)
      <3>1. AttributeAtHand /\ rows \in ChildRows
        BY <2>5
      <3> QED BY ONLY <2>3, <2>7, <2>8, <2>9, <2>10, <3>1, AttrRowSummarised
    <2> QED BY <2>1, <2>6, <2>11
  <1>8. 0 \in Good /\ \A k \in 0..(m - 1) : k \in Good => k + 1 \in Good
    BY <1>2, <1>6, <1>7
  <1>9. AttrSummarises(g[m], Slice(a, c))
    <2>1. 0..m \subseteq Good
      <3> HIDE DEF Good
      <3> QED BY <1>8, UpTo
    <2> QED BY <1>2, <1>5, <2>1
  <1> QED BY <1>3, <1>6, <1>9

\* ATTRIBUTE gives what is promised of an entity operator.
LEMMA AttributeCorrect == ASSUME EntityJobOK, job.operator = "attribute" PROVE OperatorCorrect
  <1>1. PICK N \in Nat : N = Len(job.rows) /\ DOMAIN job.rows = 1..N
    BY RowFacts
  <1>2. AttributeAtHand
    BY DEF EntityJobOK, Entity!Parameters, AttributeAtHand
  <1>3. \A st, rows : Summarises(st, rows) <=> AttrSummarises(st, rows)
    BY DEF Summarises
  <1>4. \A rows : ResultOf(rows) = Entity!Attr!Attributions(rows)
    BY DEF ResultOf
  <1>5. \A a, b \in 1..N : a <= b => Slice(a, b) \in ChildRows
    BY <1>1, RowFacts DEF ChildRows
  <1>6. ResultsAreSequences
    <2> SUFFICES ASSUME NEW a \in 1..N, NEW b \in 1..N, a <= b, NEW rows \in ChildRows, rows = Slice(a, b)
                 PROVE  Entity!Attr!Attributions(rows) \in Seq(Range(Entity!Attr!Attributions(rows)))
      BY <1>1, <1>4, <1>5 DEF ResultsAreSequences
    <2>1. PICK s \in Seq(PairRow) : s = Entity!Attr!Attributions(rows)
      BY AttributionsType
    <2>2. s \in Seq(Range(s))
      <3>1. Len(s) \in Nat /\ DOMAIN s = 1..Len(s) /\ s = [i \in 1..Len(s) |-> s[i]]
        BY LenProperties
      <3>2. \A i \in 1..Len(s) : s[i] \in Range(s)
        BY <3>1 DEF Range
      <3> QED BY <3>1, <3>2
    <2> QED BY <2>1, <2>2
  <1>7. CreateSummarises
    <2> SUFFICES ASSUME NEW a \in 1..N PROVE AttrSummarises(Entity!CreateState, Slice(a, a - 1))
      BY <1>1, <1>3 DEF CreateSummarises
    <2>1. Slice(a, a - 1) = <<>> /\ Len(<<>>) = 0 /\ DOMAIN <<>> = {} /\ <<>> \in ChildRows
      BY <1>1, SubSeqEmpty DEF Slice, ChildRows
    <2>2. Entity!CreateState = [deque |-> <<>>, rows |-> <<>>, capped |-> FALSE]
      BY DEF Entity!CreateState, Entity!Attr!CreateState
    <2>3. OverCap(<<>>) = {}
      BY <2>1 DEF OverCap
    <2>4. Holds(<<>>, <<>>, Recent(<<>>, 0))
      <3>1. Recent(<<>>, 0) = {}
        BY DEF Recent
      <3>2. HoldsAs(<<>>, <<>>, {}, <<>>, 0)
        BY DEF HoldsAs, Enumerates
      <3> QED BY <3>1, <3>2 DEF Holds
    <2>5. Entity!Attr!Attributions(<<>>) = <<>>
      <3>1. Entity!Attr!Kept(<<>>) = 0
        BY <2>1, <2>3, KeptOf
      <3>2. PartsUpTo(<<>>, 0) = <<>>
        BY DEF PartsUpTo
      <3>3. Entity!Attr!FlattenSeq(<<>>) = <<>>
        BY DEF Entity!Attr!FlattenSeq
      <3> QED BY <3>1, <3>2, <3>3, AttributionsAre
    <2> QED BY <2>1, <2>2, <2>3, <2>4, <2>5 DEF AttrSummarises
  <1>8. SubBatchSummarised
    <2> SUFFICES ASSUME NEW st, NEW a \in 1..N, NEW c \in 1..N, NEW b \in (a - 1)..(c - 1), a <= c,
                        OneEntity(a, c), AttrSummarises(st, Slice(a, b)),
                        NEW next, next = Entity!ProcessSubBatch(st, Slice(b + 1, c))
                 PROVE  AttrSummarises(next, Slice(a, c))
      BY <1>1, <1>3 DEF SubBatchSummarised
    <2>1. next = Entity!Attr!ProcessSubBatch(st, Slice(b + 1, c))
      BY DEF Entity!ProcessSubBatch
    <2> QED BY <1>1, <1>2, <2>1, AttrBatchSummarised
  <1>9. FinishReturnsResult
    <2> SUFFICES ASSUME NEW st, NEW a \in 1..N, NEW b \in 1..N, a <= b,
                        AttrSummarises(st, Slice(a, b))
                 PROVE  Entity!FinishEntity(st) = Entity!Attr!Attributions(Slice(a, b))
      BY <1>1, <1>3, <1>4 DEF FinishReturnsResult
    <2> QED BY DEF Entity!FinishEntity, Entity!Attr!FinishEntity, AttrSummarises
  <1> QED BY <1>6, <1>7, <1>8, <1>9 DEF OperatorCorrect

-----------------------------------------------------------------------------
(* The adapter's invariant *)

\* While rows are to come, the rows seen are summarised; after them the output is
\* complete.
AdapterInv ==
    /\ EntityJobOK
    /\ Claimed =>
        IF state.exhausted THEN out = FlatUpTo(Len(job.rows))
        ELSE /\ DOMAIN state = {"next", "entity", "st", "exhausted"}
             /\ state.next \in 1..(Len(job.rows) + 1)
             /\ Reached([entity |-> state.entity, st |-> state.st, out |-> out], state.next - 1)

\* The operators claimed keep their promises.
LEMMA ClaimedCorrect == EntityJobOK /\ Claimed => OperatorCorrect
  BY EventSelectCorrect, SessionizeCorrect, AttributeCorrect DEF Claimed

\* What is said of a job stays said of it.
LEMMA SameJob ==
    ASSUME job' = job
    PROVE  /\ EntityJobOK' <=> EntityJobOK
           /\ Claimed' <=> Claimed
           /\ \A k : FlatUpTo(k)' = FlatUpTo(k)
           /\ \A acc, e : Reached(acc, e)' <=> Reached(acc, e)
  <1>1. EntityJobOK' <=> EntityJobOK
    BY DEF EntityJobOK, Entity!Parameters, Entity!GroupedByEntity, Entity!OrderedByTime
  <1>2. Claimed' <=> Claimed
    BY DEF Claimed
  <1>3. \A rows : Entity!Sess!Sessions(rows)' = Entity!Sess!Sessions(rows)
    BY DEF Entity!Sess!Sessions, Entity!Sess!EndsSession, Entity!Sess!SessionStart, Entity!Sess!Kept
  <1>4. \A rows : Entity!Sel!Selected(rows)' = Entity!Sel!Selected(rows)
    BY DEF Entity!Sel!Selected, Entity!Sel!Qualifying, Entity!Sel!Place, Entity!Sel!Wanted,
           Entity!Sel!Qualifies
  <1>5. \A rows : Entity!Attr!Attributions(rows)' = Entity!Attr!Attributions(rows)
    BY DEF Entity!Attr!Attributions, Entity!Attr!InWindow, Entity!Attr!Kept, Entity!Attr!IsConversion
  <1>6. \A rows : ResultOf(rows)' = ResultOf(rows)
    BY <1>3, <1>4, <1>5 DEF ResultOf
  <1>7. Parts' = Parts
    BY <1>6 DEF Parts, Begins, Entity!EntityRows
  <1>8. \A k : FlatUpTo(k)' = FlatUpTo(k)
    BY <1>7 DEF FlatUpTo
  <1>9. \A st, rows : Summarises(st, rows)' <=> Summarises(st, rows)
    <2>1. \A st, rows : SelSummarises(st, rows)' <=> SelSummarises(st, rows)
      BY DEF SelSummarises, Entity!Sel!Qualifying, Entity!Sel!Place, Entity!Sel!Wanted,
             Entity!Sel!Qualifies, Chosen
    <2>2. \A st, held, rows : SessSummarisesWith(st, held, rows)' <=> SessSummarisesWith(st, held, rows)
      <3>1. \A rows, s : Ends(rows, s)' <=> Ends(rows, s)
        BY DEF Ends, Entity!Sess!EndsSession
      <3>2. \A rows : Over(rows)' = Over(rows)
        BY DEF Over, Entity!Sess!EndsSession, Entity!Sess!SessionStart
      <3>3. \A rows, r : Number(rows, r)' = Number(rows, r)
        BY <3>1 DEF Number
      <3>4. \A rows, r, b : IsSessionStart(rows, r, b)' <=> IsSessionStart(rows, r, b)
        BY <3>1 DEF IsSessionStart
      <3>5. \A rows, r, e, m : IsSessionEnd(rows, r, e, m)' <=> IsSessionEnd(rows, r, e, m)
        BY <3>1 DEF IsSessionEnd
      <3>6. \A rows, r, m, entry : Annotated(rows, r, m, entry)' <=> Annotated(rows, r, m, entry)
        BY <3>3, <3>4, <3>5 DEF Annotated
      <3>7. ChildRows' = ChildRows /\ SessionRow' = SessionRow
        BY DEF ChildRows, SessionRow
      <3>8. \A completed, rows, m :
                AnnotatedUpTo(completed, rows, m)' <=> AnnotatedUpTo(completed, rows, m)
        BY <3>6, <3>7 DEF AnnotatedUpTo
      <3>9. \A st, held, rows, n, f :
                OpenFrom(st, held, rows, n, f)' <=> OpenFrom(st, held, rows, n, f)
        BY <3>1, <3>3, <3>7, <3>8 DEF OpenFrom
      <3> QED BY <1>3, <3>1, <3>2, <3>7, <3>9 DEF SessSummarisesWith
    <2>3. \A st, rows : AttrSummarises(st, rows)' <=> AttrSummarises(st, rows)
      <3>1. \A rows, r : Entity!Attr!InWindow(rows, r)' = Entity!Attr!InWindow(rows, r)
        BY DEF Entity!Attr!InWindow
      <3>2. \A rows, t : IsTouch(rows, t)' <=> IsTouch(rows, t)
        BY DEF IsTouch
      <3>3. \A rows : OverCap(rows)' = OverCap(rows)
        BY <3>1, <3>2 DEF OverCap
      <3>4. \A rows, n : Recent(rows, n)' = Recent(rows, n)
        BY <3>2 DEF Recent
      <3>5. Touchpoint' = Touchpoint
        BY DEF Touchpoint
      <3>6. \A deque, rows, S : Holds(deque, rows, S)' <=> Holds(deque, rows, S)
        BY <3>5 DEF Holds, HoldsAs, Enumerates
      <3> QED BY <1>5, <3>3, <3>4, <3>6 DEF AttrSummarises
    <2> QED BY <2>1, <2>2, <2>3 DEF Summarises
  <1>10. \A acc, e : Reached(acc, e)' <=> Reached(acc, e)
    BY <1>8, <1>9 DEF Reached, Begins, OneEntity, Slice
  <1> QED BY <1>1, <1>2, <1>8, <1>10

\* The adapter's steps keep the invariant.
LEMMA AdapterInductive == AdapterInv /\ (Entity!Next \/ UNCHANGED Entity!vars) => AdapterInv'
  <1> SUFFICES ASSUME AdapterInv, Entity!Next \/ UNCHANGED Entity!vars PROVE AdapterInv'
    OBVIOUS
  <1>1. job' = job
    BY DEF Entity!Next, Entity!ProcessChildBatch, Entity!ChildExhausted, Entity!vars
  <1>2. EntityJobOK /\ EntityJobOK' /\ (Claimed' <=> Claimed)
    BY <1>1, SameJob DEF AdapterInv
  <1>3. SUFFICES ASSUME Claimed
                 PROVE  IF state'.exhausted THEN out' = FlatUpTo(Len(job.rows))
                        ELSE /\ DOMAIN state' = {"next", "entity", "st", "exhausted"}
                             /\ state'.next \in 1..(Len(job.rows) + 1)
                             /\ Reached([entity |-> state'.entity, st |-> state'.st, out |-> out'],
                                        state'.next - 1)
    BY <1>1, <1>2, SameJob DEF AdapterInv
  <1>4. OperatorCorrect /\ ResultsAreSequences
    BY <1>2, <1>3, ClaimedCorrect DEF OperatorCorrect
  <1>5. PICK N \in Nat : N = Len(job.rows) /\ DOMAIN job.rows = 1..N
    BY <1>2, RowFacts
  <1>6. CASE UNCHANGED Entity!vars
    BY <1>3, <1>6 DEF AdapterInv, Entity!vars
  <1>7. ASSUME ~state.exhausted
        PROVE  /\ DOMAIN state = {"next", "entity", "st", "exhausted"}
               /\ state.next \in 1..(N + 1)
               /\ Reached([entity |-> state.entity, st |-> state.st, out |-> out], state.next - 1)
    BY <1>3, <1>5, <1>7 DEF AdapterInv
  <1>8. ASSUME NEW n \in 1..Len(job.rows), Entity!ProcessChildBatch(n)
        PROVE  /\ ~state'.exhausted
               /\ DOMAIN state' = {"next", "entity", "st", "exhausted"}
               /\ state'.next \in 1..(N + 1)
               /\ Reached([entity |-> state'.entity, st |-> state'.st, out |-> out'], state'.next - 1)
    <2>1. ~state.exhausted /\ state.next + n - 1 <= N /\ n \in Nat /\ n # 0
      <3>1. ~state.exhausted /\ state.next + n - 1 <= Len(job.rows)
        BY <1>8, Zenon DEF Entity!ProcessChildBatch
      <3>2. n \in Nat /\ n # 0
        BY <1>5
      <3> QED BY <1>5, <3>1, <3>2
    <2> DEFINE first == state.next
               last == first + n - 1
    <2>2. first \in 1..Len(job.rows) /\ last <= Len(job.rows) /\ first \in Nat
      BY <1>5, <1>7, <2>1
    <2>3. PICK g : /\ g[0] = [entity |-> state.entity, st |-> state.st, out |-> out]
                   /\ \A k \in 0..(n - 1) :
                        g[k + 1] = Entity!ProcessFrom(g[k], first + (k + 1) - 1, first, last)
                   /\ state' = [state EXCEPT !.next = @ + n, !.entity = g[n].entity, !.st = g[n].st]
                   /\ out' = g[n].out
      BY <1>8, <2>1, RunFold
    <2>4. Reached(g[0], first - 1)
      BY <1>7, <2>1, <2>3
    <2> HIDE DEF first, last
    <2>5. Reached(g[n], first + n - 1)
      BY <1>2, <1>4, <2>1, <2>2, <2>3, <2>4, BatchReached DEF last
    <2>6. Reached([entity |-> g[n].entity, st |-> g[n].st, out |-> g[n].out], first + n - 1)
      BY <2>5 DEF Reached
    <2>7. /\ ~state'.exhausted /\ state'.next = first + n
          /\ state'.entity = g[n].entity /\ state'.st = g[n].st
          /\ DOMAIN state' = {"next", "entity", "st", "exhausted"}
      <3>1. PICK e, t : e = g[n].entity /\ t = g[n].st
        OBVIOUS
      <3>2. state' = [state EXCEPT !.next = @ + n, !.entity = e, !.st = t]
        BY <2>3, <3>1
      <3>3. DOMAIN state = {"next", "entity", "st", "exhausted"} /\ ~state.exhausted
        BY <1>7, <2>1
      <3> QED BY <3>1, <3>2, <3>3 DEF first
    <2>8. first + n \in 1..(N + 1) /\ first + n - 1 = (first + n) - 1
      BY <1>5, <2>1, <2>2 DEF last
    <2>9. Reached([entity |-> state'.entity, st |-> state'.st, out |-> out'], state'.next - 1)
      BY <2>3, <2>6, <2>7, <2>8
    <2> QED BY <2>7, <2>8, <2>9
  <1>9. ASSUME Entity!ChildExhausted PROVE state'.exhausted /\ out' = FlatUpTo(N)
    <2>1. ~state.exhausted /\ state.next > N
      BY <1>5, <1>9 DEF Entity!ChildExhausted
    <2>2. state.next - 1 = N
      BY <1>7, <2>1
    <2>3. /\ state'.exhausted
          /\ out' = out \o IF state.entity = Null THEN <<>> ELSE Entity!FinishEntity(state.st)
      BY <1>7, <1>9, <2>1 DEF Entity!ChildExhausted
    <2>4. CASE N = 0
      <3>1. state.entity = Null /\ out = <<>>
        BY <1>7, <2>1, <2>2, <2>4 DEF Reached
      <3>2. FlatUpTo(0) = <<>> /\ FlatUpTo(0) \o <<>> = FlatUpTo(0)
        BY <1>2, <1>4, <1>5, <2>4, FlatSteps
      <3> QED BY <2>3, <2>4, <3>1, <3>2
    <2>5. CASE N # 0
      <3>1. state.entity = job.rows[N].entity
        BY <1>7, <2>1, <2>2, <2>5 DEF Reached
      <3>2. PICK a \in 1..N : /\ Begins(a) /\ OneEntity(a, N)
                              /\ out = FlatUpTo(a - 1)
                              /\ Summarises(state.st, Slice(a, N))
        BY <1>7, <2>1, <2>2, <2>5 DEF Reached
      <3>3. /\ N \in 1..Len(job.rows) /\ a \in 1..Len(job.rows) /\ N \in a..Len(job.rows) /\ a <= N
            /\ a - 1 \in 0..(Len(job.rows) - 1) /\ a - 1 + 1 = a
        BY <1>5, <2>5
      <3>4. state.entity # Null
        BY <1>2, <3>1, <3>3 DEF EntityJobOK
      <3>5. Entity!FinishEntity(state.st) = ResultOf(Slice(a, N))
        BY <1>4, <3>2, <3>3 DEF OperatorCorrect, FinishReturnsResult
      <3>6. Entity!EntityRows(a) = Slice(a, N)
        BY <1>2, <1>5, <3>2, <3>3, EntityRowsAre
      <3>7. Parts[a] = ResultOf(Slice(a, N))
        BY <1>5, <3>2, <3>6 DEF Parts
      <3>8. FlatUpTo(a) = FlatUpTo(a - 1) \o Parts[a]
        BY <1>2, <1>4, <3>3, FlatSteps
      <3>9. FlatUpTo(N) = FlatUpTo(a)
        BY <1>2, <1>4, <3>2, <3>3, SameFlat
      <3> QED BY <2>3, <3>2, <3>4, <3>5, <3>7, <3>8, <3>9
    <2> QED BY <2>4, <2>5
  <1> QED BY <1>5, <1>6, <1>8, <1>9 DEF Entity!Next

\* The adapter begins with no entity.
LEMMA AdapterInitially == Entity!EntityInputs /\ Entity!Init => AdapterInv
  <1> SUFFICES ASSUME Entity!EntityInputs, Entity!Init PROVE AdapterInv
    OBVIOUS
  <1>1. \A f : Entity!Range(f) = Range(f)
    BY DEF Entity!Range, Range
  <1>2. job \in EntityJobs /\ state = [next |-> 1, entity |-> Null, st |-> Null, exhausted |-> FALSE]
        /\ out = <<>>
    BY DEF Entity!Init
  <1>3. /\ Null \notin Int
        /\ job.operator \in {"sessionize", "event_select", "attribute"} /\ Entity!Parameters(job)
        /\ job.rows \in Seq(Range(job.rows))
        /\ \A row \in Range(job.rows) : row.entity # Null /\ row.pos # Null /\ row.ts \in Int
        /\ Entity!GroupedByEntity(job.rows) /\ Entity!OrderedByTime(job.rows)
    BY <1>1, <1>2 DEF Entity!EntityInputs
  <1>4. Len(job.rows) \in Nat /\ \A r \in 1..Len(job.rows) : job.rows[r] \in Range(job.rows)
    BY <1>3, LenProperties DEF Range
  <1>5. EntityJobOK
    BY <1>3, <1>4 DEF EntityJobOK
  <1>6. Reached([entity |-> state.entity, st |-> state.st, out |-> out], state.next - 1)
    BY <1>2 DEF Reached
  <1> QED BY <1>2, <1>4, <1>5, <1>6 DEF AdapterInv

\* At the end the output is the entities' results, one after the other.
LEMMA ByEntityIs ==
    ASSUME AdapterInv, state.exhausted, Claimed
    PROVE  /\ job.operator = "event_select" => out = Entity!ByEntity(Entity!Sel!Selected)
           /\ job.operator = "sessionize" => out = Entity!ByEntity(Entity!Sess!Sessions)
           /\ job.operator = "attribute" => out = Entity!ByEntity(Entity!Attr!Attributions)
  <1>1. out = FlatUpTo(Len(job.rows)) /\ EntityJobOK
    BY DEF AdapterInv
  <1>2. out = Entity!FlattenSeq(Parts)
    <2>1. ResultsAreSequences
      BY <1>1, ClaimedCorrect DEF OperatorCorrect
    <2> QED BY <1>1, <2>1, FlatSteps
  <1>3. ASSUME job.operator = "event_select" PROVE out = Entity!ByEntity(Entity!Sel!Selected)
    <2>1. \A rows : ResultOf(rows) = Entity!Sel!Selected(rows)
      BY <1>3 DEF ResultOf
    <2>2. Parts = [r \in DOMAIN job.rows |->
                        IF \E s \in 1..(r - 1) : job.rows[s].entity = job.rows[r].entity THEN <<>>
                        ELSE Entity!Sel!Selected(Entity!EntityRows(r))]
      BY <2>1 DEF Parts, Begins
    <2> QED BY <1>2, <2>2 DEF Entity!ByEntity
  <1>4. ASSUME job.operator = "sessionize" PROVE out = Entity!ByEntity(Entity!Sess!Sessions)
    <2>1. \A rows : ResultOf(rows) = Entity!Sess!Sessions(rows)
      BY <1>4 DEF ResultOf
    <2>2. Parts = [r \in DOMAIN job.rows |->
                        IF \E s \in 1..(r - 1) : job.rows[s].entity = job.rows[r].entity THEN <<>>
                        ELSE Entity!Sess!Sessions(Entity!EntityRows(r))]
      BY <2>1 DEF Parts, Begins
    <2> QED BY <1>2, <2>2 DEF Entity!ByEntity
  <1>5. ASSUME job.operator = "attribute" PROVE out = Entity!ByEntity(Entity!Attr!Attributions)
    <2>1. \A rows : ResultOf(rows) = Entity!Attr!Attributions(rows)
      BY <1>5 DEF ResultOf
    <2>2. Parts = [r \in DOMAIN job.rows |->
                        IF \E s \in 1..(r - 1) : job.rows[s].entity = job.rows[r].entity THEN <<>>
                        ELSE Entity!Attr!Attributions(Entity!EntityRows(r))]
      BY <2>1 DEF Parts, Begins
    <2> QED BY <1>2, <2>2 DEF Entity!ByEntity
  <1> QED BY <1>3, <1>4, <1>5

\* So at the end EVENT's output is what is to be selected.
LEMMA SelectionIs == AdapterInv => Entity!SelectionExact
  <1>1. \A f : Entity!Range(f) = Range(f)
    BY DEF Entity!Range, Range
  <1> QED BY <1>1, ByEntityIs DEF Entity!SelectionExact, Entity!Done, Claimed

\* And SESSIONIZE's are the sessions.
LEMMA SessionsAreExact == AdapterInv => Entity!SessionsExact
  BY ByEntityIs DEF Entity!SessionsExact, Entity!Done, Claimed

\* And ATTRIBUTE's the attributions.
LEMMA AttributionsAreExact == AdapterInv => Entity!AttributionExact
  BY ByEntityIs DEF Entity!AttributionExact, Entity!Done, Claimed

\* For any entities, rows, batches and parameters, and a predicate that can be
\* evaluated: EVENT outputs of each entity the first, last or n-th row that
\* qualifies (event_select.rs, bind.rs).
THEOREM EventSelectsItsRow == Entity!EntityInputs => (Entity!Spec => []Entity!SelectionExact)
  <1> SUFFICES ASSUME Entity!EntityInputs PROVE Entity!Spec => []Entity!SelectionExact
    OBVIOUS
  <1>1. Entity!Init => AdapterInv
    BY AdapterInitially
  <1>2. AdapterInv /\ [Entity!Next]_(Entity!vars) => AdapterInv'
    BY AdapterInductive
  <1> QED BY <1>1, <1>2, SelectionIs, PTL DEF Entity!Spec

\* For any entities, rows, batches, gap, end events and cap: SESSIONIZE outputs each
\* row with the number and the duration of the session that gaps and end events put
\* it in, up to the row with which a session exceeds the cap (sessionize.rs, bind.rs).
THEOREM SessionsFollowGaps == Entity!EntityInputs => (Entity!Spec => []Entity!SessionsExact)
  <1> SUFFICES ASSUME Entity!EntityInputs PROVE Entity!Spec => []Entity!SessionsExact
    OBVIOUS
  <1>1. Entity!Init => AdapterInv
    BY AdapterInitially
  <1>2. AdapterInv /\ [Entity!Next]_(Entity!vars) => AdapterInv'
    BY AdapterInductive
  <1> QED BY <1>1, <1>2, SessionsAreExact, PTL DEF Entity!Spec

\* For any entities, rows, batches, touchpoint and conversion types, window and bound
\* of the deque: ATTRIBUTE pairs each conversion with the touchpoints of its window,
\* in their order, or with none, up to the row for which the deque has no room
\* (attribute.rs, bind.rs).
THEOREM AttributionIsComplete == Entity!EntityInputs => (Entity!Spec => []Entity!AttributionExact)
  <1> SUFFICES ASSUME Entity!EntityInputs PROVE Entity!Spec => []Entity!AttributionExact
    OBVIOUS
  <1>1. Entity!Init => AdapterInv
    BY AdapterInitially
  <1>2. AdapterInv /\ [Entity!Next]_(Entity!vars) => AdapterInv'
    BY AdapterInductive
  <1> QED BY <1>1, <1>2, AttributionsAreExact, PTL DEF Entity!Spec
=============================================================================
