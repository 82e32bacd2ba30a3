--------------------------- MODULE GroupingProofs ---------------------------
(***************************************************************************)
(* Two components group what they are given by a key, in any number of     *)
(* pieces: an INSERT its events by window and shard (partitioner.rs,       *)
(* writer.rs), a STATS its rows (aggregate/mod.rs).  Of an INSERT the      *)
(* invariant says that the runs and the bucket of every key hold the key's *)
(* events so far, each run in order and later runs with later events; of a *)
(* STATS that an accumulator has the groups and the states of the set of   *)
(* rows that it has seen.                                                  *)
(***************************************************************************)
EXTENDS IngestPartitioner, FiniteFacts, SequenceTheorems

-----------------------------------------------------------------------------
(* INSERT: the order of events *)

IngestJobOK ==
    /\ WindowDays \in Nat \ {0}
    /\ job.events \in Seq(SourceEvent)
    /\ \A i \in DOMAIN job.events : job.shardOf[job.events[i].entity] \in Nat
    /\ job.budget \in Nat \ {0} /\ job.rowGroupSize \in Nat \ {0}

Positions == DOMAIN job.events

\* Entity, time and source put the events in a strict total order.
LEMMA EventOrder ==
    ASSUME IngestJobOK, NEW i \in Positions, NEW j \in Positions, NEW k \in Positions
    PROVE  /\ ~Before(i, i)
           /\ Before(i, j) /\ Before(j, k) => Before(i, k)
           /\ i # j => Before(i, j) \/ Before(j, i)
           /\ Before(i, j) => i # j /\ ~Before(j, i)
  <1>1. i \in Nat /\ j \in Nat /\ k \in Nat
    BY DEF IngestJobOK, Positions
  <1>2. \A p \in Positions : job.events[p].entity \in Int /\ job.events[p].day \in Int
    <2>1. \A p \in Positions : job.events[p] \in SourceEvent
      BY DEF IngestJobOK, Positions
    <2> QED BY <2>1 DEF SourceEvent
  <1>3. PICK ei \in Int, ej \in Int, ek \in Int :
            ei = job.events[i].entity /\ ej = job.events[j].entity /\ ek = job.events[k].entity
    BY <1>2
  <1>4. PICK di \in Int, dj \in Int, dk \in Int :
            di = job.events[i].day /\ dj = job.events[j].day /\ dk = job.events[k].day
    BY <1>2
  <1>5. /\ SortsBefore(i, i) <=> ei < ei \/ (ei = ei /\ di < di)
        /\ SortsBefore(i, j) <=> ei < ej \/ (ei = ej /\ di < dj)
        /\ SortsBefore(j, i) <=> ej < ei \/ (ej = ei /\ dj < di)
        /\ SortsBefore(j, k) <=> ej < ek \/ (ej = ek /\ dj < dk)
        /\ SortsBefore(k, j) <=> ek < ej \/ (ek = ej /\ dk < dj)
        /\ SortsBefore(i, k) <=> ei < ek \/ (ei = ek /\ di < dk)
        /\ SortsBefore(k, i) <=> ek < ei \/ (ek = ei /\ dk < di)
    BY <1>3, <1>4 DEF SortsBefore, Event
  <1> QED BY <1>1, <1>5 DEF Before

Ascending(bucket) == \A m, n \in DOMAIN bucket : m < n => bucket[m] < bucket[n]

\* A stable sort of events in the order of the source puts them in that order.
LEMMA StablySortedIs ==
    ASSUME IngestJobOK, NEW b \in Seq(Positions), Ascending(b)
    PROVE  /\ StablySorted(b) \in Seq(Positions)
           /\ IsInOrder(StablySorted(b))
           /\ Range(StablySorted(b)) = Range(b)
  <1>1. PICK n \in Nat : DOMAIN b = 1..n /\ Len(b) = n /\ \A m \in 1..n : b[m] \in Positions
    OBVIOUS
  <1>2. \A m \in 1..n : b[m] \in Nat
    BY <1>1 DEF Positions, IngestJobOK
  <1>3. ASSUME NEW m \in 1..n, NEW k \in 1..n PROVE m < k <=> b[m] < b[k]
    <2>1. (m < k => b[m] < b[k]) /\ (k < m => b[k] < b[m])
      BY <1>1 DEF Ascending
    <2> QED BY <1>2, <2>1
  <1> DEFINE R == {p \in (1..n) \X (1..n) : Before(b[p[1]], b[p[2]])}
  <1>4. \A l, m \in 1..n : <<l, m>> \in R <=> Before(b[l], b[m])
    OBVIOUS
  <1>5. ASSUME NEW l \in 1..n, NEW m \in 1..n
        PROVE  <<l, m>> \in R <=> \/ SortsBefore(b[l], b[m])
                                  \/ ~SortsBefore(b[m], b[l]) /\ l < m
    BY <1>3, <1>4 DEF Before
  <1> HIDE DEF R
  <1>6. /\ \A m \in 1..n : <<m, m>> \notin R
        /\ \A l, m, k \in 1..n : <<l, m>> \in R /\ <<m, k>> \in R => <<l, k>> \in R
    BY <1>1, <1>4, EventOrder
  <1>7. \A m, k \in 1..n : m # k => <<m, k>> \in R \/ <<k, m>> \in R
    <2> SUFFICES ASSUME NEW m \in 1..n, NEW k \in 1..n, m # k
                 PROVE  <<m, k>> \in R \/ <<k, m>> \in R
      OBVIOUS
    <2>1. b[m] # b[k]
      BY <1>2, <1>3
    <2> QED BY <1>1, <1>4, <2>1, EventOrder
  <1>8. PICK f : f = [m \in 1..n |-> PlaceOf(R, n, m)]
    OBVIOUS
  <1>9. /\ \A m, k \in 1..n : <<m, k>> \in R => f[m] < f[k]
        /\ \A m \in 1..n : f[m] \in 1..n
        /\ \A p \in 1..n : \E m \in 1..n : f[m] = p
    <2>1. /\ \A m, k \in 1..n : <<m, k>> \in R => PlaceOf(R, n, m) < PlaceOf(R, n, k)
          /\ \A m \in 1..n : PlaceOf(R, n, m) \in 1..n
          /\ \A p \in 1..n : \E m \in 1..n : PlaceOf(R, n, m) = p
      BY <1>6, <1>7, PlacesAreDistinct DEF StrictOrder
    <2>2. \A m \in 1..n : f[m] = PlaceOf(R, n, m)
      BY <1>8
    <2> QED BY <2>1, <2>2
  <1>10. ASSUME NEW m \in 1..n
         PROVE  1 + Cardinality({l \in DOMAIN b :
                    \/ SortsBefore(b[l], b[m])
                    \/ ~SortsBefore(b[m], b[l]) /\ l < m}) = f[m]
    <2>1. {l \in DOMAIN b : \/ SortsBefore(b[l], b[m])
                            \/ ~SortsBefore(b[m], b[l]) /\ l < m} = {l \in 1..n : <<l, m>> \in R}
      BY <1>1, <1>5
    <2>2. \A S : Cardinality(S) = Cardinality(S)
      BY DEF Cardinality, Cardinality
    <2>3. f[m] = 1 + Cardinality({l \in 1..n : <<l, m>> \in R})
      BY <1>8 DEF PlaceOf
    <2> QED BY <2>1, <2>2, <2>3
  <1>11. PICK s : s = StablySorted(b)
    OBVIOUS
  <1>12. PICK q : q = [p \in 1..n |-> CHOOSE m \in DOMAIN b :
                    1 + Cardinality({l \in DOMAIN b :
                        \/ SortsBefore(b[l], b[m])
                        \/ ~SortsBefore(b[m], b[l]) /\ l < m}) = p]
    OBVIOUS
  <1>13. s = [p \in 1..n |-> b[q[p]]]
    BY <1>1, <1>11, <1>12 DEF StablySorted
  <1>14. ASSUME NEW p \in 1..n PROVE q[p] \in 1..n /\ f[q[p]] = p
    <2>1. PICK m \in 1..n : f[m] = p
      BY <1>9
    <2>2. q[p] = CHOOSE k \in 1..n :
                    1 + Cardinality({l \in DOMAIN b :
                        \/ SortsBefore(b[l], b[k])
                        \/ ~SortsBefore(b[k], b[l]) /\ l < k}) = p
      BY <1>1, <1>12
    <2> QED BY <1>10, <2>1, <2>2
  <1>15. s \in Seq(Positions) /\ DOMAIN s = 1..n
    BY <1>1, <1>13, <1>14
  <1>16. IsInOrder(s)
    <2> SUFFICES ASSUME NEW m \in 1..n, NEW k \in 1..n, m < k PROVE Before(s[m], s[k])
      BY <1>15 DEF IsInOrder
    <2>1. q[m] \in 1..n /\ q[k] \in 1..n /\ f[q[m]] = m /\ f[q[k]] = k
      BY <1>14
    <2>2. q[m] # q[k] /\ ~(k < m)
      BY <2>1
    <2>3. <<q[m], q[k]>> \in R
      <3>1. <<q[k], q[m]>> \notin R
        BY <1>9, <2>1, <2>2
      <3> QED BY <1>7, <2>1, <2>2, <3>1
    <2> QED BY <1>4, <1>13, <2>1, <2>3
  <1>17. Range(s) = Range(b)
    <2>1. ASSUME NEW m \in 1..n PROVE \E p \in 1..n : q[p] = m
      <3>1. PICK p \in 1..n : p = f[m]
        BY <1>9
      <3>2. q[p] \in 1..n /\ f[q[p]] = p /\ ~(p < p)
        BY <1>14
      <3>3. <<m, q[p]>> \notin R /\ <<q[p], m>> \notin R
        BY <1>9, <3>1, <3>2
      <3> QED BY <1>7, <3>2, <3>3
    <2>2. \A p \in 1..n : s[p] = b[q[p]]
      BY <1>13
    <2>3. Range(s) = {s[p] : p \in 1..n} /\ Range(b) = {b[m] : m \in 1..n}
      BY <1>1, <1>15 DEF Range
    <2>4. {s[p] : p \in 1..n} = {b[m] : m \in 1..n}
      <3>1. \A p \in 1..n : s[p] \in {b[m] : m \in 1..n}
        BY <1>14, <2>2
      <3>2. \A m \in 1..n : b[m] \in {s[p] : p \in 1..n}
        BY <2>1, <2>2
      <3> QED BY <3>1, <3>2
    <2> QED BY <2>3, <2>4
  <1> QED BY <1>11, <1>15, <1>16, <1>17

-----------------------------------------------------------------------------
(* INSERT: what a key's runs and bucket hold *)

InRuns(runs) == UNION {Range(runs[r]) : r \in DOMAIN runs}

\* Each run is in order, and a later run's events are later in the source.
RunsInOrder(runs) ==
    /\ runs \in Seq(Seq(Positions))
    /\ \A r \in DOMAIN runs : IsInOrder(runs[r])
    /\ \A r, q \in DOMAIN runs : r < q =>
        \A m \in DOMAIN runs[r], n \in DOMAIN runs[q] : runs[r][m] < runs[q][n]

\* Runs and bucket hold the events of S, the bucket those that came last.
BucketHolds(runs, bucket, S) ==
    /\ RunsInOrder(runs)
    /\ bucket \in Seq(Positions) /\ Ascending(bucket)
    /\ \A i \in InRuns(runs), j \in Range(bucket) : i < j
    /\ S = InRuns(runs) \cup Range(bucket)

\* An event that comes after all others may be added to the bucket.
LEMMA PushHolds ==
    ASSUME IngestJobOK, NEW runs, NEW bucket, NEW S, BucketHolds(runs, bucket, S),
           NEW i \in Positions, \A j \in S : j < i
    PROVE  /\ BucketHolds(runs, Append(bucket, i), S \cup {i})
           /\ Range(Append(bucket, i)) = Range(bucket) \cup {i}
  <1>1. PICK n \in Nat : /\ bucket \in Seq(Positions) /\ Len(bucket) = n /\ DOMAIN bucket = 1..n
                         /\ \A m \in 1..n : bucket[m] \in Positions
    BY DEF BucketHolds
  <1>2. PICK b \in Seq(Positions) : b = Append(bucket, i)
    BY <1>1, AppendProperties
  <1>3. DOMAIN b = 1..(n + 1) /\ b[n + 1] = i /\ \A m \in 1..n : b[m] = bucket[m]
    BY <1>1, <1>2, AppendProperties
  <1>4. \A m \in 1..(n + 1) : m \in 1..n \/ m = n + 1
    OBVIOUS
  <1>5. Range(b) = Range(bucket) \cup {i}
    <2>1. \A m \in 1..(n + 1) : b[m] \in Range(bucket) \cup {i}
      BY <1>1, <1>3, <1>4 DEF Range
    <2>2. Range(bucket) \subseteq Range(b)
      <3>1. \A m \in 1..n : m \in 1..(n + 1)
        OBVIOUS
      <3> QED BY <1>1, <1>3, <3>1 DEF Range
    <2>3. i \in Range(b)
      BY <1>3 DEF Range
    <2> QED BY <1>3, <2>1, <2>2, <2>3 DEF Range
  <1>6. \A m \in 1..n : bucket[m] < i
    BY <1>1 DEF BucketHolds, Range
  <1>7. Ascending(b)
    <2> SUFFICES ASSUME NEW m \in 1..(n + 1), NEW k \in 1..(n + 1), m < k PROVE b[m] < b[k]
      BY <1>3 DEF Ascending
    <2>1. CASE k \in 1..n
      <3>1. m \in 1..n
        BY <2>1
      <3> QED BY <1>1, <1>3, <2>1, <3>1 DEF BucketHolds, Ascending
    <2>2. CASE k = n + 1
      <3>1. m \in 1..n
        BY <2>2
      <3> QED BY <1>3, <1>6, <2>2, <3>1
    <2> QED BY <1>4, <2>1, <2>2
  <1>8. \A j \in InRuns(runs), k \in Range(b) : j < k
    BY <1>5 DEF BucketHolds
  <1>9. BucketHolds(runs, b, S \cup {i})
    BY <1>5, <1>7, <1>8 DEF BucketHolds
  <1> QED BY <1>2, <1>5, <1>9

\* The sorted bucket becomes the last run.
LEMMA SpillHolds ==
    ASSUME IngestJobOK, NEW runs, NEW bucket, NEW S, BucketHolds(runs, bucket, S)
    PROVE  LET all == Append(runs, StablySorted(bucket))
           IN  RunsInOrder(all) /\ InRuns(all) = S
  <1>1. PICK n \in Nat : /\ runs \in Seq(Seq(Positions)) /\ Len(runs) = n /\ DOMAIN runs = 1..n
                         /\ \A r \in 1..n : runs[r] \in Seq(Positions)
    BY DEF BucketHolds, RunsInOrder
  <1>2. PICK run \in Seq(Positions) :
            /\ run = StablySorted(bucket)
            /\ IsInOrder(run) /\ Range(run) = Range(bucket)
    BY StablySortedIs DEF BucketHolds
  <1>3. PICK all \in Seq(Seq(Positions)) : all = Append(runs, run)
    BY <1>1, AppendProperties
  <1>4. DOMAIN all = 1..(n + 1) /\ all[n + 1] = run /\ \A r \in 1..n : all[r] = runs[r]
    BY <1>1, <1>3, AppendProperties
  <1>5. \A r \in 1..(n + 1) : r \in 1..n \/ r = n + 1
    OBVIOUS
  <1>6. \A r \in 1..(n + 1) : IsInOrder(all[r])
    BY <1>1, <1>2, <1>4, <1>5 DEF BucketHolds, RunsInOrder
  <1>7. ASSUME NEW r \in 1..(n + 1), NEW q \in 1..(n + 1), r < q,
               NEW m \in DOMAIN all[r], NEW k \in DOMAIN all[q]
        PROVE  all[r][m] < all[q][k]
    <2>1. r \in 1..n
      BY <1>7
    <2>2. CASE q \in 1..n
      BY <1>1, <1>4, <1>7, <2>1, <2>2 DEF BucketHolds, RunsInOrder
    <2>3. CASE q = n + 1
      <3>1. all[r][m] \in InRuns(runs)
        BY <1>1, <1>4, <2>1 DEF InRuns, Range
      <3>2. all[q][k] \in Range(bucket)
        BY <1>2, <1>4, <2>3 DEF Range
      <3> QED BY <3>1, <3>2 DEF BucketHolds
    <2> QED BY <1>5, <2>2, <2>3
  <1>8. InRuns(all) = S
    <2>1. InRuns(all) = UNION {Range(all[r]) : r \in 1..(n + 1)}
      BY <1>4 DEF InRuns
    <2>2. InRuns(runs) = UNION {Range(runs[r]) : r \in 1..n}
      BY <1>1 DEF InRuns
    <2>3. n + 1 \in 1..(n + 1) /\ \A r \in 1..n : r \in 1..(n + 1)
      OBVIOUS
    <2>4. ASSUME NEW x PROVE (\E r \in 1..(n + 1) : x \in Range(all[r]))
                <=> (\E r \in 1..n : x \in Range(runs[r])) \/ x \in Range(run)
      BY <1>4, <1>5, <2>3, Zenon
    <2>5. InRuns(all) = InRuns(runs) \cup Range(run)
      BY <2>1, <2>2, <2>4
    <2> QED BY <1>2, <2>5 DEF BucketHolds
  <1> QED BY <1>2, <1>3, <1>4, <1>6, <1>7, <1>8 DEF RunsInOrder

-----------------------------------------------------------------------------
(* INSERT: merging a key's runs *)

\* A merge that has come to the cursors c has put out what is in front of them,
\* in order, and all that is left comes behind it.
IngestMerged(inputs, c, o) ==
    /\ c \in [DOMAIN inputs -> Nat]
    /\ \A r \in DOMAIN inputs : c[r] \in 1..(Len(inputs[r]) + 1)
    /\ o \in Seq(Positions) /\ IsInOrder(o)
    /\ \A i \in DOMAIN o : \E r \in DOMAIN inputs : \E k \in 1..(c[r] - 1) : o[i] = inputs[r][k]
    /\ \A r \in DOMAIN inputs : \A k \in 1..(c[r] - 1) : inputs[r][k] \in Range(o)
    /\ \A i \in DOMAIN o : \A r \in DOMAIN inputs : \A k \in c[r]..Len(inputs[r]) :
        Before(o[i], inputs[r][k])

\* Popping the head that comes first keeps the merge in order and complete.
LEMMA IngestPopKeeps ==
    ASSUME IngestJobOK, NEW inputs, RunsInOrder(inputs), NEW c, NEW o, IngestMerged(inputs, c, o),
           NEW r \in DOMAIN inputs, c[r] <= Len(inputs[r]),
           \A q \in DOMAIN inputs : q # r /\ c[q] <= Len(inputs[q])
                => Before(inputs[r][c[r]], inputs[q][c[q]])
    PROVE  /\ IngestMerged(inputs, [c EXCEPT ![r] = @ + 1], Append(o, inputs[r][c[r]]))
           /\ Len(Append(o, inputs[r][c[r]])) = Len(o) + 1
  <1> DEFINE h == inputs[r][c[r]]
  <1>1. /\ \A q \in DOMAIN inputs : /\ DOMAIN inputs[q] = 1..Len(inputs[q]) /\ Len(inputs[q]) \in Nat
                                    /\ c[q] \in 1..(Len(inputs[q]) + 1)
        /\ \A q \in DOMAIN inputs : \A k \in 1..Len(inputs[q]) : inputs[q][k] \in Positions
    <2>1. \A q \in DOMAIN inputs : inputs[q] \in Seq(Positions)
      BY DEF RunsInOrder
    <2> QED BY <2>1 DEF IngestMerged
  <1>2. c[r] \in 1..Len(inputs[r]) /\ h \in Positions
    BY <1>1
  <1>3. PICK d : d = [c EXCEPT ![r] = @ + 1]
    OBVIOUS
  <1>4. /\ d \in [DOMAIN inputs -> Nat] /\ d[r] = c[r] + 1
        /\ \A q \in DOMAIN inputs : q # r => d[q] = c[q]
        /\ \A q \in DOMAIN inputs : d[q] \in 1..(Len(inputs[q]) + 1) /\ c[q] <= d[q]
    BY <1>1, <1>2, <1>3 DEF IngestMerged
  <1>5. PICK m \in Nat : m = Len(o) /\ DOMAIN o = 1..m
    BY DEF IngestMerged
  <1>6. PICK p \in Seq(Positions) : p = Append(o, h)
    BY <1>2, AppendProperties DEF IngestMerged
  <1>7. /\ DOMAIN p = 1..(m + 1) /\ (\A i \in 1..m : p[i] = o[i]) /\ p[m + 1] = h /\ Len(p) = m + 1
        /\ \A i \in 1..(m + 1) : i \in 1..m \/ i = m + 1
    BY <1>2, <1>5, <1>6, AppendProperties DEF IngestMerged
  <1> HIDE DEF h
  <1>8. \A i \in 1..m : Before(o[i], h)
    <2>1. c[r] \in c[r]..Len(inputs[r])
      BY <1>1, <1>2
    <2>2. \A i \in DOMAIN o : Before(o[i], inputs[r][c[r]])
      BY <2>1 DEF IngestMerged
    <2> QED BY <1>5, <2>2 DEF h
  <1>9. IsInOrder(p)
    <2> SUFFICES ASSUME NEW i \in 1..(m + 1), NEW j \in 1..(m + 1), i < j
                 PROVE  Before(p[i], p[j])
      BY <1>7 DEF IsInOrder
    <2>1. CASE j \in 1..m
      <3>1. i \in 1..m
        BY <2>1
      <3> QED BY <1>5, <1>7, <2>1, <3>1 DEF IngestMerged, IsInOrder
    <2>2. CASE j = m + 1
      <3>1. i \in 1..m
        BY <2>2
      <3> QED BY <1>7, <1>8, <2>2, <3>1
    <2> QED BY <1>7, <2>1, <2>2
  <1>10. ASSUME NEW i \in DOMAIN p
         PROVE  \E q \in DOMAIN inputs : \E k \in 1..(d[q] - 1) : p[i] = inputs[q][k]
    <2>1. CASE i \in 1..m
      <3>1. PICK q \in DOMAIN inputs : \E k \in 1..(c[q] - 1) : o[i] = inputs[q][k]
        BY <1>5, <2>1 DEF IngestMerged
      <3>2. PICK k \in 1..(c[q] - 1) : o[i] = inputs[q][k]
        BY <3>1
      <3>3. k \in 1..(d[q] - 1)
        BY <1>1, <1>4
      <3> QED BY <1>7, <2>1, <3>2, <3>3
    <2>2. CASE i = m + 1
      <3>1. c[r] \in 1..(d[r] - 1)
        BY <1>1, <1>2, <1>4
      <3> QED BY <1>7, <2>2, <3>1 DEF h
    <2> QED BY <1>7, <2>1, <2>2
  <1>11. ASSUME NEW q \in DOMAIN inputs, NEW k \in 1..(d[q] - 1)
         PROVE  inputs[q][k] \in Range(p)
    <2>1. CASE k \in 1..(c[q] - 1)
      <3>1. inputs[q][k] \in Range(o)
        BY <2>1 DEF IngestMerged
      <3> QED BY <1>5, <1>7, <3>1 DEF Range
    <2>2. CASE q = r /\ k = c[r]
      BY <1>7, <2>2 DEF Range, h
    <2>3. k \in 1..(c[q] - 1) \/ (q = r /\ k = c[r])
      <3>1. CASE q = r
        BY <1>1, <1>4, <3>1
      <3>2. CASE q # r
        BY <1>4, <3>2
      <3> QED BY <3>1, <3>2
    <2> QED BY <2>1, <2>2, <2>3
  <1>12. ASSUME NEW q \in DOMAIN inputs, NEW k \in d[q]..Len(inputs[q])
         PROVE  Before(h, inputs[q][k])
    <2>1. k \in c[q]..Len(inputs[q]) /\ k \in 1..Len(inputs[q]) /\ c[q] \in 1..Len(inputs[q])
      BY <1>1, <1>4
    <2>2. inputs[q][k] \in Positions /\ inputs[q][c[q]] \in Positions
      BY <1>1, <2>1
    <2>3. c[q] < k => Before(inputs[q][c[q]], inputs[q][k])
      BY <1>1, <2>1 DEF RunsInOrder, IsInOrder
    <2>4. CASE q = r
      <3>1. c[q] < k
        BY <1>1, <1>2, <1>4, <2>1, <2>4
      <3> QED BY <2>3, <2>4, <3>1 DEF h
    <2>5. CASE q # r
      <3>1. Before(h, inputs[q][c[q]])
        BY <1>1, <2>1, <2>5 DEF h
      <3>2. c[q] = k \/ c[q] < k
        BY <1>1, <2>1
      <3> QED BY <1>2, <2>2, <2>3, <3>1, <3>2, EventOrder
    <2> QED BY <2>4, <2>5
  <1>13. ASSUME NEW i \in DOMAIN p, NEW q \in DOMAIN inputs, NEW k \in d[q]..Len(inputs[q])
         PROVE  Before(p[i], inputs[q][k])
    <2>1. CASE i \in 1..m
      <3>1. k \in c[q]..Len(inputs[q])
        BY <1>1, <1>4
      <3> QED BY <1>5, <1>7, <2>1, <3>1 DEF IngestMerged
    <2>2. CASE i = m + 1
      BY <1>7, <1>12, <2>2
    <2> QED BY <1>7, <2>1, <2>2
  <1>14. IngestMerged(inputs, d, p)
    BY <1>4, <1>6, <1>9, <1>10, <1>11, <1>13 DEF IngestMerged
  <1> QED BY <1>3, <1>5, <1>6, <1>7, <1>14 DEF h

\* The state of the heap loop after each of its turns, from the first on.
IsPops(f, inputs, n) ==
    f = [k \in 0..n |->
            IF k = 0 THEN [cursors |-> [r \in DOMAIN inputs |-> 1], merged |-> <<>>]
            ELSE PopHead(inputs, f[k - 1])]

\* The loop can be followed for any number of turns.
LEMMA PopsExist ==
    ASSUME NEW inputs, NEW n \in Nat
    PROVE  \E f : IsPops(f, inputs, n)
  <1> DEFINE Good == {m \in 0..n : \E f : IsPops(f, inputs, m)}
             base == [cursors |-> [r \in DOMAIN inputs |-> 1], merged |-> <<>>]
  <1>1. \E f : IsPops(f, inputs, 0)
    <2> DEFINE f == [k \in 0..0 |-> base]
    <2>1. \A k \in 0..0 : k = 0
      OBVIOUS
    <2>2. IsPops(f, inputs, 0)
      BY <2>1 DEF IsPops
    <2> QED BY <2>2
  <1>2. ASSUME NEW m \in 0..(n - 1), NEW f, IsPops(f, inputs, m)
        PROVE  \E g : IsPops(g, inputs, m + 1)
    <2> DEFINE g == [k \in 0..(m + 1) |->
                        IF k <= m THEN f[k] ELSE PopHead(inputs, f[k - 1])]
    <2>1. \A k \in 0..m : f[k] = IF k = 0 THEN base ELSE PopHead(inputs, f[k - 1])
      BY <1>2 DEF IsPops
    <2> HIDE DEF base
    <2>2. ASSUME NEW k \in 0..(m + 1)
          PROVE  g[k] = IF k = 0 THEN base ELSE PopHead(inputs, g[k - 1])
      <3>1. CASE k <= m
        <4>1. k \in 0..m /\ (k # 0 => k - 1 \in 0..(m + 1) /\ k - 1 <= m)
          BY <3>1
        <4>2. g[k] = f[k] /\ (k # 0 => g[k - 1] = f[k - 1])
          BY <3>1, <4>1
        <4> HIDE DEF g
        <4> QED BY <2>1, <4>1, <4>2
      <3>2. CASE ~(k <= m)
        <4>1. k # 0 /\ k - 1 \in 0..(m + 1) /\ k - 1 <= m
          BY <3>2
        <4>2. g[k] = PopHead(inputs, f[k - 1]) /\ g[k - 1] = f[k - 1]
          BY <3>2, <4>1
        <4> HIDE DEF g
        <4> QED BY <4>1, <4>2
      <3> QED BY <3>1, <3>2
    <2>3. g = [k \in 0..(m + 1) |-> g[k]]
      OBVIOUS
    <2> HIDE DEF g
    <2>4. g = [k \in 0..(m + 1) |-> IF k = 0 THEN base ELSE PopHead(inputs, g[k - 1])]
      BY <2>2, <2>3
    <2>5. IsPops(g, inputs, m + 1)
      BY <2>4 DEF IsPops, base
    <2> QED BY <2>5
  <1>3. 0 \in Good /\ \A k \in 0..(n - 1) : k \in Good => k + 1 \in Good
    BY <1>1, <1>2
  <1>4. 0..n \subseteq Good
    <2> HIDE DEF Good
    <2> QED BY <1>3, UpTo
  <1> QED BY <1>4

\* One turn, while there is a run with events left.
LEMMA PopHeadKeeps ==
    ASSUME IngestJobOK, NEW inputs, RunsInOrder(inputs), NEW acc,
           IngestMerged(inputs, acc.cursors, acc.merged),
           \E r \in DOMAIN inputs : acc.cursors[r] <= Len(inputs[r])
    PROVE  LET next == PopHead(inputs, acc)
           IN  /\ IngestMerged(inputs, next.cursors, next.merged)
               /\ Len(next.merged) = Len(acc.merged) + 1
  <1>1. PICK c, o : c = acc.cursors /\ o = acc.merged
    OBVIOUS
  <1>2. PICK live : live = {r \in DOMAIN inputs : c[r] <= Len(inputs[r])}
    OBVIOUS
  <1>3. DOMAIN inputs = 1..Len(inputs) /\ Len(inputs) \in Nat
    BY DEF RunsInOrder
  <1>4. IsFiniteSet(live) /\ live # {} /\ live \subseteq Nat
    <2>1. IsFiniteSet(1..Len(inputs))
      BY <1>3, FS_Interval
    <2>2. live \in SUBSET (1..Len(inputs))
      BY <1>2, <1>3
    <2> QED BY <1>1, <1>2, <1>3, <2>1, <2>2, FS_Subset
  <1>5. ASSUME NEW r \in live
        PROVE  /\ c[r] \in DOMAIN inputs[r] /\ r \in DOMAIN inputs
               /\ inputs[r][c[r]] \in Positions
    <2>1. inputs[r] \in Seq(Positions) /\ c[r] \in 1..(Len(inputs[r]) + 1) /\ c[r] <= Len(inputs[r])
      BY <1>1, <1>2 DEF RunsInOrder, IngestMerged
    <2>2. c[r] \in 1..Len(inputs[r])
      BY <2>1
    <2> QED BY <1>2, <2>1, <2>2
  <1>6. PICK head : head = [r \in live |-> inputs[r][c[r]]]
    OBVIOUS
  <1>7. \A r \in live : head[r] \in Positions /\ head[r] = inputs[r][c[r]]
    BY <1>5, <1>6
  <1>8. ASSUME NEW r \in live, NEW q \in live, r # q
        PROVE  /\ r < q <=> head[r] < head[q]
               /\ head[r] # head[q]
    <2>1. ASSUME NEW a \in live, NEW b \in live, a < b PROVE head[a] < head[b]
      BY <1>5, <1>7, <2>1 DEF RunsInOrder
    <2>2. head[r] \in Nat /\ head[q] \in Nat /\ r \in Nat /\ q \in Nat
      BY <1>4, <1>7 DEF Positions, IngestJobOK
    <2>3. r < q \/ q < r
      BY <1>8, <2>2
    <2> QED BY <2>1, <2>2, <2>3
  <1>9. ASSUME NEW r \in live, NEW q \in live, r # q
        PROVE  (\/ SortsBefore(head[r], head[q])
                \/ ~SortsBefore(head[q], head[r]) /\ r < q)
               <=> Before(head[r], head[q])
    BY <1>8, <1>9 DEF Before
  <1> DEFINE Ahead == {p \in live \X live : Before(head[p[1]], head[p[2]])}
  <1>10. \A x, y \in live : <<x, y>> \in Ahead <=> Before(head[x], head[y])
    OBVIOUS
  <1> HIDE DEF Ahead
  <1>11. PICK r \in live : \A q \in live : <<q, r>> \notin Ahead
    <2>1. \A x \in live : <<x, x>> \notin Ahead
      BY <1>7, <1>10, EventOrder
    <2>2. \A x, y, z \in live : <<x, y>> \in Ahead /\ <<y, z>> \in Ahead => <<x, z>> \in Ahead
      BY <1>7, <1>10, EventOrder
    <2> QED BY <1>4, <2>1, <2>2, MinimalExists
  <1>12. \A q \in live \ {r} : Before(head[r], head[q])
    BY <1>7, <1>8, <1>10, <1>11, EventOrder
  <1>13. \E p \in live : \A q \in live \ {p} :
            \/ SortsBefore(inputs[p][c[p]], inputs[q][c[q]])
            \/ ~SortsBefore(inputs[q][c[q]], inputs[p][c[p]]) /\ p < q
    <2>1. \A q \in live \ {r} : \/ SortsBefore(head[r], head[q])
                                \/ ~SortsBefore(head[q], head[r]) /\ r < q
      BY <1>9, <1>12
    <2> QED BY <1>7, <2>1
  <1>14. PICK m : m = CHOOSE p \in live : \A q \in live \ {p} :
            \/ SortsBefore(inputs[p][c[p]], inputs[q][c[q]])
            \/ ~SortsBefore(inputs[q][c[q]], inputs[p][c[p]]) /\ p < q
    OBVIOUS
  <1>15. m \in live /\ \A q \in live \ {m} :
            \/ SortsBefore(inputs[m][c[m]], inputs[q][c[q]])
            \/ ~SortsBefore(inputs[q][c[q]], inputs[m][c[m]]) /\ m < q
    BY <1>13, <1>14
  <1>16. \A q \in live \ {m} : Before(inputs[m][c[m]], inputs[q][c[q]])
    <2> SUFFICES ASSUME NEW q \in live \ {m}
                 PROVE  Before(inputs[m][c[m]], inputs[q][c[q]])
      OBVIOUS
    <2>1. m \in live /\ q \in live /\ m # q
      BY <1>15
    <2> QED BY <1>7, <1>9, <1>15, <2>1
  <1>17. PopHead(inputs, acc) =
            [cursors |-> [c EXCEPT ![m] = @ + 1], merged |-> Append(o, inputs[m][c[m]])]
    BY <1>1, <1>2, <1>14 DEF PopHead
  <1>18. /\ IngestMerged(inputs, [c EXCEPT ![m] = @ + 1], Append(o, inputs[m][c[m]]))
         /\ Len(Append(o, inputs[m][c[m]])) = Len(o) + 1
    <2>1. m \in DOMAIN inputs /\ c[m] <= Len(inputs[m]) /\ IngestMerged(inputs, c, o)
      BY <1>1, <1>2, <1>15
    <2>2. \A q \in DOMAIN inputs : q # m /\ c[q] <= Len(inputs[q])
                => Before(inputs[m][c[m]], inputs[q][c[q]])
      BY <1>2, <1>16
    <2> QED BY <2>1, <2>2, IngestPopKeeps
  <1> QED BY <1>1, <1>17, <1>18

\* Events in order are different.
LEMMA InOrderCounts ==
    ASSUME IngestJobOK, NEW o \in Seq(Positions), IsInOrder(o)
    PROVE  IsFiniteSet(Range(o)) /\ Cardinality(Range(o)) = Len(o)
  <1>1. PICK n \in Nat : n = Len(o) /\ DOMAIN o = 1..n /\ \A i \in 1..n : o[i] \in Positions
    OBVIOUS
  <1>2. ASSUME NEW i \in 1..n, NEW j \in 1..n, o[i] = o[j] PROVE i = j
    <2>1. ASSUME NEW a \in 1..n, NEW b \in 1..n, a < b PROVE o[a] # o[b]
      BY <1>1, <2>1, EventOrder DEF IsInOrder
    <2>2. i < j \/ j < i \/ i = j
      OBVIOUS
    <2> QED BY <1>2, <2>1, <2>2
  <1>3. o \in Bijection(1..n, Range(o))
    <2>1. o \in [1..n -> Range(o)]
      BY <1>1 DEF Range
    <2>2. \A y \in Range(o) : \E i \in 1..n : o[i] = y
      BY <1>1 DEF Range
    <2> QED BY <1>2, <2>1, <2>2 DEF Bijection, Injection, Surjection, IsInjective
  <1>4. ExistsBijection(1..n, Range(o))
    BY <1>3 DEF ExistsBijection
  <1>5. Cardinality(Range(o)) = n
    BY <1>4, FS_CountingElements
  <1>6. IsFiniteSet(Range(o))
    <2>1. IsFiniteSet(1..n)
      BY FS_Interval
    <2>2. o \in Surjection(1..n, Range(o))
      BY <1>3 DEF Bijection
    <2> QED BY <2>1, <2>2, FS_Surjection
  <1> QED BY <1>1, <1>5, <1>6

\* The loop ends with all events of its runs, in order.
LEMMA PopsMerge ==
    ASSUME IngestJobOK, NEW inputs, RunsInOrder(inputs), NEW n, n = Cardinality(InRuns(inputs)),
           NEW f, IsPops(f, inputs, n)
    PROVE  /\ f[n].merged \in Seq(Positions) /\ IsInOrder(f[n].merged)
           /\ Range(f[n].merged) = InRuns(inputs)
  <1>1. \A r \in DOMAIN inputs : /\ inputs[r] \in Seq(Positions) /\ Len(inputs[r]) \in Nat
                                 /\ DOMAIN inputs[r] = 1..Len(inputs[r])
    BY DEF RunsInOrder
  <1>2. IsFiniteSet(InRuns(inputs)) /\ n \in Nat
    <2>1. InRuns(inputs) \in SUBSET Positions
      BY <1>1 DEF InRuns, Range
    <2>2. IsFiniteSet(Positions)
      <3>1. Positions = 1..Len(job.events) /\ Len(job.events) \in Nat
        BY DEF Positions, IngestJobOK
      <3> QED BY <3>1, FS_Interval
    <2>3. IsFiniteSet(InRuns(inputs))
      BY <2>1, <2>2, FS_Subset
    <2> QED BY <2>3, FS_CardinalityType
  <1> DEFINE Kept(k) == /\ IngestMerged(inputs, f[k].cursors, f[k].merged)
                        /\ Len(f[k].merged) = k
  <1>3. /\ f[0] = [cursors |-> [r \in DOMAIN inputs |-> 1], merged |-> <<>>]
        /\ \A k \in 0..(n - 1) : f[k + 1] = PopHead(inputs, f[k])
    <2>1. \A k \in 0..n : f[k] = IF k = 0 THEN [cursors |-> [r \in DOMAIN inputs |-> 1], merged |-> <<>>]
                                 ELSE PopHead(inputs, f[k - 1])
      BY DEF IsPops
    <2>2. \A k \in 0..(n - 1) : k + 1 \in 0..n /\ k + 1 # 0 /\ (k + 1) - 1 = k
      BY <1>2
    <2>3. 0 \in 0..n
      BY <1>2
    <2> QED BY <2>1, <2>2, <2>3
  <1>4. Kept(0)
    <2>1. PICK c : c = [r \in DOMAIN inputs |-> 1]
      OBVIOUS
    <2>2. f[0].cursors = c /\ f[0].merged = <<>>
      BY <1>3, <2>1
    <2>3. <<>> \in Seq(Positions) /\ Len(<<>>) = 0 /\ DOMAIN <<>> = {}
      BY EmptySeq
    <2>4. IngestMerged(inputs, c, <<>>)
      BY <1>1, <2>1, <2>3 DEF IngestMerged, IsInOrder
    <2> QED BY <2>2, <2>3, <2>4
  <1>5. ASSUME NEW k \in 0..n, Kept(k)
        PROVE  LET o == f[k].merged
               IN  /\ o \in Seq(Positions) /\ IsInOrder(o)
                   /\ Range(o) \in SUBSET InRuns(inputs) /\ Cardinality(Range(o)) = k
    <2>1. PICK c, o : c = f[k].cursors /\ o = f[k].merged
      OBVIOUS
    <2>2. IngestMerged(inputs, c, o) /\ Len(o) = k
      BY <1>5, <2>1
    <2>3. o \in Seq(Positions) /\ IsInOrder(o)
      BY <2>2 DEF IngestMerged
    <2>4. ASSUME NEW i \in DOMAIN o PROVE o[i] \in InRuns(inputs)
      <3>1. PICK r \in DOMAIN inputs : \E l \in 1..(c[r] - 1) : o[i] = inputs[r][l]
        BY <2>2 DEF IngestMerged
      <3>2. PICK l \in 1..(c[r] - 1) : o[i] = inputs[r][l]
        BY <3>1
      <3>3. c[r] \in 1..(Len(inputs[r]) + 1)
        BY <2>2 DEF IngestMerged
      <3>4. l \in DOMAIN inputs[r]
        BY <1>1, <3>3
      <3> QED BY <3>2, <3>4 DEF InRuns, Range
    <2>5. Range(o) \in SUBSET InRuns(inputs)
      BY <2>4 DEF Range
    <2>6. Cardinality(Range(o)) = k
      BY <2>2, <2>3, InOrderCounts
    <2> QED BY <2>1, <2>3, <2>5, <2>6
  <1>6. ASSUME NEW k \in 0..(n - 1), Kept(k) PROVE Kept(k + 1)
    <2>1. PICK acc : acc = f[k]
      OBVIOUS
    <2>2. IngestMerged(inputs, acc.cursors, acc.merged) /\ Len(acc.merged) = k
      BY <1>6, <2>1
    <2>3. \E r \in DOMAIN inputs : acc.cursors[r] <= Len(inputs[r])
      <3> SUFFICES ASSUME \A r \in DOMAIN inputs : ~(acc.cursors[r] <= Len(inputs[r])) PROVE FALSE
        OBVIOUS
      <3>1. ASSUME NEW r \in DOMAIN inputs, NEW l \in DOMAIN inputs[r]
            PROVE  inputs[r][l] \in Range(acc.merged)
        <4>1. acc.cursors[r] \in 1..(Len(inputs[r]) + 1) /\ ~(acc.cursors[r] <= Len(inputs[r]))
          BY <2>2 DEF IngestMerged
        <4>2. l \in 1..(acc.cursors[r] - 1)
          BY <1>1, <4>1
        <4> QED BY <2>2, <4>2 DEF IngestMerged
      <3>2. InRuns(inputs) \subseteq Range(acc.merged)
        BY <3>1 DEF InRuns, Range
      <3>3. /\ k \in 0..n /\ k # n
            /\ Range(acc.merged) \in SUBSET InRuns(inputs)
            /\ Cardinality(Range(acc.merged)) = k
        <4>1. k \in 0..n /\ k # n
          BY <1>2
        <4> HIDE DEF Kept
        <4> QED BY <1>5, <1>6, <2>1, <4>1
      <3>4. Range(acc.merged) = InRuns(inputs)
        BY <3>2, <3>3
      <3> QED BY <3>3, <3>4
    <2>4. PICK next : next = PopHead(inputs, acc)
      OBVIOUS
    <2>5. IngestMerged(inputs, next.cursors, next.merged) /\ Len(next.merged) = Len(acc.merged) + 1
      BY <2>2, <2>3, <2>4, PopHeadKeeps
    <2>6. f[k + 1] = next
      BY <1>3, <2>1, <2>4
    <2> QED BY <2>2, <2>5, <2>6
  <1> DEFINE Good == {k \in 0..n : Kept(k)}
  <1> HIDE DEF Kept
  <1>7. 0 \in Good /\ \A k \in 0..(n - 1) : k \in Good => k + 1 \in Good
    BY <1>2, <1>4, <1>6
  <1>8. 0..n \subseteq Good
    <2> HIDE DEF Good
    <2> QED BY <1>2, <1>7, UpTo
  <1>9. n \in 0..n /\ Kept(n)
    BY <1>2, <1>8
  <1>10. /\ f[n].merged \in Seq(Positions) /\ IsInOrder(f[n].merged)
         /\ Range(f[n].merged) \in SUBSET InRuns(inputs)
         /\ Cardinality(Range(f[n].merged)) = n
    BY <1>5, <1>9
  <1>11. Range(f[n].merged) = InRuns(inputs)
    BY <1>2, <1>10, FS_Subset
  <1> QED BY <1>10, <1>11

\* A bucket's merge is what the bucket and its runs hold, in order.
LEMMA MergeIs ==
    ASSUME IngestJobOK, NEW key, NEW S,
           BucketHolds(Of(state.runs, key), Of(state.buckets, key), S)
    PROVE  /\ MergeRunsForBucket(key) \in Seq(Positions)
           /\ IsInOrder(MergeRunsForBucket(key))
           /\ Range(MergeRunsForBucket(key)) = S
  <1>1. PICK inputs : inputs = MergeInputs(key)
    OBVIOUS
  <1>2. RunsInOrder(inputs) /\ InRuns(inputs) = S
    BY <1>1, SpillHolds DEF MergeInputs
  <1>3. PICK n : n = Cardinality(InRuns(inputs))
    OBVIOUS
  <1>4. n = Cardinality(UNION {Range(inputs[r]) : r \in DOMAIN inputs})
    <2>1. \A T : Cardinality(T) = Cardinality(T)
      BY DEF Cardinality, Cardinality
    <2> QED BY <1>3, <2>1 DEF InRuns
  <1>5. n \in Nat
    <2>1. \A r \in DOMAIN inputs : inputs[r] \in Seq(Positions)
      BY <1>2 DEF RunsInOrder
    <2>2. InRuns(inputs) \in SUBSET Positions
      BY <2>1 DEF InRuns, Range
    <2>3. Positions = 1..Len(job.events) /\ Len(job.events) \in Nat
      BY DEF Positions, IngestJobOK
    <2>4. IsFiniteSet(Positions)
      BY <2>3, FS_Interval
    <2> QED BY <1>3, <2>2, <2>4, FS_Subset, FS_CardinalityType
  <1>6. PICK f : f = CHOOSE g : IsPops(g, inputs, n)
    OBVIOUS
  <1>7. IsPops(f, inputs, n)
    BY <1>5, <1>6, PopsExist
  <1>8. MergeRunsForBucket(key) = f[n].merged
    BY <1>1, <1>4, <1>6 DEF MergeRunsForBucket, IsPops
  <1> QED BY <1>2, <1>3, <1>7, <1>8, PopsMerge

\* Where a row group may end, and that it cuts an entity only if it is full of it.
LEMMA GroupEndIs ==
    ASSUME IngestJobOK, NEW e \in Seq(Positions), NEW start \in 1..Len(e)
    PROVE  LET end == GroupEnd(e, start)
           IN  /\ end \in start..Len(e) /\ end - start + 1 \in 1..job.rowGroupSize
               /\ end < Len(e) /\ SameEntity(e[end], e[end + 1]) =>
                    /\ end - start + 1 = job.rowGroupSize
                    /\ \A n \in start..end : SameEntity(e[n], e[end + 1])
  <1>1. PICK len \in Nat, size \in Nat \ {0} : len = Len(e) /\ size = job.rowGroupSize
    BY DEF IngestJobOK
  <1>2. start \in Nat \ {0} /\ start <= len
    BY <1>1
  <1>3. PICK raw : raw = Min({start + size - 1, len})
    OBVIOUS
  <1>4. raw \in start..len /\ raw <= start + size - 1 /\ (raw < len => raw = start + size - 1)
    <2>1. raw = CHOOSE x \in {start + size - 1, len} : \A y \in {start + size - 1, len} : x <= y
      BY <1>3 DEF Min
    <2>2. \E x \in {start + size - 1, len} : \A y \in {start + size - 1, len} : x <= y
      BY <1>1, <1>2
    <2>3. raw \in {start + size - 1, len} /\ \A y \in {start + size - 1, len} : raw <= y
      BY <2>1, <2>2
    <2> QED BY <1>1, <1>2, <2>3
  <1>5. PICK back : back = {n \in start..raw : ~SameEntity(e[n], e[raw])}
    OBVIOUS
  <1>6. GroupEnd(e, start) =
            IF raw < len /\ SameEntity(e[raw], e[raw + 1]) /\ back # {}
            THEN Max(back) ELSE raw
    BY <1>1, <1>3, <1>5 DEF GroupEnd
  <1>7. \A a, b, c : /\ SameEntity(a, a)
                     /\ SameEntity(a, b) => SameEntity(b, a)
                     /\ SameEntity(a, b) /\ SameEntity(b, c) => SameEntity(a, c)
    BY DEF SameEntity
  <1>8. CASE raw < len /\ SameEntity(e[raw], e[raw + 1]) /\ back # {}
    <2>1. PICK m : m = Max(back)
      OBVIOUS
    <2>2. m \in back /\ \A n \in back : m >= n
      <3>1. back \in SUBSET Int /\ IsFiniteSet(back)
        <4>1. IsFiniteSet(start..raw) /\ back \in SUBSET (start..raw)
          BY <1>2, <1>4, <1>5, FS_Interval
        <4>2. back \in SUBSET Int
          BY <1>2, <1>4, <1>5
        <4> QED BY <4>1, <4>2, FS_Subset
      <3>2. \E t \in back : \A u \in back : t >= u
        BY <1>8, <3>1, LeastAndGreatest
      <3>3. m = CHOOSE x \in back : \A y \in back : x >= y
        BY <2>1 DEF Max
      <3> QED BY <3>2, <3>3
    <2>3. m \in start..raw /\ ~SameEntity(e[m], e[raw])
      BY <1>5, <2>2
    <2>4. m # raw
      BY <1>7, <2>3
    <2>5. m + 1 \in start..raw /\ ~(m >= m + 1)
      BY <1>2, <1>4, <2>3, <2>4
    <2>6. SameEntity(e[m + 1], e[raw])
      BY <1>5, <2>2, <2>5
    <2>7. ~SameEntity(e[m], e[m + 1])
      BY <1>7, <2>3, <2>6
    <2>8. m \in start..len /\ m - start + 1 \in 1..size
      BY <1>1, <1>2, <1>4, <2>3
    <2> QED BY <1>1, <1>6, <1>8, <2>1, <2>7, <2>8
  <1>9. CASE ~(raw < len /\ SameEntity(e[raw], e[raw + 1]) /\ back # {})
    <2>1. GroupEnd(e, start) = raw
      BY <1>6, <1>9
    <2>2. raw \in start..len /\ raw - start + 1 \in 1..size
      BY <1>1, <1>2, <1>4
    <2>3. ASSUME raw < len, SameEntity(e[raw], e[raw + 1])
          PROVE  /\ raw - start + 1 = size
                 /\ \A n \in start..raw : SameEntity(e[n], e[raw + 1])
      <3>1. raw - start + 1 = size
        BY <1>1, <1>2, <1>4, <2>3
      <3>2. back = {}
        BY <1>9, <2>3
      <3>3. \A n \in start..raw : SameEntity(e[n], e[raw])
        BY <1>5, <3>2
      <3> QED BY <1>7, <2>3, <3>1, <3>3
    <2> QED BY <1>1, <2>1, <2>2, <2>3
  <1> QED BY <1>8, <1>9

\* The starts of the row groups that begin at one of the first n positions.
IsStarts(f, e, n) ==
    f = [k \in 1..n |->
            IF k = 1 THEN <<1>>
            ELSE LET last == f[k - 1][Len(f[k - 1])]
                 IN  IF k = GroupEnd(e, last) + 1 THEN Append(f[k - 1], k) ELSE f[k - 1]]

\* The recursion that finds the starts has a solution,
LEMMA StartsExist ==
    ASSUME NEW e, NEW n \in Nat
    PROVE  \E f : IsStarts(f, e, n)
  <1> DEFINE Then(s, k) == LET last == s[Len(s)]
                           IN  IF k = GroupEnd(e, last) + 1 THEN Append(s, k) ELSE s
             Good == {m \in 0..n : \E f : IsStarts(f, e, m)}
  <1>1. \A f, m : IsStarts(f, e, m) <=> f = [k \in 1..m |-> IF k = 1 THEN <<1>> ELSE Then(f[k - 1], k)]
    BY DEF IsStarts
  <1> HIDE DEF Then
  <1>2. \E f : IsStarts(f, e, 0)
    <2> DEFINE f == [k \in 1..0 |-> <<1>>]
    <2>1. f = [k \in 1..0 |-> IF k = 1 THEN <<1>> ELSE Then(f[k - 1], k)]
      OBVIOUS
    <2> QED BY <1>1, <2>1
  <1>3. ASSUME NEW m \in 0..(n - 1), NEW f, IsStarts(f, e, m)
        PROVE  \E g : IsStarts(g, e, m + 1)
    <2> DEFINE g == [k \in 1..(m + 1) |->
                        IF k <= m THEN f[k] ELSE IF k = 1 THEN <<1>> ELSE Then(f[k - 1], k)]
    <2>1. \A k \in 1..m : f[k] = IF k = 1 THEN <<1>> ELSE Then(f[k - 1], k)
      BY <1>1, <1>3
    <2>2. ASSUME NEW k \in 1..(m + 1)
          PROVE  g[k] = IF k = 1 THEN <<1>> ELSE Then(g[k - 1], k)
      <3>1. CASE k <= m
        <4>1. k \in 1..m /\ (k # 1 => k - 1 \in 1..(m + 1) /\ k - 1 <= m)
          BY <3>1
        <4>2. g[k] = f[k] /\ (k # 1 => g[k - 1] = f[k - 1])
          BY <3>1, <4>1
        <4> HIDE DEF g
        <4> QED BY <2>1, <4>1, <4>2
      <3>2. CASE ~(k <= m)
        <4>1. k # 1 => k - 1 \in 1..(m + 1) /\ k - 1 <= m
          BY <3>2
        <4>2. /\ g[k] = IF k = 1 THEN <<1>> ELSE Then(f[k - 1], k)
              /\ k # 1 => g[k - 1] = f[k - 1]
          BY <3>2, <4>1
        <4> HIDE DEF g
        <4> QED BY <4>1, <4>2
      <3> QED BY <3>1, <3>2
    <2>3. g = [k \in 1..(m + 1) |-> g[k]]
      OBVIOUS
    <2> HIDE DEF g
    <2>4. g = [k \in 1..(m + 1) |-> IF k = 1 THEN <<1>> ELSE Then(g[k - 1], k)]
      BY <2>2, <2>3
    <2> QED BY <1>1, <2>4
  <1>4. 0 \in Good /\ \A k \in 0..(n - 1) : k \in Good => k + 1 \in Good
    BY <1>2, <1>3
  <1>5. 0..n \subseteq Good
    <2> HIDE DEF Good
    <2> QED BY <1>4, UpTo
  <1> QED BY <1>5

\* The starts of groups of which the last holds position k.
StartsReach(s, e, k) ==
    /\ s \in Seq(1..Len(e)) /\ Len(s) # 0 /\ s[1] = 1
    /\ \A g \in 1..(Len(s) - 1) : s[g + 1] = GroupEnd(e, s[g]) + 1
    /\ k \in s[Len(s)]..GroupEnd(e, s[Len(s)])

\* and its last value has the starts of all row groups.
LEMMA StartsReachAll ==
    ASSUME IngestJobOK, NEW e \in Seq(Positions), Len(e) # 0, NEW f, IsStarts(f, e, Len(e))
    PROVE  StartsReach(f[Len(e)], e, Len(e))
  <1>1. PICK n \in Nat \ {0} : n = Len(e)
    OBVIOUS
  <1>2. \A k \in 1..n : f[k] = IF k = 1 THEN <<1>>
            ELSE IF k = GroupEnd(e, f[k - 1][Len(f[k - 1])]) + 1
                 THEN Append(f[k - 1], k) ELSE f[k - 1]
    BY <1>1 DEF IsStarts
  <1>3. StartsReach(f[1], e, 1)
    <2>1. 1 \in 1..n
      BY <1>1
    <2>2. f[1] = <<1>>
      BY <1>2, <2>1
    <2>3. <<1>> \in Seq(1..n) /\ Len(<<1>>) = 1 /\ <<1>>[1] = 1
      BY <2>1
    <2>4. GroupEnd(e, 1) \in 1..n
      BY <1>1, <2>1, GroupEndIs
    <2>5. 1 \in 1..GroupEnd(e, 1) /\ 1..(1 - 1) = {}
      BY <2>4
    <2> QED BY <1>1, <2>2, <2>3, <2>5 DEF StartsReach
  <1>4. ASSUME NEW k \in 1..(n - 1), StartsReach(f[k], e, k) PROVE StartsReach(f[k + 1], e, k + 1)
    <2>1. PICK s : s = f[k]
      OBVIOUS
    <2>2. /\ s \in Seq(1..n) /\ Len(s) # 0 /\ s[1] = 1
          /\ \A g \in 1..(Len(s) - 1) : s[g + 1] = GroupEnd(e, s[g]) + 1
      BY <1>1, <1>4, <2>1 DEF StartsReach
    <2>3. PICK len \in Nat \ {0} : len = Len(s) /\ DOMAIN s = 1..len /\ \A g \in 1..len : s[g] \in 1..n
      <3>1. Len(s) \in Nat \ {0} /\ DOMAIN s = 1..Len(s) /\ \A g \in 1..Len(s) : s[g] \in 1..n
        BY <2>2
      <3> QED BY <3>1
    <2>4. PICK last \in 1..n : last = s[Len(s)]
      BY <2>3
    <2>5. PICK end \in last..n : end = GroupEnd(e, last)
      BY <1>1, GroupEndIs
    <2>6. k \in last..end
      BY <1>4, <2>1, <2>4, <2>5 DEF StartsReach
    <2>7. f[k + 1] = IF k + 1 = end + 1 THEN Append(s, k + 1) ELSE s
      <3>1. k + 1 \in 1..n /\ k + 1 # 1 /\ (k + 1) - 1 = k
        OBVIOUS
      <3> QED BY <1>2, <2>1, <2>4, <2>5, <3>1
    <2>8. CASE k + 1 # end + 1
      <3>1. k + 1 \in last..end
        BY <2>6, <2>8
      <3>2. f[k + 1] = s
        BY <2>7, <2>8
      <3> QED BY <1>1, <2>2, <2>4, <2>5, <3>1, <3>2 DEF StartsReach
    <2>9. CASE k + 1 = end + 1
      <3>1. k + 1 \in 1..n
        OBVIOUS
      <3>2. PICK t \in Seq(1..n) : t = Append(s, k + 1)
        BY <2>2, <3>1, AppendProperties
      <3>3. Len(t) = len + 1 /\ (\A g \in 1..len : t[g] = s[g]) /\ t[len + 1] = k + 1
        BY <2>2, <2>3, <3>1, <3>2, AppendProperties
      <3>4. PICK more \in (k + 1)..n : more = GroupEnd(e, k + 1)
        BY <1>1, <3>1, GroupEndIs
      <3>5. ASSUME NEW g \in 1..len PROVE t[g + 1] = GroupEnd(e, t[g]) + 1
        <4>1. CASE g = len
          BY <2>3, <2>4, <2>5, <2>9, <3>3, <4>1
        <4>2. CASE g # len
          <5>1. g \in 1..(len - 1) /\ g + 1 \in 1..len
            BY <4>2
          <5> QED BY <2>2, <2>3, <3>3, <5>1
        <4> QED BY <4>1, <4>2
      <3>6. t[1] = 1
        <4>1. 1 \in 1..len
          BY <2>3
        <4> QED BY <2>2, <3>3, <4>1
      <3>7. k + 1 \in (k + 1)..more /\ len + 1 # 0 /\ (len + 1) - 1 = len
        BY <3>4
      <3>8. f[k + 1] = t
        BY <2>7, <2>9, <3>2
      <3> QED BY <1>1, <3>2, <3>3, <3>4, <3>5, <3>6, <3>7, <3>8 DEF StartsReach
    <2> QED BY <2>8, <2>9
  <1> DEFINE Good == {k \in 0..(n - 1) : StartsReach(f[k + 1], e, k + 1)}
  <1>5. 0 \in Good
    BY <1>1, <1>3
  <1>6. \A k \in 0..((n - 1) - 1) : k \in Good => k + 1 \in Good
    <2> SUFFICES ASSUME NEW k \in 0..((n - 1) - 1), StartsReach(f[k + 1], e, k + 1)
                 PROVE  k + 1 \in Good
      OBVIOUS
    <2>1. k + 1 \in 1..(n - 1) /\ k + 1 \in 0..(n - 1)
      OBVIOUS
    <2> QED BY <1>4, <2>1
  <1>7. 0..(n - 1) \subseteq Good
    <2>1. n - 1 \in Nat
      OBVIOUS
    <2> HIDE DEF Good
    <2> QED BY <1>5, <1>6, <2>1, UpTo
  <1>8. n - 1 \in 0..(n - 1) /\ (n - 1) + 1 = n
    OBVIOUS
  <1>9. StartsReach(f[n], e, n)
    BY <1>7, <1>8
  <1> QED BY <1>1, <1>9

\* The row groups of a segment are its events, cut where an entity may be cut.
LEMMA GroupsAre ==
    ASSUME IngestJobOK, NEW e \in Seq(Positions), Len(e) # 0
    PROVE  /\ PlanRowGroups(e) \in Seq(Seq(Positions))
           /\ FlattenSeq(PlanRowGroups(e)) = e
           /\ GroupsKeepEntities(PlanRowGroups(e))
  <1>1. PICK n \in Nat \ {0} : n = Len(e)
    OBVIOUS
  <1>2. \A i \in 1..n : e[i] \in Positions
    BY <1>1
  <1>3. PICK f : f = CHOOSE g : IsStarts(g, e, Len(e))
    OBVIOUS
  <1>4. IsStarts(f, e, n)
    <2>1. IsStarts(f, e, Len(e))
      BY <1>3, StartsExist
    <2> QED BY <1>1, <2>1
  <1>5. PICK s : s = f[n]
    OBVIOUS
  <1>6. StartsReach(s, e, n)
    BY <1>1, <1>4, <1>5, StartsReachAll
  <1>7. PICK len \in Nat \ {0} : len = Len(s)
    BY <1>6 DEF StartsReach
  <1>8. /\ DOMAIN s = 1..len /\ s[1] = 1 /\ \A g \in 1..len : s[g] \in 1..n
        /\ \A g \in 1..(len - 1) : s[g + 1] = GroupEnd(e, s[g]) + 1
    BY <1>1, <1>6, <1>7 DEF StartsReach
  <1>9. PICK end : end = [g \in 1..len |-> GroupEnd(e, s[g])]
    OBVIOUS
  <1>10. PICK groups : groups = PlanRowGroups(e)
    OBVIOUS
  <1>11. groups = [g \in 1..len |-> SubSeq(e, s[g], end[g])]
    <2>1. PICK all : all = (CHOOSE g : IsStarts(g, e, Len(e)))[Len(e)]
      OBVIOUS
    <2>2. groups = [g \in DOMAIN all |-> SubSeq(e, all[g], GroupEnd(e, all[g]))]
      BY <1>10, <2>1 DEF PlanRowGroups, IsStarts
    <2>3. all = s
      BY <1>1, <1>3, <1>5, <2>1
    <2>4. groups = [g \in DOMAIN s |-> SubSeq(e, s[g], GroupEnd(e, s[g]))]
      BY <2>2, <2>3
    <2> QED BY <1>8, <1>9, <2>4
  <1>12. ASSUME NEW g \in 1..len
         PROVE  /\ s[g] \in 1..n /\ end[g] \in s[g]..n
                /\ end[g] - s[g] + 1 \in 1..job.rowGroupSize
                /\ end[g] < n /\ SameEntity(e[end[g]], e[end[g] + 1]) =>
                    /\ end[g] - s[g] + 1 = job.rowGroupSize
                    /\ \A i \in s[g]..end[g] : SameEntity(e[i], e[end[g] + 1])
    <2>1. s[g] \in 1..Len(e) /\ end[g] = GroupEnd(e, s[g])
      BY <1>1, <1>8, <1>9
    <2> QED BY <1>1, <2>1, GroupEndIs
  <1>13. /\ \A g \in 1..(len - 1) : s[g + 1] = end[g] + 1
         /\ end[len] = n
    <2>1. \A g \in 1..(len - 1) : g \in 1..len
      OBVIOUS
    <2>2. \A g \in 1..(len - 1) : s[g + 1] = end[g] + 1
      BY <1>8, <1>9, <2>1
    <2>3. len \in 1..len /\ end[len] \in s[len]..n /\ s[len] \in 1..n
      BY <1>12
    <2>4. n \in s[len]..end[len]
      BY <1>6, <1>7, <1>9, <2>3 DEF StartsReach
    <2>5. end[len] \in Int /\ end[len] <= n /\ n <= end[len]
      BY <2>3, <2>4
    <2> QED BY <2>2, <2>5
  <1>14. ASSUME NEW g \in 1..len
         PROVE  /\ groups[g] \in Seq(Positions) /\ Len(groups[g]) = end[g] - s[g] + 1
                /\ \A i \in 1..(end[g] - s[g] + 1) : groups[g][i] = e[s[g] + i - 1]
    <2>1. PICK a \in 1..n, b \in 1..n : a = s[g] /\ b = end[g] /\ a <= b
      <3>1. s[g] \in 1..n /\ end[g] \in s[g]..n
        BY <1>12
      <3>2. end[g] \in 1..n /\ s[g] <= end[g]
        BY <3>1
      <3> QED BY <3>1, <3>2
    <2>2. groups[g] = SubSeq(e, a, b)
      BY <1>11, <2>1
    <2>3. a \in Int /\ b \in Int /\ a <= b /\ \A i \in a..b : e[i] \in Positions
      BY <1>2, <2>1
    <2>4. /\ SubSeq(e, a, b) \in Seq(Positions) /\ Len(SubSeq(e, a, b)) = b - a + 1
          /\ \A i \in 1..(b - a + 1) : SubSeq(e, a, b)[i] = e[a + i - 1]
      BY <2>3, SubSeqProperties
    <2> QED BY <2>1, <2>2, <2>4
  <1>15. groups \in Seq(Seq(Positions)) /\ Len(groups) = len /\ DOMAIN groups = 1..len
    BY <1>11, <1>14
  <1>16. FlattenSeq(groups) = e
    <2>1. PICK flat : flat = [g \in 1..len |-> SubSeq(e, 1, end[g])]
      OBVIOUS
    <2>2. ASSUME NEW g \in 1..len
          PROVE  flat[g] = IF g = 1 THEN groups[g] ELSE flat[g - 1] \o groups[g]
      <3>1. CASE g = 1
        BY <1>8, <1>11, <2>1, <3>1
      <3>2. CASE g # 1
        <4>1. g - 1 \in 1..(len - 1) /\ g - 1 \in 1..len /\ (g - 1) + 1 = g
          BY <3>2
        <4>2. PICK k \in 1..n : k = end[g - 1]
          BY <1>12, <4>1
        <4>3. s[g] = k + 1 /\ end[g] \in (k + 1)..n
          BY <1>12, <1>13, <4>1, <4>2
        <4>4. PICK m \in k..Len(e) : m = end[g]
          BY <1>1, <4>2, <4>3
        <4>5. 1 \in 1..(Len(e) + 1) /\ k \in (1 - 1)..Len(e)
          BY <1>1, <4>2
        <4>6. SubSeq(e, 1, k) \o SubSeq(e, k + 1, m) = SubSeq(e, 1, m)
          BY <4>4, <4>5, ConcatAdjacentSubSeq
        <4> QED BY <1>11, <2>1, <3>2, <4>1, <4>2, <4>3, <4>4, <4>6
      <3> QED BY <3>1, <3>2
    <2>3. IsFlat(flat, groups, len)
      <3>1. flat = [g \in 1..len |-> flat[g]]
        BY <2>1
      <3>2. flat = [g \in 1..len |-> IF g = 1 THEN groups[g] ELSE flat[g - 1] \o groups[g]]
        BY <2>2, <3>1
      <3> QED BY <3>2 DEF IsFlat
    <2>4. FlattenSeq(groups) = (CHOOSE g : IsFlat(g, groups, len))[len]
      BY <1>15 DEF FlattenSeq, IsFlat
    <2>5. IsFlat(CHOOSE g : IsFlat(g, groups, len), groups, len)
      BY <2>3
    <2>6. (CHOOSE g : IsFlat(g, groups, len)) = flat
      BY <2>3, <2>5, FlatUnique
    <2>7. flat[len] = SubSeq(e, 1, n)
      BY <1>13, <2>1
    <2>8. SubSeq(e, 1, n) = e
      BY <1>1, SubSeqFull
    <2> QED BY <2>4, <2>6, <2>7, <2>8
  <1>17. GroupsKeepEntities(groups)
    <2> SUFFICES ASSUME NEW g \in 1..len
                 PROVE  /\ Len(groups[g]) \in 1..job.rowGroupSize
                        /\ g < len /\ SameEntity(groups[g][Len(groups[g])], groups[g + 1][1]) =>
                            /\ Len(groups[g]) = job.rowGroupSize
                            /\ \A i \in Range(groups[g]) : SameEntity(i, groups[g + 1][1])
      BY <1>15 DEF GroupsKeepEntities
    <2>1. Len(groups[g]) \in 1..job.rowGroupSize
      BY <1>12, <1>14
    <2>2. ASSUME g < len, SameEntity(groups[g][Len(groups[g])], groups[g + 1][1])
          PROVE  /\ Len(groups[g]) = job.rowGroupSize
                 /\ \A i \in Range(groups[g]) : SameEntity(i, groups[g + 1][1])
      <3>1. g \in 1..(len - 1) /\ g + 1 \in 1..len
        BY <2>2
      <3>2. PICK a \in 1..n, b \in 1..n : a = s[g] /\ b = end[g] /\ a <= b
        <4>1. s[g] \in 1..n /\ end[g] \in s[g]..n
          BY <1>12
        <4>2. end[g] \in 1..n /\ s[g] <= end[g]
          BY <4>1
        <4> QED BY <4>1, <4>2
      <3>3. PICK l \in Nat \ {0} : l = b - a + 1
        <4>1. b - a + 1 \in Nat \ {0}
          BY <3>2
        <4> QED BY <4>1
      <3>4. Len(groups[g]) = l /\ groups[g] \in Seq(Positions) /\ \A i \in 1..l : groups[g][i] = e[a + i - 1]
        BY <1>14, <3>2, <3>3
      <3>5. groups[g][l] = e[b]
        <4>1. l \in 1..l /\ a + l - 1 = b
          BY <3>3
        <4> QED BY <3>4, <4>1
      <3>6. s[g + 1] = b + 1 /\ b < n
        <4>1. s[g + 1] = b + 1 /\ s[g + 1] \in 1..n
          BY <1>12, <1>13, <3>1, <3>2
        <4> QED BY <4>1
      <3>7. groups[g + 1][1] = e[b + 1]
        <4>1. PICK c \in (b + 1)..n : c = end[g + 1]
          BY <1>12, <3>1, <3>6
        <4>2. 1 \in 1..(c - (b + 1) + 1) /\ (b + 1) + 1 - 1 = b + 1
          BY <4>1
        <4> QED BY <1>14, <3>1, <3>6, <4>1, <4>2
      <3>8. SameEntity(e[b], e[b + 1])
        BY <2>2, <3>4, <3>5, <3>7
      <3>9. l = job.rowGroupSize /\ \A i \in a..b : SameEntity(e[i], e[b + 1])
        BY <1>12, <3>2, <3>3, <3>6, <3>8
      <3>10. \A i \in 1..l : a + i - 1 \in a..b
        BY <3>3
      <3>11. DOMAIN groups[g] = 1..l
        BY <3>4
      <3> QED BY <3>4, <3>7, <3>9, <3>10, <3>11 DEF Range
    <2> QED BY <2>1, <2>2
  <1> QED BY <1>10, <1>15, <1>16, <1>17

-----------------------------------------------------------------------------
(* INSERT: the bytes in the buffer *)

EventBytes == [i \in Positions |-> Event(i).bytes]

\* The bytes of some events, and of some buckets together.
BytesOf(bytes, S) == Cardinality(Units(bytes, S))

Load(bytes, buckets) ==
    BytesOf([k \in DOMAIN buckets |-> BytesOf(bytes, Range(buckets[k]))], DOMAIN buckets)

BucketsOK(buckets) ==
    /\ buckets = [k \in DOMAIN buckets |-> buckets[k]] /\ IsFiniteSet(DOMAIN buckets)
    /\ \A k \in DOMAIN buckets : buckets[k] \in Seq(Positions)

\* A sum over a set, as the community modules define it, counts its units.
LEMMA CountOfSolution ==
    ASSUME NEW S, IsFiniteSet(S), NEW h, \A x \in S : h[x] \in Nat,
           NEW g,
           IsSumFun(g, h, S)
    PROVE  g[S] = Cardinality(Units(h, S))
  <1> DEFINE k == [s \in SUBSET S |-> Cardinality(Units(h, s))]
  <1>1. IsSumFun(k, h, S)
    BY CountSolves
  <1> HIDE DEF k
  <1>2. g[S] = k[S]
    BY <1>1, OneSolution
  <1> QED BY <1>2 DEF k

\* The bytes of an event are a number.
LEMMA EventBytesAre ==
    ASSUME IngestJobOK
    PROVE  /\ IsFiniteSet(Positions)
           /\ \A i \in Positions : EventBytes[i] \in Nat /\ EventBytes[i] = Event(i).bytes
  <1>1. Positions = 1..Len(job.events) /\ Len(job.events) \in Nat
    BY DEF Positions, IngestJobOK
  <1>2. \A i \in Positions : job.events[i] \in SourceEvent
    BY DEF Positions, IngestJobOK
  <1>3. \A i \in Positions : Event(i).bytes \in Nat
    BY <1>2 DEF SourceEvent, Event
  <1>4. IsFiniteSet(Positions)
    BY <1>1, FS_Interval
  <1> QED BY <1>3, <1>4 DEF EventBytes

\* The bytes of a bucket are the number of units of its events.
LEMMA BytesAre ==
    ASSUME IngestJobOK, NEW b \in Seq(Positions)
    PROVE  /\ Bytes(b) = BytesOf(EventBytes, Range(b))
           /\ BytesOf(EventBytes, Range(b)) \in Nat
           /\ Range(b) \in SUBSET Positions /\ IsFiniteSet(Range(b))
  <1>1. PICK S : S = Range(b)
    OBVIOUS
  <1>2. S \in SUBSET Positions
    BY <1>1 DEF Range
  <1>3. IsFiniteSet(S) /\ \A i \in S : EventBytes[i] \in Nat /\ EventBytes[i] = Event(i).bytes
    BY <1>2, EventBytesAre, FS_Subset
  <1> DEFINE P(g) == g = [s \in SUBSET S |-> IF s = {} THEN 0
                    ELSE LET x == CHOOSE x \in s : TRUE IN Event(x).bytes + g[s \ {x}]]
  <1>4. Bytes(b) = (CHOOSE g : P(g))[S]
    BY <1>1 DEF Bytes, MapThenSumSet, MapThenFoldSet
  <1>5. ASSUME NEW g PROVE P(g) <=> IsSumFun(g, EventBytes, S)
    <2>1. ASSUME NEW s \in SUBSET S, s # {}
          PROVE  LET x == CHOOSE x \in s : TRUE
                 IN  Event(x).bytes + g[s \ {x}] = EventBytes[x] + g[s \ {x}]
      <3>1. PICK x : x = CHOOSE y \in s : TRUE
        OBVIOUS
      <3>2. x \in S
        BY <2>1, <3>1
      <3> QED BY <1>3, <3>1, <3>2
    <2> QED BY <2>1 DEF IsSumFun
  <1> HIDE DEF P
  <1>6. \E g : P(g)
    BY <1>3, <1>5, CountSolves
  <1>7. PICK g : g = CHOOSE k : P(k)
    OBVIOUS
  <1>8. IsSumFun(g, EventBytes, S)
    BY <1>5, <1>6, <1>7
  <1>9. g[S] = Cardinality(Units(EventBytes, S))
    BY <1>3, <1>8, CountOfSolution
  <1>10. Cardinality(Units(EventBytes, S)) \in Nat
    BY <1>3, UnitsFinite
  <1> QED BY <1>1, <1>2, <1>3, <1>4, <1>7, <1>9, <1>10 DEF BytesOf

\* What is in the buffer is counted bucket by bucket,
LEMMA LoadIs ==
    ASSUME IngestJobOK, NEW buckets, BucketsOK(buckets)
    PROVE  /\ MapThenSumSet(LAMBDA k : Bytes(buckets[k]), DOMAIN buckets)
                = Load(EventBytes, buckets)
           /\ Load(EventBytes, buckets) \in Nat
  <1>1. PICK S, h : S = DOMAIN buckets
                    /\ h = [k \in DOMAIN buckets |-> BytesOf(EventBytes, Range(buckets[k]))]
    OBVIOUS
  <1>2. IsFiniteSet(S) /\ \A k \in S : h[k] \in Nat /\ Bytes(buckets[k]) = h[k]
    <2>1. \A k \in S : buckets[k] \in Seq(Positions)
      BY <1>1 DEF BucketsOK
    <2>2. \A k \in S : /\ BytesOf(EventBytes, Range(buckets[k])) \in Nat
                       /\ Bytes(buckets[k]) = BytesOf(EventBytes, Range(buckets[k]))
      BY <2>1, BytesAre
    <2> QED BY <1>1, <2>2 DEF BucketsOK
  <1> DEFINE P(g) == g = [s \in SUBSET S |-> IF s = {} THEN 0
                    ELSE LET x == CHOOSE x \in s : TRUE IN Bytes(buckets[x]) + g[s \ {x}]]
  <1>3. MapThenSumSet(LAMBDA k : Bytes(buckets[k]), DOMAIN buckets) = (CHOOSE g : P(g))[S]
    BY <1>1 DEF MapThenSumSet, MapThenFoldSet
  <1>4. ASSUME NEW g PROVE P(g) <=> IsSumFun(g, h, S)
    <2>1. ASSUME NEW s \in SUBSET S, s # {}
          PROVE  LET x == CHOOSE x \in s : TRUE
                 IN  Bytes(buckets[x]) + g[s \ {x}] = h[x] + g[s \ {x}]
      <3>1. PICK x : x = CHOOSE y \in s : TRUE
        OBVIOUS
      <3>2. x \in S
        BY <2>1, <3>1
      <3> QED BY <1>2, <3>1, <3>2
    <2> QED BY <2>1 DEF IsSumFun
  <1> HIDE DEF P
  <1>5. \E g : P(g)
    BY <1>2, <1>4, CountSolves
  <1>6. PICK g : g = CHOOSE k : P(k)
    OBVIOUS
  <1>7. IsSumFun(g, h, S)
    BY <1>4, <1>5, <1>6
  <1>8. g[S] = Cardinality(Units(h, S))
    BY <1>2, <1>7, CountOfSolution
  <1>9. Cardinality(Units(h, S)) \in Nat
    BY <1>2, UnitsFinite
  <1>10. Load(EventBytes, buckets) = Cardinality(Units(h, S))
    BY <1>1 DEF Load, BytesOf
  <1> QED BY <1>3, <1>6, <1>8, <1>9, <1>10

\* so that a bucket's bytes leave with it,
LEMMA LoadSplit ==
    ASSUME IngestJobOK, NEW buckets, BucketsOK(buckets), NEW t \in DOMAIN buckets
    PROVE  /\ BucketsOK(Without(buckets, t))
           /\ Load(EventBytes, buckets) = BytesOf(EventBytes, Range(buckets[t]))
                                          + Load(EventBytes, Without(buckets, t))
           /\ BytesOf(EventBytes, Range(buckets[t])) \in Nat
           /\ Load(EventBytes, Without(buckets, t)) \in Nat
  <1>1. PICK S, h : S = DOMAIN buckets
                    /\ h = [k \in DOMAIN buckets |-> BytesOf(EventBytes, Range(buckets[k]))]
    OBVIOUS
  <1>2. IsFiniteSet(S) /\ t \in S /\ \A k \in S : h[k] \in Nat
    <2>1. \A k \in S : buckets[k] \in Seq(Positions)
      BY <1>1 DEF BucketsOK
    <2>2. \A k \in S : BytesOf(EventBytes, Range(buckets[k])) \in Nat
      BY <2>1, BytesAre
    <2> QED BY <1>1, <2>2 DEF BucketsOK
  <1>3. PICK less : less = Without(buckets, t)
    OBVIOUS
  <1>4. DOMAIN less = S \ {t} /\ \A k \in S \ {t} : less[k] = buckets[k]
    BY <1>1, <1>3 DEF Without
  <1>5. BucketsOK(less)
    <2>1. IsFiniteSet(S \ {t})
      BY <1>2, FS_RemoveElement
    <2>2. less = [k \in DOMAIN less |-> less[k]]
      BY <1>3 DEF Without
    <2> QED BY <1>1, <1>4, <2>1, <2>2 DEF BucketsOK
  <1>6. PICK l : l = [k \in DOMAIN less |-> BytesOf(EventBytes, Range(less[k]))]
    OBVIOUS
  <1>7. \A k \in S \ {t} : l[k] = h[k]
    BY <1>1, <1>4, <1>6
  <1>8. Units(l, S \ {t}) = Units(h, S \ {t})
    <2>1. \A k \in S \ {t} : UnitsOf(l, k) = UnitsOf(h, k)
      BY <1>7 DEF UnitsOf
    <2> QED BY <2>1 DEF Units
  <1>9. Cardinality(Units(h, S)) = h[t] + Cardinality(Units(h, S \ {t}))
    BY <1>2, UnitsSplit
  <1>10. Load(EventBytes, buckets) = Cardinality(Units(h, S))
    BY <1>1 DEF Load, BytesOf
  <1>11. Load(EventBytes, less) = Cardinality(Units(l, S \ {t}))
    BY <1>4, <1>6 DEF Load, BytesOf
  <1>12. h[t] = BytesOf(EventBytes, Range(buckets[t]))
    BY <1>1
  <1>13. Load(EventBytes, less) \in Nat
    BY <1>5, LoadIs
  <1> QED BY <1>2, <1>3, <1>5, <1>8, <1>9, <1>10, <1>11, <1>12, <1>13

\* and an event's bytes come with it.
LEMMA LoadPush ==
    ASSUME IngestJobOK, NEW buckets, BucketsOK(buckets), NEW key, NEW i \in Positions,
           i \notin Range(Of(buckets, key)),
           Range(Append(Of(buckets, key), i))
                = Range(Of(buckets, key)) \cup {i}
    PROVE  LET all == With(buckets, key, Append(Of(buckets, key), i))
           IN  /\ BucketsOK(all)
               /\ Load(EventBytes, all) = Load(EventBytes, buckets) + EventBytes[i]
  <1>1. PICK b : b = Of(buckets, key)
    OBVIOUS
  <1>2. b \in Seq(Positions)
    BY <1>1, EmptySeq DEF Of, BucketsOK
  <1>3. PICK more \in Seq(Positions) : more = Append(b, i)
    BY <1>2, AppendProperties
  <1>4. PICK all : all = With(buckets, key, more)
    OBVIOUS
  <1>5. /\ all = [k \in DOMAIN all |-> all[k]] /\ DOMAIN all = DOMAIN buckets \cup {key}
        /\ all[key] = more /\ \A k \in DOMAIN buckets \ {key} : all[k] = buckets[k]
    BY <1>4 DEF With
  <1>6. BucketsOK(all)
    <2>1. IsFiniteSet(DOMAIN buckets \cup {key})
      BY FS_AddElement DEF BucketsOK
    <2>2. \A k \in DOMAIN all : all[k] \in Seq(Positions)
      BY <1>3, <1>5 DEF BucketsOK
    <2> QED BY <1>5, <2>1, <2>2 DEF BucketsOK
  <1>7. PICK less : less = Without(buckets, key)
    OBVIOUS
  <1>8. Without(all, key) = less
    <2>1. Without(all, key) = [k \in (DOMAIN buckets \cup {key}) \ {key} |-> all[k]]
      BY <1>5 DEF Without
    <2>2. (DOMAIN buckets \cup {key}) \ {key} = DOMAIN buckets \ {key}
      OBVIOUS
    <2>3. less = [k \in DOMAIN buckets \ {key} |-> buckets[k]]
      BY <1>7 DEF Without
    <2> QED BY <1>5, <2>1, <2>2, <2>3
  <1>9. /\ Load(EventBytes, all) = BytesOf(EventBytes, Range(more)) + Load(EventBytes, less)
        /\ Load(EventBytes, less) \in Nat
    <2>1. key \in DOMAIN all
      BY <1>5
    <2> QED BY <1>5, <1>6, <1>8, <2>1, LoadSplit
  <1>10. Load(EventBytes, buckets) = BytesOf(EventBytes, Range(b)) + Load(EventBytes, less)
    <2>1. CASE key \in DOMAIN buckets
      BY <1>1, <1>7, <2>1, LoadSplit DEF Of
    <2>2. CASE key \notin DOMAIN buckets
      <3>1. DOMAIN buckets \ {key} = DOMAIN buckets
        BY <2>2
      <3>2. less = buckets
        BY <1>7, <3>1 DEF BucketsOK, Without
      <3>3. Range(b) = {}
        BY <1>1, <2>2, EmptySeq DEF Of, Range
      <3>4. BytesOf(EventBytes, {}) = 0
        <4>1. Units(EventBytes, {}) = {}
          BY DEF Units
        <4> QED BY <4>1, FS_EmptySet DEF BytesOf
      <3> QED BY <1>9, <3>2, <3>3, <3>4
    <2> QED BY <2>1, <2>2
  <1>11. /\ BytesOf(EventBytes, Range(more)) = EventBytes[i] + BytesOf(EventBytes, Range(b))
         /\ BytesOf(EventBytes, Range(b)) \in Nat
    <2>1. PICK R : R = Range(b)
      OBVIOUS
    <2>2. R \in SUBSET Positions /\ BytesOf(EventBytes, R) \in Nat
      BY <1>2, <2>1, BytesAre
    <2>3. Range(more) = R \cup {i} /\ i \notin R
      BY <1>1, <1>3, <2>1
    <2>4. IsFiniteSet(R \cup {i}) /\ R \cup {i} \in SUBSET Positions /\ (R \cup {i}) \ {i} = R
      <3>1. R \cup {i} \in SUBSET Positions /\ (R \cup {i}) \ {i} = R
        BY <2>2, <2>3
      <3> QED BY <3>1, EventBytesAre, FS_Subset
    <2>5. \A x \in R \cup {i} : EventBytes[x] \in Nat
      BY <2>4, EventBytesAre
    <2>6. Cardinality(Units(EventBytes, R \cup {i})) = EventBytes[i] + Cardinality(Units(EventBytes, (R \cup {i}) \ {i}))
      BY <2>4, <2>5, UnitsSplit
    <2> QED BY <2>1, <2>2, <2>3, <2>4, <2>6 DEF BytesOf
  <1>12. EventBytes[i] \in Nat
    BY EventBytesAre
  <1>13. Load(EventBytes, all) = Load(EventBytes, buckets) + EventBytes[i]
    BY <1>9, <1>10, <1>11, <1>12
  <1> QED BY <1>1, <1>3, <1>4, <1>6, <1>13

-----------------------------------------------------------------------------
(* INSERT: keys *)

IngestKey == Int \X Nat

\* Every event has a window and a shard.
LEMMA KeysAre ==
    ASSUME IngestJobOK, NEW i \in Positions
    PROVE  BucketKey(i) \in IngestKey
  <1>1. job.events[i] \in SourceEvent /\ job.shardOf[job.events[i].entity] \in Nat
    BY DEF IngestJobOK, Positions
  <1>2. PICK d \in Int : d = job.events[i].day
    BY <1>1 DEF SourceEvent
  <1>3. WindowDays \in Nat \ {0}
    BY DEF IngestJobOK
  <1>4. d - (d % WindowDays) \in Int
    BY <1>3
  <1> QED BY <1>1, <1>2, <1>4 DEF BucketKey, Key, WindowId, Event, IngestKey

\* Of finitely many keys one is the first.
LEMMA FirstKey ==
    ASSUME NEW K \in SUBSET IngestKey, IsFiniteSet(K), K # {}
    PROVE  \E k \in K : \A l \in K \ {k} : KeyBefore(k, l)
  <1> DEFINE R == {p \in K \X K : KeyBefore(p[1], p[2])}
  <1>1. \A k, l \in K : <<k, l>> \in R <=> KeyBefore(k, l)
    OBVIOUS
  <1> HIDE DEF R
  <1>2. ASSUME NEW k \in K, NEW l \in K, NEW m \in K
        PROVE  /\ ~KeyBefore(k, k)
               /\ KeyBefore(k, l) /\ KeyBefore(l, m) => KeyBefore(k, m)
               /\ k # l => KeyBefore(k, l) \/ KeyBefore(l, k)
    <2>1. \A x \in K : x = <<x[1], x[2]>> /\ x[1] \in Int /\ x[2] \in Nat
      BY DEF IngestKey
    <2>2. PICK k1 \in Int, k2 \in Nat, l1 \in Int, l2 \in Nat, m1 \in Int, m2 \in Nat :
            k = <<k1, k2>> /\ l = <<l1, l2>> /\ m = <<m1, m2>>
      BY <2>1
    <2>3. k # l => k1 # l1 \/ k2 # l2
      BY <2>2
    <2> QED BY <2>2, <2>3 DEF KeyBefore
  <1>3. PICK k \in K : \A l \in K : <<l, k>> \notin R
    <2>1. \A x \in K : <<x, x>> \notin R
      BY <1>1, <1>2
    <2>2. \A x, y, z \in K : <<x, y>> \in R /\ <<y, z>> \in R => <<x, z>> \in R
      BY <1>1, <1>2
    <2> QED BY <2>1, <2>2, MinimalExists
  <1> QED BY <1>1, <1>2, <1>3

\* The bucket to spill is one of the buckets.
LEMMA LargestIsBucket ==
    ASSUME IngestJobOK, BucketsOK(state.buckets), DOMAIN state.buckets \subseteq IngestKey,
           DOMAIN state.buckets # {}
    PROVE  LargestBucket \in DOMAIN state.buckets
  <1>1. PICK B, D : B = state.buckets /\ D = DOMAIN B
    OBVIOUS
  <1>2. PICK size : size = [k \in D |-> Bytes(B[k])]
    OBVIOUS
  <1>3. \A k \in D : size[k] \in Nat
    <2>1. \A k \in D : B[k] \in Seq(Positions)
      BY <1>1 DEF BucketsOK
    <2>2. \A k \in D : Bytes(B[k]) \in Nat
      BY <2>1, BytesAre
    <2> QED BY <1>2, <2>2
  <1>4. IsFiniteSet(D) /\ D # {} /\ D \in SUBSET IngestKey
    BY <1>1 DEF BucketsOK
  <1>5. PICK L : L = {k \in D : \A l \in D : size[l] <= size[k]}
    OBVIOUS
  <1>6. L # {}
    <2> DEFINE T == {size[k] : k \in D}
    <2>1. IsFiniteSet(T)
      <3>1. size = [k \in D |-> size[k]]
        BY <1>2
      <3> QED BY <1>4, <3>1, FiniteImage
    <2>2. T \in SUBSET Int /\ T # {}
      BY <1>3, <1>4
    <2>3. \E x \in T : \A y \in T : x >= y
      <3> HIDE DEF T
      <3> QED BY <2>1, <2>2, LeastAndGreatest
    <2>4. PICK k \in D : \A l \in D : size[k] >= size[l]
      BY <2>3
    <2>5. \A l \in D : size[l] <= size[k]
      BY <1>3, <2>4
    <2> QED BY <1>5, <2>5
  <1>7. IsFiniteSet(L) /\ L \in SUBSET IngestKey
    <2>1. L \in SUBSET D
      BY <1>5
    <2> QED BY <1>4, <2>1, FS_Subset
  <1>8. \E k \in L : \A l \in L \ {k} : KeyBefore(k, l)
    BY <1>6, <1>7, FirstKey
  <1>9. L = {k \in DOMAIN state.buckets : \A l \in DOMAIN state.buckets :
                Bytes(state.buckets[l]) <= Bytes(state.buckets[k])}
    BY <1>1, <1>2, <1>5
  <1>10. PICK c : c = LargestBucket
    OBVIOUS
  <1>11. c = CHOOSE k \in L : \A l \in L \ {k} : KeyBefore(k, l)
    BY <1>9, <1>10 DEF LargestBucket
  <1>12. c \in L
    BY <1>8, <1>11
  <1> QED BY <1>1, <1>5, <1>10, <1>12

-----------------------------------------------------------------------------
(* INSERT: the invariant *)

\* The events of a key among those pushed before the n-th.
EventsOf(key, n) == {i \in 1..(n - 1) : BucketKey(i) = key}

IngestKeys(s) == DOMAIN s.buckets \cup DOMAIN s.runs

Buffering(s) ==
    /\ s.next \in 1..(Len(job.events) + 1)
    /\ BucketsOK(s.buckets) /\ IsFiniteSet(DOMAIN s.runs)
    /\ IngestKeys(s) \in SUBSET IngestKey
    /\ \A i \in 1..(s.next - 1) : BucketKey(i) \in IngestKeys(s)
    /\ \A k \in IngestKeys(s) : \E i \in 1..(s.next - 1) : BucketKey(i) = k
    /\ \A k \in IngestKey :
        BucketHolds(Of(s.runs, k), Of(s.buckets, k), EventsOf(k, s.next))
    /\ s.buffered = Load(EventBytes, s.buckets) /\ s.buffered <= job.budget

Segment == [key : IngestKey, groups : Seq(Seq(Positions))]

SegmentExact(segment) ==
    /\ Range(FlattenSeq(segment.groups)) = EventsOf(segment.key, Len(job.events) + 1)
    /\ IsInOrder(FlattenSeq(segment.groups))
    /\ GroupsKeepEntities(segment.groups)

Draining(s, o) ==
    /\ o \in Seq(Segment)
    /\ Len(o) # 0 => s.next = Len(job.events) + 1
    /\ s.drained = {o[n].key : n \in DOMAIN o} /\ s.drained \subseteq IngestKeys(s)
    /\ \A m, n \in DOMAIN o : m < n => KeyBefore(o[m].key, o[n].key)
    /\ \A n \in DOMAIN o : \A k \in IngestKeys(s) \ s.drained : KeyBefore(o[n].key, k)
    /\ \A n \in DOMAIN o : SegmentExact(o[n])

\* An event that no window or no budget takes.
Refused(i) == Event(i).day < 0 \/ Event(i).bytes > job.budget

IngestGood(s, o) ==
    /\ IngestJobOK
    /\ s = [next |-> s.next, buckets |-> s.buckets, runs |-> s.runs, buffered |-> s.buffered,
            drained |-> s.drained, result |-> s.result]
    /\ s.result \in {"pushing", "ok"} => Buffering(s) /\ Draining(s, o)
    /\ s.result = "ok" => s.next = Len(job.events) + 1 /\ IngestKeys(s) = s.drained
    /\ s.result = "Execution" => Refused(s.next)

\* An event goes to the bucket of its key,
LEMMA PushKeepsEvents ==
    ASSUME IngestGood(state, out), Push, NEW t, t = state', NEW key,
           key = BucketKey(state.next)
    PROVE  /\ key \in IngestKey /\ state.next \in Positions
           /\ state.next \notin Range(Of(state.buckets, key))
           /\ Range(Append(Of(state.buckets, key), state.next))
                = Range(Of(state.buckets, key)) \cup {state.next}
           /\ \A k \in IngestKey :
                BucketHolds(Of(t.runs, k), Of(t.buckets, k), EventsOf(k, t.next))
  <1>1. PICK n, B, R : n = state.next /\ B = state.buckets /\ R = state.runs
    OBVIOUS
  <1>2. Buffering(state) /\ IngestJobOK
    BY DEF IngestGood, Push, Pushing
  <1>3. n \in Positions /\ n \in Nat \ {0} /\ n <= Len(job.events) /\ Positions = 1..Len(job.events)
    <2>1. n \in 1..(Len(job.events) + 1) /\ n <= Len(job.events) /\ Len(job.events) \in Nat
      BY <1>1, <1>2 DEF Push, Pushing, Buffering, IngestJobOK
    <2>2. Positions = 1..Len(job.events)
      BY <1>2 DEF Positions, IngestJobOK
    <2> QED BY <2>1, <2>2
  <1>4. key \in IngestKey
    BY <1>1, <1>2, <1>3, KeysAre
  <1>5. t.next = n + 1 /\ t.runs = R /\ t.buckets = With(B, key, Append(Of(B, key), n))
    BY <1>1 DEF IngestGood, Push
  <1>6. BucketHolds(Of(R, key), Of(B, key), EventsOf(key, n))
    BY <1>1, <1>2, <1>4 DEF Buffering
  <1>7. \A j \in EventsOf(key, n) : j < n
    BY <1>3 DEF EventsOf
  <1>8. /\ BucketHolds(Of(R, key), Append(Of(B, key), n), EventsOf(key, n) \cup {n})
        /\ Range(Append(Of(B, key), n)) = Range(Of(B, key)) \cup {n}
    <2>1. PICK r, b, S : r = Of(R, key) /\ b = Of(B, key) /\ S = EventsOf(key, n)
      OBVIOUS
    <2>2. /\ BucketHolds(r, Append(b, n), S \cup {n})
          /\ Range(Append(b, n)) = Range(b) \cup {n}
      BY <1>2, <1>3, <1>6, <1>7, <2>1, PushHolds
    <2> QED BY <2>1, <2>2
  <1>9. n \notin Range(Of(B, key))
    <2>1. Range(Of(B, key)) \subseteq EventsOf(key, n)
      BY <1>6 DEF BucketHolds
    <2>2. ~(n < n)
      BY <1>3
    <2> QED BY <1>7, <2>1, <2>2
  <1>10. 1..((n + 1) - 1) = 1..(n - 1) \cup {n}
    BY <1>3
  <1>11. EventsOf(key, n + 1) = EventsOf(key, n) \cup {n}
    BY <1>1, <1>10 DEF EventsOf
  <1>12. \A k : k # key => EventsOf(k, n + 1) = EventsOf(k, n)
    BY <1>1, <1>10 DEF EventsOf
  <1>13. ASSUME NEW k \in IngestKey
         PROVE  BucketHolds(Of(t.runs, k), Of(t.buckets, k), EventsOf(k, t.next))
    <2>1. CASE k = key
      <3>1. Of(t.buckets, k) = Append(Of(B, key), n)
        BY <1>5, <2>1 DEF Of, With
      <3> QED BY <1>5, <1>8, <1>11, <2>1, <3>1
    <2>2. CASE k # key
      <3>1. Of(t.buckets, k) = Of(B, k)
        BY <1>5, <2>2 DEF Of, With
      <3>2. BucketHolds(Of(R, k), Of(B, k), EventsOf(k, n))
        BY <1>1, <1>2 DEF Buffering
      <3> QED BY <1>5, <1>12, <2>2, <3>1, <3>2
    <2> QED BY <2>1, <2>2
  <1> QED BY <1>1, <1>3, <1>4, <1>8, <1>9, <1>13

\* if it fits into the budget.
LEMMA IngestPushKeeps ==
    ASSUME IngestGood(state, out), Push, NEW t, NEW o, t = state', o = out'
    PROVE  job' = job /\ IngestGood(t, o)
  <1>1. PICK n, B, R, key : /\ n = state.next /\ B = state.buckets /\ R = state.runs
                            /\ key = BucketKey(n)
    OBVIOUS
  <1>2. IngestJobOK /\ Buffering(state) /\ Draining(state, out) /\ state.result = "pushing"
    BY DEF IngestGood, Push, Pushing
  <1>3. /\ key \in IngestKey /\ n \in Positions /\ n \notin Range(Of(B, key))
        /\ Range(Append(Of(B, key), n)) = Range(Of(B, key)) \cup {n}
        /\ \A k \in IngestKey :
            BucketHolds(Of(t.runs, k), Of(t.buckets, k), EventsOf(k, t.next))
    BY <1>1, PushKeepsEvents
  <1>4. PICK all : all = With(B, key, Append(Of(B, key), n))
    OBVIOUS
  <1>5. /\ t = [next |-> n + 1, buckets |-> all, runs |-> R,
                buffered |-> state.buffered + Event(n).bytes,
                drained |-> state.drained, result |-> "pushing"]
        /\ job' = job /\ o = out
    BY <1>1, <1>2, <1>4 DEF IngestGood, Push
  <1>6. /\ t.next = n + 1 /\ t.buckets = all /\ t.runs = R /\ t.drained = state.drained
        /\ t.buffered = state.buffered + Event(n).bytes /\ t.result = "pushing"
    BY <1>5
  <1>7. BucketsOK(all) /\ Load(EventBytes, all) = Load(EventBytes, B) + EventBytes[n]
    BY <1>1, <1>2, <1>3, <1>4, LoadPush DEF Buffering
  <1>8. n \in Nat /\ n + 1 \in 1..(Len(job.events) + 1) /\ 1..((n + 1) - 1) = 1..(n - 1) \cup {n}
        /\ n # Len(job.events) + 1
    <2>1. n \in 1..Len(job.events) /\ Len(job.events) \in Nat
      BY <1>2, <1>3 DEF Positions, IngestJobOK
    <2> QED BY <2>1
  <1>9. IngestKeys(t) = IngestKeys(state) \cup {key}
    <2>1. DOMAIN all = DOMAIN B \cup {key}
      BY <1>4 DEF With
    <2> QED BY <1>1, <1>6, <2>1 DEF IngestKeys
  <1>10. Buffering(t)
    <2>1. /\ \A i \in 1..(t.next - 1) : BucketKey(i) \in IngestKeys(t)
          /\ \A k \in IngestKeys(t) : \E i \in 1..(t.next - 1) : BucketKey(i) = k
      BY <1>1, <1>2, <1>6, <1>8, <1>9 DEF Buffering
    <2>2. IngestKeys(t) \in SUBSET IngestKey
      BY <1>2, <1>3, <1>9 DEF Buffering
    <2>3. t.buffered = Load(EventBytes, t.buckets) /\ t.buffered <= job.budget
      <3>1. EventBytes[n] = Event(n).bytes
        BY <1>2, <1>3, EventBytesAre
      <3>2. state.buffered + Event(n).bytes <= job.budget
        BY <1>1 DEF Push, Fits
      <3> QED BY <1>1, <1>2, <1>6, <1>7, <3>1, <3>2 DEF Buffering
    <2>4. IsFiniteSet(DOMAIN t.runs)
      BY <1>1, <1>2, <1>6 DEF Buffering
    <2> QED BY <1>3, <1>6, <1>7, <1>8, <2>1, <2>2, <2>3, <2>4 DEF Buffering
  <1>11. Draining(t, o)
    <2>1. Len(out) = 0
      BY <1>1, <1>2, <1>8 DEF Draining
    <2>2. DOMAIN out = {} /\ out \in Seq(Segment)
      BY <1>2, <2>1 DEF Draining
    <2>3. state.drained = {}
      BY <1>2, <2>2 DEF Draining
    <2> QED BY <1>5, <1>6, <2>1, <2>2, <2>3 DEF Draining
  <1>12. t = [next |-> t.next, buckets |-> t.buckets, runs |-> t.runs, buffered |-> t.buffered,
              drained |-> t.drained, result |-> t.result]
    BY <1>5
  <1> QED BY <1>2, <1>5, <1>6, <1>10, <1>11, <1>12 DEF IngestGood

\* A spill moves a bucket's events into a run.
LEMMA SpillBucketKeeps ==
    ASSUME IngestGood(state, out), SpillBucket, NEW t, NEW o, t = state', o = out'
    PROVE  job' = job /\ IngestGood(t, o)
  <1>1. PICK n, B, R, key : /\ n = state.next /\ B = state.buckets /\ R = state.runs
                            /\ key = LargestBucket
    OBVIOUS
  <1>2. IngestJobOK /\ Buffering(state) /\ Draining(state, out) /\ state.result = "pushing"
    BY DEF IngestGood, SpillBucket, Overflows, Pushing
  <1>3. BucketsOK(B) /\ DOMAIN B \subseteq IngestKey /\ IngestKeys(state) = DOMAIN B \cup DOMAIN R
    BY <1>1, <1>2 DEF Buffering, IngestKeys
  <1>4. key \in DOMAIN B /\ key \in IngestKey
    <2>1. DOMAIN B # {}
      BY <1>1 DEF SpillBucket, Overflows
    <2>2. key \in DOMAIN B
      BY <1>1, <1>2, <1>3, <2>1, LargestIsBucket
    <2> QED BY <1>3, <2>2
  <1>5. PICK run : run = StablySorted(B[key])
    OBVIOUS
  <1>6. PICK less, more : /\ less = Without(B, key)
                          /\ more = With(R, key, Append(Of(R, key), run))
    OBVIOUS
  <1>7. /\ t = [next |-> n, buckets |-> less, runs |-> more,
                buffered |-> state.buffered - Bytes(B[key]),
                drained |-> state.drained, result |-> "pushing"]
        /\ job' = job /\ o = out
    BY <1>1, <1>2, <1>5, <1>6 DEF IngestGood, SpillBucket
  <1>8. /\ t.next = n /\ t.buckets = less /\ t.runs = more /\ t.drained = state.drained
        /\ t.buffered = state.buffered - Bytes(B[key]) /\ t.result = "pushing"
    BY <1>7
  <1>9. IngestKeys(t) = IngestKeys(state)
    <2>1. DOMAIN less = DOMAIN B \ {key} /\ DOMAIN more = DOMAIN R \cup {key}
      BY <1>6 DEF With, Without
    <2> QED BY <1>3, <1>4, <1>8, <2>1 DEF IngestKeys
  <1>10. ASSUME NEW k \in IngestKey
         PROVE  BucketHolds(Of(more, k), Of(less, k), EventsOf(k, n))
    <2>1. BucketHolds(Of(R, k), Of(B, k), EventsOf(k, n))
      BY <1>1, <1>2 DEF Buffering
    <2>2. CASE k = key
      <3>1. Of(B, k) = B[key] /\ Of(less, k) = <<>>
            /\ Of(more, k) = Append(Of(R, k), run)
        BY <1>4, <1>6, <2>2 DEF Of, With, Without
      <3>2. PICK all : all = Append(Of(R, k), run)
        OBVIOUS
      <3>3. RunsInOrder(all) /\ InRuns(all) = EventsOf(k, n)
        BY <1>2, <1>5, <2>1, <3>1, <3>2, SpillHolds
      <3>4. <<>> \in Seq(Positions) /\ Ascending(<<>>) /\ Range(<<>>) = {}
        BY EmptySeq DEF Ascending, Range
      <3> QED BY <3>1, <3>2, <3>3, <3>4 DEF BucketHolds
    <2>3. CASE k # key
      <3>1. Of(less, k) = Of(B, k) /\ Of(more, k) = Of(R, k)
        BY <1>6, <2>3 DEF Of, With, Without
      <3> QED BY <2>1, <3>1
    <2> QED BY <2>2, <2>3
  <1>11. /\ BucketsOK(less)
         /\ state.buffered - Bytes(B[key]) = Load(EventBytes, less)
         /\ state.buffered - Bytes(B[key]) <= job.budget
    <2>1. /\ BucketsOK(less) /\ Load(EventBytes, less) \in Nat
          /\ Load(EventBytes, B) = BytesOf(EventBytes, Range(B[key])) + Load(EventBytes, less)
          /\ BytesOf(EventBytes, Range(B[key])) \in Nat
      BY <1>2, <1>3, <1>4, <1>6, LoadSplit
    <2>2. Bytes(B[key]) = BytesOf(EventBytes, Range(B[key]))
      <3>1. B[key] \in Seq(Positions)
        BY <1>3, <1>4 DEF BucketsOK
      <3> QED BY <1>2, <3>1, BytesAre
    <2>3. state.buffered = Load(EventBytes, B) /\ state.buffered <= job.budget /\ job.budget \in Nat
      BY <1>1, <1>2 DEF Buffering, IngestJobOK
    <2> QED BY <2>1, <2>2, <2>3
  <1>12. IsFiniteSet(DOMAIN more)
    <2>1. DOMAIN more = DOMAIN R \cup {key}
      BY <1>6 DEF With
    <2>2. IsFiniteSet(DOMAIN R)
      BY <1>1, <1>2 DEF Buffering
    <2> QED BY <2>1, <2>2, FS_AddElement
  <1>13. Buffering(t)
    BY <1>1, <1>2, <1>8, <1>9, <1>10, <1>11, <1>12 DEF Buffering
  <1>14. Draining(t, o)
    BY <1>1, <1>2, <1>7, <1>8, <1>9 DEF Draining
  <1>15. t = [next |-> t.next, buckets |-> t.buckets, runs |-> t.runs, buffered |-> t.buffered,
              drained |-> t.drained, result |-> t.result]
    BY <1>7
  <1> QED BY <1>2, <1>7, <1>8, <1>13, <1>14, <1>15 DEF IngestGood

\* An INSERT that fails keeps nothing, and one that is refused had its reason.
LEMMA IngestEndsKeep ==
    ASSUME IngestGood(state, out), SpillFails \/ PushRefused,
           NEW t, NEW o, t = state', o = out'
    PROVE  job' = job /\ IngestGood(t, o)
  <1>1. IngestJobOK /\ Buffering(state) /\ state.result = "pushing"
    BY DEF IngestGood, SpillFails, PushRefused, Overflows, Pushing
  <1>2. CASE SpillFails
    <2>1. /\ t = [state EXCEPT !.buckets = Without(@, LargestBucket), !.result = "Io"]
          /\ job' = job
      BY <1>2 DEF SpillFails
    <2>2. /\ t = [next |-> t.next, buckets |-> t.buckets, runs |-> t.runs, buffered |-> t.buffered,
                  drained |-> t.drained, result |-> t.result]
          /\ t.result = "Io"
      BY <2>1 DEF IngestGood
    <2> QED BY <1>1, <2>1, <2>2 DEF IngestGood
  <1>3. CASE PushRefused
    <2>1. t = [state EXCEPT !.result = "Execution"] /\ job' = job
      BY <1>3 DEF PushRefused
    <2>2. /\ t = [next |-> t.next, buckets |-> t.buckets, runs |-> t.runs, buffered |-> t.buffered,
                  drained |-> t.drained, result |-> t.result]
          /\ t.result = "Execution" /\ t.next = state.next
      BY <2>1 DEF IngestGood
    <2>3. Refused(state.next)
      <3>1. CASE PreEpoch
        BY <3>1 DEF PreEpoch, Refused
      <3>2. CASE ~Fits /\ DOMAIN state.buckets = {}
        <4>1. state.buffered = 0
          <5>1. Units([k \in DOMAIN state.buckets |->
                        BytesOf(EventBytes, Range(state.buckets[k]))], {}) = {}
            BY DEF Units
          <5>2. Load(EventBytes, state.buckets) = 0
            BY <3>2, <5>1, FS_EmptySet DEF Load, BytesOf
          <5> QED BY <1>1, <5>2 DEF Buffering
        <4>2. Event(state.next).bytes \in Nat /\ job.budget \in Nat
          <5>1. state.next \in Positions
            <6>1. /\ state.next \in 1..(Len(job.events) + 1) /\ state.next <= Len(job.events)
                  /\ Len(job.events) \in Nat
              BY <1>1, <1>3 DEF PushRefused, Pushing, Buffering, IngestJobOK
            <6>2. Positions = 1..Len(job.events)
              BY <1>1 DEF Positions, IngestJobOK
            <6> QED BY <6>1, <6>2
          <5>2. Event(state.next).bytes \in Nat
            BY <1>1, <5>1, EventBytesAre
          <5> QED BY <1>1, <5>2 DEF IngestJobOK
        <4>3. ~(0 + Event(state.next).bytes <= job.budget)
          BY <3>2, <4>1 DEF Fits
        <4> QED BY <4>2, <4>3 DEF Refused
      <3> QED BY <1>3, <3>1, <3>2 DEF PushRefused
    <2> QED BY <1>1, <2>1, <2>2, <2>3 DEF IngestGood
  <1> QED BY <1>2, <1>3

\* The segment of a key has its events, in order and in row groups.
LEMMA SegmentIsExact ==
    ASSUME IngestJobOK, Buffering(state), state.next = Len(job.events) + 1,
           NEW key \in IngestKeys(state), NEW segment,
           segment = [key |-> key, groups |-> PlanRowGroups(MergeRunsForBucket(key))]
    PROVE  segment \in Segment /\ SegmentExact(segment)
  <1>1. PICK S : S = EventsOf(key, Len(job.events) + 1)
    OBVIOUS
  <1>2. key \in IngestKey
    BY DEF Buffering
  <1>3. BucketHolds(Of(state.runs, key), Of(state.buckets, key), S)
    BY <1>1, <1>2 DEF Buffering
  <1>4. PICK e : e = MergeRunsForBucket(key)
    OBVIOUS
  <1>5. e \in Seq(Positions) /\ IsInOrder(e) /\ Range(e) = S
    BY <1>3, <1>4, MergeIs
  <1>6. Len(e) # 0
    <2>1. PICK i \in 1..(state.next - 1) : BucketKey(i) = key
      BY DEF Buffering
    <2>2. i \in S
      BY <1>1, <2>1 DEF EventsOf
    <2>3. Range(e) # {}
      BY <1>5, <2>2
    <2> QED BY <1>5, <2>3 DEF Range
  <1>7. PICK groups : groups = PlanRowGroups(e)
    OBVIOUS
  <1>8. /\ groups \in Seq(Seq(Positions)) /\ FlattenSeq(groups) = e
        /\ GroupsKeepEntities(groups)
    BY <1>5, <1>6, <1>7, GroupsAre
  <1>9. segment = [key |-> key, groups |-> groups]
    BY <1>4, <1>7
  <1>10. segment \in Segment /\ segment.key = key /\ segment.groups = groups
    BY <1>2, <1>8, <1>9 DEF Segment
  <1> QED BY <1>1, <1>5, <1>8, <1>10 DEF SegmentExact

\* The next segment is that of the first key which has none yet.
LEMMA WriteBucketKeeps ==
    ASSUME IngestGood(state, out), WriteBucket, NEW t, NEW o, t = state', o = out'
    PROVE  job' = job /\ IngestGood(t, o)
  <1>1. /\ IngestJobOK /\ Buffering(state) /\ Draining(state, out) /\ state.result = "pushing"
        /\ state.next = Len(job.events) + 1
    <2>1. IngestJobOK /\ Buffering(state) /\ Draining(state, out) /\ state.result = "pushing"
      BY DEF IngestGood, WriteBucket
    <2>2. state.next \in 1..(Len(job.events) + 1) /\ state.next > Len(job.events) /\ Len(job.events) \in Nat
      BY <2>1 DEF WriteBucket, Buffering, IngestJobOK
    <2>3. state.next = Len(job.events) + 1
      BY <2>2
    <2> QED BY <2>1, <2>3
  <1>2. PICK K : K = Undrained
    OBVIOUS
  <1>3. K = IngestKeys(state) \ state.drained /\ K # {}
    BY <1>2 DEF Undrained, IngestKeys, WriteBucket
  <1>4. PICK key : key = CHOOSE k \in K : \A l \in K \ {k} : KeyBefore(k, l)
    OBVIOUS
  <1>5. key \in K /\ \A l \in K \ {key} : KeyBefore(key, l)
    <2>1. IsFiniteSet(DOMAIN state.buckets) /\ IsFiniteSet(DOMAIN state.runs)
      BY <1>1 DEF Buffering, BucketsOK
    <2>2. IsFiniteSet(DOMAIN state.buckets \cup DOMAIN state.runs)
      BY <2>1, FS_Union
    <2>3. IsFiniteSet(IngestKeys(state)) /\ K \in SUBSET IngestKeys(state)
      BY <1>3, <2>2 DEF IngestKeys
    <2>4. IsFiniteSet(K)
      BY <2>3, FS_Subset
    <2>5. K \in SUBSET IngestKey
      BY <1>1, <2>3 DEF Buffering
    <2>6. \E k \in K : \A l \in K \ {k} : KeyBefore(k, l)
      BY <1>3, <2>4, <2>5, FirstKey
    <2> QED BY <1>4, <2>6
  <1>6. PICK segment :
            segment = [key |-> key, groups |-> PlanRowGroups(MergeRunsForBucket(key))]
    OBVIOUS
  <1>7. segment \in Segment /\ SegmentExact(segment) /\ segment.key = key
    <2>1. key \in IngestKeys(state)
      BY <1>3, <1>5
    <2>2. segment.key = key
      BY <1>6
    <2> QED BY <1>1, <1>6, <2>1, <2>2, SegmentIsExact
  <1>8. o = Append(out, segment) /\ job' = job /\ t = [state EXCEPT !.drained = @ \cup {key}]
    BY <1>2, <1>4, <1>6 DEF WriteBucket
  <1>9. /\ t.next = state.next /\ t.buckets = state.buckets /\ t.runs = state.runs
        /\ t.buffered = state.buffered /\ t.drained = state.drained \cup {key}
        /\ t.result = "pushing"
        /\ t = [next |-> t.next, buckets |-> t.buckets, runs |-> t.runs, buffered |-> t.buffered,
                drained |-> t.drained, result |-> t.result]
    BY <1>1, <1>8 DEF IngestGood
  <1>10. PICK n \in Nat : n = Len(out) /\ DOMAIN out = 1..n
    BY <1>1 DEF Draining
  <1>11. /\ o \in Seq(Segment) /\ DOMAIN o = 1..(n + 1) /\ o[n + 1] = segment
         /\ \A m \in 1..n : o[m] = out[m]
    BY <1>1, <1>7, <1>8, <1>10, AppendProperties DEF Draining
  <1>12. \A m \in 1..(n + 1) : m \in 1..n \/ m = n + 1
    OBVIOUS
  <1>13. IngestKeys(t) = IngestKeys(state)
    BY <1>9 DEF IngestKeys
  <1>14. Buffering(t)
    BY <1>1, <1>9, <1>13 DEF Buffering
  <1>15. t.drained = {o[m].key : m \in DOMAIN o}
    <2>1. state.drained = {out[m].key : m \in 1..n}
      BY <1>1, <1>10 DEF Draining
    <2>2. n + 1 \in 1..(n + 1) /\ \A m \in 1..n : m \in 1..(n + 1)
      OBVIOUS
    <2>3. \A m \in 1..(n + 1) : o[m].key \in t.drained
      BY <1>7, <1>9, <1>11, <1>12, <2>1
    <2>4. \A k \in t.drained : \E m \in 1..(n + 1) : o[m].key = k
      BY <1>7, <1>9, <1>11, <2>1, <2>2
    <2>5. PICK D : D = t.drained
      OBVIOUS
    <2>6. D = {o[m].key : m \in 1..(n + 1)}
      <3>1. \A k \in D : k \in {o[m].key : m \in 1..(n + 1)}
        BY <2>4, <2>5
      <3>2. \A k \in {o[m].key : m \in 1..(n + 1)} : k \in D
        BY <2>3, <2>5
      <3> QED BY <3>1, <3>2
    <2> QED BY <1>11, <2>5, <2>6
  <1>16. ASSUME NEW m \in 1..(n + 1), NEW k \in 1..(n + 1), m < k
         PROVE  KeyBefore(o[m].key, o[k].key)
    <2>1. m \in 1..n
      BY <1>16
    <2>2. CASE k \in 1..n
      BY <1>1, <1>10, <1>11, <1>16, <2>1, <2>2 DEF Draining
    <2>3. CASE k = n + 1
      BY <1>1, <1>3, <1>5, <1>7, <1>10, <1>11, <2>1, <2>3 DEF Draining
    <2> QED BY <1>12, <2>2, <2>3
  <1>17. ASSUME NEW m \in 1..(n + 1), NEW k \in IngestKeys(t) \ t.drained
         PROVE  KeyBefore(o[m].key, k)
    <2>1. k \in K \ {key}
      BY <1>3, <1>9, <1>13
    <2>2. CASE m \in 1..n
      BY <1>1, <1>3, <1>10, <1>11, <2>1, <2>2 DEF Draining
    <2>3. CASE m = n + 1
      BY <1>5, <1>7, <1>11, <2>1, <2>3
    <2> QED BY <1>12, <2>2, <2>3
  <1>18. \A m \in 1..(n + 1) : SegmentExact(o[m])
    BY <1>1, <1>7, <1>10, <1>11, <1>12 DEF Draining
  <1>19. t.drained \subseteq IngestKeys(t)
    BY <1>1, <1>3, <1>5, <1>9, <1>13 DEF Draining
  <1>20. Draining(t, o)
    BY <1>1, <1>9, <1>11, <1>15, <1>16, <1>17, <1>18, <1>19 DEF Draining
  <1> QED BY <1>1, <1>8, <1>9, <1>14, <1>20 DEF IngestGood

\* An INSERT ends when every key has its segment.
LEMMA WrittenKeeps ==
    ASSUME IngestGood(state, out), Written, NEW t, NEW o, t = state', o = out'
    PROVE  job' = job /\ IngestGood(t, o)
  <1>1. /\ IngestJobOK /\ Buffering(state) /\ Draining(state, out)
        /\ t = [state EXCEPT !.result = "ok"] /\ job' = job /\ o = out
    BY DEF IngestGood, Written
  <1>2. /\ t.next = state.next /\ t.buckets = state.buckets /\ t.runs = state.runs
        /\ t.buffered = state.buffered /\ t.drained = state.drained /\ t.result = "ok"
        /\ t = [next |-> t.next, buckets |-> t.buckets, runs |-> t.runs, buffered |-> t.buffered,
                drained |-> t.drained, result |-> t.result]
    BY <1>1 DEF IngestGood
  <1>3. IngestKeys(t) = IngestKeys(state)
    BY <1>2 DEF IngestKeys
  <1>4. state.next = Len(job.events) + 1
    <2>1. state.next \in 1..(Len(job.events) + 1) /\ state.next > Len(job.events) /\ Len(job.events) \in Nat
      BY <1>1 DEF Written, Buffering, IngestJobOK
    <2> QED BY <2>1
  <1>5. IngestKeys(state) = state.drained
    <2>1. IngestKeys(state) \ state.drained = {}
      BY DEF Written, Undrained, IngestKeys
    <2>2. state.drained \subseteq IngestKeys(state)
      BY <1>1 DEF Draining
    <2> QED BY <2>1, <2>2
  <1>6. Buffering(t)
    BY <1>1, <1>2, <1>3 DEF Buffering
  <1>7. Draining(t, o)
    BY <1>1, <1>2, <1>3 DEF Draining
  <1> QED BY <1>1, <1>2, <1>3, <1>4, <1>5, <1>6, <1>7 DEF IngestGood

\* The invariant is about the job, which no step changes.
LEMMA SameIngest ==
    ASSUME job' = job, NEW t, NEW o
    PROVE  IngestGood(t, o)' <=> IngestGood(t, o)
  <1>1. Positions' = Positions /\ (IngestJobOK' <=> IngestJobOK)
    BY DEF Positions, IngestJobOK
  <1>2. \A i : /\ Event(i)' = Event(i) /\ BucketKey(i)' = BucketKey(i)
               /\ Refused(i)' <=> Refused(i)
    BY DEF Event, BucketKey, Refused, WindowId
  <1>3. \A i, j : /\ SortsBefore(i, j)' <=> SortsBefore(i, j)
                  /\ SameEntity(i, j)' <=> SameEntity(i, j)
    BY <1>2 DEF SortsBefore, SameEntity
  <1>4. \A i, j : Before(i, j)' <=> Before(i, j)
    BY <1>3 DEF Before
  <1>5. \A e : IsInOrder(e)' <=> IsInOrder(e)
    BY <1>4 DEF IsInOrder
  <1>6. \A runs : RunsInOrder(runs)' <=> RunsInOrder(runs)
    BY <1>1, <1>5 DEF RunsInOrder
  <1>7. \A runs, b, S : BucketHolds(runs, b, S)' <=> BucketHolds(runs, b, S)
    BY <1>1, <1>6 DEF BucketHolds
  <1>8. \A k, n : EventsOf(k, n)' = EventsOf(k, n)
    BY <1>2 DEF EventsOf
  <1>9. EventBytes' = EventBytes
    BY <1>1, <1>2 DEF EventBytes
  <1>10. \A b : BucketsOK(b)' <=> BucketsOK(b)
    BY <1>1 DEF BucketsOK
  <1>11. Buffering(t)' <=> Buffering(t)
    BY <1>2, <1>7, <1>8, <1>9, <1>10 DEF Buffering
  <1>12. \A g : GroupsKeepEntities(g)' <=> GroupsKeepEntities(g)
    BY <1>3 DEF GroupsKeepEntities
  <1>13. \A g : SegmentExact(g)' <=> SegmentExact(g)
    BY <1>5, <1>8, <1>12 DEF SegmentExact
  <1>14. Segment' = Segment
    BY <1>1 DEF Segment
  <1>15. Draining(t, o)' <=> Draining(t, o)
    BY <1>13, <1>14 DEF Draining
  <1> QED BY <1>1, <1>2, <1>11, <1>15 DEF IngestGood

\* Every step of an INSERT keeps the invariant,
LEMMA IngestInductive ==
    IngestGood(state, out) /\ (Next \/ UNCHANGED vars) => IngestGood(state, out)'
  <1> SUFFICES ASSUME IngestGood(state, out), Next \/ UNCHANGED vars
               PROVE  IngestGood(state, out)'
    OBVIOUS
  <1>1. PICK t, o : t = state' /\ o = out'
    OBVIOUS
  <1>2. job' = job /\ IngestGood(t, o)
    <2>1. CASE UNCHANGED vars
      BY <1>1, <2>1 DEF vars
    <2> QED
      BY <1>1, <2>1, IngestPushKeeps, SpillBucketKeeps, IngestEndsKeep, WriteBucketKeeps,
         WrittenKeeps DEF Next
  <1>3. IngestGood(t, o)'
    BY <1>2, SameIngest
  <1> QED BY <1>1, <1>3

\* it holds when an INSERT starts,
LEMMA IngestInitially == IngestInputs /\ Init => IngestGood(state, out)
  <1> SUFFICES ASSUME IngestInputs, Init PROVE IngestGood(state, out)
    OBVIOUS
  <1>1. IngestJobOK
    BY DEF IngestInputs, Init, IngestJobOK
  <1>2. /\ state = [next |-> 1, buckets |-> <<>>, runs |-> <<>>, buffered |-> 0, drained |-> {},
                    result |-> "pushing"]
        /\ out = <<>>
    BY DEF Init
  <1>3. /\ <<>> \in Seq(Positions) /\ <<>> \in Seq(Seq(Positions)) /\ <<>> \in Seq(Segment)
        /\ DOMAIN <<>> = {} /\ Len(<<>>) = 0 /\ IsFiniteSet({})
        /\ <<>> = [k \in {} |-> <<>>[k]]
    BY EmptySeq, FS_EmptySet
  <1>4. BucketsOK(<<>>)
    BY <1>3 DEF BucketsOK
  <1>5. ASSUME NEW k PROVE BucketHolds(Of(<<>>, k), Of(<<>>, k), EventsOf(k, 1))
    <2>1. Of(<<>>, k) = <<>>
      BY <1>3 DEF Of
    <2>2. EventsOf(k, 1) = {} /\ InRuns(<<>>) = {} /\ Range(<<>>) = {}
      BY <1>3 DEF EventsOf, InRuns, Range
    <2>3. RunsInOrder(<<>>) /\ Ascending(<<>>)
      BY <1>3 DEF RunsInOrder, Ascending
    <2> QED BY <1>3, <2>1, <2>2, <2>3 DEF BucketHolds
  <1>6. Load(EventBytes, <<>>) = 0
    <2>1. Units([k \in DOMAIN <<>> |-> BytesOf(EventBytes, Range(<<>>[k]))], {}) = {}
      BY DEF Units
    <2> QED BY <1>3, <2>1, FS_EmptySet DEF Load, BytesOf
  <1>7. /\ state.next = 1 /\ state.buckets = <<>> /\ state.runs = <<>> /\ state.buffered = 0
        /\ state.drained = {} /\ state.result = "pushing" /\ IngestKeys(state) = {}
    BY <1>2, <1>3 DEF IngestKeys
  <1>8. Len(job.events) \in Nat /\ job.budget \in Nat /\ 1..(1 - 1) = {}
        /\ 1 \in 1..(Len(job.events) + 1) /\ 0 <= job.budget
    BY <1>1 DEF IngestJobOK
  <1>9. Buffering(state)
    BY <1>3, <1>4, <1>5, <1>6, <1>7, <1>8 DEF Buffering
  <1>10. Draining(state, out)
    BY <1>2, <1>3, <1>7 DEF Draining
  <1> QED BY <1>1, <1>2, <1>7, <1>9, <1>10 DEF IngestGood

\* and says what the property says.
LEMMA GoodIsExact == IngestGood(state, out) => IngestExact
  <1> SUFFICES ASSUME IngestGood(state, out) PROVE IngestExact
    OBVIOUS
  <1>1. ASSUME state.result = "ok"
        PROVE  /\ {out[n].key : n \in DOMAIN out} = {BucketKey(i) : i \in DOMAIN job.events}
               /\ \A m, n \in DOMAIN out : m < n => KeyBefore(out[m].key, out[n].key)
               /\ \A n \in DOMAIN out :
                    /\ Range(FlattenSeq(out[n].groups)) =
                            {i \in DOMAIN job.events : BucketKey(i) = out[n].key}
                    /\ IsInOrder(FlattenSeq(out[n].groups))
                    /\ GroupsKeepEntities(out[n].groups)
    <2>1. /\ Buffering(state) /\ Draining(state, out) /\ IngestKeys(state) = state.drained
          /\ state.next = Len(job.events) + 1 /\ IngestJobOK
      BY <1>1 DEF IngestGood
    <2>2. 1..((Len(job.events) + 1) - 1) = DOMAIN job.events
      BY <2>1 DEF IngestJobOK
    <2>3. IngestKeys(state) = {BucketKey(i) : i \in DOMAIN job.events}
      BY <2>1, <2>2 DEF Buffering
    <2>4. \A k : EventsOf(k, Len(job.events) + 1) = {i \in DOMAIN job.events : BucketKey(i) = k}
      BY <2>2 DEF EventsOf
    <2>5. {out[n].key : n \in DOMAIN out} = {BucketKey(i) : i \in DOMAIN job.events}
      BY <2>1, <2>3 DEF Draining
    <2>6. \A m, n \in DOMAIN out : m < n => KeyBefore(out[m].key, out[n].key)
      BY <2>1 DEF Draining
    <2>7. \A n \in DOMAIN out : SegmentExact(out[n])
      BY <2>1 DEF Draining
    <2> QED BY <2>4, <2>5, <2>6, <2>7 DEF SegmentExact
  <1>2. ASSUME state.result = "pushing"
        PROVE  /\ state.buffered <= job.budget
               /\ state.buffered = MapThenSumSet(LAMBDA k : Bytes(state.buckets[k]),
                                                       DOMAIN state.buckets)
    <2>1. Buffering(state) /\ IngestJobOK
      BY <1>2 DEF IngestGood
    <2>2. PICK B : B = state.buckets
      OBVIOUS
    <2>3. MapThenSumSet(LAMBDA k : Bytes(B[k]), DOMAIN B) = Load(EventBytes, B)
      <3>1. BucketsOK(B)
        BY <2>1, <2>2 DEF Buffering
      <3>2. IngestJobOK
        BY <2>1
      <3> QED BY <3>1, <3>2, LoadIs
    <2> QED BY <2>1, <2>2, <2>3 DEF Buffering
  <1>3. state.result = "Execution" =>
            Event(state.next).day < 0 \/ Event(state.next).bytes > job.budget
    BY DEF IngestGood, Refused
  <1> QED BY <1>1, <1>2, <1>3 DEF IngestExact


\* However often its buckets are spilled, any INSERT that succeeds writes one
\* segment for each window and shard with all its events in order.
THEOREM InsertIsExact == IngestInputs => (Spec => []IngestExact)
  <1> SUFFICES ASSUME IngestInputs PROVE Spec => []IngestExact
    OBVIOUS
  <1>1. Init => IngestGood(state, out)
    BY IngestInitially
  <1>2. IngestGood(state, out) /\ [Next]_vars => IngestGood(state, out)'
    BY IngestInductive
  <1>3. IngestGood(state, out) => IngestExact
    BY GoodIsExact
  <1> QED BY <1>1, <1>2, <1>3, PTL DEF Spec
-----------------------------------------------------------------------------
(* STATS *)

CONSTANTS Null, AggJobs, SumWidth   \* of the aggregation

Agg == INSTANCE HashAggregate WITH Jobs <- AggJobs, Width <- SumWidth

-----------------------------------------------------------------------------
(* The aggregation: folds *)

\* One step of the folds of the aggregation, told apart by a name.
AggStep(which, x, acc) ==
    CASE which[1] = "rows"   -> Agg!UpdateRow(acc, Agg!RowKey(which[2], which[2].rows[x]), which[2].rows[x].v)
      [] which[1] = "slots"  -> Agg!FlushSlot(which[2], x, acc)
      [] which[1] = "groups" -> Agg!MergeGroup(which[2], x, acc)
      [] which[1] = "shards" -> Agg!MergeInto(acc, which[2][x])

AnyOf(s) == CHOOSE x \in s : TRUE

\* The element a fold takes last: a sequence's is the one of the greatest index.
AggPick(which, s) ==
    IF which[1] \in {"rows", "shards"} THEN CHOOSE x \in s : \A y \in s : x >= y
    ELSE AnyOf(s)

\* A solution of the recursion by which a fold is defined, on the sets in T.
IsAggFold(which, f, base, T) ==
    f = [s \in T |-> IF s = {} THEN base
                     ELSE AggStep(which, AggPick(which, s), f[s \ {AggPick(which, s)}])]

\* What a fold over S returns.
AggFold(which, base, S) == (CHOOSE f : IsAggFold(which, f, base, SUBSET S))[S]

\* A fold takes an element of the set.
LEMMA AggPicks ==
    ASSUME NEW which, NEW S, IsFiniteSet(S), which[1] \in {"rows", "shards"} => S \subseteq Int,
           NEW s \in SUBSET S, s # {}
    PROVE  AggPick(which, s) \in s
  <1>1. CASE which[1] \in {"rows", "shards"}
    <2>1. s \in SUBSET Int /\ IsFiniteSet(s)
      BY <1>1, FS_Subset
    <2>2. \E t \in s : \A u \in s : t >= u
      BY <2>1, LeastAndGreatest
    <2> QED BY <1>1, <2>2 DEF AggPick
  <1>2. CASE which[1] \notin {"rows", "shards"}
    BY <1>2 DEF AggPick, AnyOf
  <1> QED BY <1>1, <1>2

\* For every set a solution exists: one for the sets of at most n elements extends
\* to those of one more.
LEMMA AggFoldExists ==
    ASSUME NEW which, NEW base, NEW S, IsFiniteSet(S),
           which[1] \in {"rows", "shards"} => S \subseteq Int
    PROVE  \E f : IsAggFold(which, f, base, SUBSET S)
  <1> DEFINE UpToSize(n) == {s \in SUBSET S : Cardinality(s) <= n}
             N == Cardinality(S)
             Good == {n \in 0..N : \E f : IsAggFold(which, f, base, UpToSize(n))}
  <1>1. N \in Nat
    BY FS_CardinalityType
  <1>2. ASSUME NEW s \in SUBSET S
        PROVE  IsFiniteSet(s) /\ Cardinality(s) \in Nat /\ Cardinality(s) <= N
    BY FS_Subset, FS_CardinalityType
  <1>3. \E f : IsAggFold(which, f, base, UpToSize(0))
    <2> DEFINE f == [s \in UpToSize(0) |-> base]
    <2>1. \A s \in UpToSize(0) : s = {}
      <3> SUFFICES ASSUME NEW s \in UpToSize(0) PROVE s = {}
        OBVIOUS
      <3>1. Cardinality(s) = 0
        BY <1>2
      <3> QED BY <1>2, <3>1, FS_EmptySet
    <2> HIDE DEF UpToSize
    <2>2. IsAggFold(which, f, base, UpToSize(0))
      BY <2>1 DEF IsAggFold
    <2> QED BY <2>2
  <1>4. ASSUME NEW n \in 0..(N - 1), NEW f, IsAggFold(which, f, base, UpToSize(n))
        PROVE  \E more : IsAggFold(which, more, base, UpToSize(n + 1))
    <2> DEFINE Rest(s) == s \ {AggPick(which, s)}
               more == [s \in UpToSize(n + 1) |->
                            IF s = {} THEN base ELSE AggStep(which, AggPick(which, s), f[Rest(s)])]
    <2>1. ASSUME NEW s \in UpToSize(n + 1), s # {}
          PROVE  Rest(s) \in UpToSize(n) /\ Rest(s) \in UpToSize(n + 1)
      <3>1. AggPick(which, s) \in s /\ IsFiniteSet(s) /\ Cardinality(s) \in Nat
        BY <1>2, <2>1, AggPicks
      <3>2. Cardinality(Rest(s)) = Cardinality(s) - 1
        BY <3>1, FS_RemoveElement
      <3> QED BY <1>1, <3>1, <3>2
    <2>2. \A s \in UpToSize(n) : f[s] = IF s = {} THEN base ELSE AggStep(which, AggPick(which, s), f[Rest(s)])
      BY <1>4 DEF IsAggFold
    <2>3. \A s \in UpToSize(n) : s \in UpToSize(n + 1)
      <3> SUFFICES ASSUME NEW s \in UpToSize(n) PROVE s \in UpToSize(n + 1)
        OBVIOUS
      <3> QED BY <1>1, <1>2
    <2> HIDE DEF UpToSize, Rest
    <2>4. \A s \in UpToSize(n) : more[s] = f[s]
      BY <2>2, <2>3
    <2>5. \A s \in UpToSize(n + 1) :
            more[s] = IF s = {} THEN base ELSE AggStep(which, AggPick(which, s), more[Rest(s)])
      BY <2>1, <2>4
    <2>6. more = [s \in UpToSize(n + 1) |-> more[s]]
      OBVIOUS
    <2> HIDE DEF more
    <2>7. IsAggFold(which, more, base, UpToSize(n + 1))
      BY <2>5, <2>6 DEF IsAggFold, Rest
    <2> QED BY <2>7
  <1>5. 0 \in Good /\ \A k \in 0..(N - 1) : k \in Good => k + 1 \in Good
    <2> HIDE DEF UpToSize, N
    <2> QED BY <1>1, <1>3, <1>4
  <1>6. N \in Good
    <2> HIDE DEF Good, N
    <2> QED BY <1>1, <1>5, UpTo
  <1>7. UpToSize(N) = SUBSET S
    BY <1>2
  <1> HIDE DEF UpToSize
  <1> QED BY <1>6, <1>7

\* From the base through the subsets, one element at a time.
GoesUp(f, which, base, S) ==
    /\ f[{}] = base
    /\ \A s \in SUBSET S : s # {} => \E x \in s : f[s] = AggStep(which, x, f[s \ {x}])

\* What a fold returns is reached that way.
LEMMA AggFoldSteps ==
    ASSUME NEW which, NEW base, NEW S, IsFiniteSet(S),
           which[1] \in {"rows", "shards"} => S \subseteq Int
    PROVE  \E f : GoesUp(f, which, base, S) /\ AggFold(which, base, S) = f[S]
  <1>1. PICK f : IsAggFold(which, f, base, SUBSET S) /\ AggFold(which, base, S) = f[S]
    BY AggFoldExists DEF AggFold
  <1>2. \A s \in SUBSET S :
            f[s] = IF s = {} THEN base
                   ELSE AggStep(which, AggPick(which, s), f[s \ {AggPick(which, s)}])
    BY <1>1 DEF IsAggFold
  <1>3. \A s \in SUBSET S : s # {} => AggPick(which, s) \in s
    BY AggPicks
  <1> QED BY <1>1, <1>2, <1>3 DEF GoesUp

\* The folds of the aggregation are these.
LEMMA RowsFold ==
    ASSUME NEW acc, NEW batch, ~(job.grouped /\ batch.dict # Null /\ job.functions = {"Count"})
    PROVE  Agg!UpdateEvaluated(acc, batch) = AggFold(<<"rows", batch>>, acc, DOMAIN batch.rows)
  <1> DEFINE which == <<"rows", batch>>
             F(f) == f = [s \in SUBSET DOMAIN batch.rows |->
                            IF s = {} THEN acc
                            ELSE Agg!UpdateRow(f[s \ {Agg!Max(s)}],
                                               Agg!RowKey(batch, batch.rows[Agg!Max(s)]),
                                               batch.rows[Agg!Max(s)].v)]
  <1>1. Agg!UpdateEvaluated(acc, batch) = (CHOOSE f : F(f))[DOMAIN batch.rows]
    BY DEF Agg!UpdateEvaluated, Agg!FoldLeft, Agg!MapThenFoldSet
  <1>2. \A s : AggPick(which, s) = Agg!Max(s)
    BY DEF AggPick, Agg!Max
  <1>3. \A x, a : AggStep(which, x, a) = Agg!UpdateRow(a, Agg!RowKey(batch, batch.rows[x]), batch.rows[x].v)
    BY DEF AggStep
  <1> HIDE DEF which
  <1>4. \A f : F(f) <=> IsAggFold(which, f, acc, SUBSET DOMAIN batch.rows)
    BY <1>2, <1>3 DEF IsAggFold
  <1> HIDE DEF F
  <1> QED BY <1>1, <1>4 DEF AggFold, which

LEMMA SlotsFold ==
    ASSUME NEW acc, NEW batch
    PROVE  Agg!UpdateByHistogram(acc, batch)
           = AggFold(<<"slots", batch>>, acc, {Agg!Slot(batch, batch.rows[i]) : i \in DOMAIN batch.rows})
  <1> DEFINE slots == {Agg!Slot(batch, batch.rows[i]) : i \in DOMAIN batch.rows}
             which == <<"slots", batch>>
             F(f) == f = [s \in SUBSET slots |->
                            IF s = {} THEN acc
                            ELSE Agg!FlushSlot(batch, AnyOf(s),
                                               f[s \ {AnyOf(s)}])]
  <1>1. Agg!UpdateByHistogram(acc, batch) = (CHOOSE f : F(f))[slots]
    BY DEF Agg!UpdateByHistogram, Agg!FoldSet, Agg!MapThenFoldSet, AnyOf
  <1>2. \A s : AggPick(which, s) = AnyOf(s)
    BY DEF AggPick, AnyOf
  <1>3. \A x, a : AggStep(which, x, a) = Agg!FlushSlot(batch, x, a)
    BY DEF AggStep
  <1> HIDE DEF which
  <1>4. \A f : F(f) <=> IsAggFold(which, f, acc, SUBSET slots)
    BY <1>2, <1>3 DEF IsAggFold
  <1> HIDE DEF F
  <1> QED BY <1>1, <1>4 DEF AggFold, which

LEMMA GroupsFold ==
    ASSUME NEW acc, NEW other
    PROVE  Agg!MergeInto(acc, other) = AggFold(<<"groups", other>>, acc, DOMAIN other.groups)
  <1> DEFINE which == <<"groups", other>>
             F(f) == f = [s \in SUBSET DOMAIN other.groups |->
                            IF s = {} THEN acc
                            ELSE Agg!MergeGroup(other, AnyOf(s),
                                                f[s \ {AnyOf(s)}])]
  <1>1. Agg!MergeInto(acc, other) = (CHOOSE f : F(f))[DOMAIN other.groups]
    BY DEF Agg!MergeInto, Agg!FoldSet, Agg!MapThenFoldSet, AnyOf
  <1>2. \A s : AggPick(which, s) = AnyOf(s)
    BY DEF AggPick, AnyOf
  <1>3. \A x, a : AggStep(which, x, a) = Agg!MergeGroup(other, x, a)
    BY DEF AggStep
  <1> HIDE DEF which
  <1>4. \A f : F(f) <=> IsAggFold(which, f, acc, SUBSET DOMAIN other.groups)
    BY <1>2, <1>3 DEF IsAggFold
  <1> HIDE DEF F
  <1> QED BY <1>1, <1>4 DEF AggFold, which

LEMMA ShardsFold ==
    ASSUME NEW acc, NEW accs
    PROVE  Agg!FoldLeft(Agg!MergeInto, acc, accs) = AggFold(<<"shards", accs>>, acc, DOMAIN accs)
  <1> DEFINE which == <<"shards", accs>>
             F(f) == f = [s \in SUBSET DOMAIN accs |->
                            IF s = {} THEN acc
                            ELSE Agg!MergeInto(f[s \ {Agg!Max(s)}], accs[Agg!Max(s)])]
  <1>1. Agg!FoldLeft(Agg!MergeInto, acc, accs) = (CHOOSE f : F(f))[DOMAIN accs]
    BY DEF Agg!FoldLeft, Agg!MapThenFoldSet
  <1>2. \A s : AggPick(which, s) = Agg!Max(s)
    BY DEF AggPick, Agg!Max
  <1>3. \A x, a : AggStep(which, x, a) = Agg!MergeInto(a, accs[x])
    BY DEF AggStep
  <1> HIDE DEF which
  <1>4. \A f : F(f) <=> IsAggFold(which, f, acc, SUBSET DOMAIN accs)
    BY <1>2, <1>3 DEF IsAggFold
  <1> HIDE DEF F
  <1> QED BY <1>1, <1>4 DEF AggFold, which

-----------------------------------------------------------------------------
(* Wrapped addition *)

\* Numbers that differ by a multiple of the modulus leave the same remainder.
LEMMA SameRemainder ==
    ASSUME NEW m \in Nat \ {0}, NEW a \in Int, NEW q \in Int
    PROVE  (a + q * m) % m = a % m
  <1>1. PICK d \in Int, r \in 0..(m - 1) : a = d * m + r /\ r = a % m
    OBVIOUS
  <1>2. PICK e \in Int, s \in 0..(m - 1) : a + q * m = e * m + s /\ s = (a + q * m) % m
    OBVIOUS
  <1>3. (e - d - q) * m = r - s
    <2>1. (e - d - q) * m = e * m - d * m - q * m
      OBVIOUS
    <2>2. PICK dm \in Int, em \in Int, qm \in Int : dm = d * m /\ em = e * m /\ qm = q * m
      OBVIOUS
    <2>3. a = dm + r /\ a + qm = em + s
      BY <1>1, <1>2, <2>2
    <2>4. em - dm - qm = r - s
      BY <2>3
    <2> QED BY <2>1, <2>2, <2>4
  <1>4. e - d - q = 0
    <2>1. PICK k \in Int : k = e - d - q
      OBVIOUS
    <2>2. k * m < m /\ -m < k * m
      BY <1>3, <2>1
    <2>3. k > 0 => k * m >= m
      OBVIOUS
    <2>4. k < 0 => k * m <= -m
      OBVIOUS
    <2> QED BY <2>1, <2>2, <2>3, <2>4
  <1>5. 0 * m = 0
    OBVIOUS
  <1>6. r - s = 0
    BY <1>3, <1>4, <1>5
  <1>7. r = s
    BY <1>6
  <1> QED BY ONLY <1>1, <1>2, <1>7

\* What the proofs use of the width of a sum.
WidthOK == 2^(SumWidth - 1) \in Nat \ {0} /\ 2^SumWidth = 2 * 2^(SumWidth - 1)

\* Wrapped sums may be wrapped early; 0 is no overflow.
LEMMA WrappedEarly ==
    ASSUME WidthOK, NEW a \in Int, NEW b \in Int
    PROVE  /\ Agg!Wrapped(a) \in Int
           /\ Agg!Wrapped(0) = 0
           /\ Agg!Wrapped(Agg!Wrapped(a) + b) = Agg!Wrapped(a + b)
           /\ Agg!Wrapped(Agg!Wrapped(a) + Agg!Wrapped(b)) = Agg!Wrapped(a + b)
  <1>1. PICK h \in Nat \ {0}, m \in Nat \ {0} : h = 2^(SumWidth - 1) /\ m = 2^SumWidth /\ m = 2 * h
    BY DEF WidthOK
  <1>2. ASSUME NEW n \in Int
        PROVE  /\ Agg!Wrapped(n) = ((n + h) % m) - h
               /\ Agg!Wrapped(n) \in Int
               /\ \E q \in Int : Agg!Wrapped(n) = n + q * m
    <2>1. Agg!Wrapped(n) = ((n + h) % m) - h
      BY <1>1 DEF Agg!Wrapped
    <2>2. PICK d \in Int, r \in 0..(m - 1) : n + h = d * m + r /\ r = (n + h) % m
      OBVIOUS
    <2>3. PICK dm \in Int : dm = d * m /\ (-d) * m = -dm
      OBVIOUS
    <2>4. r - h = n + (-d) * m
      BY <2>2, <2>3
    <2>5. Agg!Wrapped(n) = n + (-d) * m /\ -d \in Int
      BY <2>1, <2>2, <2>4
    <2>6. Agg!Wrapped(n) \in Int
      BY <2>1, <2>2
    <2> QED BY <2>1, <2>5, <2>6
  <1>3. ASSUME NEW n \in Int, NEW q \in Int PROVE Agg!Wrapped(n + q * m) = Agg!Wrapped(n)
    <2>1. PICK qm \in Int : qm = q * m
      OBVIOUS
    <2>2. (n + qm) + h = (n + h) + qm /\ n + qm \in Int /\ n + h \in Int
      OBVIOUS
    <2>3. ((n + h) + q * m) % m = (n + h) % m
      BY <2>2, SameRemainder
    <2>4. n + q * m \in Int /\ (n + q * m) + h = (n + h) + q * m
      BY <2>1, <2>2
    <2>5. Agg!Wrapped(n + q * m) = (((n + q * m) + h) % m) - h
      BY <1>2, <2>4
    <2>6. Agg!Wrapped(n) = ((n + h) % m) - h
      BY <1>2
    <2> QED BY <2>3, <2>4, <2>5, <2>6
  <1>4. Agg!Wrapped(0) = 0
    <2>1. (0 + h) % m = h
      BY <1>1
    <2> QED BY <1>2, <2>1
  <1>5. ASSUME NEW c \in Int PROVE Agg!Wrapped(Agg!Wrapped(a) + c) = Agg!Wrapped(a + c)
    <2>1. PICK q \in Int : Agg!Wrapped(a) = a + q * m
      BY <1>2
    <2>2. PICK qm \in Int : qm = q * m
      OBVIOUS
    <2>3. Agg!Wrapped(a) + c = (a + c) + q * m
      BY <2>1, <2>2
    <2>4. a + c \in Int
      OBVIOUS
    <2> QED BY <1>3, <2>3, <2>4
  <1>6. Agg!Wrapped(a + Agg!Wrapped(b)) = Agg!Wrapped(a + b)
    <2>1. PICK q \in Int : Agg!Wrapped(b) = b + q * m
      BY <1>2
    <2>2. PICK qm \in Int : qm = q * m
      OBVIOUS
    <2>3. a + Agg!Wrapped(b) = (a + b) + q * m
      BY <2>1, <2>2
    <2>4. a + b \in Int
      OBVIOUS
    <2> QED BY <1>3, <2>3, <2>4
  <1> QED BY <1>2, <1>4, <1>5, <1>6

-----------------------------------------------------------------------------
(* The aggregation: the state of a set of rows *)

\* What the proofs use of the job at hand.
AggJobOK ==
    /\ Null \notin Int \cup {"Float"}
    /\ WidthOK
    /\ job.shards \in Seq(Seq(Agg!Batch)) /\ job.shards # <<>>
    /\ \A s \in DOMAIN job.shards : \A b \in DOMAIN job.shards[s] :
          job.shards[s][b].dict # Null =>
              \A i \in DOMAIN job.shards[s][b].rows :
                  job.shards[s][b].rows[i].g \in DOMAIN job.shards[s][b].dict \cup {Null}
    /\ job.functions \subseteq Agg!Functions
    /\ job.type \in {"Int", "Float"} /\ job.inputType \in {job.type, Null}
    /\ job.grouped \in BOOLEAN /\ job.maxGroups \in Nat
    /\ ~Agg!FloatSumUntyped

ValueFun == [r \in Agg!Rows |-> Agg!ValueOf(r)]

Filled(R) == {r \in R : Agg!ValueOf(r) # Null}
ValuesOf(R) == {Agg!ValueOf(r) : r \in Filled(R)}
SumOf(R) == Total(ValueFun, Filled(R))

LeastOf(V) == IF V = {} THEN Null ELSE CHOOSE v \in V : \A w \in V : v <= w
GreatestOf(V) == IF V = {} THEN Null ELSE CHOOSE v \in V : \A w \in V : w <= v

\* The state in which a function has seen the rows R.
StateOf(f, R) ==
    CASE f = "Count" -> Cardinality(R)
      [] f = "CountColumn" -> Cardinality(Filled(R))
      [] f = "CountDistinct" -> ValuesOf(R)
      [] f = "Sum" -> IF job.type = "Int" THEN Agg!Wrapped(SumOf(R)) ELSE SumOf(R)
      [] f = "Avg" -> [sum |-> SumOf(R), count |-> Cardinality(Filled(R))]
      [] f = "Min" -> LeastOf(ValuesOf(R))
      [] f = "Max" -> GreatestOf(ValuesOf(R))

\* A set of rows has finitely many values, numbers.
LEMMA RowFacts ==
    ASSUME AggJobOK, NEW R \in SUBSET Agg!Rows, IsFiniteSet(R)
    PROVE  /\ \A r \in R : Agg!ValueOf(r) \in Int \cup {Null}
           /\ Filled(R) \in SUBSET R /\ IsFiniteSet(Filled(R))
           /\ Filled(R) \in SUBSET DOMAIN ValueFun
           /\ \A r \in Filled(R) : ValueFun[r] \in Int /\ ValueFun[r] = Agg!ValueOf(r)
           /\ ValuesOf(R) \in SUBSET Int /\ IsFiniteSet(ValuesOf(R))
           /\ SumOf(R) \in Int
           /\ Cardinality(R) \in Nat /\ Cardinality(Filled(R)) \in Nat
  <1>1. ASSUME NEW r \in Agg!Rows PROVE Agg!ValueOf(r) \in Int \cup {Null}
    <2>1. PICK s \in DOMAIN job.shards : \E b \in DOMAIN job.shards[s] :
            \E i \in DOMAIN job.shards[s][b].rows : r = <<s, b, i>>
      BY DEF Agg!Rows
    <2>2. PICK b \in DOMAIN job.shards[s] : \E i \in DOMAIN job.shards[s][b].rows : r = <<s, b, i>>
      BY <2>1
    <2>3. PICK i \in DOMAIN job.shards[s][b].rows : r = <<s, b, i>>
      BY <2>2
    <2>4. job.shards[s] \in Seq(Agg!Batch)
      BY DEF AggJobOK
    <2>5. job.shards[s][b] \in Agg!Batch
      BY <2>4
    <2>6. job.shards[s][b].rows[i].v \in Agg!Value
      <3>1. PICK V : V = Agg!Value
        OBVIOUS
      <3>2. job.shards[s][b].rows \in Seq([g : V, v : V])
        BY <2>5, <3>1 DEF Agg!Batch
      <3>3. PICK T, rows : T = [g : V, v : V] /\ rows = job.shards[s][b].rows
        OBVIOUS
      <3>4. rows \in Seq(T) /\ i \in DOMAIN rows
        BY <3>2, <3>3
      <3>5. rows[i] \in T
        BY <3>4
      <3>6. rows[i].v \in V
        BY <3>3, <3>5
      <3> QED BY <3>1, <3>3, <3>6
    <2>7. Agg!ValueOf(r) = job.shards[s][b].rows[i].v
      BY <2>3 DEF Agg!ValueOf, Agg!RowAt
    <2> QED BY <2>6, <2>7 DEF Agg!Value
  <1>2. Filled(R) \in SUBSET R
    BY DEF Filled
  <1>3. IsFiniteSet(Filled(R))
    BY <1>2, FS_Subset
  <1>4. \A r \in Filled(R) : ValueFun[r] = Agg!ValueOf(r) /\ Agg!ValueOf(r) \in Int
    BY <1>1 DEF Filled, ValueFun
  <1>5. Filled(R) \in SUBSET DOMAIN ValueFun
    BY <1>2 DEF ValueFun
  <1>6. IsFiniteSet(ValuesOf(R)) /\ ValuesOf(R) \in SUBSET Int
    <2>1. PICK S, g : S = Filled(R) /\ g = [r \in S |-> Agg!ValueOf(r)]
      OBVIOUS
    <2>2. IsFiniteSet({g[r] : r \in S})
      BY <1>3, <2>1, FiniteImage
    <2>3. {g[r] : r \in S} = ValuesOf(R)
      BY <2>1 DEF ValuesOf
    <2>4. ValuesOf(R) \in SUBSET Int
      BY <1>4 DEF ValuesOf
    <2> QED BY <2>2, <2>3, <2>4
  <1>7. SumOf(R) \in Int
    BY <1>3, <1>4, <1>5, TotalSplit DEF SumOf
  <1> QED BY <1>1, <1>2, <1>3, <1>4, <1>5, <1>6, <1>7, FS_CardinalityType

\* Sets apart: counts and sums add up, values come together.
LEMMA ApartFacts ==
    ASSUME AggJobOK, NEW R \in SUBSET Agg!Rows, IsFiniteSet(R),
           NEW Q \in SUBSET Agg!Rows, IsFiniteSet(Q), R \cap Q = {}
    PROVE  /\ R \cup Q \in SUBSET Agg!Rows /\ IsFiniteSet(R \cup Q)
           /\ Cardinality(R \cup Q) = Cardinality(R) + Cardinality(Q)
           /\ Cardinality(Filled(R \cup Q)) = Cardinality(Filled(R)) + Cardinality(Filled(Q))
           /\ ValuesOf(R \cup Q) = ValuesOf(R) \cup ValuesOf(Q)
           /\ SumOf(R \cup Q) = SumOf(R) + SumOf(Q)
  <1>1. IsFiniteSet(R \cup Q) /\ R \cup Q \in SUBSET Agg!Rows
    BY FS_Union
  <1>2. \A S, T : IsFiniteSet(S) /\ IsFiniteSet(T) /\ S \cap T = {}
                    => Cardinality(S \cup T) = Cardinality(S) + Cardinality(T)
    <2> SUFFICES ASSUME NEW S, NEW T, IsFiniteSet(S), IsFiniteSet(T), S \cap T = {}
                 PROVE  Cardinality(S \cup T) = Cardinality(S) + Cardinality(T)
      OBVIOUS
    <2>1. Cardinality(S \cup T) = Cardinality(S) + Cardinality(T) - Cardinality(S \cap T)
      BY FS_Union
    <2>2. Cardinality(S \cap T) = 0
      BY FS_EmptySet
    <2>3. PICK a \in Nat, b \in Nat : a = Cardinality(S) /\ b = Cardinality(T)
      BY FS_CardinalityType
    <2> QED BY <2>1, <2>2, <2>3
  <1>3. PICK S, T : S = Filled(R) /\ T = Filled(Q)
    OBVIOUS
  <1>4. /\ Filled(R \cup Q) = S \cup T /\ S \cap T = {}
    BY <1>3 DEF Filled
  <1>5. ValuesOf(R \cup Q) = ValuesOf(R) \cup ValuesOf(Q)
    BY DEF ValuesOf, Filled
  <1>6. /\ IsFiniteSet(S) /\ S \in SUBSET DOMAIN ValueFun
        /\ IsFiniteSet(T) /\ T \in SUBSET DOMAIN ValueFun
        /\ \A r \in S \cup T : ValueFun[r] \in Int
    BY <1>3, RowFacts
  <1>7. Total(ValueFun, S \cup T) = Total(ValueFun, S) + Total(ValueFun, T)
    BY <1>4, <1>6, TotalUnion
  <1>8. SumOf(R \cup Q) = SumOf(R) + SumOf(Q)
    BY <1>3, <1>4, <1>7 DEF SumOf
  <1>9. Cardinality(Filled(R \cup Q)) = Cardinality(Filled(R)) + Cardinality(Filled(Q))
    BY <1>2, <1>3, <1>4, <1>6
  <1> QED BY <1>1, <1>2, <1>5, <1>8, <1>9

\* The least of two sets is the lesser of their least.
LEMMA LeastOfUnion ==
    ASSUME Null \notin Int, NEW V \in SUBSET Int, IsFiniteSet(V), NEW W \in SUBSET Int, IsFiniteSet(W)
    PROVE  /\ LeastOf(V \cup W) = IF LeastOf(W) # Null /\ (LeastOf(V) = Null \/ LeastOf(W) < LeastOf(V))
                                  THEN LeastOf(W) ELSE LeastOf(V)
           /\ GreatestOf(V \cup W) =
                 IF GreatestOf(W) # Null /\ (GreatestOf(V) = Null \/ GreatestOf(W) > GreatestOf(V))
                 THEN GreatestOf(W) ELSE GreatestOf(V)
  <1>1. ASSUME NEW U \in SUBSET Int, IsFiniteSet(U)
        PROVE  /\ U = {} => LeastOf(U) = Null /\ GreatestOf(U) = Null
               /\ U # {} => /\ LeastOf(U) \in U /\ \A u \in U : LeastOf(U) <= u
                            /\ GreatestOf(U) \in U /\ \A u \in U : u <= GreatestOf(U)
    <2>1. CASE U = {}
      BY <2>1 DEF LeastOf, GreatestOf
    <2>2. CASE U # {}
      BY <1>1, <2>2, Extremes DEF LeastOf, GreatestOf
    <2> QED BY <2>1, <2>2
  <1>2. IsFiniteSet(V \cup W) /\ V \cup W \in SUBSET Int
    BY FS_Union
  <1>3. CASE V = {} \/ W = {}
    <2>1. V = {} => V \cup W = W
      OBVIOUS
    <2>2. W = {} => V \cup W = V
      OBVIOUS
    <2> QED BY <1>1, <1>3, <2>1, <2>2
  <1>4. CASE V # {} /\ W # {}
    <2>1. PICK a \in V, b \in W, c \in V \cup W :
            a = LeastOf(V) /\ b = LeastOf(W) /\ c = LeastOf(V \cup W)
      BY <1>1, <1>2, <1>4
    <2>2. /\ \A u \in V : a <= u
          /\ \A u \in W : b <= u
          /\ \A u \in V \cup W : c <= u
      BY <1>1, <1>2, <1>4, <2>1
    <2>3. c = IF b < a THEN b ELSE a
      <3>1. c <= a /\ c <= b /\ (a <= c \/ b <= c)
        BY <2>2
      <3>2. a \in Int /\ b \in Int /\ c \in Int
        OBVIOUS
      <3> QED BY <3>1, <3>2
    <2>4. PICK d \in V, e \in W, g \in V \cup W :
            d = GreatestOf(V) /\ e = GreatestOf(W) /\ g = GreatestOf(V \cup W)
      BY <1>1, <1>2, <1>4
    <2>5. /\ \A u \in V : u <= d
          /\ \A u \in W : u <= e
          /\ \A u \in V \cup W : u <= g
      BY <1>1, <1>2, <1>4, <2>4
    <2>6. g = IF e > d THEN e ELSE d
      <3>1. d <= g /\ e <= g /\ (g <= d \/ g <= e)
        BY <2>5
      <3>2. d \in Int /\ e \in Int /\ g \in Int
        OBVIOUS
      <3> QED BY <3>1, <3>2
    <2>7. a # Null /\ b # Null /\ d # Null /\ e # Null
      OBVIOUS
    <2> QED BY <2>1, <2>3, <2>4, <2>6, <2>7
  <1> QED BY <1>3, <1>4

LEMMA NullIsNoNumber == AggJobOK => Null \notin Int
  BY DEF AggJobOK

\* A state moves with a row as its function says,
LEMMA StateUpdated ==
    ASSUME AggJobOK, NEW R \in SUBSET Agg!Rows, IsFiniteSet(R), NEW r \in Agg!Rows, r \notin R,
           NEW f \in job.functions
    PROVE  Agg!UpdateState(f, StateOf(f, R), Agg!ValueOf(r)) = StateOf(f, R \cup {r})
  <1>1. IsFiniteSet({r}) /\ Cardinality({r}) = 1
    BY FS_Singleton
  <1>2. /\ Cardinality(R \cup {r}) = Cardinality(R) + 1
        /\ Cardinality(Filled(R \cup {r})) = Cardinality(Filled(R)) + Cardinality(Filled({r}))
        /\ ValuesOf(R \cup {r}) = ValuesOf(R) \cup ValuesOf({r})
        /\ SumOf(R \cup {r}) = SumOf(R) + SumOf({r})
    <2>1. PICK Q : Q = {r}
      OBVIOUS
    <2>2. Q \in SUBSET Agg!Rows /\ R \cap Q = {} /\ IsFiniteSet(Q) /\ Cardinality(Q) = 1
      BY <1>1, <2>1
    <2>3. /\ Cardinality(R \cup Q) = Cardinality(R) + Cardinality(Q)
          /\ Cardinality(Filled(R \cup Q)) = Cardinality(Filled(R)) + Cardinality(Filled(Q))
          /\ ValuesOf(R \cup Q) = ValuesOf(R) \cup ValuesOf(Q)
          /\ SumOf(R \cup Q) = SumOf(R) + SumOf(Q)
      BY <2>2, ApartFacts
    <2> QED BY <2>1, <2>2, <2>3
  <1>3. PICK v : v = Agg!ValueOf(r)
    OBVIOUS
  <1>4. /\ v \in Int \cup {Null} /\ SumOf(R) \in Int
        /\ ValuesOf(R) \in SUBSET Int /\ IsFiniteSet(ValuesOf(R))
        /\ Cardinality(R) \in Nat /\ Cardinality(Filled(R)) \in Nat
    <2>1. v \in Int \cup {Null}
      BY <1>1, <1>3, RowFacts
    <2> QED BY <2>1, RowFacts
  <1>5. f \in Agg!Functions
    BY DEF AggJobOK
  <1>6. CASE v = Null
    <2>1. Filled({r}) = {}
      BY <1>3, <1>6 DEF Filled
    <2>2. ValuesOf({r}) = {} /\ SumOf({r}) = 0 /\ Cardinality(Filled({r})) = 0
      <3>1. Total(ValueFun, {}) = 0
        BY <1>1, <2>1, RowFacts, TotalSplit
      <3> QED BY <2>1, <3>1, FS_EmptySet DEF ValuesOf, SumOf
    <2>3. ValuesOf(R \cup {r}) = ValuesOf(R) /\ SumOf(R \cup {r}) = SumOf(R)
          /\ Cardinality(Filled(R \cup {r})) = Cardinality(Filled(R))
      BY <1>2, <1>4, <2>2
    <2> QED BY <1>2, <1>3, <1>5, <1>6, <2>3 DEF Agg!UpdateState, StateOf, Agg!Functions
  <1>7. CASE v # Null
    <2>1. Filled({r}) = {r} /\ ValuesOf({r}) = {v}
      BY <1>3, <1>7 DEF Filled, ValuesOf
    <2>2. SumOf({r}) = v /\ Cardinality(Filled({r})) = 1
      <3>1. /\ Filled({r}) \in SUBSET DOMAIN ValueFun /\ IsFiniteSet(Filled({r}))
            /\ \A x \in Filled({r}) : ValueFun[x] \in Int /\ ValueFun[x] = Agg!ValueOf(x)
        BY <1>1, RowFacts
      <3>2. /\ Total(ValueFun, {}) = 0
            /\ Total(ValueFun, {r}) = ValueFun[r] + Total(ValueFun, {r} \ {r})
        BY <2>1, <3>1, TotalSplit
      <3>3. ValueFun[r] = v /\ v \in Int /\ {r} \ {r} = {}
        BY <1>3, <2>1, <3>1
      <3> QED BY <1>1, <2>1, <3>2, <3>3 DEF SumOf
    <2>3. /\ ValuesOf(R \cup {r}) = ValuesOf(R) \cup {v} /\ SumOf(R \cup {r}) = SumOf(R) + v
          /\ Cardinality(Filled(R \cup {r})) = Cardinality(Filled(R)) + 1
      BY <1>2, <2>1, <2>2
    <2>4. v \in Int
      BY <1>4, <1>7
    <2>5. CASE f \in {"Count", "CountColumn", "CountDistinct"}
      BY <1>2, <1>3, <1>7, <2>3, <2>5 DEF Agg!UpdateState, StateOf
    <2>6. CASE f = "Avg"
      BY <1>3, <1>7, <2>3, <2>6 DEF Agg!UpdateState, StateOf
    <2>7. CASE f = "Sum"
      <3>1. Agg!UpdateState(f, StateOf(f, R), v) = Agg!AddToSum(StateOf(f, R), v)
        BY <1>7, <2>7 DEF Agg!UpdateState
      <3>2. CASE job.type = "Int"
        <4>1. job.inputType # "Float"
          BY <3>2 DEF AggJobOK
        <4>2. Agg!AddToSum(StateOf(f, R), v) = Agg!Wrapped(Agg!Wrapped(SumOf(R)) + v)
          BY <2>7, <3>2, <4>1 DEF Agg!AddToSum, StateOf
        <4>3. StateOf(f, R \cup {r}) = Agg!Wrapped(SumOf(R) + v)
          BY <2>3, <2>7, <3>2 DEF StateOf
        <4>4. Agg!Wrapped(Agg!Wrapped(SumOf(R)) + v) = Agg!Wrapped(SumOf(R) + v)
          BY <1>4, <2>4, WrappedEarly DEF AggJobOK
        <4> QED BY <1>3, <3>1, <4>2, <4>3, <4>4
      <3>3. CASE job.type # "Int"
        <4>1. job.inputType = "Float"
          BY <2>7, <3>3 DEF AggJobOK, Agg!FloatSumUntyped
        <4> QED BY <1>3, <2>3, <2>7, <3>1, <3>3, <4>1 DEF Agg!AddToSum, StateOf
      <3> QED BY <3>2, <3>3
    <2>8. CASE f \in {"Min", "Max"}
      <3>1. IsFiniteSet({v}) /\ {v} \in SUBSET Int
        BY <2>4, FS_Singleton
      <3>2. LeastOf({v}) = v /\ GreatestOf({v}) = v
        <4>1. {v} # {}
          OBVIOUS
        <4>2. LeastOf({v}) \in {v} /\ GreatestOf({v}) \in {v}
          BY <3>1, <4>1, Extremes DEF LeastOf, GreatestOf
        <4> QED BY <4>2
      <3>3. PICK l, g : l = LeastOf(ValuesOf(R)) /\ g = GreatestOf(ValuesOf(R))
        OBVIOUS
      <3>4. PICK V, W : V = ValuesOf(R) /\ W = {v}
        OBVIOUS
      <3>5. /\ LeastOf(V \cup W) = IF LeastOf(W) # Null /\ (LeastOf(V) = Null \/ LeastOf(W) < LeastOf(V))
                                   THEN LeastOf(W) ELSE LeastOf(V)
            /\ GreatestOf(V \cup W) =
                 IF GreatestOf(W) # Null /\ (GreatestOf(V) = Null \/ GreatestOf(W) > GreatestOf(V))
                 THEN GreatestOf(W) ELSE GreatestOf(V)
        BY <1>4, <3>1, <3>4, NullIsNoNumber, LeastOfUnion
      <3>6. /\ LeastOf(ValuesOf(R) \cup {v}) = IF v # Null /\ (l = Null \/ v < l) THEN v ELSE l
            /\ GreatestOf(ValuesOf(R) \cup {v}) = IF v # Null /\ (g = Null \/ v > g) THEN v ELSE g
        BY <3>2, <3>3, <3>4, <3>5
      <3> QED BY <1>3, <1>7, <2>3, <2>8, <3>3, <3>6 DEF Agg!UpdateState, StateOf
    <2> QED BY <1>5, <2>5, <2>6, <2>7, <2>8 DEF Agg!Functions
  <1> QED BY <1>6, <1>7

\* and two states merge into that of both sets of rows.
LEMMA StatesMerged ==
    ASSUME AggJobOK, NEW R \in SUBSET Agg!Rows, IsFiniteSet(R),
           NEW Q \in SUBSET Agg!Rows, IsFiniteSet(Q), R \cap Q = {}, NEW f \in job.functions
    PROVE  Agg!MergeState(f, StateOf(f, R), StateOf(f, Q)) = StateOf(f, R \cup Q)
  <1>1. /\ Cardinality(R \cup Q) = Cardinality(R) + Cardinality(Q)
        /\ Cardinality(Filled(R \cup Q)) = Cardinality(Filled(R)) + Cardinality(Filled(Q))
        /\ ValuesOf(R \cup Q) = ValuesOf(R) \cup ValuesOf(Q)
        /\ SumOf(R \cup Q) = SumOf(R) + SumOf(Q)
    BY ApartFacts
  <1>2. f \in Agg!Functions
    BY DEF AggJobOK
  <1>3. CASE f \in {"Count", "CountColumn", "CountDistinct"}
    BY <1>1, <1>3 DEF Agg!MergeState, StateOf
  <1>4. CASE f = "Avg"
    BY <1>1, <1>4 DEF Agg!MergeState, StateOf
  <1>5. CASE f = "Sum"
    <2>1. CASE job.type = "Int"
      <3>1. job.inputType # "Float"
        BY <2>1 DEF AggJobOK
      <3>2. Agg!MergeState(f, StateOf(f, R), StateOf(f, Q))
            = Agg!Wrapped(Agg!Wrapped(SumOf(R)) + Agg!Wrapped(SumOf(Q)))
        BY <1>5, <2>1, <3>1 DEF Agg!MergeState, StateOf
      <3>3. SumOf(R) \in Int /\ SumOf(Q) \in Int
        BY RowFacts
      <3>4. Agg!Wrapped(Agg!Wrapped(SumOf(R)) + Agg!Wrapped(SumOf(Q))) = Agg!Wrapped(SumOf(R) + SumOf(Q))
        BY <3>3, WrappedEarly DEF AggJobOK
      <3>5. StateOf(f, R \cup Q) = Agg!Wrapped(SumOf(R) + SumOf(Q))
        BY <1>1, <1>5, <2>1 DEF StateOf
      <3> QED BY <3>2, <3>4, <3>5
    <2>2. CASE job.type # "Int"
      <3>1. job.inputType = "Float"
        BY <1>5, <2>2 DEF AggJobOK, Agg!FloatSumUntyped
      <3> QED BY <1>1, <1>5, <2>2, <3>1 DEF Agg!MergeState, StateOf
    <2> QED BY <2>1, <2>2
  <1>6. CASE f \in {"Min", "Max"}
    <2>1. PICK V, W : V = ValuesOf(R) /\ W = ValuesOf(Q)
      OBVIOUS
    <2>2. V \in SUBSET Int /\ IsFiniteSet(V) /\ W \in SUBSET Int /\ IsFiniteSet(W)
      BY <2>1, RowFacts
    <2>3. /\ LeastOf(V \cup W) = IF LeastOf(W) # Null /\ (LeastOf(V) = Null \/ LeastOf(W) < LeastOf(V))
                                 THEN LeastOf(W) ELSE LeastOf(V)
          /\ GreatestOf(V \cup W) =
                 IF GreatestOf(W) # Null /\ (GreatestOf(V) = Null \/ GreatestOf(W) > GreatestOf(V))
                 THEN GreatestOf(W) ELSE GreatestOf(V)
      BY <2>2, NullIsNoNumber, LeastOfUnion
    <2> QED BY <1>1, <1>6, <2>1, <2>3 DEF Agg!MergeState, StateOf
  <1> QED BY <1>2, <1>3, <1>4, <1>5, <1>6 DEF Agg!Functions

\* No rows: the state a group begins with.
LEMMA StateAtFirst ==
    ASSUME AggJobOK, NEW f \in job.functions
    PROVE  StateOf(f, {}) = Agg!NewState(f)
  <1>1. Filled({}) = {} /\ ValuesOf({}) = {} /\ Cardinality({}) = 0
    BY FS_EmptySet DEF Filled, ValuesOf
  <1>2. SumOf({}) = 0
    <2>1. IsFiniteSet({}) /\ {} \in SUBSET DOMAIN ValueFun
      BY FS_EmptySet
    <2>2. Total(ValueFun, {}) = 0
      BY <2>1, TotalSplit
    <2> QED BY <1>1, <2>2 DEF SumOf
  <1>3. Agg!Wrapped(0) = 0
    BY WrappedEarly DEF AggJobOK
  <1>4. LeastOf({}) = Null /\ GreatestOf({}) = Null
    BY DEF LeastOf, GreatestOf
  <1>5. f \in Agg!Functions
    BY DEF AggJobOK
  <1> QED BY <1>1, <1>2, <1>3, <1>4, <1>5 DEF StateOf, Agg!NewState, Agg!Functions

\* What a state is finalized to is what the rows aggregate to.
LEMMA StateFinalized ==
    ASSUME AggJobOK, NEW key, NEW R \in SUBSET Agg!Rows, IsFiniteSet(R),
           R = {r \in Agg!Rows : Agg!Key(r) = key}, NEW f \in job.functions
    PROVE  Agg!Finalize(f, StateOf(f, R)) = Agg!Aggregated(f, key)
  <1>1. PICK S : S = Filled(R)
    OBVIOUS
  <1>2. S = {r \in R : Agg!ValueOf(r) # Null}
    BY <1>1 DEF Filled
  <1>3. /\ IsFiniteSet(S) /\ S \in SUBSET DOMAIN ValueFun
        /\ \A r \in S : ValueFun[r] \in Int /\ ValueFun[r] = Agg!ValueOf(r)
    BY <1>1, RowFacts
  <1>4. Agg!MapThenSumSet(Agg!ValueOf, S) = SumOf(R)
    <2> DEFINE P(g) == g = [s \in SUBSET S |-> IF s = {} THEN 0
                               ELSE LET x == CHOOSE x \in s : TRUE IN Agg!ValueOf(x) + g[s \ {x}]]
    <2>1. Agg!MapThenSumSet(Agg!ValueOf, S) = (CHOOSE g : P(g))[S]
      BY DEF Agg!MapThenSumSet, Agg!MapThenFoldSet
    <2>2. ASSUME NEW g PROVE P(g) <=> IsSumFun(g, ValueFun, S)
      <3>1. ASSUME NEW s \in SUBSET S, s # {}
            PROVE  LET x == CHOOSE x \in s : TRUE
                   IN  Agg!ValueOf(x) + g[s \ {x}] = ValueFun[x] + g[s \ {x}]
        <4>1. PICK x : x = CHOOSE y \in s : TRUE
          OBVIOUS
        <4>2. x \in S
          BY <3>1, <4>1
        <4> QED BY <1>3, <4>1, <4>2
      <3> QED BY <3>1 DEF IsSumFun
    <2> HIDE DEF P
    <2>3. (CHOOSE g : P(g))[S] = SumFun(ValueFun, S)[S]
      <3>1. (CHOOSE g : P(g)) = CHOOSE g : IsSumFun(g, ValueFun, S)
        BY <2>2
      <3> QED BY <3>1 DEF SumFun, IsSumFun
    <2> QED BY <1>1, <1>3, <2>1, <2>3, SumIsTotal DEF SumOf
  <1>5. \A T : Agg!Cardinality(T) = Cardinality(T)
    BY DEF Agg!Cardinality, Cardinality
  <1>6. ValuesOf(R) = {Agg!ValueOf(r) : r \in S}
    BY <1>1 DEF ValuesOf
  <1>7. Cardinality(Filled(R)) = 0 <=> S = {}
    BY <1>1, <1>3, FS_EmptySet
  <1>8. f \in Agg!Functions
    BY DEF AggJobOK
  <1> DEFINE V == {Agg!ValueOf(r) : r \in S}
             A == CASE f = "Count" -> Cardinality(R)
                    [] f = "CountColumn" -> Cardinality(S)
                    [] f = "CountDistinct" -> Cardinality(V)
                    [] f = "Sum" -> IF job.type = "Int" THEN Agg!Wrapped(SumOf(R)) ELSE SumOf(R)
                    [] f = "Avg" -> IF S = {} THEN Null ELSE <<SumOf(R), Cardinality(S)>>
                    [] f = "Min" -> IF V = {} THEN Null ELSE CHOOSE v \in V : \A w \in V : v <= w
                    [] f = "Max" -> IF V = {} THEN Null ELSE CHOOSE v \in V : \A w \in V : w <= v
  <1>9. Agg!Aggregated(f, key) = A
    <2> DEFINE all  == {r \in Agg!Rows : Agg!Key(r) = key}
               some == {r \in all : Agg!ValueOf(r) # Null}
               vals == {Agg!ValueOf(r) : r \in some}
               sum  == Agg!MapThenSumSet(Agg!ValueOf, some)
    <2>1. Agg!Aggregated(f, key) =
            CASE f = "Count" -> Agg!Cardinality(all)
              [] f = "CountColumn" -> Agg!Cardinality(some)
              [] f = "CountDistinct" -> Agg!Cardinality(vals)
              [] f = "Sum" -> IF job.type = "Int" THEN Agg!Wrapped(sum) ELSE sum
              [] f = "Avg" -> IF some = {} THEN Null ELSE <<sum, Agg!Cardinality(some)>>
              [] f = "Min" -> IF vals = {} THEN Null ELSE CHOOSE v \in vals : \A w \in vals : v <= w
              [] f = "Max" -> IF vals = {} THEN Null ELSE CHOOSE v \in vals : \A w \in vals : w <= v
      BY DEF Agg!Aggregated
    <2>2. all = R /\ some = S /\ vals = V
      BY <1>2
    <2>3. sum = SumOf(R)
      BY <1>4, <2>2
    <2> HIDE DEF all, some, vals, sum, V
    <2> QED BY <1>5, <1>8, <2>1, <2>2, <2>3 DEF Agg!Functions
  <1>10. A = Agg!Finalize(f, StateOf(f, R))
    <2>1. V = ValuesOf(R)
      BY <1>6
    <2> HIDE DEF V
    <2>2. CASE f \in {"Count", "CountColumn", "Sum"}
      BY <1>1, <2>2 DEF Agg!Finalize, StateOf
    <2>3. CASE f = "CountDistinct"
      BY <1>5, <2>1, <2>3 DEF Agg!Finalize, StateOf
    <2>4. CASE f = "Avg"
      BY <1>1, <1>7, <2>4 DEF Agg!Finalize, StateOf
    <2>5. CASE f = "Min"
      BY <2>1, <2>5 DEF Agg!Finalize, StateOf, LeastOf
    <2>6. CASE f = "Max"
      BY <2>1, <2>6 DEF Agg!Finalize, StateOf, GreatestOf
    <2> QED BY <1>8, <2>2, <2>3, <2>4, <2>5, <2>6 DEF Agg!Functions
  <1> HIDE DEF A
  <1> QED BY <1>9, <1>10

-----------------------------------------------------------------------------
(* The aggregation: accumulators *)

KeysOf(R) == {Agg!Key(r) : r \in R}
OfKey(R, key) == {r \in R : Agg!Key(r) = key}

\* An accumulator has seen the rows R: it has their groups, or it is full and they
\* have more groups than it may have.
Describes(acc, R) ==
    /\ acc = [groups |-> acc.groups, full |-> acc.full] /\ acc.full \in BOOLEAN
    /\ acc.full => Cardinality(KeysOf(R)) > job.maxGroups
    /\ ~acc.full => /\ DOMAIN acc.groups = KeysOf(R)
                    /\ Cardinality(KeysOf(R)) <= job.maxGroups
                    /\ \A key \in KeysOf(R) :
                          acc.groups[key] = [f \in job.functions |-> StateOf(f, OfKey(R, key))]

\* A finite set of rows has finitely many keys.
LEMMA KeysFinite ==
    ASSUME NEW R, IsFiniteSet(R)
    PROVE  IsFiniteSet(KeysOf(R)) /\ Cardinality(KeysOf(R)) \in Nat
  <1>1. PICK g : g = [r \in R |-> Agg!Key(r)]
    OBVIOUS
  <1>2. IsFiniteSet({g[r] : r \in R})
    BY <1>1, FiniteImage
  <1>3. {g[r] : r \in R} = KeysOf(R)
    BY <1>1 DEF KeysOf
  <1> QED BY <1>2, <1>3, FS_CardinalityType

\* More rows have as many keys at least.
LEMMA MoreKeys ==
    ASSUME NEW R, NEW Q, IsFiniteSet(Q), R \subseteq Q
    PROVE  Cardinality(KeysOf(R)) <= Cardinality(KeysOf(Q))
  <1>1. KeysOf(R) \in SUBSET KeysOf(Q)
    BY DEF KeysOf
  <1> QED BY <1>1, KeysFinite, FS_Subset

\* A full accumulator has seen too many groups whatever follows.
LEMMA FullStays ==
    ASSUME AggJobOK, NEW R, NEW Q, IsFiniteSet(Q), R \subseteq Q, NEW acc, Describes(acc, R), acc.full
    PROVE  Describes(acc, Q)
  <1>1. IsFiniteSet(R)
    BY FS_Subset
  <1>2. PICK a \in Nat, b \in Nat : a = Cardinality(KeysOf(R)) /\ b = Cardinality(KeysOf(Q))
    BY <1>1, KeysFinite
  <1>3. a <= b /\ a > job.maxGroups /\ job.maxGroups \in Nat
    BY <1>2, MoreKeys DEF Describes, AggJobOK
  <1>4. b > job.maxGroups
    BY <1>3
  <1> QED BY <1>2, <1>4 DEF Describes

\* What a look-up of a key returns: an accumulator with its group, or a full one.
GroupIsFound(found, acc, R, key) ==
    /\ found = [groups |-> found.groups, full |-> found.full] /\ found.full \in BOOLEAN
    /\ found.full => key \notin KeysOf(R) /\ Cardinality(KeysOf(R)) >= job.maxGroups
    /\ ~found.full =>
          /\ DOMAIN found.groups = KeysOf(R) \cup {key}
          /\ \A k \in KeysOf(R) : found.groups[k] = acc.groups[k]
          /\ found.groups[key] = [f \in job.functions |-> StateOf(f, OfKey(R, key))]
          /\ Cardinality(KeysOf(R) \cup {key}) <= job.maxGroups

\* A group is found or inserted, if there may be one more.
LEMMA GroupFound ==
    ASSUME AggJobOK, NEW R \in SUBSET Agg!Rows, IsFiniteSet(R), NEW acc, Describes(acc, R), ~acc.full,
           NEW key
    PROVE  GroupIsFound(Agg!LookupOrInsert(acc, key), acc, R, key)
  <1> SUFFICES ASSUME NEW found, found = Agg!LookupOrInsert(acc, key)
               PROVE  GroupIsFound(found, acc, R, key)
    OBVIOUS
  <1>1. \A T : Agg!Cardinality(T) = Cardinality(T)
    BY DEF Agg!Cardinality, Cardinality
  <1>2. PICK K : K = KeysOf(R)
    OBVIOUS
  <1>3. /\ acc = [groups |-> acc.groups, full |-> acc.full] /\ acc.full = FALSE
        /\ DOMAIN acc.groups = K /\ Cardinality(K) <= job.maxGroups
        /\ \A k \in K : acc.groups[k] = [f \in job.functions |-> StateOf(f, OfKey(R, k))]
    BY <1>2 DEF Describes
  <1>4. IsFiniteSet(K) /\ Cardinality(K) \in Nat /\ job.maxGroups \in Nat
    BY <1>2, KeysFinite DEF AggJobOK
  <1>5. CASE key \in K
    <2>1. found = acc
      BY <1>3, <1>5 DEF Agg!LookupOrInsert
    <2>2. K \cup {key} = K
      BY <1>5
    <2> QED BY <1>2, <1>3, <1>5, <2>1, <2>2 DEF GroupIsFound
  <1>6. CASE key \notin K /\ Cardinality(K) >= job.maxGroups
    <2>1. found = [acc EXCEPT !.full = TRUE]
      BY <1>1, <1>3, <1>6 DEF Agg!LookupOrInsert
    <2>2. found = [groups |-> acc.groups, full |-> TRUE]
      BY <1>3, <2>1
    <2> QED BY <1>2, <1>6, <2>2 DEF GroupIsFound
  <1>7. CASE key \notin K /\ Cardinality(K) < job.maxGroups
    <2> DEFINE new == [f \in job.functions |-> Agg!NewState(f)]
               groups == [k \in K \cup {key} |-> IF k = key THEN new ELSE acc.groups[k]]
    <2>1. found = [acc EXCEPT !.groups = groups]
      BY <1>1, <1>3, <1>4, <1>7 DEF Agg!LookupOrInsert
    <2>2. new = [f \in job.functions |-> StateOf(f, OfKey(R, key))]
      <3>1. OfKey(R, key) = {}
        BY <1>2, <1>7 DEF KeysOf, OfKey
      <3> QED BY <3>1, StateAtFirst
    <2> HIDE DEF new
    <2>3. /\ DOMAIN groups = K \cup {key} /\ \A k \in K : groups[k] = acc.groups[k]
          /\ groups[key] = new
      BY <1>7
    <2>4. Cardinality(K \cup {key}) <= job.maxGroups
      <3>1. Cardinality(K \cup {key}) = Cardinality(K) + 1
        BY <1>4, <1>7, FS_AddElement
      <3> QED BY <1>4, <1>7, <3>1
    <2> HIDE DEF groups
    <2>5. found = [groups |-> groups, full |-> FALSE]
      BY <1>3, <2>1
    <2> QED BY <1>2, <2>2, <2>3, <2>4, <2>5 DEF GroupIsFound
  <1> QED BY <1>4, <1>5, <1>6, <1>7

\* The group of a key that was found has the rows S, unless there is no room for it.
GroupIsSet(next, found, key, S) ==
    /\ found.full => next = found
    /\ ~found.full => next = [found EXCEPT !.groups[key] = [f \in job.functions |-> StateOf(f, S)]]

\* Rows of one key that are new to the accumulator go into their group.
LEMMA GroupGrows ==
    ASSUME AggJobOK, NEW R \in SUBSET Agg!Rows, IsFiniteSet(R), NEW acc, Describes(acc, R), ~acc.full,
           NEW key, NEW D \in SUBSET Agg!Rows, IsFiniteSet(D), D # {}, \A r \in D : Agg!Key(r) = key,
           NEW next, GroupIsSet(next, Agg!LookupOrInsert(acc, key), key, OfKey(R, key) \cup D)
    PROVE  Describes(next, R \cup D)
  <1>1. PICK found : found = Agg!LookupOrInsert(acc, key)
    OBVIOUS
  <1>2. /\ found = [groups |-> found.groups, full |-> found.full] /\ found.full \in BOOLEAN
        /\ found.full => key \notin KeysOf(R) /\ Cardinality(KeysOf(R)) >= job.maxGroups
        /\ ~found.full =>
              /\ DOMAIN found.groups = KeysOf(R) \cup {key}
              /\ \A k \in KeysOf(R) : found.groups[k] = acc.groups[k]
              /\ Cardinality(KeysOf(R) \cup {key}) <= job.maxGroups
    <2>1. GroupIsFound(found, acc, R, key)
      BY <1>1, GroupFound
    <2> QED BY ONLY <2>1 DEF GroupIsFound
  <1>3. PICK K : K = KeysOf(R)
    OBVIOUS
  <1>4. KeysOf(R \cup D) = K \cup {key}
    <2>1. KeysOf(D) = {key}
      BY DEF KeysOf
    <2> QED BY <1>3, <2>1 DEF KeysOf
  <1>5. IsFiniteSet(K) /\ Cardinality(K) \in Nat /\ job.maxGroups \in Nat
    BY <1>3, KeysFinite DEF AggJobOK
  <1>6. CASE found.full
    <2>1. Cardinality(K \cup {key}) = Cardinality(K) + 1
      BY <1>2, <1>3, <1>5, <1>6, FS_AddElement
    <2>2. Cardinality(K \cup {key}) > job.maxGroups
      BY <1>2, <1>3, <1>5, <1>6, <2>1
    <2>3. next = found
      BY <1>1, <1>6 DEF GroupIsSet
    <2> QED BY <1>2, <1>4, <1>6, <2>2, <2>3 DEF Describes
  <1>7. CASE ~found.full
    <2>1. PICK new : new = [f \in job.functions |-> StateOf(f, OfKey(R, key) \cup D)]
      OBVIOUS
    <2>2. next = [found EXCEPT !.groups[key] = new]
      BY <1>1, <1>7, <2>1 DEF GroupIsSet
    <2>3. PICK groups : groups = [found.groups EXCEPT ![key] = new]
      OBVIOUS
    <2>4. next = [groups |-> groups, full |-> FALSE]
      BY <1>2, <1>7, <2>2, <2>3
    <2>5. DOMAIN groups = K \cup {key} /\ groups[key] = new /\ \A k \in K : k # key => groups[k] = acc.groups[k]
      BY <1>2, <1>3, <1>7, <2>3
    <2>6. ASSUME NEW k \in K \cup {key}
          PROVE  groups[k] = [f \in job.functions |-> StateOf(f, OfKey(R \cup D, k))]
      <3>1. CASE k = key
        <4>1. OfKey(R \cup D, k) = OfKey(R, key) \cup D
          BY <3>1 DEF OfKey
        <4> QED BY <2>1, <2>5, <3>1, <4>1
      <3>2. CASE k # key
        <4>1. OfKey(R \cup D, k) = OfKey(R, k)
          BY <3>2 DEF OfKey
        <4>2. acc.groups[k] = [f \in job.functions |-> StateOf(f, OfKey(R, k))]
          BY <1>3, <3>2 DEF Describes
        <4> QED BY <2>5, <3>2, <4>1, <4>2
      <3> QED BY <3>1, <3>2
    <2>7. Cardinality(K \cup {key}) <= job.maxGroups
      BY <1>2, <1>3, <1>7
    <2> HIDE DEF Describes
    <2>8. /\ next = [groups |-> next.groups, full |-> next.full] /\ next.full = FALSE /\ next.groups = groups
      BY <2>4
    <2> QED BY <1>4, <2>5, <2>6, <2>7, <2>8 DEF Describes
  <1> QED BY <1>2, <1>6, <1>7

-----------------------------------------------------------------------------
(* The aggregation: a batch *)

BatchAt(s, b) == job.shards[s][b]
BatchRows(s, b) == {<<s, b, i>> : i \in DOMAIN BatchAt(s, b).rows}

\* The rows of a batch are rows, finitely many, with the keys and values that are
\* looked up for them.
LEMMA BatchFacts ==
    ASSUME AggJobOK, NEW s \in DOMAIN job.shards, NEW b \in DOMAIN job.shards[s]
    PROVE  /\ BatchRows(s, b) \in SUBSET Agg!Rows /\ IsFiniteSet(BatchRows(s, b))
           /\ DOMAIN BatchAt(s, b).rows \in SUBSET Int /\ IsFiniteSet(DOMAIN BatchAt(s, b).rows)
           /\ \A i \in DOMAIN BatchAt(s, b).rows :
                 /\ Agg!ValueOf(<<s, b, i>>) = BatchAt(s, b).rows[i].v
                 /\ Agg!Key(<<s, b, i>>) = Agg!RowKey(BatchAt(s, b), BatchAt(s, b).rows[i])
                 /\ job.grouped /\ BatchAt(s, b).dict # Null =>
                       Agg!Key(<<s, b, i>>) =
                         Agg!SlotKey(BatchAt(s, b), Agg!Slot(BatchAt(s, b), BatchAt(s, b).rows[i]))
  <1>1. PICK batch : batch = BatchAt(s, b)
    OBVIOUS
  <1>2. batch \in Agg!Batch
    <2>1. job.shards[s] \in Seq(Agg!Batch)
      BY DEF AggJobOK
    <2> QED BY <1>1, <2>1 DEF BatchAt
  <1>3. PICK n \in Nat : DOMAIN batch.rows = 1..n
    <2>1. PICK T : batch.rows \in Seq(T)
      BY <1>2 DEF Agg!Batch
    <2> QED BY <2>1
  <1>4. DOMAIN batch.rows \in SUBSET Int /\ IsFiniteSet(DOMAIN batch.rows)
    <2>1. IsFiniteSet(1..n)
      BY FS_Interval
    <2> QED BY <1>3, <2>1
  <1>5. BatchRows(s, b) \in SUBSET Agg!Rows
    BY DEF BatchRows, BatchAt, Agg!Rows
  <1>6. IsFiniteSet(BatchRows(s, b))
    <2>1. PICK g : g = [i \in DOMAIN batch.rows |-> <<s, b, i>>]
      OBVIOUS
    <2>2. IsFiniteSet({g[i] : i \in DOMAIN batch.rows})
      BY <1>4, <2>1, FiniteImage
    <2>3. {g[i] : i \in DOMAIN batch.rows} = BatchRows(s, b)
      BY <1>1, <2>1 DEF BatchRows
    <2> QED BY <2>2, <2>3
  <1>7. ASSUME NEW i \in DOMAIN batch.rows
        PROVE  /\ Agg!ValueOf(<<s, b, i>>) = batch.rows[i].v
               /\ Agg!Key(<<s, b, i>>) = Agg!RowKey(batch, batch.rows[i])
               /\ job.grouped /\ batch.dict # Null =>
                     Agg!Key(<<s, b, i>>) = Agg!SlotKey(batch, Agg!Slot(batch, batch.rows[i]))
    <2>1. PICK row, dict, g : row = batch.rows[i] /\ dict = batch.dict /\ g = row.g
      OBVIOUS
    <2>2. Agg!RowAt(<<s, b, i>>) = row
      BY <1>1, <2>1 DEF Agg!RowAt, BatchAt
    <2>3. Agg!Key(<<s, b, i>>) =
            IF ~job.grouped THEN <<>> ELSE <<IF dict = Null \/ g = Null THEN g ELSE dict[g]>>
      <3>1. <<s, b, i>>[1] = s /\ <<s, b, i>>[2] = b
        OBVIOUS
      <3> QED BY <1>1, <2>1, <2>2, <3>1 DEF Agg!Key, BatchAt
    <2>4. dict # Null =>
            Agg!SlotKey(batch, Agg!Slot(batch, row)) = <<IF g = Null THEN g ELSE dict[g]>>
      <3>1. Agg!Slot(batch, row) = IF g # Null /\ dict[g] = Null THEN Null ELSE g
        BY <2>1 DEF Agg!Slot
      <3>2. \A slot : Agg!SlotKey(batch, slot) =
                <<IF slot = Null THEN Null ELSE IF dict[slot] = Null THEN 0 ELSE dict[slot]>>
        BY <2>1 DEF Agg!SlotKey
      <3>3. CASE g = Null
        BY <3>1, <3>2, <3>3
      <3>4. CASE g # Null /\ dict[g] = Null
        BY <3>1, <3>2, <3>4
      <3>5. CASE g # Null /\ dict[g] # Null
        BY <3>1, <3>2, <3>5
      <3> QED BY <3>3, <3>4, <3>5
    <2>5. Agg!RowKey(batch, row) =
            IF ~job.grouped THEN <<>> ELSE <<IF dict = Null \/ g = Null THEN g ELSE dict[g]>>
      <3>1. CASE ~job.grouped
        BY <3>1 DEF Agg!RowKey
      <3>2. CASE job.grouped /\ dict = Null
        BY <2>1, <3>2 DEF Agg!RowKey
      <3>3. CASE job.grouped /\ dict # Null
        <4>1. Agg!RowKey(batch, row) = Agg!SlotKey(batch, Agg!Slot(batch, row))
          BY <2>1, <3>3 DEF Agg!RowKey
        <4> QED BY <2>4, <3>3, <4>1
      <3> QED BY <3>1, <3>2, <3>3 DEF AggJobOK
    <2>6. Agg!ValueOf(<<s, b, i>>) = row.v
      BY <2>2 DEF Agg!ValueOf
    <2> QED BY <2>1, <2>3, <2>4, <2>5, <2>6
  <1> QED BY <1>1, <1>4, <1>5, <1>6, <1>7

\* An accumulator that has seen some rows, and then one more.
LEMMA RowSeen ==
    ASSUME AggJobOK, NEW R \in SUBSET Agg!Rows, IsFiniteSet(R), NEW acc, Describes(acc, R),
           NEW r \in Agg!Rows, r \notin R
    PROVE  Describes(Agg!UpdateRow(acc, Agg!Key(r), Agg!ValueOf(r)), R \cup {r})
  <1>1. IsFiniteSet({r}) /\ IsFiniteSet(R \cup {r})
    BY FS_Singleton, FS_Union
  <1>2. PICK key, v, found : key = Agg!Key(r) /\ v = Agg!ValueOf(r) /\ found = Agg!LookupOrInsert(acc, key)
    OBVIOUS
  <1>3. PICK next : next = Agg!UpdateRow(acc, key, v)
    OBVIOUS
  <1>4. /\ found.full => next = found
        /\ ~found.full => next = [found EXCEPT !.groups[key] =
                                    [f \in job.functions |-> Agg!UpdateState(f, found.groups[key][f], v)]]
    BY <1>2, <1>3 DEF Agg!UpdateRow
  <1>5. CASE acc.full
    <2>1. found = acc
      BY <1>2, <1>5 DEF Agg!LookupOrInsert
    <2>2. Describes(acc, R \cup {r})
      <3>1. PICK Q : Q = R \cup {r}
        OBVIOUS
      <3>2. R \subseteq Q /\ IsFiniteSet(Q)
        BY <1>1, <3>1
      <3> QED BY <1>5, <3>1, <3>2, FullStays
    <2> QED BY <1>2, <1>3, <1>4, <1>5, <2>1, <2>2
  <1>6. CASE ~acc.full
    <2>1. GroupIsFound(found, acc, R, key)
      BY <1>2, <1>6, GroupFound
    <2>2. ASSUME ~found.full
          PROVE  [f \in job.functions |-> Agg!UpdateState(f, found.groups[key][f], v)]
                 = [f \in job.functions |-> StateOf(f, OfKey(R, key) \cup {r})]
      <3>1. PICK Q : Q = OfKey(R, key)
        OBVIOUS
      <3>2. Q \in SUBSET Agg!Rows /\ IsFiniteSet(Q) /\ r \notin Q
        <4>1. Q \in SUBSET R
          BY <3>1 DEF OfKey
        <4> QED BY <4>1, FS_Subset
      <3>3. found.groups[key] = [f \in job.functions |-> StateOf(f, Q)]
        BY <2>1, <2>2, <3>1 DEF GroupIsFound
      <3>4. \A f \in job.functions : Agg!UpdateState(f, StateOf(f, Q), v) = StateOf(f, Q \cup {r})
        BY <1>2, <3>2, StateUpdated
      <3> QED BY <3>1, <3>3, <3>4
    <2>3. PICK D : D = {r}
      OBVIOUS
    <2>4. D \in SUBSET Agg!Rows /\ IsFiniteSet(D) /\ D # {} /\ \A x \in D : Agg!Key(x) = key
      BY <1>1, <1>2, <2>3
    <2>5. GroupIsSet(next, found, key, OfKey(R, key) \cup D)
      BY <1>4, <2>2, <2>3 DEF GroupIsSet
    <2>6. Describes(next, R \cup D)
      BY <1>2, <1>6, <2>4, <2>5, GroupGrows
    <2> QED BY <1>2, <1>3, <2>3, <2>6
  <1> QED BY <1>5, <1>6

\* The same with the rows of a slot.
LEMMA SlotSeen ==
    ASSUME AggJobOK, NEW s \in DOMAIN job.shards, NEW b \in DOMAIN job.shards[s],
           job.grouped, BatchAt(s, b).dict # Null, job.functions = {"Count"},
           NEW R \in SUBSET Agg!Rows, IsFiniteSet(R), NEW acc, Describes(acc, R),
           NEW slot, NEW D, D # {}, D \cap R = {},
           D = {<<s, b, i>> : i \in {i \in DOMAIN BatchAt(s, b).rows :
                                        Agg!Slot(BatchAt(s, b), BatchAt(s, b).rows[i]) = slot}}
    PROVE  Describes(Agg!FlushSlot(BatchAt(s, b), slot, acc), R \cup D)
  <1>1. PICK batch : batch = BatchAt(s, b)
    OBVIOUS
  <1>2. PICK I : I = {i \in DOMAIN batch.rows : Agg!Slot(batch, batch.rows[i]) = slot}
    OBVIOUS
  <1>3. PICK key, found, count :
            /\ key = Agg!SlotKey(batch, slot) /\ found = Agg!LookupOrInsert(acc, key)
            /\ count = Cardinality(I)
    OBVIOUS
  <1>4. D = {<<s, b, i>> : i \in I}
    BY <1>1, <1>2
  <1>5. \A i \in I : Agg!Key(<<s, b, i>>) = key
    BY <1>1, <1>2, <1>3, BatchFacts
  <1>6. D \in SUBSET Agg!Rows /\ \A x \in D : Agg!Key(x) = key
    <2>1. D \in SUBSET BatchRows(s, b)
      BY <1>1, <1>2, <1>4 DEF BatchRows
    <2> QED BY <1>4, <1>5, <2>1, BatchFacts
  <1>7. IsFiniteSet(D) /\ Cardinality(D) = count
    <2>1. IsFiniteSet(I)
      <3>1. I \in SUBSET DOMAIN batch.rows /\ IsFiniteSet(DOMAIN batch.rows)
        BY <1>1, <1>2, BatchFacts
      <3> QED BY <3>1, FS_Subset
    <2>2. PICK g : g = [i \in I |-> <<s, b, i>>]
      OBVIOUS
    <2>3. g \in Bijection(I, D)
      BY <1>4, <2>2 DEF Bijection, Injection, IsInjective, Surjection
    <2>4. ExistsBijection(I, D)
      BY <2>3 DEF ExistsBijection
    <2> QED BY <1>3, <2>1, <2>4, FS_Bijection
  <1>8. PICK next : next = Agg!FlushSlot(batch, slot, acc)
    OBVIOUS
  <1>9. /\ found.full => next = found
        /\ ~found.full => next = [found EXCEPT !.groups[key]["Count"] = @ + count]
    <2>1. Agg!Cardinality(I) = Cardinality(I)
      BY DEF Agg!Cardinality, Cardinality
    <2> QED BY <1>2, <1>3, <1>8, <2>1 DEF Agg!FlushSlot
  <1>10. CASE acc.full
    <2>1. found = acc
      BY <1>3, <1>10 DEF Agg!LookupOrInsert
    <2>2. Describes(acc, R \cup D)
      <3>1. PICK Q : Q = R \cup D
        OBVIOUS
      <3>2. R \subseteq Q /\ IsFiniteSet(Q)
        BY <1>7, <3>1, FS_Union
      <3> QED BY <1>10, <3>1, <3>2, FullStays
    <2> QED BY <1>1, <1>8, <1>9, <1>10, <2>1, <2>2
  <1>11. CASE ~acc.full
    <2>1. GroupIsFound(found, acc, R, key)
      BY <1>3, <1>11, GroupFound
    <2>2. ASSUME ~found.full
          PROVE  next = [found EXCEPT !.groups[key] =
                            [f \in job.functions |-> StateOf(f, OfKey(R, key) \cup D)]]
      <3>1. PICK Q : Q = OfKey(R, key)
        OBVIOUS
      <3>2. Q \in SUBSET Agg!Rows /\ IsFiniteSet(Q) /\ Q \cap D = {}
        <4>1. Q \in SUBSET R
          BY <3>1 DEF OfKey
        <4> QED BY <4>1, FS_Subset
      <3>3. found.groups[key] = [f \in {"Count"} |-> Cardinality(Q)]
        <4>1. found.groups[key] = [f \in job.functions |-> StateOf(f, Q)]
          BY <2>1, <2>2, <3>1 DEF GroupIsFound
        <4>2. StateOf("Count", Q) = Cardinality(Q)
          BY DEF StateOf
        <4> QED BY <4>1, <4>2
      <3>4. Cardinality(Q \cup D) = Cardinality(Q) + count
        BY <1>6, <1>7, <3>2, ApartFacts
      <3>5. [f \in job.functions |-> StateOf(f, Q \cup D)] = [f \in {"Count"} |-> Cardinality(Q) + count]
        <4>1. StateOf("Count", Q \cup D) = Cardinality(Q) + count
          BY <3>4 DEF StateOf
        <4> QED BY <4>1
      <3>6. key \in DOMAIN found.groups /\ found = [groups |-> found.groups, full |-> found.full]
        BY <2>1, <2>2 DEF GroupIsFound
      <3>7. [found.groups[key] EXCEPT !["Count"] = @ + count] = [f \in {"Count"} |-> Cardinality(Q) + count]
        BY <3>3
      <3>8. next = [found EXCEPT !.groups[key] = [found.groups[key] EXCEPT !["Count"] = @ + count]]
        BY <1>9, <2>2, <3>6
      <3> QED BY <3>1, <3>5, <3>7, <3>8
    <2>3. GroupIsSet(next, found, key, OfKey(R, key) \cup D)
      BY <1>9, <2>2 DEF GroupIsSet
    <2>4. Describes(next, R \cup D)
      BY <1>3, <1>6, <1>7, <1>11, <2>3, GroupGrows
    <2> QED BY <1>1, <1>8, <2>4
  <1> QED BY <1>10, <1>11

\* Rows of a batch, by their places and by their slots.
RowsAt(s, b, I) == {<<s, b, i>> : i \in I}
PlacesIn(batch, slots) == {i \in DOMAIN batch.rows : Agg!Slot(batch, batch.rows[i]) \in slots}

\* A batch that is added row by row,
LEMMA RowsSeen ==
    ASSUME AggJobOK, NEW s \in DOMAIN job.shards, NEW b \in DOMAIN job.shards[s],
           NEW R \in SUBSET Agg!Rows, IsFiniteSet(R), R \cap BatchRows(s, b) = {},
           NEW acc, Describes(acc, R)
    PROVE  Describes(AggFold(<<"rows", BatchAt(s, b)>>, acc, DOMAIN BatchAt(s, b).rows),
                     R \cup BatchRows(s, b))
  <1>1. PICK batch, I, which : batch = BatchAt(s, b) /\ I = DOMAIN batch.rows /\ which = <<"rows", batch>>
    OBVIOUS
  <1>2. I \in SUBSET Int /\ IsFiniteSet(I)
    BY <1>1, BatchFacts
  <1>3. PICK f : GoesUp(f, which, acc, I) /\ AggFold(which, acc, I) = f[I]
    BY <1>2, AggFoldSteps
  <1>4. PICK Good : Good = {t \in SUBSET I : Describes(f[t], R \cup RowsAt(s, b, t))}
    OBVIOUS
  <1>5. {} \in Good
    <2>1. R \cup RowsAt(s, b, {}) = R
      BY DEF RowsAt
    <2> QED BY <1>3, <1>4, <2>1 DEF GoesUp
  <1>6. ASSUME NEW t \in SUBSET I, t # {}
        PROVE  \E x \in t : t \ {x} \in Good => t \in Good
    <2>1. PICK x \in t : f[t] = AggStep(which, x, f[t \ {x}])
      BY <1>3, <1>6 DEF GoesUp
    <2>2. ASSUME t \ {x} \in Good PROVE t \in Good
      <3>1. PICK Q, r, a : Q = R \cup RowsAt(s, b, t \ {x}) /\ r = <<s, b, x>> /\ a = f[t \ {x}]
        OBVIOUS
      <3>2. Describes(a, Q)
        BY <1>4, <2>2, <3>1
      <3>3. RowsAt(s, b, t \ {x}) \in SUBSET BatchRows(s, b) /\ r \in BatchRows(s, b)
        BY <1>1, <3>1 DEF RowsAt, BatchRows
      <3>4. BatchRows(s, b) \in SUBSET Agg!Rows /\ IsFiniteSet(BatchRows(s, b))
        BY BatchFacts
      <3>5. Q \in SUBSET Agg!Rows /\ r \in Agg!Rows
        BY <3>1, <3>3, <3>4
      <3>6. IsFiniteSet(Q)
        <4>1. PICK P : P = RowsAt(s, b, t \ {x})
          OBVIOUS
        <4>2. IsFiniteSet(P)
          BY <3>3, <3>4, <4>1, FS_Subset
        <4> QED BY <3>1, <4>1, <4>2, FS_Union
      <3>7. r \notin Q
        <4>1. r \notin RowsAt(s, b, t \ {x})
          BY <3>1 DEF RowsAt
        <4> QED BY <3>1, <3>3, <4>1
      <3>8. f[t] = Agg!UpdateRow(a, Agg!Key(r), Agg!ValueOf(r))
        <4>1. f[t] = Agg!UpdateRow(a, Agg!RowKey(batch, batch.rows[x]), batch.rows[x].v)
          BY <1>1, <2>1, <3>1 DEF AggStep
        <4>2. /\ Agg!ValueOf(r) = batch.rows[x].v
              /\ Agg!Key(r) = Agg!RowKey(batch, batch.rows[x])
          BY <1>1, <3>1, BatchFacts
        <4> QED BY <4>1, <4>2
      <3>9. Describes(f[t], Q \cup {r})
        BY <3>2, <3>5, <3>6, <3>7, <3>8, RowSeen
      <3>10. Q \cup {r} = R \cup RowsAt(s, b, t)
        BY <3>1 DEF RowsAt
      <3> QED BY <1>4, <3>9, <3>10
    <2> QED BY <2>2
  <1>7. I \in Good
    BY <1>2, <1>5, <1>6, SubsetInduction
  <1>8. RowsAt(s, b, I) = BatchRows(s, b)
    BY <1>1 DEF RowsAt, BatchRows
  <1> QED BY <1>1, <1>3, <1>4, <1>7, <1>8

\* and one that is counted by slot.
LEMMA SlotsSeen ==
    ASSUME AggJobOK, NEW s \in DOMAIN job.shards, NEW b \in DOMAIN job.shards[s],
           job.grouped, BatchAt(s, b).dict # Null, job.functions = {"Count"},
           NEW R \in SUBSET Agg!Rows, IsFiniteSet(R), R \cap BatchRows(s, b) = {},
           NEW acc, Describes(acc, R)
    PROVE  Describes(AggFold(<<"slots", BatchAt(s, b)>>, acc,
                             {Agg!Slot(BatchAt(s, b), BatchAt(s, b).rows[i]) : i \in DOMAIN BatchAt(s, b).rows}),
                     R \cup BatchRows(s, b))
  <1>1. PICK batch, I, which : batch = BatchAt(s, b) /\ I = DOMAIN batch.rows /\ which = <<"slots", batch>>
    OBVIOUS
  <1>2. PICK S : S = {Agg!Slot(batch, batch.rows[i]) : i \in I}
    OBVIOUS
  <1>3. IsFiniteSet(I) /\ IsFiniteSet(S)
    <2>1. IsFiniteSet(I)
      BY <1>1, BatchFacts
    <2>2. PICK g : g = [i \in I |-> Agg!Slot(batch, batch.rows[i])]
      OBVIOUS
    <2>3. IsFiniteSet({g[i] : i \in I})
      BY <2>1, <2>2, FiniteImage
    <2>4. {g[i] : i \in I} = S
      BY <1>2, <2>2
    <2> QED BY <2>1, <2>3, <2>4
  <1>4. PICK f : GoesUp(f, which, acc, S) /\ AggFold(which, acc, S) = f[S]
    <2>1. which[1] = "slots"
      BY <1>1
    <2> QED BY <1>3, <2>1, AggFoldSteps
  <1>5. PICK Good : Good = {t \in SUBSET S : Describes(f[t], R \cup RowsAt(s, b, PlacesIn(batch, t)))}
    OBVIOUS
  <1>6. {} \in Good
    <2>1. R \cup RowsAt(s, b, PlacesIn(batch, {})) = R
      BY DEF RowsAt, PlacesIn
    <2> QED BY <1>4, <1>5, <2>1 DEF GoesUp
  <1>7. ASSUME NEW t \in SUBSET S, t # {}
        PROVE  \E x \in t : t \ {x} \in Good => t \in Good
    <2>1. PICK x \in t : f[t] = AggStep(which, x, f[t \ {x}])
      BY <1>4, <1>7 DEF GoesUp
    <2>2. ASSUME t \ {x} \in Good PROVE t \in Good
      <3>1. PICK Q, D, a : /\ Q = R \cup RowsAt(s, b, PlacesIn(batch, t \ {x}))
                           /\ D = RowsAt(s, b, PlacesIn(batch, {x}))
                           /\ a = f[t \ {x}]
        OBVIOUS
      <3>2. Describes(a, Q)
        BY <1>5, <2>2, <3>1
      <3>3. RowsAt(s, b, PlacesIn(batch, t \ {x})) \in SUBSET BatchRows(s, b) /\ D \in SUBSET BatchRows(s, b)
        BY <1>1, <3>1 DEF RowsAt, PlacesIn, BatchRows
      <3>4. BatchRows(s, b) \in SUBSET Agg!Rows /\ IsFiniteSet(BatchRows(s, b))
        BY BatchFacts
      <3>5. Q \in SUBSET Agg!Rows
        BY <3>1, <3>3, <3>4
      <3>6. IsFiniteSet(Q)
        <4>1. PICK P : P = RowsAt(s, b, PlacesIn(batch, t \ {x}))
          OBVIOUS
        <4>2. IsFiniteSet(P)
          BY <3>3, <3>4, <4>1, FS_Subset
        <4> QED BY <3>1, <4>1, <4>2, FS_Union
      <3>7. D \cap Q = {}
        <4>1. D \cap RowsAt(s, b, PlacesIn(batch, t \ {x})) = {}
          BY <3>1 DEF RowsAt, PlacesIn
        <4> QED BY <3>1, <3>3, <4>1
      <3>8. D # {}
        <4>1. PICK i \in I : x = Agg!Slot(batch, batch.rows[i])
          BY <1>2
        <4>2. i \in PlacesIn(batch, {x})
          BY <1>1, <4>1 DEF PlacesIn
        <4> QED BY <3>1, <4>2 DEF RowsAt
      <3>9. D = {<<s, b, i>> : i \in {i \in DOMAIN batch.rows : Agg!Slot(batch, batch.rows[i]) = x}}
        BY <3>1 DEF RowsAt, PlacesIn
      <3>10. f[t] = Agg!FlushSlot(batch, x, a)
        BY <1>1, <2>1, <3>1 DEF AggStep
      <3>11. Describes(Agg!FlushSlot(BatchAt(s, b), x, a), Q \cup D)
        BY <1>1, <3>2, <3>5, <3>6, <3>7, <3>8, <3>9, SlotSeen
      <3>12. Q \cup D = R \cup RowsAt(s, b, PlacesIn(batch, t))
        BY <3>1 DEF RowsAt, PlacesIn
      <3> QED BY <1>1, <1>5, <3>10, <3>11, <3>12
    <2> QED BY <2>2
  <1>8. S \in Good
    BY <1>3, <1>6, <1>7, SubsetInduction
  <1>9. RowsAt(s, b, PlacesIn(batch, S)) = BatchRows(s, b)
    BY <1>1, <1>2 DEF RowsAt, PlacesIn, BatchRows
  <1>10. Describes(AggFold(which, acc, S), R \cup BatchRows(s, b))
    BY <1>4, <1>5, <1>8, <1>9
  <1> QED BY <1>1, <1>2, <1>10

\* However a batch is added, its rows are seen.
LEMMA BatchSeen ==
    ASSUME AggJobOK, NEW s \in DOMAIN job.shards, NEW b \in DOMAIN job.shards[s],
           NEW R \in SUBSET Agg!Rows, IsFiniteSet(R), R \cap BatchRows(s, b) = {},
           NEW acc, Describes(acc, R)
    PROVE  Describes(Agg!UpdateEvaluated(acc, BatchAt(s, b)), R \cup BatchRows(s, b))
  <1>1. CASE job.grouped /\ BatchAt(s, b).dict # Null /\ job.functions = {"Count"}
    <2>1. PICK batch : batch = BatchAt(s, b)
      OBVIOUS
    <2>2. Agg!UpdateEvaluated(acc, batch)
          = AggFold(<<"slots", batch>>, acc, {Agg!Slot(batch, batch.rows[i]) : i \in DOMAIN batch.rows})
      BY <1>1, <2>1, SlotsFold DEF Agg!UpdateEvaluated
    <2> QED BY <1>1, <2>1, <2>2, SlotsSeen
  <1>2. CASE ~(job.grouped /\ BatchAt(s, b).dict # Null /\ job.functions = {"Count"})
    <2>1. PICK batch : batch = BatchAt(s, b)
      OBVIOUS
    <2>2. Agg!UpdateEvaluated(acc, batch) = AggFold(<<"rows", batch>>, acc, DOMAIN batch.rows)
      BY <1>2, <2>1, RowsFold
    <2> QED BY <2>1, <2>2, RowsSeen
  <1> QED BY <1>1, <1>2

-----------------------------------------------------------------------------
(* The aggregation: merging accumulators *)

\* A group of another accumulator comes in with its rows.
LEMMA GroupSeen ==
    ASSUME AggJobOK, NEW R \in SUBSET Agg!Rows, IsFiniteSet(R), NEW acc, Describes(acc, R),
           NEW Q \in SUBSET Agg!Rows, IsFiniteSet(Q), NEW other, Describes(other, Q), ~other.full,
           NEW key \in KeysOf(Q), OfKey(Q, key) \cap R = {}
    PROVE  Describes(Agg!MergeGroup(other, key, acc), R \cup OfKey(Q, key))
  <1>1. PICK D, found, next : /\ D = OfKey(Q, key) /\ found = Agg!LookupOrInsert(acc, key)
                              /\ next = Agg!MergeGroup(other, key, acc)
    OBVIOUS
  <1>2. D \in SUBSET Agg!Rows /\ IsFiniteSet(D) /\ D # {} /\ \A r \in D : Agg!Key(r) = key
    <2>1. D \in SUBSET Q
      BY <1>1 DEF OfKey
    <2>2. IsFiniteSet(D)
      BY <2>1, FS_Subset
    <2> QED BY <1>1, <2>1, <2>2 DEF OfKey, KeysOf
  <1>3. /\ found.full => next = found
        /\ ~found.full => next = [found EXCEPT !.groups[key] =
              [f \in job.functions |-> Agg!MergeState(f, found.groups[key][f], other.groups[key][f])]]
    BY <1>1 DEF Agg!MergeGroup
  <1>4. CASE acc.full
    <2>1. found = acc
      BY <1>1, <1>4 DEF Agg!LookupOrInsert
    <2>2. Describes(acc, R \cup D)
      <3>1. PICK P : P = R \cup D
        OBVIOUS
      <3>2. R \subseteq P /\ IsFiniteSet(P)
        BY <1>2, <3>1, FS_Union
      <3> QED BY <1>4, <3>1, <3>2, FullStays
    <2> QED BY <1>1, <1>3, <1>4, <2>1, <2>2
  <1>5. CASE ~acc.full
    <2>1. GroupIsFound(found, acc, R, key)
      BY <1>1, <1>5, GroupFound
    <2>2. ASSUME ~found.full
          PROVE  [f \in job.functions |-> Agg!MergeState(f, found.groups[key][f], other.groups[key][f])]
                 = [f \in job.functions |-> StateOf(f, OfKey(R, key) \cup D)]
      <3>1. PICK P : P = OfKey(R, key)
        OBVIOUS
      <3>2. P \in SUBSET Agg!Rows /\ IsFiniteSet(P) /\ P \cap D = {}
        <4>1. P \in SUBSET R
          BY <3>1 DEF OfKey
        <4> QED BY <1>1, <4>1, FS_Subset
      <3>3. found.groups[key] = [f \in job.functions |-> StateOf(f, P)]
        BY <2>1, <2>2, <3>1 DEF GroupIsFound
      <3>4. other.groups[key] = [f \in job.functions |-> StateOf(f, D)]
        BY <1>1 DEF Describes
      <3>5. \A f \in job.functions : Agg!MergeState(f, StateOf(f, P), StateOf(f, D)) = StateOf(f, P \cup D)
        BY <1>2, <3>2, StatesMerged
      <3> QED BY <3>1, <3>3, <3>4, <3>5
    <2>3. GroupIsSet(next, found, key, OfKey(R, key) \cup D)
      BY <1>3, <2>2 DEF GroupIsSet
    <2>4. Describes(next, R \cup D)
      BY <1>1, <1>2, <1>5, <2>3, GroupGrows
    <2> QED BY <1>1, <2>4
  <1> QED BY <1>4, <1>5

OfKeys(R, keys) == {r \in R : Agg!Key(r) \in keys}

\* Two accumulators are merged: the rows of both are seen.
LEMMA AccumulatorsMerged ==
    ASSUME AggJobOK, NEW R \in SUBSET Agg!Rows, IsFiniteSet(R), NEW acc, Describes(acc, R),
           NEW Q \in SUBSET Agg!Rows, IsFiniteSet(Q), NEW other, Describes(other, Q), ~other.full,
           R \cap Q = {}
    PROVE  Describes(Agg!MergeInto(acc, other), R \cup Q)
  <1>1. PICK K, which : K = KeysOf(Q) /\ which = <<"groups", other>>
    OBVIOUS
  <1>2. DOMAIN other.groups = K /\ IsFiniteSet(K)
    BY <1>1, KeysFinite DEF Describes
  <1>3. PICK f : GoesUp(f, which, acc, K) /\ AggFold(which, acc, K) = f[K]
    <2>1. which[1] = "groups"
      BY <1>1
    <2> QED BY <1>2, <2>1, AggFoldSteps
  <1>4. PICK Good : Good = {t \in SUBSET K : Describes(f[t], R \cup OfKeys(Q, t))}
    OBVIOUS
  <1>5. {} \in Good
    <2>1. R \cup OfKeys(Q, {}) = R
      BY DEF OfKeys
    <2> QED BY <1>3, <1>4, <2>1 DEF GoesUp
  <1>6. ASSUME NEW t \in SUBSET K, t # {}
        PROVE  \E x \in t : t \ {x} \in Good => t \in Good
    <2>1. PICK x \in t : f[t] = AggStep(which, x, f[t \ {x}])
      BY <1>3, <1>6 DEF GoesUp
    <2>2. ASSUME t \ {x} \in Good PROVE t \in Good
      <3>1. PICK P, a : P = R \cup OfKeys(Q, t \ {x}) /\ a = f[t \ {x}]
        OBVIOUS
      <3>2. Describes(a, P)
        BY <1>4, <2>2, <3>1
      <3>3. P \in SUBSET Agg!Rows /\ IsFiniteSet(P)
        <4>1. PICK O : O = OfKeys(Q, t \ {x})
          OBVIOUS
        <4>2. O \in SUBSET Q
          BY <4>1 DEF OfKeys
        <4> QED BY <3>1, <4>1, <4>2, FS_Subset, FS_Union
      <3>4. OfKey(Q, x) \cap P = {} /\ x \in KeysOf(Q)
        BY <1>1, <3>1 DEF OfKey, OfKeys
      <3>5. f[t] = Agg!MergeGroup(other, x, a)
        BY <1>1, <2>1, <3>1 DEF AggStep
      <3>6. Describes(f[t], P \cup OfKey(Q, x))
        BY <3>2, <3>3, <3>4, <3>5, GroupSeen
      <3>7. P \cup OfKey(Q, x) = R \cup OfKeys(Q, t)
        BY <3>1 DEF OfKey, OfKeys
      <3> QED BY <1>4, <3>6, <3>7
    <2> QED BY <2>2
  <1>7. K \in Good
    BY <1>2, <1>5, <1>6, SubsetInduction
  <1>8. OfKeys(Q, K) = Q
    BY <1>1 DEF OfKeys, KeysOf
  <1>9. Agg!MergeInto(acc, other) = f[K]
    BY <1>1, <1>2, <1>3, GroupsFold
  <1> QED BY <1>4, <1>7, <1>8, <1>9

\* The rows of a shard, those before a batch and all.
Taken(s, n) == {r \in Agg!Rows : r[1] = s /\ r[2] < n}
ShardRows(s) == {r \in Agg!Rows : r[1] = s}

\* There are finitely many rows, by shard, batch and place.
LEMMA RowsAreFinite ==
    ASSUME AggJobOK
    PROVE  /\ IsFiniteSet(Agg!Rows)
           /\ \A r \in Agg!Rows : r[1] \in DOMAIN job.shards /\ r[2] \in DOMAIN job.shards[r[1]]
           /\ \A s \in DOMAIN job.shards : \A b \in DOMAIN job.shards[s] :
                 BatchRows(s, b) = {r \in Agg!Rows : r[1] = s /\ r[2] = b}
           /\ DOMAIN job.shards = 1..Len(job.shards) /\ Len(job.shards) \in Nat \ {0}
           /\ \A s \in DOMAIN job.shards :
                 DOMAIN job.shards[s] = 1..Len(job.shards[s]) /\ Len(job.shards[s]) \in Nat
  <1>1. /\ job.shards \in Seq(Seq(Agg!Batch)) /\ job.shards # <<>>
    BY DEF AggJobOK
  <1>2. /\ DOMAIN job.shards = 1..Len(job.shards) /\ Len(job.shards) \in Nat \ {0}
        /\ \A s \in DOMAIN job.shards :
              DOMAIN job.shards[s] = 1..Len(job.shards[s]) /\ Len(job.shards[s]) \in Nat
    <2>1. PICK T : T = Seq(Agg!Batch)
      OBVIOUS
    <2>2. /\ DOMAIN job.shards = 1..Len(job.shards) /\ Len(job.shards) \in Nat \ {0}
          /\ \A s \in DOMAIN job.shards : job.shards[s] \in T
      BY <1>1, <2>1
    <2>3. PICK B : B = Agg!Batch
      OBVIOUS
    <2>4. \A q \in Seq(B) : DOMAIN q = 1..Len(q) /\ Len(q) \in Nat
      OBVIOUS
    <2> QED BY <2>1, <2>2, <2>3, <2>4
  <1>3. Agg!Rows = UNION {UNION {BatchRows(s, b) : b \in DOMAIN job.shards[s]} : s \in DOMAIN job.shards}
    BY DEF Agg!Rows, BatchRows, BatchAt
  <1>4. \A S : IsFiniteSet(S) /\ (\A T \in S : IsFiniteSet(T)) => IsFiniteSet(UNION S)
    BY FS_UNION
  <1>5. ASSUME NEW s \in DOMAIN job.shards
        PROVE  IsFiniteSet(UNION {BatchRows(s, b) : b \in DOMAIN job.shards[s]})
    <2>1. PICK g : g = [b \in DOMAIN job.shards[s] |-> BatchRows(s, b)]
      OBVIOUS
    <2>2. IsFiniteSet(DOMAIN job.shards[s])
      <3>1. PICK n \in Nat : DOMAIN job.shards[s] = 1..n
        BY <1>2
      <3>2. IsFiniteSet(1..n)
        BY FS_Interval
      <3> QED BY <3>1, <3>2
    <2>3. IsFiniteSet({g[b] : b \in DOMAIN job.shards[s]})
      BY <2>1, <2>2, FiniteImage
    <2>4. {g[b] : b \in DOMAIN job.shards[s]} = {BatchRows(s, b) : b \in DOMAIN job.shards[s]}
      BY <2>1
    <2>5. \A T \in {BatchRows(s, b) : b \in DOMAIN job.shards[s]} : IsFiniteSet(T)
      BY BatchFacts
    <2> QED BY <1>4, <2>3, <2>4, <2>5
  <1>6. IsFiniteSet(Agg!Rows)
    <2>1. PICK S, g : /\ S = DOMAIN job.shards
                      /\ g = [s \in S |-> UNION {BatchRows(s, b) : b \in DOMAIN job.shards[s]}]
      OBVIOUS
    <2>2. IsFiniteSet(S)
      BY <1>2, <2>1, FS_Interval
    <2>3. IsFiniteSet({g[s] : s \in S})
      <3>1. g = [s \in S |-> g[s]]
        BY <2>1
      <3> QED BY <2>2, <3>1, FiniteImage
    <2>4. {g[s] : s \in S}
          = {UNION {BatchRows(s, b) : b \in DOMAIN job.shards[s]} : s \in DOMAIN job.shards}
      BY <2>1
    <2>5. \A T \in {g[s] : s \in S} : IsFiniteSet(T)
      BY <1>5, <2>1
    <2> QED BY <1>3, <1>4, <2>3, <2>4, <2>5
  <1>7. \A s \in DOMAIN job.shards : \A b \in DOMAIN job.shards[s] :
           BatchRows(s, b) = {r \in Agg!Rows : r[1] = s /\ r[2] = b}
    <2>1. \A s, b : \A r \in BatchRows(s, b) : r[1] = s /\ r[2] = b
      BY DEF BatchRows
    <2> QED BY <1>3, <2>1
  <1>8. \A r \in Agg!Rows : r[1] \in DOMAIN job.shards /\ r[2] \in DOMAIN job.shards[r[1]]
    <2>1. \A s, b : \A r \in BatchRows(s, b) : r[1] = s /\ r[2] = b
      BY DEF BatchRows
    <2> QED BY <1>3, <2>1
  <1> QED BY <1>2, <1>6, <1>7, <1>8

\* The shards' accumulators are merged in turn: all rows are seen.
LEMMA ShardsMerged ==
    ASSUME AggJobOK, NEW accs, DOMAIN accs = DOMAIN job.shards,
           \E T : accs \in Seq(T),
           \A s \in DOMAIN job.shards : Describes(accs[s], ShardRows(s)) /\ ~accs[s].full
    PROVE  Describes(Agg!FoldLeft(Agg!MergeInto, Head(accs), Tail(accs)), Agg!Rows)
  <1>1. PICK which, I, tail, N : which = <<"shards", tail>> /\ tail = Tail(accs) /\ I = DOMAIN tail /\ N = Len(accs)
    OBVIOUS
  <1>2. /\ N \in Nat \ {0} /\ DOMAIN accs = 1..N /\ Head(accs) = accs[1]
        /\ I = 1..(N - 1) /\ \A i \in I : tail[i] = accs[i + 1]
    BY <1>1, RowsAreFinite
  <1>3. I \in SUBSET Int /\ IsFiniteSet(I)
    <2>1. PICK m \in Int : m = N - 1
      BY <1>2
    <2>2. IsFiniteSet(1..m)
      BY FS_Interval
    <2> QED BY <1>2, <2>1, <2>2
  <1>4. PICK f : GoesUp(f, which, Head(accs), I) /\ AggFold(which, Head(accs), I) = f[I]
    BY <1>3, AggFoldSteps
  <1>5. PICK Good : Good = {t \in SUBSET I :
                       Describes(f[t], {r \in Agg!Rows : r[1] = 1 \/ r[1] - 1 \in t})}
    OBVIOUS
  <1>6. \A R \in SUBSET Agg!Rows : IsFiniteSet(R)
    BY RowsAreFinite, FS_Subset
  <1>7. \A r \in Agg!Rows : r[1] \in 1..N
    BY <1>2, RowsAreFinite
  <1>8. {} \in Good
    <2>1. {r \in Agg!Rows : r[1] = 1 \/ r[1] - 1 \in {}} = ShardRows(1)
      BY DEF ShardRows
    <2>2. f[{}] = accs[1] /\ 1 \in DOMAIN job.shards
      BY <1>2, <1>4 DEF GoesUp
    <2> QED BY <1>5, <2>1, <2>2
  <1>9. ASSUME NEW t \in SUBSET I, t # {}
        PROVE  \E x \in t : t \ {x} \in Good => t \in Good
    <2>1. PICK x \in t : f[t] = AggStep(which, x, f[t \ {x}])
      BY <1>4, <1>9 DEF GoesUp
    <2>2. ASSUME t \ {x} \in Good PROVE t \in Good
      <3>1. PICK P, Q, a, other : /\ P = {r \in Agg!Rows : r[1] = 1 \/ r[1] - 1 \in t \ {x}}
                                  /\ Q = ShardRows(x + 1)
                                  /\ a = f[t \ {x}] /\ other = accs[x + 1]
        OBVIOUS
      <3>2. Describes(a, P)
        BY <1>5, <2>2, <3>1
      <3>3. x \in 1..(N - 1) /\ x + 1 \in DOMAIN job.shards
        BY <1>2
      <3>4. Describes(other, Q) /\ ~other.full
        BY <3>1, <3>3
      <3>5. P \in SUBSET Agg!Rows /\ IsFiniteSet(P) /\ Q \in SUBSET Agg!Rows /\ IsFiniteSet(Q)
        BY <1>6, <3>1 DEF ShardRows
      <3>6. P \cap Q = {}
        BY <1>7, <3>1, <3>3 DEF ShardRows
      <3>7. f[t] = Agg!MergeInto(a, other)
        BY <1>1, <1>2, <2>1, <3>1 DEF AggStep
      <3>8. Describes(f[t], P \cup Q)
        BY <3>2, <3>4, <3>5, <3>6, <3>7, AccumulatorsMerged
      <3>9. P \cup Q = {r \in Agg!Rows : r[1] = 1 \/ r[1] - 1 \in t}
        BY <1>7, <3>1, <3>3 DEF ShardRows
      <3> QED BY <1>5, <3>8, <3>9
    <2> QED BY <2>2
  <1>10. I \in Good
    BY <1>3, <1>8, <1>9, SubsetInduction
  <1>11. {r \in Agg!Rows : r[1] = 1 \/ r[1] - 1 \in I} = Agg!Rows
    BY <1>2, <1>7
  <1>12. Agg!FoldLeft(Agg!MergeInto, Head(accs), Tail(accs)) = f[I]
    BY <1>1, <1>4, ShardsFold
  <1> QED BY <1>5, <1>10, <1>11, <1>12

-----------------------------------------------------------------------------
(* The aggregation: the result *)

\* Keys of one value, a strict order on them.
LEMMA KeysInOrder ==
    ASSUME Null \notin Int, NEW K \in SUBSET {<<x>> : x \in Agg!Value}
    PROVE  /\ \A k \in K : ~Agg!KeyBefore(k, k)
           /\ \A k, l, m \in K : Agg!KeyBefore(k, l) /\ Agg!KeyBefore(l, m) => Agg!KeyBefore(k, m)
           /\ \A k, l \in K : k # l => Agg!KeyBefore(k, l) \/ Agg!KeyBefore(l, k)
  <1>1. \A k \in K : k = <<k[1]>> /\ k[1] \in Int \cup {Null}
    BY DEF Agg!Value
  <1>2. \A k, l \in K : k = l <=> k[1] = l[1]
    BY <1>1
  <1>3. \A k, l \in K : Agg!KeyBefore(k, l) <=>
           k[1] # l[1] /\ (k[1] = Null \/ (l[1] # Null /\ k[1] < l[1]))
    BY <1>2 DEF Agg!KeyBefore
  <1>4. \A x, y, z \in Int \cup {Null} :
           /\ x # y /\ (x = Null \/ (y # Null /\ x < y)) /\ y # z /\ (y = Null \/ (z # Null /\ y < z))
                => x # z /\ (x = Null \/ (z # Null /\ x < z))
           /\ x # y => (x = Null \/ (y # Null /\ x < y)) \/ (y = Null \/ (x # Null /\ y < x))
    OBVIOUS
  <1>5. ASSUME NEW k \in K, NEW l \in K, NEW m \in K, Agg!KeyBefore(k, l), Agg!KeyBefore(l, m)
        PROVE  Agg!KeyBefore(k, m)
    <2>1. PICK x, y, z : x = k[1] /\ y = l[1] /\ z = m[1]
      OBVIOUS
    <2>2. x \in Int \cup {Null} /\ y \in Int \cup {Null} /\ z \in Int \cup {Null}
      BY <1>1, <2>1
    <2>3. x # z /\ (x = Null \/ (z # Null /\ x < z))
      BY <1>3, <1>4, <1>5, <2>1, <2>2
    <2> QED BY <1>3, <2>1, <2>3
  <1>6. ASSUME NEW k \in K, NEW l \in K, k # l
        PROVE  Agg!KeyBefore(k, l) \/ Agg!KeyBefore(l, k)
    <2>1. PICK x, y : x = k[1] /\ y = l[1]
      OBVIOUS
    <2>2. x \in Int \cup {Null} /\ y \in Int \cup {Null} /\ x # y
      BY <1>1, <1>2, <1>6, <2>1
    <2>3. (x = Null \/ (y # Null /\ x < y)) \/ (y = Null \/ (x # Null /\ y < x))
      BY <1>4, <2>2
    <2> QED BY <1>3, <2>1, <2>2, <2>3
  <1> QED BY <1>3, <1>5, <1>6

\* Each place of the sorted keys has one of the keys.
LEMMA PlacesHaveKeys ==
    ASSUME Null \notin Int, NEW K \in SUBSET {<<x>> : x \in Agg!Value}, IsFiniteSet(K),
           NEW i \in 1..Cardinality(K)
    PROVE  \E k \in K : Cardinality({l \in K : Agg!KeyBefore(l, k)}) = i - 1
  <1>1. PICK n \in Nat : n = Cardinality(K)
    BY FS_CardinalityType
  <1>2. PICK g : g \in Bijection(1..n, K)
    BY <1>1, FS_NatBijection, FS_CardinalityType DEF ExistsBijection
  <1>3. /\ g \in [1..n -> K]
        /\ \A a, b \in 1..n : g[a] = g[b] => a = b
        /\ \A k \in K : \E a \in 1..n : g[a] = k
    BY <1>2 DEF Bijection, Injection, IsInjective, Surjection
  <1>4. PICK R : R = {p \in (1..n) \X (1..n) : Agg!KeyBefore(g[p[1]], g[p[2]])}
    OBVIOUS
  <1>5. \A a, b \in 1..n : <<a, b>> \in R <=> Agg!KeyBefore(g[a], g[b])
    BY <1>4
  <1>6. StrictOrder(R, n)
    <2>1. /\ \A k \in K : ~Agg!KeyBefore(k, k)
          /\ \A k, l, m \in K : Agg!KeyBefore(k, l) /\ Agg!KeyBefore(l, m) => Agg!KeyBefore(k, m)
          /\ \A k, l \in K : k # l => Agg!KeyBefore(k, l) \/ Agg!KeyBefore(l, k)
      BY KeysInOrder
    <2> QED BY <1>3, <1>5, <2>1 DEF StrictOrder
  <1>7. PICK m \in 1..n : PlaceOf(R, n, m) = i
    BY <1>1, <1>6, PlacesAreDistinct
  <1>8. PICK k, A, B : /\ k = g[m] /\ A = {l \in 1..n : <<l, m>> \in R}
                       /\ B = {l \in K : Agg!KeyBefore(l, k)}
    OBVIOUS
  <1>9. IsFiniteSet(A) /\ Cardinality(A) \in Nat
    <2>1. IsFiniteSet(1..n)
      BY FS_Interval
    <2>2. A \in SUBSET (1..n)
      BY <1>8
    <2> QED BY <2>1, <2>2, FS_Subset, FS_CardinalityType
  <1>10. Cardinality(A) = i - 1
    <2>1. PICK c \in Nat : c = Cardinality(A)
      BY <1>9
    <2>2. 1 + c = i
      BY <1>7, <1>8, <2>1 DEF PlaceOf
    <2> QED BY <2>1, <2>2
  <1>11. Cardinality(B) = Cardinality(A)
    <2>1. PICK h : h = [l \in A |-> g[l]]
      OBVIOUS
    <2>2. /\ h \in [A -> B]
          /\ \A a, b \in A : h[a] = h[b] => a = b
      BY <1>3, <1>5, <1>8, <2>1
    <2>3. \A l \in B : \E a \in A : h[a] = l
      <3> SUFFICES ASSUME NEW l \in B PROVE \E a \in A : h[a] = l
        OBVIOUS
      <3>1. PICK a \in 1..n : g[a] = l
        BY <1>3, <1>8
      <3>2. a \in A
        BY <1>5, <1>8, <3>1
      <3> QED BY <2>1, <3>1, <3>2
    <2>4. h \in Bijection(A, B)
      BY <2>2, <2>3 DEF Bijection, Injection, IsInjective, Surjection
    <2>5. ExistsBijection(A, B)
      BY <2>4 DEF ExistsBijection
    <2> QED BY <1>9, <2>5, FS_Bijection
  <1>12. k \in K /\ Cardinality({l \in K : Agg!KeyBefore(l, k)}) = i - 1
    BY <1>3, <1>8, <1>10, <1>11
  <1> QED BY <1>12

\* The keys of the result.
ResultKeys == IF job.grouped THEN KeysOf(Agg!Rows) ELSE {<<>>}

LEMMA KeysTyped ==
    ASSUME AggJobOK
    PROVE  /\ job.grouped => ResultKeys \in SUBSET {<<x>> : x \in Agg!Value}
           /\ KeysOf(Agg!Rows) \in SUBSET ResultKeys
           /\ IsFiniteSet(ResultKeys) /\ Cardinality(ResultKeys) \in Nat
  <1>1. ASSUME job.grouped, NEW r \in Agg!Rows
        PROVE  Agg!Key(r) \in {<<x>> : x \in Agg!Value}
    <2>1. PICK s \in DOMAIN job.shards : \E b \in DOMAIN job.shards[s] :
            \E i \in DOMAIN job.shards[s][b].rows : r = <<s, b, i>>
      BY DEF Agg!Rows
    <2>2. PICK b \in DOMAIN job.shards[s] : \E i \in DOMAIN job.shards[s][b].rows : r = <<s, b, i>>
      BY <2>1
    <2>3. PICK i \in DOMAIN job.shards[s][b].rows : r = <<s, b, i>>
      BY <2>2
    <2>4. job.shards[s] \in Seq(Agg!Batch)
      BY DEF AggJobOK
    <2>5. PICK V, batch, dict, rows : /\ V = Agg!Value /\ batch = job.shards[s][b]
                                      /\ dict = batch.dict /\ rows = batch.rows
      OBVIOUS
    <2>6. dict \in {Null} \cup Seq(V) /\ rows \in Seq([g : V, v : V])
      <3>1. job.shards[s][b] \in Agg!Batch
        BY <2>4
      <3> QED BY <2>5, <3>1 DEF Agg!Batch
    <2>7. PICK g : g = rows[i].g
      OBVIOUS
    <2>8. g \in V
      <3>1. PICK T : T = [g : V, v : V]
        OBVIOUS
      <3>2. rows \in Seq(T) /\ i \in DOMAIN rows
        BY <2>5, <2>6, <3>1
      <3>3. rows[i] \in T
        BY <3>2
      <3> QED BY <2>7, <3>1, <3>3
    <2>9. dict # Null => g \in DOMAIN dict \cup {Null}
      BY <2>3, <2>5, <2>7 DEF AggJobOK
    <2>10. (IF dict = Null \/ g = Null THEN g ELSE dict[g]) \in V
      BY <2>6, <2>8, <2>9
    <2>11. Agg!Key(r) = <<IF dict = Null \/ g = Null THEN g ELSE dict[g]>>
      <3>1. r[1] = s /\ r[2] = b /\ r[3] = i
        BY <2>3
      <3> QED BY <1>1, <2>5, <2>7, <3>1 DEF Agg!Key, Agg!RowAt
    <2> QED BY <2>5, <2>10, <2>11
  <1>2. ~job.grouped => \A r \in Agg!Rows : Agg!Key(r) = <<>>
    BY DEF Agg!Key
  <1>3. IsFiniteSet(ResultKeys)
    <2>1. IsFiniteSet({<<>>})
      BY FS_Singleton
    <2>2. IsFiniteSet(KeysOf(Agg!Rows))
      BY RowsAreFinite, KeysFinite
    <2> QED BY <2>1, <2>2 DEF ResultKeys
  <1> QED BY <1>1, <1>2, <1>3, FS_CardinalityType DEF ResultKeys, KeysOf

\* The sorted keys.
LEMMA KeysSorted ==
    ASSUME AggJobOK
    PROVE  /\ DOMAIN Agg!Sorted(ResultKeys) = 1..Cardinality(ResultKeys)
           /\ Len(Agg!Sorted(ResultKeys)) = Cardinality(ResultKeys)
           /\ \A i \in DOMAIN Agg!Sorted(ResultKeys) : Agg!Sorted(ResultKeys)[i] \in ResultKeys
  <1>1. PICK K, n : K = ResultKeys /\ n = Cardinality(K)
    OBVIOUS
  <1>2. n \in Nat /\ IsFiniteSet(K)
    BY <1>1, KeysTyped
  <1>3. \A T : Agg!Cardinality(T) = Cardinality(T)
    BY DEF Agg!Cardinality, Cardinality
  <1>4. PICK place : place = Agg!Sorted(K)
    OBVIOUS
  <1>5. place = [i \in 1..n |->
                    CHOOSE k \in K : Agg!Cardinality({l \in K : Agg!KeyBefore(l, k)}) = i - 1]
    BY <1>1, <1>3, <1>4 DEF Agg!Sorted
  <1>6. ASSUME NEW i \in 1..n PROVE \E k \in K : Cardinality({l \in K : Agg!KeyBefore(l, k)}) = i - 1
    <2>1. CASE job.grouped
      <3>1. K \in SUBSET {<<x>> : x \in Agg!Value}
        BY <1>1, <2>1, KeysTyped
      <3> QED BY <1>1, <1>2, <3>1, NullIsNoNumber, PlacesHaveKeys
    <2>2. CASE ~job.grouped
      <3>1. K = {<<>>} /\ n = 1
        BY <1>1, <2>2, FS_Singleton DEF ResultKeys
      <3>2. {l \in K : Agg!KeyBefore(l, <<>>)} = {}
        BY <3>1 DEF Agg!KeyBefore
      <3>3. Cardinality({}) = 0 /\ i = 1
        BY <3>1, FS_EmptySet
      <3> QED BY <3>1, <3>2, <3>3
    <2> QED BY <2>1, <2>2
  <1>7. \A i \in 1..n : place[i] \in K
    <2>1. \A i \in 1..n : \E k \in K : Agg!Cardinality({l \in K : Agg!KeyBefore(l, k)}) = i - 1
      BY <1>3, <1>6
    <2> QED BY <1>5, <2>1
  <1>8. place \in [1..n -> K]
    BY <1>5, <1>7
  <1>9. place \in Seq(K) /\ Len(place) = n
    BY <1>2, <1>8
  <1> QED BY <1>1, <1>4, <1>5, <1>7, <1>9

\* The accumulator has the groups of the result.
HasResult(acc) ==
    /\ DOMAIN acc.groups = ResultKeys /\ Cardinality(ResultKeys) <= job.maxGroups
    /\ \A key \in ResultKeys :
          acc.groups[key] = [f \in job.functions |-> StateOf(f, OfKey(Agg!Rows, key))]

\* The result, from the states of the groups.
Result ==
    LET keys == Agg!Sorted(ResultKeys)
    IN  IF Cardinality(ResultKeys) > job.maxGroups THEN Agg!MaxGroupsExceeded
        ELSE Agg!Groups([i \in DOMAIN keys |->
                [key    |-> keys[i],
                 values |-> [f \in job.functions |->
                                Agg!Finalize(f, StateOf(f, OfKey(Agg!Rows, keys[i])))]]])

LEMMA ResultIsAggregate == AggJobOK => Result = Agg!Aggregate
  <1> SUFFICES ASSUME AggJobOK PROVE Result = Agg!Aggregate
    OBVIOUS
  <1>1. PICK K, keys, n : K = ResultKeys /\ keys = Agg!Sorted(K) /\ n = Cardinality(K)
    OBVIOUS
  <1>2. n \in Nat /\ Len(keys) = n /\ \A i \in DOMAIN keys : keys[i] \in K
    BY <1>1, KeysSorted, KeysTyped
  <1>3. \A f \in job.functions : \A key :
            Agg!Finalize(f, StateOf(f, OfKey(Agg!Rows, key))) = Agg!Aggregated(f, key)
    <2> SUFFICES ASSUME NEW f \in job.functions, NEW key
                 PROVE  Agg!Finalize(f, StateOf(f, OfKey(Agg!Rows, key))) = Agg!Aggregated(f, key)
      OBVIOUS
    <2>1. PICK R : R = OfKey(Agg!Rows, key)
      OBVIOUS
    <2>2. R = {r \in Agg!Rows : Agg!Key(r) = key} /\ R \in SUBSET Agg!Rows
      BY <2>1 DEF OfKey
    <2>3. IsFiniteSet(R)
      BY <2>2, RowsAreFinite, FS_Subset
    <2> QED BY <2>1, <2>2, <2>3, StateFinalized
  <1>4. PICK groups : groups = [i \in DOMAIN keys |->
            [key |-> keys[i], values |-> [f \in job.functions |-> Agg!Aggregated(f, keys[i])]]]
    OBVIOUS
  <1>5. groups = [i \in DOMAIN keys |->
            [key    |-> keys[i],
             values |-> [f \in job.functions |-> Agg!Finalize(f, StateOf(f, OfKey(Agg!Rows, keys[i])))]]]
    <2>1. \A i \in DOMAIN keys :
             [f \in job.functions |-> Agg!Aggregated(f, keys[i])]
             = [f \in job.functions |-> Agg!Finalize(f, StateOf(f, OfKey(Agg!Rows, keys[i])))]
      BY <1>3
    <2> QED BY <1>4, <2>1
  <1>6. Result = IF n > job.maxGroups THEN Agg!MaxGroupsExceeded ELSE Agg!Groups(groups)
    BY <1>1, <1>5 DEF Result
  <1>7. Agg!Sorted(IF job.grouped THEN {Agg!Key(r) : r \in Agg!Rows} ELSE {<<>>}) = keys
    BY <1>1 DEF ResultKeys, KeysOf
  <1>8. Agg!Aggregate = IF n > job.maxGroups THEN Agg!MaxGroupsExceeded ELSE Agg!Groups(groups)
    BY <1>2, <1>4, <1>7 DEF Agg!Aggregate
  <1> QED BY <1>6, <1>8

\* An accumulator with the groups of the result is finished to it.
LEMMA ResultFinished ==
    ASSUME AggJobOK, NEW acc, HasResult(acc)
    PROVE  Agg!Groups(Agg!FinishGroups(acc)) = Result
  <1>1. PICK K, keys : K = ResultKeys /\ keys = Agg!Sorted(K)
    OBVIOUS
  <1>2. \A i \in DOMAIN keys : keys[i] \in K
    BY <1>1, KeysSorted
  <1>3. Agg!FinishGroups(acc)
        = [i \in DOMAIN keys |->
              [key |-> keys[i], values |-> [f \in job.functions |-> Agg!Finalize(f, acc.groups[keys[i]][f])]]]
    BY <1>1 DEF Agg!FinishGroups, HasResult
  <1>4. \A i \in DOMAIN keys :
           [f \in job.functions |-> Agg!Finalize(f, acc.groups[keys[i]][f])]
           = [f \in job.functions |-> Agg!Finalize(f, StateOf(f, OfKey(Agg!Rows, keys[i])))]
    <2>1. ASSUME NEW i \in DOMAIN keys, NEW f \in job.functions
          PROVE  acc.groups[keys[i]][f] = StateOf(f, OfKey(Agg!Rows, keys[i]))
      <3>1. PICK key \in ResultKeys : key = keys[i]
        BY <1>1, <1>2
      <3>2. acc.groups[key] = [g \in job.functions |-> StateOf(g, OfKey(Agg!Rows, key))]
        BY DEF HasResult
      <3> QED BY <3>1, <3>2
    <2> QED BY <2>1
  <1>5. Agg!FinishGroups(acc)
        = [i \in DOMAIN keys |->
              [key    |-> keys[i],
               values |-> [f \in job.functions |-> Agg!Finalize(f, StateOf(f, OfKey(Agg!Rows, keys[i])))]]]
    BY <1>3, <1>4
  <1>6. ~(Cardinality(ResultKeys) > job.maxGroups)
    <2>1. PICK n \in Nat : n = Cardinality(ResultKeys)
      BY KeysTyped
    <2> QED BY <2>1 DEF HasResult, AggJobOK
  <1> QED BY <1>1, <1>5, <1>6 DEF Result

\* More groups than there may be: the aggregation fails.
LEMMA FullExceeds ==
    ASSUME AggJobOK, NEW R \in SUBSET Agg!Rows, NEW acc, Describes(acc, R), acc.full
    PROVE  Result = Agg!MaxGroupsExceeded
  <1>1. Describes(acc, Agg!Rows)
    BY RowsAreFinite, FullStays
  <1>2. PICK a \in Nat, b \in Nat : a = Cardinality(KeysOf(Agg!Rows)) /\ b = Cardinality(ResultKeys)
    BY RowsAreFinite, KeysFinite, KeysTyped
  <1>3. a <= b
    BY <1>2, KeysTyped, FS_Subset
  <1>4. a > job.maxGroups
    BY <1>1, <1>2 DEF Describes
  <1> QED BY <1>2, <1>3, <1>4 DEF AggJobOK, Result

\* What the coordinator returns.
LEMMA AllAggregated ==
    ASSUME AggJobOK, NEW acc, Describes(acc, Agg!Rows), NEW last, last = Agg!EnsureDefaultGroup(acc)
    PROVE  (IF last.full THEN Agg!MaxGroupsExceeded ELSE Agg!Groups(Agg!FinishGroups(last)))
           = Result
  <1>1. CASE acc.full
    <2>1. last = acc
      BY <1>1 DEF Agg!EnsureDefaultGroup, Agg!LookupOrInsert
    <2> QED BY <1>1, <2>1, FullExceeds
  <1>2. CASE ~acc.full /\ ~(~job.grouped /\ DOMAIN acc.groups = {})
    <2>1. last = acc
      BY <1>2 DEF Agg!EnsureDefaultGroup
    <2>2. KeysOf(Agg!Rows) = ResultKeys
      <3>1. DOMAIN acc.groups = KeysOf(Agg!Rows)
        BY <1>2 DEF Describes
      <3> QED BY <1>2, <3>1, KeysTyped DEF ResultKeys
    <2>3. HasResult(acc)
      BY <1>2, <2>2 DEF Describes, HasResult
    <2> QED BY <1>2, <2>1, <2>3, ResultFinished
  <1>3. CASE ~acc.full /\ ~job.grouped /\ DOMAIN acc.groups = {}
    <2>1. last = Agg!LookupOrInsert(acc, <<>>)
      BY <1>3 DEF Agg!EnsureDefaultGroup
    <2>2. KeysOf(Agg!Rows) = {} /\ ResultKeys = {<<>>}
      BY <1>3 DEF Describes, ResultKeys
    <2>3. GroupIsFound(last, acc, Agg!Rows, <<>>)
      BY <1>3, <2>1, RowsAreFinite, GroupFound
    <2>4. CASE last.full
      <3>1. Cardinality({}) >= job.maxGroups
        BY <2>2, <2>3, <2>4 DEF GroupIsFound
      <3>2. Cardinality({<<>>}) = 1 /\ Cardinality({}) = 0
        BY FS_Singleton, FS_EmptySet
      <3>3. 1 > job.maxGroups
        BY <3>1, <3>2 DEF AggJobOK
      <3>4. Result = Agg!MaxGroupsExceeded
        BY <2>2, <3>2, <3>3 DEF Result
      <3> QED BY <2>4, <3>4
    <2>5. CASE ~last.full
      <3>1. /\ DOMAIN last.groups = {} \cup {<<>>}
            /\ last.groups[<<>>] = [f \in job.functions |-> StateOf(f, OfKey(Agg!Rows, <<>>))]
            /\ Cardinality({} \cup {<<>>}) <= job.maxGroups
        BY <2>2, <2>3, <2>5 DEF GroupIsFound
      <3>2. HasResult(last)
        BY <2>2, <3>1 DEF HasResult
      <3> QED BY <2>5, <3>2, ResultFinished
    <2>6. last.full \in BOOLEAN
      BY <2>3 DEF GroupIsFound
    <2> QED BY <2>4, <2>5, <2>6
  <1> QED BY <1>1, <1>2, <1>3 DEF Describes

-----------------------------------------------------------------------------
(* The aggregation: its steps *)

\* Every shard's accumulator has seen the batches before the shard's next, and is
\* not full; at the end the result is that of all rows.
Accumulated(s, o) ==
    /\ s = [next |-> s.next, accs |-> s.accs, done |-> s.done]
    /\ s.next = [n \in DOMAIN job.shards |-> s.next[n]]
    /\ s.accs = [n \in DOMAIN job.shards |-> s.accs[n]]
    /\ s.done \in BOOLEAN
    /\ ~s.done => \A n \in DOMAIN job.shards :
                    /\ s.next[n] \in 1..(Len(job.shards[n]) + 1)
                    /\ Describes(s.accs[n], Taken(n, s.next[n]))
                    /\ ~s.accs[n].full
    /\ s.done => o = Result

AggGood(s, o) == Agg!FloatSumUntyped \/ (AggJobOK /\ Accumulated(s, o))

\* A worker takes a batch of its shard,
LEMMA UpdateBatchKeeps ==
    ASSUME AggJobOK, Accumulated(state, out), NEW n \in DOMAIN job.shards, Agg!UpdateBatch(n),
           NEW t, NEW o, t = state', o = out'
    PROVE  Accumulated(t, o)
  <1>1. PICK b, acc : b = state.next[n] /\ acc = Agg!UpdateEvaluated(state.accs[n], job.shards[n][b])
    OBVIOUS
  <1>2. /\ ~state.done /\ b <= Len(job.shards[n])
        /\ b \in 1..(Len(job.shards[n]) + 1) /\ Describes(state.accs[n], Taken(n, b))
    BY <1>1 DEF Agg!UpdateBatch, Accumulated
  <1>3. b \in DOMAIN job.shards[n] /\ b \in Nat
    BY <1>2, RowsAreFinite
  <1>4. PICK next, accs : /\ next = [state.next EXCEPT ![n] = b + 1]
                          /\ accs = [state.accs EXCEPT ![n] = acc]
    OBVIOUS
  <1>5. t = [next |-> next, accs |-> accs, done |-> acc.full]
    BY <1>1, <1>4 DEF Agg!UpdateBatch, Accumulated
  <1>6. o = IF acc.full THEN Agg!MaxGroupsExceeded ELSE out
    BY <1>1 DEF Agg!UpdateBatch
  <1>7. Taken(n, b + 1) = Taken(n, b) \cup BatchRows(n, b) /\ Taken(n, b) \cap BatchRows(n, b) = {}
    <2>1. \A r \in Agg!Rows : r[1] = n => r[2] \in Nat
      <3>1. PICK m \in Nat : DOMAIN job.shards[n] = 1..m
        BY RowsAreFinite
      <3>2. \A r \in Agg!Rows : r[1] = n => r[2] \in 1..m
        BY <3>1, RowsAreFinite
      <3> QED BY <3>2
    <2>2. BatchRows(n, b) = {r \in Agg!Rows : r[1] = n /\ r[2] = b}
      BY <1>3, RowsAreFinite
    <2>3. \A x \in Nat : (x < b + 1 <=> x < b \/ x = b) /\ ~(x < b /\ x = b)
      BY <1>3
    <2> QED BY <2>1, <2>2, <2>3 DEF Taken
  <1>8. Describes(acc, Taken(n, b + 1))
    <2>1. PICK R : R = Taken(n, b)
      OBVIOUS
    <2>2. R \in SUBSET Agg!Rows /\ IsFiniteSet(R)
      <3>1. R \in SUBSET Agg!Rows
        BY <2>1 DEF Taken
      <3> QED BY <3>1, RowsAreFinite, FS_Subset
    <2>3. Describes(Agg!UpdateEvaluated(state.accs[n], BatchAt(n, b)), R \cup BatchRows(n, b))
      BY <1>2, <1>3, <1>7, <2>1, <2>2, BatchSeen
    <2> QED BY <1>1, <1>7, <2>1, <2>3 DEF BatchAt
  <1>9. acc.full \in BOOLEAN
    BY <1>8 DEF Describes
  <1>10. acc.full => o = Result
    <2>1. Taken(n, b + 1) \in SUBSET Agg!Rows
      BY DEF Taken
    <2> QED BY <1>6, <1>8, <2>1, FullExceeds
  <1>11. /\ next = [m \in DOMAIN job.shards |-> IF m = n THEN b + 1 ELSE state.next[m]]
         /\ accs = [m \in DOMAIN job.shards |-> IF m = n THEN acc ELSE state.accs[m]]
    BY <1>4 DEF Accumulated
  <1>12. ASSUME ~acc.full, NEW m \in DOMAIN job.shards
         PROVE  /\ next[m] \in 1..(Len(job.shards[m]) + 1)
                /\ Describes(accs[m], Taken(m, next[m]))
                /\ ~accs[m].full
    <2>1. CASE m = n
      <3>1. b + 1 \in 1..(Len(job.shards[n]) + 1)
        <4>1. Len(job.shards[n]) \in Nat
          BY RowsAreFinite
        <4> QED BY <1>2, <1>3, <4>1
      <3> QED BY <1>8, <1>11, <1>12, <2>1, <3>1
    <2>2. CASE m # n
      BY <1>2, <1>11, <2>2 DEF Accumulated
    <2> QED BY <2>1, <2>2
  <1>13. t.next = next /\ t.accs = accs /\ t.done = acc.full
    BY <1>5
  <1>14. /\ t = [next |-> t.next, accs |-> t.accs, done |-> t.done]
         /\ t.next = [m \in DOMAIN job.shards |-> t.next[m]]
         /\ t.accs = [m \in DOMAIN job.shards |-> t.accs[m]]
    BY <1>5, <1>11, <1>13
  <1> QED BY <1>9, <1>10, <1>12, <1>13, <1>14 DEF Accumulated

\* and when all are read the coordinator merges them.
LEMMA MergeKeeps ==
    ASSUME AggJobOK, Accumulated(state, out), Agg!MergeAndFinish, NEW t, NEW o, t = state', o = out'
    PROVE  Accumulated(t, o)
  <1>1. PICK accs, acc, last : /\ accs = state.accs
                               /\ acc = Agg!FoldLeft(Agg!MergeInto, Head(accs), Tail(accs))
                               /\ last = Agg!EnsureDefaultGroup(acc)
    OBVIOUS
  <1>2. /\ ~state.done /\ \A n \in DOMAIN job.shards : state.next[n] > Len(job.shards[n])
        /\ t = [state EXCEPT !.done = TRUE]
    BY DEF Agg!MergeAndFinish
  <1>3. o = IF last.full THEN Agg!MaxGroupsExceeded ELSE Agg!Groups(Agg!FinishGroups(last))
    BY <1>1 DEF Agg!MergeAndFinish
  <1>4. ASSUME NEW n \in DOMAIN job.shards
        PROVE  Describes(accs[n], ShardRows(n)) /\ ~accs[n].full
    <2>1. PICK m \in Nat : m = Len(job.shards[n]) /\ DOMAIN job.shards[n] = 1..m
      BY RowsAreFinite
    <2>2. state.next[n] = m + 1
      <3>1. PICK x : x = state.next[n]
        OBVIOUS
      <3>2. x \in 1..(m + 1) /\ x > m
        BY <1>2, <2>1, <3>1 DEF Accumulated
      <3> QED BY <3>1, <3>2
    <2>3. Taken(n, m + 1) = ShardRows(n)
      <3>1. \A r \in Agg!Rows : r[1] = n => r[2] < m + 1
        <4>1. \A r \in Agg!Rows : r[1] = n => r[2] \in 1..m
          BY <2>1, RowsAreFinite
        <4> QED BY <4>1
      <3> QED BY <3>1 DEF Taken, ShardRows
    <2> QED BY <1>1, <1>2, <2>2, <2>3 DEF Accumulated
  <1>5. DOMAIN accs = DOMAIN job.shards /\ \E T : accs \in Seq(T)
    <2>1. accs = [n \in DOMAIN job.shards |-> accs[n]]
      BY <1>1 DEF Accumulated
    <2>2. PICK k \in Nat : DOMAIN job.shards = 1..k
      BY RowsAreFinite
    <2>3. PICK T : T = {accs[n] : n \in 1..k}
      OBVIOUS
    <2>4. accs \in [1..k -> T]
      BY <2>1, <2>2, <2>3
    <2>5. accs \in Seq(T)
      BY <2>4
    <2> QED BY <2>1, <2>5
  <1>6. Describes(acc, Agg!Rows)
    BY <1>1, <1>4, <1>5, ShardsMerged
  <1>7. o = Result
    BY <1>1, <1>3, <1>6, AllAggregated
  <1>8. /\ t = [next |-> state.next, accs |-> state.accs, done |-> TRUE]
    BY <1>2 DEF Accumulated
  <1>9. t.next = state.next /\ t.accs = state.accs /\ t.done = TRUE
    BY <1>8
  <1>10. /\ t = [next |-> t.next, accs |-> t.accs, done |-> t.done]
         /\ t.next = [m \in DOMAIN job.shards |-> t.next[m]]
         /\ t.accs = [m \in DOMAIN job.shards |-> t.accs[m]]
    BY <1>8, <1>9 DEF Accumulated
  <1> QED BY <1>7, <1>9, <1>10 DEF Accumulated

\* The invariant is about the job, which no step changes.
LEMMA SameAggregation ==
    ASSUME job' = job, NEW t, NEW o
    PROVE  AggGood(t, o)' <=> AggGood(t, o)
  <1>1. /\ Agg!Rows' = Agg!Rows /\ (AggJobOK' <=> AggJobOK)
        /\ Agg!FloatSumUntyped' <=> Agg!FloatSumUntyped
    BY DEF Agg!Rows, AggJobOK, Agg!FloatSumUntyped
  <1>2. \A r : Agg!ValueOf(r)' = Agg!ValueOf(r) /\ Agg!Key(r)' = Agg!Key(r)
    BY DEF Agg!ValueOf, Agg!Key, Agg!RowAt
  <1>3. ValueFun' = ValueFun
    BY <1>1, <1>2 DEF ValueFun
  <1>4. \A R : Filled(R)' = Filled(R)
    BY <1>2 DEF Filled
  <1>5. \A R : ValuesOf(R)' = ValuesOf(R)
    BY <1>2, <1>4 DEF ValuesOf
  <1>6. \A R : SumOf(R)' = SumOf(R)
    BY <1>3, <1>4 DEF SumOf
  <1>7. \A f, R : StateOf(f, R)' = StateOf(f, R)
    BY <1>4, <1>5, <1>6 DEF StateOf
  <1>8. \A R : KeysOf(R)' = KeysOf(R)
    BY <1>2 DEF KeysOf
  <1>9. \A R, k : OfKey(R, k)' = OfKey(R, k)
    BY <1>2 DEF OfKey
  <1>10. \A acc, R : Describes(acc, R)' <=> Describes(acc, R)
    BY <1>7, <1>8, <1>9 DEF Describes
  <1>11. \A n, m : Taken(n, m)' = Taken(n, m)
    BY <1>1 DEF Taken
  <1>12. ResultKeys' = ResultKeys
    BY <1>1, <1>8 DEF ResultKeys
  <1>13. Result' = Result
    BY <1>1, <1>7, <1>9, <1>12 DEF Result
  <1>14. Accumulated(t, o)' <=> Accumulated(t, o)
    BY <1>10, <1>11, <1>13 DEF Accumulated
  <1> QED BY <1>1, <1>14 DEF AggGood

\* Every step of an aggregation keeps the invariant,
LEMMA AggInductive ==
    AggGood(state, out) /\ (Agg!Next \/ UNCHANGED Agg!vars) => AggGood(state, out)'
  <1> SUFFICES ASSUME AggGood(state, out), Agg!Next \/ UNCHANGED Agg!vars
               PROVE  AggGood(state, out)'
    OBVIOUS
  <1>1. PICK t, o : t = state' /\ o = out'
    OBVIOUS
  <1>2. job' = job
    BY DEF Agg!Next, Agg!UpdateBatch, Agg!MergeAndFinish, Agg!vars
  <1>3. AggGood(t, o)
    <2>1. CASE Agg!FloatSumUntyped
      BY <2>1 DEF AggGood
    <2>2. CASE AggJobOK /\ Accumulated(state, out)
      <3>1. CASE UNCHANGED Agg!vars
        BY <1>1, <2>2, <3>1 DEF AggGood, Agg!vars
      <3>2. CASE Agg!Next
        BY <1>1, <2>2, <3>2, UpdateBatchKeeps, MergeKeeps DEF AggGood, Agg!Next
      <3> QED BY <3>1, <3>2
    <2> QED BY <2>1, <2>2 DEF AggGood
  <1>4. AggGood(t, o)'
    BY <1>2, <1>3, SameAggregation
  <1> QED BY <1>1, <1>4

\* it holds when an aggregation starts,
LEMMA AggInitially == Agg!AggInputs /\ Agg!Init => AggGood(state, out)
  <1> SUFFICES ASSUME Agg!AggInputs, Agg!Init, ~Agg!FloatSumUntyped
               PROVE  AggJobOK /\ Accumulated(state, out)
    BY DEF AggGood
  <1>1. AggJobOK
    BY DEF Agg!AggInputs, Agg!Init, AggJobOK, WidthOK
  <1>2. /\ state = [next |-> [n \in DOMAIN job.shards |-> 1],
                    accs |-> [n \in DOMAIN job.shards |-> Agg!NoGroups], done |-> FALSE]
    BY DEF Agg!Init
  <1>3. /\ state.next = [n \in DOMAIN job.shards |-> 1]
        /\ state.accs = [n \in DOMAIN job.shards |-> Agg!NoGroups] /\ state.done = FALSE
        /\ state = [next |-> state.next, accs |-> state.accs, done |-> state.done]
    BY <1>2
  <1>4. ASSUME NEW n \in DOMAIN job.shards
        PROVE  /\ state.next[n] \in 1..(Len(job.shards[n]) + 1)
               /\ Describes(state.accs[n], Taken(n, state.next[n]))
               /\ ~state.accs[n].full
    <2>1. Len(job.shards[n]) \in Nat /\ DOMAIN job.shards[n] = 1..Len(job.shards[n])
      BY <1>1, RowsAreFinite
    <2>2. Taken(n, 1) = {}
      <3>1. PICK m \in Nat : DOMAIN job.shards[n] = 1..m
        BY <2>1
      <3>2. \A r \in Agg!Rows : r[1] = n => r[2] \in 1..m
        BY <1>1, <3>1, RowsAreFinite
      <3>3. \A r \in Agg!Rows : r[1] = n => ~(r[2] < 1)
        BY <3>2
      <3> QED BY <3>3 DEF Taken
    <2>3. KeysOf({}) = {} /\ Cardinality({}) = 0
      BY FS_EmptySet DEF KeysOf
    <2>4. Agg!NoGroups = [groups |-> <<>>, full |-> FALSE] /\ DOMAIN <<>> = {}
      BY DEF Agg!NoGroups
    <2>5. Describes(Agg!NoGroups, {})
      <3>1. PICK acc : acc = Agg!NoGroups
        OBVIOUS
      <3>2. acc.groups = <<>> /\ acc.full = FALSE /\ acc = [groups |-> acc.groups, full |-> acc.full]
        BY <2>4, <3>1
      <3>3. 0 <= job.maxGroups
        BY <1>1 DEF AggJobOK
      <3> QED BY <2>3, <2>4, <3>1, <3>2, <3>3 DEF Describes
    <2>6. state.next[n] = 1 /\ state.accs[n] = Agg!NoGroups
      BY <1>3
    <2>7. 1 \in 1..(Len(job.shards[n]) + 1)
      BY <2>1
    <2>8. ~Agg!NoGroups.full
      BY <2>4
    <2> QED BY <2>2, <2>5, <2>6, <2>7, <2>8
  <1> QED BY <1>1, <1>3, <1>4 DEF Accumulated

\* and says what the property says.
LEMMA GoodIsAggregated == AggGood(state, out) => Agg!AggregateExact
  BY ResultIsAggregate DEF AggGood, Accumulated, Agg!AggregateExact

=============================================================================
