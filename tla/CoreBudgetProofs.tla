-------------------------- MODULE CoreBudgetProofs --------------------------
(***************************************************************************)
(* For any threads, any number of permits and any demands, the budget's    *)
(* queue holds exactly the waiting threads, its head never sleeps through  *)
(* its turn, and permits are granted in the order of the queue.  As long   *)
(* as the threads are finitely many no permit is lost or made up.          *)
(***************************************************************************)
EXTENDS CoreBudget, FiniteFacts

\* BudgetInv is inductive: a grant or a release that leaves the head asleep
\* is excluded only because the queue names waiting threads, each once.
BudgetInv == BudgetTypeOK /\ QueueExact /\ NoLostWakeup

\* What queuing up, as the first step of acquire, does to the queue.
LEMMA Enqueue ==
    ASSUME BudgetTypeOK, QueueExact, NEW t \in Threads, NEW n \in Demands,
           status[t] = "out"
    PROVE  LET q == Append(waiters, [thread |-> t, n |-> n])
           IN  /\ q \in Seq(Waiter) /\ q # <<>>
               /\ {q[i].thread : i \in DOMAIN q} = Waiting \cup {t}
               /\ \A i, j \in DOMAIN q : q[i].thread = q[j].thread => i = j
               /\ waiters = <<>> => Head(q) = [thread |-> t, n |-> n]
               /\ waiters # <<>> => Head(q) = Head(waiters)
  <1> DEFINE w == [thread |-> t, n |-> n]
             q == Append(waiters, w)
  <1>1. w \in Waiter
    BY DEF Waiter
  <1>2. waiters \in Seq(Waiter)
    BY DEF BudgetTypeOK
  <1>3. q \in Seq(Waiter) /\ q # <<>> /\ Len(q) = Len(waiters) + 1
    <2> HIDE DEF w
    <2> QED BY <1>1, <1>2
  <1>4. \A i \in 1..Len(waiters) : q[i] = waiters[i]
    BY <1>1, <1>2
  <1>5. q[Len(waiters) + 1] = w
    BY <1>1, <1>2
  <1>6. DOMAIN q = 1..(Len(waiters) + 1) /\ DOMAIN waiters = 1..Len(waiters) /\ Len(waiters) \in Nat
    BY <1>2, <1>3
  <1>7. t \notin Waiting
    BY DEF Waiting
  <1>8. {q[i].thread : i \in DOMAIN q} = Waiting \cup {t}
    <2>1. ASSUME NEW i \in DOMAIN q PROVE q[i].thread \in Waiting \cup {t}
      <3>1. CASE i \in DOMAIN waiters
        BY <3>1, <1>4, <1>6 DEF QueueExact
      <3>2. CASE i = Len(waiters) + 1
        BY <3>2, <1>5
      <3> QED BY <2>1, <3>1, <3>2, <1>6
    <2>2. ASSUME NEW u \in Waiting PROVE u \in {q[i].thread : i \in DOMAIN q}
      <3>1. PICK i \in DOMAIN waiters : u = waiters[i].thread
        BY <2>2 DEF QueueExact
      <3>2. i \in DOMAIN q /\ q[i].thread = u
        BY <3>1, <1>4, <1>6
      <3> QED BY <3>2
    <2>3. t \in {q[i].thread : i \in DOMAIN q}
      <3>1. Len(waiters) + 1 \in DOMAIN q /\ q[Len(waiters) + 1].thread = t
        BY <1>5, <1>6
      <3> QED BY <3>1
    <2> QED BY <2>1, <2>2, <2>3
  <1>9. ASSUME NEW i \in DOMAIN q, NEW j \in DOMAIN q, q[i].thread = q[j].thread
        PROVE  i = j
    <2>1. CASE i \in DOMAIN waiters /\ j \in DOMAIN waiters
      BY <2>1, <1>4, <1>6, <1>9 DEF QueueExact
    <2>2. ASSUME NEW k \in DOMAIN waiters PROVE q[k].thread # t
      <3>1. waiters[k].thread \in Waiting
        BY <2>2 DEF QueueExact
      <3> QED BY <3>1, <1>4, <1>6, <1>7
    <2> QED BY <2>1, <2>2, <1>5, <1>6, <1>9
  <1>10. waiters = <<>> => Head(q) = w
    BY <1>3, <1>5, <1>6
  <1>11. waiters # <<>> => Head(q) = Head(waiters)
    <2> SUFFICES ASSUME waiters # <<>> PROVE Head(q) = Head(waiters)
      OBVIOUS
    <2>1. 1 \in 1..Len(waiters)
      BY <1>2
    <2> QED BY <2>1, <1>2, <1>3, <1>4
  <1> HIDE DEF q
  <1>12. q # <<>> /\ q \in Seq(Waiter)
    BY <1>3
  <1> QED BY <1>8, <1>9, <1>10, <1>11, <1>12 DEF q

\* The queue without its head.
LEMMA Dequeue ==
    ASSUME NEW q \in Seq(Waiter), q # <<>>, NEW W,
           {q[i].thread : i \in DOMAIN q} = W,
           \A i, j \in DOMAIN q : q[i].thread = q[j].thread => i = j
    PROVE  /\ Tail(q) \in Seq(Waiter)
           /\ {Tail(q)[i].thread : i \in DOMAIN Tail(q)} = W \ {Head(q).thread}
           /\ \A i, j \in DOMAIN Tail(q) : Tail(q)[i].thread = Tail(q)[j].thread => i = j
           /\ Tail(q) # <<>> => Head(Tail(q)).thread \in W \ {Head(q).thread}
           /\ Head(q) \in Waiter
  <1> DEFINE r == Tail(q)
  <1>1. /\ r \in Seq(Waiter) /\ Len(q) \in Nat /\ Len(q) > 0 /\ Len(r) = Len(q) - 1
        /\ DOMAIN q = 1..Len(q) /\ DOMAIN r = 1..Len(r)
    OBVIOUS
  <1>2. \A i \in DOMAIN r : r[i] = q[i + 1] /\ i + 1 \in DOMAIN q
    OBVIOUS
  <1>3. Head(q) = q[1] /\ 1 \in DOMAIN q /\ q[1] \in Waiter
    OBVIOUS
  <1> HIDE DEF r
  <1>4. {r[i].thread : i \in DOMAIN r} = W \ {Head(q).thread}
    <2>1. ASSUME NEW i \in DOMAIN r PROVE r[i].thread \in W \ {Head(q).thread}
      <3>1. r[i].thread = q[i + 1].thread /\ i + 1 \in DOMAIN q /\ i + 1 # 1
        BY <1>1, <1>2
      <3> QED BY <3>1, <1>3
    <2>2. ASSUME NEW u \in W, u # Head(q).thread PROVE u \in {r[i].thread : i \in DOMAIN r}
      <3>1. PICK i \in DOMAIN q : q[i].thread = u
        OBVIOUS
      <3>2. i # 1
        BY <2>2, <3>1, <1>3
      <3>3. i - 1 \in DOMAIN r /\ r[i - 1] = q[i]
        BY <3>2, <1>1, <1>2
      <3> QED BY <3>1, <3>3
    <2> QED BY <2>1, <2>2
  <1>5. ASSUME NEW i \in DOMAIN r, NEW j \in DOMAIN r, r[i].thread = r[j].thread
        PROVE  i = j
    <2>1. q[i + 1].thread = q[j + 1].thread /\ i + 1 \in DOMAIN q /\ j + 1 \in DOMAIN q
      BY <1>2, <1>5
    <2>2. i + 1 = j + 1
      BY <2>1
    <2> QED BY <2>2, <1>1
  <1>6. r # <<>> => Head(r).thread \in W \ {Head(q).thread}
    <2> SUFFICES ASSUME r # <<>> PROVE Head(r).thread \in W \ {Head(q).thread}
      OBVIOUS
    <2>1. 1 \in DOMAIN r /\ Head(r) = r[1]
      BY <1>1
    <2> QED BY <2>1, <1>4
  <1> QED BY <1>1, <1>3, <1>4, <1>5, <1>6 DEF r

\* Whoever takes the head of a queue of the waiting threads, and itself,
\* keeps the invariant: notify_all wakes the next head.
LEMMA GrantKeeps ==
    ASSUME BudgetTypeOK, NEW t \in Threads, NEW q \in Seq(Waiter), q # <<>>,
           {q[i].thread : i \in DOMAIN q} = Waiting \cup {t},
           \A i, j \in DOMAIN q : q[i].thread = q[j].thread => i = j,
           BudgetAssumption, MayGo(t, q), Grant(t, q)
    PROVE  BudgetInv'
  <1> DEFINE h == Head(q)
  <1>1. /\ Tail(q) \in Seq(Waiter)
        /\ {Tail(q)[i].thread : i \in DOMAIN Tail(q)} = Waiting \ {t}
        /\ \A i, j \in DOMAIN Tail(q) : Tail(q)[i].thread = Tail(q)[j].thread => i = j
        /\ Tail(q) # <<>> => Head(Tail(q)).thread \in Waiting \ {t}
        /\ h \in Waiter
    <2>1. Head(q).thread = t
      BY DEF MayGo
    <2>2. (Waiting \cup {t}) \ {t} = Waiting \ {t}
      OBVIOUS
    <2> QED BY <2>1, <2>2, Dequeue
  <1>2. h.n \in Nat /\ available - h.n \in Nat
    <2>1. h.n \in Nat
      BY <1>1 DEF Waiter, BudgetAssumption
    <2>2. available \in Nat /\ available >= h.n
      BY DEF BudgetTypeOK, MayGo
    <2> QED BY <2>1, <2>2
  <1>3. /\ waiters' = Tail(q)
        /\ available' \in Nat
        /\ held' \in [Threads -> Nat]
        /\ status' \in [Threads -> {"out", "parked", "woken", "holding"}]
    BY <1>2 DEF Grant, Notified, BudgetTypeOK
  <1>4. \A u \in Threads :
            status'[u] = IF u = t THEN "holding"
                         ELSE IF status[u] = "parked" THEN "woken" ELSE status[u]
    BY DEF Grant, Notified, BudgetTypeOK
  <1>5. Waiting' = Waiting \ {t}
    BY <1>4 DEF Waiting
  <1>6. QueueExact'
    BY <1>1, <1>3, <1>5 DEF QueueExact
  <1>7. NoLostWakeup'
    <2> SUFFICES ASSUME waiters' # <<>> PROVE status'[Head(waiters').thread] = "woken"
      BY DEF NoLostWakeup
    <2>1. Head(waiters').thread \in Waiting \ {t}
      BY <1>1, <1>3
    <2> QED BY <2>1, <1>4 DEF Waiting
  <1> QED BY <1>1, <1>3, <1>6, <1>7 DEF BudgetInv, BudgetTypeOK

\* Whoever goes to sleep leaves the head awake if it could go.
LEMMA ParkKeeps ==
    ASSUME BudgetTypeOK, NoLostWakeup, NEW t \in Threads, NEW q \in Seq(Waiter), q # <<>>,
           {q[i].thread : i \in DOMAIN q} = Waiting \cup {t},
           \A i, j \in DOMAIN q : q[i].thread = q[j].thread => i = j,
           waiters = <<>> => Head(q).thread = t,
           waiters # <<>> => Head(q) = Head(waiters),
           ~MayGo(t, q), Park(t, q)
    PROVE  BudgetInv'
  <1>1. /\ BudgetTypeOK'
        /\ \A u \in Threads : status'[u] = IF u = t THEN "parked" ELSE status[u]
    BY DEF Park, BudgetTypeOK
  <1>2. Waiting' = Waiting \cup {t}
    BY <1>1 DEF Waiting
  <1>3. QueueExact'
    BY <1>2 DEF QueueExact, Park
  <1>4. NoLostWakeup'
    <2> SUFFICES ASSUME available >= Head(q).n
                 PROVE  status'[Head(q).thread] = "woken"
      BY DEF NoLostWakeup, Park
    <2>1. Head(q).thread # t
      BY DEF MayGo
    <2>2. waiters # <<>> /\ status[Head(q).thread] = "woken"
      BY <2>1 DEF NoLostWakeup
    <2>3. Head(q).thread \in Threads
      <3>1. Head(q) \in Waiter
        OBVIOUS
      <3> QED BY <3>1 DEF Waiter
    <2> QED BY <2>1, <2>2, <2>3, <1>1
  <1> QED BY <1>1, <1>3, <1>4 DEF BudgetInv

\* Every turn of acquire_inner, drop of a guard and wakeup keeps the invariant.
THEOREM BudgetInductive == BudgetInv /\ [Next]_budgetVars => BudgetInv'
  <1> SUFFICES ASSUME BudgetInv, [Next]_budgetVars PROVE BudgetInv'
    OBVIOUS
  <1> USE BudgetAssumption
  <1>1. ASSUME NEW t \in Threads, NEW n \in Demands, Acquire(t, n) PROVE BudgetInv'
    <2> DEFINE q == Append(waiters, [thread |-> t, n |-> n])
    <2>1. /\ q \in Seq(Waiter) /\ q # <<>>
          /\ {q[i].thread : i \in DOMAIN q} = Waiting \cup {t}
          /\ \A i, j \in DOMAIN q : q[i].thread = q[j].thread => i = j
          /\ waiters = <<>> => Head(q) = [thread |-> t, n |-> n]
          /\ waiters # <<>> => Head(q) = Head(waiters)
      BY <1>1, Enqueue DEF BudgetInv, Acquire
    <2>2. GrantOrPark(t, q)
      BY <1>1 DEF Acquire
    <2> HIDE DEF q
    <2>3. waiters = <<>> => Head(q).thread = t
      BY <2>1
    <2>4. CASE MayGo(t, q) /\ Grant(t, q)
      BY <2>1, <2>4, GrantKeeps DEF BudgetInv
    <2>5. CASE ~MayGo(t, q) /\ Park(t, q)
      BY <2>1, <2>3, <2>5, ParkKeeps DEF BudgetInv
    <2> QED BY <2>2, <2>4, <2>5 DEF GrantOrPark
  <1>2. ASSUME NEW t \in Threads, Recheck(t) PROVE BudgetInv'
    <2>1. /\ waiters \in Seq(Waiter)
          /\ {waiters[i].thread : i \in DOMAIN waiters} = Waiting \cup {t}
          /\ \A i, j \in DOMAIN waiters : waiters[i].thread = waiters[j].thread => i = j
      BY <1>2 DEF BudgetInv, BudgetTypeOK, QueueExact, Recheck, Waiting
    <2>2. waiters # <<>>
      BY <2>1
    <2>3. CASE MayGo(t, waiters) /\ Grant(t, waiters)
      BY <2>1, <2>2, <2>3, GrantKeeps DEF BudgetInv
    <2>4. CASE ~MayGo(t, waiters) /\ Park(t, waiters)
      BY <2>1, <2>2, <2>4, ParkKeeps DEF BudgetInv
    <2> QED BY <1>2, <2>3, <2>4 DEF Recheck, GrantOrPark
  <1>3. ASSUME NEW t \in Threads, Release(t) PROVE BudgetInv'
    <2>1. /\ BudgetTypeOK'
          /\ waiters' = waiters
          /\ \A u \in Threads :
                status'[u] = IF u = t THEN "out"
                             ELSE IF status[u] = "parked" THEN "woken" ELSE status[u]
      BY <1>3 DEF Release, Notified, BudgetInv, BudgetTypeOK
    <2>2. Waiting' = Waiting
      BY <1>3, <2>1 DEF Waiting, Release
    <2>3. QueueExact'
      BY <2>1, <2>2 DEF BudgetInv, QueueExact
    <2>4. NoLostWakeup'
      <3> SUFFICES ASSUME waiters # <<>> PROVE status'[Head(waiters).thread] = "woken"
        BY <2>1 DEF NoLostWakeup
      <3>1. 1 \in DOMAIN waiters /\ Head(waiters) = waiters[1]
        BY DEF BudgetInv, BudgetTypeOK
      <3>2. Head(waiters).thread \in Waiting
        BY <3>1 DEF BudgetInv, QueueExact
      <3> QED BY <3>2, <2>1, <1>3 DEF Waiting, Release
    <2> QED BY <2>1, <2>3, <2>4 DEF BudgetInv
  <1>4. ASSUME NEW t \in Threads, SpuriousWakeup(t) PROVE BudgetInv'
    <2>1. /\ BudgetTypeOK'
          /\ waiters' = waiters /\ available' = available
          /\ \A u \in Threads : status'[u] = IF u = t THEN "woken" ELSE status[u]
      BY <1>4 DEF SpuriousWakeup, BudgetInv, BudgetTypeOK
    <2>2. Waiting' = Waiting
      BY <1>4, <2>1 DEF Waiting, SpuriousWakeup
    <2>3. QueueExact'
      BY <2>1, <2>2 DEF BudgetInv, QueueExact
    <2>4. NoLostWakeup'
      <3> SUFFICES ASSUME waiters # <<>>, available >= Head(waiters).n
                   PROVE  status'[Head(waiters).thread] = "woken"
        BY <2>1 DEF NoLostWakeup
      <3>1. Head(waiters).thread \in Threads
        <4>1. Head(waiters) \in Waiter
          BY DEF BudgetInv, BudgetTypeOK
        <4> QED BY <4>1 DEF Waiter
      <3> QED BY <3>1, <2>1 DEF BudgetInv, NoLostWakeup
    <2> QED BY <2>1, <2>3, <2>4 DEF BudgetInv
  <1>5. CASE UNCHANGED budgetVars
    BY <1>5 DEF budgetVars, BudgetInv, BudgetTypeOK, QueueExact, NoLostWakeup, Waiting
  <1> QED BY <1>1, <1>2, <1>3, <1>4, <1>5 DEF Next

\* A new budget has all its permits and an empty queue.
THEOREM BudgetInitially == Init => BudgetInv
  <1> SUFFICES ASSUME Init PROVE BudgetInv
    OBVIOUS
  <1>1. BudgetTypeOK
    BY BudgetAssumption DEF Init, BudgetTypeOK
  <1>2. DOMAIN waiters = {} /\ Waiting = {}
    BY DEF Init, Waiting
  <1> QED BY <1>1, <1>2 DEF Init, BudgetInv, QueueExact, NoLostWakeup

\* The invariant holds of every reachable state, for any threads and demands.
THEOREM BudgetInvariant == Spec => []BudgetInv
  <1> QED BY BudgetInitially, BudgetInductive, PTL DEF Spec

\* The permits, the queue and the guards keep their types: no release or grant
\* takes the permits below zero.
THEOREM BudgetTypeCorrect == Spec => []BudgetTypeOK
  <1>1. BudgetInv => BudgetTypeOK
    BY DEF BudgetInv
  <1> QED BY <1>1, BudgetInvariant, PTL

\* The queue of the budget holds exactly the threads inside acquire_inner,
\* each once.
THEOREM QueueIsExact == Spec => []QueueExact
  <1>1. BudgetInv => QueueExact
    BY DEF BudgetInv
  <1> QED BY <1>1, BudgetInvariant, PTL

\* The head of the queue is awake whenever its demand can be met.
THEOREM WakeupsNeverLost == Spec => []NoLostWakeup
  <1>1. BudgetInv => NoLostWakeup
    BY DEF BudgetInv
  <1> QED BY <1>1, BudgetInvariant, PTL

\* Permits go to the head of the queue, or to a caller that found it empty.
THEOREM GrantsAreInOrder == Spec => GrantedInOrder
  <1> DEFINE InOrder == \A t \in Threads :
                 status[t] # "holding" /\ status'[t] = "holding" =>
                     waiters = <<>> \/ Head(waiters).thread = t
  <1>1. BudgetInv /\ [Next]_budgetVars => [InOrder]_budgetVars
    <2> SUFFICES ASSUME BudgetInv, Next, NEW u \in Threads,
                        status[u] # "holding", status'[u] = "holding"
                 PROVE  waiters = <<>> \/ Head(waiters).thread = u
      OBVIOUS
    <2>1. ASSUME NEW t \in Threads, NEW q, ~MayGo(t, q), Park(t, q) PROVE FALSE
      BY <2>1 DEF Park, BudgetInv, BudgetTypeOK
    <2>2. ASSUME NEW t \in Threads, NEW q, MayGo(t, q), Grant(t, q) PROVE u = t /\ Head(q).thread = u
      BY <2>2 DEF Grant, MayGo, Notified, BudgetInv, BudgetTypeOK
    <2>3. ASSUME NEW t \in Threads, NEW n \in Demands, Acquire(t, n)
          PROVE  waiters = <<>> \/ Head(waiters).thread = u
      <3> DEFINE q == Append(waiters, [thread |-> t, n |-> n])
      <3>1. waiters # <<>> => Head(q) = Head(waiters)
        BY <2>3, BudgetAssumption, Enqueue DEF BudgetInv, Acquire
      <3>2. GrantOrPark(t, q)
        BY <2>3 DEF Acquire
      <3> HIDE DEF q
      <3>3. Head(q).thread = u
        BY <3>2, <2>1, <2>2 DEF GrantOrPark
      <3> QED BY <3>1, <3>3
    <2>4. ASSUME NEW t \in Threads, Recheck(t) PROVE Head(waiters).thread = u
      BY <2>4, <2>1, <2>2 DEF Recheck, GrantOrPark
    <2>5. ASSUME NEW t \in Threads, Release(t) \/ SpuriousWakeup(t) PROVE FALSE
      BY <2>5 DEF Release, SpuriousWakeup, Notified, BudgetInv, BudgetTypeOK
    <2> QED BY <2>3, <2>4, <2>5 DEF Next
  <1> QED BY <1>1, BudgetInvariant, PTL DEF Spec, GrantedInOrder

-----------------------------------------------------------------------------
(* Where the permits are *)

\* Exactly a thread that holds its guard has permits to give back, as many as
\* it asked for.
GuardsOnly ==
    \A t \in Threads : IF status[t] = "holding" THEN held[t] \in Demands ELSE held[t] = 0

\* PermitsConserved is not inductive by itself: a grant to a thread that still
\* had permits would overwrite them.
ConservedInv == GuardsOnly /\ PermitsConserved

\* The permits of the guards are counted by the units that held hands out.
LEMMA GuardsAreUnits ==
    ASSUME IsFiniteSet(Threads), BudgetTypeOK
    PROVE  PermitsConserved <=> available + Cardinality(Units(held, Threads)) = Permits
  <1>1. PermitsConserved <=> available + SumFun(held, Threads)[Threads] = Permits
    BY DEF PermitsConserved, MapThenSumSet, MapThenFoldSet, SumFun
  <1>2. SumFun(held, Threads)[Threads] = Cardinality(Units(held, Threads))
    BY SumIsCount DEF BudgetTypeOK
  <1> QED BY <1>1, <1>2

\* The same, after a step.
LEMMA GuardsAreUnitsNext ==
    ASSUME IsFiniteSet(Threads), BudgetTypeOK'
    PROVE  PermitsConserved' <=> available' + Cardinality(Units(held', Threads)) = Permits
  <1>1. PermitsConserved' <=> available' + SumFun(held', Threads)[Threads] = Permits
    BY DEF PermitsConserved, MapThenSumSet, MapThenFoldSet, SumFun
  <1>2. SumFun(held', Threads)[Threads] = Cardinality(Units(held', Threads))
    <2> DEFINE h == held'
    <2>1. \A t \in Threads : h[t] \in Nat
      BY DEF BudgetTypeOK
    <2> HIDE DEF h
    <2>2. SumFun(h, Threads)[Threads] = Cardinality(Units(h, Threads))
      BY <2>1, SumIsCount
    <2> QED BY <2>2 DEF h
  <1> QED BY <1>1, <1>2

\* Permits that move between the budget and one guard are conserved.
LEMMA OneGuardMoves ==
    ASSUME IsFiniteSet(Threads), BudgetTypeOK, BudgetTypeOK', PermitsConserved,
           NEW t \in Threads, \A u \in Threads \ {t} : held'[u] = held[u],
           available' + held'[t] = available + held[t]
    PROVE  PermitsConserved'
  <1>1. PICK k : k = held'
    OBVIOUS
  <1>2. \A x \in Threads : k[x] \in Nat /\ held[x] \in Nat
    BY <1>1 DEF BudgetTypeOK
  <1>3. \A x \in Threads \ {t} : k[x] = held[x]
    BY <1>1
  <1>4. Cardinality(Units(k, Threads)) - k[t] = Cardinality(Units(held, Threads)) - held[t]
    BY <1>2, <1>3, OneShareChanges
  <1>5. available + Cardinality(Units(held, Threads)) = Permits
    BY GuardsAreUnits
  <1>6. Cardinality(Units(k, Threads)) \in Nat /\ Cardinality(Units(held, Threads)) \in Nat
    BY <1>2, UnitsFinite
  <1>7. available' + k[t] = available + held[t]
    BY <1>1
  <1>8. available \in Nat /\ available' \in Nat /\ k[t] \in Nat /\ held[t] \in Nat
    BY <1>2 DEF BudgetTypeOK
  <1>9. available' + Cardinality(Units(k, Threads)) = Permits
    BY <1>4, <1>5, <1>6, <1>7, <1>8
  <1> QED BY <1>1, <1>9, GuardsAreUnitsNext

\* Who goes ahead takes from the budget what its guard will give back.
LEMMA GrantConserves ==
    ASSUME IsFiniteSet(Threads), BudgetTypeOK, BudgetTypeOK', ConservedInv,
           NEW t \in Threads, status[t] # "holding", NEW q, Head(q).n \in Demands, Grant(t, q)
    PROVE  ConservedInv'
  <1>1. /\ \A u \in Threads \ {t} : held'[u] = held[u]
        /\ held'[t] = Head(q).n /\ available' = available - Head(q).n
        /\ held[t] = 0
    BY DEF Grant, BudgetTypeOK, ConservedInv, GuardsOnly
  <1>2. PermitsConserved'
    <2>1. available' + held'[t] = available + held[t]
      BY <1>1, BudgetAssumption DEF BudgetTypeOK, BudgetAssumption
    <2> QED BY <1>1, <2>1, OneGuardMoves DEF ConservedInv
  <1>3. GuardsOnly'
    <2>1. \A u \in Threads : status'[u] = "holding" <=> u = t \/ status[u] = "holding"
      BY DEF Grant, Notified, BudgetTypeOK
    <2> QED BY <1>1, <2>1 DEF ConservedInv, GuardsOnly
  <1> QED BY <1>2, <1>3 DEF ConservedInv

\* Who goes to sleep had no permits and gets none.
LEMMA ParkConserves ==
    ASSUME BudgetTypeOK, ConservedInv, NEW t \in Threads, status[t] # "holding", NEW q, Park(t, q)
    PROVE  ConservedInv'
  <1>1. PermitsConserved'
    BY DEF Park, ConservedInv, PermitsConserved, MapThenSumSet, MapThenFoldSet
  <1>2. GuardsOnly'
    BY DEF Park, ConservedInv, GuardsOnly, BudgetTypeOK
  <1> QED BY <1>1, <1>2 DEF ConservedInv

\* Every turn of acquire_inner, drop of a guard and wakeup conserves permits.
THEOREM ConservedInductive ==
    IsFiniteSet(Threads) => (BudgetInv /\ ConservedInv /\ [Next]_budgetVars => ConservedInv')
  <1> SUFFICES ASSUME IsFiniteSet(Threads), BudgetInv, ConservedInv, [Next]_budgetVars
               PROVE  ConservedInv'
    OBVIOUS
  <1> USE BudgetAssumption
  <1>0. BudgetTypeOK /\ BudgetTypeOK'
    BY BudgetInductive DEF BudgetInv
  <1>1. ASSUME NEW t \in Threads, NEW n \in Demands, Acquire(t, n) PROVE ConservedInv'
    <2> DEFINE q == Append(waiters, [thread |-> t, n |-> n])
    <2>1. q \in Seq(Waiter) /\ q # <<>> /\ GrantOrPark(t, q) /\ status[t] = "out"
      BY <1>1, Enqueue DEF BudgetInv, Acquire
    <2> HIDE DEF q
    <2>2. Head(q).n \in Demands
      <3>1. Head(q) \in Waiter
        BY <2>1
      <3> QED BY <3>1 DEF Waiter
    <2> QED BY <1>0, <2>1, <2>2, GrantConserves, ParkConserves DEF GrantOrPark
  <1>2. ASSUME NEW t \in Threads, Recheck(t) PROVE ConservedInv'
    <2>1. waiters \in Seq(Waiter) /\ GrantOrPark(t, waiters) /\ status[t] = "woken"
      BY <1>2 DEF BudgetInv, BudgetTypeOK, Recheck
    <2>2. waiters # <<>>
      BY <2>1 DEF BudgetInv, QueueExact, Waiting
    <2>3. Head(waiters).n \in Demands
      <3>1. Head(waiters) \in Waiter
        BY <2>1, <2>2
      <3> QED BY <3>1 DEF Waiter
    <2> QED BY <1>0, <2>1, <2>3, GrantConserves, ParkConserves DEF GrantOrPark
  <1>3. ASSUME NEW t \in Threads, Release(t) PROVE ConservedInv'
    <2>1. /\ \A u \in Threads \ {t} : held'[u] = held[u]
          /\ held'[t] = 0 /\ available' = available + held[t]
      BY <1>0, <1>3 DEF Release, BudgetTypeOK
    <2>2. available' + held'[t] = available + held[t]
      BY <1>0, <2>1 DEF BudgetTypeOK
    <2>3. PermitsConserved'
      BY <1>0, <2>1, <2>2, OneGuardMoves DEF ConservedInv
    <2>4. \A u \in Threads : status'[u] = "holding" <=> u # t /\ status[u] = "holding"
      BY <1>0, <1>3 DEF Release, Notified, BudgetTypeOK
    <2>5. GuardsOnly'
      BY <2>1, <2>4 DEF ConservedInv, GuardsOnly
    <2> QED BY <2>3, <2>5 DEF ConservedInv
  <1>4. ASSUME NEW t \in Threads, SpuriousWakeup(t) PROVE ConservedInv'
    <2>1. PermitsConserved'
      BY <1>4 DEF SpuriousWakeup, ConservedInv, PermitsConserved, MapThenSumSet, MapThenFoldSet
    <2>2. GuardsOnly'
      BY <1>0, <1>4 DEF SpuriousWakeup, ConservedInv, GuardsOnly, BudgetTypeOK
    <2> QED BY <2>1, <2>2 DEF ConservedInv
  <1>5. CASE UNCHANGED budgetVars
    BY <1>5 DEF budgetVars, ConservedInv, GuardsOnly, PermitsConserved, MapThenSumSet, MapThenFoldSet
  <1> QED BY <1>1, <1>2, <1>3, <1>4, <1>5 DEF Next

\* A new budget has all the permits.
THEOREM ConservedInitially == IsFiniteSet(Threads) /\ Init => ConservedInv
  <1> SUFFICES ASSUME IsFiniteSet(Threads), Init PROVE ConservedInv
    OBVIOUS
  <1>1. BudgetTypeOK
    BY BudgetInitially DEF BudgetInv
  <1>2. Units(held, Threads) = {}
    BY DEF Init, Units, UnitsOf
  <1>3. available + Cardinality(Units(held, Threads)) = Permits
    BY <1>2, FS_EmptySet, BudgetAssumption DEF Init, BudgetAssumption
  <1>4. PermitsConserved
    BY <1>1, <1>3, GuardsAreUnits
  <1> QED BY <1>4 DEF ConservedInv, GuardsOnly, Init

\* For finitely many threads, any number of permits and any demands, the permits
\* of the budget and of the guards together are those it was created with.
THEOREM PermitsAreConserved == IsFiniteSet(Threads) => (Spec => []PermitsConserved)
  <1> SUFFICES ASSUME IsFiniteSet(Threads) PROVE Spec => []PermitsConserved
    OBVIOUS
  <1>1. Init => ConservedInv
    BY ConservedInitially
  <1>2. BudgetInv /\ ConservedInv /\ [Next]_budgetVars => ConservedInv'
    BY ConservedInductive
  <1>3. ConservedInv => PermitsConserved
    BY DEF ConservedInv
  <1> QED BY <1>1, <1>2, <1>3, BudgetInvariant, PTL DEF Spec
=============================================================================
