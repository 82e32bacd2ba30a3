--------------------------- MODULE EnginePoolProofs ---------------------------
(***************************************************************************)
(* For any queries, shards, tokens, workers and permits: the accounting of *)
(* morsels balances, no query returns a partial result, and a query that   *)
(* reports a cancellation was cancelled by someone else.  For finitely     *)
(* many queries, their workers never exceed the permits of the budget.     *)
(*                                                                         *)
(* What a query does touches only its own entries of the state, and sets   *)
(* tokens; so the invariant is one formula for each query, and a step is   *)
(* looked at for the query that takes it.                                  *)
(***************************************************************************)
EXTENDS EnginePool, FiniteFacts

BudgetFacts == INSTANCE CoreBudgetProofs WITH Threads <- Queries, Demands <- {QueryThreads}

\* Worker i has the morsel of s.
Holds(q, i, s) == worker[q][i].at \in {"work", "report"} /\ worker[q][i].shard = s

\* A query that is not running has no workers and no morsels, and one that has
\* not begun or has returned has nothing at all.
Quiet(q) ==
    /\ phase[q] # "running" => AllOff(q) /\ queue[q] = {}
    /\ phase[q] \in {"idle", "acquiring", "returned"} =>
        populated[q] = {} /\ slots[q] = {} /\ firstError[q] = NoError

\* A morsel is in the queue or with one worker, whose guard is the only one.
Owned(q) ==
    /\ \A i, j \in Workers, s \in Shards : Holds(q, i, s) /\ Holds(q, j, s) => i = j
    /\ \A s \in Shards : outstanding[q][s] = IF \E i \in Workers : Holds(q, i, s) THEN 1 ELSE 0
    /\ \A i \in Workers, s \in Shards : Holds(q, i, s) => s \in populated[q] \ queue[q]
    /\ queue[q] \cup slots[q] \subseteq populated[q]
    /\ \A i \in Workers : Holds(q, i, Whole) => queue[q] = {}

\* As long as there are morsels in the queue a worker is there to take them.
Staffed(q) == queue[q] # {} => \E i \in Workers : worker[q][i].at # "off"

\* A shard is not forgotten, unless the query cannot succeed any more.
Located(q) ==
    phase[q] = "running" =>
        \A s \in populated[q] :
            \/ s \in queue[q] \cup slots[q]
            \/ \E i \in Workers : Holds(q, i, s)
            \/ Cancelled(q)
            \/ firstError[q] # NoError

\* What the coordinator knows when it has joined the workers.
Joined(q) ==
    /\ phase[q] = "check" => /\ firstError[q] = NoError
                             /\ slots[q] = populated[q] \/ Cancelled(q)
    /\ phase[q] \in {"collect", "leaving"} /\ result[q] = "Ok" => slots[q] = populated[q]

\* Someone to blame for a cancellation: another thread, or the query's timer.
Blamed(q) == q \in foreign \/ reason[q] = "timeout"

\* A token that is set has a cause: an outside one, or the query's own error,
\* which is then published before.
Caused(q) ==
    /\ Live(q) /\ Cancelled(q) => Blamed(q) \/ firstError[q] = "Error"
    /\ firstError[q] = "Cancelled" => Blamed(q)
    /\ phase[q] = "collect" /\ result[q] = "Cancelled" => Blamed(q)
    /\ phase[q] = "leaving" /\ result[q] = "Cancelled" => q \in foreign
    /\ \A i \in Workers : worker[q][i].at = "report" =>
        /\ worker[q][i].error # NoError
        /\ worker[q][i].error = "Cancelled" => Cancelled(q)

QueryInv(q) == Quiet(q) /\ Owned(q) /\ Staffed(q) /\ Located(q) /\ Joined(q) /\ Caused(q)

PoolInv == PoolTypeOK /\ \A q \in Queries : QueryInv(q)

-----------------------------------------------------------------------------
(* What the other queries notice of a step *)

\* Nothing of the query p changes but what others may do to it.
Untouched(p) ==
    /\ populated'[p] = populated[p]
    /\ token'[p] = token[p]
    /\ reason'[p] = reason[p]
    /\ phase'[p] = phase[p]
    /\ queue'[p] = queue[p]
    /\ slots'[p] = slots[p]
    /\ outstanding'[p] = outstanding[p]
    /\ firstError'[p] = firstError[p]
    /\ worker'[p] = worker[p]
    /\ result'[p] = result[p]
    /\ cancelled \subseteq cancelled'
    /\ p \in foreign => p \in foreign'
    /\ Live(p) /\ token[p] \in cancelled' \ cancelled => p \in foreign'

\* A step of other threads keeps the invariant of a query.
LEMMA Elsewhere ==
    ASSUME NEW p \in Queries, QueryInv(p), Untouched(p) PROVE QueryInv(p)'
  <1> USE DEF Untouched, QueryInv
  <1>1. Cancelled(p) => Cancelled(p)'
    BY DEF Cancelled
  <1>2. \A i : \A s : Holds(p, i, s)' <=> Holds(p, i, s)
    BY DEF Holds
  <1>3. Quiet(p)'
    BY DEF Quiet, AllOff
  <1>4. Owned(p)'
    BY <1>2 DEF Owned
  <1>5. Staffed(p)' /\ Located(p)' /\ Joined(p)'
    BY <1>1, <1>2 DEF Staffed, Located, Joined
  <1>6. Caused(p)'
    <2>1. Blamed(p) => Blamed(p)'
      BY DEF Blamed
    <2>2. Live(p)' /\ Cancelled(p)' => Blamed(p)' \/ firstError'[p] = "Error"
      <3>1. CASE Cancelled(p)
        BY <2>1, <3>1 DEF Caused, Live
      <3>2. CASE ~Cancelled(p)
        BY <3>2 DEF Cancelled, Live, Blamed
      <3> QED BY <3>1, <3>2
    <2> QED BY <1>1, <2>1, <2>2 DEF Caused
  <1> QED BY <1>3, <1>4, <1>5, <1>6

\* A step of one query keeps the invariant if it keeps that query's.
LEMMA OneQuery ==
    ASSUME PoolInv, NEW q \in Queries, PoolTypeOK', QueryInv(q)',
           \A p \in Queries \ {q} : Untouched(p)
    PROVE  PoolInv'
  <1>1. \A p \in Queries \ {q} : QueryInv(p)'
    BY Elsewhere DEF PoolInv
  <1> QED BY <1>1 DEF PoolInv

\* Setting a token blames its setter's peers.
LEMMA TokenSet ==
    ASSUME PoolInv, NEW k \in Tokens, NEW who, SetToken(k, who)
    PROVE  /\ cancelled' \subseteq Tokens /\ foreign' \subseteq Queries
           /\ cancelled \subseteq cancelled' /\ foreign \subseteq foreign'
           /\ \A p \in Queries \ {who} :
                Live(p) /\ token[p] \in cancelled' \ cancelled => p \in foreign'
  BY DEF PoolInv, PoolTypeOK, SetToken

-----------------------------------------------------------------------------
(* Cancellation *)

\* CallerCancels keeps the invariant of every query.
LEMMA CallerCancelsKeeps ==
    ASSUME PoolAssumption, PoolInv, NEW k \in Tokens, CallerCancels(k) PROVE PoolInv'
  <1> USE DEF CallerCancels, planVars, runVars, budgetVars
  <1>1. PoolTypeOK'
    BY TokenSet DEF PoolInv, PoolTypeOK
  <1>2. \A p \in Queries : Untouched(p)
    <2>1. Caller \notin Queries
      BY DEF PoolAssumption, Caller
    <2> QED BY <2>1, TokenSet DEF Untouched
  <1> QED BY <1>1, <1>2, Elsewhere DEF PoolInv

\* TimerFires keeps the invariant of every query.
LEMMA TimerFiresKeeps ==
    ASSUME PoolInv, NEW q \in Queries, TimerFires(q) PROVE PoolInv'
  <1> USE DEF TimerFires, planVars, runVars, budgetVars
  <1>1. PoolTypeOK'
    BY DEF PoolInv, PoolTypeOK
  <1>2. \A p \in Queries \ {q} : Untouched(p)
    BY DEF Untouched, PoolInv, PoolTypeOK
  <1>3. QueryInv(q)'
    <2>1. Quiet(q)' /\ Owned(q)' /\ Staffed(q)' /\ Located(q)' /\ Joined(q)'
      BY DEF PoolInv, QueryInv, Quiet, AllOff, Owned, Holds, Staffed, Located, Joined, Cancelled
    <2>2. Caused(q)'
      BY DEF PoolInv, PoolTypeOK, QueryInv, Caused, Blamed, Cancelled, Live
    <2> QED BY <2>1, <2>2 DEF QueryInv
  <1> QED BY <1>1, <1>2, <1>3, OneQuery

\* TimerSetsToken keeps the invariant of every query.
LEMMA TimerSetsTokenKeeps ==
    ASSUME PoolInv, NEW q \in Queries, TimerSetsToken(q) PROVE PoolInv'
  <1> USE DEF TimerSetsToken, planVars, runVars, budgetVars
  <1>0. token[q] \in Tokens
    BY DEF PoolInv, PoolTypeOK
  <1>1. PoolTypeOK'
    BY <1>0, TokenSet DEF PoolInv, PoolTypeOK
  <1>2. \A p \in Queries \ {q} : Untouched(p)
    BY <1>0, TokenSet DEF Untouched
  <1>3. QueryInv(q)'
    <2>1. Quiet(q)' /\ Owned(q)' /\ Staffed(q)'
      BY DEF PoolInv, QueryInv, Quiet, AllOff, Owned, Holds, Staffed
    <2>2. Located(q)' /\ Joined(q)'
      BY <1>0, TokenSet DEF PoolInv, QueryInv, Holds, Located, Joined, Cancelled
    <2>3. Caused(q)'
      BY <1>0, TokenSet DEF PoolInv, PoolTypeOK, QueryInv, Caused, Blamed, Cancelled, Live
    <2> QED BY <2>1, <2>2, <2>3 DEF QueryInv
  <1> QED BY <1>1, <1>2, <1>3, OneQuery

-----------------------------------------------------------------------------
(* The coordinator *)

\* Submit keeps the invariant of every query.
LEMMA SubmitKeeps ==
    ASSUME PoolInv, NEW q \in Queries, Submit(q) PROVE PoolInv'
  <1> USE DEF Submit, planVars, runVars
  <1>1. PoolTypeOK'
    BY DEF PoolInv, PoolTypeOK
  <1>2. \A p \in Queries \ {q} : Untouched(p)
    BY DEF Untouched, PoolInv, PoolTypeOK
  <1>3. QueryInv(q)'
    <2>1. Quiet(q)' /\ Owned(q)' /\ Staffed(q)' /\ Located(q)' /\ Joined(q)'
      BY DEF PoolInv, PoolTypeOK, QueryInv, Quiet, AllOff, Owned, Holds, Staffed, Located, Joined, Cancelled
    <2>2. Caused(q)'
      BY DEF PoolInv, PoolTypeOK, QueryInv, Caused, Blamed, Cancelled, Live
    <2> QED BY <2>1, <2>2 DEF QueryInv
  <1> QED BY <1>1, <1>2, <1>3, OneQuery

\* Taking turns in the budget changes nothing else.
LEMMA BudgetTurnKeeps ==
    ASSUME PoolInv, NEW q \in Queries, Reacquire(q) \/ SpuriousWakeup(q) PROVE PoolInv'
  <1> USE DEF Reacquire, SpuriousWakeup, planVars, cancelVars, runVars
  <1>1. PoolTypeOK'
    BY DEF PoolInv, PoolTypeOK
  <1>2. \A p \in Queries : Untouched(p)
    BY DEF Untouched
  <1> QED BY <1>1, <1>2, Elsewhere DEF PoolInv

\* There is a worker for every query that has a shard to scan.
LEMMA SomeWorker ==
    ASSUME PoolAssumption, NEW ss \in SUBSET Shards, ss # {}
    PROVE  1 \in Workers /\ 1 <= NumWorkers(ss)
  <1>1. IsFiniteSet(ss)
    BY FS_Subset DEF PoolAssumption
  <1>2. Cardinality(ss) \in Nat /\ Cardinality(ss) # 0
    BY <1>1, FS_CardinalityType, FS_EmptySet
  <1> QED BY <1>2 DEF PoolAssumption, Workers, NumWorkers

\* Dispatch keeps the invariant of every query.
LEMMA DispatchKeeps ==
    ASSUME PoolAssumption, PoolInv, NEW q \in Queries, Dispatch(q) PROVE PoolInv'
  <1>1. PICK ss \in SUBSET Shards \ {{}} : Enqueue(q, ss)
    BY DEF Dispatch
  <1>2. /\ phase[q] = "acquiring"
        /\ phase' = [phase EXCEPT ![q] = "running"]
        /\ UNCHANGED <<token, cancelled, reason, firing, foreign, slots, outstanding,
                       firstError, result, faults>>
    BY DEF Dispatch, Granted, cancelVars
  <1>3. /\ populated' = [populated EXCEPT ![q] = ss]
        /\ queue' = [queue EXCEPT ![q] = ss]
        /\ worker' = [worker EXCEPT ![q] = [i \in Workers |->
                        IF i <= NumWorkers(ss) THEN [Idle EXCEPT !.at = "top"] ELSE Idle]]
    BY <1>1 DEF Enqueue
  <1>4. [Idle EXCEPT !.at = "top"] \in WorkerStates /\ Idle \in WorkerStates
    BY DEF Idle, WorkerStates
  <1>5. PoolTypeOK'
    BY <1>2, <1>3, <1>4 DEF PoolInv, PoolTypeOK
  <1>6. \A p \in Queries \ {q} : Untouched(p)
    BY <1>2, <1>3 DEF Untouched, PoolInv, PoolTypeOK
  <1>7. /\ populated'[q] = ss /\ queue'[q] = ss /\ phase'[q] = "running"
        /\ \A i \in Workers : worker'[q][i].at = IF i <= NumWorkers(ss) THEN "top" ELSE "off"
    BY <1>2, <1>3 DEF PoolInv, PoolTypeOK, Idle
  <1>8. \A i \in Workers : \A s : ~Holds(q, i, s)'
    BY <1>7 DEF Holds
  <1>9. Quiet(q)' /\ Located(q)' /\ Joined(q)'
    BY <1>7 DEF Quiet, Located, Joined
  <1>10. Owned(q)'
    <2>1. slots[q] = {} /\ \A i \in Workers, s \in Shards : ~Holds(q, i, s)
      BY <1>2 DEF PoolInv, QueryInv, Quiet, AllOff, Holds
    <2>2. \A s \in Shards : outstanding[q][s] = 0
      BY <2>1 DEF PoolInv, QueryInv, Owned
    <2> QED BY <1>2, <1>7, <1>8, <2>1, <2>2 DEF Owned
  <1>11. Staffed(q)'
    BY <1>1, <1>7, SomeWorker DEF Staffed
  <1>12. Caused(q)'
    BY <1>2, <1>7 DEF PoolInv, QueryInv, Caused, Blamed, Cancelled, Live
  <1> QED BY <1>5, <1>6, <1>9, <1>10, <1>11, <1>12, OneQuery DEF QueryInv

\* DispatchSingle keeps the invariant of every query.
LEMMA DispatchSingleKeeps ==
    ASSUME PoolAssumption, PoolInv, NEW q \in Queries, DispatchSingle(q) PROVE PoolInv'
  <1>1. /\ phase[q] = "acquiring"
        /\ phase' = [phase EXCEPT ![q] = "running"]
        /\ worker' = [worker EXCEPT ![q][1] = [Idle EXCEPT !.at = "work"]]
        /\ UNCHANGED <<populated, token, cancelled, reason, firing, foreign, queue, slots,
                       outstanding, firstError, result, faults>>
    BY DEF DispatchSingle, Granted, cancelVars, planVars
  <1>2. 1 \in Workers /\ [Idle EXCEPT !.at = "work"] \in WorkerStates
    BY DEF PoolAssumption, Workers, Idle, WorkerStates
  <1>3. PoolTypeOK'
    BY <1>1, <1>2 DEF PoolInv, PoolTypeOK
  <1>4. \A p \in Queries \ {q} : Untouched(p)
    BY <1>1 DEF Untouched, PoolInv, PoolTypeOK
  <1>5. /\ phase'[q] = "running"
        /\ worker'[q][1].at = "work" /\ worker'[q][1].shard = Whole
        /\ \A i \in Workers \ {1} : worker'[q][i] = worker[q][i]
    BY <1>1, <1>2 DEF PoolInv, PoolTypeOK, Idle
  <1>6. /\ populated[q] = {} /\ slots[q] = {} /\ queue[q] = {}
        /\ \A i \in Workers : worker[q][i].at = "off"
    BY <1>1 DEF PoolInv, QueryInv, Quiet, AllOff
  <1>7. \A i \in Workers, s \in Shards : ~Holds(q, i, s) /\ ~Holds(q, i, s)'
    BY <1>5, <1>6 DEF Holds, Whole, PoolAssumption
  <1>8. Quiet(q)' /\ Staffed(q)' /\ Located(q)' /\ Joined(q)'
    BY <1>1, <1>5, <1>6 DEF Quiet, Staffed, Located, Joined
  <1>9. Owned(q)'
    BY <1>1, <1>6, <1>7 DEF PoolInv, QueryInv, Owned
  <1>10. Caused(q)'
    BY <1>1, <1>5, <1>6 DEF PoolInv, QueryInv, Caused, Blamed, Cancelled, Live
  <1> QED BY <1>3, <1>4, <1>8, <1>9, <1>10, OneQuery DEF QueryInv

\* The workers are gone: the queue is empty and every shard is accounted for.
LEMMA JoinKeeps ==
    ASSUME PoolInv, NEW q \in Queries, Join(q) PROVE PoolInv'
  <1> USE DEF planVars, cancelVars, runVars
  <1>1. /\ phase[q] = "running" /\ \A i \in Workers : worker[q][i].at = "off"
        /\ phase' = [phase EXCEPT ![q] = IF firstError[q] = NoError /\ populated[q] # {}
                                         THEN "check" ELSE "collect"]
        /\ result' = [result EXCEPT ![q] = IF firstError[q] = NoError THEN "Ok" ELSE firstError[q]]
        /\ UNCHANGED <<populated, token, cancelled, reason, firing, foreign, queue, slots,
                       outstanding, firstError, worker, faults>>
    BY DEF Join, AllOff
  <1>2. firstError[q] \in {NoError, "Error", "Cancelled"}
    BY DEF PoolInv, PoolTypeOK
  <1>3. PoolTypeOK'
    BY <1>1, <1>2 DEF PoolInv, PoolTypeOK
  <1>4. \A p \in Queries \ {q} : Untouched(p)
    BY <1>1 DEF Untouched, PoolInv, PoolTypeOK
  <1>5. /\ queue[q] = {}
        /\ slots[q] \subseteq populated[q]
        /\ firstError[q] = NoError => slots[q] = populated[q] \/ Cancelled(q)
        /\ populated[q] = {} => slots[q] = populated[q]
    BY <1>1 DEF PoolInv, QueryInv, Staffed, Owned, Located, Holds
  <1>6. /\ phase'[q] = IF firstError[q] = NoError /\ populated[q] # {} THEN "check" ELSE "collect"
        /\ result'[q] = IF firstError[q] = NoError THEN "Ok" ELSE firstError[q]
    BY <1>1 DEF PoolInv, PoolTypeOK
  <1>7. Quiet(q)' /\ Staffed(q)' /\ Located(q)'
    BY <1>1, <1>5, <1>6 DEF Quiet, AllOff, Staffed, Located
  <1>8. Owned(q)'
    BY <1>1 DEF PoolInv, QueryInv, Owned, Holds
  <1>9. Joined(q)'
    <2>1. firstError[q] # NoError => result'[q] # "Ok" /\ phase'[q] = "collect"
      BY <1>2, <1>6 DEF NoError
    <2>2. CASE firstError[q] # NoError
      BY <2>1, <2>2 DEF Joined
    <2>3. CASE firstError[q] = NoError /\ populated[q] # {}
      BY <1>1, <1>5, <1>6, <2>3 DEF Joined, Cancelled
    <2>4. CASE firstError[q] = NoError /\ populated[q] = {}
      BY <1>1, <1>5, <1>6, <2>4 DEF Joined
    <2> QED BY <2>2, <2>3, <2>4
  <1>10. Caused(q)'
    BY <1>1, <1>6 DEF PoolInv, QueryInv, Caused, Blamed, Cancelled, Live, NoError
  <1> QED BY <1>3, <1>4, <1>7, <1>8, <1>9, <1>10, OneQuery DEF QueryInv

\* CheckAndMerge keeps the invariant of every query.
LEMMA CheckAndMergeKeeps ==
    ASSUME PoolInv, NEW q \in Queries, CheckAndMerge(q) PROVE PoolInv'
  <1> USE DEF planVars, cancelVars, runVars
  <1>1. /\ phase[q] = "check"
        /\ phase' = [phase EXCEPT ![q] = "collect"]
        /\ result' = [result EXCEPT ![q] = IF Cancelled(q) THEN "Cancelled" ELSE "Ok"]
        /\ UNCHANGED <<populated, token, cancelled, reason, firing, foreign, queue, slots,
                       outstanding, firstError, worker, faults>>
    BY DEF CheckAndMerge
  <1>2. PoolTypeOK'
    BY <1>1 DEF PoolInv, PoolTypeOK
  <1>3. \A p \in Queries \ {q} : Untouched(p)
    BY <1>1 DEF Untouched, PoolInv, PoolTypeOK
  <1>4. phase'[q] = "collect" /\ result'[q] = IF Cancelled(q) THEN "Cancelled" ELSE "Ok"
    BY <1>1 DEF PoolInv, PoolTypeOK
  <1>5. Quiet(q)' /\ Owned(q)' /\ Staffed(q)' /\ Located(q)'
    BY <1>1, <1>4 DEF PoolInv, QueryInv, Quiet, AllOff, Owned, Holds, Staffed, Located
  <1>6. Joined(q)'
    BY <1>1, <1>4 DEF PoolInv, QueryInv, Joined
  <1>7. Caused(q)'
    BY <1>1, <1>4 DEF PoolInv, QueryInv, Joined, Caused, Blamed, Cancelled, Live, NoError
  <1> QED BY <1>2, <1>3, <1>5, <1>6, <1>7, OneQuery DEF QueryInv

\* Collect keeps the invariant of every query.
LEMMA CollectKeeps ==
    ASSUME PoolInv, NEW q \in Queries, Collect(q) PROVE PoolInv'
  <1> USE DEF planVars, cancelVars, runVars
  <1>1. /\ phase[q] = "collect"
        /\ phase' = [phase EXCEPT ![q] = "leaving"]
        /\ result' = [result EXCEPT ![q] = IF result[q] = "Cancelled" /\ reason[q] = "timeout"
                                           THEN "Timeout" ELSE result[q]]
        /\ UNCHANGED <<populated, token, cancelled, reason, firing, foreign, queue, slots,
                       outstanding, firstError, worker, faults>>
    BY DEF Collect
  <1>2. PoolTypeOK'
    BY <1>1 DEF PoolInv, PoolTypeOK
  <1>3. \A p \in Queries \ {q} : Untouched(p)
    BY <1>1 DEF Untouched, PoolInv, PoolTypeOK
  <1>4. /\ phase'[q] = "leaving"
        /\ result'[q] = IF result[q] = "Cancelled" /\ reason[q] = "timeout" THEN "Timeout" ELSE result[q]
    BY <1>1 DEF PoolInv, PoolTypeOK
  <1>5. Quiet(q)' /\ Owned(q)' /\ Staffed(q)' /\ Located(q)'
    BY <1>1, <1>4 DEF PoolInv, QueryInv, Quiet, AllOff, Owned, Holds, Staffed, Located
  <1>6. Joined(q)'
    BY <1>1, <1>4 DEF PoolInv, QueryInv, Joined
  <1>7. Caused(q)'
    BY <1>1, <1>4 DEF PoolInv, QueryInv, Caused, Blamed, Cancelled, Live
  <1> QED BY <1>2, <1>3, <1>5, <1>6, <1>7, OneQuery DEF QueryInv

\* Return keeps the invariant of every query.
LEMMA ReturnKeeps ==
    ASSUME PoolInv, NEW q \in Queries, Return(q) PROVE PoolInv'
  <1> USE DEF Return, budgetVars
  <1>1. PoolTypeOK'
    BY DEF PoolInv, PoolTypeOK, NoError
  <1>2. \A p \in Queries \ {q} : Untouched(p)
    BY DEF Untouched, PoolInv, PoolTypeOK
  <1>3. /\ phase'[q] = "returned" /\ slots'[q] = {} /\ populated'[q] = {}
        /\ firstError'[q] = NoError
    BY DEF PoolInv, PoolTypeOK
  <1>4. queue[q] = {} /\ \A i \in Workers : worker[q][i].at = "off"
    BY DEF PoolInv, QueryInv, Quiet, AllOff
  <1>5. Quiet(q)' /\ Staffed(q)' /\ Located(q)' /\ Joined(q)'
    BY <1>3, <1>4 DEF Quiet, AllOff, Staffed, Located, Joined
  <1>6. Owned(q)'
    BY <1>3, <1>4 DEF PoolInv, QueryInv, Owned, Holds
  <1>7. Caused(q)'
    BY <1>3, <1>4 DEF Caused, Live, NoError
  <1> QED BY <1>1, <1>2, <1>5, <1>6, <1>7, OneQuery DEF QueryInv

-----------------------------------------------------------------------------
(* Workers *)

\* What a worker leaves alone on every step.
LEMMA WorkerFrame ==
    ASSUME PoolInv, NEW q \in Queries, NEW i \in Workers, WorkerStep(q, i)
    PROVE  /\ phase[q] = "running"
           /\ UNCHANGED <<populated, token, reason, firing, phase, result>>
           /\ \A p \in Queries \ {q} : Untouched(p)
  <1> USE DEF planVars, cancelVars, At
  <1>0. token[q] \in Tokens
    BY DEF PoolInv, PoolTypeOK
  <1> USE DEF PoolInv, PoolTypeOK, Untouched
  <1>1. CASE PullOrExit(q, i)
    BY <1>1 DEF PullOrExit, Pull, Goto
  <1>2. CASE Drain(q, i)
    BY <1>2 DEF Drain, Goto
  <1>3. CASE SeeCancelled(q, i) \/ Fail(q, i)
    BY <1>3 DEF SeeCancelled, Fail, Goto
  <1>4. CASE Complete(q, i)
    BY <1>4 DEF Complete, GuardDropped, Goto
  <1>5. CASE Report(q, i)
    <2>1. \/ SetToken(token[q], q)
          \/ UNCHANGED <<cancelled, foreign>>
      BY <1>5 DEF Report
    <2>2. /\ cancelled \subseteq cancelled' /\ foreign \subseteq foreign'
          /\ \A p \in Queries \ {q} :
                Live(p) /\ token[p] \in cancelled' \ cancelled => p \in foreign'
      BY <1>0, <2>1, TokenSet
    <2> QED BY <1>5, <2>2 DEF Report, GuardDropped, Goto
  <1> QED BY <1>1, <1>2, <1>3, <1>4, <1>5 DEF WorkerStep

\* One worker moves.
LEMMA Moved ==
    ASSUME PoolInv, NEW q \in Queries, NEW i \in Workers, NEW w \in WorkerStates, Goto(q, i, w)
    PROVE  /\ worker' \in [Queries -> [Workers -> WorkerStates]]
           /\ worker'[q][i] = w
           /\ \A j \in Workers \ {i} : worker'[q][j] = worker[q][j]
           /\ \A j \in Workers \ {i} : \A s : Holds(q, j, s)' <=> Holds(q, j, s)
           /\ \A s : Holds(q, i, s)' <=> w.at \in {"work", "report"} /\ w.shard = s
  <1>1. /\ worker' \in [Queries -> [Workers -> WorkerStates]]
        /\ worker'[q][i] = w
        /\ \A j \in Workers \ {i} : worker'[q][j] = worker[q][j]
    BY DEF PoolInv, PoolTypeOK, Goto
  <1> QED BY <1>1 DEF Holds

\* So does taking a morsel.
LEMMA PullKeeps ==
    ASSUME PoolAssumption, PoolInv, NEW q \in Queries, NEW i \in Workers, NEW s \in Shards,
           s \in queue[q], At(q, i, "top"), Pull(q, i, s),
           UNCHANGED <<budgetVars, planVars, cancelVars, slots, firstError, faults, phase, result>>,
           WorkerStep(q, i)
    PROVE  PoolInv'
  <1> DEFINE w == [at |-> "work", shard |-> s, error |-> NoError]
  <1>1. w \in WorkerStates
    BY DEF WorkerStates
  <1>2. /\ queue' = [queue EXCEPT ![q] = @ \ {s}]
        /\ outstanding' = [outstanding EXCEPT ![q][s] = @ + 1]
        /\ Goto(q, i, w)
        /\ worker[q][i].at = "top" /\ phase[q] = "running"
        /\ UNCHANGED <<populated, token, cancelled, reason, firing, foreign, slots,
                       firstError, faults, phase, result>>
    BY DEF Pull, At, planVars, cancelVars
  <1> HIDE DEF w
  <1>3. /\ worker' \in [Queries -> [Workers -> WorkerStates]]
        /\ worker'[q][i] = w
        /\ \A j \in Workers \ {i} : worker'[q][j] = worker[q][j]
        /\ \A j \in Workers \ {i} : \A t : Holds(q, j, t)' <=> Holds(q, j, t)
        /\ \A t : Holds(q, i, t)' <=> s = t
    BY <1>1, <1>2, Moved DEF w
  <1>4. PoolTypeOK'
    <2>1. /\ outstanding \in [Queries -> [Shards -> Nat]]
          /\ queue \in [Queries -> SUBSET Shards]
      BY DEF PoolInv, PoolTypeOK
    <2>2. outstanding' \in [Queries -> [Shards -> Nat]]
      BY <1>2, <2>1
    <2>3. queue' \in [Queries -> SUBSET Shards]
      BY <1>2, <2>1
    <2> QED BY <1>2, <1>3, <2>2, <2>3 DEF PoolInv, PoolTypeOK
  <1>5. /\ queue'[q] = queue[q] \ {s}
        /\ \A t \in Shards \ {s} : outstanding'[q][t] = outstanding[q][t]
        /\ outstanding'[q][s] = outstanding[q][s] + 1
    BY <1>2 DEF PoolInv, PoolTypeOK
  <1>6. (\A j \in Workers : ~Holds(q, j, s)) /\ (\A t : ~Holds(q, i, t))
    BY <1>2 DEF PoolInv, QueryInv, Owned, Holds
  <1>7. outstanding[q][s] = 0 /\ s \in populated[q]
    BY <1>6 DEF PoolInv, QueryInv, Owned
  <1>8. s # Whole
    BY DEF PoolAssumption, Whole
  <1>9. Owned(q)'
    <2>1. \A j, k \in Workers, t \in Shards : Holds(q, j, t)' /\ Holds(q, k, t)' => j = k
      BY <1>3, <1>6 DEF PoolInv, QueryInv, Owned
    <2>2. \A t \in Shards : outstanding'[q][t] = IF \E j \in Workers : Holds(q, j, t)' THEN 1 ELSE 0
      <3>1. outstanding'[q][s] = 1 /\ Holds(q, i, s)'
        BY <1>3, <1>5, <1>7
      <3>2. \A t \in Shards \ {s} : (\E j \in Workers : Holds(q, j, t)') <=> (\E j \in Workers : Holds(q, j, t))
        BY <1>3, <1>6
      <3>3. \A t \in Shards : outstanding[q][t] = IF \E j \in Workers : Holds(q, j, t) THEN 1 ELSE 0
        BY DEF PoolInv, QueryInv, Owned
      <3> QED BY <1>5, <3>1, <3>2, <3>3
    <2>3. \A j \in Workers, t \in Shards : Holds(q, j, t)' => t \in populated'[q] \ queue'[q]
      BY <1>2, <1>3, <1>5, <1>7 DEF PoolInv, QueryInv, Owned
    <2>4. queue'[q] \cup slots'[q] \subseteq populated'[q]
      BY <1>2, <1>5 DEF PoolInv, QueryInv, Owned
    <2>5. \A j \in Workers : Holds(q, j, Whole)' => queue'[q] = {}
      BY <1>3, <1>5, <1>8 DEF PoolInv, QueryInv, Owned
    <2> QED BY <2>1, <2>2, <2>3, <2>4, <2>5 DEF Owned
  <1>10. Located(q)'
    <2>1. \A t : (\E j \in Workers : Holds(q, j, t)) \/ t = s => \E j \in Workers : Holds(q, j, t)'
      BY <1>3, <1>6
    <2> QED BY <1>2, <1>5, <2>1 DEF PoolInv, QueryInv, Located, Cancelled
  <1>11. Quiet(q)' /\ Staffed(q)' /\ Joined(q)'
    BY <1>2, <1>3 DEF Quiet, Staffed, Joined, w
  <1>12. Caused(q)'
    BY <1>2, <1>3 DEF PoolInv, QueryInv, Caused, Blamed, Cancelled, Live, w
  <1>13. \A p \in Queries \ {q} : Untouched(p)
    BY WorkerFrame
  <1> QED BY <1>4, <1>9, <1>10, <1>11, <1>12, <1>13, OneQuery DEF QueryInv

\* A worker leaves, with the queue empty or emptied by a cancellation.
LEMMA LeaveKeeps ==
    ASSUME PoolInv, NEW q \in Queries, NEW i \in Workers, WorkerStep(q, i),
           At(q, i, "top"), Goto(q, i, Idle), queue[q] = {} \/ Cancelled(q),
           queue' = [queue EXCEPT ![q] = {}],
           UNCHANGED <<planVars, cancelVars, slots, outstanding, firstError, faults, phase, result>>
    PROVE  PoolInv'
  <1> USE DEF planVars, cancelVars, At
  <1>1. Idle \in WorkerStates
    BY DEF Idle, WorkerStates
  <1>2. /\ worker' \in [Queries -> [Workers -> WorkerStates]]
        /\ worker'[q][i].at = "off"
        /\ \A j \in Workers \ {i} : worker'[q][j] = worker[q][j]
        /\ \A j \in Workers : \A t : Holds(q, j, t)' <=> Holds(q, j, t)
    <2>1. /\ \A t : ~Holds(q, i, t)
          /\ Idle.at = "off"
      BY DEF Holds, Idle
    <2>2. /\ worker' \in [Queries -> [Workers -> WorkerStates]]
          /\ worker'[q][i] = Idle
          /\ \A j \in Workers \ {i} : worker'[q][j] = worker[q][j]
          /\ \A j \in Workers \ {i} : \A t : Holds(q, j, t)' <=> Holds(q, j, t)
          /\ \A t : Holds(q, i, t)' <=> Idle.at \in {"work", "report"} /\ Idle.shard = t
      BY <1>1, Moved
    <2> QED BY <2>1, <2>2
  <1>3. PoolTypeOK'
    BY <1>2 DEF PoolInv, PoolTypeOK
  <1>4. queue'[q] = {}
    BY DEF PoolInv, PoolTypeOK
  <1>5. Owned(q)'
    BY <1>2, <1>4 DEF PoolInv, QueryInv, Owned
  <1>6. Located(q)'
    BY <1>2, <1>4 DEF PoolInv, QueryInv, Located, Cancelled
  <1>7. Quiet(q)' /\ Staffed(q)' /\ Joined(q)'
    BY <1>4 DEF Quiet, Staffed, Joined
  <1>8. Caused(q)'
    BY <1>2 DEF PoolInv, QueryInv, Caused, Blamed, Cancelled, Live
  <1>9. \A p \in Queries \ {q} : Untouched(p)
    BY WorkerFrame
  <1> QED BY <1>3, <1>5, <1>6, <1>7, <1>8, <1>9, OneQuery DEF QueryInv

\* A worker stops at its morsel with an error.
LEMMA StopKeeps ==
    ASSUME PoolInv, NEW q \in Queries, NEW i \in Workers, NEW e \in {"Error", "Cancelled"},
           WorkerStep(q, i), At(q, i, "work"), e = "Cancelled" => Cancelled(q),
           Goto(q, i, [worker[q][i] EXCEPT !.at = "report", !.error = e]),
           faults' \in [Queries -> Nat],
           UNCHANGED <<planVars, cancelVars, queue, slots, outstanding, firstError, phase, result>>
    PROVE  PoolInv'
  <1> USE DEF planVars, cancelVars, At
  <1> DEFINE w == [worker[q][i] EXCEPT !.at = "report", !.error = e]
  <1>1. /\ w \in WorkerStates /\ w.at = "report" /\ w.error = e
        /\ w.shard = worker[q][i].shard
    <2>1. worker[q][i] \in WorkerStates
      BY DEF PoolInv, PoolTypeOK
    <2> QED BY <2>1 DEF WorkerStates, NoError
  <1> HIDE DEF w
  <1>2. /\ worker' \in [Queries -> [Workers -> WorkerStates]]
        /\ worker'[q][i] = w
        /\ \A j \in Workers \ {i} : worker'[q][j] = worker[q][j]
        /\ \A j \in Workers : \A t : Holds(q, j, t)' <=> Holds(q, j, t)
    <2>1. \A t : Holds(q, i, t) <=> w.at \in {"work", "report"} /\ w.shard = t
      BY <1>1 DEF Holds
    <2>2. Goto(q, i, w)
      BY DEF w
    <2> QED BY <1>1, <2>1, <2>2, Moved
  <1>3. PoolTypeOK'
    BY <1>2 DEF PoolInv, PoolTypeOK
  <1>4. Quiet(q)' /\ Joined(q)'
    BY DEF Quiet, Joined
  <1>5. Owned(q)'
    BY <1>2 DEF PoolInv, QueryInv, Owned
  <1>6. Staffed(q)' /\ Located(q)'
    BY <1>1, <1>2 DEF PoolInv, QueryInv, Staffed, Located, Cancelled
  <1>7. Caused(q)'
    BY <1>1, <1>2 DEF PoolInv, QueryInv, Caused, Blamed, Cancelled, Live, NoError
  <1>8. \A p \in Queries \ {q} : Untouched(p)
    BY WorkerFrame
  <1> QED BY <1>3, <1>4, <1>5, <1>6, <1>7, <1>8, OneQuery DEF QueryInv

\* A worker is done with its morsel and drops the guard.
LEMMA DropGuard ==
    ASSUME PoolAssumption, PoolInv, NEW q \in Queries, NEW i \in Workers, NEW s,
           s = worker[q][i].shard, worker[q][i].at \in {"work", "report"},
           outstanding' = GuardDropped(q, s), Goto(q, i, NextTurn(s)),
           UNCHANGED <<populated, queue>>, slots'[q] \subseteq slots[q] \cup ({s} \ {Whole})
    PROVE  /\ worker' \in [Queries -> [Workers -> WorkerStates]]
           /\ outstanding' \in [Queries -> [Shards -> Nat]]
           /\ \A t : t # s /\ (\E j \in Workers : Holds(q, j, t))
                => \E j \in Workers : Holds(q, j, t)'
           /\ \A j \in Workers : worker'[q][j] = worker[q][j] \/ worker'[q][j].at \in {"top", "off"}
           /\ Owned(q)' /\ Staffed(q)'
  <1>1. Holds(q, i, s) /\ s \in Shards \cup {Whole}
    BY DEF Holds, PoolInv, PoolTypeOK, WorkerStates
  <1>2. /\ NextTurn(s) \in WorkerStates
        /\ NextTurn(s).at = IF s = Whole THEN "off" ELSE "top"
    BY DEF NextTurn, Idle, WorkerStates
  <1>3. /\ worker' \in [Queries -> [Workers -> WorkerStates]]
        /\ worker'[q][i] = NextTurn(s)
        /\ \A j \in Workers \ {i} : worker'[q][j] = worker[q][j]
        /\ \A j \in Workers \ {i} : \A t : Holds(q, j, t)' <=> Holds(q, j, t)
        /\ \A t : Holds(q, i, t)' <=> NextTurn(s).at \in {"work", "report"} /\ NextTurn(s).shard = t
    BY <1>2, Moved
  <1>4. /\ \A t : ~Holds(q, i, t)'
        /\ \A t : Holds(q, i, t) => t = s
    BY <1>2, <1>3 DEF Holds
  <1>5. s \in Shards => /\ outstanding[q][s] = 1
                        /\ s \in populated[q] \ queue[q]
                        /\ \A j \in Workers : Holds(q, j, s) => j = i
    BY <1>1 DEF PoolInv, QueryInv, Owned
  <1>6. outstanding \in [Queries -> [Shards -> Nat]]
    BY DEF PoolInv, PoolTypeOK
  <1>7. /\ outstanding' \in [Queries -> [Shards -> Nat]]
        /\ \A t \in Shards : outstanding'[q][t] = IF t = s THEN 0 ELSE outstanding[q][t]
    <2>1. CASE s = Whole
      <3>1. s \notin Shards
        BY <2>1 DEF PoolAssumption, Whole
      <3> QED BY <1>6, <2>1, <3>1 DEF GuardDropped
    <2>2. CASE s # Whole
      <3>1. s \in Shards /\ outstanding[q][s] = 1
        BY <1>1, <1>5, <2>2
      <3>2. outstanding' = [outstanding EXCEPT ![q][s] = @ - 1]
        BY <2>2 DEF GuardDropped
      <3>3. outstanding' = [outstanding EXCEPT ![q] = [@ EXCEPT ![s] = 0]]
        BY <3>1, <3>2
      <3> QED BY <1>6, <3>1, <3>3
    <2> QED BY <2>1, <2>2
  <1>8. Owned(q)'
    <2>1. \A j \in Workers : \A t : Holds(q, j, t)' <=> j # i /\ Holds(q, j, t)
      BY <1>3, <1>4
    <2>2. \A j, k \in Workers, t \in Shards : Holds(q, j, t)' /\ Holds(q, k, t)' => j = k
      BY <2>1 DEF PoolInv, QueryInv, Owned
    <2>3. \A t \in Shards : outstanding'[q][t] = IF \E j \in Workers : Holds(q, j, t)' THEN 1 ELSE 0
      <3> TAKE t \in Shards
      <3>1. CASE t = s
        BY <1>5, <1>7, <2>1, <3>1
      <3>2. CASE t # s
        <4>1. (\E j \in Workers : Holds(q, j, t)') <=> \E j \in Workers : Holds(q, j, t)
          BY <1>4, <2>1, <3>2
        <4>2. outstanding[q][t] = IF \E j \in Workers : Holds(q, j, t) THEN 1 ELSE 0
          BY DEF PoolInv, QueryInv, Owned
        <4> QED BY <1>7, <3>2, <4>1, <4>2
      <3> QED BY <3>1, <3>2
    <2>4. \A j \in Workers, t \in Shards : Holds(q, j, t)' => t \in populated'[q] \ queue'[q]
      BY <2>1 DEF PoolInv, QueryInv, Owned
    <2>5. queue'[q] \cup slots'[q] \subseteq populated'[q]
      BY <1>1, <1>5 DEF PoolInv, QueryInv, Owned
    <2>6. \A j \in Workers : Holds(q, j, Whole)' => queue'[q] = {}
      BY <2>1 DEF PoolInv, QueryInv, Owned
    <2> QED BY <2>2, <2>3, <2>4, <2>5, <2>6 DEF Owned
  <1>9. Staffed(q)'
    <2>1. CASE s = Whole
      BY <1>1, <2>1 DEF PoolInv, QueryInv, Owned, Staffed
    <2>2. CASE s # Whole
      BY <1>2, <1>3, <2>2 DEF Staffed
    <2> QED BY <2>1, <2>2
  <1>10. \A t : t # s /\ (\E j \in Workers : Holds(q, j, t)) => \E j \in Workers : Holds(q, j, t)'
    BY <1>3, <1>4
  <1> QED BY <1>2, <1>3, <1>7, <1>8, <1>9, <1>10

\* Complete keeps the invariant of every query.
LEMMA CompleteKeeps ==
    ASSUME PoolAssumption, PoolInv, NEW q \in Queries, NEW i \in Workers, Complete(q, i)
    PROVE  PoolInv'
  <1> DEFINE s == worker[q][i].shard
  <1>1. /\ phase[q] = "running" /\ worker[q][i].at = "work"
        /\ slots' = [slots EXCEPT ![q] = @ \cup ({s} \ {Whole})]
        /\ outstanding' = GuardDropped(q, s)
        /\ Goto(q, i, NextTurn(s))
        /\ UNCHANGED <<populated, token, cancelled, reason, firing, foreign, queue,
                       firstError, faults, phase, result>>
    BY DEF Complete, At, planVars, cancelVars
  <1>2. s \in Shards \cup {Whole}
    BY DEF PoolInv, PoolTypeOK, WorkerStates
  <1> HIDE DEF s
  <1>3. slots'[q] = slots[q] \cup ({s} \ {Whole})
    BY <1>1 DEF PoolInv, PoolTypeOK
  <1>4. /\ worker' \in [Queries -> [Workers -> WorkerStates]]
        /\ outstanding' \in [Queries -> [Shards -> Nat]]
        /\ \A t : t # s /\ (\E j \in Workers : Holds(q, j, t)) => \E j \in Workers : Holds(q, j, t)'
        /\ \A j \in Workers : worker'[q][j] = worker[q][j] \/ worker'[q][j].at \in {"top", "off"}
        /\ Owned(q)' /\ Staffed(q)'
    BY <1>1, <1>3, DropGuard DEF s
  <1>5. PoolTypeOK'
    <2>1. slots' \in [Queries -> SUBSET Shards]
      BY <1>1, <1>2 DEF PoolInv, PoolTypeOK
    <2> QED BY <1>1, <1>4, <2>1 DEF PoolInv, PoolTypeOK
  <1>6. Quiet(q)' /\ Joined(q)'
    BY <1>1 DEF Quiet, Joined
  <1>7. Located(q)'
    <2>1. Whole \notin populated[q]
      BY DEF PoolInv, PoolTypeOK, PoolAssumption, Whole
    <2> QED BY <1>1, <1>3, <1>4, <2>1 DEF PoolInv, QueryInv, Located, Cancelled
  <1>8. Caused(q)'
    BY <1>1, <1>4 DEF PoolInv, QueryInv, Caused, Blamed, Cancelled, Live
  <1>9. \A p \in Queries \ {q} : Untouched(p)
    BY WorkerFrame DEF WorkerStep
  <1> QED BY <1>4, <1>5, <1>6, <1>7, <1>8, <1>9, OneQuery DEF QueryInv

\* The error is published in the step that sets the token, so a peer cannot
\* report the cancellation first.
LEMMA ReportKeeps ==
    ASSUME PoolAssumption, PoolInv, NEW q \in Queries, NEW i \in Workers, Report(q, i)
    PROVE  PoolInv'
  <1> DEFINE s == worker[q][i].shard
             e == worker[q][i].error
  <1>1. /\ phase[q] = "running" /\ worker[q][i].at = "report"
        /\ firstError' = [firstError EXCEPT ![q] = IF @ = NoError THEN e ELSE @]
        /\ outstanding' = GuardDropped(q, s)
        /\ Goto(q, i, NextTurn(s))
        /\ SetToken(token[q], q) \/ UNCHANGED <<cancelled, foreign>>
        /\ UNCHANGED <<populated, token, reason, firing, queue, slots, faults, phase, result>>
    BY DEF Report, At, planVars
  <1>2. e \in {"Error", "Cancelled"} /\ (e = "Cancelled" => Cancelled(q))
    BY <1>1 DEF PoolInv, PoolTypeOK, QueryInv, Caused, WorkerStates
  <1>3. token[q] \in Tokens
    BY DEF PoolInv, PoolTypeOK
  <1>4. /\ cancelled' \subseteq Tokens /\ foreign' \subseteq Queries
        /\ cancelled \subseteq cancelled' /\ foreign \subseteq foreign'
    BY <1>1, <1>3, TokenSet DEF PoolInv, PoolTypeOK
  <1> HIDE DEF s, e
  <1>5. /\ worker' \in [Queries -> [Workers -> WorkerStates]]
        /\ outstanding' \in [Queries -> [Shards -> Nat]]
        /\ \A j \in Workers : worker'[q][j] = worker[q][j] \/ worker'[q][j].at \in {"top", "off"}
        /\ Owned(q)' /\ Staffed(q)'
    BY <1>1, DropGuard DEF s
  <1>6. PoolTypeOK'
    BY <1>1, <1>2, <1>4, <1>5 DEF PoolInv, PoolTypeOK
  <1>7. firstError'[q] = (IF firstError[q] = NoError THEN e ELSE firstError[q]) /\ firstError'[q] # NoError
    BY <1>1, <1>2 DEF PoolInv, PoolTypeOK, NoError
  <1>8. Quiet(q)' /\ Joined(q)' /\ Located(q)'
    BY <1>1, <1>7 DEF Quiet, Joined, Located
  <1>9. Caused(q)'
    <2>1. Blamed(q) => Blamed(q)'
      BY <1>1, <1>4 DEF Blamed
    <2>2. Cancelled(q) => Cancelled(q)'
      BY <1>1, <1>4 DEF Cancelled
    <2>3. firstError'[q] = "Error" \/ Blamed(q)
      <3>1. CASE firstError[q] = NoError /\ e = "Cancelled"
        BY <1>1, <1>2, <3>1 DEF PoolInv, QueryInv, Caused, Live, NoError
      <3>2. CASE firstError[q] = NoError /\ e = "Error"
        BY <1>7, <3>2
      <3>3. CASE firstError[q] # NoError
        BY <1>7, <3>3 DEF PoolInv, PoolTypeOK, QueryInv, Caused
      <3> QED BY <1>2, <3>1, <3>2, <3>3
    <2>4. phase'[q] = "running"
      BY <1>1
    <2> QED BY <1>5, <2>1, <2>2, <2>3, <2>4 DEF PoolInv, QueryInv, Caused
  <1>10. \A p \in Queries \ {q} : Untouched(p)
    BY WorkerFrame DEF WorkerStep
  <1> QED BY <1>5, <1>6, <1>8, <1>9, <1>10, OneQuery DEF QueryInv

\* All steps of a worker together.
LEMMA WorkerKeeps ==
    ASSUME PoolAssumption, PoolInv, NEW q \in Queries, NEW i \in Workers, WorkerStep(q, i)
    PROVE  PoolInv'
  <1>0. queue[q] = {} => queue = [queue EXCEPT ![q] = {}]
    BY DEF PoolInv, PoolTypeOK
  <1>1. CASE PullOrExit(q, i)
    <2>1. CASE \E s \in queue[q] : Pull(q, i, s)
      <3>1. queue[q] \subseteq Shards
        BY DEF PoolInv, PoolTypeOK
      <3> QED BY <1>1, <2>1, <3>1, PullKeeps DEF PullOrExit
    <2>2. CASE queue[q] = {} /\ Goto(q, i, Idle) /\ UNCHANGED <<queue, outstanding>>
      BY <1>0, <1>1, <2>2, LeaveKeeps DEF PullOrExit
    <2> QED BY <1>1, <2>1, <2>2 DEF PullOrExit
  <1>2. CASE Drain(q, i)
    BY <1>2, LeaveKeeps DEF Drain
  <1>3. CASE SeeCancelled(q, i)
    <2>1. faults' \in [Queries -> Nat]
      BY <1>3 DEF SeeCancelled, PoolInv, PoolTypeOK
    <2> QED BY <1>3, <2>1, StopKeeps DEF SeeCancelled
  <1>4. CASE Fail(q, i)
    <2>1. faults' \in [Queries -> Nat]
      BY <1>4 DEF Fail, PoolInv, PoolTypeOK
    <2> QED BY <1>4, <2>1, StopKeeps DEF Fail
  <1> QED BY <1>1, <1>2, <1>3, <1>4, CompleteKeeps, ReportKeeps DEF WorkerStep

-----------------------------------------------------------------------------
(* The theorems *)

\* Before the first query there is nothing to account for.
LEMMA PoolInitially == PoolAssumption /\ Init => PoolInv
  <1> SUFFICES ASSUME PoolAssumption, Init PROVE PoolInv
    OBVIOUS
  <1> USE DEF Init
  <1>1. PoolTypeOK
    BY DEF PoolTypeOK, Idle, WorkerStates, NoError
  <1>2. ASSUME NEW q \in Queries PROVE QueryInv(q)
    BY DEF QueryInv, Quiet, AllOff, Owned, Staffed, Located, Joined, Caused, Holds, Live, Idle,
           NoError
  <1> QED BY <1>1, <1>2 DEF PoolInv

\* The invariant of all queries is inductive.
LEMMA PoolInductive == PoolAssumption /\ PoolInv /\ [Next]_vars => PoolInv'
  <1> SUFFICES ASSUME PoolAssumption, PoolInv, [Next]_vars PROVE PoolInv'
    OBVIOUS
  <1>1. CASE UNCHANGED vars
    <2>1. PoolTypeOK'
      BY <1>1 DEF vars, budgetVars, planVars, cancelVars, runVars, PoolInv, PoolTypeOK
    <2>2. \A p \in Queries : Untouched(p)
      BY <1>1 DEF vars, budgetVars, planVars, cancelVars, runVars, Untouched
    <2> QED BY <2>1, <2>2, Elsewhere DEF PoolInv
  <1>2. CASE \E k \in Tokens : CallerCancels(k)
    BY <1>2, CallerCancelsKeeps
  <1>3. ASSUME NEW q \in Queries, CoordinatorStep(q) PROVE PoolInv'
    BY <1>3, DispatchKeeps, DispatchSingleKeeps, JoinKeeps, CheckAndMergeKeeps, CollectKeeps,
       ReturnKeeps DEF CoordinatorStep
  <1> QED BY <1>1, <1>2, <1>3, SubmitKeeps, BudgetTurnKeeps, TimerFiresKeeps, TimerSetsTokenKeeps,
             WorkerKeeps DEF Next

\* The inductive invariant of the pool, for all parameters of PoolAssumption.
THEOREM PoolInvariant == Spec => []PoolInv
  BY PoolAssumption, PoolInitially, PoolInductive, PTL DEF Spec

\* The pool's state keeps its shape; no morsel is counted below zero.
THEOREM PoolTypeCorrect == Spec => []PoolTypeOK
  <1>1. PoolInv => PoolTypeOK
    BY DEF PoolInv
  <1> QED BY <1>1, PoolInvariant, PTL

\* When a query's workers are joined no morsel is left and every guard has been
\* dropped, on the error and cancellation paths of run_per_shard too.
THEOREM AccountingIsBalanced == Spec => []AccountingBalanced
  <1>1. PoolInv => AccountingBalanced
    <2>1. ASSUME PoolInv, NEW q \in Queries, phase[q] # "running"
          PROVE  queue[q] = {} /\ \A s \in Shards : outstanding[q][s] = 0
      <3>1. queue[q] = {} /\ \A i \in Workers, s \in Shards : ~Holds(q, i, s)
        BY <2>1 DEF PoolInv, QueryInv, Quiet, AllOff, Holds
      <3> QED BY <2>1, <3>1 DEF PoolInv, QueryInv, Owned
    <2> QED BY <2>1 DEF AccountingBalanced
  <1> QED BY <1>1, PoolInvariant, PTL

\* A query that succeeds has merged the accumulators of all its shards.
THEOREM NeverPartialResult == Spec => []NoPartialResult
  <1>1. PoolInv => NoPartialResult
    BY DEF PoolInv, QueryInv, Joined, NoPartialResult
  <1> QED BY <1>1, PoolInvariant, PTL

\* A query that reports a cancellation was cancelled by someone else.
THEOREM RootCauseIsReported == Spec => []RootCauseReported
  <1>1. PoolInv => RootCauseReported
    BY DEF PoolInv, QueryInv, Caused, RootCauseReported
  <1> QED BY <1>1, PoolInvariant, PTL

-----------------------------------------------------------------------------
(* The core budget inside the pool *)

\* Every query asks for the same, positive number of permits.
LEMMA BudgetAssumptionHolds == BudgetFacts!BudgetAssumption
  BY PoolAssumption DEF BudgetFacts!BudgetAssumption

\* Every step of the pool is a step of the budget, or none.
LEMMA StepsOfBudget ==
    ASSUME [Next]_vars PROVE [BudgetFacts!Next]_(BudgetFacts!budgetVars)
  <1> USE DEF BudgetFacts!budgetVars, budgetVars
  <1>1. ASSUME NEW q \in Queries,
               \/ Budget!Acquire(q, QueryThreads) \/ Budget!Recheck(q)
               \/ Budget!Release(q) \/ Budget!SpuriousWakeup(q)
        PROVE  BudgetFacts!Next
    <2>1. /\ Budget!Acquire(q, QueryThreads) <=> BudgetFacts!Acquire(q, QueryThreads)
          /\ Budget!Recheck(q) <=> BudgetFacts!Recheck(q)
          /\ Budget!Release(q) <=> BudgetFacts!Release(q)
          /\ Budget!SpuriousWakeup(q) <=> BudgetFacts!SpuriousWakeup(q)
      BY DEF Budget!Acquire, BudgetFacts!Acquire, Budget!Recheck, BudgetFacts!Recheck,
         Budget!Release, BudgetFacts!Release, Budget!SpuriousWakeup, BudgetFacts!SpuriousWakeup,
         Budget!GrantOrPark, BudgetFacts!GrantOrPark, Budget!MayGo, BudgetFacts!MayGo,
         Budget!Grant, BudgetFacts!Grant, Budget!Park, BudgetFacts!Park,
         Budget!Notified, BudgetFacts!Notified
    <2> QED BY <1>1, <2>1 DEF BudgetFacts!Next
  <1>2. ASSUME NEW q \in Queries,
               Submit(q) \/ Reacquire(q) \/ SpuriousWakeup(q) \/ Join(q)
        PROVE  BudgetFacts!Next
    BY <1>1, <1>2 DEF Submit, Reacquire, SpuriousWakeup, Join
  <1>3. ASSUME NEW q \in Queries, NEW i \in Workers, WorkerStep(q, i) PROVE UNCHANGED budgetVars
    BY <1>3 DEF WorkerStep, PullOrExit, Drain, SeeCancelled, Fail, Complete, Report
  <1>4. ASSUME NEW q \in Queries, CoordinatorStep(q), ~Join(q) PROVE UNCHANGED budgetVars
    BY <1>4 DEF CoordinatorStep, Dispatch, DispatchSingle, CheckAndMerge, Collect, Return
  <1>5. ASSUME NEW q \in Queries, TimerFires(q) \/ TimerSetsToken(q) PROVE UNCHANGED budgetVars
    BY <1>5 DEF TimerFires, TimerSetsToken
  <1>6. ASSUME NEW k \in Tokens, CallerCancels(k) PROVE UNCHANGED budgetVars
    BY <1>6 DEF CallerCancels
  <1>7. CASE UNCHANGED vars
    BY <1>7 DEF vars
  <1> QED BY <1>2, <1>3, <1>4, <1>5, <1>6, <1>7 DEF Next

\* Queries use the budget only through its operations: its queue is exact and
\* no query sleeps through its permits.
THEOREM BudgetOfPool == Spec => []BudgetFacts!BudgetInv
  <1>1. Init => BudgetFacts!BudgetInv
    <2>1. Init => BudgetFacts!Init
      BY DEF Init, Budget!Init, BudgetFacts!Init
    <2> QED BY <2>1, BudgetFacts!BudgetInitially, BudgetAssumptionHolds
  <1>2. BudgetFacts!BudgetInv /\ [Next]_vars => BudgetFacts!BudgetInv'
    BY StepsOfBudget, BudgetFacts!BudgetInductive, BudgetAssumptionHolds
  <1> QED BY <1>1, <1>2, PTL DEF Spec

-----------------------------------------------------------------------------
(* Workers and permits *)

\* A query whose workers run has the permits it acquired.
Funded == \A q \in Queries : phase[q] = "running" => status[q] = "holding"

\* Funded needs the budget's invariants, which say what a holder holds, and the
\* pool's, which say that a query has no workers when it is not running.
FundedInv == BudgetFacts!BudgetInv /\ BudgetFacts!ConservedInv /\ PoolInv /\ Funded

\* The budget takes permits from a query only when it gives them back.
LEMMA HoldersKeep ==
    ASSUME BudgetFacts!BudgetTypeOK, NEW q \in Queries,
           \/ Budget!Acquire(q, QueryThreads) \/ Budget!Recheck(q) \/ Budget!SpuriousWakeup(q)
    PROVE  \A p \in Queries : status[p] = "holding" => status'[p] = "holding"
  <1>1. ASSUME NEW p \in Queries, status[p] = "holding" PROVE status'[p] = "holding"
    BY <1>1 DEF BudgetFacts!BudgetTypeOK, Budget!Acquire, Budget!Recheck, Budget!SpuriousWakeup,
       Budget!GrantOrPark, Budget!Grant, Budget!Park, Budget!Notified
  <1> QED BY <1>1

\* Finite for the budget is finite for the pool.
LEMMA FiniteForBudget == IsFiniteSet(Queries) => BudgetFacts!IsFiniteSet(Queries)
  BY DEF IsFiniteSet, BudgetFacts!IsFiniteSet

\* Every step of a query leaves the queries that run with their permits.
LEMMA FundedInductive ==
    ASSUME BudgetFacts!BudgetTypeOK, PoolTypeOK, Funded, [Next]_vars PROVE Funded'
  <1> USE DEF Funded
  <1>1. ASSUME NEW q \in Queries, Submit(q) PROVE Funded'
    BY <1>1, HoldersKeep DEF Submit, PoolTypeOK
  <1>2. ASSUME NEW q \in Queries, Reacquire(q) \/ SpuriousWakeup(q) PROVE Funded'
    BY <1>2, HoldersKeep DEF Reacquire, SpuriousWakeup
  <1>3. ASSUME NEW q \in Queries, Dispatch(q) \/ DispatchSingle(q) PROVE Funded'
    BY <1>3 DEF Dispatch, DispatchSingle, Granted, PoolTypeOK, budgetVars
  <1>4. ASSUME NEW q \in Queries, Join(q) PROVE Funded'
    <2>1. phase'[q] # "running" /\ \A p \in Queries \ {q} : phase'[p] = phase[p]
      BY <1>4 DEF Join, PoolTypeOK
    <2>2. \A p \in Queries \ {q} : status[p] = "holding" => status'[p] = "holding"
      BY <1>4 DEF Join, Budget!Release, Budget!Notified, BudgetFacts!BudgetTypeOK
    <2> QED BY <2>1, <2>2
  <1>5. ASSUME NEW q \in Queries, CheckAndMerge(q) \/ Collect(q) \/ Return(q) PROVE Funded'
    BY <1>5 DEF CheckAndMerge, Collect, Return, PoolTypeOK, budgetVars
  <1>6. ASSUME NEW q \in Queries, NEW i \in Workers, WorkerStep(q, i) PROVE Funded'
    BY <1>6 DEF WorkerStep, PullOrExit, Drain, SeeCancelled, Fail, Complete, Report, budgetVars
  <1>7. ASSUME NEW q \in Queries, TimerFires(q) \/ TimerSetsToken(q) PROVE Funded'
    BY <1>7 DEF TimerFires, TimerSetsToken, budgetVars
  <1>8. ASSUME NEW k \in Tokens, CallerCancels(k) PROVE Funded'
    BY <1>8 DEF CallerCancels, budgetVars
  <1>9. CASE UNCHANGED vars
    BY <1>9 DEF vars, budgetVars
  <1> QED BY <1>1, <1>2, <1>3, <1>4, <1>5, <1>6, <1>7, <1>8, <1>9 DEF Next, CoordinatorStep

\* The permits of the queries that run are all taken out of the budget.
LEMMA FundedBounds ==
    ASSUME IsFiniteSet(Queries), FundedInv PROVE WorkersWithinPermits
  <1>1. \A q \in Running : held[q] = QueryThreads
    <2> SUFFICES ASSUME NEW q \in Running PROVE held[q] = QueryThreads
      OBVIOUS
    <2>1. phase[q] = "running"
      BY DEF Running, FundedInv, PoolInv, QueryInv, Quiet, AllOff
    <2>2. status[q] = "holding"
      BY <2>1 DEF FundedInv, Funded, Running
    <2> QED BY <2>2 DEF Running, FundedInv, BudgetFacts!ConservedInv, BudgetFacts!GuardsOnly
  <1>2. Running \in SUBSET Queries
    BY DEF Running
  <1>3. \A q \in Queries : held[q] \in Nat
    BY DEF FundedInv, BudgetFacts!BudgetInv, BudgetFacts!BudgetTypeOK
  <1>4. QueryThreads \in Nat /\ Permits \in Nat /\ available \in Nat
    BY PoolAssumption DEF PoolAssumption, FundedInv, BudgetFacts!BudgetInv, BudgetFacts!BudgetTypeOK
  <1>5. Cardinality(Running) * QueryThreads <= Cardinality(Units(held, Queries))
    BY <1>1, <1>2, <1>3, <1>4, EqualShares
  <1>6. available + SumFun(held, Queries)[Queries] = Permits
    <2>1. BudgetFacts!PermitsConserved
      BY DEF FundedInv, BudgetFacts!ConservedInv
    <2> QED BY <2>1 DEF BudgetFacts!PermitsConserved, BudgetFacts!MapThenSumSet,
               BudgetFacts!MapThenFoldSet, SumFun
  <1>7. SumFun(held, Queries)[Queries] = Cardinality(Units(held, Queries))
    BY <1>3, SumIsCount
  <1>8. Cardinality(Units(held, Queries)) \in Nat /\ Cardinality(Running) \in Nat
    BY <1>2, <1>3, UnitsFinite, FS_Subset, FS_CardinalityType
  <1>9. Cardinality(Units(held, Queries)) <= Permits
    BY <1>4, <1>6, <1>7, <1>8
  <1>10. Cardinality(Running) * QueryThreads \in Nat
    BY <1>4, <1>8
  <1> QED BY <1>4, <1>5, <1>8, <1>9, <1>10 DEF WorkersWithinPermits

\* For finitely many queries, the workers of all queries together never exceed
\* the permits of the core budget, whatever queries submit, fail, are cancelled
\* or time out.
THEOREM WorkersStayWithinPermits == IsFiniteSet(Queries) => (Spec => []WorkersWithinPermits)
  <1> SUFFICES ASSUME IsFiniteSet(Queries) PROVE Spec => []WorkersWithinPermits
    OBVIOUS
  <1>1. Init => BudgetFacts!ConservedInv /\ Funded
    <2>1. Init => BudgetFacts!Init
      BY DEF Init, Budget!Init, BudgetFacts!Init
    <2>2. Init => Funded
      BY DEF Init, Funded
    <2> QED BY <2>1, <2>2, BudgetFacts!ConservedInitially, BudgetAssumptionHolds, FiniteForBudget
  <1>2. /\ BudgetFacts!BudgetInv /\ PoolInv /\ BudgetFacts!ConservedInv /\ Funded
        /\ [Next]_vars
        => BudgetFacts!ConservedInv' /\ Funded'
    <2>1. BudgetFacts!BudgetInv /\ BudgetFacts!ConservedInv /\ [Next]_vars => BudgetFacts!ConservedInv'
      BY StepsOfBudget, BudgetFacts!ConservedInductive, BudgetAssumptionHolds, FiniteForBudget
    <2>2. BudgetFacts!BudgetTypeOK /\ PoolTypeOK /\ Funded /\ [Next]_vars => Funded'
      BY FundedInductive
    <2> QED BY <2>1, <2>2 DEF BudgetFacts!BudgetInv, PoolInv
  <1>3. BudgetFacts!BudgetInv /\ PoolInv /\ BudgetFacts!ConservedInv /\ Funded => WorkersWithinPermits
    BY FundedBounds DEF FundedInv
  <1> QED BY <1>1, <1>2, <1>3, BudgetOfPool, PoolInvariant, PTL DEF Spec
=============================================================================
