----------------------------- MODULE EnginePool -----------------------------
(***************************************************************************)
(* Execution of queries by the morsel scheduler: permits of the core       *)
(* budget, one morsel per shard, workers that pull morsels from the        *)
(* query's queue, accumulators of the shards, cancellation by the caller   *)
(* or by the timeout timer, errors and panics of the workers, and how the  *)
(* outcome of the query is put together.                                   *)
(*                                                                         *)
(* A query whose table has no matching segment runs as a single task       *)
(* (submit); the others run one morsel per shard (run_per_shard).  Every   *)
(* morsel is queued before a worker is spawned, so pop_or_park never       *)
(* parks.                                                                  *)
(*                                                                         *)
(* Cancellation tokens are handed in by the caller, who may give the same  *)
(* token to several queries.                                               *)
(***************************************************************************)
EXTENDS Integers, Sequences, FiniteSets

CONSTANTS
    Queries,
    Shards,
    Tokens,
    QueryThreads,   \* workers of the pool, and permits a query acquires
    Permits,        \* permits of the core budget
    MaxFaults       \* bound: errors and panics of one query

ASSUME PoolAssumption ==
    /\ QueryThreads \in Nat \ {0}
    /\ Permits \in Nat
    /\ QueryThreads <= Permits
    /\ MaxFaults \in Nat
    /\ IsFiniteSet(Shards)
    /\ "whole" \notin Shards      \* stands for all shards
    /\ "caller" \notin Queries    \* stands for the caller

VARIABLES
    available, waiters, status, held,  \* the core budget
    populated,   \* query -> the shards with a segment to scan
    token,       \* query -> its cancellation token
    cancelled,   \* the tokens that are set
    reason,      \* query -> CancelReason
    firing,      \* queries whose timer is between setting the reason and the token
    phase,       \* query -> where the coordinator is
    queue,       \* query -> shards whose morsel is in the MorselQueue
    slots,       \* query -> shards whose accumulator is parked on its handle
    outstanding, \* query, shard -> morsels pulled whose guard is not dropped
    firstError,  \* query -> the first error a worker published
    worker,      \* query, worker -> [at, shard, error]
    result,      \* query -> what query_with_options returns
    faults,      \* query -> errors and panics so far
    foreign      \* observation only: running queries whose token someone else set

budgetVars == <<available, waiters, status, held>>
planVars   == <<populated, token>>
cancelVars == <<cancelled, reason, firing, foreign>>
runVars    == <<queue, slots, outstanding, firstError, worker, faults>>
vars       == <<budgetVars, planVars, cancelVars, runVars, phase, result>>

Budget == INSTANCE CoreBudget WITH Threads <- Queries, Demands <- {QueryThreads}

Workers == 1..QueryThreads
Whole   == "whole"     \* the task of a query that runs on a single worker
Caller  == "caller"
NoError == "none"

Idle == [at |-> "off", shard |-> Whole, error |-> NoError]

Init ==
    /\ Budget!Init
    /\ populated = [q \in Queries |-> {}]
    /\ token \in [Queries -> Tokens]
    /\ cancelled = {}
    /\ reason = [q \in Queries |-> "none"]
    /\ phase = [q \in Queries |-> "idle"]
    /\ queue = [q \in Queries |-> {}]
    /\ slots = [q \in Queries |-> {}]
    /\ outstanding = [q \in Queries |-> [s \in Shards |-> 0]]
    /\ firstError = [q \in Queries |-> NoError]
    /\ worker = [q \in Queries |-> [i \in Workers |-> Idle]]
    /\ result = [q \in Queries |-> "none"]
    /\ faults = [q \in Queries |-> 0]
    /\ firing = {}
    /\ foreign = {}

-----------------------------------------------------------------------------
(* Cancellation *)

Cancelled(q) == token[q] \in cancelled

Live(q) == phase[q] \notin {"idle", "returned"}

SetToken(k, who) ==
    /\ cancelled' = cancelled \cup {k}
    /\ foreign' = foreign \cup {q \in Queries \ {who} : Live(q) /\ token[q] = k}

\* The caller cancels: the token only, no reason is recorded.
CallerCancels(k) ==
    /\ k \notin cancelled
    /\ SetToken(k, Caller)
    /\ UNCHANGED <<budgetVars, planVars, reason, firing, runVars, phase, result>>

\* cancel_with_reason(Timeout), first half: installs the reason if there is none.
TimerFires(q) ==
    /\ Live(q)
    /\ reason[q] = "none"
    /\ reason' = [reason EXCEPT ![q] = "timeout"]
    /\ firing' = firing \cup {q}
    /\ UNCHANGED <<budgetVars, planVars, cancelled, foreign, runVars, phase, result>>

\* Second half: sets the token.
TimerSetsToken(q) ==
    /\ q \in firing
    /\ reason[q] = "timeout"
    /\ firing' = firing \ {q}
    /\ SetToken(token[q], q)
    /\ UNCHANGED <<budgetVars, planVars, reason, runVars, phase, result>>

-----------------------------------------------------------------------------
(* The coordinator: the thread inside query_with_options *)

\* The query asks the core budget for all its permits in one batch.
Submit(q) ==
    /\ phase[q] = "idle"
    /\ Budget!Acquire(q, QueryThreads)
    /\ phase' = [phase EXCEPT ![q] = "acquiring"]
    /\ foreign' = IF Cancelled(q) THEN foreign \cup {q} ELSE foreign
    /\ UNCHANGED <<planVars, cancelled, reason, firing, runVars, result>>

Reacquire(q) ==
    /\ Budget!Recheck(q)
    /\ UNCHANGED <<planVars, cancelVars, runVars, phase, result>>

\* The condition variable of the budget may wake a query without a notification.
SpuriousWakeup(q) ==
    /\ Budget!SpuriousWakeup(q)
    /\ UNCHANGED <<planVars, cancelVars, runVars, phase, result>>

NumWorkers(ss) == IF Cardinality(ss) < QueryThreads THEN Cardinality(ss) ELSE QueryThreads

Granted(q) == phase[q] = "acquiring" /\ status[q] = "holding"

\* One morsel per populated shard in the queue, which is then marked drained; as
\* many workers as there is work for.
Enqueue(q, ss) ==
    /\ populated' = [populated EXCEPT ![q] = ss]
    /\ queue' = [queue EXCEPT ![q] = ss]
    /\ worker' = [worker EXCEPT ![q] =
                    [i \in Workers |-> IF i <= NumWorkers(ss) THEN [Idle EXCEPT !.at = "top"]
                                                              ELSE Idle]]

\* Mutant: `let _ = acquire_n(..)`, the guard is dropped at once.
DispatchWithoutGuard(q) ==
    /\ phase[q] = "acquiring" /\ status[q] = "holding"
    /\ \E ss \in SUBSET Shards \ {{}} : Enqueue(q, ss)
    /\ phase' = [phase EXCEPT ![q] = "running"]
    /\ Budget!Release(q)
    /\ UNCHANGED <<token, cancelVars, slots, outstanding, firstError, result, faults>>

\* run_per_shard, for whatever shards have a segment to scan.
Dispatch(q) ==
    /\ Granted(q)
    /\ \E ss \in SUBSET Shards \ {{}} : Enqueue(q, ss)
    /\ phase' = [phase EXCEPT ![q] = "running"]
    /\ UNCHANGED <<budgetVars, token, cancelVars, slots, outstanding, firstError, result, faults>>

\* submit: the whole query is one task.
DispatchSingle(q) ==
    /\ Granted(q)
    /\ worker' = [worker EXCEPT ![q][1] = [Idle EXCEPT !.at = "work"]]
    /\ phase' = [phase EXCEPT ![q] = "running"]
    /\ UNCHANGED <<budgetVars, planVars, cancelVars, queue, slots, outstanding,
                   firstError, result, faults>>

AllOff(q) == \A i \in Workers : worker[q][i].at = "off"

\* Mutant: the early return on an error leaves the permits with the query.
JoinKeepsPermits(q) ==
    /\ phase[q] = "running"
    /\ AllOff(q)
    /\ IF firstError[q] = NoError THEN Budget!Release(q) ELSE UNCHANGED budgetVars
    /\ phase' = [phase EXCEPT ![q] = IF firstError[q] = NoError /\ populated[q] # {}
                                     THEN "check" ELSE "collect"]
    /\ result' = [result EXCEPT ![q] = IF firstError[q] = NoError THEN "Ok" ELSE firstError[q]]
    /\ UNCHANGED <<planVars, cancelVars, runVars>>

\* The scope has joined all workers; the permits are released on the way out.
Join(q) ==
    /\ phase[q] = "running"
    /\ AllOff(q)
    /\ Budget!Release(q)
    /\ phase' = [phase EXCEPT ![q] = IF firstError[q] = NoError /\ populated[q] # {}
                                     THEN "check" ELSE "collect"]
    /\ result' = [result EXCEPT ![q] = IF firstError[q] = NoError THEN "Ok" ELSE firstError[q]]
    /\ UNCHANGED <<planVars, cancelVars, runVars>>

\* Mutant: the caller of run_per_shard merges what there is.
MergeUnchecked(q) ==
    /\ phase[q] = "check"
    /\ result' = [result EXCEPT ![q] = "Ok"]
    /\ phase' = [phase EXCEPT ![q] = "collect"]
    /\ UNCHANGED <<budgetVars, planVars, cancelVars, runVars>>

\* run_per_shard returned Ok, which it also does when it drained the queue after
\* a cancellation: the caller checks the token before it merges.
CheckAndMerge(q) ==
    /\ phase[q] = "check"
    /\ result' = [result EXCEPT ![q] = IF Cancelled(q) THEN "Cancelled" ELSE "Ok"]
    /\ phase' = [phase EXCEPT ![q] = "collect"]
    /\ UNCHANGED <<budgetVars, planVars, cancelVars, runVars>>

\* A cancellation that the timer was first to explain is a timeout.
Collect(q) ==
    /\ phase[q] = "collect"
    /\ result' = [result EXCEPT ![q] = IF @ = "Cancelled" /\ reason[q] = "timeout"
                                       THEN "Timeout" ELSE @]
    /\ phase' = [phase EXCEPT ![q] = "leaving"]
    /\ UNCHANGED <<budgetVars, planVars, cancelVars, runVars>>

\* QueryTimer::drop joins the timer's thread, which finishes what it began; the
\* accumulators and the rest of the query's state are dropped.
Return(q) ==
    /\ phase[q] = "leaving"
    /\ q \notin firing
    /\ phase' = [phase EXCEPT ![q] = "returned"]
    /\ slots' = [slots EXCEPT ![q] = {}]
    /\ populated' = [populated EXCEPT ![q] = {}]
    /\ firstError' = [firstError EXCEPT ![q] = NoError]
    /\ faults' = [faults EXCEPT ![q] = 0]
    /\ result' = [result EXCEPT ![q] = "none"]
    /\ reason' = [reason EXCEPT ![q] = "none"]
    /\ foreign' = foreign \ {q}
    /\ UNCHANGED <<budgetVars, token, cancelled, firing, queue, outstanding, worker>>

-----------------------------------------------------------------------------
(* Workers *)

Goto(q, i, w) == worker' = [worker EXCEPT ![q][i] = w]

At(q, i, point) == phase[q] = "running" /\ worker[q][i].at = point

\* The guard of a pulled morsel counts it as outstanding.
Pull(q, i, s) ==
    /\ queue' = [queue EXCEPT ![q] = @ \ {s}]
    /\ outstanding' = [outstanding EXCEPT ![q][s] = @ + 1]
    /\ Goto(q, i, [at |-> "work", shard |-> s, error |-> NoError])

\* A turn of the worker's loop on a token that is not set: pulls a morsel, or
\* leaves because the queue is drained.
PullOrExit(q, i) ==
    /\ At(q, i, "top")
    /\ ~Cancelled(q)
    /\ \/ \E s \in queue[q] : Pull(q, i, s)
       \/ queue[q] = {} /\ Goto(q, i, Idle) /\ UNCHANGED <<queue, outstanding>>
    /\ UNCHANGED <<budgetVars, planVars, cancelVars, slots, firstError, faults, phase,
                   result>>

\* Mutant: on a cancelled token the worker just leaves.
DrainByLeaving(q, i) ==
    /\ At(q, i, "top")
    /\ Cancelled(q)
    /\ Goto(q, i, Idle)
    /\ UNCHANGED <<budgetVars, planVars, cancelVars, queue, slots, outstanding,
                   firstError, faults, phase, result>>

\* A turn on a token that is set: drains the queue, each morsel under a guard
\* that is dropped at once, and leaves.
Drain(q, i) ==
    /\ At(q, i, "top")
    /\ Cancelled(q)
    /\ queue' = [queue EXCEPT ![q] = {}]
    /\ Goto(q, i, Idle)
    /\ UNCHANGED <<budgetVars, planVars, cancelVars, slots, outstanding, firstError,
                   faults, phase, result>>

\* A check before a batch finds the token set.
SeeCancelled(q, i) ==
    /\ At(q, i, "work")
    /\ Cancelled(q)
    /\ Goto(q, i, [worker[q][i] EXCEPT !.at = "report", !.error = "Cancelled"])
    /\ UNCHANGED <<budgetVars, planVars, cancelVars, queue, slots, outstanding, firstError,
                   faults, phase, result>>

\* An operator returns an error, or panics (caught, and turned into an error).
\* The token may have been set since the last check.
Fail(q, i) ==
    /\ At(q, i, "work")
    /\ faults[q] < MaxFaults
    /\ faults' = [faults EXCEPT ![q] = @ + 1]
    /\ Goto(q, i, [worker[q][i] EXCEPT !.at = "report", !.error = "Error"])
    /\ UNCHANGED <<budgetVars, planVars, cancelVars, queue, slots, outstanding, firstError,
                   phase, result>>

\* Mutant: the worker counts the morsel off, and so does the guard.
GuardDroppedTwice(q, s) ==
    IF s = Whole THEN outstanding ELSE [outstanding EXCEPT ![q][s] = @ - 2]

GuardDropped(q, s) ==
    IF s = Whole THEN outstanding ELSE [outstanding EXCEPT ![q][s] = @ - 1]

\* The morsel's guard is dropped; the single task of submit ends with its morsel.
NextTurn(s) == IF s = Whole THEN Idle ELSE [Idle EXCEPT !.at = "top"]

\* The input is exhausted: the accumulator is parked on the shard's handle and
\* the guard dropped.  The token may have been set since the last check.
Complete(q, i) ==
    /\ At(q, i, "work")
    /\ LET s == worker[q][i].shard
       IN  /\ slots' = [slots EXCEPT ![q] = @ \cup ({s} \ {Whole})]
           /\ outstanding' = GuardDropped(q, s)
           /\ Goto(q, i, NextTurn(s))
    /\ UNCHANGED <<budgetVars, planVars, cancelVars, queue, firstError, faults, phase, result>>

\* Mutant: sets the token first and publishes the error after that.
ReportCancelFirst(q, i) ==
    /\ At(q, i, "report")
    /\ LET s == worker[q][i].shard
       IN  IF Cancelled(q)
           THEN /\ firstError' = [firstError EXCEPT ![q] = IF @ = NoError THEN worker[q][i].error
                                                           ELSE @]
                /\ outstanding' = GuardDropped(q, s)
                /\ Goto(q, i, NextTurn(s))
                /\ UNCHANGED <<cancelled, foreign>>
           ELSE SetToken(token[q], q) /\ UNCHANGED <<firstError, outstanding, worker>>
    /\ UNCHANGED <<budgetVars, planVars, reason, firing, queue, slots, faults, phase, result>>

\* The guard is dropped while the error propagates; the worker then publishes it
\* if it is the first and sets the token, under the lock of the error slot.  The
\* single task of submit only leaves its result.
Report(q, i) ==
    /\ At(q, i, "report")
    /\ firstError' = [firstError EXCEPT ![q] = IF @ = NoError THEN worker[q][i].error ELSE @]
    /\ LET s == worker[q][i].shard
       IN  /\ outstanding' = GuardDropped(q, s)
           /\ Goto(q, i, NextTurn(s))
           /\ IF s = Whole THEN UNCHANGED <<cancelled, foreign>> ELSE SetToken(token[q], q)
    /\ UNCHANGED <<budgetVars, planVars, reason, firing, queue, slots, faults, phase, result>>

-----------------------------------------------------------------------------
WorkerStep(q, i) ==
    \/ PullOrExit(q, i)
    \/ Drain(q, i)
    \/ SeeCancelled(q, i)
    \/ Fail(q, i)
    \/ Complete(q, i)
    \/ Report(q, i)

CoordinatorStep(q) ==
    \/ Dispatch(q)
    \/ DispatchSingle(q)
    \/ Join(q)
    \/ CheckAndMerge(q)
    \/ Collect(q)
    \/ Return(q)

Next ==
    \/ \E k \in Tokens : CallerCancels(k)
    \/ \E q \in Queries :
        \/ Submit(q)
        \/ Reacquire(q)
        \/ SpuriousWakeup(q)
        \/ CoordinatorStep(q)
        \/ TimerFires(q)
        \/ TimerSetsToken(q)
        \/ \E i \in Workers : WorkerStep(q, i)

Spec == Init /\ [][Next]_vars

\* Every thread that can go on goes on some time: the coordinators, the workers,
\* and a timer that has fired.  Nobody has to submit, to cancel or to fail.
PoolFairness ==
    \A q \in Queries :
        /\ WF_vars(Reacquire(q))
        /\ WF_vars(CoordinatorStep(q))
        /\ WF_vars(TimerSetsToken(q))
        /\ \A i \in Workers : WF_vars(WorkerStep(q, i))

FairSpec == Spec /\ PoolFairness

-----------------------------------------------------------------------------
(* Properties *)

WorkerStates ==
    [at : {"off", "top", "work", "report"},
     shard : Shards \cup {Whole},
     error : {NoError, "Error", "Cancelled"}]

\* Shape of the pool's state.
PoolTypeOK ==
    /\ populated \in [Queries -> SUBSET Shards]
    /\ token \in [Queries -> Tokens]
    /\ cancelled \subseteq Tokens
    /\ reason \in [Queries -> {"none", "timeout"}]
    /\ phase \in [Queries -> {"idle", "acquiring", "running", "check", "collect", "leaving",
                              "returned"}]
    /\ queue \in [Queries -> SUBSET Shards]
    /\ slots \in [Queries -> SUBSET Shards]
    /\ outstanding \in [Queries -> [Shards -> Nat]]
    /\ firstError \in [Queries -> {NoError, "Error", "Cancelled"}]
    /\ worker \in [Queries -> [Workers -> WorkerStates]]
    /\ result \in [Queries -> {"none", "Ok", "Error", "Cancelled", "Timeout"}]
    /\ faults \in [Queries -> Nat]
    /\ firing \subseteq Queries
    /\ foreign \subseteq Queries

\* A query that succeeds has merged the accumulator of every shard: a
\* cancellation, whenever it comes and whichever worker sees it, is never taken
\* for a small result.
NoPartialResult ==
    \A q \in Queries :
        phase[q] \in {"collect", "leaving"} /\ result[q] = "Ok" =>
            slots[q] = populated[q]

\* When the workers have left, no morsel is left behind and every guard has been
\* dropped, on the error and cancellation paths too.
AccountingBalanced ==
    \A q \in Queries :
        phase[q] \in {"check", "collect", "leaving", "returned"} =>
            queue[q] = {} /\ \A s \in Shards : outstanding[q][s] = 0

\* A query says it was cancelled only if someone else set its token.  The token
\* that a failing worker of its own sets to stop its peers does not hide the
\* failure, and the token its own timer sets makes it a timeout.
RootCauseReported ==
    \A q \in Queries :
        phase[q] = "leaving" /\ result[q] = "Cancelled" =>
            q \in foreign

Running == {q \in Queries : \E i \in Workers : worker[q][i].at # "off"}

\* The workers of all queries together never exceed the permits of the budget.
WorkersWithinPermits == Cardinality(Running) * QueryThreads <= Permits

\* Every query that was submitted returns, whatever fails or is cancelled.
EveryQueryReturns == \A q \in Queries : phase[q] = "acquiring" ~> phase[q] = "returned"
=============================================================================
