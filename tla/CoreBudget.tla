----------------------------- MODULE CoreBudget -----------------------------
(***************************************************************************)
(* The counting semaphore that gates compaction workers and queries.       *)
(*                                                                         *)
(* A mutex guards the permit count and the queue of waiters, and one       *)
(* condition variable is shared by all of them: every critical section is  *)
(* one action here, and a thread inside `cv.wait` is "parked" until it is  *)
(* notified or wakes spuriously, then "woken" until it has the mutex back. *)
(*                                                                         *)
(* A ticket identifies one call of acquire_inner.  A thread is in at most  *)
(* one call, so the thread stands for its ticket.                          *)
(***************************************************************************)
EXTENDS Integers, Sequences, FiniteSetsExt

CONSTANTS
    Threads,
    Permits,   \* permits the budget is created with
    Demands    \* how many permits an acquire may ask for

ASSUME BudgetAssumption ==
    /\ Permits \in Nat
    /\ Demands \subseteq Nat \ {0}     \* acquire_n panics on 0

VARIABLES
    available,
    waiters,   \* queue of [thread, n]
    status,    \* thread -> "out", "parked", "woken" or "holding"
    held       \* thread -> permits its guard will release

budgetVars == <<available, waiters, status, held>>

Waiter == [thread : Threads, n : Demands]

Init ==
    /\ available = Permits
    /\ waiters = <<>>
    /\ status = [t \in Threads |-> "out"]
    /\ held = [t \in Threads |-> 0]

\* cv.notify_all
Notified(st) == [u \in Threads |-> IF st[u] = "parked" THEN "woken" ELSE st[u]]

\* A grant that does not wake the other waiters.
GrantSilent(t, queue) ==
    /\ available' = available - Head(queue).n
    /\ waiters' = Tail(queue)
    /\ held' = [held EXCEPT ![t] = Head(queue).n]
    /\ status' = [status EXCEPT ![t] = "holding"]

\* Takes the newest entry off the queue instead of its own.
GrantPopsBack(t, queue) ==
    /\ available' = available - Head(queue).n
    /\ waiters' = SubSeq(queue, 1, Len(queue) - 1)
    /\ held' = [held EXCEPT ![t] = Head(queue).n]
    /\ status' = Notified([status EXCEPT ![t] = "holding"])

Grant(t, queue) ==
    /\ available' = available - Head(queue).n
    /\ waiters' = Tail(queue)
    /\ held' = [held EXCEPT ![t] = Head(queue).n]
    /\ status' = Notified([status EXCEPT ![t] = "holding"])

Park(t, queue) ==
    /\ waiters' = queue
    /\ status' = [status EXCEPT ![t] = "parked"]
    /\ UNCHANGED <<available, held>>

\* Goes as soon as any permit is free.
MayGoAny(t, queue) == Head(queue).thread = t /\ available > 0

\* Head of line, and the whole demand can be met.
MayGo(t, queue) == Head(queue).thread = t /\ available >= Head(queue).n

\* Anyone whose demand fits the free permits goes ahead.
GrantOrParkBarging(t, queue) ==
    LET mine == SelectSeq(queue, LAMBDA w : w.thread = t)
        others == SelectSeq(queue, LAMBDA w : w.thread # t)
    IN  \/ available >= Head(mine).n /\ Grant(t, mine \o others)
        \/ available < Head(mine).n /\ Park(t, queue)

GrantOrPark(t, queue) ==
    \/ MayGo(t, queue) /\ Grant(t, queue)
    \/ ~MayGo(t, queue) /\ Park(t, queue)

\* acquire, acquire_n: queue up, then the first turn of the loop.
Acquire(t, n) ==
    /\ status[t] = "out"
    /\ GrantOrPark(t, Append(waiters, [thread |-> t, n |-> n]))

\* A further turn of the loop, after cv.wait returned.
Recheck(t) ==
    /\ status[t] = "woken"
    /\ GrantOrPark(t, waiters)

\* The guard drops, waking one waiter.
ReleaseNotifyOne(t) ==
    /\ status[t] = "holding"
    /\ available' = available + held[t]
    /\ held' = [held EXCEPT ![t] = 0]
    /\ LET parked == {u \in Threads : status[u] = "parked"}
       IN  \/ parked = {} /\ status' = [status EXCEPT ![t] = "out"]
           \/ \E u \in parked : status' = [status EXCEPT ![t] = "out", ![u] = "woken"]
    /\ UNCHANGED waiters

\* The permits of a guard are those of its first permit only.
ReleaseOnePermit(t) ==
    /\ status[t] = "holding"
    /\ available' = available + 1
    /\ held' = [held EXCEPT ![t] = 0]
    /\ status' = Notified([status EXCEPT ![t] = "out"])
    /\ UNCHANGED waiters

\* The guard drops.
Release(t) ==
    /\ status[t] = "holding"
    /\ available' = available + held[t]
    /\ held' = [held EXCEPT ![t] = 0]
    /\ status' = Notified([status EXCEPT ![t] = "out"])
    /\ UNCHANGED waiters

\* Condition variables may wake without a notification.
SpuriousWakeup(t) ==
    /\ status[t] = "parked"
    /\ status' = [status EXCEPT ![t] = "woken"]
    /\ UNCHANGED <<available, waiters, held>>

Next ==
    \E t \in Threads :
        \/ \E n \in Demands : Acquire(t, n)
        \/ Recheck(t)
        \/ Release(t)
        \/ SpuriousWakeup(t)

Spec == Init /\ [][Next]_budgetVars

\* A woken thread gets the mutex back some time, and the work done under a
\* permit ends some time.
BudgetFairness ==
    \A t \in Threads : WF_budgetVars(Recheck(t)) /\ WF_budgetVars(Release(t))

FairSpec == Spec /\ BudgetFairness

-----------------------------------------------------------------------------
(* Properties *)

Waiting == {t \in Threads : status[t] \in {"parked", "woken"}}

BudgetTypeOK ==
    /\ available \in Nat
    /\ waiters \in Seq(Waiter)
    /\ status \in [Threads -> {"out", "parked", "woken", "holding"}]
    /\ held \in [Threads -> Nat]

\* No permit is lost or made up, whatever acquires and guard drops interleave.
PermitsConserved == available + MapThenSumSet(LAMBDA t : held[t], Threads) = Permits

\* Exactly the threads inside acquire_inner are queued, each once.
QueueExact ==
    /\ {waiters[i].thread : i \in DOMAIN waiters} = Waiting
    /\ \A i, j \in DOMAIN waiters : waiters[i].thread = waiters[j].thread => i = j

\* The head of the queue never sleeps while its demand could be met: every
\* change that can make it eligible wakes it.
NoLostWakeup ==
    waiters # <<>> /\ available >= Head(waiters).n => status[Head(waiters).thread] = "woken"

\* Permits are granted in the order the calls queued up: who gets them had
\* nobody in front.
GrantedInOrder ==
    [][\A t \in Threads :
        status[t] # "holding" /\ status'[t] = "holding" =>
            waiters = <<>> \/ Head(waiters).thread = t]_budgetVars

\* Head-of-line blocking keeps a stream of small acquires from starving a
\* large one: every waiter is granted in the end.
EveryWaiterServed == \A t \in Threads : t \in Waiting ~> status[t] = "holding"
=============================================================================
