------------------------ MODULE CompactionScheduler ------------------------
(***************************************************************************)
(* The background compaction of one table: clients that ingest and then    *)
(* call notify_table, and a pool of worker threads that pop jobs, take a   *)
(* permit of the core budget, and compact.                                 *)
(*                                                                         *)
(* Two mutexes are involved, never both at once: the database's and the    *)
(* queue's.  A critical section of either is one action; what a thread     *)
(* carries from one to the next is in its local variables.                 *)
(*                                                                         *)
(* A bucket is a (window, shard) of the table.  Of the database only the   *)
(* number of segments of each bucket is kept, of time only whether a       *)
(* cooldown has run out.  Eligibility and priority by byte size are left   *)
(* out: jobs of equal count are popped in any order.                       *)
(***************************************************************************)
EXTENDS Integers, Sequences, FiniteSets

CONSTANTS
    Workers, Clients, Buckets,
    NoBucket,        \* no job
    Trigger,         \* l0_count_trigger
    Permits,         \* core_budget_permits
    UseCompactNow,   \* TRUE: clients also call Database::compact_now
    MaxIngests, MaxFailures  \* bounds of the model

ASSUME SchedulerAssumption ==
    /\ IsFiniteSet(Workers) /\ IsFiniteSet(Buckets)
    /\ NoBucket \notin Buckets
    /\ Trigger \in Nat \ {0}
    /\ Permits \in Nat
    /\ UseCompactNow \in BOOLEAN
    /\ MaxIngests \in Nat /\ MaxFailures \in Nat

VARIABLES
    (* the database *)
    l0, upper,            \* bucket -> level-0 segments, higher-level segments
    (* SchedulerQueue *)
    heap,                 \* set of [bucket, count]
    inFlight, cooldown, shutdown,
    (* the threads *)
    at,                   \* control point of a worker
    job,                  \* bucket a worker has popped
    client, found,        \* control point of a client; its eligible buckets
    (* the core budget *)
    available, waiters, status, held,
    (* how often, for the bounds *)
    ingests, failures

Budget == INSTANCE CoreBudget WITH Threads <- Workers, Demands <- {1}

database == <<l0, upper>>
queue == <<heap, inFlight, cooldown, shutdown>>
threads == <<at, job, client, found>>
budget == <<available, waiters, status, held>>
bounds == <<ingests, failures>>
vars == <<database, queue, threads, budget, bounds>>

QueuedJob == [bucket : Buckets, count : Nat]

Init ==
    /\ l0 = [b \in Buckets |-> 0] /\ upper = [b \in Buckets |-> 0]
    /\ heap = {} /\ inFlight = {} /\ cooldown = {} /\ shutdown = FALSE
    /\ at = [w \in Workers |-> "pop"] /\ job = [w \in Workers |-> NoBucket]
    /\ client = [c \in Clients |-> "idle"] /\ found = [c \in Clients |-> {}]
    /\ Budget!Init
    /\ ingests = 0 /\ failures = 0

-----------------------------------------------------------------------------
(* Clients *)

\* An ingest of one segment; the client then notifies the scheduler.
Ingest(c, b) ==
    /\ client[c] = "idle" /\ ingests < MaxIngests
    /\ l0' = [l0 EXCEPT ![b] = @ + 1]
    /\ ingests' = ingests + 1
    /\ client' = [client EXCEPT ![c] = "ingested"]
    /\ UNCHANGED <<upper, queue, at, job, found, budget, failures>>

Eligible(b) == l0[b] >= 2 /\ l0[b] > Trigger

\* Merges the level-0 segments only, next to the outputs of earlier runs.
CompactedBeside(B, kept) ==
    /\ l0' = [b \in Buckets |-> IF b \in B THEN 0 ELSE l0[b]]
    /\ upper' = [b \in Buckets |-> IF b \in kept THEN upper[b] + 1 ELSE upper[b]]

\* The output of a compaction, none when every row was tombstoned.
Compacted(B, kept) ==
    /\ l0' = [b \in Buckets |-> IF b \in B THEN 0 ELSE l0[b]]
    /\ upper' = [b \in Buckets |-> IF b \notin B THEN upper[b]
                                   ELSE IF b \in kept THEN 1 ELSE 0]

\* run_compact_now, past the scheduler: every eligible bucket in turn.
CompactNow(c) ==
    /\ UseCompactNow /\ client[c] = "idle"
    /\ LET B == {b \in Buckets : Eligible(b)}
       IN  B # {} /\ \E kept \in SUBSET B : Compacted(B, kept)
    /\ UNCHANGED <<queue, threads, budget, bounds>>

\* notify_table, under the database mutex; after an ingest or once more without.
NotifyScan(c) ==
    /\ client[c] \in {"idle", "ingested"} /\ ~shutdown
    /\ found' = [found EXCEPT ![c] =
                    {[bucket |-> b, count |-> l0[b]] : b \in {b \in Buckets : Eligible(b)}}]
    /\ client' = [client EXCEPT ![c] = "scanned"]
    /\ UNCHANGED <<database, queue, at, job, budget, bounds>>

Asleep == {w \in Workers : at[w] = "asleep"}

\* `n` calls of notify_one: that many sleepers wake, as far as there are any.
Wake(n) ==
    \E W \in SUBSET Asleep :
        /\ Cardinality(W) = IF n < Cardinality(Asleep) THEN n ELSE Cardinality(Asleep)
        /\ at' = [w \in Workers |-> IF w \in W THEN "pop" ELSE at[w]]

\* Without the check of in_flight.
EnqueueAnyway(c) ==
    LET new == {j \in found[c] : j.bucket \notin cooldown}
    IN  /\ heap' = heap \cup new
        /\ inFlight' = inFlight \cup {j.bucket : j \in new}
        /\ Wake(Cardinality(new))

\* One notification for the whole batch.
EnqueueWakeOne(c) ==
    LET new == {j \in found[c] : j.bucket \notin inFlight \cup cooldown}
    IN  /\ heap' = heap \cup new
        /\ inFlight' = inFlight \cup {j.bucket : j \in new}
        /\ Wake(IF new = {} THEN 0 ELSE 1)

\* The loop over the eligible buckets: one push and one notify_one for each
\* that is neither in flight nor cooling down.
Enqueue(c) ==
    LET new == {j \in found[c] : j.bucket \notin inFlight \cup cooldown}
    IN  /\ heap' = heap \cup new
        /\ inFlight' = inFlight \cup {j.bucket : j \in new}
        /\ Wake(Cardinality(new))

\* notify_table, under the queue mutex.
NotifyEnqueue(c) ==
    /\ client[c] = "scanned"
    /\ Enqueue(c)
    /\ client' = [client EXCEPT ![c] = "idle"]
    /\ found' = [found EXCEPT ![c] = {}]
    /\ UNCHANGED <<database, cooldown, shutdown, job, budget, bounds>>

\* Sets the flag and wakes one worker.
ShutdownNotifyOne ==
    /\ ~shutdown /\ \A c \in Clients : client[c] # "scanned"
    /\ shutdown' = TRUE
    /\ Wake(1)
    /\ UNCHANGED <<database, heap, inFlight, cooldown, job, client, found, budget, bounds>>

\* shutdown consumes the scheduler, so no notify_table is under way.
Shutdown ==
    /\ ~shutdown /\ \A c \in Clients : client[c] # "scanned"
    /\ shutdown' = TRUE
    /\ Wake(Cardinality(Workers))
    /\ UNCHANGED <<database, heap, inFlight, cooldown, job, client, found, budget, bounds>>

\* A cooldown that only a successful compaction ends.
CooldownEndsOnSuccess(b) ==
    /\ b \in cooldown /\ ~Eligible(b)
    /\ cooldown' = cooldown \ {b}
    /\ UNCHANGED <<database, heap, inFlight, shutdown, threads, budget, bounds>>

\* retry_cooldown runs out.
CooldownOver(b) ==
    /\ b \in cooldown
    /\ cooldown' = cooldown \ {b}
    /\ UNCHANGED <<database, heap, inFlight, shutdown, threads, budget, bounds>>

-----------------------------------------------------------------------------
(* Workers *)

Stepped(w, to) == at' = [at EXCEPT ![w] = to]

Exit(w) ==
    /\ at[w] = "pop" /\ shutdown
    /\ Stepped(w, "exited")
    /\ UNCHANGED <<database, queue, job, client, found, budget, bounds>>

Sleep(w) ==
    /\ at[w] = "pop" /\ ~shutdown /\ heap = {}
    /\ Stepped(w, "asleep")
    /\ UNCHANGED <<database, queue, job, client, found, budget, bounds>>

\* Either condition variable may wake without a notification.
SpuriousWakeup(w) ==
    \/ /\ at[w] = "asleep"
       /\ Stepped(w, "pop")
       /\ UNCHANGED <<database, queue, job, client, found, budget, bounds>>
    \/ /\ Budget!SpuriousWakeup(w)
       /\ UNCHANGED <<database, queue, threads, bounds>>

\* The job with the most level-0 segments, as counted when it was queued.
Pop(w) ==
    /\ at[w] = "pop" /\ ~shutdown
    /\ \E j \in heap :
          /\ \A k \in heap : k.count <= j.count
          /\ heap' = heap \ {j}
          /\ job' = [job EXCEPT ![w] = j.bucket]
    /\ Stepped(w, "permit")
    /\ UNCHANGED <<database, inFlight, cooldown, shutdown, client, found, budget, bounds>>

\* budget.acquire(), which may take several turns.
AcquirePermit(w) ==
    /\ at[w] = "permit"
    /\ Budget!Acquire(w, 1) \/ Budget!Recheck(w)
    /\ UNCHANGED <<database, queue, threads, bounds>>

\* compact_one under the database mutex.
CompactOne(w) ==
    /\ at[w] = "permit" /\ status[w] = "holding"
    /\ l0[job[w]] + upper[job[w]] >= 2
    /\ \E kept \in SUBSET {job[w]} : Compacted({job[w]}, kept)
    /\ Stepped(w, "ok")
    /\ UNCHANGED <<queue, job, client, found, budget, bounds>>

\* compact_one refuses a bucket of fewer than two segments.
CompactTooFew(w) ==
    /\ at[w] = "permit" /\ status[w] = "holding"
    /\ l0[job[w]] + upper[job[w]] < 2
    /\ Stepped(w, "error")
    /\ UNCHANGED <<database, queue, job, client, found, budget, bounds>>

\* Reading, writing or publishing fails.
CompactFails(w) ==
    /\ at[w] = "permit" /\ status[w] = "holding"
    /\ l0[job[w]] + upper[job[w]] >= 2
    /\ failures < MaxFailures
    /\ failures' = failures + 1
    /\ Stepped(w, "error")
    /\ UNCHANGED <<database, queue, job, client, found, budget, ingests>>

\* Bookkeeping under the queue mutex, after success ...
Done(w) ==
    /\ at[w] = "ok"
    /\ inFlight' = inFlight \ {job[w]}
    /\ Stepped(w, "release")
    /\ job' = [job EXCEPT ![w] = NoBucket]
    /\ UNCHANGED <<database, heap, cooldown, shutdown, client, found, budget, bounds>>

\* Leaves the bucket in flight during its cooldown.
FailedStaysInFlight(w) ==
    /\ at[w] = "error"
    /\ cooldown' = cooldown \cup {job[w]}
    /\ Stepped(w, "release")
    /\ job' = [job EXCEPT ![w] = NoBucket]
    /\ UNCHANGED <<database, heap, inFlight, shutdown, client, found, budget, bounds>>

\* ... and after an error.
Failed(w) ==
    /\ at[w] = "error"
    /\ inFlight' = inFlight \ {job[w]}
    /\ cooldown' = cooldown \cup {job[w]}
    /\ Stepped(w, "release")
    /\ job' = [job EXCEPT ![w] = NoBucket]
    /\ UNCHANGED <<database, heap, shutdown, client, found, budget, bounds>>

\* The permit drops at the end of the loop body.
ReleasePermit(w) ==
    /\ at[w] = "release"
    /\ Budget!Release(w)
    /\ Stepped(w, "pop")
    /\ UNCHANGED <<database, queue, job, client, found, bounds>>

-----------------------------------------------------------------------------

Worker(w) ==
    \/ Exit(w) \/ Sleep(w) \/ Pop(w) \/ AcquirePermit(w)
    \/ CompactOne(w) \/ CompactTooFew(w) \/ CompactFails(w)
    \/ Done(w) \/ Failed(w) \/ ReleasePermit(w)

Client(c) ==
    \/ \E b \in Buckets : Ingest(c, b)
    \/ CompactNow(c) \/ NotifyScan(c) \/ NotifyEnqueue(c)

Next ==
    \/ \E w \in Workers : Worker(w) \/ SpuriousWakeup(w)
    \/ \E c \in Clients : Client(c)
    \/ \E b \in Buckets : CooldownOver(b)
    \/ Shutdown

\* Every worker keeps running, a client that has ingested notifies, a call of
\* notify_table completes, and time passes.
Fairness ==
    /\ \A w \in Workers : WF_vars(Worker(w))
    /\ \A c \in Clients :
          WF_vars((client[c] = "ingested" /\ NotifyScan(c)) \/ NotifyEnqueue(c))
    /\ \A b \in Buckets : WF_vars(CooldownOver(b))

Spec == Init /\ [][Next]_vars /\ Fairness

-----------------------------------------------------------------------------
(* Properties *)

Carrying == {w \in Workers : job[w] # NoBucket}

SchedulerTypeOK ==
    /\ l0 \in [Buckets -> Nat] /\ upper \in [Buckets -> {0, 1}]
    /\ heap \subseteq QueuedJob
    /\ inFlight \subseteq Buckets /\ cooldown \subseteq Buckets
    /\ shutdown \in BOOLEAN
    /\ at \in [Workers -> {"pop", "asleep", "permit", "ok", "error", "release", "exited"}]
    /\ job \in [Workers -> Buckets \cup {NoBucket}]
    /\ client \in [Clients -> {"idle", "ingested", "scanned"}]
    /\ found \in [Clients -> SUBSET QueuedJob]
    /\ Budget!BudgetTypeOK

\* in_flight is exactly the buckets in the heap or on a worker, and each of
\* them is there once: no bucket is compacted by two workers or queued twice,
\* and none stays marked with nobody working on it.
InFlightExact ==
    /\ inFlight = {j.bucket : j \in heap} \cup {job[w] : w \in Carrying}
    /\ \A j, k \in heap : j.bucket = k.bucket => j = k
    /\ \A w \in Carrying : \A j \in heap : j.bucket # job[w]
    /\ \A v, w \in Carrying : job[v] = job[w] => v = w

\* While a worker sleeps, every queued job has another worker on its way to
\* the queue: notify_one per push suffices, no job waits for one that sleeps.
NoJobSleptThrough ==
    Asleep # {} /\ ~shutdown =>
        Cardinality(heap) <= Cardinality({w \in Workers : at[w] = "pop"})

\* A bucket that was queued is worked off, as long as no shutdown comes first.
JobsRun == \A b \in Buckets : b \in inFlight ~> b \notin inFlight \/ shutdown

\* After shutdown every worker finishes what it had popped and exits, with
\* its permit returned.
ShutdownTerminates ==
    shutdown ~> (\A w \in Workers : at[w] = "exited") /\ available = Permits

\* Some notification has found bucket b eligible.
Noticed(b) == \E c \in Clients : \E j \in found[c] : j.bucket = b

\* A failure puts a retry off, not out: a bucket that notifications keep finding
\* eligible does not stay so, whatever failed in between and however the calls
\* fall into its cooldown or into a running job.
RetriedWhenNotified ==
    \A b \in Buckets : []<>Noticed(b) => []<>(~Eligible(b)) \/ <>shutdown

\* Re-evaluation on completion, as compaction-concurrency.md has it: a bucket
\* that is eligible does not stay so for good.
EligibleGetsCompacted ==
    \A b \in Buckets : Eligible(b) ~> ~Eligible(b) \/ shutdown

\* The cooldown is for failing jobs: none starts without a failure.
CooldownOnlyAfterFailure == cooldown # {} => failures > 0
=============================================================================
