--------------------- MODULE CompactionSchedulerProofs ---------------------
(***************************************************************************)
(* For any pool, any clients and any buckets: in_flight is exact, so no    *)
(* bucket is ever compacted by two workers or left marked with no job, and *)
(* no queued job waits for a worker that sleeps.                           *)
(* What the core budget guarantees is used as CoreBudgetProofs proves it.  *)
(***************************************************************************)
EXTENDS CompactionScheduler, Functions, FiniteSetTheorems, TLAPS

BudgetFacts == INSTANCE CoreBudgetProofs WITH Threads <- Workers, Demands <- {1}

\* A worker has a job exactly between popping it and the bookkeeping.
JobsAtWork ==
    \A w \in Workers : job[w] # NoBucket <=> at[w] \in {"permit", "ok", "error"}

\* A client's list names a bucket once.
FoundOnce == \A c \in Clients : \A j, k \in found[c] : j.bucket = k.bucket => j = k

DataTypeOK ==
    /\ l0 \in [Buckets -> Nat] /\ upper \in [Buckets -> {0, 1}]
    /\ heap \subseteq QueuedJob
    /\ inFlight \subseteq Buckets /\ cooldown \subseteq Buckets
    /\ shutdown \in BOOLEAN
    /\ at \in [Workers -> {"pop", "asleep", "permit", "ok", "error", "release", "exited"}]
    /\ job \in [Workers -> Buckets \cup {NoBucket}]
    /\ client \in [Clients -> {"idle", "ingested", "scanned"}]
    /\ found \in [Clients -> SUBSET QueuedJob]

\* InFlightExact is inductive only with the control points of the workers
\* and with every client's list free of duplicates.
SchedulerInv == DataTypeOK /\ JobsAtWork /\ FoundOnce /\ InFlightExact

\* One permit per job is a demand the budget can meet.
LEMMA BudgetAssumptionHolds == BudgetFacts!BudgetAssumption
  BY SchedulerAssumption DEF BudgetFacts!BudgetAssumption

\* The budget's steps as the scheduler and as the proof name them.
LEMMA SameBudget ==
    ASSUME NEW w \in Workers
    PROVE  /\ Budget!Acquire(w, 1) <=> BudgetFacts!Acquire(w, 1)
           /\ Budget!Recheck(w) <=> BudgetFacts!Recheck(w)
           /\ Budget!Release(w) <=> BudgetFacts!Release(w)
           /\ Budget!SpuriousWakeup(w) <=> BudgetFacts!SpuriousWakeup(w)
  BY DEF Budget!Acquire, BudgetFacts!Acquire, Budget!Recheck, BudgetFacts!Recheck,
     Budget!Release, BudgetFacts!Release, Budget!SpuriousWakeup, BudgetFacts!SpuriousWakeup,
     Budget!GrantOrPark, BudgetFacts!GrantOrPark, Budget!MayGo, BudgetFacts!MayGo,
     Budget!Grant, BudgetFacts!Grant, Budget!Park, BudgetFacts!Park,
     Budget!Notified, BudgetFacts!Notified

\* Every step of the scheduler is a step of the budget, or none.
LEMMA StepsOfBudget ==
    ASSUME [Next]_vars PROVE [BudgetFacts!Next]_(BudgetFacts!budgetVars)
  <1> USE DEF BudgetFacts!budgetVars
  <1>1. ASSUME NEW w \in Workers, Budget!Acquire(w, 1) \/ Budget!Recheck(w) \/ Budget!Release(w)
                                  \/ Budget!SpuriousWakeup(w)
        PROVE  BudgetFacts!Next
    BY <1>1, SameBudget DEF BudgetFacts!Next
  <1>2. ASSUME NEW w \in Workers, Worker(w) \/ SpuriousWakeup(w)
        PROVE  BudgetFacts!Next \/ UNCHANGED budget
    <2>1. CASE AcquirePermit(w) \/ ReleasePermit(w) \/ SpuriousWakeup(w)
      BY <1>1, <2>1 DEF AcquirePermit, ReleasePermit, SpuriousWakeup
    <2>2. CASE Exit(w) \/ Sleep(w) \/ Pop(w) \/ CompactOne(w) \/ CompactTooFew(w)
               \/ CompactFails(w) \/ Done(w) \/ Failed(w)
      BY <2>2 DEF Exit, Sleep, Pop, CompactOne, CompactTooFew, CompactFails, Done, Failed
    <2> QED BY <1>2, <2>1, <2>2 DEF Worker
  <1>3. ASSUME NEW c \in Clients, Client(c) PROVE UNCHANGED budget
    BY <1>3 DEF Client, Ingest, CompactNow, NotifyScan, NotifyEnqueue
  <1>4. ASSUME (\E b \in Buckets : CooldownOver(b)) \/ Shutdown PROVE UNCHANGED budget
    BY <1>4 DEF CooldownOver, Shutdown
  <1>5. CASE UNCHANGED vars
    BY <1>5 DEF vars, budget
  <1> QED BY <1>2, <1>3, <1>4, <1>5 DEF Next, budget

\* Workers use the core budget through its own operations only, so what is proved
\* of it holds inside the scheduler.
THEOREM BudgetOfScheduler == Spec => []BudgetFacts!BudgetInv
  <1>1. Init => BudgetFacts!BudgetInv
    <2>1. Init => BudgetFacts!Init
      BY DEF Init, Budget!Init, BudgetFacts!Init
    <2> QED BY <2>1, BudgetFacts!BudgetInitially, BudgetAssumptionHolds
  <1>2. BudgetFacts!BudgetInv /\ [Next]_vars => BudgetFacts!BudgetInv'
    BY StepsOfBudget, BudgetFacts!BudgetInductive, BudgetAssumptionHolds
  <1> QED BY <1>1, <1>2, PTL DEF Spec

-----------------------------------------------------------------------------
(* in_flight *)

\* Waking sleepers moves them to a point where they have no job.
LEMMA WakeKeepsJobs ==
    ASSUME DataTypeOK, JobsAtWork, NEW n, Wake(n), UNCHANGED job
    PROVE  /\ at' \in [Workers -> {"pop", "asleep", "permit", "ok", "error", "release", "exited"}]
           /\ JobsAtWork'
  <1>1. PICK W \in SUBSET Asleep : at' = [w \in Workers |-> IF w \in W THEN "pop" ELSE at[w]]
    BY DEF Wake
  <1> QED BY <1>1 DEF DataTypeOK, JobsAtWork, Asleep

\* Pushing the eligible buckets that are not in flight.
LEMMA NotifyKeeps ==
    ASSUME SchedulerInv, NEW c \in Clients, NotifyEnqueue(c) PROVE SchedulerInv'
  <1> DEFINE new == {j \in found[c] : j.bucket \notin inFlight \cup cooldown}
  <1>1. /\ heap' = heap \cup new
        /\ inFlight' = inFlight \cup {j.bucket : j \in new}
        /\ Wake(Cardinality(new))
        /\ client' = [client EXCEPT ![c] = "idle"]
        /\ found' = [found EXCEPT ![c] = {}]
        /\ UNCHANGED <<l0, upper, cooldown, shutdown, job>>
    BY DEF NotifyEnqueue, Enqueue, database
  <1>2. new \subseteq QueuedJob /\ \A j \in new : j.bucket \in Buckets /\ j.bucket \notin inFlight
    BY DEF SchedulerInv, DataTypeOK, QueuedJob
  <1>3. \A j, k \in new : j.bucket = k.bucket => j = k
    BY DEF SchedulerInv, FoundOnce
  <1> HIDE DEF new
  <1>4. /\ at' \in [Workers -> {"pop", "asleep", "permit", "ok", "error", "release", "exited"}]
        /\ JobsAtWork'
    BY <1>1, WakeKeepsJobs DEF SchedulerInv
  <1>5. DataTypeOK'
    BY <1>1, <1>2, <1>4 DEF SchedulerInv, DataTypeOK
  <1>6. FoundOnce'
    BY <1>1 DEF SchedulerInv, FoundOnce, DataTypeOK
  <1>7. InFlightExact'
    <2>1. Carrying' = Carrying /\ \A w \in Workers : job'[w] = job[w]
      BY <1>1 DEF Carrying
    <2>2. inFlight = {j.bucket : j \in heap} \cup {job[w] : w \in Carrying}
      BY DEF SchedulerInv, InFlightExact
    <2>3. inFlight' = {j.bucket : j \in heap'} \cup {job'[w] : w \in Carrying'}
      BY <1>1, <2>1, <2>2
    <2>4. \A j, k \in heap' : j.bucket = k.bucket => j = k
      BY <1>1, <1>2, <1>3, <2>2 DEF SchedulerInv, InFlightExact
    <2>5. \A w \in Carrying' : \A j \in heap' : j.bucket # job'[w]
      BY <1>1, <1>2, <2>1, <2>2 DEF SchedulerInv, InFlightExact
    <2>6. \A v, w \in Carrying' : job'[v] = job'[w] => v = w
      BY <1>1, <2>1 DEF SchedulerInv, InFlightExact
    <2> QED BY <2>3, <2>4, <2>5, <2>6 DEF InFlightExact
  <1> QED BY <1>4, <1>5, <1>6, <1>7 DEF SchedulerInv

\* A worker takes a job off the heap: its bucket moves, and stays in flight.
LEMMA PopKeeps ==
    ASSUME SchedulerInv, SchedulerAssumption, NEW w \in Workers, Pop(w) PROVE SchedulerInv'
  <1>1. PICK j \in heap : heap' = heap \ {j} /\ job' = [job EXCEPT ![w] = j.bucket]
    BY DEF Pop
  <1>2. j.bucket \in Buckets /\ j.bucket # NoBucket
    BY SchedulerAssumption DEF SchedulerInv, DataTypeOK, QueuedJob
  <1>3. /\ at' = [at EXCEPT ![w] = "permit"]
        /\ at[w] = "pop" /\ job[w] = NoBucket
        /\ UNCHANGED <<l0, upper, inFlight, cooldown, shutdown, client, found>>
    BY DEF Pop, Stepped, database, SchedulerInv, JobsAtWork
  <1>4. \A v \in Workers : job'[v] = IF v = w THEN j.bucket ELSE job[v]
    BY <1>1 DEF SchedulerInv, DataTypeOK
  <1>5. DataTypeOK'
    BY <1>1, <1>2, <1>3 DEF SchedulerInv, DataTypeOK
  <1>6. JobsAtWork'
    BY <1>2, <1>3, <1>4 DEF SchedulerInv, JobsAtWork, DataTypeOK
  <1>7. FoundOnce'
    BY <1>3 DEF SchedulerInv, FoundOnce
  <1>8. InFlightExact'
    <2>1. Carrying' = Carrying \cup {w} /\ w \notin Carrying
      BY <1>2, <1>3, <1>4 DEF Carrying
    <2>2. {k.bucket : k \in heap} = {k.bucket : k \in heap'} \cup {j.bucket}
      BY <1>1
    <2>3. {job'[v] : v \in Carrying'} = {job[v] : v \in Carrying} \cup {j.bucket}
      BY <1>4, <2>1 DEF Carrying
    <2>4. inFlight' = {k.bucket : k \in heap'} \cup {job'[v] : v \in Carrying'}
      BY <1>3, <2>2, <2>3 DEF SchedulerInv, InFlightExact
    <2>5. \A k, l \in heap' : k.bucket = l.bucket => k = l
      BY <1>1 DEF SchedulerInv, InFlightExact
    <2>6. \A v \in Carrying' : \A k \in heap' : k.bucket # job'[v]
      BY <1>1, <1>4, <2>1 DEF SchedulerInv, InFlightExact, Carrying
    <2>7. \A u, v \in Carrying' : job'[u] = job'[v] => u = v
      BY <1>1, <1>4, <2>1 DEF SchedulerInv, InFlightExact, Carrying
    <2> QED BY <2>4, <2>5, <2>6, <2>7 DEF InFlightExact
  <1> QED BY <1>5, <1>6, <1>7, <1>8 DEF SchedulerInv

\* The bookkeeping after a job takes its bucket out of in_flight: nothing else
\* works on it.
LEMMA BookkeepingKeeps ==
    ASSUME SchedulerInv, NEW w \in Workers, Done(w) \/ Failed(w) PROVE SchedulerInv'
  <1>1. /\ inFlight' = inFlight \ {job[w]}
        /\ at' = [at EXCEPT ![w] = "release"]
        /\ job' = [job EXCEPT ![w] = NoBucket]
        /\ cooldown' \subseteq cooldown \cup {job[w]}
        /\ at[w] \in {"ok", "error"}
        /\ UNCHANGED <<l0, upper, heap, shutdown, client, found>>
    BY DEF Done, Failed, Stepped, database
  <1>2. job[w] \in Buckets /\ w \in Carrying
    BY <1>1 DEF SchedulerInv, DataTypeOK, JobsAtWork, Carrying
  <1>3. \A v \in Workers : job'[v] = IF v = w THEN NoBucket ELSE job[v]
    BY <1>1 DEF SchedulerInv, DataTypeOK
  <1>4. DataTypeOK'
    BY <1>1, <1>2 DEF SchedulerInv, DataTypeOK
  <1>5. JobsAtWork'
    BY <1>1, <1>3 DEF SchedulerInv, JobsAtWork, DataTypeOK
  <1>6. FoundOnce'
    BY <1>1 DEF SchedulerInv, FoundOnce
  <1>7. InFlightExact'
    <2>1. Carrying' = Carrying \ {w}
      BY <1>3 DEF Carrying
    <2>2. {job'[v] : v \in Carrying'} = {job[v] : v \in Carrying} \ {job[w]}
      BY <1>2, <1>3, <2>1 DEF SchedulerInv, InFlightExact, Carrying
    <2>3. job[w] \notin {j.bucket : j \in heap}
      BY <1>2 DEF SchedulerInv, InFlightExact
    <2>4. inFlight' = {j.bucket : j \in heap'} \cup {job'[v] : v \in Carrying'}
      BY <1>1, <2>2, <2>3 DEF SchedulerInv, InFlightExact
    <2>5. \A v \in Carrying' : v \in Carrying /\ job'[v] = job[v]
      BY <1>3, <2>1 DEF Carrying
    <2> QED BY <1>1, <2>4, <2>5 DEF SchedulerInv, InFlightExact
  <1> QED BY <1>4, <1>5, <1>6, <1>7 DEF SchedulerInv

\* A worker moves on with the job it has, or with none as before.
LEMMA MoveKeeps ==
    ASSUME SchedulerInv, NEW w \in Workers, NEW to \in {"pop", "asleep", "permit", "ok", "error", "release", "exited"},
           Stepped(w, to), at[w] \in {"permit", "ok", "error"} <=> to \in {"permit", "ok", "error"},
           l0' \in [Buckets -> Nat], upper' \in [Buckets -> {0, 1}],
           UNCHANGED <<heap, inFlight, cooldown, shutdown, job, client, found>>
    PROVE  SchedulerInv'
  <1>1. DataTypeOK'
    BY DEF SchedulerInv, DataTypeOK, Stepped
  <1>2. JobsAtWork'
    BY DEF SchedulerInv, JobsAtWork, DataTypeOK, Stepped
  <1>3. FoundOnce'
    BY DEF SchedulerInv, FoundOnce
  <1>4. InFlightExact'
    BY DEF SchedulerInv, InFlightExact, Carrying
  <1> QED BY <1>1, <1>2, <1>3, <1>4 DEF SchedulerInv

\* Every step of a worker keeps in_flight exact.
LEMMA WorkerKeeps ==
    ASSUME SchedulerInv, SchedulerAssumption, NEW w \in Workers, Worker(w) \/ SpuriousWakeup(w)
    PROVE  SchedulerInv'
  <1>1. l0 \in [Buckets -> Nat] /\ upper \in [Buckets -> {0, 1}]
    BY DEF SchedulerInv, DataTypeOK
  <1>2. CASE Exit(w)
    BY <1>1, <1>2, MoveKeeps DEF Exit, database, queue
  <1>3. CASE Sleep(w)
    BY <1>1, <1>3, MoveKeeps DEF Sleep, database, queue
  <1>4. CASE Pop(w)
    BY <1>4, PopKeeps
  <1>5. CASE AcquirePermit(w)
    BY <1>5 DEF AcquirePermit, database, queue, threads,
       SchedulerInv, DataTypeOK, JobsAtWork, FoundOnce, InFlightExact, Carrying
  <1>6. CASE CompactOne(w)
    <2>1. l0' \in [Buckets -> Nat] /\ upper' \in [Buckets -> {0, 1}]
      BY <1>1, <1>6 DEF CompactOne, Compacted
    <2> QED BY <2>1, <1>6, MoveKeeps DEF CompactOne, queue
  <1>7. CASE CompactTooFew(w)
    BY <1>1, <1>7, MoveKeeps DEF CompactTooFew, database, queue
  <1>8. CASE CompactFails(w)
    BY <1>1, <1>8, MoveKeeps DEF CompactFails, database, queue
  <1>9. CASE Done(w) \/ Failed(w)
    BY <1>9, BookkeepingKeeps
  <1>10. CASE ReleasePermit(w)
    BY <1>1, <1>10, MoveKeeps DEF ReleasePermit, database, queue
  <1>11. CASE SpuriousWakeup(w)
    <2>1. CASE at[w] = "asleep" /\ Stepped(w, "pop") /\ UNCHANGED <<database, queue, job, client, found, budget, bounds>>
      BY <1>1, <2>1, MoveKeeps DEF database, queue
    <2>2. CASE UNCHANGED <<database, queue, threads, bounds>>
      BY <2>2 DEF database, queue, threads,
         SchedulerInv, DataTypeOK, JobsAtWork, FoundOnce, InFlightExact, Carrying
    <2> QED BY <1>11, <2>1, <2>2 DEF SpuriousWakeup
  <1> QED BY <1>2, <1>3, <1>4, <1>5, <1>6, <1>7, <1>8, <1>9, <1>10, <1>11 DEF Worker

\* Every step of a client keeps in_flight exact.
LEMMA ClientKeeps ==
    ASSUME SchedulerInv, NEW c \in Clients, Client(c) PROVE SchedulerInv'
  <1> USE DEF database, queue, SchedulerInv
  <1>1. ASSUME UNCHANGED <<heap, inFlight, job>>
        PROVE  InFlightExact'
    BY <1>1 DEF InFlightExact, Carrying
  <1>2. ASSUME NEW b \in Buckets, Ingest(c, b) PROVE SchedulerInv'
    BY <1>1, <1>2 DEF Ingest, DataTypeOK, JobsAtWork, FoundOnce
  <1>3. CASE CompactNow(c)
    <2>1. l0' \in [Buckets -> Nat] /\ upper' \in [Buckets -> {0, 1}]
      BY <1>3 DEF CompactNow, Compacted, DataTypeOK
    <2> QED BY <1>1, <1>3, <2>1 DEF CompactNow, threads, DataTypeOK, JobsAtWork, FoundOnce
  <1>4. CASE NotifyScan(c)
    <2> DEFINE jobs == {[bucket |-> b, count |-> l0[b]] : b \in {b \in Buckets : Eligible(b)}}
    <2>1. jobs \in SUBSET QueuedJob /\ \A j, k \in jobs : j.bucket = k.bucket => j = k
      BY DEF DataTypeOK, QueuedJob
    <2>2. found' = [found EXCEPT ![c] = jobs]
      BY <1>4 DEF NotifyScan
    <2> HIDE DEF jobs
    <2>3. FoundOnce'
      BY <2>1, <2>2 DEF FoundOnce, DataTypeOK
    <2>4. DataTypeOK'
      BY <1>4, <2>1, <2>2 DEF NotifyScan, DataTypeOK
    <2> QED BY <1>1, <1>4, <2>3, <2>4 DEF NotifyScan, JobsAtWork
  <1>5. CASE NotifyEnqueue(c)
    BY <1>5, NotifyKeeps
  <1> QED BY <1>2, <1>3, <1>4, <1>5 DEF Client

\* The invariant of the scheduler is inductive.
THEOREM SchedulerInductive == SchedulerInv /\ [Next]_vars => SchedulerInv'
  <1> SUFFICES ASSUME SchedulerInv, [Next]_vars PROVE SchedulerInv'
    OBVIOUS
  <1>1. ASSUME NEW w \in Workers, Worker(w) \/ SpuriousWakeup(w) PROVE SchedulerInv'
    BY <1>1, WorkerKeeps, SchedulerAssumption
  <1>2. ASSUME NEW c \in Clients, Client(c) PROVE SchedulerInv'
    BY <1>2, ClientKeeps
  <1>3. ASSUME NEW b \in Buckets, CooldownOver(b) PROVE SchedulerInv'
    BY <1>3 DEF CooldownOver, database, threads,
       SchedulerInv, DataTypeOK, JobsAtWork, FoundOnce, InFlightExact, Carrying
  <1>4. CASE Shutdown
    <2>1. /\ at' \in [Workers -> {"pop", "asleep", "permit", "ok", "error", "release", "exited"}]
          /\ JobsAtWork'
      BY <1>4, WakeKeepsJobs DEF SchedulerInv, Shutdown
    <2> QED BY <1>4, <2>1 DEF Shutdown, database,
           SchedulerInv, DataTypeOK, FoundOnce, InFlightExact, Carrying
  <1>5. CASE UNCHANGED vars
    BY <1>5 DEF vars, database, queue, threads,
       SchedulerInv, DataTypeOK, JobsAtWork, FoundOnce, InFlightExact, Carrying
  <1> QED BY <1>1, <1>2, <1>3, <1>4, <1>5 DEF Next

\* It holds of every reachable state, for all parameters of SchedulerAssumption.
THEOREM SchedulerInvariant == Spec => []SchedulerInv
  <1>1. Init => SchedulerInv
    <2> SUFFICES ASSUME Init PROVE SchedulerInv
      OBVIOUS
    <2>1. Carrying = {} /\ \A w \in Workers : job[w] = NoBucket /\ at[w] = "pop"
      BY DEF Init, Carrying
    <2> QED BY <2>1 DEF Init, SchedulerInv, DataTypeOK, JobsAtWork, FoundOnce, InFlightExact
  <1> QED BY <1>1, SchedulerInductive, PTL DEF Spec

\* in_flight is exactly the buckets queued or on a worker, each once.
THEOREM InFlightIsExact == Spec => []InFlightExact
  <1>1. SchedulerInv => InFlightExact
    BY DEF SchedulerInv
  <1> QED BY <1>1, SchedulerInvariant, PTL

\* The database, queue, thread and budget variables keep their types.
THEOREM SchedulerTypeCorrect == Spec => []SchedulerTypeOK
  <1>1. SchedulerInv /\ BudgetFacts!BudgetInv => SchedulerTypeOK
    BY DEF SchedulerInv, DataTypeOK, SchedulerTypeOK, BudgetFacts!BudgetInv,
       BudgetFacts!BudgetTypeOK, Budget!BudgetTypeOK, BudgetFacts!Waiter, Budget!Waiter
  <1> QED BY <1>1, SchedulerInvariant, BudgetOfScheduler, PTL

-----------------------------------------------------------------------------
(* Wake-ups *)

\* The workers on their way to the queue.
Popping == {w \in Workers : at[w] = "pop"}

\* Jobs of different buckets are finitely many.
LEMMA JobsFinite ==
    ASSUME SchedulerAssumption, NEW S \in SUBSET QueuedJob,
           \A j, k \in S : j.bucket = k.bucket => j = k
    PROVE  IsFiniteSet(S)
  <1> DEFINE f == [j \in S |-> j.bucket]
  <1>1. f \in Injection(S, Buckets)
    BY DEF Injection, IsInjective, QueuedJob
  <1> QED BY <1>1, FS_Injection DEF SchedulerAssumption

\* The heap holds at most one job for each bucket.
LEMMA HeapFinite ==
    ASSUME SchedulerAssumption, SchedulerInv
    PROVE  IsFiniteSet(heap) /\ Cardinality(heap) \in Nat
  <1>1. IsFiniteSet(heap)
    BY JobsFinite DEF SchedulerInv, DataTypeOK, InFlightExact
  <1> QED BY <1>1, FS_CardinalityType

\* Sets of workers are finite, and larger ones have more members.
LEMMA WorkersFinite ==
    ASSUME SchedulerAssumption, NEW V \in SUBSET Workers, NEW W \in SUBSET V
    PROVE  /\ IsFiniteSet(V) /\ IsFiniteSet(W)
           /\ Cardinality(V) \in Nat /\ Cardinality(W) \in Nat
           /\ Cardinality(W) <= Cardinality(V)
           /\ Cardinality(W) = Cardinality(V) => W = V
  <1>1. IsFiniteSet(V)
    BY FS_Subset DEF SchedulerAssumption
  <1>2. /\ IsFiniteSet(W) /\ Cardinality(W) <= Cardinality(V)
        /\ Cardinality(W) = Cardinality(V) => W = V
    BY <1>1, FS_Subset
  <1> QED BY <1>1, <1>2, FS_CardinalityType

\* A step that leaves the queue alone, takes nobody away from it and lets
\* nobody fall asleep.
LEMMA StillAwake ==
    ASSUME SchedulerAssumption, SchedulerInv, NoJobSleptThrough,
           heap' = heap, shutdown' = shutdown,
           Popping \subseteq Popping', Asleep' \subseteq Asleep
    PROVE  NoJobSleptThrough'
  <1>1. /\ Cardinality(Popping) \in Nat /\ Cardinality(Popping') \in Nat
        /\ Cardinality(Popping) <= Cardinality(Popping')
    <2>1. Popping' \in SUBSET Workers
      BY DEF Popping
    <2> QED BY <2>1, WorkersFinite
  <1>2. Cardinality(heap) \in Nat
    BY HeapFinite
  <1> SUFFICES ASSUME Asleep' # {}, ~shutdown' PROVE Cardinality(heap') <= Cardinality(Popping')
    BY DEF NoJobSleptThrough, Popping
  <1>3. Cardinality(heap) <= Cardinality(Popping)
    BY DEF NoJobSleptThrough, Popping
  <1> QED BY <1>1, <1>2, <1>3

\* A push wakes a sleeper for each job, or leaves no sleeper.
LEMMA NotifyWakes ==
    ASSUME SchedulerAssumption, SchedulerInv, NoJobSleptThrough,
           NEW c \in Clients, NotifyEnqueue(c)
    PROVE  NoJobSleptThrough'
  <1> DEFINE new == {j \in found[c] : j.bucket \notin inFlight \cup cooldown}
  <1>1. heap' = heap \cup new /\ Wake(Cardinality(new)) /\ shutdown' = shutdown
    BY DEF NotifyEnqueue, Enqueue
  <1>2. IsFiniteSet(new) /\ Cardinality(new) \in Nat
    <2>1. new \in SUBSET QueuedJob /\ \A j, k \in new : j.bucket = k.bucket => j = k
      BY DEF SchedulerInv, DataTypeOK, FoundOnce
    <2>2. IsFiniteSet(new)
      BY <2>1, JobsFinite
    <2> QED BY <2>2, FS_CardinalityType
  <1> HIDE DEF new
  <1>3. PICK W \in SUBSET Asleep :
          /\ Cardinality(W) = IF Cardinality(new) < Cardinality(Asleep)
                              THEN Cardinality(new) ELSE Cardinality(Asleep)
          /\ at' = [w \in Workers |-> IF w \in W THEN "pop" ELSE at[w]]
    BY <1>1 DEF Wake
  <1>4. /\ IsFiniteSet(W) /\ Cardinality(W) \in Nat /\ Cardinality(Asleep) \in Nat
        /\ Cardinality(W) = Cardinality(Asleep) => W = Asleep
    <2>1. Asleep \in SUBSET Workers
      BY DEF Asleep
    <2> QED BY <2>1, <1>3, WorkersFinite
  <1>5. IsFiniteSet(Popping) /\ Cardinality(Popping) \in Nat
    BY WorkersFinite DEF Popping
  <1> SUFFICES ASSUME Asleep' # {}, ~shutdown' PROVE Cardinality(heap') <= Cardinality(Popping')
    BY DEF NoJobSleptThrough, Popping
  <1>6. Asleep # {} /\ W # Asleep
    BY <1>3 DEF Asleep
  <1>7. Cardinality(W) = Cardinality(new)
    BY <1>2, <1>3, <1>4, <1>6
  <1>8. Cardinality(Popping') = Cardinality(Popping) + Cardinality(new)
    <2>1. Popping' = Popping \cup W /\ Popping \cap W = {}
      BY <1>3 DEF Popping, Asleep
    <2>2. Cardinality(Popping \cup W) = Cardinality(Popping) + Cardinality(W) - Cardinality({})
      BY <2>1, <1>4, <1>5, FS_Union
    <2> QED BY <2>1, <2>2, <1>4, <1>5, <1>7, FS_EmptySet
  <1>9. Cardinality(heap') <= Cardinality(heap) + Cardinality(new)
    <2>1. IsFiniteSet(heap) /\ Cardinality(heap) \in Nat
      BY HeapFinite
    <2>2. IsFiniteSet(heap \cap new) /\ Cardinality(heap \cap new) \in Nat
      BY <1>2, FS_Intersection, FS_CardinalityType
    <2>3. Cardinality(heap \cup new) =
            Cardinality(heap) + Cardinality(new) - Cardinality(heap \cap new)
      BY <2>1, <1>2, FS_Union
    <2> QED BY <2>1, <2>2, <2>3, <1>1, <1>2
  <1>10. Cardinality(heap') \in Nat /\ Cardinality(heap) \in Nat
    <2>1. IsFiniteSet(heap') /\ IsFiniteSet(heap)
      BY <1>1, <1>2, HeapFinite, FS_Union
    <2> QED BY <2>1, FS_CardinalityType
  <1>11. Cardinality(heap) <= Cardinality(Popping)
    BY <1>1, <1>6 DEF NoJobSleptThrough, Popping
  <1> QED BY <1>2, <1>5, <1>8, <1>9, <1>10, <1>11

\* Whoever leaves the queue for work takes a job with it.
LEMMA PopTakesOne ==
    ASSUME SchedulerAssumption, SchedulerInv, NoJobSleptThrough,
           NEW w \in Workers, Pop(w)
    PROVE  NoJobSleptThrough'
  <1>1. PICK j \in heap : heap' = heap \ {j}
    BY DEF Pop
  <1>2. /\ at[w] = "pop" /\ at' = [at EXCEPT ![w] = "permit"] /\ shutdown' = shutdown
        /\ at \in [Workers -> {"pop", "asleep", "permit", "ok", "error", "release", "exited"}]
    BY DEF Pop, Stepped, SchedulerInv, DataTypeOK
  <1>3. w \in Popping /\ Popping' = Popping \ {w} /\ Asleep' = Asleep
    BY <1>2 DEF Popping, Asleep
  <1>4. IsFiniteSet(Popping) /\ Cardinality(Popping) \in Nat
    BY WorkersFinite DEF Popping
  <1>5. Cardinality(Popping') = Cardinality(Popping) - 1
    BY <1>3, <1>4, FS_RemoveElement
  <1>6. Cardinality(heap') = Cardinality(heap) - 1 /\ Cardinality(heap) \in Nat
    BY <1>1, HeapFinite, FS_RemoveElement
  <1> SUFFICES ASSUME Asleep' # {}, ~shutdown' PROVE Cardinality(heap') <= Cardinality(Popping')
    BY DEF NoJobSleptThrough, Popping
  <1>7. Cardinality(heap) <= Cardinality(Popping)
    BY <1>2, <1>3 DEF NoJobSleptThrough, Popping
  <1> QED BY <1>4, <1>5, <1>6, <1>7

\* A worker falls asleep only before an empty queue.
LEMMA SleepOnEmpty ==
    ASSUME SchedulerAssumption, NEW w \in Workers, Sleep(w)
    PROVE  NoJobSleptThrough'
  <1>1. heap' = {}
    BY DEF Sleep, queue
  <1>2. Cardinality(heap') = 0
    BY <1>1, FS_EmptySet
  <1>3. Cardinality(Popping') \in Nat
    <2>1. Popping' \in SUBSET Workers
      BY DEF Popping
    <2> QED BY <2>1, WorkersFinite
  <1> QED BY <1>2, <1>3 DEF NoJobSleptThrough, Popping

\* Every step of a worker leaves enough of them awake.
LEMMA WorkerWakes ==
    ASSUME SchedulerAssumption, SchedulerInv, NoJobSleptThrough,
           NEW w \in Workers, Worker(w) \/ SpuriousWakeup(w)
    PROVE  NoJobSleptThrough'
  <1>1. at \in [Workers -> {"pop", "asleep", "permit", "ok", "error", "release", "exited"}]
    BY DEF SchedulerInv, DataTypeOK
  <1>2. CASE Exit(w)
    BY <1>2 DEF Exit, queue, NoJobSleptThrough
  <1>3. CASE AcquirePermit(w) \/ CompactOne(w) \/ CompactTooFew(w) \/ CompactFails(w)
             \/ Done(w) \/ Failed(w) \/ ReleasePermit(w) \/ SpuriousWakeup(w)
    <2>1. heap' = heap /\ shutdown' = shutdown
      BY <1>3 DEF AcquirePermit, CompactOne, CompactTooFew, CompactFails, Done, Failed,
         ReleasePermit, SpuriousWakeup, queue
    <2>2. \/ at' = at
          \/ at[w] # "pop" /\ \E to \in {"pop", "ok", "error", "release"} : at' = [at EXCEPT ![w] = to]
      BY <1>3 DEF AcquirePermit, CompactOne, CompactTooFew, CompactFails, Done, Failed,
         ReleasePermit, SpuriousWakeup, Stepped, threads
    <2>3. Popping \subseteq Popping' /\ Asleep' \subseteq Asleep
      BY <1>1, <2>2 DEF Popping, Asleep
    <2> QED BY <2>1, <2>3, StillAwake
  <1> QED BY <1>2, <1>3, PopTakesOne, SleepOnEmpty DEF Worker

\* While a worker sleeps there are no more queued jobs than workers on their
\* way to the queue, so one notification for each push is enough.
THEOREM JobsNeverSleptThrough == Spec => []NoJobSleptThrough
  <1>1. Init => NoJobSleptThrough
    BY DEF Init, NoJobSleptThrough, Asleep
  <1>2. SchedulerInv /\ NoJobSleptThrough /\ [Next]_vars => NoJobSleptThrough'
    <2> SUFFICES ASSUME SchedulerInv, NoJobSleptThrough, [Next]_vars PROVE NoJobSleptThrough'
      OBVIOUS
    <2>1. ASSUME heap' = heap, shutdown' = shutdown, at' = at PROVE NoJobSleptThrough'
      BY <2>1 DEF NoJobSleptThrough, Asleep
    <2>2. ASSUME NEW c \in Clients, Client(c) PROVE NoJobSleptThrough'
      <3>1. CASE NotifyEnqueue(c)
        BY <3>1, NotifyWakes, SchedulerAssumption
      <3>2. CASE (\E b \in Buckets : Ingest(c, b)) \/ CompactNow(c) \/ NotifyScan(c)
        BY <2>1, <3>2 DEF Ingest, CompactNow, NotifyScan, queue, threads
      <3> QED BY <2>2, <3>1, <3>2 DEF Client
    <2>3. CASE Shutdown
      BY <2>3 DEF Shutdown, NoJobSleptThrough
    <2>4. CASE (\E b \in Buckets : CooldownOver(b)) \/ UNCHANGED vars
      BY <2>1, <2>4 DEF CooldownOver, threads, vars, queue
    <2> QED BY <2>2, <2>3, <2>4, WorkerWakes, SchedulerAssumption DEF Next
  <1> QED BY <1>1, <1>2, SchedulerInvariant, PTL DEF Spec
=============================================================================
