---------------------------- MODULE ExternalSort ----------------------------
(***************************************************************************)
(* SortOperator and the query's MemoryTracker.  The operator buffers the   *)
(* batches of its child, each under a reservation of its bytes.  When the  *)
(* tracker has no room it calls the sort's spill handler, which sorts the  *)
(* whole buffer into a run on disk; at the end runs and buffer are merged. *)
(*                                                                         *)
(* The tracker also counts what the query's other operators hold.  The     *)
(* handler, and through it the buffer, belong to the tracker too, and a    *)
(* reservation keeps the tracker alive: what is in the buffer when the     *)
(* operator is dropped stays.                                              *)
(***************************************************************************)
EXTENDS Integers, Sequences, FiniteSets, SequencesExt

CONSTANTS
    Null,        \* a key that is null; no result yet
    BatchSize,   \* DEFAULT_OUTPUT_BATCH_SIZE
    Jobs         \* [batches, desc, budget, others, maxRows, canSpill]

\* pos tells the child's rows apart.
Row == [key : Int \cup {Null}, pos : Nat]

Job == [batches : Seq(Seq(Row)), desc : BOOLEAN, budget : Nat, others : Nat,
        maxRows : Nat, canSpill : BOOLEAN]

Results == {"done", "Execution", "MemoryBudgetExceeded", "Cancelled", "Io"}

\* What a child hands to a sort, under a tracker that is not overdrawn.
SortInputs ==
    /\ Null \notin Int \cup Results
    /\ BatchSize \in Nat
    /\ Jobs \subseteq Job
    /\ \A j \in Jobs : j.others <= j.budget /\ IsInjective(FlattenSeq(j.batches))

VARIABLES
    job,    \* the child's batches of rows [key, pos], the keys' direction, limits
    state,  \* [phase, next, buffer, used, runs, spilled, cursors, cancelled, result]
    out     \* the rows emitted

vars == <<job, state, out>>

Init ==
    /\ job \in Jobs
    /\ state = [phase |-> "Accumulating", next |-> 1, buffer |-> <<>>, used |-> job.others,
                runs |-> <<>>, spilled |-> 0, cursors |-> <<>>, cancelled |-> FALSE,
                result |-> Null]
    /\ out = <<>>

-----------------------------------------------------------------------------
(* Order *)

\* Nulls come last in ascending order and first in descending order.
Precedes(k, l) ==
    IF k = Null \/ l = Null THEN k # l /\ (k = Null) = job.desc
    ELSE IF job.desc THEN l < k ELSE k < l

IsSortedRun(rows) ==
    \A i, j \in DOMAIN rows : i < j => ~Precedes(rows[j].key, rows[i].key)

Rows(batches) == FlattenSeq(batches)

\* The sort of a buffer is not stable: rows of equal keys come in any order.
SortedRuns(batches) ==
    LET rows == Rows(batches)
    IN  {run \in {[i \in DOMAIN rows |-> rows[p[i]]] : p \in Bijection(DOMAIN rows, DOMAIN rows)} :
            IsSortedRun(run)}

-----------------------------------------------------------------------------
(* The tracker: a batch takes one byte per row *)

Bytes(batches) == Len(Rows(batches))

Fits(used, bytes) == used + bytes <= job.budget

\* Mutant: a charge that does not fit stays.
ChargeKept(used, bytes) == used + bytes

\* A charge that does not fit is taken back.
Charge(used, bytes) == IF Fits(used, bytes) THEN used + bytes ELSE used

-----------------------------------------------------------------------------
(* Accumulating *)

Fail(s, error) == [s EXCEPT !.phase = "Done", !.result = error]

Taken == Rows(SubSeq(job.batches, 1, state.next))

\* The batch is buffered if the row cap allows; then the token is looked at.
Push(s, batch) ==
    IF Len(Taken) > job.maxRows THEN Fail(s, "Execution")
    ELSE LET pushed == [s EXCEPT !.next = @ + 1, !.buffer = Append(@, batch),
                                 !.used = Charge(@, Len(batch))]
         IN  IF s.cancelled THEN Fail(pushed, "Cancelled") ELSE pushed

\* try_reserve after handlers that freed bytes or did not, and the batch's push.
Reserve(s, batch) ==
    IF Fits(s.used, Len(batch)) THEN Push(s, batch)
    ELSE Fail([s EXCEPT !.used = Charge(@, Len(batch))], "MemoryBudgetExceeded")

Pulling == state.phase = "Accumulating" /\ state.result = Null /\ state.next <= Len(job.batches)

Batch == job.batches[state.next]

WithoutBuffer(s) == [s EXCEPT !.buffer = <<>>, !.used = @ - Bytes(s.buffer)]

Spillable == job.canSpill /\ state.buffer # <<>> /\ ~state.cancelled

\* There is room, or the handler has nothing it may spill.
Pull ==
    /\ Pulling
    /\ Fits(state.used, Len(Batch)) \/ ~Spillable
    /\ state' = Reserve(state, Batch)
    /\ UNCHANGED <<job, out>>

\* The handler writes the buffer as a run, and the reservation is tried again.
PullSpilling ==
    /\ Pulling
    /\ ~Fits(state.used, Len(Batch))
    /\ Spillable
    /\ \E run \in SortedRuns(state.buffer) :
        state' = Reserve([WithoutBuffer(state) EXCEPT !.runs = Append(@, run), !.spilled = @ + 1],
                         Batch)
    /\ UNCHANGED <<job, out>>

\* The buffer is gone before the run is on disk.  A handler that fails to write
\* it reports nothing freed, and the reservation is not tried again.
SpillFails ==
    /\ Pulling
    /\ ~Fits(state.used, Len(Batch))
    /\ Spillable
    /\ state' = Fail(WithoutBuffer(state), "MemoryBudgetExceeded")
    /\ UNCHANGED <<job, out>>

\* next_batch looks at the token when it is entered.
CancelledAtEntry ==
    /\ state.result = Null
    /\ state.phase = "Merging" \/ (state.phase = "Accumulating" /\ state.next = 1)
    /\ state.cancelled
    /\ state' = [state EXCEPT !.result = "Cancelled"]
    /\ UNCHANGED <<job, out>>

-----------------------------------------------------------------------------
(* Merging *)

Exhausted ==
    /\ state.phase = "Accumulating"
    /\ state.result = Null
    /\ state.next > Len(job.batches)

\* The runs in the order of their spills, then what is left in the buffer.
BuildMerger ==
    /\ Exhausted
    /\ IF state.buffer = <<>> /\ state.runs = <<>>
       THEN state' = [state EXCEPT !.phase = "Done", !.result = "done"]
       ELSE \E run \in SortedRuns(state.buffer) :
                LET runs == state.runs \o IF state.buffer = <<>> THEN <<>> ELSE <<run>>
                IN  state' = [WithoutBuffer(state) EXCEPT
                                !.phase = "Merging", !.runs = runs,
                                !.cursors = [r \in DOMAIN runs |-> 1]]
    /\ UNCHANGED <<job, out>>

\* A run that cannot be opened again.
BuildFails ==
    /\ Exhausted
    /\ state.spilled > 0
    /\ state' = Fail([WithoutBuffer(state) EXCEPT !.runs = <<>>], "Io")
    /\ UNCHANGED <<job, out>>

Live(cursors) == {r \in DOMAIN cursors : cursors[r] <= Len(state.runs[r])}

\* Mutant: the merge keeps the row format's default, nulls first.
PopsBeforeNullsFirst(a, aRun, b, bRun) ==
    \/ a.key # b.key /\ (a.key = Null \/ (b.key # Null /\ Precedes(a.key, b.key)))
    \/ a.key = b.key /\ aRun <= bRun

\* The heap's order: by key, then by run.
PopsBefore(a, aRun, b, bRun) ==
    Precedes(a.key, b.key) \/ (~Precedes(b.key, a.key) /\ aRun <= bRun)

\* One row from the heap that holds the next row of every run.
PopRow(acc, n) ==
    IF Live(acc.cursors) = {} THEN acc
    ELSE LET Head1(r) == state.runs[r][acc.cursors[r]]
             r == CHOOSE r \in Live(acc.cursors) :
                    \A q \in Live(acc.cursors) : PopsBefore(Head1(r), r, Head1(q), q)
         IN  [cursors |-> [acc.cursors EXCEPT ![r] = @ + 1], out |-> Append(acc.out, Head1(r))]

MergeBatch ==
    /\ state.phase = "Merging"
    /\ state.result = Null
    /\ ~state.cancelled
    /\ LET acc == FoldLeft(PopRow, [cursors |-> state.cursors, out |-> out],
                           [n \in 1..BatchSize |-> n])
       IN  /\ out' = acc.out
           /\ state' = IF Live(state.cursors) = {}
                       THEN [state EXCEPT !.phase = "Done", !.runs = <<>>,
                                          !.cursors = <<>>, !.result = "done"]
                       ELSE [state EXCEPT !.cursors = acc.cursors]
    /\ UNCHANGED job

\* A spilled run that cannot be read; the phase stays.
ReadFails ==
    /\ state.phase = "Merging"
    /\ state.result = Null
    /\ state.spilled > 0
    /\ state' = [state EXCEPT !.result = "Io"]
    /\ UNCHANGED <<job, out>>

-----------------------------------------------------------------------------
(* The query's end *)

Cancel ==
    /\ state.result = Null
    /\ ~state.cancelled
    /\ state' = [state EXCEPT !.cancelled = TRUE]
    /\ UNCHANGED <<job, out>>

\* After an error, the last row, or as many rows as a LIMIT wanted.  close does
\* nothing if the phase is Done, and the buffer outlives the operator.
CloseAndDrop ==
    /\ state.phase # "Dropped"
    /\ state.result # Null \/ state.phase = "Merging"
    /\ state' = [(IF state.phase = "Done" THEN state ELSE WithoutBuffer(state))
                    EXCEPT !.phase = "Dropped", !.runs = <<>>, !.cursors = <<>>]
    /\ UNCHANGED <<job, out>>

Next ==
    \/ Pull
    \/ PullSpilling
    \/ SpillFails
    \/ CancelledAtEntry
    \/ BuildMerger
    \/ BuildFails
    \/ MergeBatch
    \/ ReadFails
    \/ Cancel
    \/ CloseAndDrop

Spec == Init /\ [][Next]_vars

-----------------------------------------------------------------------------
(* Properties *)

InputRows == Rows(job.batches)

\* A sort that ends without an error has emitted its child's rows, each once
\* and in order, wherever the budget made it spill; one that is still going or
\* was stopped has emitted a prefix of such a sequence.
SortExact ==
    /\ IsSortedRun(out)
    /\ IsInjective(out)
    /\ Range(out) \subseteq Range(InputRows)
    /\ \A row \in Range(InputRows) \ Range(out) : \A i \in DOMAIN out : ~Precedes(row.key, out[i].key)
    /\ state.result = "done" => Len(out) = Len(InputRows)

\* The tracker counts what is held, never more than the budget; at the query's
\* end all is given back, unless the sort failed accumulating or was cancelled.
BudgetExact ==
    /\ state.used = job.others + Bytes(state.buffer)
    /\ state.used <= job.budget
    /\ state.phase = "Dropped" /\ state.result \notin {"Execution", "MemoryBudgetExceeded", "Cancelled"}
        => state.used = job.others
=============================================================================
