---------------------------- MODULE EventSelect ----------------------------
(***************************************************************************)
(* EVENT FIRST, LAST and NTH over the rows [type, where, pos] of one       *)
(* entity, which arrive in sub-batches.  The WHERE predicate is evaluated  *)
(* over a sub-batch as a whole; one row on which it fails (an overflow, a  *)
(* division by zero) leaves the operator without a mask.                   *)
(***************************************************************************)
EXTENDS Integers, Sequences, FiniteSets, SequencesExt

CONSTANTS
    Null,   \* no row selected
    op      \* [kind: "First", "Last" or "Nth", n, types]: the operator at hand

CreateState == [row |-> Null, count |-> 0, done |-> FALSE]

\* NULL is treated as false.
Qualifies(row) == row.type \in op.types /\ row.where = "true"

\* Mutant: NTH compares before it counts.
TakeFromZero(st, row) ==
    IF st.done \/ ~Qualifies(row) THEN st
    ELSE IF op.kind = "Nth" /\ st.count # op.n THEN [st EXCEPT !.count = @ + 1]
    ELSE [st EXCEPT !.row = row.pos, !.done = op.kind # "Last"]

\* One row.
Take(st, row) ==
    IF st.done \/ ~Qualifies(row) THEN st
    ELSE CASE op.kind = "First" -> [st EXCEPT !.row = row.pos, !.done = TRUE]
           [] op.kind = "Last"  -> [st EXCEPT !.row = row.pos]
           [] op.kind = "Nth"   -> [st EXCEPT !.count = @ + 1,
                                              !.row = IF st.count + 1 = op.n THEN row.pos ELSE @,
                                              !.done = st.count + 1 = op.n]

ProcessSubBatch(st, batch) ==
    IF \E row \in Range(batch) : row.where = "error" THEN st
    ELSE FoldLeft(Take, st, batch)

FinishEntity(st) == IF st.row = Null THEN <<>> ELSE <<[pos |-> st.row]>>

-----------------------------------------------------------------------------
(* What is to be selected *)

\* The rows that qualify, and the place of each among them.
Qualifying(rows) == {r \in DOMAIN rows : Qualifies(rows[r])}
Place(rows, r)   == Cardinality({s \in Qualifying(rows) : s <= r})

Wanted(rows) == CASE op.kind = "First" -> 1
                  [] op.kind = "Last"  -> Cardinality(Qualifying(rows))
                  [] op.kind = "Nth"   -> op.n

Selected(rows) ==
    LET chosen == {r \in Qualifying(rows) : Place(rows, r) = Wanted(rows)}
    IN  IF chosen = {} THEN <<>> ELSE <<[pos |-> rows[CHOOSE r \in chosen : TRUE].pos]>>
=============================================================================
