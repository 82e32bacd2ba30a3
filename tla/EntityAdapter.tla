--------------------------- MODULE EntityAdapter ---------------------------
(***************************************************************************)
(* EntityOperatorAdapter: cuts the batches of its child, which are ordered *)
(* by entity and time, into sub-batches of one entity, and runs one of the *)
(* entity operators over them.  An entity ends where another begins or the *)
(* child is exhausted, and the batches end anywhere.                       *)
(***************************************************************************)
EXTENDS Integers, Sequences, FiniteSets, SequencesExt

CONSTANTS
    Null,   \* no entity, no row
    Jobs    \* [operator, op, rows: sequence of [entity, ts, type, where, pos]]

VARIABLES
    job,    \* the operator, its parameters and the child's rows
    state,  \* [next: next row, entity, st: the entity's state, exhausted]
    out     \* the rows of the finished entities

vars == <<job, state, out>>

\* What the child and the planner hand over: rows of entities, in the order of
\* entity and time, and an operator's parameters.
GroupedByEntity(rows) ==
    \A r, s, t \in DOMAIN rows :
        r <= s /\ s <= t /\ rows[r].entity = rows[t].entity => rows[s].entity = rows[r].entity

OrderedByTime(rows) ==
    \A r, s \in DOMAIN rows : r <= s /\ rows[r].entity = rows[s].entity => rows[r].ts <= rows[s].ts

Parameters(j) ==
    CASE j.operator = "sessionize"   -> j.op.gap \in Nat /\ j.op.cap \in Nat \ {0}
      [] j.operator = "event_select" -> j.op.kind \in {"First", "Last", "Nth"} /\ j.op.n \in Nat
      [] j.operator = "attribute"    -> j.op.window \in Nat /\ j.op.cap \in Nat

EntityInputs ==
    /\ Null \notin Int
    /\ \A j \in Jobs :
        /\ j.operator \in {"sessionize", "event_select", "attribute"} /\ Parameters(j)
        /\ j.rows \in Seq(Range(j.rows))
        /\ \A row \in Range(j.rows) : row.entity # Null /\ row.pos # Null /\ row.ts \in Int
        /\ GroupedByEntity(j.rows) /\ OrderedByTime(j.rows)

Sess == INSTANCE Sessionize WITH op <- job.op
Sel  == INSTANCE EventSelect WITH op <- job.op
Attr == INSTANCE Attribute WITH op <- job.op

Init ==
    /\ job \in Jobs
    /\ state = [next |-> 1, entity |-> Null, st |-> Null, exhausted |-> FALSE]
    /\ out = <<>>

CreateState ==
    CASE job.operator = "sessionize"   -> Sess!CreateState
      [] job.operator = "event_select" -> Sel!CreateState
      [] job.operator = "attribute"    -> Attr!CreateState

ProcessSubBatch(st, batch) ==
    CASE job.operator = "sessionize"   -> Sess!ProcessSubBatch(st, batch)
      [] job.operator = "event_select" -> Sel!ProcessSubBatch(st, batch)
      [] job.operator = "attribute"    -> Attr!ProcessSubBatch(st, batch)

FinishEntity(st) ==
    CASE job.operator = "sessionize"   -> Sess!FinishEntity(st)
      [] job.operator = "event_select" -> Sel!FinishEntity(st)
      [] job.operator = "attribute"    -> Attr!FinishEntity(st)

\* find_entity_end: the last row of the run of one entity that begins with a row,
\* in a batch that ends with the row last.
FindEntityEnd(start, last) ==
    CHOOSE end \in start..last :
        /\ \A r \in start..end : job.rows[r].entity = job.rows[start].entity
        /\ end < last => job.rows[end + 1].entity # job.rows[start].entity

\* The rows start to end of the child are the next run of one entity.
ProcessRun(acc, start, end) ==
    LET entity == job.rows[start].entity
        same   == acc.entity = entity
    IN  [entity |-> entity,
         st     |-> ProcessSubBatch(IF same THEN acc.st ELSE CreateState,
                                    SubSeq(job.rows, start, end)),
         out    |-> acc.out \o IF same \/ acc.entity = Null THEN <<>> ELSE FinishEntity(acc.st)]

\* The loop of process_child_batch over the rows first to last, with the run that
\* a row begins.
ProcessFrom(acc, row, first, last) ==
    IF row = first \/ job.rows[row].entity # job.rows[row - 1].entity
    THEN ProcessRun(acc, row, FindEntityEnd(row, last))
    ELSE acc

\* process_child_batch on the child's next n rows.
ProcessChildBatch(n) ==
    /\ ~state.exhausted
    /\ state.next + n - 1 <= Len(job.rows)
    /\ LET first == state.next
           last  == state.next + n - 1
           acc   == FoldLeft(LAMBDA a, k : ProcessFrom(a, first + k - 1, first, last),
                             [entity |-> state.entity, st |-> state.st, out |-> out],
                             [k \in 1..n |-> k])
       IN  /\ state' = [state EXCEPT !.next = @ + n, !.entity = acc.entity, !.st = acc.st]
           /\ out' = acc.out
    /\ UNCHANGED job

\* The child is exhausted: the last entity is finished.
ChildExhausted ==
    /\ ~state.exhausted
    /\ state.next > Len(job.rows)
    /\ out' = out \o IF state.entity = Null THEN <<>> ELSE FinishEntity(state.st)
    /\ state' = [state EXCEPT !.exhausted = TRUE, !.entity = Null, !.st = Null]
    /\ UNCHANGED job

Next == (\E n \in 1..Len(job.rows) : ProcessChildBatch(n)) \/ ChildExhausted

Spec == Init /\ [][Next]_vars

-----------------------------------------------------------------------------
(* Properties *)

\* An entity's rows, from its first to its last.
EntityRows(first) ==
    LET last == CHOOSE r \in first..Len(job.rows) :
                    /\ job.rows[r].entity = job.rows[first].entity
                    /\ \A s \in (r + 1)..Len(job.rows) : job.rows[s].entity # job.rows[first].entity
    IN  SubSeq(job.rows, first, last)

\* A definition of an entity's result applied to the child's rows, entity by entity.
ByEntity(Result(_)) ==
    FlattenSeq([r \in DOMAIN job.rows |->
                    IF \E s \in 1..(r - 1) : job.rows[s].entity = job.rows[r].entity THEN <<>>
                    ELSE Result(EntityRows(r))])

Done(operator) == state.exhausted /\ job.operator = operator

\* However the rows are cut into batches, each row is in the session that gaps
\* and end events put it in, sessions of an entity are numbered without holes,
\* and an entity whose session exceeds the cap stops with that session.
SessionsExact == Done("sessionize") => out = ByEntity(Sess!Sessions)

\* However the rows are cut into batches, an entity's row is the first, last or
\* n-th that qualifies, if the predicate can be evaluated on all rows.
SelectionExact ==
    Done("event_select") /\ (\A row \in Range(job.rows) : row.where # "error") =>
        out = ByEntity(Sel!Selected)

\* The deque never prunes a touchpoint that a conversion still needs nor lets
\* one in that is outside the window, not before the conversion, or another
\* entity's; every conversion in range has a row.
AttributionExact == Done("attribute") => out = ByEntity(Attr!Attributions)
=============================================================================
