----------------------------- MODULE Attribute -----------------------------
(***************************************************************************)
(* ATTRIBUTE over the rows [ts, type, pos] of one entity: every conversion *)
(* is paired with the touchpoints of the window before it, which the       *)
(* operator keeps in a deque of bounded length.                            *)
(***************************************************************************)
EXTENDS Integers, Sequences, FiniteSets, FiniteSetsExt, SequencesExt

CONSTANTS
    Null,   \* no touchpoint
    op      \* [conversions, touchpoints, window, from, to, cap]

CreateState == [deque |-> <<>>, rows |-> <<>>, capped |-> FALSE]

IsConversion(row) == row.type \in op.conversions /\ op.from <= row.ts /\ row.ts < op.to

\* Mutant: the touchpoint at the very edge of the window is dropped.
PrunedToo(deque, ts) == SelectSeq(deque, LAMBDA t : t.ts > ts - op.window)

\* The deque without the touchpoints no later conversion can use.
Pruned(deque, ts) ==
    IF op.window = 0 THEN <<>>
    ELSE LET live == {i \in DOMAIN deque : deque[i].ts >= ts - op.window}
         IN  IF live = {} THEN <<>> ELSE SubSeq(deque, Min(live), Len(deque))

\* One touchpoint of the deque, and the rows of the conversion so far.
Match(rows, row, t) ==
    IF t.ts >= row.ts - op.window /\ t.ts < row.ts
    THEN Append(rows, [pos |-> row.pos, touch |-> t.pos])
    ELSE rows

\* emit_conversion: at least one row for each conversion.
EmitConversion(deque, row) ==
    LET matched == FoldLeft(LAMBDA rows, t : Match(rows, row, t), <<>>, deque)
    IN  IF matched = <<>> THEN <<[pos |-> row.pos, touch |-> Null]>> ELSE matched

\* A conversion is emitted before the row becomes a touchpoint itself.
Row(st, row) ==
    LET deque   == Pruned(st.deque, row.ts)
        emitted == [st EXCEPT !.deque = deque,
                              !.rows = @ \o IF IsConversion(row) THEN EmitConversion(deque, row)
                                            ELSE <<>>]
    IN  IF st.capped THEN st
        ELSE IF row.type \notin op.touchpoints THEN emitted
        ELSE IF Len(deque) >= op.cap THEN [emitted EXCEPT !.capped = TRUE, !.deque = <<>>]
        ELSE [emitted EXCEPT !.deque = Append(deque, [ts |-> row.ts, pos |-> row.pos])]

ProcessSubBatch(st, batch) == FoldLeft(Row, st, batch)

FinishEntity(st) == st.rows

-----------------------------------------------------------------------------
(* What is to be attributed *)

\* Touchpoints before the row r inside its window, with those of its own time.
InWindow(rows, r) ==
    {t \in 1..r - 1 : /\ rows[t].type \in op.touchpoints
                      /\ op.window > 0
                      /\ rows[r].ts - rows[t].ts <= op.window}

\* The entity stops with the first touchpoint there is no room for.
Kept(rows) ==
    LET over == {r \in DOMAIN rows : /\ rows[r].type \in op.touchpoints
                                     /\ Cardinality(InWindow(rows, r)) >= op.cap}
    IN  IF over = {} THEN Len(rows) ELSE Min(over)

Attributions(rows) ==
    LET Hits(r) == {t \in InWindow(rows, r) : rows[t].ts < rows[r].ts}
        Touched(r) == IF Hits(r) = {} THEN <<Null>>
                      ELSE [i \in 1..Cardinality(Hits(r)) |->
                                rows[CHOOSE t \in Hits(r) :
                                        Cardinality({u \in Hits(r) : u <= t}) = i].pos]
        Pairs(r)   == [i \in DOMAIN Touched(r) |-> [pos |-> rows[r].pos, touch |-> Touched(r)[i]]]
    IN  FlattenSeq([r \in 1..Kept(rows) |-> IF IsConversion(rows[r]) THEN Pairs(r) ELSE <<>>])
=============================================================================
