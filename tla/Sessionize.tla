----------------------------- MODULE Sessionize -----------------------------
(***************************************************************************)
(* SESSIONIZE over the rows [ts, type, pos] of one entity, which arrive in *)
(* sub-batches.  A session stays open over the end of a sub-batch; its     *)
(* rows are buffered as slices, so the operator must know where in the     *)
(* sub-batch the open slice begins.                                        *)
(***************************************************************************)
EXTENDS Integers, Sequences, FiniteSets, FiniteSetsExt, SequencesExt

CONSTANTS
    Null,   \* no session has started
    op      \* [gap, endEvents, cap]: the operator at hand

CreateState ==
    [id |-> 1, start |-> Null, last |-> Null, count |-> 0,
     open |-> <<>>, completed |-> <<>>, skipping |-> FALSE]

\* Mutant: the open slice always begins with the sub-batch.
PushSliceFromFirst(st, batch, slice, upto) == [st EXCEPT !.open = @ \o SubSeq(batch, 1, upto)]

\* push_slice: the rows of the sub-batch from the slice's first to this one.
PushSlice(st, batch, slice, upto) ==
    [st EXCEPT !.open = @ \o SubSeq(batch, slice, upto)]

\* flush_session; a session without rows does not use up a number.
FlushSession(st) ==
    LET Annotated(row) == [pos |-> row.pos, session |-> st.id, duration |-> st.last - st.start]
    IN  [st EXCEPT !.start = Null, !.last = Null, !.count = 0, !.open = <<>>,
                   !.completed = @ \o [i \in DOMAIN st.open |-> Annotated(st.open[i])],
                   !.id = IF st.open = <<>> THEN @ ELSE @ + 1]

\* The session ends with the row upto of the sub-batch.
Close(acc, batch, upto) ==
    [st |-> FlushSession(PushSlice(acc.st, batch, acc.slice, upto)), slice |-> upto + 1]

\* The row is too late for the session.
TooLate(st, row) == st.start # Null /\ row.ts - st.last > op.gap

\* The row belongs to the session, perhaps as its first.
Join(st, row) ==
    [st EXCEPT !.start = IF @ = Null THEN row.ts ELSE @, !.last = row.ts, !.count = @ + 1]

\* One row of the sub-batch; acc.slice is where the open slice begins.
Row(acc, batch, r) ==
    LET before == IF TooLate(acc.st, batch[r]) THEN Close(acc, batch, r - 1) ELSE acc
        joined == [before EXCEPT !.st = Join(@, batch[r])]
        closed == Close(joined, batch, r)
    IN  IF acc.st.skipping THEN acc
        ELSE IF before.st.start # Null /\ joined.st.count > op.cap
             THEN [closed EXCEPT !.st.skipping = TRUE]
        ELSE IF batch[r].type \in op.endEvents THEN closed
        ELSE joined

ProcessSubBatch(st, batch) ==
    LET acc == FoldLeft(LAMBDA a, r : Row(a, batch, r), [st |-> st, slice |-> 1],
                        [r \in DOMAIN batch |-> r])
    IN  IF acc.st.skipping THEN acc.st ELSE PushSlice(acc.st, batch, acc.slice, Len(batch))

FinishEntity(st) ==
    (IF ~st.skipping /\ st.start # Null THEN FlushSession(st) ELSE st).completed

-----------------------------------------------------------------------------
(* What a session is, without buffers *)

\* A session ends with the row r of the entity.
EndsSession(rows, r) ==
    \/ rows[r].type \in op.endEvents
    \/ r < Len(rows) /\ rows[r + 1].ts - rows[r].ts > op.gap

SessionStart(rows, r) == Max({1} \cup {s + 1 : s \in {s \in 1..r - 1 : EndsSession(rows, s)}})

\* The entity stops with the row by which a session exceeds the cap.
Kept(rows) ==
    LET over == {r \in DOMAIN rows : r - SessionStart(rows, r) + 1 > op.cap}
    IN  IF over = {} THEN Len(rows) ELSE Min(over)

Sessions(rows) ==
    LET kept == SubSeq(rows, 1, Kept(rows))
        SessionEnd(r) == Max({s \in r..Len(kept) : SessionStart(kept, s) = SessionStart(kept, r)})
    IN  [r \in DOMAIN kept |->
            [pos      |-> kept[r].pos,
             session  |-> 1 + Cardinality({s \in 1..r - 1 : EndsSession(kept, s)}),
             duration |-> kept[SessionEnd(r)].ts - kept[SessionStart(kept, r)].ts]]
=============================================================================
