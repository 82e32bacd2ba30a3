---------------------------- MODULE SegmentScan ----------------------------
(***************************************************************************)
(* Scan of one segment file: the reader skips row groups that its zone     *)
(* maps rule out, the tombstone wrapper hides deleted rows, and the scan   *)
(* operator filters the rows that are left.                                *)
(*                                                                         *)
(* The wrapper must know the __seq_id of each row to apply the row         *)
(* tombstones.  Unless the column is projected (which only the             *)
(* materialized path looks at) it derives the id from a running count of   *)
(* the rows that the reader has handed it.                                 *)
(*                                                                         *)
(* The reader only moves forward, so the rows leave in the order of their  *)
(* positions, and the rows that left are kept as the set of these.         *)
(***************************************************************************)
EXTENDS Integers, Sequences, FiniteSets

CONSTANTS
    Null,        \* the value of a column that has none
    Files,       \* [groups: sequence of row groups, stored: BOOLEAN]
    Deletes,     \* contents of a tombstone file, as far as they concern the segment
    Filters,     \* [conjuncts: pushed-down conditions, sample: sampled entities]
    FirstSeq     \* __seq_id of the first row

Row == [entity : Int, ts : Int, value : Int \cup {Null}]

\* A pushed-down condition; vals are its literals: one, or those of the IN list.
\* Equality is an IN list of one.
Condition ==
    [op : {"In", "NotEqual", "Lt", "Ge", "IsNull", "IsNotNull", "EntityIn"},
     column : {"entity", "ts", "value"}, vals : SUBSET Int]

\* What the writer stores and the planner pushes down.
ScanInputs ==
    /\ Null \notin Int
    /\ \A f \in Files : f.groups \in Seq(Seq(Row))
    /\ \A f \in Filters : f.conjuncts \subseteq Condition

VARIABLES
    job,    \* what the scan was opened with
    state,  \* [next: next row group, offset: rows handed out, exhausted]
    out     \* positions <<group, row>> of the rows that left the scan

vars == <<job, state, out>>

Init ==
    /\ job \in [file : Files, tombs : Deletes, filter : Filters,
                path : {"materialized", "encoded"}, seqProjected : BOOLEAN]
    /\ state = [next |-> 1, offset |-> 0, exhausted |-> FALSE]
    /\ out = {}

Group(g) == job.file.groups[g]

Pos(g) == {<<g, i>> : i \in 1..Len(Group(g))}

-----------------------------------------------------------------------------
(* Zone maps *)

\* The zone map of a column: extremes of the values that are not null.
Zone(g, column) ==
    LET vals == {Group(g)[i][column] : i \in 1..Len(Group(g))} \ {Null}
        set  == IF vals = {} THEN {0} ELSE vals
    IN  [min   |-> CHOOSE v \in set : \A w \in set : v <= w,
         max   |-> CHOOSE v \in set : \A w \in set : w <= v,
         nulls |-> Cardinality({i \in 1..Len(Group(g)) : Group(g)[i][column] = Null}),
         rows  |-> Len(Group(g))]

\* Mutant: the greatest value counts as out of reach of a lower bound.
AcceptsZoneStrict(c, zone) == c.op = "Ge" => \E v \in c.vals : v < zone.max

\* Whether a row group with this zone map may hold a row that satisfies c.
AcceptsZone(c, zone) ==
    LET someValue == zone.nulls < zone.rows
    IN  CASE c.op = "In"        -> someValue /\ c.vals \cap zone.min..zone.max # {}
          [] c.op = "NotEqual"  -> ~(zone.nulls = 0 /\ c.vals = {zone.min} /\ c.vals = {zone.max})
          [] c.op = "Lt"        -> someValue /\ \E v \in c.vals : zone.min < v
          [] c.op = "Ge"        -> someValue /\ \E v \in c.vals : v <= zone.max
          [] c.op = "IsNull"    -> zone.nulls > 0
          [] c.op = "IsNotNull" -> someValue
          [] c.op = "EntityIn"  -> /\ someValue
                                   /\ \E v \in c.vals : zone.min <= v
                                   /\ \E v \in c.vals : v <= zone.max

\* A row group of one entity is skipped when the sample does not hold that entity.
SampleAcceptsZone(zone) ==
    zone.min # zone.max \/ zone.min \in job.filter.sample

\* A column that the segment was written without has no zone map, and accepts.
Accepts(g) ==
    /\ \A c \in job.filter.conjuncts :
        \/ c.column = "value" /\ ~job.file.stored
        \/ AcceptsZone(c, Zone(g, c.column))
    /\ SampleAcceptsZone(Zone(g, "entity"))

-----------------------------------------------------------------------------
(* Rows *)

Satisfies(row, c) ==
    LET v == row[c.column]
    IN  CASE c.op \in {"In", "EntityIn"} -> v \in c.vals
          [] c.op = "NotEqual"  -> v # Null /\ v \notin c.vals
          [] c.op = "Lt"        -> v # Null /\ \E w \in c.vals : v < w
          [] c.op = "Ge"        -> v # Null /\ \E w \in c.vals : w <= v
          [] c.op = "IsNull"    -> v = Null
          [] c.op = "IsNotNull" -> v # Null

\* The scan filters by all conjuncts but the cohort's, which a filter above the
\* scan applies.
PassesFilters(row) ==
    /\ \A c \in job.filter.conjuncts : c.op = "EntityIn" \/ Satisfies(row, c)
    /\ row.entity \in job.filter.sample

Hidden(row, seqId) ==
    \/ job.tombs.batch
    \/ row.entity \in job.tombs.entities
    \/ seqId \in job.tombs.rows
    \/ \E r \in job.tombs.ranges : r[1] <= row.ts /\ row.ts <= r[2]

RowsBefore(g) == Cardinality(UNION {Pos(h) : h \in 1..(g - 1)})

\* The id that the file's metadata gives to a row.
SeqId(p) == FirstSeq + RowsBefore(p[1]) + p[2] - 1

\* The id that the wrapper takes a row of the row group at hand for.
SeenSeqId(p) ==
    IF job.path = "materialized" /\ job.seqProjected THEN SeqId(p)
    ELSE FirstSeq + state.offset + p[2] - 1

-----------------------------------------------------------------------------
(* next_row_group and next_encoded_row_group, and the wrapper around them *)

More == ~state.exhausted /\ state.next <= Len(job.file.groups)

SkipRowGroup ==
    /\ More
    /\ ~Accepts(state.next)
    /\ state' = [state EXCEPT !.next = @ + 1]
    /\ UNCHANGED <<job, out>>

\* A wrapper of a segment whose batch is deleted drains the reader.
ReadRowGroup ==
    /\ More
    /\ LET g == state.next
       IN  /\ Accepts(g)
           /\ out' = out \cup {p \in Pos(g) : /\ ~Hidden(Group(g)[p[2]], SeenSeqId(p))
                                             /\ PassesFilters(Group(g)[p[2]])}
           /\ state' = [state EXCEPT !.next = @ + 1, !.offset = @ + Len(Group(g))]
    /\ UNCHANGED job

Exhaust ==
    /\ ~state.exhausted
    /\ ~More
    /\ state' = [state EXCEPT !.exhausted = TRUE]
    /\ UNCHANGED <<job, out>>

Next == SkipRowGroup \/ ReadRowGroup \/ Exhaust

Spec == Init /\ [][Next]_vars

-----------------------------------------------------------------------------
(* Properties *)

InCohort(row) == \A c \in job.filter.conjuncts : c.op = "EntityIn" => Satisfies(row, c)

\* The rows that a scan without zone maps and row counting would return.
Wanted ==
    {p \in UNION {Pos(g) : g \in DOMAIN job.file.groups} :
        LET row == Group(p[1])[p[2]]
        IN  ~Hidden(row, SeqId(p)) /\ PassesFilters(row) /\ InCohort(row)}

Returned == {p \in out : InCohort(Group(p[1])[p[2]])}

\* Skipping row groups changes the work of a scan and never its result: a scan
\* of a segment returns its rows that no tombstone hides and that satisfy the
\* filters ("the tombstone wrapper sees every row group and its
\* next_row_offset accumulator stays in lockstep with the on-disk layout").
ScanExact == state.exhausted => Returned = Wanted

\* A row is read whose id the wrapper must derive, behind a row group that was
\* skipped.
Drifts ==
    /\ job.tombs.rows # {}
    /\ ~(job.path = "materialized" /\ job.seqProjected)
    /\ \E g, h \in DOMAIN job.file.groups : g < h /\ ~Accepts(g) /\ Accepts(h)

\* The same, for the scans in which no row count drifts.
ScanExactWithoutDrift == state.exhausted /\ ~Drifts => Returned = Wanted
=============================================================================
