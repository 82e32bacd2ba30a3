----------------------------- MODULE Operators -----------------------------
(***************************************************************************)
(* The sequential components of a query and of an INSERT side by side.     *)
(* They do not interact here: the initial state chooses one of them and    *)
(* one of its jobs, and it keeps the three variables to itself.            *)
(***************************************************************************)
EXTENDS Integers, Sequences

CONSTANTS
    Null,
    MatchJobs,                                      \* MATCH
    EntityJobs,                                     \* SESSIONIZE, EVENT, ATTRIBUTE
    SortJobs, SortBatchSize,                        \* ORDER BY
    PlanJobs, MaxPushdown,                          \* stateless stages
    AggJobs, SumWidth,                              \* STATS
    IngestJobs, WindowDays,                         \* INSERT
    ColumnJobs, IntWidth, BlockSize,                \* column chunks
    ScanFiles, ScanDeletes, ScanFilters, FirstSeq   \* the scan of a segment

VARIABLES component, job, state, out

vars == <<component, job, state, out>>

Match  == INSTANCE SequenceMatcher   WITH Jobs <- MatchJobs
Entity == INSTANCE EntityAdapter     WITH Jobs <- EntityJobs
Sort   == INSTANCE ExternalSort      WITH Jobs <- SortJobs, BatchSize <- SortBatchSize
Plan   == INSTANCE StatelessPlan     WITH Jobs <- PlanJobs
Agg    == INSTANCE HashAggregate     WITH Jobs <- AggJobs, Width <- SumWidth
Ingest == INSTANCE IngestPartitioner WITH Jobs <- IngestJobs
Chunk  == INSTANCE ColumnChunk       WITH Jobs <- ColumnJobs, Width <- IntWidth
Scan   == INSTANCE SegmentScan       WITH Files <- ScanFiles, Deletes <- ScanDeletes,
                                          Filters <- ScanFilters

\* What the child of a sort, of an aggregation or of an entity operator, the writer of
\* a segment and the reader of an INSERT can hand over.
ASSUME OperatorsAssumption ==
    Entity!EntityInputs /\ Sort!SortInputs /\ Agg!AggInputs /\ Scan!ScanInputs /\ Ingest!IngestInputs

-----------------------------------------------------------------------------
Init ==
    \/ component = "match" /\ Match!Init
    \/ component = "entity" /\ Entity!Init
    \/ component = "sort" /\ Sort!Init
    \/ component = "plan" /\ Plan!Init
    \/ component = "aggregate" /\ Agg!Init
    \/ component = "ingest" /\ Ingest!Init
    \/ component = "column" /\ Chunk!Init
    \/ component = "scan" /\ Scan!Init

Next ==
    /\ UNCHANGED component
    /\ \/ component = "match" /\ Match!Next
       \/ component = "entity" /\ Entity!Next
       \/ component = "sort" /\ Sort!Next
       \/ component = "plan" /\ Plan!Next
       \/ component = "aggregate" /\ Agg!Next
       \/ component = "ingest" /\ Ingest!Next
       \/ component = "column" /\ Chunk!Next
       \/ component = "scan" /\ Scan!Next

Spec == Init /\ [][Next]_vars

-----------------------------------------------------------------------------
(* The components' properties *)

\* MATCH reports the matches that the pattern has, however the events are cut
\* into sub-batches (step_counter.rs, nfa.rs, bindings.rs).
MatchesExact == component = "match" => Match!MatchesExact

\* Every possible entry into a MATCH is reported once, as complete or as partial
\* (mod.rs, normalize_emit_all_rows).
EntriesAccountedOnce == component = "match" => Match!EntriesAccountedOnce

\* SESSIONIZE puts every row into its session across sub-batches (sessionize.rs).
SessionsExact == component = "entity" => Entity!SessionsExact

\* EVENT FIRST, LAST and NTH select the row they name (event_select.rs).
SelectionExact == component = "entity" => Entity!SelectionExact

\* ATTRIBUTE pairs conversions with the touchpoints of their window (attribute.rs).
AttributionExact == component = "entity" => Entity!AttributionExact

\* ORDER BY emits a sorted permutation of its input, spilled or not (sort.rs).
SortExact == component = "sort" => Sort!SortExact

\* The memory tracker never exceeds its budget and ends where it began (memory.rs).
BudgetExact == component = "sort" => Sort!BudgetExact

\* An optimized plan returns what the stages say, in the cases where it can.
PlanExact == component = "plan" => Plan!PlanExact

\* STATS over shards, batches and dictionaries is that of all rows (aggregate/mod.rs).
AggregateExact == component = "aggregate" => Agg!AggregateExact

\* An INSERT writes its events in order, spilled or not (partitioner.rs).
IngestExact == component = "ingest" => Ingest!IngestExact

\* A column that was written is read back, whatever the codec (encoding/).
ColumnExact == component = "column" => Chunk!ColumnExact

\* Skipping row groups does not change a scan whose row count stays in step
\* (reader.rs, tombstone_scan.rs).
ScanExactWithoutDrift == component = "scan" => Scan!ScanExactWithoutDrift

\* Skipping row groups does not change a scan: the comment in scan.rs by which the
\* row count of the tombstone wrapper stays in lockstep with the file.
ScanExact == component = "scan" => Scan!ScanExact
=============================================================================
