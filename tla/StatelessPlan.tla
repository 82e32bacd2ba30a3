--------------------------- MODULE StatelessPlan ---------------------------
(***************************************************************************)
(* From the stages of a query to the batches of its result, for the stages *)
(* that keep no state between rows but LIMIT's count: WHERE, WHERE IN      *)
(* QUERY, SELECT, LIMIT and SAMPLE.  The planner lowers them to segments,  *)
(* samples and cohort filters over a scan, the optimizer moves samples and *)
(* conditions into the scan, the bind step adds the cohorts' entities, and *)
(* the batches of the scan, one per row group, are pulled through.         *)
(*                                                                         *)
(* A condition is [op, column, vals]; "In" and "Ge" have a shape that the  *)
(* scan takes, "NotIn" has not.  A project swaps the two columns' names.   *)
(* The order of conjuncts, which the optimizer changes, is left out.       *)
(***************************************************************************)
EXTENDS Integers, Sequences, FiniteSets, SequencesExt

CONSTANTS
    Null,          \* a column without a value; no limit; no sample
    MaxPushdown,   \* COHORT_PUSHDOWN_MAX_SIZE
    Jobs           \* [stages: from the source on, groups: of [entity, value, pos]]

VARIABLES
    job,    \* the query and the table's row groups
    state,  \* [plan, limits: limit_remaining of each node, next, done]
    out     \* the result's rows

vars == <<job, state, out>>

-----------------------------------------------------------------------------
(* Lowering: nodes in the order of the data, a segment for each run of filters, *)
(* projects and limits.                                                        *)

AppendStatelessStep(nodes, step) ==
    IF nodes # <<>> /\ nodes[Len(nodes)].kind = "Segment"
    THEN [nodes EXCEPT ![Len(nodes)].steps = Append(@, step)]
    ELSE Append(nodes, [kind |-> "Segment", steps |-> <<step>>])

LowerStage(nodes, stage) ==
    IF stage.kind \in {"Sample", "Cohort"} THEN Append(nodes, stage)
    ELSE AppendStatelessStep(nodes, stage)

LowerPhysical(stages) ==
    [scan |-> [preds |-> {}, sample |-> Null], nodes |-> FoldLeft(LowerStage, <<>>, stages)]

-----------------------------------------------------------------------------
(* Optimizer, in the order of its passes *)

\* Mutant: any segment lets a sample through.
CanPushThroughAny(node) == node.kind = "Segment"

CanPushThrough(node) ==
    /\ node.kind = "Segment"
    /\ \A i \in DOMAIN node.steps : node.steps[i].kind \in {"Filter", "Project"}

\* The lowest sample goes into the scan if nothing but filters and projects is
\* below it.
PushdownSample(plan) ==
    LET pushable == {i \in DOMAIN plan.nodes :
                        /\ plan.nodes[i].kind = "Sample"
                        /\ \A j \in 1..(i - 1) : CanPushThrough(plan.nodes[j])}
    IN  IF pushable = {} THEN plan
        ELSE LET i == CHOOSE i \in pushable : TRUE
             IN  [scan |-> [plan.scan EXCEPT !.sample = plan.nodes[i].entities],
                  nodes |-> RemoveAt(plan.nodes, i)]

SupportedPushdownShape(c) == c.op \in {"In", "Ge"}

\* A leading filter gives the scan the conjuncts it takes.  The pass does not
\* look below a sample or a cohort filter.
PushdownPredicates(plan) ==
    IF /\ plan.nodes # <<>>
       /\ \A i \in DOMAIN plan.nodes : plan.nodes[i].kind = "Segment"
       /\ plan.nodes[1].steps[1].kind = "Filter"
    THEN LET segment == plan.nodes[1]
             pushed  == {c \in segment.steps[1].conjuncts : SupportedPushdownShape(c)}
             residue == segment.steps[1].conjuncts \ pushed
             steps   == (IF residue = {} THEN <<>> ELSE <<[kind |-> "Filter", conjuncts |-> residue]>>)
                            \o Tail(segment.steps)
         IN  [scan  |-> [plan.scan EXCEPT !.preds = @ \cup pushed],
              nodes |-> (IF steps = <<>> THEN <<>> ELSE <<[segment EXCEPT !.steps = steps]>>)
                            \o Tail(plan.nodes)]
    ELSE plan

\* IN lists of one column become one list.
CoalesceConjuncts(preds) ==
    LET lists == {c \in preds : c.op = "In"}
    IN  (preds \ lists) \cup
        {[op |-> "In", column |-> column,
          vals |-> UNION {c.vals : c \in {d \in lists : d.column = column}}] :
            column \in {c.column : c \in lists}}

CoalesceScanPredicates(plan) ==
    IF \A i \in DOMAIN plan.nodes : plan.nodes[i].kind = "Segment"
    THEN [plan EXCEPT !.scan.preds = CoalesceConjuncts(@)]
    ELSE plan

Optimize(plan) == CoalesceScanPredicates(PushdownPredicates(PushdownSample(plan)))

-----------------------------------------------------------------------------
(* Bind step *)

\* try_extract_entity_pushdown: the column is the scan's entity column by name.
ExtractsEntityPushdown(cohort) ==
    /\ cohort.column = "entity"
    /\ cohort.keys \ {Null} # {}
    /\ Cardinality(cohort.keys) < MaxPushdown

\* The cohorts that reach the scan: a sample in between drops them.
PendingPushdowns(nodes) ==
    {nodes[i].keys \ {Null} : i \in {i \in DOMAIN nodes :
        /\ nodes[i].kind = "Cohort"
        /\ ExtractsEntityPushdown(nodes[i])
        /\ \A j \in 1..(i - 1) : nodes[j].kind # "Sample"}}

IsLimit(step) == step.kind = "Limit"

\* A segment has one count, that of its last limit.
LimitRemaining(node) ==
    IF node.kind # "Segment" THEN Null
    ELSE LET limits == SelectSeq(node.steps, IsLimit)
         IN  IF limits = <<>> THEN Null ELSE limits[Len(limits)].n

Init ==
    \E j \in Jobs : LET plan == Optimize(LowerPhysical(j.stages)) IN
        /\ job = j
        /\ state = [plan |-> plan, limits |-> [i \in DOMAIN plan.nodes |-> LimitRemaining(plan.nodes[i])],
                    next |-> 1, done |-> FALSE]
        /\ out = <<>>

-----------------------------------------------------------------------------
(* Execution *)

Holds(row, c) ==
    LET v == row[c.column]
    IN  CASE c.op = "In"    -> v # Null /\ v \in c.vals
          [] c.op = "NotIn" -> v # Null /\ v \notin c.vals
          [] c.op = "Ge"    -> v # Null /\ \E w \in c.vals : w <= v

Filtered(rows, conjuncts) == SelectSeq(rows, LAMBDA row : \A c \in conjuncts : Holds(row, c))

Projected(rows) ==
    [i \in DOMAIN rows |-> [entity |-> rows[i].value, value |-> rows[i].entity, pos |-> rows[i].pos]]

Probed(rows, cohort) ==
    SelectSeq(rows, LAMBDA row : row[cohort.column] # Null /\ row[cohort.column] \in cohort.keys)

Sampled(rows, entities) == SelectSeq(rows, LAMBDA row : row.entity \in entities)

Prefix(rows, n) == SubSeq(rows, 1, Min({n, Len(rows)}))

\* One step of a segment on acc = [rows, remaining].
ApplyStep(acc, step) ==
    CASE step.kind = "Filter"  -> [acc EXCEPT !.rows = Filtered(@, step.conjuncts)]
      [] step.kind = "Project" -> [acc EXCEPT !.rows = Projected(@)]
      [] step.kind = "Limit"   -> LET rows == Prefix(acc.rows, acc.remaining)
                                  IN  [rows |-> rows, remaining |-> acc.remaining - Len(rows)]

\* The batch that leaves node i, and the counts.
ApplyNode(acc, i) ==
    LET node == state.plan.nodes[i]
    IN  CASE node.kind = "Sample" -> [acc EXCEPT !.rows = Sampled(@, node.entities)]
          [] node.kind = "Cohort" -> [acc EXCEPT !.rows = Probed(@, node)]
          [] node.kind = "Segment" ->
                LET res == FoldLeft(ApplyStep, [rows |-> acc.rows, remaining |-> acc.limits[i]], node.steps)
                IN  [rows |-> res.rows, limits |-> [acc.limits EXCEPT ![i] = res.remaining]]

Scanned(group) ==
    LET rows == Filtered(group, state.plan.scan.preds)
    IN  IF state.plan.scan.sample = Null THEN rows ELSE Sampled(rows, state.plan.scan.sample)

\* Whether the zone map of a row group's entities meets a cohort's extent.
ZoneAccepts(group, keys) ==
    /\ \E k \in keys : \E row \in Range(group) : row.entity <= k
    /\ \E k \in keys : \E row \in Range(group) : k <= row.entity

LimitAtZero == \E i \in DOMAIN state.limits : state.limits[i] = 0

Pulling == ~state.done /\ ~LimitAtZero /\ state.next <= Len(job.groups)

SkipRowGroup ==
    /\ Pulling
    /\ \E keys \in PendingPushdowns(state.plan.nodes) : ~ZoneAccepts(job.groups[state.next], keys)
    /\ state' = [state EXCEPT !.next = @ + 1]
    /\ UNCHANGED <<job, out>>

NextBatch ==
    /\ Pulling
    /\ \A keys \in PendingPushdowns(state.plan.nodes) : ZoneAccepts(job.groups[state.next], keys)
    /\ LET acc == FoldLeft(ApplyNode,
                           [rows |-> Scanned(job.groups[state.next]), limits |-> state.limits],
                           [i \in DOMAIN state.plan.nodes |-> i])
       IN  /\ out' = out \o acc.rows
           /\ state' = [state EXCEPT !.next = @ + 1, !.limits = acc.limits]
    /\ UNCHANGED job

\* No row group is left, or a segment has its limit and pulls no more.
EndOfStream ==
    /\ ~state.done
    /\ ~Pulling
    /\ state' = [state EXCEPT !.done = TRUE]
    /\ UNCHANGED <<job, out>>

Next == SkipRowGroup \/ NextBatch \/ EndOfStream

Spec == Init /\ [][Next]_vars

-----------------------------------------------------------------------------
(* Properties *)

\* The stages one after the other, each on all rows.
ApplyStage(rows, stage) ==
    CASE stage.kind = "Filter"  -> Filtered(rows, stage.conjuncts)
      [] stage.kind = "Project" -> Projected(rows)
      [] stage.kind = "Limit"   -> Prefix(rows, stage.n)
      [] stage.kind = "Sample"  -> Sampled(rows, stage.entities)
      [] stage.kind = "Cohort"  -> Probed(rows, stage)

Meaning == FoldLeft(ApplyStage, FlattenSeq(job.groups), job.stages)

\* Queries that the code answers otherwise: two limits in one segment share a
\* count; IN lists are united where AND wants the common values; a cohort's
\* entities skip row groups below a limit; a cohort or a sample above a project
\* takes the renamed column for the source's entity column or the reverse.
TwoLimits ==
    \E i \in DOMAIN state.plan.nodes :
        /\ state.plan.nodes[i].kind = "Segment"
        /\ Len(SelectSeq(state.plan.nodes[i].steps, IsLimit)) > 1

InListsUnited ==
    LET preds == PushdownPredicates(PushdownSample(LowerPhysical(job.stages))).scan.preds
    IN  CoalesceConjuncts(preds) # preds

Below(kind, above) ==
    \E i, j \in DOMAIN job.stages : i < j /\ job.stages[i].kind = kind /\ job.stages[j].kind = above

Covered ==
    /\ ~TwoLimits
    /\ ~InListsUnited
    /\ ~Below("Limit", "Cohort")
    /\ ~Below("Project", "Cohort")
    /\ ~Below("Project", "Sample")

\* The optimized plan, pulled batch by batch with row groups skipped, returns
\* what the query's stages mean, in the same order.
PlanExact == state.done /\ Covered => out = Meaning
=============================================================================
