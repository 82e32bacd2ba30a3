---------------------------- MODULE MCOperators ----------------------------
(***************************************************************************)
(* Operators with small jobs for each of the components.                   *)
(***************************************************************************)
EXTENDS Operators

-----------------------------------------------------------------------------
(* MATCH: patterns of two and three steps over the types A, B and C *)

Step(types, repeat, without, bound) ==
    [types |-> types, repeat |-> repeat, without |-> without, bound |-> bound]
Once(type) == Step({type}, "once", {}, FALSE)
Bound(type) == Step({type}, "once", {}, TRUE)

MatchPatterns ==
    {<<Once("A"), Once("A")>>,
     <<Once("A"), Once("B")>>,
     <<Once("A"), Once("B"), Once("C")>>,
     <<Step({"A"}, "once", {"C"}, FALSE), Once("B")>>,
     <<Once("A"), Step({"B"}, "plus", {}, FALSE), Once("C")>>,
     <<Once("A"), Step({"B"}, "star", {}, FALSE), Once("C")>>,
     <<Step({"A", "B"}, "once", {}, FALSE), Once("C")>>,
     <<Step({"A"}, "once", {"C"}, FALSE), Step({"B"}, "plus", {}, FALSE)>>}

BindingPatterns ==
    {<<Once("A"), Once("A")>>,
     <<Bound("A"), Bound("B")>>,
     <<Bound("A"), Step({"B"}, "plus", {}, TRUE), Once("C")>>}

\* Events 1 to n at the given times; a new session begins with event number s.
MatchEvents(n, keys, times, s) ==
    {[i \in 1..n |-> [type |-> ty[i], ts |-> times[i], key |-> k[i],
                      session |-> IF i >= s THEN 2 ELSE 1]] :
        ty \in [1..n -> {"A", "B", "C"}], k \in [1..n -> keys]}

MatchJob(pattern, all, window, perSession, events) ==
    [pattern |-> pattern, matchAll |-> all, emitAll |-> TRUE, window |-> window,
     perSession |-> perSession, from |-> 1, to |-> 6, events |-> events]

MatchCases ==
    {MatchJob(p, all, w, FALSE, ev) : p \in MatchPatterns, all \in BOOLEAN, w \in {Null, 2},
        ev \in MatchEvents(4, {Null}, <<1, 2, 2, 3>>, 9) \cup MatchEvents(3, {Null}, <<1, 2, 4>>, 9)}
    \cup {MatchJob(p, all, Null, TRUE, ev) : p \in MatchPatterns, all \in BOOLEAN,
        ev \in MatchEvents(4, {Null}, <<1, 2, 3, 4>>, 3)}
    \cup {MatchJob(p, all, w, FALSE, ev) : p \in BindingPatterns, all \in BOOLEAN, w \in {Null, 2},
        ev \in MatchEvents(3, {Null, "x", "y"}, <<1, 2, 3>>, 9)}

-----------------------------------------------------------------------------
(* SESSIONIZE, EVENT and ATTRIBUTE: four rows of one or two entities *)

EntityRows(times, types, wheres) ==
    {[i \in 1..4 |-> [entity |-> e[i], ts |-> t[i], type |-> ty[i], where |-> w[i], pos |-> i]] :
        e \in {<<1, 1, 1, 1>>, <<1, 1, 2, 2>>, <<1, 2, 2, 2>>},
        t \in times, ty \in [1..4 -> types], w \in wheres}

AllTrue == [i \in 1..4 |-> "true"]

EntityCases ==
    {[operator |-> "sessionize", op |-> [gap |-> 1, endEvents |-> {"b"}, cap |-> cap], rows |-> rows] :
        cap \in {1, 2, 5},
        rows \in EntityRows({<<1, 2, 3, 4>>, <<1, 2, 4, 5>>, <<1, 3, 3, 4>>}, {"a", "b"}, {AllTrue})}
    \cup
    {[operator |-> "event_select", op |-> [kind |-> kind, n |-> 2, types |-> {"a"}], rows |-> rows] :
        kind \in {"First", "Last", "Nth"},
        rows \in EntityRows({<<1, 2, 3, 4>>}, {"a", "b"},
                            {[AllTrue EXCEPT ![3] = "null"], [AllTrue EXCEPT ![2] = "false"],
                             [AllTrue EXCEPT ![3] = "error"]})}
    \cup
    {[operator |-> "attribute",
      op |-> [conversions |-> {"c", "x"}, touchpoints |-> {"a", "x"}, window |-> window,
              from |-> 2, to |-> 5, cap |-> cap], rows |-> rows] :
        window \in {0, 1, 2}, cap \in {1, 2},
        rows \in EntityRows({<<1, 2, 3, 4>>, <<1, 2, 2, 4>>}, {"a", "x", "c"}, {AllTrue})}

-----------------------------------------------------------------------------
(* ORDER BY: four rows in two or three batches, under budgets that hold all,   *)
(* some or hardly any of them                                                  *)

SortBatches(rows, cut) ==
    IF cut = 1 THEN <<SubSeq(rows, 1, 1), SubSeq(rows, 2, 3), SubSeq(rows, 4, 4)>>
    ELSE <<SubSeq(rows, 1, 2), SubSeq(rows, 3, 4)>>

SortLimits ==
    {<<3, 0, 4, TRUE>>, <<3, 1, 4, TRUE>>, <<2, 1, 4, TRUE>>, <<4, 0, 3, TRUE>>, <<3, 0, 4, FALSE>>,
     <<4, 0, 4, FALSE>>}

SortCases ==
    {[batches |-> SortBatches([i \in 1..4 |-> [key |-> keys[i], pos |-> i]], cut), desc |-> desc,
      budget |-> l[1], others |-> l[2], maxRows |-> l[3], canSpill |-> l[4]] :
        keys \in [1..4 -> {1, 2, Null}], cut \in 1..2, desc \in BOOLEAN, l \in SortLimits}
    \cup {[batches |-> batches, desc |-> FALSE, budget |-> 3, others |-> 0, maxRows |-> 4,
           canSpill |-> TRUE] : batches \in {<<>>, <<<<>>>>}}

-----------------------------------------------------------------------------
(* Stateless stages: all queries of at most three of these *)

Condition(op, column, vals) == [op |-> op, column |-> column, vals |-> vals]
Where(conditions) == [kind |-> "Filter", conjuncts |-> conditions]

Stages ==
    {Where({Condition("In", "value", {1, 2})}),
     Where({Condition("In", "value", {1, 2}), Condition("NotIn", "entity", {3})}),
     Where({Condition("In", "value", {1, 2}), Condition("In", "value", {2, 3})}),
     Where({Condition("Ge", "entity", {2})}),
     [kind |-> "Project"],
     [kind |-> "Limit", n |-> 1], [kind |-> "Limit", n |-> 2],
     [kind |-> "Sample", entities |-> {1, 3}],
     [kind |-> "Cohort", column |-> "entity", keys |-> {2, Null}],
     [kind |-> "Cohort", column |-> "value", keys |-> {2}]}

PlanRow(entity, value, pos) == [entity |-> entity, value |-> value, pos |-> pos]

PlanCases ==
    {[stages |-> stages,
      groups |-> <<<<PlanRow(1, 2, 1), PlanRow(1, 1, 2)>>, <<PlanRow(2, 2, 3)>>,
                   <<PlanRow(2, Null, 4), PlanRow(3, 2, 5)>>>>] :
        stages \in UNION {[1..n -> Stages] : n \in 1..3}}

-----------------------------------------------------------------------------
(* STATS: two shards, the second with a batch that may be dictionary-encoded   *)
(* and an empty one                                                            *)

AggBatch(dict, keys, values) ==
    [dict |-> dict, rows |-> [i \in DOMAIN keys |-> [g |-> keys[i], v |-> values[i]]]]

AllFunctions == {"Count", "CountColumn", "CountDistinct", "Sum", "Avg", "Min", "Max"}

AggJob(shards, functions, limits) ==
    [shards |-> shards, functions |-> functions, type |-> limits[1], inputType |-> limits[2],
     grouped |-> limits[3], maxGroups |-> limits[4]]

AggLimits ==
    {<<"Int", "Int", TRUE, 3>>, <<"Int", Null, TRUE, 2>>, <<"Int", "Int", TRUE, 1>>,
     <<"Int", "Int", FALSE, 1>>, <<"Float", "Float", TRUE, 3>>, <<"Float", Null, TRUE, 3>>}

AggCases ==
    {AggJob(<<<<AggBatch(Null, g, <<3, 3>>)>>, <<AggBatch(dict, h, v), AggBatch(Null, <<>>, <<>>)>>>>,
            functions, limits) :
        g \in {<<1, 2>>, <<2, Null>>}, h \in [1..2 -> {1, 2, Null}],
        v \in {<<Null, Null>>, <<2, -4>>},
        dict \in {Null, <<1, 2>>, <<2, Null>>, <<2, 2>>},
        functions \in {{"Count"}, AllFunctions}, limits \in AggLimits}
    \cup {AggJob(<<<<>>, <<>>>>, AllFunctions, <<"Int", "Int", grouped, 2>>) : grouped \in BOOLEAN}

-----------------------------------------------------------------------------
(* INSERT: five events of three entities on two shards *)

IngestEvents(entities, days, bytes) ==
    [i \in DOMAIN entities |-> [entity |-> entities[i], day |-> days[i], bytes |-> bytes[i]]]

IngestCases ==
    {[events |-> IngestEvents(es, days, bytes), shardOf |-> <<1, 2, 1>>, budget |-> budget,
      rowGroupSize |-> size] :
        es \in [1..5 -> {1, 2, 3}], days \in {<<1, 1, 1, 1, 1>>, <<2, 1, 2, 1, 0>>},
        bytes \in {<<1, 1, 1, 1, 1>>, <<2, 1, 1, 2, 1>>}, budget \in {2}, size \in {2, 3}}
    \cup
    {[events |-> IngestEvents(<<1, 2, 3>>, days, bytes), shardOf |-> <<1, 1, 2>>, budget |-> 2,
      rowGroupSize |-> 2] :
        days \in {<<1, -1, 1>>, <<1, 1, 1>>}, bytes \in {<<1, 1, 1>>, <<1, 3, 1>>}}

-----------------------------------------------------------------------------
(* Columns of 4-bit integers: one row group of up to four values, two with     *)
(* nulls, and two long ones in which runs and dictionaries pay                 *)

Column(type, nullable, groups) == [type |-> type, nullable |-> nullable, groups |-> groups]

ColumnCases ==
    {Column("Timestamp", FALSE, <<values>>) :
        values \in UNION {[1..n -> {-8, -1, 0, 5, 7}] : n \in 1..4}}
    \cup {Column("Int", TRUE, <<<<a, Null, b>>, group>>) : a, b \in {Null, -8, 7},
            group \in {<<Null, Null>>, <<1, Null, -8>>, <<3>>}}
    \cup {Column("Int", nullable, <<[i \in 1..7 |-> IF i \in set THEN 7 ELSE -3],
                                    <<0, Null, 0, 0, 4, 4, 4, 4>>>>) :
            nullable \in BOOLEAN, set \in {{1, 3}, {1, 2}, {4}, {6, 7}, {2, 4, 6}}}

-----------------------------------------------------------------------------
(* Segments of three rows in two row groups *)

ScanRow(entity, ts, value) == [entity |-> entity, ts |-> ts, value |-> value]

ScanGroups(es, values, cut) ==
    LET rows == <<ScanRow(es[1], 1, values[1]), ScanRow(es[2], 2, values[2]), ScanRow(es[3], 1, values[3])>>
    IN  <<SubSeq(rows, 1, cut), SubSeq(rows, cut + 1, 3)>>

FileCases ==
    {[groups |-> ScanGroups(es, values, cut), stored |-> TRUE] :
        es \in {<<1, 1, 2>>, <<1, 2, 2>>}, values \in [1..3 -> {1, 2, Null}], cut \in 1..2}
    \cup {[groups |-> ScanGroups(<<1, 1, 2>>, <<Null, Null, Null>>, 1), stored |-> FALSE]}

NoDelete == [rows |-> {}, batch |-> FALSE, entities |-> {}, ranges |-> {}]

DeleteCases ==
    {NoDelete, [NoDelete EXCEPT !.batch = TRUE], [NoDelete EXCEPT !.entities = {1}],
     [NoDelete EXCEPT !.ranges = {<<2, 2>>}]}
    \cup {[NoDelete EXCEPT !.rows = {seq}] : seq \in 10..12}

ScanFilter(conditions, sample) == [conjuncts |-> conditions, sample |-> sample]

FilterCases ==
    {ScanFilter({Condition(c[1], c[2], c[3])}, {1, 2}) :
        c \in {<<"In", "value", {1}>>, <<"In", "value", {1, 2}>>, <<"NotEqual", "value", {1}>>,
               <<"Lt", "value", {2}>>, <<"Ge", "value", {2}>>, <<"IsNull", "value", {0}>>,
               <<"IsNotNull", "value", {0}>>, <<"EntityIn", "entity", {2}>>}}
    \cup {ScanFilter({}, {2})}

-----------------------------------------------------------------------------
\* The segment scan alone.
ScanInit == component = "scan" /\ Scan!Init

ScanNext == UNCHANGED component /\ Scan!Next

ScanSpec == ScanInit /\ [][ScanNext]_vars
=============================================================================
