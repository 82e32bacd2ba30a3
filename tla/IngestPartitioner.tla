------------------------- MODULE IngestPartitioner -------------------------
(***************************************************************************)
(* One INSERT from the reader's events to the row groups of its segments.  *)
(* The partitioner buffers events in buckets of a window and a shard; when *)
(* an event does not fit into the budget it sorts the largest bucket and   *)
(* writes it as a run, until the event fits.  The drain merges the runs of *)
(* each bucket and what is left of it in memory, and the segment writer    *)
(* cuts the result into row groups.                                        *)
(*                                                                         *)
(* How the segments get their ids and into the manifest is in TableStore.  *)
(***************************************************************************)
EXTENDS Integers, Sequences, FiniteSets, FiniteSetsExt, SequencesExt

CONSTANTS
    WindowDays,  \* DEFAULT_WINDOW_DAYS
    Jobs         \* [events, shardOf, budget, rowGroupSize]

SourceEvent == [entity : Int, day : Int, bytes : Nat]

\* What a reader hands to an INSERT; every entity has a shard.
IngestInputs ==
    /\ WindowDays \in Nat \ {0}
    /\ \A j \in Jobs :
        /\ j.events \in Seq(SourceEvent)
        /\ \A i \in DOMAIN j.events : j.shardOf[j.events[i].entity] \in Nat
        /\ j.budget \in Nat \ {0} /\ j.rowGroupSize \in Nat \ {0}

VARIABLES
    job,    \* the events [entity, day, bytes] in the order of the source
    state,  \* [next, buckets: key -> events, runs: key -> runs, buffered, drained, result]
    out     \* the segments [key, groups], events as positions in the source

vars == <<job, state, out>>

Key(window, shard) == <<window, shard>>

\* window_id_for.
WindowId(day) == day - (day % WindowDays)

KeyBefore(k, l) == k[1] < l[1] \/ (k[1] = l[1] /\ k[2] < l[2])

Init ==
    \E j \in Jobs :
        /\ job = j
        /\ state = [next |-> 1, buckets |-> <<>>, runs |-> <<>>, buffered |-> 0,
                    drained |-> {}, result |-> "pushing"]
        /\ out = <<>>

Event(i) == job.events[i]

\* A bucket or the runs of a key; a key that has none is not in the map.
Of(map, key) == IF key \in DOMAIN map THEN map[key] ELSE <<>>

With(map, key, value) ==
    [k \in DOMAIN map \cup {key} |-> IF k = key THEN value ELSE map[k]]

Without(map, key) == [k \in DOMAIN map \ {key} |-> map[k]]

Bytes(bucket) == MapThenSumSet(LAMBDA i : Event(i).bytes, Range(bucket))

-----------------------------------------------------------------------------
(* push_event *)

Pushing == state.result = "pushing" /\ state.next <= Len(job.events)

PreEpoch == Event(state.next).day < 0

Fits == state.buffered + Event(state.next).bytes <= job.budget

BucketKey(i) == Key(WindowId(Event(i).day), job.shardOf[Event(i).entity])

Push ==
    /\ Pushing
    /\ ~PreEpoch
    /\ Fits
    /\ LET key == BucketKey(state.next)
       IN  state' = [state EXCEPT !.next = @ + 1,
                                  !.buckets = With(@, key, Append(Of(@, key), state.next)),
                                  !.buffered = @ + Event(state.next).bytes]
    /\ UNCHANGED <<job, out>>

\* By entity and time; events that tie keep their order.
SortsBefore(i, j) ==
    \/ Event(i).entity < Event(j).entity
    \/ Event(i).entity = Event(j).entity /\ Event(i).day < Event(j).day

StablySorted(bucket) ==
    LET Ahead(m, n) == \/ SortsBefore(bucket[m], bucket[n])
                       \/ ~SortsBefore(bucket[n], bucket[m]) /\ m < n
        Place(m) == 1 + Cardinality({n \in DOMAIN bucket : Ahead(n, m)})
    IN  [p \in DOMAIN bucket |-> bucket[CHOOSE m \in DOMAIN bucket : Place(m) = p]]

\* largest_bucket_key: the smallest key among the largest buckets.
LargestBucket ==
    LET size(k)  == Bytes(state.buckets[k])
        largest  == {k \in DOMAIN state.buckets :
                        \A l \in DOMAIN state.buckets : size(l) <= size(k)}
    IN  CHOOSE k \in largest : \A l \in largest \ {k} : KeyBefore(k, l)

Overflows == Pushing /\ ~PreEpoch /\ ~Fits /\ DOMAIN state.buckets # {}

\* spill_bucket, one turn of the loop in push_event.
SpillBucket ==
    /\ Overflows
    /\ LET key == LargestBucket
       IN  state' = [state EXCEPT
                        !.buckets = Without(@, key),
                        !.runs = With(@, key, Append(Of(@, key), StablySorted(state.buckets[key]))),
                        !.buffered = @ - Bytes(state.buckets[key])]
    /\ UNCHANGED <<job, out>>

\* The run cannot be written: the bucket is lost, and the INSERT with it.
SpillFails ==
    /\ Overflows
    /\ state' = [state EXCEPT !.buckets = Without(@, LargestBucket), !.result = "Io"]
    /\ UNCHANGED <<job, out>>

\* An event before 1970, or one larger than the budget.
PushRefused ==
    /\ Pushing
    /\ PreEpoch \/ (~Fits /\ DOMAIN state.buckets = {})
    /\ state' = [state EXCEPT !.result = "Execution"]
    /\ UNCHANGED <<job, out>>

-----------------------------------------------------------------------------
(* drain_sorted and write_partitioner *)

\* Mutant: what is left in memory comes before the runs.
MergeInputsResidualFirst(key) == <<StablySorted(Of(state.buckets, key))>> \o Of(state.runs, key)

\* The runs in the order they were written, and what is left in memory.
MergeInputs(key) == Append(Of(state.runs, key), StablySorted(Of(state.buckets, key)))

\* One event from the heap of the runs' heads: by key, then by run.
PopHead(inputs, acc) ==
    LET live == {r \in DOMAIN inputs : acc.cursors[r] <= Len(inputs[r])}
        Next1(r) == inputs[r][acc.cursors[r]]
        r == CHOOSE r \in live : \A q \in live \ {r} :
                \/ SortsBefore(Next1(r), Next1(q))
                \/ ~SortsBefore(Next1(q), Next1(r)) /\ r < q
    IN  [cursors |-> [acc.cursors EXCEPT ![r] = @ + 1], merged |-> Append(acc.merged, Next1(r))]

\* The heap until it is empty; an event is in one run.
MergeRunsForBucket(key) ==
    LET inputs == MergeInputs(key)
        count  == Cardinality(UNION {Range(inputs[r]) : r \in DOMAIN inputs})
        pops[n \in 0..count] ==
            IF n = 0 THEN [cursors |-> [r \in DOMAIN inputs |-> 1], merged |-> <<>>]
            ELSE PopHead(inputs, pops[n - 1])
    IN  pops[count].merged

SameEntity(i, j) == Event(i).entity = Event(j).entity

\* Where the row group that starts at position start of the events ends: at the
\* target size, or where the entity begins that would be cut there, unless it
\* fills the group.
GroupEnd(events, start) ==
    LET rawEnd == Min({start + job.rowGroupSize - 1, Len(events)})
        cut    == rawEnd < Len(events) /\ SameEntity(events[rawEnd], events[rawEnd + 1])
        back   == {n \in start..rawEnd : ~SameEntity(events[n], events[rawEnd])}
    IN  IF cut /\ back # {} THEN Max(back) ELSE rawEnd

PlanRowGroups(events) ==
    LET starts[n \in 1..Len(events)] ==
            IF n = 1 THEN <<1>>
            ELSE LET last == starts[n - 1][Len(starts[n - 1])]
                 IN  IF n = GroupEnd(events, last) + 1 THEN Append(starts[n - 1], n) ELSE starts[n - 1]
        all == starts[Len(events)]
    IN  [g \in DOMAIN all |-> SubSeq(events, all[g], GroupEnd(events, all[g]))]

Undrained == (DOMAIN state.buckets \cup DOMAIN state.runs) \ state.drained

\* The next bucket becomes a segment.
WriteBucket ==
    /\ state.result = "pushing"
    /\ state.next > Len(job.events)
    /\ Undrained # {}
    /\ LET key == CHOOSE k \in Undrained : \A l \in Undrained \ {k} : KeyBefore(k, l)
       IN  /\ out' = Append(out, [key |-> key, groups |-> PlanRowGroups(MergeRunsForBucket(key))])
           /\ state' = [state EXCEPT !.drained = @ \cup {key}]
    /\ UNCHANGED job

Written ==
    /\ state.result = "pushing"
    /\ state.next > Len(job.events)
    /\ Undrained = {}
    /\ state' = [state EXCEPT !.result = "ok"]
    /\ UNCHANGED <<job, out>>

Next == Push \/ SpillBucket \/ SpillFails \/ PushRefused \/ WriteBucket \/ Written

Spec == Init /\ [][Next]_vars

-----------------------------------------------------------------------------
(* Properties *)

\* The order of entity, time and source.
Before(i, j) == SortsBefore(i, j) \/ (~SortsBefore(j, i) /\ i < j)

IsInOrder(events) == \A m, n \in DOMAIN events : m < n => Before(events[m], events[n])

\* An entity is cut only by a group that has the target size and no other entity.
GroupsKeepEntities(groups) ==
    \A g \in DOMAIN groups :
        /\ Len(groups[g]) \in 1..job.rowGroupSize
        /\ g < Len(groups) /\ SameEntity(groups[g][Len(groups[g])], groups[g + 1][1]) =>
            /\ Len(groups[g]) = job.rowGroupSize
            /\ \A i \in Range(groups[g]) : SameEntity(i, groups[g + 1][1])

\* However often buckets were spilled, an INSERT that succeeds writes one segment
\* for each window and shard, with all its events in order, those of equal entity
\* and time in the order of the source, in row groups that keep entities whole.
\* The buffer never exceeds the budget and its count is that of the buckets, and
\* an INSERT is refused only for an event that no budget or window can take.
IngestExact ==
    /\ state.result = "ok" =>
        /\ {out[n].key : n \in DOMAIN out} = {BucketKey(i) : i \in DOMAIN job.events}
        /\ \A m, n \in DOMAIN out : m < n => KeyBefore(out[m].key, out[n].key)
        /\ \A n \in DOMAIN out :
            /\ Range(FlattenSeq(out[n].groups)) =
                    {i \in DOMAIN job.events : BucketKey(i) = out[n].key}
            /\ IsInOrder(FlattenSeq(out[n].groups))
            /\ GroupsKeepEntities(out[n].groups)
    /\ state.result = "pushing" =>
        /\ state.buffered <= job.budget
        /\ state.buffered = MapThenSumSet(LAMBDA k : Bytes(state.buckets[k]), DOMAIN state.buckets)
    /\ state.result = "Execution" =>
        Event(state.next).day < 0 \/ Event(state.next).bytes > job.budget
=============================================================================
