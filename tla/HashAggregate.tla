--------------------------- MODULE HashAggregate ---------------------------
(***************************************************************************)
(* STATS: the rows of every shard go into a hash accumulator of the        *)
(* shard's own, the coordinator merges the accumulators in shard order,    *)
(* and the groups of the result are sorted.  A query that is not spread    *)
(* over shards is one shard.                                               *)
(*                                                                         *)
(* A batch whose group column is dictionary-encoded carries codes into its *)
(* own dictionary; the dictionary may hold a null or a value twice.  The   *)
(* group's key is a sequence of one value, or of none without GROUP BY.    *)
(* Percentiles and the widths of floats are left out.                      *)
(***************************************************************************)
EXTENDS Integers, Sequences, FiniteSets, FiniteSetsExt, SequencesExt

CONSTANTS
    Null,   \* no value, no dictionary
    Width,  \* bits of an integer
    Jobs    \* [shards, functions, type, inputType, grouped, maxGroups]

Functions == {"Count", "CountColumn", "CountDistinct", "Sum", "Avg", "Min", "Max"}

Value == Int \cup {Null}

Batch == [dict : {Null} \cup Seq(Value), rows : Seq([g : Value, v : Value])]

\* What the child of an aggregation and the planner hand over.  A dictionary has
\* the codes of its batch; all values are of one type, which may not be told.
AggInputs ==
    /\ Null \notin Int \cup {"Float"}
    /\ 2^(Width - 1) \in Nat \ {0} /\ 2^Width = 2 * 2^(Width - 1)
    /\ \A j \in Jobs :
        /\ j.shards # <<>> /\ j.shards \in Seq(Seq(Batch))
        /\ \A s \in DOMAIN j.shards : \A b \in DOMAIN j.shards[s] :
              LET batch == j.shards[s][b]
              IN  batch.dict # Null =>
                    \A i \in DOMAIN batch.rows : batch.rows[i].g \in DOMAIN batch.dict \cup {Null}
        /\ j.functions \subseteq Functions
        /\ j.type \in {"Int", "Float"} /\ j.inputType \in {j.type, Null}
        /\ j.grouped \in BOOLEAN /\ j.maxGroups \in Nat

VARIABLES
    job,    \* each shard's batches [dict, rows: of [g, v]]; the type of the values
    state,  \* [next: of each shard, accs: of each shard, done]
    out     \* [failed, groups: sequence of [key, values]]

vars == <<job, state, out>>

-----------------------------------------------------------------------------
(* One aggregate function's state in a group *)

\* i64 addition.
Wrapped(n) == ((n + 2^(Width - 1)) % 2^Width) - 2^(Width - 1)

NewState(f) ==
    CASE f \in {"Count", "CountColumn", "Sum"} -> 0
      [] f \in {"Min", "Max"} -> Null
      [] f = "Avg" -> [sum |-> 0, count |-> 0]
      [] f = "CountDistinct" -> {}

\* The sum's variant is that of the input type, an integer's if none was given;
\* a sum of integers takes no floats.
AddToSum(s, v) ==
    IF job.inputType = "Float" THEN s + v
    ELSE IF job.type = "Int" THEN Wrapped(s + v)
    ELSE s

UpdateState(f, s, v) ==
    IF f = "Count" THEN s + 1
    ELSE IF v = Null THEN s
    ELSE CASE f = "CountColumn" -> s + 1
           [] f = "Sum" -> AddToSum(s, v)
           [] f = "Min" -> IF s = Null \/ v < s THEN v ELSE s
           [] f = "Max" -> IF s = Null \/ v > s THEN v ELSE s
           [] f = "Avg" -> [sum |-> s.sum + v, count |-> s.count + 1]
           [] f = "CountDistinct" -> s \cup {v}

MergeState(f, a, b) ==
    CASE f \in {"Count", "CountColumn"} -> a + b
      [] f = "Sum" -> IF job.inputType = "Float" THEN a + b ELSE Wrapped(a + b)
      [] f = "Min" -> IF b # Null /\ (a = Null \/ b < a) THEN b ELSE a
      [] f = "Max" -> IF b # Null /\ (a = Null \/ b > a) THEN b ELSE a
      [] f = "Avg" -> [sum |-> a.sum + b.sum, count |-> a.count + b.count]
      [] f = "CountDistinct" -> a \cup b

\* An average is the fraction <<sum, count>>.
Finalize(f, s) ==
    CASE f = "Avg" -> IF s.count = 0 THEN Null ELSE <<s.sum, s.count>>
      [] f = "CountDistinct" -> Cardinality(s)
      [] OTHER -> s

-----------------------------------------------------------------------------
(* The accumulator: [groups: key -> function -> state, full] *)

NoGroups == [groups |-> <<>>, full |-> FALSE]

\* full: a group more than max_groups was asked for, the caller gives up.
LookupOrInsert(acc, key) ==
    IF acc.full \/ key \in DOMAIN acc.groups THEN acc
    ELSE IF Cardinality(DOMAIN acc.groups) >= job.maxGroups THEN [acc EXCEPT !.full = TRUE]
    ELSE [acc EXCEPT !.groups =
            [k \in DOMAIN @ \cup {key} |->
                IF k = key THEN [f \in job.functions |-> NewState(f)] ELSE @[k]]]

UpdateRow(acc, key, v) ==
    LET found == LookupOrInsert(acc, key)
    IN  IF found.full THEN found
        ELSE [found EXCEPT !.groups[key] = [f \in job.functions |-> UpdateState(f, @[f], v)]]

\* Mutant: a null in the dictionary is a code like the others.
SlotUnfolded(batch, row) == row.g

\* The slot of a row's code; a null code and a code of a null share one.
Slot(batch, row) == IF row.g # Null /\ batch.dict[row.g] = Null THEN Null ELSE row.g

\* The slot's key.  The text behind a null entry is empty, which 0 stands for.
SlotKey(batch, slot) ==
    <<IF slot = Null THEN Null ELSE IF batch.dict[slot] = Null THEN 0 ELSE batch.dict[slot]>>

RowKey(batch, row) ==
    CASE ~job.grouped -> <<>>
      [] job.grouped /\ batch.dict = Null -> <<row.g>>
      [] OTHER -> SlotKey(batch, Slot(batch, row))

\* A slot's rows are added to its group at once.
FlushSlot(batch, slot, acc) ==
    LET key   == SlotKey(batch, slot)
        found == LookupOrInsert(acc, key)
        count == Cardinality({i \in DOMAIN batch.rows : Slot(batch, batch.rows[i]) = slot})
    IN  IF found.full THEN found ELSE [found EXCEPT !.groups[key]["Count"] = @ + count]

\* Only COUNT(*): the batch is counted by slot, and a group is looked up once.
UpdateByHistogram(acc, batch) ==
    FoldSet(LAMBDA slot, a : FlushSlot(batch, slot, a), acc,
            {Slot(batch, batch.rows[i]) : i \in DOMAIN batch.rows})

UpdateEvaluated(acc, batch) ==
    IF job.grouped /\ batch.dict # Null /\ job.functions = {"Count"}
    THEN UpdateByHistogram(acc, batch)
    ELSE FoldLeft(LAMBDA a, row : UpdateRow(a, RowKey(batch, row), row.v), acc, batch.rows)

\* A group of another accumulator is added to one's own.
MergeGroup(other, key, acc) ==
    LET found == LookupOrInsert(acc, key)
    IN  IF found.full THEN found
        ELSE [found EXCEPT !.groups[key] =
                [f \in job.functions |-> MergeState(f, @[f], other.groups[key][f])]]

\* Accumulator::merge.
MergeInto(acc, other) ==
    FoldSet(LAMBDA key, a : MergeGroup(other, key, a), acc, DOMAIN other.groups)

\* Without GROUP BY there is a row even if there was none to aggregate.
EnsureDefaultGroup(acc) ==
    IF ~job.grouped /\ DOMAIN acc.groups = {} THEN LookupOrInsert(acc, <<>>) ELSE acc

\* Keys in the order of scalars: nulls first.
KeyBefore(k, l) ==
    k # l /\ (k[1] = Null \/ (l[1] # Null /\ k[1] < l[1]))

\* Keys in their order: as many are before a key as places are.
Sorted(keys) ==
    [i \in 1..Cardinality(keys) |->
        CHOOSE k \in keys : Cardinality({l \in keys : KeyBefore(l, k)}) = i - 1]

FinishGroups(acc) ==
    LET keys == Sorted(DOMAIN acc.groups)
    IN  [i \in DOMAIN keys |->
            [key    |-> keys[i],
             values |-> [f \in job.functions |-> Finalize(f, acc.groups[keys[i]][f])]]]

-----------------------------------------------------------------------------
Groups(groups) == [failed |-> FALSE, groups |-> groups]

MaxGroupsExceeded == [failed |-> TRUE, groups |-> <<>>]

Init ==
    \E j \in Jobs :
        /\ job = j
        /\ state = [next |-> [s \in DOMAIN j.shards |-> 1],
                    accs |-> [s \in DOMAIN j.shards |-> NoGroups], done |-> FALSE]
        /\ out = Null

\* A worker takes its shard's next batch; its error is the query's.
UpdateBatch(s) ==
    /\ ~state.done
    /\ state.next[s] <= Len(job.shards[s])
    /\ LET acc == UpdateEvaluated(state.accs[s], job.shards[s][state.next[s]])
       IN  /\ state' = [state EXCEPT !.next[s] = @ + 1, !.accs[s] = acc, !.done = acc.full]
           /\ out' = IF acc.full THEN MaxGroupsExceeded ELSE out
    /\ UNCHANGED job

\* All shards are read: the coordinator merges them in their order.
MergeAndFinish ==
    /\ ~state.done
    /\ \A s \in DOMAIN job.shards : state.next[s] > Len(job.shards[s])
    /\ LET acc == EnsureDefaultGroup(FoldLeft(MergeInto, Head(state.accs), Tail(state.accs)))
       IN  out' = IF acc.full THEN MaxGroupsExceeded ELSE Groups(FinishGroups(acc))
    /\ state' = [state EXCEPT !.done = TRUE]
    /\ UNCHANGED job

Next == (\E s \in DOMAIN job.shards : UpdateBatch(s)) \/ MergeAndFinish

Spec == Init /\ [][Next]_vars

-----------------------------------------------------------------------------
(* What is to be aggregated *)

\* Rows by shard, batch and place.
Rows ==
    UNION {UNION {{<<s, b, i>> : i \in DOMAIN job.shards[s][b].rows} : b \in DOMAIN job.shards[s]} :
           s \in DOMAIN job.shards}

RowAt(r) == job.shards[r[1]][r[2]].rows[r[3]]

Key(r) ==
    LET dict == job.shards[r[1]][r[2]].dict
        g    == RowAt(r).g
    IN  IF ~job.grouped THEN <<>> ELSE <<IF dict = Null \/ g = Null THEN g ELSE dict[g]>>

ValueOf(r) == RowAt(r).v

Aggregated(f, key) ==
    LET all    == {r \in Rows : Key(r) = key}
        some   == {r \in all : ValueOf(r) # Null}
        values == {ValueOf(r) : r \in some}
        sum    == MapThenSumSet(ValueOf, some)
    IN  CASE f = "Count" -> Cardinality(all)
          [] f = "CountColumn" -> Cardinality(some)
          [] f = "CountDistinct" -> Cardinality(values)
          [] f = "Sum" -> IF job.type = "Int" THEN Wrapped(sum) ELSE sum
          [] f = "Avg" -> IF some = {} THEN Null ELSE <<sum, Cardinality(some)>>
          [] f = "Min" -> IF values = {} THEN Null ELSE CHOOSE v \in values : \A w \in values : v <= w
          [] f = "Max" -> IF values = {} THEN Null ELSE CHOOSE v \in values : \A w \in values : w <= v

Aggregate ==
    LET keys == Sorted(IF job.grouped THEN {Key(r) : r \in Rows} ELSE {<<>>})
    IN  IF Len(keys) > job.maxGroups THEN MaxGroupsExceeded
        ELSE Groups([i \in DOMAIN keys |->
                [key |-> keys[i], values |-> [f \in job.functions |-> Aggregated(f, keys[i])]]])

\* A sum of floats whose input type the operator was not told, as happens when it
\* is fused with MATCH, SESSIONIZE, EVENT or ATTRIBUTE.
FloatSumUntyped == job.type = "Float" /\ job.inputType = Null /\ "Sum" \in job.functions

\* However the rows are spread over shards, cut into batches and encoded, the
\* result is that of aggregating all rows at once; the query fails exactly when
\* there are more groups than it may have.
AggregateExact == state.done /\ ~FloatSumUntyped => out = Aggregate
=============================================================================
