---------------------------- MODULE MCTableStore ----------------------------
(* Instances of TableStore for TLC.  Two windows of two ticks; entities 0  *)
(* and 1 either share shard 0 or have a shard each.                         *)
EXTENDS TableStore

Apart == [e \in Entities |-> e]
Together == [e \in Entities |-> 0]

\* "WHERE ts = t", for every t.
AtTime == {Entities \X {t} : t \in Times}
=============================================================================
