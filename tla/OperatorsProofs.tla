-------------------------- MODULE OperatorsProofs --------------------------
(***************************************************************************)
(* What is proved of the sort, of SESSIONIZE, EVENT and ATTRIBUTE, of the  *)
(* segment scan, of INSERT and of STATS holds where they run side by side  *)
(* with the other components.  Operators has an instance of the sort, of   *)
(* the entity operators' adapter, of INSERT and of STATS, and this module  *)
(* one of their proofs: the lemmas say that both instances are the same.   *)
(* Of the scan the proof is here: a row group that a zone map rules out    *)
(* holds no row that is wanted.                                            *)
(***************************************************************************)
EXTENDS Operators, FiniteFacts

-----------------------------------------------------------------------------
(* The scan: zone maps *)

\* What the proofs use of the job at hand.
ScanJobOK ==
    /\ Null \notin Int
    /\ job.file.groups \in Seq(Seq(Scan!Row))
    /\ job.filter.conjuncts \subseteq Scan!Condition

RowsOf(g) == 1..Len(Scan!Group(g))

\* The rows of a row group are rows.
LEMMA GroupRows ==
    ASSUME ScanJobOK, NEW g \in DOMAIN job.file.groups
    PROVE  /\ Len(Scan!Group(g)) \in Nat
           /\ \A i \in RowsOf(g) : Scan!Group(g)[i] \in Scan!Row
  <1>1. Scan!Group(g) \in Seq(Scan!Row)
    BY DEF ScanJobOK, Scan!Group
  <1> QED BY <1>1 DEF RowsOf

\* A zone map bounds every value of its column that is not null, and counts the
\* nulls.
LEMMA ZoneBounds ==
    ASSUME ScanJobOK, NEW g \in DOMAIN job.file.groups, NEW column \in {"entity", "ts", "value"},
           NEW zone, zone = Scan!Zone(g, column), NEW i \in RowsOf(g)
    PROVE  LET v == Scan!Group(g)[i][column]
           IN  /\ v # Null => /\ v \in Int /\ zone.min \in Int /\ zone.max \in Int
                              /\ zone.min <= v /\ v <= zone.max
                              /\ zone.nulls < zone.rows
               /\ v = Null => zone.nulls > 0 /\ zone.nulls # 0
               /\ zone.nulls \in Nat /\ zone.rows \in Nat
  <1> DEFINE vals  == {Scan!Group(g)[k][column] : k \in RowsOf(g)} \ {Null}
             set   == IF vals = {} THEN {0} ELSE vals
             nulls == {k \in RowsOf(g) : Scan!Group(g)[k][column] = Null}
             v     == Scan!Group(g)[i][column]
  <1>1. /\ zone.min = CHOOSE u \in set : \A w \in set : u <= w
        /\ zone.max = CHOOSE u \in set : \A w \in set : w <= u
        /\ zone.nulls = Cardinality(nulls)
        /\ zone.rows = Len(Scan!Group(g))
    <2>1. \A S : Scan!Cardinality(S) = Cardinality(S)
      BY DEF Scan!Cardinality, Cardinality
    <2> HIDE DEF v
    <2> QED BY <2>1 DEF Scan!Zone, RowsOf
  <1>2. \A k \in RowsOf(g) : Scan!Group(g)[k][column] \in Int \cup {Null}
    BY GroupRows DEF Scan!Row
  <1>3. vals \in SUBSET Int
    BY <1>2
  <1>4. IsFiniteSet(RowsOf(g)) /\ Cardinality(RowsOf(g)) = Len(Scan!Group(g))
    <2> HIDE DEF vals, set, nulls, v
    <2>1. PICK n \in Nat : n = Len(Scan!Group(g))
      BY GroupRows
    <2>2. IsFiniteSet(1..n) /\ Cardinality(1..n) = n
      BY FS_Interval
    <2> QED BY <2>1, <2>2 DEF RowsOf
  <1>5. IsFiniteSet(vals)
    <2> DEFINE f == [k \in RowsOf(g) |-> Scan!Group(g)[k][column]]
    <2>1. IsFiniteSet({f[k] : k \in RowsOf(g)})
      <3>1. f = [k \in RowsOf(g) |-> f[k]]
        OBVIOUS
      <3> HIDE DEF f
      <3> QED BY <3>1, <1>4, FiniteImage
    <2>2. {f[k] : k \in RowsOf(g)} = {Scan!Group(g)[k][column] : k \in RowsOf(g)}
      OBVIOUS
    <2>3. vals \in SUBSET {f[k] : k \in RowsOf(g)}
      BY <2>2
    <2> QED BY <2>1, <2>3, FS_Subset
  <1>6. nulls \in SUBSET RowsOf(g)
    OBVIOUS
  <1>7. IsFiniteSet(nulls) /\ Cardinality(nulls) \in Nat
        /\ Cardinality(nulls) <= Len(Scan!Group(g))
        /\ (Cardinality(nulls) = Len(Scan!Group(g)) => nulls = RowsOf(g))
    BY <1>4, <1>6, FS_Subset, FS_CardinalityType
  <1>8. ASSUME v # Null
        PROVE  /\ v \in Int /\ zone.min \in Int /\ zone.max \in Int
               /\ zone.min <= v /\ v <= zone.max
               /\ zone.nulls < zone.rows
    <2>1. v \in vals
      BY <1>8
    <2>2. set = vals /\ vals # {}
      BY <2>1
    <2> HIDE DEF vals, set
    <2>3. zone.min \in vals /\ zone.max \in vals /\ zone.min <= v /\ v <= zone.max
      BY <1>1, <1>3, <1>5, <2>1, <2>2, Extremes
    <2>4. i \notin nulls
      BY <1>8
    <2>5. Cardinality(nulls) # Len(Scan!Group(g))
      BY <2>4, <1>7
    <2>6. Len(Scan!Group(g)) \in Nat
      BY GroupRows
    <2>7. zone.nulls < zone.rows
      BY <1>1, <1>7, <2>5, <2>6
    <2> QED BY <1>3, <2>1, <2>3, <2>7
  <1>9. ASSUME v = Null PROVE zone.nulls > 0 /\ zone.nulls # 0
    <2>1. i \in nulls
      BY <1>9
    <2>2. Cardinality(nulls) # 0
      BY <2>1, <1>7, FS_EmptySet
    <2> QED BY <1>1, <1>7, <2>2
  <1> QED BY <1>1, <1>7, <1>8, <1>9, GroupRows

\* A row group whose zone map rules out a condition holds no row that
\* satisfies it.
LEMMA ConditionPruned ==
    ASSUME ScanJobOK, NEW g \in DOMAIN job.file.groups, NEW c \in Scan!Condition,
           ~Scan!AcceptsZone(c, Scan!Zone(g, c.column)), NEW i \in RowsOf(g)
    PROVE  ~Scan!Satisfies(Scan!Group(g)[i], c)
  <1>1. PICK zone : zone = Scan!Zone(g, c.column)
    OBVIOUS
  <1>2. PICK v : v = Scan!Group(g)[i][c.column]
    OBVIOUS
  <1>3. c.column \in {"entity", "ts", "value"} /\ c.vals \in SUBSET Int
    BY DEF Scan!Condition
  <1>4. /\ v # Null => /\ v \in Int /\ zone.min \in Int /\ zone.max \in Int
                       /\ zone.min <= v /\ v <= zone.max
                       /\ zone.nulls < zone.rows
        /\ v = Null => zone.nulls > 0 /\ zone.nulls # 0
        /\ zone.nulls \in Nat /\ zone.rows \in Nat
    BY <1>1, <1>2, <1>3, ZoneBounds
  <1>5. ~Scan!AcceptsZone(c, zone)
    BY <1>1
  <1>6. Null \notin c.vals
    BY <1>3 DEF ScanJobOK
  <1> DEFINE row == Scan!Group(g)[i]
  <1>7. row[c.column] = v
    BY <1>2
  <1> HIDE DEF row
  <1>8. c.op \in {"In", "NotEqual", "Lt", "Ge", "IsNull", "IsNotNull", "EntityIn"}
    BY DEF Scan!Condition
  <1>9. CASE c.op = "In"
    <2>1. ~(zone.nulls < zone.rows /\ c.vals \cap zone.min..zone.max # {})
      BY <1>5, <1>9 DEF Scan!AcceptsZone
    <2>2. v \notin c.vals
      BY <2>1, <1>3, <1>4, <1>6
    <2> QED BY <1>7, <1>9, <2>2 DEF Scan!Satisfies, row
  <1>10. CASE c.op = "NotEqual"
    <2>1. zone.nulls = 0 /\ c.vals = {zone.min} /\ c.vals = {zone.max}
      BY <1>5, <1>10 DEF Scan!AcceptsZone
    <2>2. v = Null \/ v \in c.vals
      BY <2>1, <1>4
    <2> QED BY <1>7, <1>10, <2>2 DEF Scan!Satisfies, row
  <1>11. CASE c.op = "Lt"
    <2>1. ~(zone.nulls < zone.rows /\ \E w \in c.vals : zone.min < w)
      BY <1>5, <1>11 DEF Scan!AcceptsZone
    <2>2. ~(v # Null /\ \E w \in c.vals : v < w)
      BY <2>1, <1>3, <1>4
    <2> QED BY <1>7, <1>11, <2>2 DEF Scan!Satisfies, row
  <1>12. CASE c.op = "Ge"
    <2>1. ~(zone.nulls < zone.rows /\ \E w \in c.vals : w <= zone.max)
      BY <1>5, <1>12 DEF Scan!AcceptsZone
    <2>2. ~(v # Null /\ \E w \in c.vals : w <= v)
      BY <2>1, <1>3, <1>4
    <2> QED BY <1>7, <1>12, <2>2 DEF Scan!Satisfies, row
  <1>13. CASE c.op = "IsNull"
    <2>1. v # Null
      BY <1>4, <1>5, <1>13 DEF Scan!AcceptsZone
    <2> QED BY <1>7, <1>13, <2>1 DEF Scan!Satisfies, row
  <1>14. CASE c.op = "IsNotNull"
    <2>1. v = Null
      BY <1>4, <1>5, <1>14 DEF Scan!AcceptsZone
    <2> QED BY <1>7, <1>14, <2>1 DEF Scan!Satisfies, row
  <1>15. CASE c.op = "EntityIn"
    <2>1. ~(/\ zone.nulls < zone.rows
            /\ \E w \in c.vals : zone.min <= w
            /\ \E w \in c.vals : w <= zone.max)
      BY <1>5, <1>15 DEF Scan!AcceptsZone
    <2>2. v \notin c.vals
      BY <2>1, <1>4, <1>6
    <2> QED BY <1>7, <1>15, <2>2 DEF Scan!Satisfies, row
  <1> QED BY <1>8, <1>9, <1>10, <1>11, <1>12, <1>13, <1>14, <1>15

\* A row group that is skipped holds no row that is wanted.
LEMMA GroupPruned ==
    ASSUME ScanJobOK, NEW g \in DOMAIN job.file.groups, ~Scan!Accepts(g), NEW i \in RowsOf(g)
    PROVE  ~(Scan!PassesFilters(Scan!Group(g)[i]) /\ Scan!InCohort(Scan!Group(g)[i]))
  <1>1. CASE \E c \in job.filter.conjuncts : ~Scan!AcceptsZone(c, Scan!Zone(g, c.column))
    <2>1. PICK c \in job.filter.conjuncts : ~Scan!AcceptsZone(c, Scan!Zone(g, c.column))
      BY <1>1
    <2>2. c \in Scan!Condition
      BY DEF ScanJobOK
    <2>3. ~Scan!Satisfies(Scan!Group(g)[i], c)
      BY <2>1, <2>2, ConditionPruned
    <2> QED BY <2>3 DEF Scan!PassesFilters, Scan!InCohort
  <1>2. CASE ~Scan!SampleAcceptsZone(Scan!Zone(g, "entity"))
    <2>1. PICK zone : zone = Scan!Zone(g, "entity")
      OBVIOUS
    <2>2. zone.min = zone.max /\ zone.min \notin job.filter.sample
      BY <1>2, <2>1 DEF Scan!SampleAcceptsZone
    <2>3. Scan!Group(g)[i]["entity"] \in Int
      BY GroupRows DEF Scan!Row
    <2>4. Scan!Group(g)[i]["entity"] # Null
      BY <2>3 DEF ScanJobOK
    <2>5. zone.min \in Int /\ zone.max \in Int /\ zone.min <= Scan!Group(g)[i]["entity"]
          /\ Scan!Group(g)[i]["entity"] <= zone.max
      BY <2>1, <2>4, ZoneBounds
    <2>6. Scan!Group(g)[i].entity = zone.min
      BY <2>2, <2>3, <2>5
    <2> QED BY <2>2, <2>6 DEF Scan!PassesFilters
  <1> QED BY <1>1, <1>2 DEF Scan!Accepts

-----------------------------------------------------------------------------
(* Counting rows *)

LastGroup == Len(job.file.groups)

\* The rows in front of a row group are those of the groups in front of it:
LEMMA RowsBeforeIs ==
    \A g : Scan!RowsBefore(g) = Cardinality(UNION {Scan!Pos(h) : h \in 1..(g - 1)})
  <1>1. \A S : Scan!Cardinality(S) = Cardinality(S)
    BY DEF Scan!Cardinality, Cardinality
  <1> QED BY <1>1 DEF Scan!RowsBefore

\* none for the first, and one group more for the next.
LEMMA RowsBeforeNext ==
    ASSUME ScanJobOK, NEW g \in 1..LastGroup
    PROVE  /\ Scan!RowsBefore(1) = 0
           /\ Scan!RowsBefore(g + 1) = Scan!RowsBefore(g) + Len(Scan!Group(g))
  <1> DEFINE before == UNION {Scan!Pos(h) : h \in 1..(g - 1)}
  <1>1. DOMAIN job.file.groups = 1..LastGroup /\ LastGroup \in Nat
    BY DEF ScanJobOK, LastGroup
  <1>2. Scan!RowsBefore(1) = 0
    <2>1. UNION {Scan!Pos(h) : h \in 1..(1 - 1)} = {}
      OBVIOUS
    <2> QED BY <2>1, FS_EmptySet, RowsBeforeIs
  <1>3. ASSUME NEW h \in 1..LastGroup
        PROVE  IsFiniteSet(Scan!Pos(h)) /\ Cardinality(Scan!Pos(h)) = Len(Scan!Group(h))
    <2>1. PICK n \in Nat : n = Len(Scan!Group(h))
      BY <1>1, GroupRows
    <2>2. IsFiniteSet(1..n) /\ Cardinality(1..n) = n
      BY FS_Interval
    <2>3. IsFiniteSet({h}) /\ Cardinality({h}) = 1
      BY FS_Singleton
    <2>4. IsFiniteSet({h} \X (1..n)) /\ Cardinality({h} \X (1..n)) = 1 * n
      BY <2>2, <2>3, FS_Product
    <2>5. Scan!Pos(h) = {h} \X (1..n)
      BY <2>1 DEF Scan!Pos
    <2> QED BY <2>1, <2>4, <2>5
  <1>4. IsFiniteSet(before)
    <2> DEFINE f == [h \in 1..(g - 1) |-> Scan!Pos(h)]
    <2>1. IsFiniteSet(1..(g - 1))
      <3>1. g - 1 \in Int
        BY <1>1
      <3> HIDE DEF before, f
      <3> QED BY <3>1, FS_Interval
    <2>2. IsFiniteSet({f[h] : h \in 1..(g - 1)})
      <3>1. f = [h \in 1..(g - 1) |-> f[h]]
        OBVIOUS
      <3> HIDE DEF f
      <3> QED BY <3>1, <2>1, FiniteImage
    <2>3. {f[h] : h \in 1..(g - 1)} = {Scan!Pos(h) : h \in 1..(g - 1)}
      OBVIOUS
    <2>4. \A P \in {Scan!Pos(h) : h \in 1..(g - 1)} : IsFiniteSet(P)
      BY <1>1, <1>3
    <2> QED BY <2>2, <2>3, <2>4, FS_UNION
  <1>5. before \cap Scan!Pos(g) = {}
    BY <1>1 DEF Scan!Pos
  <1>6. UNION {Scan!Pos(h) : h \in 1..(g + 1 - 1)} = before \cup Scan!Pos(g)
    <2>1. 1..(g + 1 - 1) = 1..(g - 1) \cup {g}
      BY <1>1
    <2> QED BY <2>1
  <1> HIDE DEF before
  <1>7. PICK P : P = Scan!Pos(g)
    OBVIOUS
  <1>8. IsFiniteSet(P) /\ Cardinality(P) = Len(Scan!Group(g)) /\ before \cap P = {}
    BY <1>3, <1>5, <1>7
  <1>9. Cardinality(before \cup P) = Cardinality(before) + Cardinality(P) - Cardinality({})
    <2>1. Cardinality(before \cup P) = Cardinality(before) + Cardinality(P) - Cardinality(before \cap P)
      BY <1>4, <1>8, FS_Union
    <2> QED BY <2>1, <1>8
  <1>10. Cardinality(before) \in Nat /\ Cardinality(P) \in Nat /\ Cardinality({}) = 0
    BY <1>4, <1>8, FS_CardinalityType, FS_EmptySet
  <1>11. Scan!RowsBefore(g) = Cardinality(before)
    BY RowsBeforeIs DEF before
  <1>12. Scan!RowsBefore(g + 1) = Cardinality(before \cup P)
    BY <1>6, <1>7, RowsBeforeIs
  <1> QED BY <1>2, <1>8, <1>9, <1>10, <1>11, <1>12

-----------------------------------------------------------------------------
(* The scan *)

Survives(p) == ~Scan!Hidden(Scan!Group(p[1])[p[2]], Scan!SeqId(p)) /\ Scan!PassesFilters(Scan!Group(p[1])[p[2]])

\* The rows of the row groups in front of g that the scan reads and lets pass.
ReadBefore(g) ==
    {p \in UNION {Scan!Pos(h) : h \in 1..(g - 1)} : Scan!Accepts(p[1]) /\ Survives(p)}

\* The row count is right as long as no row group was skipped.
ScanInStep ==
    (\A h \in 1..(state.next - 1) : Scan!Accepts(h)) => state.offset = Scan!RowsBefore(state.next)

\* ScanExactWithoutDrift speaks of the end of a scan only; on the way, what left
\* it are the rows of the row groups behind it.
ScanInv ==
    /\ ScanJobOK
    /\ state \in [next : 1..(LastGroup + 1), offset : Nat, exhausted : BOOLEAN]
    /\ state.exhausted => state.next = LastGroup + 1
    /\ ScanInStep
    /\ ~Scan!Drifts => out = ReadBefore(state.next)

\* The scan does not change its job.
LEMMA SameScan ==
    ASSUME job' = job
    PROVE  /\ ScanJobOK' <=> ScanJobOK
           /\ LastGroup' = LastGroup
           /\ Scan!Drifts' <=> Scan!Drifts
           /\ \A g : Scan!Accepts(g)' <=> Scan!Accepts(g)
           /\ \A g : Scan!RowsBefore(g)' = Scan!RowsBefore(g)
           /\ \A g : ReadBefore(g)' = ReadBefore(g)
  <1> USE DEF Scan!Group, Scan!Pos
  <1>1. ScanJobOK' <=> ScanJobOK
    BY DEF ScanJobOK
  <1>2. LastGroup' = LastGroup
    BY DEF LastGroup
  <1>3. \A g : Scan!Accepts(g)' <=> Scan!Accepts(g)
    BY DEF Scan!Accepts, Scan!SampleAcceptsZone, Scan!AcceptsZone, Scan!Zone
  <1>4. \A g : Scan!RowsBefore(g)' = Scan!RowsBefore(g)
    BY DEF Scan!RowsBefore
  <1>5. Scan!Drifts' <=> Scan!Drifts
    BY <1>3 DEF Scan!Drifts
  <1>6. \A p : Survives(p)' <=> Survives(p)
    BY <1>4 DEF Survives, Scan!Hidden, Scan!SeqId, Scan!PassesFilters
  <1>7. \A g : ReadBefore(g)' = ReadBefore(g)
    BY <1>3, <1>6 DEF ReadBefore
  <1> QED BY <1>1, <1>2, <1>3, <1>4, <1>5, <1>7

\* The wrapper hides the right rows of a row group that is read: no row
\* tombstone looks at the id, the id is the column's, or no group was skipped.
LEMMA RightRowsHidden ==
    ASSUME ScanInv, ~Scan!Drifts, Scan!More, Scan!Accepts(state.next), NEW p \in Scan!Pos(state.next)
    PROVE  Scan!Hidden(Scan!Group(state.next)[p[2]], Scan!SeenSeqId(p)) <=> Scan!Hidden(Scan!Group(p[1])[p[2]], Scan!SeqId(p))
  <1>1. p[1] = state.next
    BY DEF Scan!Pos
  <1>2. DOMAIN job.file.groups = 1..LastGroup /\ LastGroup \in Nat /\ state.next \in 1..LastGroup
    BY DEF ScanInv, ScanJobOK, Scan!More, LastGroup
  <1>3. CASE job.tombs.rows = {}
    BY <1>1, <1>3 DEF Scan!Hidden
  <1>4. CASE job.path = "materialized" /\ job.seqProjected
    BY <1>1, <1>4 DEF Scan!Hidden, Scan!SeenSeqId
  <1>5. CASE ~ \E g, h \in DOMAIN job.file.groups : g < h /\ ~Scan!Accepts(g) /\ Scan!Accepts(h)
    <2>1. \A h \in 1..(state.next - 1) : Scan!Accepts(h)
      <3> TAKE h \in 1..(state.next - 1)
      <3>1. h \in 1..LastGroup /\ h < state.next
        BY <1>2
      <3> QED BY <1>2, <1>5, <3>1
    <2>2. state.offset = Scan!RowsBefore(state.next)
      BY <2>1 DEF ScanInv, ScanInStep
    <2>3. Scan!SeenSeqId(p) = Scan!SeqId(p)
      BY <1>1, <2>2 DEF Scan!SeenSeqId, Scan!SeqId
    <2> QED BY <1>1, <2>3
  <1> QED BY <1>3, <1>4, <1>5 DEF Scan!Drifts

\* What is read before the next row group is what was read before this one, and
\* the rows of this one that pass, if it is read.
LEMMA ReadNext ==
    ASSUME NEW g \in Nat \ {0}
    PROVE  ReadBefore(g + 1) = ReadBefore(g) \cup {p \in Scan!Pos(g) : Scan!Accepts(p[1]) /\ Survives(p)}
  <1>1. 1..(g + 1 - 1) = 1..(g - 1) \cup {g}
    OBVIOUS
  <1>2. UNION {Scan!Pos(h) : h \in 1..(g + 1 - 1)} = (UNION {Scan!Pos(h) : h \in 1..(g - 1)}) \cup Scan!Pos(g)
    BY <1>1
  <1> QED BY <1>2 DEF ReadBefore

\* Every step of the scan keeps its invariant.
LEMMA ScanInductive == ScanInv /\ (Scan!Next \/ UNCHANGED Scan!vars) => ScanInv'
  <1> SUFFICES ASSUME ScanInv, Scan!Next \/ UNCHANGED Scan!vars PROVE ScanInv'
    OBVIOUS
  <1>1. job' = job
    BY DEF Scan!Next, Scan!vars, Scan!SkipRowGroup, Scan!ReadRowGroup, Scan!Exhaust
  <1>2. /\ ScanJobOK' /\ LastGroup' = LastGroup /\ (Scan!Drifts' <=> Scan!Drifts)
        /\ \A g : Scan!Accepts(g)' <=> Scan!Accepts(g)
        /\ \A g : Scan!RowsBefore(g)' = Scan!RowsBefore(g)
        /\ \A g : ReadBefore(g)' = ReadBefore(g)
    BY <1>1, SameScan DEF ScanInv
  <1>3. state.next \in Nat \ {0} /\ LastGroup \in Nat
    BY DEF ScanInv, LastGroup, ScanJobOK
  <1>4. CASE Scan!SkipRowGroup
    <2>1. state' = [state EXCEPT !.next = @ + 1] /\ out' = out
      BY <1>4 DEF Scan!SkipRowGroup
    <2>2. state.next \in 1..LastGroup /\ ~state.exhausted /\ ~Scan!Accepts(state.next)
      BY <1>3, <1>4 DEF Scan!SkipRowGroup, Scan!More, LastGroup
    <2>3. state'.next = state.next + 1 /\ state'.offset = state.offset /\ ~state'.exhausted
          /\ state' \in [next : 1..(LastGroup + 1), offset : Nat, exhausted : BOOLEAN]
      BY <2>1, <2>2, <1>3 DEF ScanInv
    <2>4. ScanInStep'
      <3> SUFFICES ASSUME \A h \in 1..(state'.next - 1) : Scan!Accepts(h) PROVE FALSE
        BY <1>2 DEF ScanInStep
      <3>1. state.next \in 1..(state'.next - 1)
        BY <1>3, <2>3
      <3> QED BY <3>1, <2>2
    <2>5. ~Scan!Drifts => out' = ReadBefore(state'.next)
      <3>1. \A p \in Scan!Pos(state.next) : ~Scan!Accepts(p[1])
        BY <2>2 DEF Scan!Pos
      <3>2. ReadBefore(state.next + 1) = ReadBefore(state.next)
        BY <3>1, <1>3, ReadNext
      <3> QED BY <2>1, <2>3, <3>2 DEF ScanInv
    <2> QED BY <1>2, <2>3, <2>4, <2>5 DEF ScanInv
  <1>5. CASE Scan!ReadRowGroup
    <2>1. /\ Scan!Accepts(state.next)
          /\ out' = out \cup {p \in Scan!Pos(state.next) :
                /\ ~Scan!Hidden(Scan!Group(state.next)[p[2]], Scan!SeenSeqId(p))
                /\ Scan!PassesFilters(Scan!Group(state.next)[p[2]])}
          /\ state' = [state EXCEPT !.next = @ + 1, !.offset = @ + Len(Scan!Group(state.next))]
      BY <1>5 DEF Scan!ReadRowGroup
    <2>2. state.next \in 1..LastGroup /\ ~state.exhausted /\ Scan!More
      BY <1>3, <1>5 DEF Scan!ReadRowGroup, Scan!More, LastGroup
    <2>3. Len(Scan!Group(state.next)) \in Nat
      BY <2>2, GroupRows DEF ScanInv, ScanJobOK, LastGroup
    <2>4. /\ state'.next = state.next + 1 /\ ~state'.exhausted
          /\ state'.offset = state.offset + Len(Scan!Group(state.next))
          /\ state' \in [next : 1..(LastGroup + 1), offset : Nat, exhausted : BOOLEAN]
      <3>1. PICK n \in Nat : n = Len(Scan!Group(state.next))
        BY <2>3
      <3>2. state' = [state EXCEPT !.next = @ + 1, !.offset = @ + n]
        BY <2>1, <3>1
      <3>3. state \in [next : 1..(LastGroup + 1), offset : Nat, exhausted : BOOLEAN]
        BY DEF ScanInv
      <3>4. state.next + 1 \in 1..(LastGroup + 1) /\ state.offset + n \in Nat
        BY <2>2, <1>3, <3>3
      <3> QED BY <2>2, <3>1, <3>2, <3>3, <3>4
    <2>5. ScanInStep'
      <3> SUFFICES ASSUME \A h \in 1..(state'.next - 1) : Scan!Accepts(h)
                   PROVE  state'.offset = Scan!RowsBefore(state'.next)
        BY <1>2 DEF ScanInStep
      <3>1. \A h \in 1..(state.next - 1) : Scan!Accepts(h)
        BY <1>3, <2>4
      <3>2. state.offset = Scan!RowsBefore(state.next)
        BY <3>1 DEF ScanInv, ScanInStep
      <3>3. Scan!RowsBefore(state.next + 1) = Scan!RowsBefore(state.next) + Len(Scan!Group(state.next))
        BY <2>2, RowsBeforeNext DEF ScanInv
      <3> QED BY <2>4, <3>2, <3>3
    <2>6. ~Scan!Drifts => out' = ReadBefore(state'.next)
      <3> SUFFICES ASSUME ~Scan!Drifts PROVE out' = ReadBefore(state'.next)
        OBVIOUS
      <3>1. \A p \in Scan!Pos(state.next) :
                /\ p[1] = state.next
                /\ Scan!Hidden(Scan!Group(state.next)[p[2]], Scan!SeenSeqId(p))
                       <=> Scan!Hidden(Scan!Group(p[1])[p[2]], Scan!SeqId(p))
        BY <2>1, <2>2, RightRowsHidden DEF Scan!Pos
      <3>2. {p \in Scan!Pos(state.next) :
                /\ ~Scan!Hidden(Scan!Group(state.next)[p[2]], Scan!SeenSeqId(p))
                /\ Scan!PassesFilters(Scan!Group(state.next)[p[2]])}
            = {p \in Scan!Pos(state.next) : Scan!Accepts(p[1]) /\ Survives(p)}
        BY <2>1, <3>1 DEF Survives
      <3>3. out = ReadBefore(state.next)
        BY DEF ScanInv
      <3>4. ReadBefore(state.next + 1)
            = ReadBefore(state.next) \cup {p \in Scan!Pos(state.next) : Scan!Accepts(p[1]) /\ Survives(p)}
        BY <1>3, ReadNext
      <3> QED BY <2>1, <2>4, <3>2, <3>3, <3>4
    <2> QED BY <1>2, <2>4, <2>5, <2>6 DEF ScanInv
  <1>6. CASE Scan!Exhaust
    <2>1. state' = [state EXCEPT !.exhausted = TRUE] /\ out' = out
      BY <1>6 DEF Scan!Exhaust
    <2>2. state.next = LastGroup + 1
      BY <1>3, <1>6 DEF Scan!Exhaust, Scan!More, LastGroup, ScanInv
    <2>3. /\ state'.next = state.next /\ state'.offset = state.offset
          /\ state' \in [next : 1..(LastGroup + 1), offset : Nat, exhausted : BOOLEAN]
      BY <2>1 DEF ScanInv
    <2>4. ScanInStep'
      BY <1>2, <2>3 DEF ScanInv, ScanInStep
    <2> QED BY <1>2, <2>1, <2>2, <2>3, <2>4 DEF ScanInv
  <1>7. CASE UNCHANGED Scan!vars
    <2>1. state' = state /\ out' = out
      BY <1>7 DEF Scan!vars
    <2>2. ScanInStep'
      BY <1>2, <2>1 DEF ScanInv, ScanInStep
    <2> QED BY <1>2, <2>1, <2>2 DEF ScanInv
  <1> QED BY <1>4, <1>5, <1>6, <1>7 DEF Scan!Next

\* A scan begins in step, with nothing read.
LEMMA ScanInitially == Scan!ScanInputs /\ Scan!Init => ScanInv
  <1> SUFFICES ASSUME Scan!ScanInputs, Scan!Init PROVE ScanInv
    OBVIOUS
  <1>1. ScanJobOK
    BY DEF Scan!Init, Scan!ScanInputs, ScanJobOK
  <1>2. LastGroup \in Nat /\ state.next = 1 /\ state.offset = 0 /\ ~state.exhausted /\ out = {}
        /\ state \in [next : 1..(LastGroup + 1), offset : Nat, exhausted : BOOLEAN]
    BY <1>1 DEF Scan!Init, ScanJobOK, LastGroup
  <1>3. UNION {Scan!Pos(h) : h \in 1..(1 - 1)} = {}
    OBVIOUS
  <1>4. Scan!RowsBefore(1) = 0 /\ ReadBefore(1) = {}
    BY <1>3, FS_EmptySet, RowsBeforeIs DEF ReadBefore
  <1> QED BY <1>1, <1>2, <1>4 DEF ScanInv, ScanInStep

\* At the end of a scan that does not drift, no row that is wanted was skipped
\* and none that is not has been returned.
LEMMA ReadAllIsExact == ScanInv => Scan!ScanExactWithoutDrift
  <1> SUFFICES ASSUME ScanInv, state.exhausted, ~Scan!Drifts PROVE Scan!Returned = Scan!Wanted
    BY DEF Scan!ScanExactWithoutDrift
  <1>1. DOMAIN job.file.groups = 1..LastGroup /\ LastGroup \in Nat
    BY DEF ScanInv, ScanJobOK, LastGroup
  <1>2. state.next = LastGroup + 1 /\ out = ReadBefore(state.next)
    BY DEF ScanInv
  <1>3. out = {p \in UNION {Scan!Pos(h) : h \in DOMAIN job.file.groups} : Scan!Accepts(p[1]) /\ Survives(p)}
    <2>1. ASSUME NEW p
          PROVE  p \in ReadBefore(LastGroup + 1)
                 <=> p \in UNION {Scan!Pos(h) : h \in DOMAIN job.file.groups} /\ Scan!Accepts(p[1]) /\ Survives(p)
      <3>1. PICK g \in Nat : g = LastGroup + 1
        BY <1>1
      <3>2. p \in ReadBefore(g)
            <=> p \in UNION {Scan!Pos(h) : h \in 1..(g - 1)} /\ Scan!Accepts(p[1]) /\ Survives(p)
        BY DEF ReadBefore
      <3>3. 1..(g - 1) = DOMAIN job.file.groups
        BY <1>1, <3>1
      <3> HIDE DEF LastGroup
      <3> QED BY <3>1, <3>2, <3>3
    <2> QED BY <1>2, <2>1
  <1>4. ASSUME NEW p \in UNION {Scan!Pos(h) : h \in DOMAIN job.file.groups}, ~Scan!Accepts(p[1])
        PROVE  ~(Scan!PassesFilters(Scan!Group(p[1])[p[2]]) /\ Scan!InCohort(Scan!Group(p[1])[p[2]]))
    <2>1. p[1] \in DOMAIN job.file.groups /\ p[2] \in RowsOf(p[1])
      BY DEF Scan!Pos, RowsOf
    <2> QED BY <1>4, <2>1, GroupPruned DEF ScanInv
  <1> QED BY <1>3, <1>4 DEF Scan!Returned, Scan!Wanted, Survives

\* While the scan runs its invariant holds.
ScanRuns == component = "scan" => ScanInv

\* Skipping row groups by zone maps does not change what any scan returns whose
\* row count does not drift (reader.rs, tombstone_scan.rs).
THEOREM OperatorsScan == Spec => []ScanExactWithoutDrift
  <1>1. Init => ScanRuns
    BY OperatorsAssumption, ScanInitially DEF Init, ScanRuns
  <1>2. ScanRuns /\ [Next]_vars => ScanRuns'
    <2> SUFFICES ASSUME ScanRuns, [Next]_vars, component' = "scan" PROVE ScanInv'
      BY DEF ScanRuns
    <2>1. component = "scan" /\ (Scan!Next \/ UNCHANGED vars)
      BY DEF Next, vars
    <2>2. Scan!Next \/ UNCHANGED Scan!vars
      BY <2>1 DEF vars, Scan!vars
    <2> QED BY <2>1, <2>2, ScanInductive DEF ScanRuns
  <1>3. ScanRuns => ScanExactWithoutDrift
    BY ReadAllIsExact DEF ScanRuns, ScanExactWithoutDrift
  <1> QED BY <1>1, <1>2, <1>3, PTL DEF Spec

-----------------------------------------------------------------------------
(* The sort *)

Streaming == INSTANCE StreamingProofs WITH Jobs <- SortJobs, BatchSize <- SortBatchSize

\* A sort begins alike in both instances,
LEMMA SortInitSame == Sort!SortInputs /\ Sort!Init => Streaming!SortInputs /\ Streaming!Init
  <1>1. Sort!SortInputs => Streaming!SortInputs
    BY DEF
       Sort!SortInputs, Streaming!SortInputs, Sort!Results, Streaming!Results, Sort!Job,
       Streaming!Job, Sort!Row, Streaming!Row, Sort!FlattenSeq, Streaming!FlattenSeq,
       Sort!IsInjective, Streaming!IsInjective
  <1>2. Sort!Init => Streaming!Init
    BY DEF
       Sort!Init, Streaming!Init
  <1> QED BY <1>1, <1>2

\* takes the same steps,
LEMMA SortStepSame == Sort!Next => Streaming!Next
  <1>1. Sort!Pull => Streaming!Pull
    BY DEF
       Sort!Pull, Streaming!Pull, Sort!Pulling, Streaming!Pulling, Sort!Batch, Streaming!Batch,
       Sort!Spillable, Streaming!Spillable, Sort!Reserve, Streaming!Reserve, Sort!Push,
       Streaming!Push, Sort!Fail, Streaming!Fail, Sort!Fits, Streaming!Fits, Sort!Charge,
       Streaming!Charge, Sort!Taken, Streaming!Taken, Sort!Rows, Streaming!Rows,
       Sort!FlattenSeq, Streaming!FlattenSeq
  <1>2. Sort!PullSpilling => Streaming!PullSpilling
    BY DEF
       Sort!PullSpilling, Streaming!PullSpilling, Sort!Pulling, Streaming!Pulling, Sort!Batch,
       Streaming!Batch, Sort!Spillable, Streaming!Spillable, Sort!Reserve, Streaming!Reserve,
       Sort!Push, Streaming!Push, Sort!Fail, Streaming!Fail, Sort!Fits, Streaming!Fits,
       Sort!Charge, Streaming!Charge, Sort!Taken, Streaming!Taken, Sort!Rows, Streaming!Rows,
       Sort!FlattenSeq, Streaming!FlattenSeq, Sort!SortedRuns, Streaming!SortedRuns,
       Sort!Bijection, Streaming!Bijection, Sort!Injection, Streaming!Injection,
       Sort!Surjection, Streaming!Surjection, Sort!IsSortedRun, Streaming!IsSortedRun,
       Sort!Precedes, Streaming!Precedes, Sort!WithoutBuffer, Streaming!WithoutBuffer,
       Sort!Bytes, Streaming!Bytes, Sort!IsInjective, Streaming!IsInjective, Sort!Range,
       Streaming!Range
  <1>3. Sort!SpillFails => Streaming!SpillFails
    BY DEF
       Sort!SpillFails, Streaming!SpillFails, Sort!Pulling, Streaming!Pulling, Sort!Batch,
       Streaming!Batch, Sort!Spillable, Streaming!Spillable, Sort!Fits, Streaming!Fits,
       Sort!Fail, Streaming!Fail, Sort!WithoutBuffer, Streaming!WithoutBuffer, Sort!Bytes,
       Streaming!Bytes, Sort!Rows, Streaming!Rows, Sort!FlattenSeq, Streaming!FlattenSeq
  <1>4. Sort!CancelledAtEntry => Streaming!CancelledAtEntry
    BY DEF
       Sort!CancelledAtEntry, Streaming!CancelledAtEntry
  <1>5. Sort!BuildMerger => Streaming!BuildMerger
    BY DEF
       Sort!BuildMerger, Streaming!BuildMerger, Sort!Exhausted, Streaming!Exhausted, Sort!Rows,
       Streaming!Rows, Sort!FlattenSeq, Streaming!FlattenSeq, Sort!SortedRuns,
       Streaming!SortedRuns, Sort!Bijection, Streaming!Bijection, Sort!Injection,
       Streaming!Injection, Sort!Surjection, Streaming!Surjection, Sort!IsSortedRun,
       Streaming!IsSortedRun, Sort!Precedes, Streaming!Precedes, Sort!WithoutBuffer,
       Streaming!WithoutBuffer, Sort!Bytes, Streaming!Bytes, Sort!IsInjective,
       Streaming!IsInjective, Sort!Range, Streaming!Range
  <1>6. Sort!BuildFails => Streaming!BuildFails
    BY DEF
       Sort!BuildFails, Streaming!BuildFails, Sort!Exhausted, Streaming!Exhausted, Sort!Fail,
       Streaming!Fail, Sort!WithoutBuffer, Streaming!WithoutBuffer, Sort!Bytes,
       Streaming!Bytes, Sort!Rows, Streaming!Rows, Sort!FlattenSeq, Streaming!FlattenSeq
  <1>7. Sort!MergeBatch => Streaming!MergeBatch
    BY DEF
       Sort!MergeBatch, Streaming!MergeBatch, Sort!Live, Streaming!Live, Sort!PopRow,
       Streaming!PopRow, Sort!PopsBefore, Streaming!PopsBefore, Sort!Precedes,
       Streaming!Precedes, Sort!FoldLeft, Streaming!FoldLeft, Sort!MapThenFoldSet,
       Streaming!MapThenFoldSet, Sort!Max, Streaming!Max
  <1>8. Sort!ReadFails \/ Sort!Cancel => Streaming!ReadFails \/ Streaming!Cancel
    BY DEF
       Sort!ReadFails, Streaming!ReadFails, Sort!Cancel, Streaming!Cancel
  <1>9. Sort!CloseAndDrop => Streaming!CloseAndDrop
    BY DEF
       Sort!CloseAndDrop, Streaming!CloseAndDrop, Sort!WithoutBuffer, Streaming!WithoutBuffer,
       Sort!Bytes, Streaming!Bytes, Sort!Rows, Streaming!Rows, Sort!FlattenSeq,
       Streaming!FlattenSeq
  <1> QED
    BY <1>1, <1>2, <1>3, <1>4, <1>5, <1>6, <1>7, <1>8, <1>9 DEF Sort!Next, Streaming!Next

\* and has the same to fulfil.
LEMMA SortPropertiesSame ==
    (Streaming!SortExact => Sort!SortExact) /\ (Streaming!BudgetExact => Sort!BudgetExact)
  <1>1. Streaming!SortExact => Sort!SortExact
    BY DEF
       Sort!SortExact, Streaming!SortExact, Sort!InputRows, Streaming!InputRows, Sort!Rows,
       Streaming!Rows, Sort!FlattenSeq, Streaming!FlattenSeq, Sort!IsSortedRun,
       Streaming!IsSortedRun, Sort!Precedes, Streaming!Precedes, Sort!IsInjective,
       Streaming!IsInjective, Sort!Range, Streaming!Range
  <1>2. Streaming!BudgetExact => Sort!BudgetExact
    BY DEF
       Sort!BudgetExact, Streaming!BudgetExact, Sort!Bytes, Streaming!Bytes, Sort!Rows,
       Streaming!Rows, Sort!FlattenSeq, Streaming!FlattenSeq
  <1> QED BY <1>1, <1>2

\* While the sort runs its invariant holds.
SortRuns == component = "sort" => Streaming!SortInv

\* The other components leave the sort alone, as they never run beside it.
LEMMA SortRunsAlways == Spec => []SortRuns
  <1>1. Init => SortRuns
    BY OperatorsAssumption, SortInitSame, Streaming!SortInitially DEF Init, SortRuns
  <1>2. SortRuns /\ [Next]_vars => SortRuns'
    <2> SUFFICES ASSUME SortRuns, [Next]_vars, component' = "sort" PROVE Streaming!SortInv'
      BY DEF SortRuns
    <2>1. component = "sort" /\ (Sort!Next \/ UNCHANGED vars)
      BY DEF Next, vars
    <2>2. Streaming!Next \/ UNCHANGED Streaming!vars
      BY <2>1, SortStepSame DEF vars, Streaming!vars
    <2> QED BY <2>1, <2>2, Streaming!SortInductive DEF SortRuns
  <1> QED BY <1>1, <1>2, PTL DEF Spec

\* For any sort that runs: its output is in order, each row at most once, and
\* all of them if no error ended it (sort.rs).
THEOREM OperatorsSort == Spec => []SortExact
  <1>1. SortRuns => SortExact
    BY SortPropertiesSame DEF SortRuns, SortExact, Streaming!SortInv
  <1> QED BY <1>1, SortRunsAlways, PTL

\* Any sort's tracker counts what is held, and never more than the budget
\* (memory.rs).
THEOREM OperatorsBudget == Spec => []BudgetExact
  <1>1. SortRuns => BudgetExact
    BY SortPropertiesSame, Streaming!InvIsInBudget DEF SortRuns, BudgetExact
  <1> QED BY <1>1, SortRunsAlways, PTL

-----------------------------------------------------------------------------
(* The entity operators *)

\* A job of an entity operator begins alike in both instances,
LEMMA EntityInitSame ==
    Entity!EntityInputs /\ Entity!Init => Streaming!Entity!EntityInputs /\ Streaming!Entity!Init
  BY DEF
     Entity!EntityInputs, Streaming!Entity!EntityInputs, Entity!Parameters,
     Streaming!Entity!Parameters, Entity!GroupedByEntity, Streaming!Entity!GroupedByEntity,
     Entity!OrderedByTime, Streaming!Entity!OrderedByTime, Entity!Range,
     Streaming!Entity!Range, Entity!Init, Streaming!Entity!Init

\* takes the same steps,
LEMMA EntityStepSame == Entity!Next => Streaming!Entity!Next
  <1>1. Entity!CreateState = Streaming!Entity!CreateState
    BY DEF
       Entity!CreateState, Streaming!Entity!CreateState, Entity!Sess!CreateState,
       Streaming!Entity!Sess!CreateState, Entity!Sel!CreateState,
       Streaming!Entity!Sel!CreateState, Entity!Attr!CreateState,
       Streaming!Entity!Attr!CreateState
  <1>2. \A st : Entity!FinishEntity(st) = Streaming!Entity!FinishEntity(st)
    BY DEF
       Entity!FinishEntity, Streaming!Entity!FinishEntity, Entity!Sess!FinishEntity,
       Streaming!Entity!Sess!FinishEntity, Entity!Sel!FinishEntity,
       Streaming!Entity!Sel!FinishEntity, Entity!Attr!FinishEntity,
       Streaming!Entity!Attr!FinishEntity, Entity!Sess!FlushSession,
       Streaming!Entity!Sess!FlushSession
  <1>3. \A st, batch : Entity!ProcessSubBatch(st, batch) = Streaming!Entity!ProcessSubBatch(st, batch)
    <2>1. \A st, batch : Entity!Sess!ProcessSubBatch(st, batch)
                            = Streaming!Entity!Sess!ProcessSubBatch(st, batch)
      <3>1. \A st, batch, slice, upto : Entity!Sess!PushSlice(st, batch, slice, upto)
                                          = Streaming!Entity!Sess!PushSlice(st, batch, slice, upto)
        BY DEF Entity!Sess!PushSlice, Streaming!Entity!Sess!PushSlice
      <3>2. \A st : Entity!Sess!FlushSession(st) = Streaming!Entity!Sess!FlushSession(st)
        BY DEF Entity!Sess!FlushSession, Streaming!Entity!Sess!FlushSession
      <3>3. \A acc, batch, upto : Entity!Sess!Close(acc, batch, upto)
                                    = Streaming!Entity!Sess!Close(acc, batch, upto)
        BY <3>1, <3>2 DEF Entity!Sess!Close, Streaming!Entity!Sess!Close
      <3>4. \A st, row : Entity!Sess!TooLate(st, row) <=> Streaming!Entity!Sess!TooLate(st, row)
        BY DEF Entity!Sess!TooLate, Streaming!Entity!Sess!TooLate
      <3>5. \A st, row : Entity!Sess!Join(st, row) = Streaming!Entity!Sess!Join(st, row)
        BY DEF Entity!Sess!Join, Streaming!Entity!Sess!Join
      <3>6. ASSUME NEW acc, NEW batch, NEW r
            PROVE  Entity!Sess!Row(acc, batch, r) = Streaming!Entity!Sess!Row(acc, batch, r)
        <4> DEFINE before1 == IF Entity!Sess!TooLate(acc.st, batch[r])
                              THEN Entity!Sess!Close(acc, batch, r - 1) ELSE acc
                   before2 == IF Streaming!Entity!Sess!TooLate(acc.st, batch[r])
                              THEN Streaming!Entity!Sess!Close(acc, batch, r - 1) ELSE acc
                   joined1 == [before1 EXCEPT !.st = Entity!Sess!Join(@, batch[r])]
                   joined2 == [before2 EXCEPT !.st = Streaming!Entity!Sess!Join(@, batch[r])]
                   closed1 == Entity!Sess!Close(joined1, batch, r)
                   closed2 == Streaming!Entity!Sess!Close(joined2, batch, r)
        <4>1. Entity!Sess!Row(acc, batch, r)
              = IF acc.st.skipping THEN acc
                ELSE IF before1.st.start # Null /\ joined1.st.count > job.op.cap
                     THEN [closed1 EXCEPT !.st.skipping = TRUE]
                ELSE IF batch[r].type \in job.op.endEvents THEN closed1
                ELSE joined1
          BY Zenon DEF Entity!Sess!Row
        <4>2. Streaming!Entity!Sess!Row(acc, batch, r)
              = IF acc.st.skipping THEN acc
                ELSE IF before2.st.start # Null /\ joined2.st.count > job.op.cap
                     THEN [closed2 EXCEPT !.st.skipping = TRUE]
                ELSE IF batch[r].type \in job.op.endEvents THEN closed2
                ELSE joined2
          BY Zenon DEF Streaming!Entity!Sess!Row
        <4>3. before1 = before2
          BY <3>3, <3>4
        <4> HIDE DEF before1, before2
        <4>4. joined1 = joined2
          BY <3>5, <4>3
        <4> HIDE DEF joined1, joined2
        <4>5. closed1 = closed2
          BY <3>3, <4>4
        <4> HIDE DEF closed1, closed2
        <4> QED BY <4>1, <4>2, <4>3, <4>4, <4>5
      <3>7. \A S : Streaming!Entity!Sess!Max(S) = Entity!Sess!Max(S)
        BY DEF Streaming!Entity!Sess!Max, Entity!Sess!Max
      <3> SUFFICES ASSUME NEW st, NEW batch
                   PROVE  Entity!Sess!ProcessSubBatch(st, batch) = Streaming!Entity!Sess!ProcessSubBatch(st, batch)
        OBVIOUS
      <3> DEFINE base == [st |-> st, slice |-> 1]
                 seq  == [r \in DOMAIN batch |-> r]
                 A == Entity!Sess!FoldLeft(LAMBDA a, r : Entity!Sess!Row(a, batch, r), base, seq)
                 B == Streaming!Entity!Sess!FoldLeft(LAMBDA a, r : Streaming!Entity!Sess!Row(a, batch, r), base, seq)
                 F(f) == f = [s \in SUBSET DOMAIN seq |->
                                  IF s = {} THEN base
                                  ELSE Entity!Sess!Row(f[s \ {Entity!Sess!Max(s)}], batch, seq[Entity!Sess!Max(s)])]
                 G(f) == f = [s \in SUBSET DOMAIN seq |->
                                  IF s = {} THEN base
                                  ELSE Streaming!Entity!Sess!Row(f[s \ {Entity!Sess!Max(s)}], batch, seq[Entity!Sess!Max(s)])]
      <3>8. A = (CHOOSE f : F(f))[DOMAIN seq] /\ B = (CHOOSE f : G(f))[DOMAIN seq]
        <4> HIDE DEF base, seq
        <4> QED BY <3>7 DEF Entity!Sess!FoldLeft, Entity!Sess!MapThenFoldSet,
                            Streaming!Entity!Sess!FoldLeft, Streaming!Entity!Sess!MapThenFoldSet
      <3>9. \A f : F(f) <=> G(f)
        <4> HIDE DEF base, seq
        <4> QED BY <3>6
      <3>10. (CHOOSE f : F(f)) = (CHOOSE f : G(f))
        <4> HIDE DEF F, G
        <4> QED BY <3>9
      <3>11. Entity!Sess!ProcessSubBatch(st, batch)
             = IF A.st.skipping THEN A.st ELSE Entity!Sess!PushSlice(A.st, batch, A.slice, Len(batch))
        BY DEF Entity!Sess!ProcessSubBatch
      <3>12. Streaming!Entity!Sess!ProcessSubBatch(st, batch)
             = IF B.st.skipping THEN B.st ELSE Streaming!Entity!Sess!PushSlice(B.st, batch, B.slice, Len(batch))
        BY DEF Streaming!Entity!Sess!ProcessSubBatch
      <3> HIDE DEF A, B, F, G
      <3> QED BY <3>1, <3>8, <3>10, <3>11, <3>12
    <2>2. \A st, batch : Entity!Sel!ProcessSubBatch(st, batch)
                            = Streaming!Entity!Sel!ProcessSubBatch(st, batch)
      BY DEF
         Entity!Sel!ProcessSubBatch, Streaming!Entity!Sel!ProcessSubBatch, Entity!Sel!Range,
         Streaming!Entity!Sel!Range, Entity!Sel!Take, Streaming!Entity!Sel!Take,
         Entity!Sel!Qualifies, Streaming!Entity!Sel!Qualifies, Entity!Sel!FoldLeft,
         Streaming!Entity!Sel!FoldLeft, Entity!Sel!MapThenFoldSet,
         Streaming!Entity!Sel!MapThenFoldSet, Entity!Sel!Max, Streaming!Entity!Sel!Max
    <2>3. \A st, batch : Entity!Attr!ProcessSubBatch(st, batch)
                            = Streaming!Entity!Attr!ProcessSubBatch(st, batch)
      <3>1. \A deque, ts : Entity!Attr!Pruned(deque, ts) = Streaming!Entity!Attr!Pruned(deque, ts)
        BY DEF Entity!Attr!Pruned, Streaming!Entity!Attr!Pruned, Entity!Attr!Min,
               Streaming!Entity!Attr!Min
      <3>2. \A deque, row : Entity!Attr!EmitConversion(deque, row)
                              = Streaming!Entity!Attr!EmitConversion(deque, row)
        BY DEF Entity!Attr!EmitConversion, Streaming!Entity!Attr!EmitConversion,
               Entity!Attr!Match, Streaming!Entity!Attr!Match,
               Entity!Attr!FoldLeft, Streaming!Entity!Attr!FoldLeft, Entity!Attr!MapThenFoldSet,
               Streaming!Entity!Attr!MapThenFoldSet, Entity!Attr!Max, Streaming!Entity!Attr!Max
      <3>3. ASSUME NEW st, NEW row PROVE Entity!Attr!Row(st, row) = Streaming!Entity!Attr!Row(st, row)
        <4> DEFINE deque1 == Entity!Attr!Pruned(st.deque, row.ts)
                   deque2 == Streaming!Entity!Attr!Pruned(st.deque, row.ts)
                   rows1 == IF Entity!Attr!IsConversion(row) THEN Entity!Attr!EmitConversion(deque1, row) ELSE <<>>
                   rows2 == IF Streaming!Entity!Attr!IsConversion(row)
                            THEN Streaming!Entity!Attr!EmitConversion(deque2, row) ELSE <<>>
        <4>1. Entity!Attr!Row(st, row)
              = LET emitted == [st EXCEPT !.deque = deque1, !.rows = @ \o rows1]
                IN  IF st.capped THEN st
                    ELSE IF row.type \notin job.op.touchpoints THEN emitted
                    ELSE IF Len(deque1) >= job.op.cap THEN [emitted EXCEPT !.capped = TRUE, !.deque = <<>>]
                    ELSE [emitted EXCEPT !.deque = Append(deque1, [ts |-> row.ts, pos |-> row.pos])]
          BY Zenon DEF Entity!Attr!Row
        <4>2. Streaming!Entity!Attr!Row(st, row)
              = LET emitted == [st EXCEPT !.deque = deque2, !.rows = @ \o rows2]
                IN  IF st.capped THEN st
                    ELSE IF row.type \notin job.op.touchpoints THEN emitted
                    ELSE IF Len(deque2) >= job.op.cap THEN [emitted EXCEPT !.capped = TRUE, !.deque = <<>>]
                    ELSE [emitted EXCEPT !.deque = Append(deque2, [ts |-> row.ts, pos |-> row.pos])]
          BY Zenon DEF Streaming!Entity!Attr!Row
        <4>3. deque1 = deque2
          BY <3>1
        <4> HIDE DEF deque1, deque2
        <4>4. rows1 = rows2
          BY <3>2, <4>3 DEF Entity!Attr!IsConversion, Streaming!Entity!Attr!IsConversion
        <4> HIDE DEF rows1, rows2
        <4> QED BY <4>1, <4>2, <4>3, <4>4
      <3> QED
        BY <3>3 DEF Entity!Attr!ProcessSubBatch, Streaming!Entity!Attr!ProcessSubBatch,
               Entity!Attr!FoldLeft, Streaming!Entity!Attr!FoldLeft, Entity!Attr!MapThenFoldSet,
               Streaming!Entity!Attr!MapThenFoldSet, Entity!Attr!Max, Streaming!Entity!Attr!Max
    <2> QED BY <2>1, <2>2, <2>3 DEF Entity!ProcessSubBatch, Streaming!Entity!ProcessSubBatch
  <1>4. \A start, last : Entity!FindEntityEnd(start, last) = Streaming!Entity!FindEntityEnd(start, last)
    BY DEF Entity!FindEntityEnd, Streaming!Entity!FindEntityEnd
  <1>5. \A acc, start, end : Entity!ProcessRun(acc, start, end) = Streaming!Entity!ProcessRun(acc, start, end)
    BY <1>1, <1>2, <1>3 DEF Entity!ProcessRun, Streaming!Entity!ProcessRun
  <1>6. \A acc, row, first, last : Entity!ProcessFrom(acc, row, first, last)
                                    = Streaming!Entity!ProcessFrom(acc, row, first, last)
    BY <1>4, <1>5 DEF Entity!ProcessFrom, Streaming!Entity!ProcessFrom
  <1>7. ASSUME NEW n, Entity!ProcessChildBatch(n) PROVE Streaming!Entity!ProcessChildBatch(n)
    <2> DEFINE first == state.next
               last == state.next + n - 1
               base == [entity |-> state.entity, st |-> state.st, out |-> out]
               seq  == [k \in 1..n |-> k]
               F(f) == f = [s \in SUBSET DOMAIN seq |->
                                IF s = {} THEN base
                                ELSE Entity!ProcessFrom(f[s \ {Entity!Max(s)}], first + seq[Entity!Max(s)] - 1, first, last)]
               G(f) == f = [s \in SUBSET DOMAIN seq |->
                                IF s = {} THEN base
                                ELSE Streaming!Entity!ProcessFrom(f[s \ {Entity!Max(s)}], first + seq[Entity!Max(s)] - 1, first, last)]
    <2>1. \A S : Streaming!Entity!Max(S) = Entity!Max(S)
      BY DEF Entity!Max, Streaming!Entity!Max
    <2>2. /\ Entity!FoldLeft(LAMBDA a, k : Entity!ProcessFrom(a, first + k - 1, first, last), base, seq)
             = (CHOOSE f : F(f))[DOMAIN seq]
          /\ Streaming!Entity!FoldLeft(LAMBDA a, k : Streaming!Entity!ProcessFrom(a, first + k - 1, first, last), base, seq)
             = (CHOOSE f : G(f))[DOMAIN seq]
      <3> HIDE DEF first, last, base, seq
      <3> QED BY <2>1 DEF Entity!FoldLeft, Entity!MapThenFoldSet, Streaming!Entity!FoldLeft,
                          Streaming!Entity!MapThenFoldSet
    <2>3. \A f : F(f) <=> G(f)
      <3> HIDE DEF first, last, base, seq
      <3> QED BY <1>6
    <2>4. (CHOOSE f : F(f)) = (CHOOSE f : G(f))
      <3> HIDE DEF F, G
      <3> QED BY <2>3
    <2> QED BY <1>7, <2>2, <2>4 DEF Entity!ProcessChildBatch, Streaming!Entity!ProcessChildBatch
  <1>8. Entity!ChildExhausted => Streaming!Entity!ChildExhausted
    BY <1>2 DEF Entity!ChildExhausted, Streaming!Entity!ChildExhausted
  <1> QED BY <1>7, <1>8 DEF Entity!Next, Streaming!Entity!Next

\* and has the same to fulfil.
LEMMA SelectionSame == Streaming!Entity!SelectionExact => Entity!SelectionExact
  <1>1. \A rows : Entity!Sel!Selected(rows) = Streaming!Entity!Sel!Selected(rows)
    BY DEF
       Entity!Sel!Selected, Streaming!Entity!Sel!Selected, Entity!Sel!Qualifying,
       Streaming!Entity!Sel!Qualifying, Entity!Sel!Place, Streaming!Entity!Sel!Place,
       Entity!Sel!Wanted, Streaming!Entity!Sel!Wanted, Entity!Sel!Qualifies,
       Streaming!Entity!Sel!Qualifies, Entity!Sel!Cardinality,
       Streaming!Entity!Sel!Cardinality
  <1>2. \A r : Entity!EntityRows(r) = Streaming!Entity!EntityRows(r)
    BY DEF Entity!EntityRows, Streaming!Entity!EntityRows
  <1>3. \A s : Entity!FlattenSeq(s) = Streaming!Entity!FlattenSeq(s)
    BY DEF Entity!FlattenSeq, Streaming!Entity!FlattenSeq
  <1>4. Entity!ByEntity(Entity!Sel!Selected) = Streaming!Entity!ByEntity(Streaming!Entity!Sel!Selected)
    BY <1>1, <1>2, <1>3 DEF Entity!ByEntity, Streaming!Entity!ByEntity
  <1>5. \A f : Entity!Range(f) = Streaming!Entity!Range(f)
    BY DEF Entity!Range, Streaming!Entity!Range
  <1> QED
    BY <1>4, <1>5 DEF Entity!SelectionExact, Streaming!Entity!SelectionExact, Entity!Done,
                      Streaming!Entity!Done

\* SESSIONIZE too.
LEMMA SessionsSame == Streaming!Entity!SessionsExact => Entity!SessionsExact
  <1>1. \A rows, r : Entity!Sess!EndsSession(rows, r) <=> Streaming!Entity!Sess!EndsSession(rows, r)
    BY DEF Entity!Sess!EndsSession, Streaming!Entity!Sess!EndsSession
  <1>2. /\ \A S : Entity!Sess!Max(S) = Streaming!Entity!Sess!Max(S)
        /\ \A S : Entity!Sess!Min(S) = Streaming!Entity!Sess!Min(S)
        /\ \A S : Entity!Sess!Cardinality(S) = Streaming!Entity!Sess!Cardinality(S)
    BY DEF Entity!Sess!Max, Streaming!Entity!Sess!Max, Entity!Sess!Min, Streaming!Entity!Sess!Min,
           Entity!Sess!Cardinality, Streaming!Entity!Sess!Cardinality
  <1>3. ASSUME NEW rows, NEW r
        PROVE  Entity!Sess!SessionStart(rows, r) = Streaming!Entity!Sess!SessionStart(rows, r)
    <2> DEFINE ends1 == {s \in 1..(r - 1) : Entity!Sess!EndsSession(rows, s)}
               ends2 == {s \in 1..(r - 1) : Streaming!Entity!Sess!EndsSession(rows, s)}
               S1 == {1} \cup {s + 1 : s \in ends1}
               S2 == {1} \cup {s + 1 : s \in ends2}
    <2>1. ends1 = ends2
      BY <1>1
    <2>2. Entity!Sess!SessionStart(rows, r) = Entity!Sess!Max(S1)
      BY Zenon DEF Entity!Sess!SessionStart
    <2>3. Streaming!Entity!Sess!SessionStart(rows, r) = Streaming!Entity!Sess!Max(S2)
      BY Zenon DEF Streaming!Entity!Sess!SessionStart
    <2>4. S1 = S2
      BY <2>1, Zenon
    <2> HIDE DEF S1, S2
    <2> QED BY <1>2, <2>2, <2>3, <2>4, Zenon
  <1>4. ASSUME NEW rows PROVE Entity!Sess!Kept(rows) = Streaming!Entity!Sess!Kept(rows)
    <2> DEFINE over1 == {r \in DOMAIN rows : r - Entity!Sess!SessionStart(rows, r) + 1 > job.op.cap}
               over2 == {r \in DOMAIN rows : r - Streaming!Entity!Sess!SessionStart(rows, r) + 1 > job.op.cap}
    <2>1. over1 = over2
      BY <1>3
    <2>2. Entity!Sess!Kept(rows) = IF over1 = {} THEN Len(rows) ELSE Entity!Sess!Min(over1)
      BY Zenon DEF Entity!Sess!Kept
    <2>3. Streaming!Entity!Sess!Kept(rows)
            = IF over2 = {} THEN Len(rows) ELSE Streaming!Entity!Sess!Min(over2)
      BY Zenon DEF Streaming!Entity!Sess!Kept
    <2> HIDE DEF over1, over2
    <2> QED BY <1>2, <2>1, <2>2, <2>3
  <1>5. ASSUME NEW rows PROVE Entity!Sess!Sessions(rows) = Streaming!Entity!Sess!Sessions(rows)
    <2> DEFINE Before1(k, r) == {s \in 1..(r - 1) : Entity!Sess!EndsSession(k, s)}
               Before2(k, r) == {s \in 1..(r - 1) : Streaming!Entity!Sess!EndsSession(k, s)}
               Same1(k, r) == {s \in r..Len(k) : Entity!Sess!SessionStart(k, s)
                                                   = Entity!Sess!SessionStart(k, r)}
               Same2(k, r) == {s \in r..Len(k) : Streaming!Entity!Sess!SessionStart(k, s)
                                                   = Streaming!Entity!Sess!SessionStart(k, r)}
               Number1(k, r) == 1 + Entity!Sess!Cardinality(Before1(k, r))
               Number2(k, r) == 1 + Streaming!Entity!Sess!Cardinality(Before2(k, r))
               Long1(k, r) == k[Entity!Sess!Max(Same1(k, r))].ts - k[Entity!Sess!SessionStart(k, r)].ts
               Long2(k, r) == k[Streaming!Entity!Sess!Max(Same2(k, r))].ts
                                - k[Streaming!Entity!Sess!SessionStart(k, r)].ts
               kept1 == SubSeq(rows, 1, Entity!Sess!Kept(rows))
               kept2 == SubSeq(rows, 1, Streaming!Entity!Sess!Kept(rows))
    <2>1. Entity!Sess!Sessions(rows)
            = [r \in DOMAIN kept1 |-> [pos |-> kept1[r].pos, session |-> Number1(kept1, r),
                                       duration |-> Long1(kept1, r)]]
      BY Zenon DEF Entity!Sess!Sessions
    <2>2. Streaming!Entity!Sess!Sessions(rows)
            = [r \in DOMAIN kept2 |-> [pos |-> kept2[r].pos, session |-> Number2(kept2, r),
                                       duration |-> Long2(kept2, r)]]
      BY Zenon DEF Streaming!Entity!Sess!Sessions
    <2>3. \A k, r : Before1(k, r) = Before2(k, r)
      BY <1>1
    <2>4. \A k, r : Same1(k, r) = Same2(k, r)
      BY <1>3
    <2> HIDE DEF Before1, Before2, Same1, Same2
    <2>5. \A k, r : Number1(k, r) = Number2(k, r)
      BY <1>2, <2>3
    <2>6. \A k, r : Long1(k, r) = Long2(k, r)
      <3> SUFFICES ASSUME NEW k, NEW r PROVE Long1(k, r) = Long2(k, r)
        OBVIOUS
      <3>1. Entity!Sess!Max(Same1(k, r)) = Streaming!Entity!Sess!Max(Same2(k, r))
        BY <1>2, <2>4
      <3>2. Entity!Sess!SessionStart(k, r) = Streaming!Entity!Sess!SessionStart(k, r)
        BY <1>3
      <3> QED BY <3>1, <3>2, Zenon
    <2> HIDE DEF Number1, Number2, Long1, Long2
    <2>7. kept1 = kept2
      BY <1>4, Zenon
    <2> HIDE DEF kept1, kept2
    <2> QED BY <2>1, <2>2, <2>5, <2>6, <2>7
  <1>6. \A r : Entity!EntityRows(r) = Streaming!Entity!EntityRows(r)
    BY DEF Entity!EntityRows, Streaming!Entity!EntityRows
  <1>7. \A s : Entity!FlattenSeq(s) = Streaming!Entity!FlattenSeq(s)
    BY DEF Entity!FlattenSeq, Streaming!Entity!FlattenSeq
  <1>8. Entity!ByEntity(Entity!Sess!Sessions) = Streaming!Entity!ByEntity(Streaming!Entity!Sess!Sessions)
    BY <1>5, <1>6, <1>7 DEF Entity!ByEntity, Streaming!Entity!ByEntity
  <1> QED
    BY <1>8 DEF Entity!SessionsExact, Streaming!Entity!SessionsExact, Entity!Done,
                Streaming!Entity!Done

\* And ATTRIBUTE.
LEMMA AttributionSame == Streaming!Entity!AttributionExact => Entity!AttributionExact
  <1>1. \A rows, r : Entity!Attr!InWindow(rows, r) = Streaming!Entity!Attr!InWindow(rows, r)
    BY DEF Entity!Attr!InWindow, Streaming!Entity!Attr!InWindow
  <1>2. /\ \A S : Entity!Attr!Min(S) = Streaming!Entity!Attr!Min(S)
        /\ \A S : Entity!Attr!Cardinality(S) = Streaming!Entity!Attr!Cardinality(S)
    BY DEF Entity!Attr!Min, Streaming!Entity!Attr!Min, Entity!Attr!Cardinality,
           Streaming!Entity!Attr!Cardinality
  <1>3. ASSUME NEW rows PROVE Entity!Attr!Kept(rows) = Streaming!Entity!Attr!Kept(rows)
    <2> DEFINE over1 == {r \in DOMAIN rows :
                            /\ rows[r].type \in job.op.touchpoints
                            /\ Entity!Attr!Cardinality(Entity!Attr!InWindow(rows, r)) >= job.op.cap}
               over2 == {r \in DOMAIN rows :
                            /\ rows[r].type \in job.op.touchpoints
                            /\ Streaming!Entity!Attr!Cardinality(Streaming!Entity!Attr!InWindow(rows, r))
                                    >= job.op.cap}
    <2>1. over1 = over2
      BY <1>1, <1>2
    <2>2. Entity!Attr!Kept(rows) = IF over1 = {} THEN Len(rows) ELSE Entity!Attr!Min(over1)
      BY Zenon DEF Entity!Attr!Kept
    <2>3. Streaming!Entity!Attr!Kept(rows)
            = IF over2 = {} THEN Len(rows) ELSE Streaming!Entity!Attr!Min(over2)
      BY Zenon DEF Streaming!Entity!Attr!Kept
    <2> HIDE DEF over1, over2
    <2> QED BY <1>2, <2>1, <2>2, <2>3
  <1>4. \A row : Entity!Attr!IsConversion(row) <=> Streaming!Entity!Attr!IsConversion(row)
    BY DEF Entity!Attr!IsConversion, Streaming!Entity!Attr!IsConversion
  <1>5. \A s : Entity!Attr!FlattenSeq(s) = Streaming!Entity!Attr!FlattenSeq(s)
    BY DEF Entity!Attr!FlattenSeq, Streaming!Entity!Attr!FlattenSeq
  <1>6. ASSUME NEW rows PROVE Entity!Attr!Attributions(rows) = Streaming!Entity!Attr!Attributions(rows)
    <2> DEFINE Hits1(r)     == {t \in Entity!Attr!InWindow(rows, r) : rows[t].ts < rows[r].ts}
               Hits2(r)     == {t \in Streaming!Entity!Attr!InWindow(rows, r) : rows[t].ts < rows[r].ts}
               UpTo1(r, t)  == {u \in Hits1(r) : u <= t}
               UpTo2(r, t)  == {u \in Hits2(r) : u <= t}
               Place1(r, i) == CHOOSE t \in Hits1(r) : Entity!Attr!Cardinality(UpTo1(r, t)) = i
               Place2(r, i) == CHOOSE t \in Hits2(r) : Streaming!Entity!Attr!Cardinality(UpTo2(r, t)) = i
               Touched1(r)  == IF Hits1(r) = {} THEN <<Null>>
                               ELSE [i \in 1..Entity!Attr!Cardinality(Hits1(r)) |-> rows[Place1(r, i)].pos]
               Touched2(r)  == IF Hits2(r) = {} THEN <<Null>>
                               ELSE [i \in 1..Streaming!Entity!Attr!Cardinality(Hits2(r)) |->
                                        rows[Place2(r, i)].pos]
               Pairs1(r)    == [i \in DOMAIN Touched1(r) |-> [pos |-> rows[r].pos, touch |-> Touched1(r)[i]]]
               Pairs2(r)    == [i \in DOMAIN Touched2(r) |-> [pos |-> rows[r].pos, touch |-> Touched2(r)[i]]]
               Part1(r)     == IF Entity!Attr!IsConversion(rows[r]) THEN Pairs1(r) ELSE <<>>
               Part2(r)     == IF Streaming!Entity!Attr!IsConversion(rows[r]) THEN Pairs2(r) ELSE <<>>
               parts1       == [r \in 1..Entity!Attr!Kept(rows) |-> Part1(r)]
               parts2       == [r \in 1..Streaming!Entity!Attr!Kept(rows) |-> Part2(r)]
    <2>1. Entity!Attr!Attributions(rows) = Entity!Attr!FlattenSeq(parts1)
      BY Zenon DEF Entity!Attr!Attributions
    <2>2. Streaming!Entity!Attr!Attributions(rows) = Streaming!Entity!Attr!FlattenSeq(parts2)
      BY Zenon DEF Streaming!Entity!Attr!Attributions
    <2>3. \A r : Hits1(r) = Hits2(r)
      BY <1>1
    <2> HIDE DEF Hits1, Hits2
    <2>4. \A r, t : UpTo1(r, t) = UpTo2(r, t)
      BY <2>3
    <2> HIDE DEF UpTo1, UpTo2
    <2>5. \A r, i : Place1(r, i) = Place2(r, i)
      BY <1>2, <2>3, <2>4
    <2> HIDE DEF Place1, Place2
    <2>6. \A r : Touched1(r) = Touched2(r)
      BY <1>2, <2>3, <2>5
    <2> HIDE DEF Touched1, Touched2
    <2>7. \A r : Pairs1(r) = Pairs2(r)
      BY <2>6
    <2> HIDE DEF Pairs1, Pairs2
    <2>8. \A r : Part1(r) = Part2(r)
      BY <1>4, <2>7
    <2> HIDE DEF Part1, Part2
    <2>9. parts1 = parts2
      BY <1>3, <2>8
    <2> HIDE DEF parts1, parts2
    <2> QED BY <1>5, <2>1, <2>2, <2>9
  <1>7. \A r : Entity!EntityRows(r) = Streaming!Entity!EntityRows(r)
    BY DEF Entity!EntityRows, Streaming!Entity!EntityRows
  <1>8. \A s : Entity!FlattenSeq(s) = Streaming!Entity!FlattenSeq(s)
    BY DEF Entity!FlattenSeq, Streaming!Entity!FlattenSeq
  <1>9. Entity!ByEntity(Entity!Attr!Attributions)
            = Streaming!Entity!ByEntity(Streaming!Entity!Attr!Attributions)
    BY <1>6, <1>7, <1>8 DEF Entity!ByEntity, Streaming!Entity!ByEntity
  <1> QED
    BY <1>9 DEF Entity!AttributionExact, Streaming!Entity!AttributionExact, Entity!Done,
                Streaming!Entity!Done

\* While an entity operator runs the adapter's invariant holds.
EntityRuns == component = "entity" => Streaming!AdapterInv

\* The other components leave the adapter alone, as they never run beside it.
LEMMA EntityRunsAlways == Spec => []EntityRuns
  <1>1. Init => EntityRuns
    BY OperatorsAssumption, EntityInitSame, Streaming!AdapterInitially DEF Init, EntityRuns
  <1>2. EntityRuns /\ [Next]_vars => EntityRuns'
    <2> SUFFICES ASSUME EntityRuns, [Next]_vars, component' = "entity" PROVE Streaming!AdapterInv'
      BY DEF EntityRuns
    <2>1. component = "entity" /\ (Entity!Next \/ UNCHANGED vars)
      BY DEF Next, vars
    <2>2. Streaming!Entity!Next \/ UNCHANGED Streaming!Entity!vars
      BY <2>1, EntityStepSame DEF vars, Streaming!Entity!vars
    <2> QED BY <2>1, <2>2, Streaming!AdapterInductive DEF EntityRuns
  <1> QED BY <1>1, <1>2, PTL DEF Spec

\* For any entities, rows, cuts into batches and parameters EVENT FIRST, LAST and NTH
\* select the row they name (event_select.rs).
THEOREM OperatorsSelection == Spec => []SelectionExact
  <1>1. EntityRuns => SelectionExact
    BY SelectionSame, Streaming!SelectionIs DEF EntityRuns, SelectionExact
  <1> QED BY <1>1, EntityRunsAlways, PTL

\* For any entities, rows, cuts into batches, gap, end events and cap SESSIONIZE puts
\* each row in the session that gaps and end events define (sessionize.rs).
THEOREM OperatorsSessions == Spec => []SessionsExact
  <1>1. EntityRuns => SessionsExact
    BY SessionsSame, Streaming!SessionsAreExact DEF EntityRuns, SessionsExact
  <1> QED BY <1>1, EntityRunsAlways, PTL

\* For any entities, rows, cuts into batches, types, window and bound ATTRIBUTE pairs
\* each conversion with the touchpoints of its window (attribute.rs).
THEOREM OperatorsAttribution == Spec => []AttributionExact
  <1>1. EntityRuns => AttributionExact
    BY AttributionSame, Streaming!AttributionsAreExact DEF EntityRuns, AttributionExact
  <1> QED BY <1>1, EntityRunsAlways, PTL

-----------------------------------------------------------------------------
(* INSERT *)

Grouping == INSTANCE GroupingProofs WITH Jobs <- IngestJobs

\* An INSERT begins alike in both instances,
LEMMA IngestInitSame ==
    Ingest!IngestInputs /\ Ingest!Init => Grouping!IngestInputs /\ Grouping!Init
  BY DEF Ingest!IngestInputs, Grouping!IngestInputs, Ingest!SourceEvent,
     Grouping!SourceEvent, Ingest!Init, Grouping!Init

\* What its steps and its property are made of.
LEMMA IngestHelpersSame ==
    /\ \A i : Ingest!Event(i) = Grouping!Event(i)
    /\ \A m, k : Ingest!Of(m, k) = Grouping!Of(m, k)
    /\ \A m, k, v : Ingest!With(m, k, v) = Grouping!With(m, k, v)
    /\ \A m, k : Ingest!Without(m, k) = Grouping!Without(m, k)
    /\ \A s : Ingest!Range(s) = Grouping!Range(s)
    /\ \A i : Ingest!BucketKey(i) = Grouping!BucketKey(i)
    /\ \A k, l : Ingest!KeyBefore(k, l) <=> Grouping!KeyBefore(k, l)
    /\ \A i, j : Ingest!SortsBefore(i, j) <=> Grouping!SortsBefore(i, j)
    /\ \A i, j : Ingest!SameEntity(i, j) <=> Grouping!SameEntity(i, j)
    /\ \A s : Ingest!StablySorted(s) = Grouping!StablySorted(s)
    /\ \A b : Ingest!Bytes(b) = Grouping!Bytes(b)
  <1>1. \A i : Ingest!Event(i) = Grouping!Event(i)
    BY DEF Ingest!Event, Grouping!Event
  <1>2. /\ \A m, k : Ingest!Of(m, k) = Grouping!Of(m, k)
        /\ \A m, k, v : Ingest!With(m, k, v) = Grouping!With(m, k, v)
        /\ \A m, k : Ingest!Without(m, k) = Grouping!Without(m, k)
        /\ \A s : Ingest!Range(s) = Grouping!Range(s)
        /\ \A k, l : Ingest!KeyBefore(k, l) <=> Grouping!KeyBefore(k, l)
    BY DEF Ingest!Of, Grouping!Of, Ingest!With, Grouping!With, Ingest!Without,
       Grouping!Without, Ingest!Range, Grouping!Range, Ingest!KeyBefore,
       Grouping!KeyBefore
  <1>3. \A i : Ingest!BucketKey(i) = Grouping!BucketKey(i)
    BY <1>1 DEF Ingest!BucketKey, Grouping!BucketKey, Ingest!Key, Grouping!Key,
       Ingest!WindowId, Grouping!WindowId
  <1>4. /\ \A i, j : Ingest!SortsBefore(i, j) <=> Grouping!SortsBefore(i, j)
        /\ \A i, j : Ingest!SameEntity(i, j) <=> Grouping!SameEntity(i, j)
    BY <1>1 DEF Ingest!SortsBefore, Grouping!SortsBefore, Ingest!SameEntity,
       Grouping!SameEntity
  <1>5. \A s : Ingest!StablySorted(s) = Grouping!StablySorted(s)
    BY DEF Ingest!StablySorted, Grouping!StablySorted, Ingest!SortsBefore,
       Grouping!SortsBefore, Ingest!Event, Grouping!Event, Ingest!Cardinality,
       Grouping!Cardinality
  <1>6. \A b : Ingest!Bytes(b) = Grouping!Bytes(b)
    BY DEF Ingest!Bytes, Grouping!Bytes, Ingest!MapThenSumSet, Grouping!MapThenSumSet,
       Ingest!MapThenFoldSet, Grouping!MapThenFoldSet, Ingest!Range, Grouping!Range,
       Ingest!Event, Grouping!Event
  <1> QED BY <1>1, <1>2, <1>3, <1>4, <1>5, <1>6

\* The event that leaves the heap,
LEMMA PopHeadSame == \A i, a : Ingest!PopHead(i, a) = Grouping!PopHead(i, a)
  BY DEF Ingest!PopHead, Grouping!PopHead, Ingest!SortsBefore, Grouping!SortsBefore,
     Ingest!Event, Grouping!Event

\* the merge that it is a step of,
LEMMA MergeSame == ASSUME NEW k PROVE Ingest!MergeRunsForBucket(k) = Grouping!MergeRunsForBucket(k)
  <1>1. PICK inputs, n : /\ inputs = Ingest!MergeInputs(k)
                         /\ n = Ingest!Cardinality(UNION {Ingest!Range(inputs[r]) : r \in DOMAIN inputs})
    OBVIOUS
  <1>2. /\ inputs = Grouping!MergeInputs(k)
        /\ n = Grouping!Cardinality(UNION {Grouping!Range(inputs[r]) : r \in DOMAIN inputs})
    <2>1. \A S : Ingest!Cardinality(S) = Grouping!Cardinality(S)
      BY DEF Ingest!Cardinality, Grouping!Cardinality
    <2>2. Ingest!MergeInputs(k) = Grouping!MergeInputs(k)
      BY IngestHelpersSame DEF Ingest!MergeInputs, Grouping!MergeInputs
    <2> QED BY <1>1, <2>1, <2>2, IngestHelpersSame
  <1> DEFINE P(p) == p = [m \in 0..n |->
               IF m = 0 THEN [cursors |-> [r \in DOMAIN inputs |-> 1], merged |-> <<>>]
               ELSE Ingest!PopHead(inputs, p[m - 1])]
             Q(p) == p = [m \in 0..n |->
               IF m = 0 THEN [cursors |-> [r \in DOMAIN inputs |-> 1], merged |-> <<>>]
               ELSE Grouping!PopHead(inputs, p[m - 1])]
  <1>3. Ingest!MergeRunsForBucket(k) = (CHOOSE p : P(p))[n].merged
    BY <1>1 DEF Ingest!MergeRunsForBucket
  <1>4. Grouping!MergeRunsForBucket(k) = (CHOOSE p : Q(p))[n].merged
    BY <1>2 DEF Grouping!MergeRunsForBucket
  <1>5. ASSUME NEW p PROVE P(p) <=> Q(p)
    BY PopHeadSame
  <1> HIDE DEF P, Q
  <1>6. (CHOOSE p : P(p)) = (CHOOSE p : Q(p))
    BY <1>5
  <1> QED BY <1>3, <1>4, <1>6

\* the end of a row group,
LEMMA GroupEndSame == \A e, s : Ingest!GroupEnd(e, s) = Grouping!GroupEnd(e, s)
  <1>1. \A S : Ingest!Min(S) = Grouping!Min(S) /\ Ingest!Max(S) = Grouping!Max(S)
    BY Zenon DEF Ingest!Min, Grouping!Min, Ingest!Max, Grouping!Max
  <1>2. \A i, j : Ingest!SameEntity(i, j) <=> Grouping!SameEntity(i, j)
    BY IngestHelpersSame
  <1> SUFFICES ASSUME NEW e, NEW s PROVE Ingest!GroupEnd(e, s) = Grouping!GroupEnd(e, s)
    OBVIOUS
  <1> DEFINE ends     == {s + job.rowGroupSize - 1, Len(e)}
             raw      == Ingest!Min(ends)
             raw2     == Grouping!Min(ends)
             Back(k)  == {n \in s..k : ~Ingest!SameEntity(e[n], e[k])}
             Back2(k) == {n \in s..k : ~Grouping!SameEntity(e[n], e[k])}
  <1>3. Ingest!GroupEnd(e, s) =
            IF (raw < Len(e) /\ Ingest!SameEntity(e[raw], e[raw + 1])) /\ Back(raw) # {}
            THEN Ingest!Max(Back(raw)) ELSE raw
    BY Zenon DEF Ingest!GroupEnd
  <1>4. Grouping!GroupEnd(e, s) =
            IF (raw2 < Len(e) /\ Grouping!SameEntity(e[raw2], e[raw2 + 1])) /\ Back2(raw2) # {}
            THEN Grouping!Max(Back2(raw2)) ELSE raw2
    BY Zenon DEF Grouping!GroupEnd
  <1>5. raw = raw2
    BY <1>1, Zenon
  <1>6. \A k : Back(k) = Back2(k)
    BY <1>2
  <1> HIDE DEF ends, raw, raw2, Back, Back2
  <1>7. Ingest!Max(Back(raw)) = Grouping!Max(Back2(raw2))
    BY <1>1, <1>5, <1>6, Zenon
  <1>8. Ingest!SameEntity(e[raw], e[raw + 1]) <=> Grouping!SameEntity(e[raw2], e[raw2 + 1])
    BY <1>2, <1>5, Zenon
  <1>9. PICK r, top : /\ r = raw /\ r = raw2
                      /\ top = Ingest!Max(Back(raw)) /\ top = Grouping!Max(Back2(raw2))
    BY <1>5, <1>7, Zenon
  <1>10. PICK cut \in BOOLEAN :
            /\ cut <=> (raw < Len(e) /\ Ingest!SameEntity(e[raw], e[raw + 1])) /\ Back(raw) # {}
            /\ cut <=> (raw2 < Len(e) /\ Grouping!SameEntity(e[raw2], e[raw2 + 1])) /\ Back2(raw2) # {}
    BY <1>5, <1>6, <1>8, Zenon
  <1>11. Ingest!GroupEnd(e, s) = IF cut THEN top ELSE r
    <2>1. CASE cut
      BY <1>3, <1>9, <1>10, <2>1, Zenon
    <2>2. CASE ~cut
      BY <1>3, <1>9, <1>10, <2>2, Zenon
    <2> QED BY <2>1, <2>2, Zenon
  <1>12. Grouping!GroupEnd(e, s) = IF cut THEN top ELSE r
    <2>1. CASE cut
      BY <1>4, <1>9, <1>10, <2>1, Zenon
    <2>2. CASE ~cut
      BY <1>4, <1>9, <1>10, <2>2, Zenon
    <2> QED BY <2>1, <2>2, Zenon
  <1> QED BY <1>11, <1>12

\* and the row groups of a segment.
LEMMA PlanSame == ASSUME NEW e PROVE Ingest!PlanRowGroups(e) = Grouping!PlanRowGroups(e)
  <1> DEFINE P(p) == p = [n \in 1..Len(e) |->
            IF n = 1 THEN <<1>>
            ELSE LET last == p[n - 1][Len(p[n - 1])]
                 IN  IF n = Ingest!GroupEnd(e, last) + 1 THEN Append(p[n - 1], n) ELSE p[n - 1]]
             Q(p) == p = [n \in 1..Len(e) |->
            IF n = 1 THEN <<1>>
            ELSE LET last == p[n - 1][Len(p[n - 1])]
                 IN  IF n = Grouping!GroupEnd(e, last) + 1 THEN Append(p[n - 1], n) ELSE p[n - 1]]
  <1>1. PICK a : a = (CHOOSE p : P(p))[Len(e)]
    OBVIOUS
  <1>2. Ingest!PlanRowGroups(e) = [g \in DOMAIN a |-> SubSeq(e, a[g], Ingest!GroupEnd(e, a[g]))]
    BY <1>1 DEF Ingest!PlanRowGroups
  <1>3. ASSUME NEW p PROVE P(p) <=> Q(p)
    BY GroupEndSame
  <1>4. (CHOOSE p : P(p)) = (CHOOSE p : Q(p))
    <2> HIDE DEF P, Q
    <2> QED BY <1>3
  <1>5. Grouping!PlanRowGroups(e) = [g \in DOMAIN a |-> SubSeq(e, a[g], Grouping!GroupEnd(e, a[g]))]
    <2>1. a = (CHOOSE p : Q(p))[Len(e)]
      BY <1>1, <1>4
    <2> QED BY <2>1 DEF Grouping!PlanRowGroups
  <1> QED BY <1>2, <1>5, GroupEndSame

\* Every step in one is a step in the other,
LEMMA IngestStepSame == Ingest!Next => Grouping!Next
  <1>1. /\ Ingest!Pushing <=> Grouping!Pushing
        /\ Ingest!PreEpoch <=> Grouping!PreEpoch
        /\ Ingest!Fits <=> Grouping!Fits
        /\ Ingest!Overflows <=> Grouping!Overflows
        /\ Ingest!Undrained = Grouping!Undrained
    BY DEF Ingest!Pushing, Grouping!Pushing, Ingest!PreEpoch, Grouping!PreEpoch,
       Ingest!Fits, Grouping!Fits, Ingest!Event, Grouping!Event, Ingest!Overflows,
       Grouping!Overflows, Ingest!Undrained, Grouping!Undrained
  <1>2. Ingest!LargestBucket = Grouping!LargestBucket
    BY IngestHelpersSame DEF Ingest!LargestBucket, Grouping!LargestBucket
  <1>3. Ingest!Push => Grouping!Push
    BY <1>1, IngestHelpersSame DEF Ingest!Push, Grouping!Push
  <1>4. Ingest!SpillBucket => Grouping!SpillBucket
    BY <1>1, <1>2, IngestHelpersSame DEF Ingest!SpillBucket, Grouping!SpillBucket
  <1>5. Ingest!SpillFails => Grouping!SpillFails
    BY <1>1, <1>2, IngestHelpersSame DEF Ingest!SpillFails, Grouping!SpillFails
  <1>6. Ingest!PushRefused => Grouping!PushRefused
    BY <1>1 DEF Ingest!PushRefused, Grouping!PushRefused
  <1>7. Ingest!WriteBucket => Grouping!WriteBucket
    BY <1>1, IngestHelpersSame, MergeSame, PlanSame DEF Ingest!WriteBucket,
       Grouping!WriteBucket
  <1>8. Ingest!Written => Grouping!Written
    BY <1>1 DEF Ingest!Written, Grouping!Written
  <1> QED BY <1>3, <1>4, <1>5, <1>6, <1>7, <1>8 DEF Ingest!Next, Grouping!Next

\* and both have the same to fulfil.
LEMMA IngestPropertySame == Grouping!IngestExact => Ingest!IngestExact
  <1>1. \A g : Ingest!FlattenSeq(g) = Grouping!FlattenSeq(g)
    BY DEF Ingest!FlattenSeq, Grouping!FlattenSeq
  <1>2. \A g : Ingest!IsInOrder(g) <=> Grouping!IsInOrder(g)
    BY IngestHelpersSame DEF Ingest!IsInOrder, Grouping!IsInOrder, Ingest!Before,
       Grouping!Before
  <1>3. \A g : Ingest!GroupsKeepEntities(g) <=> Grouping!GroupsKeepEntities(g)
    BY IngestHelpersSame DEF Ingest!GroupsKeepEntities, Grouping!GroupsKeepEntities
  <1>4. Ingest!MapThenSumSet(LAMBDA k : Ingest!Bytes(state.buckets[k]), DOMAIN state.buckets)
        = Grouping!MapThenSumSet(LAMBDA k : Grouping!Bytes(state.buckets[k]),
                                    DOMAIN state.buckets)
    BY IngestHelpersSame DEF Ingest!MapThenSumSet, Grouping!MapThenSumSet,
       Ingest!MapThenFoldSet, Grouping!MapThenFoldSet
  <1> QED
    BY <1>1, <1>2, <1>3, <1>4, IngestHelpersSame DEF Ingest!IngestExact, Grouping!IngestExact

\* While an INSERT runs its invariant holds.
IngestRuns == component = "ingest" => Grouping!IngestGood(state, out)

\* However often its buckets are spilled, any INSERT that succeeds writes one
\* segment for each window and shard with all its events in order, in row groups
\* that keep entities whole; its buffer stays within the budget, and it is refused
\* only for an event that no window or budget takes (partitioner.rs, writer.rs).
THEOREM OperatorsIngest == Spec => []IngestExact
  <1>1. Init => IngestRuns
    BY OperatorsAssumption, IngestInitSame, Grouping!IngestInitially DEF Init, IngestRuns
  <1>2. IngestRuns /\ [Next]_vars => IngestRuns'
    <2> SUFFICES ASSUME IngestRuns, [Next]_vars, component' = "ingest"
                 PROVE  Grouping!IngestGood(state, out)'
      BY DEF IngestRuns
    <2>1. component = "ingest" /\ (Ingest!Next \/ UNCHANGED vars)
      BY DEF Next, vars
    <2>2. Grouping!Next \/ UNCHANGED Grouping!vars
      BY <2>1, IngestStepSame DEF vars, Grouping!vars
    <2> QED BY <2>1, <2>2, Grouping!IngestInductive DEF IngestRuns
  <1>3. IngestRuns => IngestExact
    BY IngestPropertySame, Grouping!GoodIsExact DEF IngestRuns, IngestExact
  <1> QED BY <1>1, <1>2, <1>3, PTL DEF Spec
-----------------------------------------------------------------------------
(* The aggregation *)

\* A STATS begins alike in both instances,
LEMMA AggInitSame ==
    Agg!AggInputs /\ Agg!Init => Grouping!Agg!AggInputs /\ Grouping!Agg!Init
  BY Zenon DEF Agg!AggInputs, Grouping!Agg!AggInputs, Agg!Value, Grouping!Agg!Value,
         Agg!Batch, Grouping!Agg!Batch, Agg!Functions, Grouping!Agg!Functions,
         Agg!Init, Grouping!Agg!Init, Agg!NoGroups, Grouping!Agg!NoGroups

\* keeps the states of its functions in the same way,
LEMMA AggStatesSame ==
    /\ \A f : Agg!NewState(f) = Grouping!Agg!NewState(f)
    /\ \A f, s, v : Agg!UpdateState(f, s, v) = Grouping!Agg!UpdateState(f, s, v)
    /\ \A f, a, b : Agg!MergeState(f, a, b) = Grouping!Agg!MergeState(f, a, b)
    /\ \A f, s : Agg!Finalize(f, s) = Grouping!Agg!Finalize(f, s)
  <1>1. \A f : Agg!NewState(f) = Grouping!Agg!NewState(f)
    BY DEF Agg!NewState, Grouping!Agg!NewState
  <1>2. \A f, s, v : Agg!UpdateState(f, s, v) = Grouping!Agg!UpdateState(f, s, v)
    BY DEF Agg!UpdateState, Grouping!Agg!UpdateState, Agg!AddToSum,
           Grouping!Agg!AddToSum, Agg!Wrapped, Grouping!Agg!Wrapped
  <1>3. \A f, a, b : Agg!MergeState(f, a, b) = Grouping!Agg!MergeState(f, a, b)
    BY DEF Agg!MergeState, Grouping!Agg!MergeState, Agg!Wrapped, Grouping!Agg!Wrapped
  <1>4. \A f, s : Agg!Finalize(f, s) = Grouping!Agg!Finalize(f, s)
    BY DEF Agg!Finalize, Grouping!Agg!Finalize, Agg!Cardinality,
           Grouping!Agg!Cardinality
  <1> QED BY <1>1, <1>2, <1>3, <1>4

\* adds the same batches to an accumulator,
LEMMA UpdateSame == \A acc, b : Agg!UpdateEvaluated(acc, b) = Grouping!Agg!UpdateEvaluated(acc, b)
  <1>1. \A acc, b : Agg!UpdateByHistogram(acc, b) = Grouping!Agg!UpdateByHistogram(acc, b)
    BY DEF Agg!UpdateByHistogram, Grouping!Agg!UpdateByHistogram, Agg!FoldSet,
           Grouping!Agg!FoldSet, Agg!MapThenFoldSet,
           Grouping!Agg!MapThenFoldSet, Agg!FlushSlot, Grouping!Agg!FlushSlot,
           Agg!Slot, Grouping!Agg!Slot, Agg!SlotKey, Grouping!Agg!SlotKey,
           Agg!LookupOrInsert, Grouping!Agg!LookupOrInsert, Agg!NewState,
           Grouping!Agg!NewState, Agg!Cardinality, Grouping!Agg!Cardinality
  <1>2. ASSUME NEW acc, NEW b
        PROVE  Agg!FoldLeft(LAMBDA a, row : Agg!UpdateRow(a, Agg!RowKey(b, row), row.v), acc, b.rows)
               = Grouping!Agg!FoldLeft(LAMBDA a, row :
                     Grouping!Agg!UpdateRow(a, Grouping!Agg!RowKey(b, row), row.v), acc, b.rows)
    BY Zenon DEF Agg!FoldLeft, Grouping!Agg!FoldLeft, Agg!MapThenFoldSet,
           Grouping!Agg!MapThenFoldSet, Agg!Max, Grouping!Agg!Max,
           Agg!UpdateRow, Grouping!Agg!UpdateRow, Agg!RowKey,
           Grouping!Agg!RowKey, Agg!Slot, Grouping!Agg!Slot, Agg!SlotKey,
           Grouping!Agg!SlotKey, Agg!UpdateState, Grouping!Agg!UpdateState,
           Agg!AddToSum, Grouping!Agg!AddToSum, Agg!Wrapped,
           Grouping!Agg!Wrapped, Agg!LookupOrInsert,
           Grouping!Agg!LookupOrInsert, Agg!NewState, Grouping!Agg!NewState,
           Agg!Cardinality, Grouping!Agg!Cardinality
  <1> QED BY <1>1, <1>2, Zenon DEF Agg!UpdateEvaluated, Grouping!Agg!UpdateEvaluated

\* merges the accumulators of the shards to the same one,
LEMMA ShardMergeSame ==
    \A accs : Agg!FoldLeft(Agg!MergeInto, Head(accs), Tail(accs))
              = Grouping!Agg!FoldLeft(Grouping!Agg!MergeInto, Head(accs), Tail(accs))
  BY DEF Agg!FoldLeft, Grouping!Agg!FoldLeft, Agg!MapThenFoldSet,
         Grouping!Agg!MapThenFoldSet, Agg!Max, Grouping!Agg!Max, Agg!MergeInto,
         Grouping!Agg!MergeInto, Agg!FoldSet, Grouping!Agg!FoldSet,
         Agg!MergeGroup, Grouping!Agg!MergeGroup, Agg!MergeState,
         Grouping!Agg!MergeState, Agg!Wrapped, Grouping!Agg!Wrapped,
         Agg!LookupOrInsert, Grouping!Agg!LookupOrInsert, Agg!NewState,
         Grouping!Agg!NewState, Agg!Cardinality, Grouping!Agg!Cardinality

\* puts the groups into the same order,
LEMMA SortedSame == \A keys : Agg!Sorted(keys) = Grouping!Agg!Sorted(keys)
  BY DEF Agg!Sorted, Grouping!Agg!Sorted, Agg!KeyBefore, Grouping!Agg!KeyBefore,
         Agg!Cardinality, Grouping!Agg!Cardinality

\* and so takes the same steps.
LEMMA AggStepSame == Agg!Next => Grouping!Agg!Next
  <1>1. \A acc : Agg!EnsureDefaultGroup(acc) = Grouping!Agg!EnsureDefaultGroup(acc)
    BY DEF Agg!EnsureDefaultGroup, Grouping!Agg!EnsureDefaultGroup,
           Agg!LookupOrInsert, Grouping!Agg!LookupOrInsert, Agg!NewState,
           Grouping!Agg!NewState, Agg!Cardinality, Grouping!Agg!Cardinality
  <1>2. \A acc : Agg!FinishGroups(acc) = Grouping!Agg!FinishGroups(acc)
    BY AggStatesSame, SortedSame DEF Agg!FinishGroups, Grouping!Agg!FinishGroups
  <1>3. /\ Agg!MaxGroupsExceeded = Grouping!Agg!MaxGroupsExceeded
        /\ \A g : Agg!Groups(g) = Grouping!Agg!Groups(g)
    BY DEF Agg!MaxGroupsExceeded, Grouping!Agg!MaxGroupsExceeded, Agg!Groups,
           Grouping!Agg!Groups
  <1>4. ASSUME NEW n, Agg!UpdateBatch(n) PROVE Grouping!Agg!UpdateBatch(n)
    BY <1>3, <1>4, UpdateSame, Zenon DEF Agg!UpdateBatch, Grouping!Agg!UpdateBatch
  <1>5. Agg!MergeAndFinish => Grouping!Agg!MergeAndFinish
    BY <1>1, <1>2, <1>3, ShardMergeSame DEF Agg!MergeAndFinish, Grouping!Agg!MergeAndFinish
  <1> QED BY <1>4, <1>5 DEF Agg!Next, Grouping!Agg!Next

\* Both have the same to fulfil.
LEMMA AggPropertySame == Grouping!Agg!AggregateExact => Agg!AggregateExact
  <1>1. Agg!Rows = Grouping!Agg!Rows /\ \A r : Agg!Key(r) = Grouping!Agg!Key(r)
    BY DEF Agg!Rows, Grouping!Agg!Rows, Agg!Key, Grouping!Agg!Key, Agg!RowAt,
           Grouping!Agg!RowAt
  <1>2. \A f, k : Agg!Aggregated(f, k) = Grouping!Agg!Aggregated(f, k)
    BY DEF Agg!Aggregated, Grouping!Agg!Aggregated, Agg!Rows, Grouping!Agg!Rows,
           Agg!Key, Grouping!Agg!Key, Agg!ValueOf, Grouping!Agg!ValueOf,
           Agg!RowAt, Grouping!Agg!RowAt, Agg!MapThenSumSet,
           Grouping!Agg!MapThenSumSet, Agg!MapThenFoldSet,
           Grouping!Agg!MapThenFoldSet, Agg!Cardinality,
           Grouping!Agg!Cardinality, Agg!Wrapped, Grouping!Agg!Wrapped
  <1>3. Agg!Aggregate = Grouping!Agg!Aggregate
    BY <1>1, <1>2, SortedSame, Zenon
       DEF Agg!Aggregate, Grouping!Agg!Aggregate, Agg!MaxGroupsExceeded,
           Grouping!Agg!MaxGroupsExceeded, Agg!Groups, Grouping!Agg!Groups
  <1> QED BY <1>3 DEF Agg!AggregateExact, Grouping!Agg!AggregateExact, Agg!FloatSumUntyped,
              Grouping!Agg!FloatSumUntyped

\* While the aggregation runs its invariant holds.
AggRuns == component = "aggregate" => Grouping!AggGood(state, out)

\* However the rows are spread over shards, cut into batches and encoded, any STATS
\* returns what all the rows aggregate to at once, and fails exactly when there are
\* more groups than it may have (aggregate/mod.rs).
THEOREM OperatorsAggregate == Spec => []AggregateExact
  <1>1. Init => AggRuns
    BY OperatorsAssumption, AggInitSame, Grouping!AggInitially DEF Init, AggRuns
  <1>2. AggRuns /\ [Next]_vars => AggRuns'
    <2> SUFFICES ASSUME AggRuns, [Next]_vars, component' = "aggregate"
                 PROVE  Grouping!AggGood(state, out)'
      BY DEF AggRuns
    <2>1. component = "aggregate" /\ (Agg!Next \/ UNCHANGED vars)
      BY DEF Next, vars
    <2>2. Grouping!Agg!Next \/ UNCHANGED Grouping!Agg!vars
      BY <2>1, AggStepSame DEF vars, Grouping!Agg!vars
    <2> QED BY <2>1, <2>2, Grouping!AggInductive DEF AggRuns
  <1>3. AggRuns => AggregateExact
    BY Grouping!GoodIsAggregated, AggPropertySame DEF AggRuns, AggregateExact
  <1> QED BY <1>1, <1>2, <1>3, PTL DEF Spec
=============================================================================
