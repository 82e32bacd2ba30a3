-------------------------- MODULE TableStoreProofs --------------------------
(***************************************************************************)
(* TableStore, proved for every value of its constants: type correctness,  *)
(* every listed segment has its file, ids are never reused under a listed  *)
(* segment; a DELETE reaches all its rows and no later ones, pruning by    *)
(* time misses only rows out of time order with another entity's, and      *)
(* TableStore implements EventTable.                                       *)
(***************************************************************************)
EXTENDS TableStore, FiniteFacts

-----------------------------------------------------------------------------
(* Extremal elements of finite sets: what the CHOOSEs of the model pick.    *)

\* A bucket has a first and a last row in segment order.
LEMMA FirstAndLastRow ==
    ASSUME NEW rows \in SUBSET Row, IsFiniteSet(rows), rows # {}
    PROVE  /\ FirstRow(rows) \in rows /\ LastRow(rows) \in rows
           /\ \A q \in rows : ~Precedes(q, FirstRow(rows)) /\ ~Precedes(LastRow(rows), q)
<1> DEFINE Up == {p \in rows \X rows : Precedes(p[1], p[2])}
           Down == {p \in rows \X rows : Precedes(p[2], p[1])}
<1>1. \A q, r, s \in rows :
        /\ ~Precedes(q, q)
        /\ Precedes(q, r) /\ Precedes(r, s) => Precedes(q, s)
  <2>1. \A r \in rows : r.ent \in Nat /\ r.ts \in Nat /\ r.key \in Nat
    BY StoreAssumption DEF Row
  <2>2. TAKE q, r, s \in rows
  <2>3. /\ q.ent \in Nat /\ q.ts \in Nat /\ q.key \in Nat
        /\ r.ent \in Nat /\ r.ts \in Nat /\ r.key \in Nat
        /\ s.ent \in Nat /\ s.ts \in Nat /\ s.key \in Nat
    BY <2>1
  <2> QED
    BY <2>3 DEF Precedes
<1>2. \E m \in rows : \A q \in rows : <<q, m>> \notin Up
  <2>1. \A x, y, z \in rows :
          /\ <<x, x>> \notin Up
          /\ <<x, y>> \in Up /\ <<y, z>> \in Up => <<x, z>> \in Up
    BY <1>1
  <2> HIDE DEF Up
  <2> QED
    BY <2>1, MinimalExists
<1>3. \E m \in rows : \A q \in rows : <<q, m>> \notin Down
  <2>1. \A x, y, z \in rows :
          /\ <<x, x>> \notin Down
          /\ <<x, y>> \in Down /\ <<y, z>> \in Down => <<x, z>> \in Down
    BY <1>1
  <2> HIDE DEF Down
  <2> QED
    BY <2>1, MinimalExists
<1>4. \E r \in rows : \A q \in rows : ~Precedes(q, r)
  BY <1>2
<1>5. \E r \in rows : \A q \in rows : ~Precedes(r, q)
  BY <1>3
<1> QED
  BY <1>4, <1>5 DEF FirstRow, LastRow

\* Both writers record timestamps of rows they were given; a compaction's
\* range covers all of them.
LEMMA TsRangeType ==
    ASSUME NEW rows \in SUBSET Row, IsFiniteSet(rows), rows # {}
    PROVE  /\ IngestTsRange(rows) \in Times \X Times
           /\ CompactTsRange(rows) \in Times \X Times
           /\ \A r \in rows : /\ CompactTsRange(rows)[1] <= r.ts
                             /\ r.ts <= CompactTsRange(rows)[2]
<1>1. IngestTsRange(rows) \in Times \X Times
  BY FirstAndLastRow DEF IngestTsRange, Row
<1> DEFINE stamp == [r \in rows |-> r.ts]
           stamps == {r.ts : r \in rows}
<1>2. stamps \in SUBSET Times /\ stamps # {}
  BY DEF Row
<1>3. stamps \in SUBSET Int
  <2> HIDE DEF stamps
  <2> QED
    BY <1>2, StoreAssumption
<1>4. IsFiniteSet(stamps)
  <2>1. {stamp[r] : r \in rows} = stamps
    OBVIOUS
  <2>2. stamp = [r \in rows |-> stamp[r]]
    OBVIOUS
  <2> HIDE DEF stamp, stamps
  <2> QED
    BY <2>1, <2>2, FiniteImage
<1> DEFINE least == CHOOSE t \in stamps : \A u \in stamps : t <= u
           greatest == CHOOSE t \in stamps : \A u \in stamps : t >= u
<1>5. /\ least \in stamps /\ greatest \in stamps
      /\ \A u \in stamps : least <= u /\ greatest >= u
  <2> HIDE DEF stamps
  <2> QED
    BY <1>2, <1>3, <1>4, LeastAndGreatest
<1>6. /\ CompactTsRange(rows) \in Times \X Times
      /\ \A r \in rows : /\ CompactTsRange(rows)[1] <= r.ts
                        /\ r.ts <= CompactTsRange(rows)[2]
  <2>1. CompactTsRange(rows) = <<least, greatest>>
    BY DEF CompactTsRange
  <2>2. least \in Times /\ greatest \in Times
    BY <1>2, <1>5
  <2>3. \A r \in rows : least <= r.ts /\ greatest >= r.ts
    BY <1>5
  <2>4. least \in Int /\ greatest \in Int /\ \A r \in rows : r.ts \in Int
    BY <1>3, <1>5
  <2> HIDE DEF least, greatest
  <2> QED
    BY <2>1, <2>2, <2>3, <2>4
<1> QED
  BY <1>1, <1>6

\* Cells are pairs of integers.
LEMMA CellsType == Cells \subseteq Int \X Int /\ Cells # {}
<1>1. \A t \in Times : WindowOf(t) \in Int
  BY StoreAssumption DEF WindowOf
<1>2. PICK t \in Times : TRUE
  BY StoreAssumption
<1>3. <<WindowOf(t), 0>> \in Cells
  BY <1>2, StoreAssumption DEF Cells, Windows, Shards
<1> QED
  BY <1>1, <1>3 DEF Cells, Windows, Shards

\* The next bucket of a partitioned insert is one of its buckets.
LEMMA FirstCellType ==
    ASSUME NEW C \in SUBSET Cells, IsFiniteSet(C), C # {}
    PROVE  FirstCell(C) \in C
<1> DEFINE Lex(c, d) == c[1] < d[1] \/ (c[1] = d[1] /\ c[2] < d[2])
           Up == {p \in C \X C : Lex(p[1], p[2])}
<1>1. \A c \in C : c = <<c[1], c[2]>> /\ c[1] \in Int /\ c[2] \in Int
  BY CellsType
<1>2. \E m \in C : \A y \in C : <<y, m>> \notin Up
  <2>1. \A x, y, z \in C :
          /\ ~Lex(x, x)
          /\ Lex(x, y) /\ Lex(y, z) => Lex(x, z)
    BY <1>1
  <2>2. \A x, y, z \in C :
          /\ <<x, x>> \notin Up
          /\ <<x, y>> \in Up /\ <<y, z>> \in Up => <<x, z>> \in Up
    <3> HIDE DEF Lex
    <3> QED
      BY <2>1
  <2> HIDE DEF Up
  <2> QED
    BY <2>2, MinimalExists
<1>3. PICK m \in C : \A y \in C : ~Lex(y, m)
  BY <1>2
<1>4. \A d \in C : m[1] < d[1] \/ (m[1] = d[1] /\ m[2] <= d[2])
  BY <1>1, <1>3
<1> QED
  BY <1>4 DEF FirstCell

-----------------------------------------------------------------------------
(* The inductive invariant                                                  *)
(*                                                                         *)
(* RefsHaveFiles and IdsUnique speak of listed segments only; a step that  *)
(* lists a new one preserves them because of what its statement holds: ids *)
(* above those of every listed segment, a file that is its own, and, for a *)
(* compaction, inputs that are still listed.                               *)

IdHeld ==
    {"ingest_seqs", "ingest_write", "ingest_publish", "compact_seqs",
     "compact_batch", "compact_write", "compact_publish"}
SeqsHeld ==
    {"ingest_write", "ingest_publish", "compact_batch", "compact_write",
     "compact_publish"}
BatchHeld == Ingesting \cup {"compact_write", "compact_publish"}
Written == {"ingest_publish", "compact_publish"}
Settled == {"idle", "down", "delete", "compact_reclaim"}

FiniteData ==
    /\ IsFiniteSet(segs)
    /\ \A p \in DOMAIN files : IsFiniteSet(files[p])
    /\ IsFiniteSet(job.pending) /\ IsFiniteSet(job.rows)

HoldsRows ==
    /\ phase \in Ingesting => job.pending # {}
    /\ phase \in IdHeld \cup Building => job.rows # {}
HoldsId == phase \in IdHeld =>
    job.id < nextSegment /\ \A s \in segs : s.id < job.id
HoldsSeqs == phase \in SeqsHeld =>
    /\ job.lo + Cardinality(job.rows) <= nextSeq
    /\ \A s \in segs : s.lo + s.n <= job.lo
HoldsBatch == phase \in BatchHeld => job.batch < nextBatch
HoldsFile == phase \in Written =>
    <<job.cell, job.id>> \in DOMAIN files /\ files[<<job.cell, job.id>>] = job.rows
HoldsInputs ==
    /\ phase \in Building \cup {"compact_drop"} => job.inputs \subseteq segs
    /\ phase = "compact_unlink" =>
          \A s \in job.inputs, t \in segs : PathOf(s) # PathOf(t)

IInv ==
    /\ TypeOK /\ FiniteData /\ RefsHaveFiles /\ IdsUnique
    /\ HoldsRows /\ HoldsId /\ HoldsSeqs /\ HoldsBatch /\ HoldsFile /\ HoldsInputs

\* The job of an idle store, and the tombstones it names, are of their types.
LEMMA NoJobType ==
    /\ NoTombs \in Tombstones
    /\ NoJob \in Job
    /\ NoJob.pending = {} /\ NoJob.rows = {}
<1>1. NoTombs \in Tombstones
  BY DEF NoTombs, Tombstones
<1>2. (CHOOSE c \in Cells : TRUE) \in Cells
  BY CellsType
<1>3. NoJob \in Job
  BY <1>1, <1>2 DEF NoJob, Job
<1> QED
  BY <1>1, <1>3 DEF NoJob

\* The invariant holds of a new database.
LEMMA InitIInv == Init => IInv
<1> SUFFICES ASSUME Init PROVE IInv
  OBVIOUS
<1>1. TypeOK
  <2>1. DOMAIN files = {}
    BY DEF Init
  <2>2. tombs \in [Cells -> Tombstones]
    BY NoJobType DEF Init
  <2> QED
    BY <2>1, <2>2, NoJobType DEF Init, TypeOK, Phases
<1>2. FiniteData
  BY NoJobType, FS_EmptySet DEF Init, FiniteData
<1>3. RefsHaveFiles /\ IdsUnique
  BY DEF Init, RefsHaveFiles, IdsUnique
<1>4. HoldsRows /\ HoldsId /\ HoldsSeqs /\ HoldsBatch /\ HoldsFile /\ HoldsInputs
  BY DEF Init, HoldsRows, HoldsId, HoldsSeqs, HoldsBatch, HoldsFile, HoldsInputs,
         Ingesting, Building, IdHeld, SeqsHeld, BatchHeld, Written
<1> QED
  BY <1>1, <1>2, <1>3, <1>4 DEF IInv

\* A step that leaves the manifest alone, removes no referenced file and ends
\* at a control point that holds nothing.
QuietStep ==
    /\ UNCHANGED manifest
    /\ DOMAIN files' \subseteq DOMAIN files
    /\ \A p \in DOMAIN files' : files'[p] = files[p]
    /\ ActivePaths \subseteq DOMAIN files'
    /\ tombs' \in [Cells -> Tombstones]
    /\ phase' \in Settled
    /\ job' \in Job /\ IsFiniteSet(job'.pending) /\ IsFiniteSet(job'.rows)
    /\ nextKey' \in Nat /\ committed' \subseteq Nat /\ condemned' \subseteq Nat

\* Such a step keeps the invariant.
LEMMA Quiet == IInv /\ QuietStep => IInv'
<1> SUFFICES ASSUME IInv, QuietStep PROVE IInv'
  OBVIOUS
<1>1. TypeOK'
  BY DEF IInv, TypeOK, QuietStep, manifest, Settled, Phases
<1>2. FiniteData'
  BY DEF IInv, FiniteData, QuietStep, manifest
<1>3. RefsHaveFiles'
  <2>1. SUFFICES ASSUME NEW s \in segs
                 PROVE  PathOf(s) \in DOMAIN files' /\ Cardinality(files'[PathOf(s)]) = s.n
    BY DEF RefsHaveFiles, RowsOf, PathOf, QuietStep, manifest
  <2>2. PathOf(s) \in ActivePaths
    BY DEF ActivePaths
  <2> QED
    BY <2>2 DEF IInv, RefsHaveFiles, RowsOf, QuietStep
<1>4. IdsUnique'
  BY DEF IInv, IdsUnique, SeqRange, QuietStep, manifest
<1>5. (HoldsRows /\ HoldsId /\ HoldsSeqs /\ HoldsBatch /\ HoldsFile /\ HoldsInputs)'
  BY DEF QuietStep, Settled, HoldsRows, HoldsId, HoldsSeqs, HoldsBatch, HoldsFile,
         HoldsInputs, Ingesting, Building, IdHeld, SeqsHeld, BatchHeld, Written
<1> QED
  BY <1>1, <1>2, <1>3, <1>4, <1>5 DEF IInv

\* Creating a table keeps it (create_table),
LEMMA CreateTableStep == IInv /\ CreateTable => IInv'
<1> SUFFICES ASSUME IInv, CreateTable PROVE IInv'
  OBVIOUS
<1> USE DEF CreateTable, disk, observed
<1>1. TypeOK'
  BY DEF IInv, TypeOK
<1>2. FiniteData'
  BY FS_EmptySet DEF IInv, FiniteData
<1>3. RefsHaveFiles' /\ IdsUnique'
  BY DEF RefsHaveFiles, IdsUnique
<1>4. (HoldsRows /\ HoldsId /\ HoldsSeqs /\ HoldsBatch /\ HoldsFile /\ HoldsInputs)'
  BY DEF HoldsRows, HoldsId, HoldsSeqs, HoldsBatch, HoldsFile, HoldsInputs,
         Ingesting, Building, IdHeld, SeqsHeld, BatchHeld, Written
<1> QED
  BY <1>1, <1>2, <1>3, <1>4 DEF IInv

\* so does dropping it (drop_table),
LEMMA DropTableStep == IInv /\ DropTable => IInv'
<1> SUFFICES ASSUME IInv, DropTable PROVE IInv'
  OBVIOUS
<1> USE DEF DropTable, disk
<1>1. TypeOK'
  BY DEF IInv, TypeOK
<1>2. FiniteData'
  BY FS_EmptySet DEF IInv, FiniteData
<1>3. RefsHaveFiles' /\ IdsUnique'
  BY DEF RefsHaveFiles, IdsUnique
<1>4. (HoldsRows /\ HoldsId /\ HoldsSeqs /\ HoldsBatch /\ HoldsFile /\ HoldsInputs)'
  BY DEF HoldsRows, HoldsId, HoldsSeqs, HoldsBatch, HoldsFile, HoldsInputs,
         Ingesting, Building, IdHeld, SeqsHeld, BatchHeld, Written
<1> QED
  BY <1>1, <1>2, <1>3, <1>4 DEF IInv

-----------------------------------------------------------------------------
(* INSERT *)

\* starting an INSERT,
LEMMA IngestStartStep == IInv /\ IngestStart => IInv'
<1> SUFFICES ASSUME IInv, IngestStart PROVE IInv'
  OBVIOUS
<1>0. PICK n \in 1..MaxBatchRows : \E input \in [1..n -> Entities \X Times] :
        /\ job' = [NoJob EXCEPT
              !.batch = nextBatch,
              !.pending = {[key |-> nextKey + i - 1,
                            ent |-> input[i][1], ts |-> input[i][2]] : i \in 1..n}]
        /\ nextKey' = nextKey + n
  BY DEF IngestStart
<1>1. PICK input \in [1..n -> Entities \X Times] :
        /\ job' = [NoJob EXCEPT
              !.batch = nextBatch,
              !.pending = {[key |-> nextKey + i - 1,
                            ent |-> input[i][1], ts |-> input[i][2]] : i \in 1..n}]
        /\ nextKey' = nextKey + n
  BY <1>0
<1> DEFINE row == [i \in 1..n |-> [key |-> nextKey + i - 1,
                                   ent |-> input[i][1], ts |-> input[i][2]]]
           P == {row[i] : i \in 1..n}
<1>2. nextKey \in Nat /\ nextBatch \in Nat /\ n \in Nat /\ n >= 1
  BY <1>1, StoreAssumption DEF IInv, TypeOK
<1>3. \A i \in 1..n : row[i] \in Row
  BY <1>2, <1>1 DEF Row
<1>4. P \subseteq Row /\ P # {}
  <2>1. row[1] \in P
    BY <1>2
  <2> HIDE DEF row
  <2> QED
    BY <1>3, <2>1
<1>5. IsFiniteSet(P)
  <2>1. IsFiniteSet(1..n)
    BY <1>2, FS_Interval
  <2>2. row = [i \in 1..n |-> row[i]] /\ {row[i] : i \in 1..n} = P
    OBVIOUS
  <2> HIDE DEF row, P
  <2>3. IsFiniteSet({row[i] : i \in 1..n})
    BY <2>1, <2>2, FiniteImage
  <2> QED
    BY <2>2, <2>3
<1>6. job' = [NoJob EXCEPT !.batch = nextBatch, !.pending = P]
  BY <1>1
<1>7. /\ job' \in Job /\ job'.pending = P /\ job'.batch = nextBatch /\ job'.rows = {}
  <2> HIDE DEF P
  <2> QED
    BY <1>2, <1>4, <1>6, NoJobType DEF Job
<1>8. TypeOK'
  <2> HIDE DEF P, row
  <2> QED
    BY <1>1, <1>2, <1>7 DEF IngestStart, AllocateBatchId, disk, IInv, TypeOK, Phases
<1>9. FiniteData'
  BY <1>5, <1>7, FS_EmptySet DEF IngestStart, AllocateBatchId, disk, IInv, FiniteData
<1>10. RefsHaveFiles'
  BY DEF IngestStart, AllocateBatchId, disk, IInv, RefsHaveFiles, RowsOf, PathOf
<1>11. IdsUnique'
  <2>1. nextBatch' = nextBatch + 1 /\ UNCHANGED <<segs, nextSegment, nextSeq>>
    BY DEF IngestStart, AllocateBatchId
  <2>2. \A s \in segs : s.batch \in Nat
    BY DEF IInv, TypeOK, Segment
  <2> QED
    BY <1>2, <2>1, <2>2 DEF IInv, IdsUnique, SeqRange
<1>12. HoldsRows' /\ HoldsBatch'
  BY <1>2, <1>4, <1>7 DEF IngestStart, AllocateBatchId, HoldsRows, HoldsBatch,
         Ingesting, Building, IdHeld
<1>13. (HoldsId /\ HoldsSeqs /\ HoldsFile /\ HoldsInputs)'
  BY DEF IngestStart, HoldsId, HoldsSeqs, HoldsFile, HoldsInputs, Building,
         IdHeld, SeqsHeld, Written
<1> QED
  BY <1>8, <1>9, <1>10, <1>11, <1>12, <1>13 DEF IInv

\* The bucket an INSERT writes next is a non-empty part of its pending rows.
LEMMA NextBucket ==
    ASSUME IInv, job.pending # {}
    PROVE  LET c == FirstCell({CellOf(r) : r \in job.pending})
           IN  /\ c \in Cells
               /\ Bucket(c, job.pending) \in SUBSET job.pending
               /\ Bucket(c, job.pending) # {}
               /\ IsFiniteSet(Bucket(c, job.pending))
<1> DEFINE cellOf == [r \in job.pending |-> CellOf(r)]
           C == {CellOf(r) : r \in job.pending}
<1>1. job.pending \in SUBSET Row /\ IsFiniteSet(job.pending)
  BY DEF IInv, TypeOK, FiniteData, Job
<1>2. \A r \in Row : CellOf(r) \in Cells
  BY StoreAssumption DEF Row, CellOf, Cells, Windows, Shards
<1>3. C \in SUBSET Cells /\ C # {}
  BY <1>1, <1>2
<1>4. IsFiniteSet(C)
  <2>1. C = {cellOf[r] : r \in job.pending} /\ cellOf = [r \in job.pending |-> cellOf[r]]
    OBVIOUS
  <2> HIDE DEF cellOf, C
  <2> QED
    BY <2>1, <1>1, FiniteImage
<1>5. FirstCell(C) \in C
  <2> HIDE DEF C
  <2> QED
    BY <1>3, <1>4, FirstCellType
<1>6. Bucket(FirstCell(C), job.pending) # {}
  <2>1. PICK r \in job.pending : FirstCell(C) = CellOf(r)
    BY <1>5
  <2> HIDE DEF C
  <2> QED
    BY <2>1 DEF Bucket
<1>7. Bucket(FirstCell(C), job.pending) \in SUBSET job.pending
  BY DEF Bucket
<1> HIDE DEF C
<1>8. IsFiniteSet(Bucket(FirstCell(C), job.pending))
  BY <1>7, <1>1, FS_Subset
<1>9. FirstCell(C) \in Cells
  BY <1>3, <1>5
<1> QED
  BY <1>6, <1>7, <1>8, <1>9 DEF C

\* taking a segment id for it,
LEMMA IngestAllocateIdStep == IInv /\ IngestAllocateId => IInv'
<1> SUFFICES ASSUME IInv, IngestAllocateId PROVE IInv'
  OBVIOUS
<1> DEFINE c == FirstCell({CellOf(r) : r \in job.pending})
           B == Bucket(c, job.pending)
<1>1. job' = [job EXCEPT !.id = nextSegment, !.cell = c, !.rows = B]
  BY DEF IngestAllocateId
<1>2. job.pending # {} /\ job.pending \in SUBSET Row
  BY DEF IngestAllocateId, IInv, HoldsRows, Ingesting, TypeOK, Job
<1>3. c \in Cells /\ B \in SUBSET job.pending /\ B # {} /\ IsFiniteSet(B)
  BY <1>2, NextBucket
<1> HIDE DEF c, B
<1>4. job \in Job /\ nextSegment \in Nat
  BY DEF IInv, TypeOK
<1>5. /\ job' \in Job /\ job'.pending = job.pending /\ job'.rows = B
      /\ job'.id = nextSegment /\ job'.batch = job.batch
  BY <1>1, <1>2, <1>3, <1>4 DEF Job
<1> USE DEF IngestAllocateId, AllocateSegmentId
<1>6. TypeOK'
  BY <1>4, <1>5 DEF IInv, TypeOK, Phases, disk, observed
<1>7. FiniteData'
  BY <1>3, <1>5 DEF IInv, FiniteData, disk
<1>8. RefsHaveFiles'
  BY DEF IInv, RefsHaveFiles, RowsOf, PathOf, disk
<1>9. IdsUnique'
  BY <1>4 DEF IInv, TypeOK, IdsUnique, SeqRange, Segment
<1>10. HoldsRows' /\ HoldsBatch'
  BY <1>2, <1>3, <1>5 DEF IInv, HoldsRows, HoldsBatch, Ingesting, Building, IdHeld,
         BatchHeld
<1>11. HoldsId'
  BY <1>4, <1>5 DEF IInv, TypeOK, Segment, HoldsId, IdsUnique
<1>12. (HoldsSeqs /\ HoldsFile /\ HoldsInputs)'
  BY DEF HoldsSeqs, HoldsFile, HoldsInputs, Building, SeqsHeld, Written
<1> QED
  BY <1>6, <1>7, <1>8, <1>9, <1>10, <1>11, <1>12 DEF IInv

\* and taking its range of sequence numbers.
LEMMA IngestAllocateSeqsStep == IInv /\ IngestAllocateSeqs => IInv'
<1> SUFFICES ASSUME IInv, IngestAllocateSeqs PROVE IInv'
  OBVIOUS
<1>1. /\ job \in Job /\ nextSeq \in Nat
      /\ phase = "ingest_seqs" /\ phase' = "ingest_write"
      /\ job' = [job EXCEPT !.lo = nextSeq]
      /\ nextSeq' = nextSeq + Cardinality(job.rows)
      /\ UNCHANGED <<hasTable, segs, nextSegment, nextBatch, files, tombs,
                     nextKey, committed, condemned>>
  BY DEF IInv, TypeOK, IngestAllocateSeqs, AllocateSeqRange, disk, observed
<1>2. /\ job' \in Job /\ job'.lo = nextSeq /\ job'.rows = job.rows
      /\ job'.pending = job.pending /\ job'.id = job.id /\ job'.batch = job.batch
  BY <1>1 DEF Job
<1>3. Cardinality(job.rows) \in Nat
  BY FS_CardinalityType DEF IInv, FiniteData
<1>4. TypeOK'
  BY <1>1, <1>2, <1>3 DEF IInv, TypeOK, Phases
<1>5. FiniteData'
  BY <1>1, <1>2 DEF IInv, FiniteData
<1>6. RefsHaveFiles'
  BY <1>1 DEF IInv, RefsHaveFiles, RowsOf, PathOf
<1>7. IdsUnique'
  BY <1>1, <1>3 DEF IInv, TypeOK, IdsUnique, SeqRange, Segment
<1>8. HoldsRows' /\ HoldsBatch' /\ HoldsId'
  BY <1>1, <1>2 DEF IInv, HoldsRows, HoldsBatch, HoldsId, Ingesting, Building, IdHeld,
         BatchHeld
<1>9. HoldsSeqs'
  BY <1>1, <1>2, <1>3 DEF IInv, HoldsSeqs, IdsUnique
<1>10. HoldsFile' /\ HoldsInputs'
  BY <1>1 DEF HoldsFile, HoldsInputs, Building, Written
<1> QED
  BY <1>4, <1>5, <1>6, <1>7, <1>8, <1>9, <1>10 DEF IInv

\* What a failing or finishing statement leaves behind.
LEMMA FinishFacts ==
    Finish => /\ phase' = "idle" /\ job' \in Job
              /\ IsFiniteSet(job'.pending) /\ IsFiniteSet(job'.rows)
  BY NoJobType, FS_EmptySet DEF Finish

\* What is left when files are unlinked.
LEMMA WithoutFilesFacts ==
    ASSUME NEW paths
    PROVE  /\ DOMAIN WithoutFiles(paths) = DOMAIN files \ paths
           /\ \A p \in DOMAIN WithoutFiles(paths) : WithoutFiles(paths)[p] = files[p]
  BY DEF WithoutFiles, Restrict

\* Writing a segment file under an id above every listed one.
LEMMA WriteStep == IInv /\ (IngestWrite \/ CompactWrite) => IInv'
<1> SUFFICES ASSUME IInv, IngestWrite \/ CompactWrite PROVE IInv'
  OBVIOUS
<1> DEFINE path == <<job.cell, job.id>>
<1>1. /\ files' = WithFile(path, job.rows)
      /\ UNCHANGED <<hasTable, segs, nextSegment, nextSeq, nextBatch, tombs, job,
                     nextKey, committed, condemned>>
      /\ \/ phase = "ingest_write" /\ phase' = "ingest_publish"
         \/ phase = "compact_write" /\ phase' = "compact_publish"
  BY DEF IngestWrite, CompactWrite, manifest, observed
<1>2. /\ DOMAIN files' = DOMAIN files \cup {path}
      /\ files'[path] = job.rows
      /\ \A p \in DOMAIN files : p # path => files'[p] = files[p]
  <2> HIDE DEF path
  <2> QED
    BY <1>1 DEF WithFile
<1>3. job \in Job /\ path \in Cells \X Nat /\ job.rows \subseteq Row
  BY DEF IInv, TypeOK, Job
<1>4. \A s \in segs : PathOf(s) # path
  <2>1. \A s \in segs : s.id # job.id
    BY <1>1 DEF IInv, HoldsId, IdHeld, TypeOK, Segment, Job
  <2> QED
    BY <2>1 DEF PathOf
<1> HIDE DEF path
<1>5. TypeOK'
  BY <1>1, <1>2, <1>3 DEF IInv, TypeOK, Phases
<1>6. FiniteData'
  BY <1>1, <1>2 DEF IInv, FiniteData
<1>7. RefsHaveFiles'
  BY <1>1, <1>2, <1>4 DEF IInv, RefsHaveFiles, RowsOf, PathOf
<1>8. IdsUnique'
  BY <1>1 DEF IInv, IdsUnique, SeqRange
<1>9. (HoldsRows /\ HoldsId /\ HoldsSeqs /\ HoldsBatch /\ HoldsInputs)'
  BY <1>1 DEF IInv, HoldsRows, HoldsId, HoldsSeqs, HoldsBatch, HoldsInputs,
         Ingesting, Building, IdHeld, SeqsHeld, BatchHeld
<1>10. HoldsFile'
  BY <1>1, <1>2 DEF HoldsFile, path
<1> QED
  BY <1>5, <1>6, <1>7, <1>8, <1>9, <1>10 DEF IInv

\* Listing the segment a statement has written, with or without taking
\* others off the list.
LEMMA Publishing ==
    ASSUME IInv, phase \in Written,
           \E range \in Times \X Times : segs' \subseteq segs \cup {NewSegment(range)},
           UNCHANGED <<files, nextSegment, nextSeq, nextBatch>>
    PROVE  segs' \subseteq Segment /\ IsFiniteSet(segs') /\ RefsHaveFiles' /\ IdsUnique'
<1>1. PICK range \in Times \X Times : segs' \subseteq segs \cup {NewSegment(range)}
  OBVIOUS
<1> DEFINE N == NewSegment(range)
<1>2. /\ job \in Job /\ Cardinality(job.rows) \in Nat /\ segs \subseteq Segment
      /\ nextSegment \in Nat /\ nextSeq \in Nat /\ nextBatch \in Nat
  BY FS_CardinalityType DEF IInv, FiniteData, TypeOK
<1>3. /\ N \in Segment /\ N.id = job.id /\ N.cell = job.cell /\ N.lo = job.lo
      /\ N.batch = job.batch /\ N.n = Cardinality(job.rows)
  BY <1>2 DEF NewSegment, Segment, Job
<1> HIDE DEF N
<1>4. segs' \subseteq segs \cup {N}
  BY <1>1 DEF N
<1>5. IsFiniteSet(segs')
  <2>1. IsFiniteSet(segs \cup {N})
    BY FS_AddElement DEF IInv, FiniteData
  <2> QED
    BY <1>4, <2>1, FS_Subset
<1>6. RefsHaveFiles'
  <2>1. SUFFICES ASSUME NEW s \in segs'
                 PROVE  PathOf(s) \in DOMAIN files /\ Cardinality(files[PathOf(s)]) = s.n
    BY DEF RefsHaveFiles, RowsOf, PathOf
  <2>2. CASE s \in segs
    BY <2>2 DEF IInv, RefsHaveFiles, RowsOf
  <2>3. CASE s = N
    BY <2>3, <1>3 DEF IInv, HoldsFile, PathOf
  <2> QED
    BY <1>4, <2>2, <2>3
<1>7. IdsUnique'
  <2>1. /\ N.id < nextSegment /\ N.lo + N.n <= nextSeq /\ N.batch < nextBatch
        /\ \A s \in segs : s.id < N.id /\ s.lo + s.n <= N.lo
    BY <1>3 DEF IInv, HoldsId, HoldsSeqs, HoldsBatch, IdHeld, SeqsHeld, BatchHeld,
           Written, Ingesting
  <2>2. \A s \in segs' :
          s.id < nextSegment /\ s.lo + s.n <= nextSeq /\ s.batch < nextBatch
    BY <1>4, <2>1 DEF IInv, IdsUnique
  <2>3. ASSUME NEW s \in segs
        PROVE  /\ s.id # N.id
               /\ SeqRange(s) \cap SeqRange(N) = {}
               /\ SeqRange(N) \cap SeqRange(s) = {}
    <3>1. /\ s.id \in Nat /\ s.lo \in Nat /\ s.n \in Nat
          /\ N.id \in Nat /\ N.lo \in Nat /\ N.n \in Nat
      BY <1>2, <1>3 DEF Segment
    <3> QED
      BY <2>1, <3>1 DEF SeqRange
  <2>4. \A s, t \in segs : s # t => s.id # t.id /\ SeqRange(s) \cap SeqRange(t) = {}
    BY DEF IInv, IdsUnique
  <2>5. \A s, t \in segs' : s # t => s.id # t.id /\ SeqRange(s) \cap SeqRange(t) = {}
    BY <1>4, <2>3, <2>4
  <2> QED
    BY <2>2, <2>5 DEF IdsUnique, SeqRange
<1> QED
  BY <1>2, <1>3, <1>4, <1>5, <1>6, <1>7

\* Listing a segment keeps the invariant.
LEMMA IngestPublishStep == IInv /\ IngestPublish => IInv'
<1> SUFFICES ASSUME IInv, IngestPublish PROVE IInv'
  OBVIOUS
<1> DEFINE rest == job.pending \ job.rows
<1>1. /\ phase = "ingest_publish"
      /\ segs' = segs \cup {NewSegment(IngestTsRange(job.rows))}
      /\ committed' = committed \cup {r.key : r \in job.rows}
      /\ UNCHANGED <<hasTable, nextSegment, nextSeq, nextBatch, files, tombs,
                     nextKey, condemned>>
      /\ \/ rest = {} /\ Finish
         \/ rest # {} /\ phase' = "ingest_id" /\ job' = [job EXCEPT !.pending = rest]
  BY DEF IngestPublish, disk
<1>2. /\ job \in Job /\ job.rows \in SUBSET Row /\ job.pending \in SUBSET Row
      /\ IsFiniteSet(job.rows) /\ IsFiniteSet(job.pending) /\ job.rows # {}
  BY <1>1 DEF IInv, TypeOK, Job, FiniteData, HoldsRows, IdHeld
<1>3. segs' \subseteq Segment /\ IsFiniteSet(segs') /\ RefsHaveFiles' /\ IdsUnique'
  <2>1. IngestTsRange(job.rows) \in Times \X Times
    BY <1>2, TsRangeType
  <2>2. \E range \in Times \X Times : segs' \subseteq segs \cup {NewSegment(range)}
    BY <1>1, <2>1
  <2> QED
    BY <1>1, <2>2, Publishing DEF Written
<1>4. /\ job' \in Job /\ IsFiniteSet(job'.pending) /\ IsFiniteSet(job'.rows)
      /\ \/ phase' = "idle"
         \/ /\ phase' = "ingest_id" /\ job'.pending # {}
            /\ job'.batch = job.batch
  <2>1. CASE rest = {} /\ Finish
    BY <2>1, FinishFacts
  <2>2. CASE rest # {} /\ phase' = "ingest_id" /\ job' = [job EXCEPT !.pending = rest]
    <3>1. rest \in SUBSET Row /\ IsFiniteSet(rest)
      BY <1>2, FS_Difference
    <3> QED
      BY <2>2, <3>1, <1>2 DEF Job
  <2> QED
    BY <1>1, <2>1, <2>2
<1>5. {r.key : r \in job.rows} \subseteq Nat
  BY <1>2 DEF Row
<1>6. TypeOK'
  BY <1>1, <1>3, <1>4, <1>5 DEF IInv, TypeOK, Phases
<1>7. FiniteData'
  BY <1>1, <1>3, <1>4 DEF IInv, FiniteData
<1>8. HoldsBatch'
  BY <1>1, <1>4 DEF IInv, HoldsBatch, BatchHeld, Ingesting
<1>9. (HoldsRows /\ HoldsId /\ HoldsSeqs /\ HoldsFile /\ HoldsInputs)'
  BY <1>4 DEF HoldsRows, HoldsId, HoldsSeqs, HoldsFile, HoldsInputs,
         Ingesting, Building, IdHeld, SeqsHeld, Written
<1> QED
  BY <1>3, <1>6, <1>7, <1>8, <1>9 DEF IInv

\* The file a failing statement removes is its own unpublished one.
LEMMA OwnFileUnlisted == IInv /\ phase \in IdHeld => <<job.cell, job.id>> \notin ActivePaths
<1> SUFFICES ASSUME IInv, phase \in IdHeld, NEW s \in segs
             PROVE  PathOf(s) # <<job.cell, job.id>>
  BY DEF ActivePaths
<1>1. s.id < job.id /\ s.id \in Nat /\ job.id \in Nat
  BY DEF IInv, HoldsId, IdHeld, TypeOK, Segment, Job
<1> QED
  BY <1>1 DEF PathOf

\* Every listed segment has its file.
LEMMA ActiveOnDisk == IInv => ActivePaths \subseteq DOMAIN files
  BY DEF IInv, RefsHaveFiles, ActivePaths

\* An INSERT or a compaction that fails keeps the invariant.
LEMMA FailStep == IInv /\ (IngestFail \/ CompactFail) => IInv'
<1> SUFFICES ASSUME IInv, IngestFail \/ CompactFail PROVE IInv'
  OBVIOUS
<1> DEFINE path == <<job.cell, job.id>>
<1>1. /\ \/ UNCHANGED files
         \/ phase \in IdHeld /\ files' = WithoutFiles({path})
      /\ Finish
      /\ UNCHANGED <<manifest, tombs, nextKey, committed, condemned>>
  BY DEF IngestFail, CompactFail, IdHeld, observed
<1>2. /\ DOMAIN files' \subseteq DOMAIN files
      /\ \A p \in DOMAIN files' : files'[p] = files[p]
      /\ ActivePaths \subseteq DOMAIN files'
  <2>1. CASE UNCHANGED files
    BY <2>1, ActiveOnDisk
  <2>2. CASE phase \in IdHeld /\ files' = WithoutFiles({path})
    <3>1. path \notin ActivePaths
      BY <2>2, OwnFileUnlisted
    <3> HIDE DEF path
    <3> QED
      BY <2>2, <3>1, WithoutFilesFacts, ActiveOnDisk
  <2> QED
    BY <1>1, <2>1, <2>2
<1>3. QuietStep
  BY <1>1, <1>2, FinishFacts DEF QuietStep, IInv, TypeOK, Settled
<1> QED
  BY <1>3, Quiet

-----------------------------------------------------------------------------
(* Compaction *)

\* What the merge of a cell yields is a finite set of rows.
LEMMA MergedRows ==
    ASSUME IInv, NEW c \in Cells,
           NEW merged,
           merged = UNION {{r \in RowsOf(s) : ~CompactionHides(tombs[c], s, r)} :
                             s \in SegsIn(c)}
    PROVE  merged \in SUBSET Row /\ IsFiniteSet(merged)
<1> DEFINE kept == [s \in SegsIn(c) |->
                      {r \in RowsOf(s) : ~CompactionHides(tombs[c], s, r)}]
           parts == {kept[s] : s \in SegsIn(c)}
<1>1. merged = UNION parts
  OBVIOUS
<1>2. \A s \in SegsIn(c) :
        RowsOf(s) \subseteq Row /\ IsFiniteSet(RowsOf(s))
  BY DEF IInv, TypeOK, FiniteData, RefsHaveFiles, RowsOf, SegsIn
<1>3. \A s \in SegsIn(c) : kept[s] \subseteq RowsOf(s)
  OBVIOUS
<1>4. IsFiniteSet(SegsIn(c))
  <2>1. SegsIn(c) \in SUBSET segs
    BY DEF SegsIn
  <2> QED
    BY <2>1, FS_Subset DEF IInv, FiniteData
<1>5. kept = [s \in SegsIn(c) |-> kept[s]]
  OBVIOUS
<1> HIDE DEF kept
<1>6. IsFiniteSet(parts)
  BY <1>4, <1>5, FiniteImage
<1>7. \A P \in parts : P \subseteq Row /\ IsFiniteSet(P)
  <2> SUFFICES ASSUME NEW s \in SegsIn(c)
               PROVE  kept[s] \subseteq Row /\ IsFiniteSet(kept[s])
    OBVIOUS
  <2>1. kept[s] \in SUBSET RowsOf(s) /\ RowsOf(s) \subseteq Row /\ IsFiniteSet(RowsOf(s))
    BY <1>2, <1>3
  <2> QED
    BY <2>1, FS_Subset
<1> HIDE DEF parts
<1>8. IsFiniteSet(UNION parts)
  BY <1>6, <1>7, FS_UNION
<1> QED
  BY <1>1, <1>7, <1>8

\* Choosing the inputs of a compaction keeps it,
LEMMA CompactStartStep == \A c \in Cells : IInv /\ CompactStart(c) => IInv'
<1> SUFFICES ASSUME NEW c \in Cells, IInv, CompactStart(c) PROVE IInv'
  OBVIOUS
<1> DEFINE merged == UNION {{r \in RowsOf(s) : ~CompactionHides(tombs[c], s, r)} :
                              s \in SegsIn(c)}
<1>1. /\ job' = [NoJob EXCEPT !.cell = c, !.inputs = SegsIn(c),
                             !.snap = tombs[c], !.rows = merged]
      /\ \/ merged = {} /\ phase' = "compact_drop"
         \/ merged # {} /\ phase' = "compact_id"
      /\ UNCHANGED <<hasTable, segs, nextSegment, nextSeq, nextBatch, files, tombs,
                     nextKey, committed, condemned>>
  BY DEF CompactStart, manifest, disk, observed
<1>2. merged \in SUBSET Row /\ IsFiniteSet(merged)
  BY MergedRows
<1> HIDE DEF merged
<1>3. SegsIn(c) \subseteq segs /\ SegsIn(c) \subseteq Segment /\ tombs[c] \in Tombstones
  BY DEF SegsIn, IInv, TypeOK
<1>4. /\ job' \in Job /\ job'.rows = merged /\ job'.inputs = SegsIn(c)
      /\ job'.pending = {}
  BY <1>1, <1>2, <1>3, NoJobType DEF Job
<1>5. TypeOK'
  BY <1>1, <1>4 DEF IInv, TypeOK, Phases
<1>6. FiniteData'
  BY <1>1, <1>2, <1>4, FS_EmptySet DEF IInv, FiniteData
<1>7. RefsHaveFiles'
  BY <1>1 DEF IInv, RefsHaveFiles, RowsOf, PathOf
<1>8. IdsUnique'
  BY <1>1 DEF IInv, IdsUnique, SeqRange
<1>9. HoldsRows' /\ HoldsInputs'
  BY <1>1, <1>3, <1>4 DEF HoldsRows, HoldsInputs, Ingesting, Building, IdHeld
<1>10. (HoldsId /\ HoldsSeqs /\ HoldsBatch /\ HoldsFile)'
  BY <1>1 DEF HoldsId, HoldsSeqs, HoldsBatch, HoldsFile, IdHeld, SeqsHeld, BatchHeld,
         Ingesting, Written
<1> QED
  BY <1>5, <1>6, <1>7, <1>8, <1>9, <1>10 DEF IInv

\* The three allocations of a compaction, each of which persists one counter.
CompactAllocate == CompactAllocateId \/ CompactAllocateSeqs \/ CompactAllocateBatch

\* so does taking the ids of its output,
LEMMA CompactAllocateStep == IInv /\ CompactAllocate => IInv'
<1> SUFFICES ASSUME IInv, CompactAllocate PROVE IInv'
  OBVIOUS
<1>1. /\ job \in Job /\ nextSegment \in Nat /\ nextSeq \in Nat /\ nextBatch \in Nat
      /\ Cardinality(job.rows) \in Nat
      /\ \A s \in segs : s.id \in Nat /\ s.lo \in Nat /\ s.n \in Nat /\ s.batch \in Nat
  BY FS_CardinalityType DEF IInv, TypeOK, FiniteData, Segment
<1>2. /\ UNCHANGED <<hasTable, segs, files, tombs, nextKey, committed, condemned>>
      /\ \/ /\ phase = "compact_id" /\ phase' = "compact_seqs"
            /\ job' = [job EXCEPT !.id = nextSegment]
            /\ nextSegment' = nextSegment + 1 /\ UNCHANGED <<nextSeq, nextBatch>>
         \/ /\ phase = "compact_seqs" /\ phase' = "compact_batch"
            /\ job' = [job EXCEPT !.lo = nextSeq]
            /\ nextSeq' = nextSeq + Cardinality(job.rows)
            /\ UNCHANGED <<nextSegment, nextBatch>>
         \/ /\ phase = "compact_batch" /\ phase' = "compact_write"
            /\ job' = [job EXCEPT !.batch = nextBatch]
            /\ nextBatch' = nextBatch + 1 /\ UNCHANGED <<nextSegment, nextSeq>>
  BY DEF CompactAllocate, CompactAllocateId, CompactAllocateSeqs, CompactAllocateBatch,
         AllocateSegmentId, AllocateSeqRange, AllocateBatchId, disk, observed
<1>3. /\ job' \in Job /\ job'.rows = job.rows /\ job'.pending = job.pending
      /\ job'.inputs = job.inputs /\ job'.cell = job.cell
      /\ \/ phase' = "compact_seqs" /\ job'.id = nextSegment
         \/ phase' = "compact_batch" /\ job'.id = job.id /\ job'.lo = nextSeq
         \/ /\ phase' = "compact_write" /\ job'.id = job.id /\ job'.lo = job.lo
            /\ job'.batch = nextBatch
  BY <1>1, <1>2 DEF Job
<1>4. /\ nextSegment' \in Nat /\ nextSeq' \in Nat /\ nextBatch' \in Nat
      /\ nextSegment <= nextSegment' /\ nextSeq <= nextSeq' /\ nextBatch <= nextBatch'
  BY <1>1, <1>2
<1>5. TypeOK'
  BY <1>2, <1>3, <1>4 DEF IInv, TypeOK, Phases
<1>6. FiniteData'
  BY <1>2, <1>3 DEF IInv, FiniteData
<1>7. RefsHaveFiles'
  BY <1>2 DEF IInv, RefsHaveFiles, RowsOf, PathOf
<1>8. IdsUnique'
  <2>1. \A s \in segs :
          s.id < nextSegment' /\ s.lo + s.n <= nextSeq' /\ s.batch < nextBatch'
    BY <1>1, <1>4 DEF IInv, IdsUnique
  <2> QED
    BY <1>2, <2>1 DEF IInv, IdsUnique, SeqRange
<1>9. HoldsRows' /\ HoldsInputs'
  BY <1>2, <1>3 DEF IInv, HoldsRows, HoldsInputs, Ingesting, Building, IdHeld
<1>10. HoldsId'
  BY <1>1, <1>2, <1>3 DEF IInv, HoldsId, IdsUnique, IdHeld
<1>11. HoldsSeqs'
  BY <1>1, <1>2, <1>3 DEF IInv, HoldsSeqs, IdsUnique, SeqsHeld
<1>12. HoldsBatch' /\ HoldsFile'
  BY <1>1, <1>2, <1>3 DEF HoldsBatch, HoldsFile, BatchHeld, Ingesting, Written
<1> QED
  BY <1>5, <1>6, <1>7, <1>8, <1>9, <1>10, <1>11, <1>12 DEF IInv

\* replacing the inputs by the output,
LEMMA CompactPublishStep == IInv /\ CompactPublish => IInv'
<1> SUFFICES ASSUME IInv, CompactPublish PROVE IInv'
  OBVIOUS
<1> DEFINE N == NewSegment(CompactTsRange(job.rows))
<1>1. /\ phase = "compact_publish" /\ phase' = "compact_unlink"
      /\ segs' = (segs \ job.inputs) \cup {N}
      /\ UNCHANGED <<hasTable, nextSegment, nextSeq, nextBatch, files, tombs, job,
                     nextKey, committed, condemned>>
  BY DEF CompactPublish, disk, observed
<1>2. segs' \subseteq Segment /\ IsFiniteSet(segs') /\ RefsHaveFiles' /\ IdsUnique'
  <2>1. /\ job.rows \in SUBSET Row /\ IsFiniteSet(job.rows) /\ job.rows # {}
    BY <1>1 DEF IInv, TypeOK, Job, FiniteData, HoldsRows, IdHeld
  <2>2. CompactTsRange(job.rows) \in Times \X Times
    BY <2>1, TsRangeType
  <2>3. \E range \in Times \X Times : segs' \subseteq segs \cup {NewSegment(range)}
    BY <1>1, <2>2
  <2> QED
    BY <1>1, <2>3, Publishing DEF Written
<1>3. HoldsInputs'
  <2>1. \A s \in job.inputs, t \in segs \ job.inputs : s.id # t.id
    BY <1>1 DEF IInv, HoldsInputs, Building, IdsUnique
  <2>2. \A s \in job.inputs : s.id # N.id
    <3>1. N.id = job.id
      BY DEF NewSegment
    <3>2. \A s \in segs : s.id < job.id /\ s.id \in Nat /\ job.id \in Nat
      BY <1>1 DEF IInv, HoldsId, IdHeld, TypeOK, Segment, Job
    <3> QED
      BY <1>1, <3>1, <3>2 DEF IInv, HoldsInputs, Building
  <2> HIDE DEF N
  <2>3. \A s \in job.inputs, t \in segs' : s.id # t.id
    BY <1>1, <2>1, <2>2
  <2>4. \A s \in job.inputs, t \in segs' : PathOf(s) # PathOf(t)
    BY <2>3 DEF PathOf
  <2> QED
    BY <1>1, <2>4 DEF HoldsInputs, Building, PathOf
<1>4. TypeOK' /\ FiniteData'
  BY <1>1, <1>2 DEF IInv, TypeOK, FiniteData, Phases
<1>5. (HoldsRows /\ HoldsId /\ HoldsSeqs /\ HoldsBatch /\ HoldsFile)'
  BY <1>1 DEF HoldsRows, HoldsId, HoldsSeqs, HoldsBatch, HoldsFile,
         Ingesting, Building, IdHeld, SeqsHeld, BatchHeld, Written
<1> QED
  BY <1>2, <1>3, <1>4, <1>5 DEF IInv

\* dropping inputs of which nothing is left,
LEMMA CompactDropStep == IInv /\ CompactDrop => IInv'
<1> SUFFICES ASSUME IInv, CompactDrop PROVE IInv'
  OBVIOUS
<1>1. /\ phase = "compact_drop" /\ phase' = "compact_unlink"
      /\ segs' = segs \ job.inputs
      /\ UNCHANGED <<hasTable, nextSegment, nextSeq, nextBatch, files, tombs, job,
                     nextKey, committed, condemned>>
  BY DEF CompactDrop, disk, observed
<1>2. IsFiniteSet(segs')
  BY <1>1, FS_Difference DEF IInv, FiniteData
<1>3. TypeOK' /\ FiniteData'
  BY <1>1, <1>2 DEF IInv, TypeOK, FiniteData, Phases
<1>4. RefsHaveFiles'
  BY <1>1 DEF IInv, RefsHaveFiles, RowsOf, PathOf
<1>5. IdsUnique'
  BY <1>1 DEF IInv, IdsUnique, SeqRange
<1>6. HoldsInputs'
  <2>1. \A s \in job.inputs, t \in segs' : s.id # t.id
    BY <1>1 DEF IInv, HoldsInputs, IdsUnique
  <2>2. \A s \in job.inputs, t \in segs' : PathOf(s) # PathOf(t)
    BY <2>1 DEF PathOf
  <2> QED
    BY <1>1, <2>2 DEF HoldsInputs, Building, PathOf
<1>7. (HoldsRows /\ HoldsId /\ HoldsSeqs /\ HoldsBatch /\ HoldsFile)'
  BY <1>1 DEF HoldsRows, HoldsId, HoldsSeqs, HoldsBatch, HoldsFile,
         Ingesting, Building, IdHeld, SeqsHeld, BatchHeld, Written
<1> QED
  BY <1>3, <1>4, <1>5, <1>6, <1>7 DEF IInv

\* unlinking the inputs,
LEMMA CompactUnlinkStep == IInv /\ CompactUnlink => IInv'
<1> SUFFICES ASSUME IInv, CompactUnlink PROVE IInv'
  OBVIOUS
<1>1. PICK kept \in SUBSET job.inputs :
        files' = WithoutFiles({PathOf(s) : s \in job.inputs \ kept})
  BY DEF CompactUnlink
<1> DEFINE gone == {PathOf(s) : s \in job.inputs \ kept}
<1>2. gone \cap ActivePaths = {}
  BY DEF CompactUnlink, IInv, HoldsInputs, ActivePaths
<1> HIDE DEF gone
<1>3. /\ DOMAIN files' \subseteq DOMAIN files
      /\ \A p \in DOMAIN files' : files'[p] = files[p]
      /\ ActivePaths \subseteq DOMAIN files'
  BY <1>1, <1>2, WithoutFilesFacts, ActiveOnDisk DEF gone
<1>4. QuietStep
  BY <1>3 DEF QuietStep, CompactUnlink, observed, IInv, TypeOK, FiniteData, Settled
<1> QED
  BY <1>4, Quiet

\* and taking tombstones from the tombstone file.
LEMMA CompactReclaimStep == IInv /\ CompactReclaim => IInv'
<1> SUFFICES ASSUME IInv, CompactReclaim PROVE IInv'
  OBVIOUS
<1>1. tombs \in [Cells -> Tombstones] /\ job \in Job
  BY DEF IInv, TypeOK
<1>2. \A t \in Tombstones : Reclaimed(t, job.snap, job.inputs) \in Tombstones
  BY DEF Reclaimed, Tombstones
<1>3. tombs' \in [Cells -> Tombstones]
  <2>1. job.cell \in Cells
    BY <1>1 DEF Job
  <2> QED
    BY <1>1, <1>2, <2>1 DEF CompactReclaim
<1>4. QuietStep
  BY <1>3, FinishFacts, ActiveOnDisk
    DEF CompactReclaim, QuietStep, observed, IInv, TypeOK, Settled
<1> QED
  BY <1>4, Quiet

-----------------------------------------------------------------------------
(* DELETE *)

\* Planning a DELETE keeps the invariant, whatever it plans,
LEMMA BeginDeleteStep ==
    ASSUME NEW entries, NEW ranges, NEW matching,
           IInv, entries \in [Shards -> Tombstones],
           {r.key : r \in matching} \subseteq Nat,
           BeginDelete(entries, ranges, matching)
    PROVE  IInv'
<1> DEFINE keys == {r.key : r \in matching}
<1>1. keys \subseteq Nat
  OBVIOUS
<1>2. /\ job' = [NoJob EXCEPT !.entries = entries,
                             !.todo = TargetCells(entries, ranges),
                             !.doomed = keys]
      /\ condemned' = condemned \cup keys
      /\ phase' = "delete"
      /\ UNCHANGED <<manifest, files, tombs, nextKey, committed>>
  BY DEF BeginDelete, disk
<1> HIDE DEF keys
<1>3. TargetCells(entries, ranges) \in SUBSET Cells
  BY DEF TargetCells
<1>4. job' \in Job /\ job'.pending = {} /\ job'.rows = {}
  BY <1>1, <1>2, <1>3, NoJobType DEF Job
<1>5. QuietStep
  BY <1>1, <1>2, <1>4, FS_EmptySet, ActiveOnDisk DEF QuietStep, IInv, TypeOK, Settled
<1> QED
  BY <1>5, Quiet

\* Rows a DELETE reads come from listed files, at natural __seq_ids.
LEMMA StoredRows ==
    ASSUME IInv
    PROVE  \A s \in segs : \A r \in Survivors(s) :
             r \in Row /\ r.key \in Nat /\ SeqOf(s, r) \in Nat
<1> TAKE s \in segs
<1>1. RowsOf(s) \subseteq Row /\ IsFiniteSet(RowsOf(s)) /\ s.lo \in Nat
  BY DEF IInv, TypeOK, FiniteData, RefsHaveFiles, RowsOf, Segment
<1> TAKE r \in Survivors(s)
<1>2. r \in RowsOf(s)
  BY DEF Survivors
<1>3. Offset(r, RowsOf(s)) \in Nat
  <2> DEFINE before == {q \in RowsOf(s) : Precedes(q, r)}
  <2>1. before \in SUBSET RowsOf(s)
    OBVIOUS
  <2> HIDE DEF before
  <2>2. Cardinality(before) \in Nat
    BY <1>1, <2>1, FS_Subset, FS_CardinalityType
  <2> QED
    BY <2>2 DEF before, Offset
<1> QED
  BY <1>1, <1>2, <1>3 DEF SeqOf, Row

\* and so does each kind of DELETE (delete.rs),
LEMMA DeleteStartStep == IInv /\ DeleteStart => IInv'
<1> SUFFICES ASSUME IInv, DeleteStart PROVE IInv'
  OBVIOUS
<1>1. \A targets : \A v \in VisibleOn(targets) :
        /\ v = <<v[1], v[2]>> /\ v[1] \in segs /\ v[2] \in Survivors(v[1])
        /\ v[2].key \in Nat /\ SeqOf(v[1], v[2]) \in Nat
  BY StoredRows DEF VisibleOn
<1>2. \A r \in Visible : r.key \in Nat
  BY StoredRows DEF Visible
<1>3. \A targets : \A t \in Tombstones : OnShards(targets, t) \in [Shards -> Tombstones]
  BY NoJobType DEF OnShards
<1>4. nextSeq \in Nat /\ nextBatch \in Nat /\ MaxSeqs \in Nat /\ MaxBatches \in Nat
  BY StoreAssumption DEF IInv, TypeOK
<1>5. CASE DeleteBySeqId
  <2>1. PICK q \in RowIds, targets \in Targetings :
          BeginDelete(OnShards(targets, [NoTombs EXCEPT !.rows = {q}]), {},
                      {v[2] : v \in {v \in VisibleOn(targets) : SeqOf(v[1], v[2]) = q}})
    BY <1>5 DEF DeleteBySeqId
  <2>2. q \in Nat
    BY <1>4 DEF RowIds
  <2>3. [NoTombs EXCEPT !.rows = {q}] \in Tombstones
    BY <2>2, NoJobType DEF Tombstones
  <2> DEFINE found == {v[2] : v \in {v \in VisibleOn(targets) : SeqOf(v[1], v[2]) = q}}
  <2>4. {r.key : r \in found} \subseteq Nat
    BY <1>1
  <2> HIDE DEF found
  <2> QED
    BY <1>3, <2>1, <2>3, <2>4, BeginDeleteStep DEF found
<1>6. CASE DeleteByBatchId
  <2>1. PICK b \in BatchIds, targets \in Targetings :
          BeginDelete(OnShards(targets, [NoTombs EXCEPT !.batches = {b}]), {},
                      {v[2] : v \in {v \in VisibleOn(targets) : v[1].batch = b}})
    BY <1>6 DEF DeleteByBatchId
  <2>2. b \in Nat
    BY <1>4 DEF BatchIds
  <2>3. [NoTombs EXCEPT !.batches = {b}] \in Tombstones
    BY <2>2, NoJobType DEF Tombstones
  <2> DEFINE found == {v[2] : v \in {v \in VisibleOn(targets) : v[1].batch = b}}
  <2>4. {r.key : r \in found} \subseteq Nat
    BY <1>1
  <2> HIDE DEF found
  <2> QED
    BY <1>3, <2>1, <2>3, <2>4, BeginDeleteStep DEF found
<1>7. CASE DeleteByEntity
  <2>1. PICK e \in Entities :
          BeginDelete(OnShards({ShardOf[e]}, [NoTombs EXCEPT !.ents = {e}]), {},
                      {r \in Visible : r.ent = e})
    BY <1>7 DEF DeleteByEntity
  <2>2. [NoTombs EXCEPT !.ents = {e}] \in Tombstones
    BY NoJobType DEF Tombstones
  <2> DEFINE found == {r \in Visible : r.ent = e}
  <2>3. {r.key : r \in found} \subseteq Nat
    BY <1>2
  <2> HIDE DEF found
  <2> QED
    BY <1>3, <2>1, <2>2, <2>3, BeginDeleteStep DEF found
<1>8. CASE DeleteByTimeRange
  <2>1. PICK range \in TimeRange :
          BeginDelete(OnShards(Shards, [NoTombs EXCEPT !.ranges = {range}]), {range},
                      {r \in Visible : Contains(range, r.ts)})
    BY <1>8 DEF DeleteByTimeRange
  <2>2. [NoTombs EXCEPT !.ranges = {range}] \in Tombstones
    BY NoJobType DEF Tombstones
  <2> DEFINE found == {r \in Visible : Contains(range, r.ts)}
  <2>3. {r.key : r \in found} \subseteq Nat
    BY <1>2
  <2> HIDE DEF found
  <2> QED
    BY <1>3, <2>1, <2>2, <2>3, BeginDeleteStep DEF found
<1>9. CASE DeleteByScan
  <2>1. PICK P \in ScanPredicates :
          LET matches == {v \in VisibleOn(Shards) : <<v[2].ent, v[2].ts>> \in P}
              seqsOf(sh) == {SeqOf(v[1], v[2]) : v \in {v \in matches : v[1].cell[2] = sh}}
          IN  BeginDelete([sh \in Shards |-> [NoTombs EXCEPT !.rows = seqsOf(sh)]], {},
                          {v[2] : v \in matches})
    BY <1>9 DEF DeleteByScan
  <2> DEFINE matches == {v \in VisibleOn(Shards) : <<v[2].ent, v[2].ts>> \in P}
             seqsOf(sh) == {SeqOf(v[1], v[2]) : v \in {v \in matches : v[1].cell[2] = sh}}
             entries == [sh \in Shards |-> [NoTombs EXCEPT !.rows = seqsOf(sh)]]
             found == {v[2] : v \in matches}
  <2>2. BeginDelete(entries, {}, found)
    BY <2>1
  <2>3. \A v \in matches : v[2].key \in Nat /\ SeqOf(v[1], v[2]) \in Nat
    BY <1>1
  <2>4. {r.key : r \in found} \subseteq Nat
    BY <2>3
  <2>5. ASSUME NEW sh \in Shards PROVE seqsOf(sh) \in SUBSET Nat
    BY <2>3
  <2>6. \A Q \in SUBSET Nat : [NoTombs EXCEPT !.rows = Q] \in Tombstones
    BY NoJobType DEF Tombstones
  <2> HIDE DEF found, seqsOf
  <2>7. entries \in [Shards -> Tombstones]
    BY <2>5, <2>6
  <2> HIDE DEF entries
  <2> QED
    BY <2>2, <2>4, <2>7, BeginDeleteStep
<1> QED
  BY <1>5, <1>6, <1>7, <1>8, <1>9 DEF DeleteStart

\* writing the tombstones of a cell,
LEMMA DeleteWriteStep == \A c \in Cells : IInv /\ DeleteWrite(c) => IInv'
<1> SUFFICES ASSUME NEW c \in Cells, IInv, DeleteWrite(c) PROVE IInv'
  OBVIOUS
<1>1. job \in Job /\ tombs \in [Cells -> Tombstones]
  BY DEF IInv, TypeOK
<1>2. job.entries[c[2]] \in Tombstones
  BY <1>1 DEF Job, Cells
<1>3. \A t, u \in Tombstones : Merge(t, u) \in Tombstones
  BY DEF Merge, Tombstones
<1>4. tombs' \in [Cells -> Tombstones]
  BY <1>1, <1>2, <1>3 DEF DeleteWrite
<1>5. job' \in Job /\ job'.pending = job.pending /\ job'.rows = job.rows
  BY <1>1 DEF DeleteWrite, Job
<1>6. QuietStep
  BY <1>4, <1>5, ActiveOnDisk
    DEF DeleteWrite, QuietStep, observed, IInv, TypeOK, FiniteData, Settled
<1> QED
  BY <1>6, Quiet

\* and the end of the statement.
LEMMA DeleteEndStep == IInv /\ (DeleteFinish \/ DeleteFail) => IInv'
<1> SUFFICES ASSUME IInv, DeleteFinish \/ DeleteFail PROVE IInv'
  OBVIOUS
<1>1. Finish /\ UNCHANGED <<manifest, files, tombs, nextKey, committed, condemned>>
  BY DEF DeleteFinish, DeleteFail, disk, observed
<1>2. QuietStep
  BY <1>1, FinishFacts, ActiveOnDisk DEF QuietStep, IInv, TypeOK, Settled
<1> QED
  BY <1>2, Quiet

-----------------------------------------------------------------------------
(* Crash and recovery *)

\* A crash keeps the invariant: what is on disk stays,
LEMMA CrashStep == IInv /\ Crash => IInv'
<1> SUFFICES ASSUME IInv, Crash PROVE IInv'
  OBVIOUS
<1>1. QuietStep
  BY NoJobType, FS_EmptySet, ActiveOnDisk
    DEF Crash, disk, QuietStep, IInv, TypeOK, Settled
<1> QED
  BY <1>1, Quiet

\* and so does recovery.
LEMMA OpenStep == IInv /\ (Open \/ OpenFail) => IInv'
<1> SUFFICES ASSUME IInv, Open \/ OpenFail PROVE IInv'
  OBVIOUS
<1>1. PICK orphans \in SUBSET (DOMAIN files \ ActivePaths) : files' = WithoutFiles(orphans)
  BY DEF Open, OpenFail
<1>2. /\ DOMAIN files' \subseteq DOMAIN files
      /\ \A p \in DOMAIN files' : files'[p] = files[p]
      /\ ActivePaths \subseteq DOMAIN files'
  BY <1>1, WithoutFilesFacts, ActiveOnDisk
<1>3. QuietStep
  BY <1>2 DEF Open, OpenFail, observed, QuietStep, IInv, TypeOK, FiniteData, Settled
<1> QED
  BY <1>3, Quiet

-----------------------------------------------------------------------------

\* Every step keeps the invariant.
LEMMA NextIInv == IInv /\ [Next]_vars => IInv'
<1> SUFFICES ASSUME IInv, [Next]_vars PROVE IInv'
  OBVIOUS
<1>1. CASE Ddl
  BY <1>1, CreateTableStep, DropTableStep DEF Ddl
<1>2. CASE Ingest
  BY <1>2, IngestStartStep, IngestAllocateIdStep, IngestAllocateSeqsStep, WriteStep,
     IngestPublishStep, FailStep DEF Ingest
<1>3. CASE Compact
  BY <1>3, CompactStartStep, CompactAllocateStep, WriteStep, CompactPublishStep,
     CompactDropStep, CompactUnlinkStep, CompactReclaimStep, FailStep
     DEF Compact, CompactAllocate
<1>4. CASE Delete
  BY <1>4, DeleteStartStep, DeleteWriteStep, DeleteEndStep DEF Delete
<1>5. CASE Recover
  BY <1>5, CrashStep, OpenStep DEF Recover
<1>6. CASE UNCHANGED vars
  <2>1. UNCHANGED <<hasTable, segs, nextSegment, nextSeq, nextBatch, files, tombs,
                    phase, job, nextKey, committed, condemned>>
    BY <1>6 DEF vars, manifest, disk, observed
  <2>2. TypeOK' /\ FiniteData'
    BY <2>1 DEF IInv, TypeOK, FiniteData
  <2>3. RefsHaveFiles' /\ IdsUnique'
    BY <2>1 DEF IInv, RefsHaveFiles, IdsUnique, RowsOf, PathOf, SeqRange
  <2>4. (HoldsRows /\ HoldsId /\ HoldsSeqs /\ HoldsBatch)'
    BY <2>1 DEF IInv, HoldsRows, HoldsId, HoldsSeqs, HoldsBatch
  <2>5. HoldsFile' /\ HoldsInputs'
    BY <2>1 DEF IInv, HoldsFile, HoldsInputs, PathOf
  <2> QED
    BY <2>2, <2>3, <2>4, <2>5 DEF IInv
<1> QED
  BY <1>1, <1>2, <1>3, <1>4, <1>5, <1>6 DEF Next

\* The inductive invariant holds in every reachable state.
THEOREM StoreInvariant == Spec => []IInv
<1> QED
  BY InitIInv, NextIInv, PTL DEF Spec

\* The manifest, the directory and the statement in flight keep their shapes,
\* whatever fails or crashes.
THEOREM StoreTypeCorrect == Spec => []TypeOK
<1>1. IInv => TypeOK
  BY DEF IInv
<1> QED
  BY <1>1, StoreInvariant, PTL

\* No listed segment ever lacks its file or has a torn one.
THEOREM ListedSegmentsReadable == Spec => []RefsHaveFiles
<1>1. IInv => RefsHaveFiles
  BY DEF IInv
<1> QED
  BY <1>1, StoreInvariant, PTL

\* No id is reused under a listed segment.
THEOREM IdsNeverReused == Spec => []IdsUnique
<1>1. IInv => IdsUnique
  BY DEF IInv
<1> QED
  BY <1>1, StoreInvariant, PTL

-----------------------------------------------------------------------------
(* Rows, queries and the table of EventTable                               *)
(*                                                                         *)
(* TableStore implements EventTable, and what its tombstones and time      *)
(* ranges promise.  Some of the results need a hypothesis on how the table *)
(* is used, stated below; where it fails, TLC shows what goes wrong.       *)

IdKinds == {"row", "batch", "scan"}
StickyKinds == {"entity", "range"}

\* Tombstones that name ids name ids handed out before: no DELETE names an id
\* of the future, and no table with such tombstones is dropped, after which a
\* new one would hand out the same ids again.
OldIdsOnly ==
    /\ {"row", "batch"} \cap DeleteKinds # {} => ~AnyId
    /\ IdKinds \cap DeleteKinds # {} => MaxDrops = 0

\* No two entities share a shard, and so no segment of an INSERT holds two.
ShardsApart == \A e, f \in Entities : ShardOf[e] = ShardOf[f] => e = f

-----------------------------------------------------------------------------
(* The strengthening *)

\* A row is in one place: its key tells it apart among all listed segments,
\* and the rows of a running INSERT are not among them.
KeysOnce ==
    /\ nextKey <= MaxKeys
    /\ \A k \in committed : k < nextKey
    /\ \A s \in segs : \A r \in RowsOf(s) : r.key \in committed
    /\ \A s, t \in segs : \A r \in RowsOf(s), q \in RowsOf(t) :
          r.key = q.key => s = t /\ r = q
    /\ phase \in Ingesting =>
          /\ \A r, q \in job.pending : r.key = q.key => r = q
          /\ \A r \in job.pending : r.key < nextKey /\ r.key \notin committed

\* Segments hold rows of their cell only.
Placed ==
    /\ \A s \in segs : \A r \in RowsOf(s) : CellOf(r) = s.cell
    /\ phase \in Ingesting \ {"ingest_id"} =>
          job.rows \subseteq job.pending /\ \A r \in job.rows : CellOf(r) = job.cell

\* A compaction has the rows that were visible of its inputs, which are all
\* segments of its cell.
Merging == phase \in Building \cup {"compact_drop"} =>
    /\ job.inputs = SegsIn(job.cell)
    /\ job.rows = UNION {Survivors(s) : s \in job.inputs}
    /\ phase = "compact_drop" => job.rows = {}

\* Without a table there is nothing: no statement, no segment, no id handed out.
NoTable == ~hasTable =>
    phase \in {"idle", "down"} /\ segs = {} /\ nextSeq = 0 /\ nextBatch = 0

RowInv == KeysOnce /\ Placed /\ Merging /\ NoTable

\* The time range of a segment covers its rows.
RangesCover ==
    \A s \in segs : \A r \in RowsOf(s) : s.ts[1] <= r.ts /\ r.ts <= s.ts[2]

\* Rows of two entities of which the greater has the earlier time: a segment
\* that sorts by entity has them the wrong way round for its time range.
OutOfTimeOrder(q, r) == q.ent < r.ent /\ r.ts < q.ts

\* A row outside the time range of its segment is out of time order with a row
\* of another entity there: it is earlier than the row of a smaller entity, if
\* the range begins too late, or later than that of a greater one.
RangesMissOnlyDisorder ==
    \A s \in segs : \A r \in RowsOf(s) :
        /\ r.ts < s.ts[1] => \E q \in RowsOf(s) : OutOfTimeOrder(q, r)
        /\ s.ts[2] < r.ts => \E q \in RowsOf(s) : OutOfTimeOrder(r, q)

\* A time-bounded query returns no row that a full scan would not, and misses one
\* only where the segment has the row out of time order with another entity's.
PruningMissesOnlyDisorder ==
    \A from, to \in Times : from < to =>
        LET asked == {r \in Visible : from <= r.ts /\ r.ts < to}
        IN  /\ QueryTimeRange(from, to) \subseteq asked
            /\ \A s \in segs : \A r \in Survivors(s) \cap asked :
                  (\A q \in RowsOf(s) : ~OutOfTimeOrder(q, r) /\ ~OutOfTimeOrder(r, q))
                      => r \in QueryTimeRange(from, to)

\* No segment has rows of two entities out of time order.
SegmentsInTimeOrder == \A s \in segs : \A q, r \in RowsOf(s) : ~OutOfTimeOrder(q, r)

\* What is left to do of a DELETE covers all that is left of its rows.
Targeted == phase = "delete" =>
    \A s \in segs : \A r \in Survivors(s) :
        r.key \in job.doomed => s.cell \in job.todo /\ Hides(job.entries[s.cell[2]], s, r)

\* Ids that a tombstone names are below `seq` and `batch`.
SeqsBelow(t, seq) == \A q \in t.rows : q < seq
BatchesBelow(t, batch) == \A b \in t.batches : b < batch
NoIds(t) == t.rows = {} /\ t.batches = {}
NotSticky(t) == t.ents = {} /\ t.ranges = {}

\* Tombstones name old ids, and only the kinds of DELETE that are used leave any.
OldTombs ==
    /\ drops \in Nat
    /\ \A c \in Cells : SeqsBelow(tombs[c], nextSeq) /\ BatchesBelow(tombs[c], nextBatch)
    /\ phase \in SeqsHeld => \A c \in Cells : SeqsBelow(tombs[c], job.lo)
    /\ phase \in BatchHeld => \A c \in Cells : BatchesBelow(tombs[c], job.batch)
    /\ phase = "delete" => \A sh \in Shards :
          SeqsBelow(job.entries[sh], nextSeq) /\ BatchesBelow(job.entries[sh], nextBatch)

KindsUsed ==
    /\ IdKinds \cap DeleteKinds = {} =>
          /\ \A c \in Cells : NoIds(tombs[c])
          /\ phase = "delete" => \A sh \in Shards : NoIds(job.entries[sh])
    /\ StickyKinds \cap DeleteKinds = {} =>
          /\ \A c \in Cells : NotSticky(tombs[c])
          /\ phase = "delete" => \A sh \in Shards : NotSticky(job.entries[sh])

\* After the publish no tombstone of the cell hides anything.
Reclaimable == phase \in {"compact_unlink", "compact_reclaim"} =>
    \A s \in SegsIn(job.cell) : \A r \in RowsOf(s) : ~Hides(tombs[job.cell], s, r)

\* What a DELETE is still going to hide, it has set out to hide.
Intended == phase = "delete" =>
    /\ job.doomed \subseteq condemned
    /\ \A s \in segs : \A r \in Survivors(s) :
          s.cell \in job.todo /\ Hides(job.entries[s.cell[2]], s, r) => r.key \in job.doomed

VisInv == OldTombs /\ KindsUsed /\ Reclaimable /\ Intended

-----------------------------------------------------------------------------
(* __seq_ids *)

\* Precedes orders the rows of a segment, which differ in their keys.
LEMMA PrecedesOrders ==
    ASSUME NEW rows \in SUBSET Row
    PROVE  \A q, r, s \in rows :
             /\ ~Precedes(q, q)
             /\ Precedes(q, r) /\ Precedes(r, s) => Precedes(q, s)
             /\ q.key # r.key => Precedes(q, r) \/ Precedes(r, q)
  <1>1. \A r \in rows : r.ent \in Nat /\ r.ts \in Nat /\ r.key \in Nat
    BY StoreAssumption DEF Row
  <1> TAKE q, r, s \in rows
  <1>2. /\ q.ent \in Nat /\ q.ts \in Nat /\ q.key \in Nat
        /\ r.ent \in Nat /\ r.ts \in Nat /\ r.key \in Nat
        /\ s.ent \in Nat /\ s.ts \in Nat /\ s.key \in Nat
    BY <1>1
  <1> QED BY <1>2 DEF Precedes

\* A row that precedes another has the smaller offset, and all are below the
\* number of rows.
LEMMA OffsetsRise ==
    ASSUME NEW rows \in SUBSET Row, IsFiniteSet(rows), NEW r \in rows
    PROVE  /\ Offset(r, rows) \in Nat
           /\ Offset(r, rows) < Cardinality(rows)
           /\ \A q \in rows : Precedes(r, q) => Offset(r, rows) < Offset(q, rows)
  <1> DEFINE Before(q) == {p \in rows : Precedes(p, q)}
  <1>1. \A q \in rows : IsFiniteSet(Before(q)) /\ Cardinality(Before(q)) \in Nat
    <2> TAKE q \in rows
    <2>1. Before(q) \in SUBSET rows
      OBVIOUS
    <2> HIDE DEF Before
    <2> QED BY <2>1, FS_Subset, FS_CardinalityType
  <1>2. \A B \in SUBSET rows : Before(r) \subseteq B /\ r \in B =>
            Cardinality(Before(r)) < Cardinality(B)
    <2> SUFFICES ASSUME NEW B \in SUBSET rows, Before(r) \subseteq B, r \in B
                 PROVE  Cardinality(Before(r)) < Cardinality(B)
      OBVIOUS
    <2>1. r \notin Before(r)
      BY PrecedesOrders
    <2> HIDE DEF Before
    <2>2. IsFiniteSet(B) /\ Cardinality(B) \in Nat
      BY FS_Subset, FS_CardinalityType
    <2>3. Cardinality(Before(r)) <= Cardinality(B) /\ Cardinality(Before(r)) # Cardinality(B)
      BY <2>1, <2>2, FS_Subset
    <2> QED BY <1>1, <2>2, <2>3
  <1>3. Before(r) \subseteq rows
    OBVIOUS
  <1>4. ASSUME NEW q \in rows, Precedes(r, q)
        PROVE  Before(r) \subseteq Before(q) /\ r \in Before(q) /\ Before(q) \in SUBSET rows
    BY <1>4, PrecedesOrders
  <1>5. \A q \in rows : Offset(q, rows) = Cardinality(Before(q))
    BY DEF Offset
  <1> HIDE DEF Before
  <1>6. Cardinality(Before(r)) < Cardinality(rows)
    BY <1>2, <1>3
  <1>7. \A q \in rows : Precedes(r, q) => Cardinality(Before(r)) < Cardinality(Before(q))
    BY <1>2, <1>4
  <1> QED BY <1>1, <1>5, <1>6, <1>7

\* What IInv says of a listed segment's file.
LEMMA ListedFile ==
    ASSUME IInv, NEW s \in segs
    PROVE  /\ s \in Segment /\ s.cell \in Cells
           /\ s.lo \in Nat /\ s.n \in Nat /\ s.id \in Nat /\ s.batch \in Nat
           /\ PathOf(s) \in DOMAIN files
           /\ RowsOf(s) \in SUBSET Row /\ IsFiniteSet(RowsOf(s))
           /\ Cardinality(RowsOf(s)) = s.n
  BY DEF IInv, TypeOK, FiniteData, RefsHaveFiles, RowsOf, Segment

\* The __seq_id of a row is in its segment's range.
LEMMA SeqInRange ==
    ASSUME IInv, NEW s \in segs, NEW r \in RowsOf(s)
    PROVE  SeqOf(s, r) \in SeqRange(s) /\ SeqOf(s, r) \in Nat /\ SeqOf(s, r) < nextSeq
  <1>1. /\ s.lo \in Nat /\ s.n \in Nat
        /\ RowsOf(s) \in SUBSET Row /\ IsFiniteSet(RowsOf(s)) /\ Cardinality(RowsOf(s)) = s.n
    BY ListedFile
  <1>2. Offset(r, RowsOf(s)) \in Nat /\ Offset(r, RowsOf(s)) < s.n
    BY <1>1, OffsetsRise
  <1>3. s.lo + s.n <= nextSeq /\ nextSeq \in Nat
    BY DEF IInv, IdsUnique, TypeOK
  <1> QED BY <1>1, <1>2, <1>3 DEF SeqOf, SeqRange

\* No two rows of listed segments have the same __seq_id.
LEMMA SeqsDistinct ==
    ASSUME IInv, KeysOnce, NEW s \in segs, NEW t \in segs,
           NEW r \in RowsOf(s), NEW q \in RowsOf(t), SeqOf(s, r) = SeqOf(t, q)
    PROVE  s = t /\ r = q
  <1>1. s = t
    BY SeqInRange DEF IInv, IdsUnique
  <1>2. RowsOf(s) \in SUBSET Row /\ IsFiniteSet(RowsOf(s)) /\ s.lo \in Nat
    BY ListedFile
  <1>3. q \in RowsOf(s)
    BY <1>1
  <1>4. /\ Offset(r, RowsOf(s)) \in Nat /\ Offset(q, RowsOf(s)) \in Nat
        /\ Precedes(r, q) => Offset(r, RowsOf(s)) < Offset(q, RowsOf(s))
        /\ Precedes(q, r) => Offset(q, RowsOf(s)) < Offset(r, RowsOf(s))
    BY <1>2, <1>3, OffsetsRise
  <1>5. Offset(r, RowsOf(s)) = Offset(q, RowsOf(s))
    BY <1>1, <1>2, <1>4 DEF SeqOf
  <1>6. r.key = q.key
    BY <1>2, <1>3, <1>4, <1>5, PrecedesOrders
  <1> QED BY <1>1, <1>6 DEF KeysOnce

-----------------------------------------------------------------------------
(* Steps that change nothing a query can see *)

\* Listed segments, their files and the tombstones stay.
View ==
    /\ segs' = segs /\ tombs' = tombs /\ committed' = committed
    /\ \A s \in segs : files'[PathOf(s)] = files[PathOf(s)]

\* The INSERT's and the compaction's steps before and after they publish, the
\* DELETE's first and last, crash and recovery.
LEMMA OutOfSight ==
    ASSUME IInv,
           \/ IngestStart \/ IngestAllocateId \/ IngestAllocateSeqs \/ IngestWrite \/ IngestFail
           \/ (\E c \in Cells : CompactStart(c)) \/ CompactAllocate \/ CompactWrite
           \/ CompactUnlink \/ CompactFail
           \/ DeleteStart \/ DeleteFinish \/ DeleteFail
           \/ Recover \/ UNCHANGED vars
    PROVE  View
  <1>1. \A s \in segs : PathOf(s) \in ActivePaths /\ PathOf(s) \in DOMAIN files
    BY ListedFile DEF ActivePaths
  <1>2. CASE IngestStart \/ IngestAllocateId \/ IngestAllocateSeqs \/ CompactAllocate
    BY <1>2 DEF View, IngestStart, IngestAllocateId, IngestAllocateSeqs, CompactAllocate,
       CompactAllocateId, CompactAllocateSeqs, CompactAllocateBatch, AllocateSegmentId,
       AllocateSeqRange, AllocateBatchId, disk, observed
  <1>3. CASE IngestWrite \/ CompactWrite
    <2>1. phase \in IdHeld /\ files' = WithFile(<<job.cell, job.id>>, job.rows)
          /\ segs' = segs /\ tombs' = tombs /\ committed' = committed
      BY <1>3 DEF IngestWrite, CompactWrite, IdHeld, manifest, observed
    <2>2. \A s \in segs : PathOf(s) # <<job.cell, job.id>>
      BY <1>1, <2>1, OwnFileUnlisted
    <2> QED BY <1>1, <2>1, <2>2 DEF View, WithFile
  <1>4. CASE IngestFail \/ CompactFail
    <2>1. /\ \/ UNCHANGED files
             \/ phase \in IdHeld /\ files' = WithoutFiles({<<job.cell, job.id>>})
          /\ segs' = segs /\ tombs' = tombs /\ committed' = committed
      BY <1>4 DEF IngestFail, CompactFail, IdHeld, manifest, observed
    <2>2. phase \in IdHeld => \A s \in segs : PathOf(s) # <<job.cell, job.id>>
      BY <1>1, OwnFileUnlisted
    <2>3. CASE UNCHANGED files
      BY <2>1, <2>3 DEF View
    <2>4. CASE phase \in IdHeld /\ files' = WithoutFiles({<<job.cell, job.id>>})
      <3>1. \A s \in segs : PathOf(s) \in DOMAIN files \ {<<job.cell, job.id>>}
        BY <1>1, <2>2, <2>4
      <3> QED BY <2>1, <2>4, <3>1, WithoutFilesFacts DEF View
    <2> QED BY <2>1, <2>3, <2>4
  <1>5. CASE (\E c \in Cells : CompactStart(c)) \/ DeleteFinish \/ DeleteFail \/ Crash
             \/ UNCHANGED vars
    BY <1>5 DEF View, CompactStart, DeleteFinish, DeleteFail, Crash, vars, manifest, disk, observed
  <1>6. CASE CompactUnlink
    <2>1. PICK kept \in SUBSET job.inputs :
            files' = WithoutFiles({PathOf(s) : s \in job.inputs \ kept})
      BY <1>6 DEF CompactUnlink
    <2>2. \A t \in segs : PathOf(t) \notin {PathOf(s) : s \in job.inputs \ kept}
      BY <1>6 DEF CompactUnlink, IInv, HoldsInputs
    <2> QED BY <1>1, <1>6, <2>1, <2>2, WithoutFilesFacts DEF View, CompactUnlink, manifest, observed
  <1>7. CASE DeleteStart
    BY <1>7 DEF DeleteStart, DeleteBySeqId, DeleteByBatchId, DeleteByEntity, DeleteByTimeRange,
       DeleteByScan, BeginDelete, View, manifest, disk
  <1>8. CASE Open \/ OpenFail
    <2>1. PICK orphans \in SUBSET (DOMAIN files \ ActivePaths) : files' = WithoutFiles(orphans)
      BY <1>8 DEF Open, OpenFail
    <2> QED BY <1>1, <1>8, <2>1, WithoutFilesFacts DEF View, Open, OpenFail, manifest, observed
  <1> QED BY <1>2, <1>3, <1>4, <1>5, <1>6, <1>7, <1>8 DEF Recover

\* A segment whose file stays keeps its rows and their ids.
LEMMA SameFile ==
    ASSUME NEW s, files'[PathOf(s)] = files[PathOf(s)]
    PROVE  /\ RowsOf(s)' = RowsOf(s)
           /\ \A r : SeqOf(s, r)' = SeqOf(s, r)
           /\ \A t, r : Hides(t, s, r)' <=> Hides(t, s, r)
           /\ tombs'[s.cell] = tombs[s.cell] => Survivors(s)' = Survivors(s)
  BY DEF RowsOf, SeqOf, Hides, Survivors, PathOf

\* Such a step changes neither the rows of a listed segment nor what is seen.
LEMMA SameView ==
    ASSUME View
    PROVE  /\ \A s \in segs : /\ RowsOf(s)' = RowsOf(s)
                              /\ \A t, r : Hides(t, s, r)' <=> Hides(t, s, r)
                              /\ Survivors(s)' = Survivors(s)
           /\ VisibleKeys' = VisibleKeys
  <1>1. \A s \in segs : /\ RowsOf(s)' = RowsOf(s)
                        /\ \A t, r : Hides(t, s, r)' <=> Hides(t, s, r)
                        /\ Survivors(s)' = Survivors(s)
    BY SameFile DEF View
  <1>2. Visible' = Visible
    BY <1>1 DEF Visible, View
  <1> QED BY <1>1, <1>2 DEF VisibleKeys

-----------------------------------------------------------------------------
(* RowInv is inductive *)

\* In a step that only the statement itself sees, what its job record says is
\* all there is to show.
LEMMA ViewRows ==
    ASSUME IInv, RowInv, View,
           nextKey' \in Nat, nextKey <= nextKey', nextKey' <= MaxKeys,
           phase' \in Ingesting =>
              /\ \A r, q \in job'.pending : r.key = q.key => r = q
              /\ \A r \in job'.pending : r.key < nextKey' /\ r.key \notin committed,
           phase' \in Ingesting \ {"ingest_id"} =>
              job'.rows \subseteq job'.pending /\ \A r \in job'.rows : CellOf(r) = job'.cell,
           phase' \in Building \cup {"compact_drop"} =>
              /\ job'.inputs = SegsIn(job'.cell)
              /\ job'.rows = UNION {Survivors(s) : s \in job'.inputs}
              /\ phase' = "compact_drop" => job'.rows = {},
           NoTable'
    PROVE  RowInv'
  <1>1. /\ segs' = segs /\ committed' = committed
        /\ \A s \in segs : RowsOf(s)' = RowsOf(s) /\ Survivors(s)' = Survivors(s)
    BY SameView DEF View
  <1>2. KeysOnce'
    <2>1. nextKey \in Nat /\ committed \subseteq Nat
      BY DEF IInv, TypeOK
    <2>2. \A k \in committed : k < nextKey'
      BY <2>1 DEF RowInv, KeysOnce
    <2> QED BY <1>1, <2>2 DEF RowInv, KeysOnce
  <1>3. Placed'
    BY <1>1 DEF RowInv, Placed
  <1>4. Merging'
    <2> SUFFICES ASSUME phase' \in Building \cup {"compact_drop"}
                 PROVE  /\ job'.inputs = SegsIn(job.cell)'
                        /\ job'.rows = UNION {Survivors(s)' : s \in job'.inputs}
                        /\ phase' = "compact_drop" => job'.rows = {}
      BY DEF Merging
    <2>1. job'.inputs = SegsIn(job.cell)' /\ job'.inputs \subseteq segs
      BY <1>1 DEF SegsIn
    <2>2. {Survivors(s)' : s \in job'.inputs} = {Survivors(s) : s \in job'.inputs}
      BY <1>1, <2>1
    <2> QED BY <2>1, <2>2
  <1> QED BY <1>2, <1>3, <1>4 DEF RowInv

\* A statement that has ended or deletes holds no rows of its own.
LEMMA QuietRows ==
    ASSUME IInv, RowInv, View, nextKey' = nextKey, NoTable',
           phase' \notin Ingesting \cup Building \cup {"compact_drop"}
    PROVE  RowInv'
  <1>1. nextKey \in Nat /\ MaxKeys \in Nat /\ nextKey <= MaxKeys
    BY StoreAssumption DEF IInv, TypeOK, RowInv, KeysOnce
  <1> QED BY <1>1, ViewRows

\* An INSERT that starts keeps the invariant of rows,
LEMMA IngestStartRows == IInv /\ RowInv /\ IngestStart => RowInv'
  <1> SUFFICES ASSUME IInv, RowInv, IngestStart PROVE RowInv'
    OBVIOUS
  <1>1. PICK n \in 1..MaxBatchRows : \E input \in [1..n -> Entities \X Times] :
          /\ nextKey + n <= MaxKeys
          /\ job' = [NoJob EXCEPT
                !.batch = nextBatch,
                !.pending = {[key |-> nextKey + i - 1,
                              ent |-> input[i][1], ts |-> input[i][2]] : i \in 1..n}]
          /\ nextKey' = nextKey + n
    BY DEF IngestStart
  <1>2. PICK input \in [1..n -> Entities \X Times] :
          job'.pending = {[key |-> nextKey + i - 1,
                           ent |-> input[i][1], ts |-> input[i][2]] : i \in 1..n}
    BY <1>1 DEF NoJob
  <1>3. /\ nextKey \in Nat /\ n \in Nat /\ nextKey' = nextKey + n /\ nextKey' <= MaxKeys
        /\ committed \subseteq Nat
    BY <1>1, StoreAssumption DEF IInv, TypeOK
  <1>4. phase' = "ingest_id" /\ hasTable' = hasTable /\ hasTable
    BY DEF IngestStart, AllocateBatchId
  <1>5. \A r \in job'.pending : r.key < nextKey' /\ r.key \notin committed
    BY <1>2, <1>3 DEF RowInv, KeysOnce
  <1>6. \A r, q \in job'.pending : r.key = q.key => r = q
    BY <1>2, <1>3
  <1>7. View
    BY OutOfSight
  <1>8. phase' \in Ingesting \ {"ingest_id"} => FALSE
    BY <1>4
  <1>9. phase' \in Building \cup {"compact_drop"} => FALSE
    BY <1>4 DEF Building
  <1> QED BY <1>3, <1>4, <1>5, <1>6, <1>7, <1>8, <1>9, ViewRows DEF NoTable

\* as do its steps up to the segment file.
LEMMA IngestRows ==
    ASSUME IInv, RowInv, IngestAllocateId \/ IngestAllocateSeqs \/ IngestWrite
    PROVE  RowInv'
  <1>1. /\ phase \in Ingesting /\ phase' \in Ingesting \ {"ingest_id"}
        /\ nextKey' = nextKey /\ hasTable' = hasTable /\ hasTable
    BY DEF IngestAllocateId, AllocateSegmentId, IngestAllocateSeqs, AllocateSeqRange,
       IngestWrite, manifest, observed, Ingesting, RowInv, NoTable
  <1>2. job \in Job /\ nextKey \in Nat /\ MaxKeys \in Nat /\ nextKey <= MaxKeys
    BY StoreAssumption DEF IInv, TypeOK, RowInv, KeysOnce
  <1>3. /\ job'.pending = job.pending /\ job'.rows \subseteq job.pending
        /\ \A r \in job'.rows : CellOf(r) = job'.cell
    <2>1. CASE IngestAllocateId
      <3> DEFINE c == FirstCell({CellOf(r) : r \in job.pending})
      <3>1. job' = [job EXCEPT !.id = nextSegment, !.cell = c, !.rows = Bucket(c, job.pending)]
        BY <2>1 DEF IngestAllocateId
      <3> HIDE DEF c
      <3> QED BY <1>2, <3>1 DEF Bucket, Job
    <2>2. CASE IngestAllocateSeqs \/ IngestWrite
      BY <1>2, <2>2 DEF Job, IngestAllocateSeqs, IngestWrite, RowInv, Placed, Ingesting
    <2> QED BY <2>1, <2>2
  <1>4. View
    BY OutOfSight
  <1>5. phase' \in Building \cup {"compact_drop"} => FALSE
    BY <1>1 DEF Building, Ingesting
  <1> QED BY <1>1, <1>2, <1>3, <1>4, <1>5, ViewRows DEF RowInv, KeysOnce, NoTable

\* The merge's filter is the query's.
LEMMA FiltersAgree == \A t, s, r : CompactionHides(t, s, r) <=> Hides(t, s, r)
  BY DEF CompactionHides, Hides

\* A compaction that starts keeps the invariant of rows,
LEMMA CompactStartRows == \A c \in Cells : IInv /\ RowInv /\ CompactStart(c) => RowInv'
  <1> SUFFICES ASSUME NEW c \in Cells, IInv, RowInv, CompactStart(c) PROVE RowInv'
    OBVIOUS
  <1> DEFINE merged == UNION {{r \in RowsOf(s) : ~CompactionHides(tombs[c], s, r)} :
                              s \in SegsIn(c)}
  <1>1. /\ job' = [NoJob EXCEPT !.cell = c, !.inputs = SegsIn(c),
                                !.snap = tombs[c], !.rows = merged]
        /\ phase' = IF merged = {} THEN "compact_drop" ELSE "compact_id"
        /\ nextKey' = nextKey /\ hasTable' = hasTable /\ hasTable
    BY DEF CompactStart, manifest, observed
  <1>2. merged = UNION {Survivors(s) : s \in SegsIn(c)}
    <2>1. \A s \in SegsIn(c) :
             {r \in RowsOf(s) : ~CompactionHides(tombs[c], s, r)} = Survivors(s)
      BY FiltersAgree DEF Survivors, SegsIn
    <2> QED BY <2>1
  <1> HIDE DEF merged
  <1>3. job'.cell = c /\ job'.inputs = SegsIn(c) /\ job'.rows = merged
    BY <1>1 DEF NoJob
  <1>4. phase' \notin Ingesting
    BY <1>1 DEF Ingesting
  <1>5. View
    BY OutOfSight
  <1>6. nextKey \in Nat /\ MaxKeys \in Nat /\ nextKey <= MaxKeys
    BY StoreAssumption DEF IInv, TypeOK, RowInv, KeysOnce
  <1>7. phase' = "compact_drop" => merged = {}
    BY <1>1
  <1> QED BY <1>1, <1>2, <1>3, <1>4, <1>5, <1>6, <1>7, ViewRows DEF NoTable

\* as do its steps up to the output file.
LEMMA CompactRows ==
    ASSUME IInv, RowInv, CompactAllocate \/ CompactWrite
    PROVE  RowInv'
  <1>1. /\ phase \in Building /\ phase' \in Building
        /\ nextKey' = nextKey /\ hasTable' = hasTable /\ hasTable
    BY DEF CompactAllocate, CompactAllocateId, CompactAllocateSeqs, CompactAllocateBatch,
       AllocateSegmentId, AllocateSeqRange, AllocateBatchId, CompactWrite, manifest, observed,
       Building, RowInv, NoTable
  <1>2. job'.cell = job.cell /\ job'.inputs = job.inputs /\ job'.rows = job.rows
    <2>1. job \in Job
      BY DEF IInv, TypeOK
    <2> QED BY <2>1 DEF CompactAllocate, CompactAllocateId, CompactAllocateSeqs,
               CompactAllocateBatch, CompactWrite, Job
  <1>3. phase' \notin Ingesting /\ phase' # "compact_drop"
    BY <1>1 DEF Building, Ingesting
  <1>4. View
    BY OutOfSight
  <1>5. nextKey \in Nat /\ MaxKeys \in Nat /\ nextKey <= MaxKeys
    BY StoreAssumption DEF IInv, TypeOK, RowInv, KeysOnce
  <1> QED BY <1>1, <1>2, <1>3, <1>4, <1>5, ViewRows DEF NoTable, RowInv, Merging

\* The steps that end a statement or begin a DELETE, and recovery.
Settles == \/ IngestFail \/ CompactUnlink \/ CompactFail
           \/ DeleteStart \/ DeleteFinish \/ DeleteFail \/ Recover

\* They leave the manifest alone, and where they lead.
LEMMA SettlesFacts ==
    ASSUME Settles
    PROVE  /\ UNCHANGED <<manifest, nextKey>>
           /\ phase' \in {"idle", "down", "delete", "compact_reclaim"}
           /\ phase' = "delete" => DeleteStart
           /\ phase' = "compact_reclaim" => CompactUnlink
           /\ phase \in {"idle", "down"} =>
                 phase' \in {"idle", "down"} \/ (DeleteStart /\ hasTable)
  <1>1. CASE DeleteStart
    BY <1>1 DEF DeleteStart, DeleteBySeqId, DeleteByBatchId, DeleteByEntity, DeleteByTimeRange,
       DeleteByScan, BeginDelete
  <1>2. CASE CompactUnlink
    BY <1>2 DEF CompactUnlink, observed
  <1>3. CASE \/ IngestFail \/ CompactFail \/ DeleteFinish \/ DeleteFail \/ Recover
    BY <1>3 DEF IngestFail, CompactFail, DeleteFinish, DeleteFail, Recover, Crash, Open,
       OpenFail, Finish, observed, Ingesting, Building
  <1> QED BY <1>1, <1>2, <1>3 DEF Settles

\* They keep the invariant of rows.
LEMMA SettlesRows == IInv /\ RowInv /\ Settles => RowInv'
  <1> SUFFICES ASSUME IInv, RowInv, Settles PROVE RowInv'
    OBVIOUS
  <1>1. View
    BY OutOfSight DEF Settles
  <1>2. phase' \notin Ingesting \cup Building \cup {"compact_drop"}
    BY SettlesFacts DEF Ingesting, Building
  <1>3. NoTable'
    BY SettlesFacts DEF RowInv, NoTable, manifest
  <1> QED BY <1>1, <1>2, <1>3, SettlesFacts, QuietRows DEF manifest

\* The segment a statement is about to list: its rows are those of the file the
\* statement has written.
LEMMA OutputFile ==
    ASSUME IInv, phase \in Written, NEW range
    PROVE  LET N == NewSegment(range)
           IN  /\ RowsOf(N) = job.rows /\ job.rows \in SUBSET Row /\ job.rows # {}
               /\ IsFiniteSet(job.rows)
               /\ N.cell = job.cell /\ N.batch = job.batch /\ N.lo = job.lo /\ N.ts = range
               /\ N.n = Cardinality(job.rows) /\ N.id = job.id /\ N \notin segs
               /\ job.cell \in Cells /\ job.batch \in Nat /\ job.lo \in Nat
  <1> DEFINE N == NewSegment(range)
  <1>1. /\ job \in Job /\ job.rows \in SUBSET Row /\ IsFiniteSet(job.rows)
        /\ job.cell \in Cells /\ job.batch \in Nat /\ job.lo \in Nat /\ job.id \in Nat
    BY DEF IInv, TypeOK, Job, FiniteData
  <1>2. job.rows # {}
    BY DEF IInv, HoldsRows, Written, IdHeld
  <1>3. /\ N.cell = job.cell /\ N.batch = job.batch /\ N.lo = job.lo /\ N.ts = range
        /\ N.n = Cardinality(job.rows) /\ N.id = job.id
    BY DEF NewSegment
  <1> HIDE DEF N
  <1>4. RowsOf(N) = job.rows
    BY <1>3 DEF IInv, HoldsFile, RowsOf, PathOf
  <1>5. N \notin segs
    BY <1>1, <1>3 DEF IInv, HoldsId, Written, IdHeld
  <1> QED BY <1>1, <1>2, <1>3, <1>4, <1>5 DEF N

\* A segment that is listed keeps the invariant of rows: its rows are new.
LEMMA IngestPublishRows == IInv /\ RowInv /\ IngestPublish => RowInv'
  <1> SUFFICES ASSUME IInv, RowInv, IngestPublish PROVE RowInv'
    OBVIOUS
  <1> DEFINE N == NewSegment(IngestTsRange(job.rows))
             rest == job.pending \ job.rows
  <1>1. /\ phase = "ingest_publish"
        /\ segs' = segs \cup {N}
        /\ committed' = committed \cup {r.key : r \in job.rows}
        /\ UNCHANGED <<hasTable, files, nextKey>>
        /\ \/ phase' = "idle"
           \/ phase' = "ingest_id" /\ job' = [job EXCEPT !.pending = rest]
    BY DEF IngestPublish, disk, Finish
  <1>2. /\ RowsOf(N) = job.rows /\ job.rows \in SUBSET Row
        /\ N.cell = job.cell
    BY <1>1, OutputFile DEF Written
  <1>3. /\ job.rows \subseteq job.pending /\ \A r \in job.rows : CellOf(r) = job.cell
        /\ \A r, q \in job.pending : r.key = q.key => r = q
        /\ \A r \in job.pending : r.key < nextKey /\ r.key \notin committed
    BY <1>1 DEF RowInv, Placed, KeysOnce, Ingesting
  <1>4. phase' \in Ingesting => phase' = "ingest_id" /\ job'.pending = rest
    <2>1. job \in Job
      BY DEF IInv, TypeOK
    <2> QED BY <1>1, <2>1 DEF Job, Ingesting
  <1> HIDE DEF N
  <1>5. \A s \in segs' : RowsOf(s)' = RowsOf(s)
    BY <1>1 DEF RowsOf, PathOf
  <1>6. KeysOnce'
    <2>1. \A k \in committed' : k < nextKey'
      BY <1>1, <1>3 DEF RowInv, KeysOnce
    <2>2. \A s \in segs' : \A r \in RowsOf(s) : r.key \in committed'
      BY <1>1, <1>2 DEF RowInv, KeysOnce
    <2>3. \A s, t \in segs' : \A r \in RowsOf(s), q \in RowsOf(t) :
             r.key = q.key => s = t /\ r = q
      <3>1. \A s \in segs : \A r \in RowsOf(s) : r.key \in committed
        BY DEF RowInv, KeysOnce
      <3>2. \A q \in RowsOf(N) : q.key \notin committed
        BY <1>2, <1>3
      <3>3. \A r, q \in RowsOf(N) : r.key = q.key => r = q
        BY <1>2, <1>3
      <3>4. \A s, t \in segs : \A r \in RowsOf(s), q \in RowsOf(t) :
               r.key = q.key => s = t /\ r = q
        BY DEF RowInv, KeysOnce
      <3> QED BY <1>1, <3>1, <3>2, <3>3, <3>4
    <2>4. phase' \in Ingesting =>
            /\ \A r, q \in job'.pending : r.key = q.key => r = q
            /\ \A r \in job'.pending : r.key < nextKey' /\ r.key \notin committed'
      BY <1>1, <1>3, <1>4
    <2>5. nextKey' <= MaxKeys
      BY <1>1 DEF RowInv, KeysOnce
    <2> QED BY <1>5, <2>1, <2>2, <2>3, <2>4, <2>5 DEF KeysOnce
  <1>7. Placed'
    <2>1. \A s \in segs' : \A r \in RowsOf(s) : CellOf(r) = s.cell
      BY <1>1, <1>2, <1>3 DEF RowInv, Placed
    <2> QED BY <1>4, <1>5, <2>1 DEF Placed
  <1>8. Merging' /\ NoTable'
    BY <1>1 DEF Merging, Building, RowInv, NoTable
  <1> QED BY <1>6, <1>7, <1>8 DEF RowInv

\* A compaction swaps the segments of a cell for one, or for none.
LEMMA CompactSwapRows == IInv /\ RowInv /\ (CompactPublish \/ CompactDrop) => RowInv'
  <1> SUFFICES ASSUME IInv, RowInv, CompactPublish \/ CompactDrop PROVE RowInv'
    OBVIOUS
  <1> DEFINE N == NewSegment(CompactTsRange(job.rows))
  <1>1. /\ phase \in {"compact_publish", "compact_drop"} /\ phase' = "compact_unlink"
        /\ UNCHANGED <<hasTable, files, nextKey, committed>>
        /\ \/ segs' = segs \ job.inputs
           \/ phase = "compact_publish" /\ segs' = (segs \ job.inputs) \cup {N}
    BY DEF CompactPublish, CompactDrop, disk, observed
  <1>2. phase = "compact_publish" =>
          RowsOf(N) = job.rows /\ N.cell = job.cell
    BY OutputFile DEF Written
  <1> HIDE DEF N
  <1>3. /\ job.inputs = SegsIn(job.cell)
        /\ job.rows = UNION {Survivors(s) : s \in job.inputs}
    BY <1>1 DEF RowInv, Merging, Building
  <1>4. \A r \in job.rows : \E s \in job.inputs :
           s \in segs /\ r \in RowsOf(s) /\ s.cell = job.cell
    BY <1>3 DEF SegsIn, Survivors
  <1>5. \A s \in segs' : RowsOf(s)' = RowsOf(s)
    BY <1>1 DEF RowsOf, PathOf
  <1>6. KeysOnce'
    <2>1. \A s \in segs' : \A r \in RowsOf(s) : r.key \in committed
      BY <1>1, <1>2, <1>4 DEF RowInv, KeysOnce
    <2>2. \A s, t \in segs' : \A r \in RowsOf(s), q \in RowsOf(t) :
             r.key = q.key => s = t /\ r = q
      <3>1. \A s, t \in segs : \A r \in RowsOf(s), q \in RowsOf(t) :
               r.key = q.key => s = t /\ r = q
        BY DEF RowInv, KeysOnce
      <3>2. phase = "compact_publish" =>
              \A r, q \in RowsOf(N) : r.key = q.key => r = q
        BY <1>2, <1>4, <3>1
      <3>3. phase = "compact_publish" =>
              \A s \in segs \ job.inputs : \A r \in RowsOf(s), q \in RowsOf(N) :
                 r.key # q.key
        BY <1>2, <1>4, <3>1
      <3> QED BY <1>1, <3>1, <3>2, <3>3
    <2>3. phase' \notin Ingesting /\ nextKey' <= MaxKeys /\ \A k \in committed' : k < nextKey'
      BY <1>1 DEF Ingesting, RowInv, KeysOnce
    <2> QED BY <1>1, <1>5, <2>1, <2>2, <2>3 DEF KeysOnce
  <1>7. Placed'
    <2>1. \A s \in segs' : \A r \in RowsOf(s) : CellOf(r) = s.cell
      BY <1>1, <1>2, <1>4 DEF RowInv, Placed
    <2> QED BY <1>1, <1>5, <2>1 DEF Placed, Ingesting
  <1>8. Merging' /\ NoTable'
    BY <1>1 DEF Merging, Building, RowInv, NoTable
  <1> QED BY <1>6, <1>7, <1>8 DEF RowInv

\* Tombstones and the table's end leave no row in a second place.
LEMMA TombstoneRows ==
    IInv /\ RowInv /\ ((\E c \in Cells : DeleteWrite(c)) \/ CompactReclaim) => RowInv'
  <1> SUFFICES ASSUME IInv, RowInv, (\E c \in Cells : DeleteWrite(c)) \/ CompactReclaim
               PROVE  RowInv'
    OBVIOUS
  <1>1. /\ phase \in {"delete", "compact_reclaim"} /\ phase' \in {"delete", "idle"}
        /\ UNCHANGED <<hasTable, segs, files, nextKey, committed>>
    BY DEF DeleteWrite, CompactReclaim, manifest, observed, Finish
  <1>2. \A s : RowsOf(s)' = RowsOf(s)
    BY <1>1 DEF RowsOf, PathOf
  <1> QED BY <1>1, <1>2 DEF RowInv, KeysOnce, Placed, Merging, NoTable, Ingesting, Building

\* Creating and dropping the table leave no rows.
LEMMA DdlRows == IInv /\ RowInv /\ Ddl => RowInv'
  <1> SUFFICES ASSUME IInv, RowInv, Ddl PROVE RowInv'
    OBVIOUS
  <1>1. /\ segs' = {} /\ nextSeq' = 0 /\ nextBatch' = 0 /\ phase' = "idle"
        /\ nextKey' = nextKey /\ committed' = committed
    BY DEF Ddl, CreateTable, DropTable, observed
  <1> QED BY <1>1 DEF RowInv, KeysOnce, Placed, Merging, NoTable, Ingesting, Building

\* A new database has none.
LEMMA InitRows == Init => RowInv
  BY StoreAssumption
    DEF Init, RowInv, KeysOnce, Placed, Merging, NoTable, Ingesting, Building

\* Every step of the store that is not a stutter, by what queries see of it.
NextByView ==
    \/ IngestStart \/ IngestAllocateId \/ IngestAllocateSeqs \/ IngestWrite
    \/ (\E c \in Cells : CompactStart(c)) \/ CompactAllocate \/ CompactWrite
    \/ Settles
    \/ IngestPublish \/ CompactPublish \/ CompactDrop
    \/ (\E c \in Cells : DeleteWrite(c)) \/ CompactReclaim
    \/ Ddl

\* These are all steps.
LEMMA NextCases == Next => NextByView
  BY DEF Next, NextByView, Ingest, Compact, CompactAllocate, Delete, Settles

\* Every step keeps the invariant of rows.
LEMMA NextRows == IInv /\ RowInv /\ [Next]_vars => RowInv'
  <1> SUFFICES ASSUME IInv, RowInv, [Next]_vars PROVE RowInv'
    OBVIOUS
  <1>1. CASE UNCHANGED vars
    <2>1. UNCHANGED <<hasTable, segs, nextSeq, nextBatch, files, tombs, phase, job,
                      nextKey, committed>>
      BY <1>1 DEF vars, manifest, disk, observed
    <2>2. \A s : RowsOf(s)' = RowsOf(s) /\ Survivors(s)' = Survivors(s)
      BY <2>1, SameFile
    <2>3. KeysOnce'
      BY <2>1, <2>2 DEF RowInv, KeysOnce
    <2>4. Placed' /\ NoTable'
      BY <2>1, <2>2 DEF RowInv, Placed, NoTable
    <2>5. Merging'
      BY <2>1, <2>2 DEF RowInv, Merging, SegsIn
    <2> QED BY <2>3, <2>4, <2>5 DEF RowInv
  <1>2. CASE NextByView
    BY <1>2, IngestStartRows, IngestRows, CompactStartRows, CompactRows, SettlesRows,
       IngestPublishRows, CompactSwapRows, TombstoneRows, DdlRows DEF NextByView
  <1> QED BY <1>1, <1>2, NextCases

\* Rows stay in one place.
THEOREM RowsInPlace == Spec => []RowInv
  <1> QED BY InitRows, NextRows, StoreInvariant, PTL DEF Spec

-----------------------------------------------------------------------------
(* Time ranges *)

\* The first and the last row of a segment bound the times of its rows, but for
\* those that are out of time order with them.
LEMMA IngestRange ==
    ASSUME NEW rows \in SUBSET Row, IsFiniteSet(rows), rows # {}, NEW r \in rows
    PROVE  /\ r.ts < IngestTsRange(rows)[1] => \E q \in rows : OutOfTimeOrder(q, r)
           /\ IngestTsRange(rows)[2] < r.ts => \E q \in rows : OutOfTimeOrder(r, q)
  <1> DEFINE f == FirstRow(rows)
             l == LastRow(rows)
  <1>1. f \in rows /\ l \in rows /\ ~Precedes(r, f) /\ ~Precedes(l, r)
    BY FirstAndLastRow
  <1>2. IngestTsRange(rows) = <<f.ts, l.ts>>
    BY DEF IngestTsRange
  <1> HIDE DEF f, l
  <1>3. /\ r.ts \in Nat /\ f.ts \in Nat /\ l.ts \in Nat
        /\ r.ent \in Nat /\ f.ent \in Nat /\ l.ent \in Nat
    BY <1>1, StoreAssumption DEF Row
  <1>4. r.ts < f.ts => OutOfTimeOrder(f, r)
    BY <1>1, <1>3 DEF Precedes, OutOfTimeOrder
  <1>5. l.ts < r.ts => OutOfTimeOrder(r, l)
    BY <1>1, <1>3 DEF Precedes, OutOfTimeOrder
  <1> QED BY <1>1, <1>2, <1>4, <1>5

\* Every step keeps the time ranges of the segments right but for disorder.
LEMMA NextRanges ==
    ASSUME IInv, RowInv, RangesMissOnlyDisorder, [Next]_vars
    PROVE  RangesMissOnlyDisorder'
  <1>1. CASE View
    BY <1>1, SameView DEF View, RangesMissOnlyDisorder
  <1>2. CASE IngestPublish
    <2> DEFINE N == NewSegment(IngestTsRange(job.rows))
    <2>1. phase = "ingest_publish" /\ segs' = segs \cup {N} /\ files' = files
      BY <1>2 DEF IngestPublish, disk
    <2>2. /\ RowsOf(N) = job.rows /\ job.rows \in SUBSET Row /\ IsFiniteSet(job.rows)
          /\ job.rows # {} /\ N.ts = IngestTsRange(job.rows)
      BY <2>1, OutputFile DEF Written
    <2> HIDE DEF N
    <2>3. \A r \in RowsOf(N) :
             /\ r.ts < N.ts[1] => \E q \in RowsOf(N) : OutOfTimeOrder(q, r)
             /\ N.ts[2] < r.ts => \E q \in RowsOf(N) : OutOfTimeOrder(r, q)
      BY <2>2, IngestRange
    <2> QED BY <2>1, <2>3, SameFile DEF RangesMissOnlyDisorder
  <1>3. CASE CompactPublish
    <2> DEFINE N == NewSegment(CompactTsRange(job.rows))
    <2>1. phase = "compact_publish" /\ segs' = (segs \ job.inputs) \cup {N} /\ files' = files
      BY <1>3 DEF CompactPublish, disk
    <2>2. /\ RowsOf(N) = job.rows /\ job.rows \in SUBSET Row /\ IsFiniteSet(job.rows)
          /\ job.rows # {} /\ N.ts = CompactTsRange(job.rows)
      BY <2>1, OutputFile DEF Written
    <2> HIDE DEF N
    <2>3. \A r \in RowsOf(N) : ~(r.ts < N.ts[1]) /\ ~(N.ts[2] < r.ts)
      <3>1. Times \subseteq Nat
        BY StoreAssumption
      <3> TAKE r \in RowsOf(N)
      <3>2. /\ N.ts[1] \in Times /\ N.ts[2] \in Times /\ r.ts \in Times
            /\ N.ts[1] <= r.ts /\ r.ts <= N.ts[2]
        BY <2>2, TsRangeType DEF Row
      <3>3. N.ts[1] \in Nat /\ N.ts[2] \in Nat /\ r.ts \in Nat
        BY ONLY <3>1, <3>2
      <3> QED BY ONLY <3>2, <3>3
    <2> QED BY <2>1, <2>3, SameFile DEF RangesMissOnlyDisorder
  <1>4. CASE CompactDrop \/ (\E c \in Cells : DeleteWrite(c)) \/ CompactReclaim \/ Ddl
    <2>1. segs' \subseteq segs /\ files' = files
      BY <1>4 DEF CompactDrop, DeleteWrite, CompactReclaim, Ddl, CreateTable, DropTable,
         manifest, disk
    <2> QED BY <2>1, SameFile DEF RangesMissOnlyDisorder
  <1>5. CASE Settles \/ UNCHANGED vars
    BY <1>1, <1>5, OutOfSight DEF Settles
  <1>6. CASE \/ IngestStart \/ IngestAllocateId \/ IngestAllocateSeqs \/ IngestWrite
             \/ (\E c \in Cells : CompactStart(c)) \/ CompactAllocate \/ CompactWrite
    BY <1>1, <1>6, OutOfSight
  <1> QED BY <1>2, <1>3, <1>4, <1>5, <1>6, NextCases DEF NextByView

\* Whatever shares a shard, ranges are wrong for rows out of time order only.
LEMMA RangesRightButForDisorder == Spec => []RangesMissOnlyDisorder
  <1>1. Init => RangesMissOnlyDisorder
    BY DEF Init, RangesMissOnlyDisorder
  <1>2. IInv /\ RowInv /\ RangesMissOnlyDisorder /\ [Next]_vars => RangesMissOnlyDisorder'
    BY NextRanges
  <1> QED BY <1>1, <1>2, StoreInvariant, RowsInPlace, PTL DEF Spec

\* The times of a listed segment and of its rows are numbers.
LEMMA SegmentTimes ==
    ASSUME IInv, NEW s \in segs, NEW r \in RowsOf(s)
    PROVE  s.ts[1] \in Nat /\ s.ts[2] \in Nat /\ r.ts \in Nat
  <1>1. s \in Segment /\ r \in Row
    BY ListedFile
  <1> QED BY <1>1, StoreAssumption DEF Segment, Row

\* A segment that a query leaves out has no row it asks for but one out of time
\* order.
LEMMA PruningByRanges == IInv /\ RangesMissOnlyDisorder => PruningMissesOnlyDisorder
  <1> SUFFICES ASSUME IInv, RangesMissOnlyDisorder, NEW from \in Times, NEW to \in Times,
                      NEW s \in segs, NEW r \in Survivors(s), from <= r.ts, r.ts < to,
                      \A q \in RowsOf(s) : ~OutOfTimeOrder(q, r) /\ ~OutOfTimeOrder(r, q)
               PROVE  OverlapsTimeRange(s, from, to)
    BY DEF PruningMissesOnlyDisorder, QueryTimeRange, Visible
  <1>1. r \in RowsOf(s) /\ ~(r.ts < s.ts[1]) /\ ~(s.ts[2] < r.ts)
    BY DEF RangesMissOnlyDisorder, Survivors
  <1>2. /\ s.ts[1] \in Int /\ s.ts[2] \in Int /\ r.ts \in Int
        /\ from \in Int /\ to \in Int
    BY <1>1, SegmentTimes, StoreAssumption
  <1> QED BY <1>1, <1>2 DEF OverlapsTimeRange

\* The pruning of a time-bounded query is sound for every placement of entities
\* on shards but for one kind of row: one whose segment holds a row of another
\* entity that the order by entity puts on the wrong side of it in time.  Where
\* no segment holds such a pair, the query is exact.
THEOREM PruningSound ==
    Spec => [](PruningMissesOnlyDisorder /\ (SegmentsInTimeOrder => TimePruningSound))
  <1>1. PruningMissesOnlyDisorder /\ SegmentsInTimeOrder => TimePruningSound
    <2> SUFFICES ASSUME PruningMissesOnlyDisorder, SegmentsInTimeOrder,
                        NEW from \in Times, NEW to \in Times, from < to,
                        NEW r \in Visible, from <= r.ts, r.ts < to
                 PROVE  r \in QueryTimeRange(from, to)
      BY DEF PruningMissesOnlyDisorder, TimePruningSound
    <2>1. PICK s \in segs : r \in Survivors(s) /\ r \in RowsOf(s)
      BY DEF Visible, Survivors
    <2>2. \A q \in RowsOf(s) : ~OutOfTimeOrder(q, r) /\ ~OutOfTimeOrder(r, q)
      BY <2>1 DEF SegmentsInTimeOrder
    <2> QED BY <2>1, <2>2 DEF PruningMissesOnlyDisorder
  <1> QED BY <1>1, StoreInvariant, RangesRightButForDisorder, PruningByRanges, PTL

\* If shards are apart, the rows of a segment are of one entity and its time
\* range covers them.
LEMMA ApartCovers ==
    ASSUME ShardsApart, IInv, RowInv, RangesMissOnlyDisorder
    PROVE  RangesCover
  <1> SUFFICES ASSUME NEW s \in segs, NEW r \in RowsOf(s)
               PROVE  s.ts[1] <= r.ts /\ r.ts <= s.ts[2]
    BY DEF RangesCover
  <1>1. \A q \in RowsOf(s) : ~OutOfTimeOrder(q, r) /\ ~OutOfTimeOrder(r, q)
    <2> TAKE q \in RowsOf(s)
    <2>1. q \in Row /\ r \in Row /\ CellOf(q) = CellOf(r)
      BY ListedFile DEF RowInv, Placed
    <2>2. q.ent = r.ent
      BY <2>1 DEF CellOf, ShardsApart, Row
    <2>3. r.ent \in Nat
      BY <2>1, StoreAssumption DEF Row
    <2> QED BY <2>2, <2>3 DEF OutOfTimeOrder
  <1>2. ~(r.ts < s.ts[1]) /\ ~(s.ts[2] < r.ts)
    BY <1>1 DEF RangesMissOnlyDisorder
  <1> QED BY <1>2, SegmentTimes

-----------------------------------------------------------------------------
(* DELETE: what it looks for and what it is going to write *)

\* The tombstones a DELETE plans hide the rows it found and no others, and
\* name ids that exist.
Plan(entries, ranges, matching) ==
    /\ entries \in [Shards -> Tombstones] /\ matching \subseteq Visible
    /\ \A s \in segs : \A r \in Survivors(s) :
          r \in matching <=> Hides(entries[s.cell[2]], s, r)
    /\ \A range \in ranges : \A r \in matching : Contains(range, r.ts)
    /\ ranges # {} => "range" \in DeleteKinds /\ ranges \subseteq TimeRange
    /\ \A sh \in Shards :
          /\ OldIdsOnly =>
                SeqsBelow(entries[sh], nextSeq) /\ BatchesBelow(entries[sh], nextBatch)
          /\ IdKinds \cap DeleteKinds = {} => NoIds(entries[sh])
          /\ StickyKinds \cap DeleteKinds = {} => NotSticky(entries[sh])

\* A pair a DELETE sees is a segment and one of its surviving rows, and the row
\* is in no other pair.
LEMMA Pairs ==
    ASSUME IInv, RowInv, NEW targets \in SUBSET Shards
    PROVE  /\ \A v \in VisibleOn(targets) :
                 /\ v = <<v[1], v[2]>> /\ v[1] \in segs /\ v[2] \in Survivors(v[1])
                 /\ v[1].cell[2] \in targets /\ v[2] \in Visible
           /\ \A s \in segs : \A r \in Survivors(s) :
                 s.cell[2] \in targets => <<s, r>> \in VisibleOn(targets)
           /\ \A s \in segs : \A r \in Survivors(s) : \A v \in VisibleOn(targets) :
                 v[2] = r => v[1] = s
  <1>1. \A v \in VisibleOn(targets) :
           /\ v = <<v[1], v[2]>> /\ v[1] \in segs /\ v[2] \in Survivors(v[1])
           /\ v[1].cell[2] \in targets /\ v[2] \in Visible
    BY DEF VisibleOn, Visible
  <1>2. \A s \in segs : \A r \in Survivors(s) :
           s.cell[2] \in targets => <<s, r>> \in VisibleOn(targets)
    BY DEF VisibleOn
  <1>3. \A s, t \in segs : \A r \in Survivors(s), q \in Survivors(t) : q = r => t = s
    BY DEF RowInv, KeysOnce, Survivors
  <1> QED BY <1>1, <1>2, <1>3

\* Every cell is on a shard.
LEMMA CellShard == IInv => \A s \in segs : s.cell[1] \in Windows /\ s.cell[2] \in Shards
  BY ListedFile DEF Cells

\* A DELETE by sequence number plans tombstones that hide what it matches,
LEMMA SeqIdPlan ==
    ASSUME IInv, RowInv, "row" \in DeleteKinds, NEW q \in RowIds, NEW targets \in Targetings
    PROVE  Plan(OnShards(targets, [NoTombs EXCEPT !.rows = {q}]), {},
                {v[2] : v \in {v \in VisibleOn(targets) : SeqOf(v[1], v[2]) = q}})
  <1> DEFINE entries == OnShards(targets, [NoTombs EXCEPT !.rows = {q}])
             found == {v[2] : v \in {v \in VisibleOn(targets) : SeqOf(v[1], v[2]) = q}}
  <1>1. targets \in SUBSET Shards
    BY StoreAssumption DEF Targetings, Shards
  <1>2. q \in Nat /\ (OldIdsOnly => q < nextSeq)
    BY StoreAssumption DEF RowIds, IInv, TypeOK, OldIdsOnly
  <1>3. /\ entries \in [Shards -> Tombstones]
        /\ \A sh \in Shards :
              /\ entries[sh].batches = {} /\ entries[sh].ents = {} /\ entries[sh].ranges = {}
              /\ entries[sh].rows = IF sh \in targets THEN {q} ELSE {}
    BY <1>2, NoJobType DEF OnShards, NoTombs, Tombstones
  <1>4. found \subseteq Visible
    BY <1>1, Pairs
  <1>5. ASSUME NEW s \in segs, NEW r \in Survivors(s)
        PROVE  r \in found <=> Hides(entries[s.cell[2]], s, r)
    <2>1. r \in found <=> s.cell[2] \in targets /\ SeqOf(s, r) = q
      <3>1. ASSUME NEW v \in VisibleOn(targets), v[2] = r
            PROVE  v[1] = s /\ s.cell[2] \in targets
        BY <1>1, <3>1, Pairs
      <3>2. r \in found => s.cell[2] \in targets /\ SeqOf(s, r) = q
        BY <3>1
      <3>3. s.cell[2] \in targets => <<s, r>> \in VisibleOn(targets)
        BY <1>1, Pairs
      <3>4. s.cell[2] \in targets /\ SeqOf(s, r) = q => r \in found
        BY <3>3
      <3> QED BY <3>2, <3>4
    <2>2. s.cell[2] \in Shards
      BY CellShard
    <2> HIDE DEF found, entries
    <2> QED BY <1>3, <2>1, <2>2 DEF Hides
  <1> HIDE DEF found, entries
  <1>6. IdKinds \cap DeleteKinds # {}
    BY DEF IdKinds
  <1>7. Plan(entries, {}, found)
    BY <1>2, <1>3, <1>4, <1>5, <1>6 DEF Plan, SeqsBelow, BatchesBelow, NotSticky
  <1> QED BY <1>7 DEF found, entries

\* so does one by batch,
LEMMA BatchIdPlan ==
    ASSUME IInv, RowInv, "batch" \in DeleteKinds, NEW b \in BatchIds, NEW targets \in Targetings
    PROVE  Plan(OnShards(targets, [NoTombs EXCEPT !.batches = {b}]), {},
                {v[2] : v \in {v \in VisibleOn(targets) : v[1].batch = b}})
  <1> DEFINE entries == OnShards(targets, [NoTombs EXCEPT !.batches = {b}])
             found == {v[2] : v \in {v \in VisibleOn(targets) : v[1].batch = b}}
  <1>1. targets \in SUBSET Shards
    BY StoreAssumption DEF Targetings, Shards
  <1>2. b \in Nat /\ (OldIdsOnly => b < nextBatch)
    BY StoreAssumption DEF BatchIds, IInv, TypeOK, OldIdsOnly
  <1>3. /\ entries \in [Shards -> Tombstones]
        /\ \A sh \in Shards :
              /\ entries[sh].rows = {} /\ entries[sh].ents = {} /\ entries[sh].ranges = {}
              /\ entries[sh].batches = IF sh \in targets THEN {b} ELSE {}
    BY <1>2, NoJobType DEF OnShards, NoTombs, Tombstones
  <1>4. found \subseteq Visible
    BY <1>1, Pairs
  <1>5. ASSUME NEW s \in segs, NEW r \in Survivors(s)
        PROVE  r \in found <=> Hides(entries[s.cell[2]], s, r)
    <2>1. r \in found <=> s.cell[2] \in targets /\ s.batch = b
      <3>1. ASSUME NEW v \in VisibleOn(targets), v[2] = r
            PROVE  v[1] = s /\ s.cell[2] \in targets
        BY <1>1, <3>1, Pairs
      <3>2. r \in found => s.cell[2] \in targets /\ s.batch = b
        BY <3>1
      <3>3. s.cell[2] \in targets => <<s, r>> \in VisibleOn(targets)
        BY <1>1, Pairs
      <3>4. s.cell[2] \in targets /\ s.batch = b => r \in found
        BY <3>3
      <3> QED BY <3>2, <3>4
    <2>2. s.cell[2] \in Shards
      BY CellShard
    <2> HIDE DEF found, entries
    <2> QED BY <1>3, <2>1, <2>2 DEF Hides
  <1> HIDE DEF found, entries
  <1>6. IdKinds \cap DeleteKinds # {}
    BY DEF IdKinds
  <1>7. Plan(entries, {}, found)
    BY <1>2, <1>3, <1>4, <1>5, <1>6 DEF Plan, SeqsBelow, BatchesBelow, NotSticky
  <1> QED BY <1>7 DEF found, entries

\* one by entity,
LEMMA EntityPlan ==
    ASSUME IInv, RowInv, "entity" \in DeleteKinds, NEW e \in Entities
    PROVE  Plan(OnShards({ShardOf[e]}, [NoTombs EXCEPT !.ents = {e}]), {},
                {r \in Visible : r.ent = e})
  <1> DEFINE entries == OnShards({ShardOf[e]}, [NoTombs EXCEPT !.ents = {e}])
  <1>1. /\ entries \in [Shards -> Tombstones]
        /\ \A sh \in Shards :
              /\ entries[sh].rows = {} /\ entries[sh].batches = {} /\ entries[sh].ranges = {}
              /\ entries[sh].ents = IF sh = ShardOf[e] THEN {e} ELSE {}
    BY NoJobType DEF OnShards, NoTombs, Tombstones
  <1> HIDE DEF entries
  <1>2. ASSUME NEW s \in segs, NEW r \in Survivors(s)
        PROVE  r \in {q \in Visible : q.ent = e} <=> Hides(entries[s.cell[2]], s, r)
    <2>1. r \in Visible /\ r \in RowsOf(s)
      BY DEF Visible, Survivors
    <2>2. s.cell[2] \in Shards /\ s.cell[2] = ShardOf[r.ent]
      BY <2>1, CellShard DEF RowInv, Placed, CellOf
    <2> QED BY <1>1, <2>1, <2>2 DEF Hides
  <1>3. StickyKinds \cap DeleteKinds # {}
    BY DEF StickyKinds
  <1>4. Plan(entries, {}, {r \in Visible : r.ent = e})
    BY <1>1, <1>2, <1>3 DEF Plan, SeqsBelow, BatchesBelow, NoIds
  <1> QED BY <1>4 DEF entries

\* one by a range of time,
LEMMA TimeRangePlan ==
    ASSUME IInv, RowInv, "range" \in DeleteKinds, NEW range \in TimeRange
    PROVE  Plan(OnShards(Shards, [NoTombs EXCEPT !.ranges = {range}]), {range},
                {r \in Visible : Contains(range, r.ts)})
  <1> DEFINE entries == OnShards(Shards, [NoTombs EXCEPT !.ranges = {range}])
  <1>1. /\ entries \in [Shards -> Tombstones]
        /\ \A sh \in Shards :
              /\ entries[sh].rows = {} /\ entries[sh].batches = {} /\ entries[sh].ents = {}
              /\ entries[sh].ranges = {range}
    BY NoJobType DEF OnShards, NoTombs, Tombstones
  <1> HIDE DEF entries
  <1>2. ASSUME NEW s \in segs, NEW r \in Survivors(s)
        PROVE  r \in {q \in Visible : Contains(range, q.ts)} <=>
                  Hides(entries[s.cell[2]], s, r)
    <2>1. r \in Visible
      BY DEF Visible
    <2>2. s.cell[2] \in Shards
      BY CellShard
    <2> QED BY <1>1, <2>1, <2>2 DEF Hides
  <1>3. StickyKinds \cap DeleteKinds # {}
    BY DEF StickyKinds
  <1>4. Plan(entries, {range}, {r \in Visible : Contains(range, r.ts)})
    BY <1>1, <1>2, <1>3 DEF Plan, SeqsBelow, BatchesBelow, NoIds
  <1> QED BY <1>4 DEF entries

\* and one that scans for its matches.
LEMMA ScanPlan ==
    ASSUME IInv, RowInv, "scan" \in DeleteKinds, NEW P,
           NEW matches, matches = {v \in VisibleOn(Shards) : <<v[2].ent, v[2].ts>> \in P}
    PROVE  Plan([sh \in Shards |->
                    [NoTombs EXCEPT !.rows =
                        {SeqOf(v[1], v[2]) : v \in {v \in matches : v[1].cell[2] = sh}}]],
                {}, {v[2] : v \in matches})
  <1> DEFINE seqsOf(sh) == {SeqOf(v[1], v[2]) : v \in {v \in matches : v[1].cell[2] = sh}}
             entries == [sh \in Shards |-> [NoTombs EXCEPT !.rows = seqsOf(sh)]]
             found == {v[2] : v \in matches}
  <1>1. \A v \in matches :
          /\ v = <<v[1], v[2]>> /\ v[1] \in segs /\ v[2] \in Survivors(v[1])
          /\ v[1].cell[2] \in Shards /\ v[2] \in Visible /\ v[2] \in RowsOf(v[1])
    BY Pairs DEF Survivors
  <1>2. \A sh \in Shards : seqsOf(sh) \subseteq Nat /\ \A q \in seqsOf(sh) : q < nextSeq
    <2> TAKE sh \in Shards
    <2>1. \A v \in matches : SeqOf(v[1], v[2]) \in Nat /\ SeqOf(v[1], v[2]) < nextSeq
      BY <1>1, SeqInRange
    <2> QED BY <2>1
  <1>3. ASSUME NEW s \in segs, NEW r \in Survivors(s)
        PROVE  r \in found <=> SeqOf(s, r) \in seqsOf(s.cell[2])
    <2>1. r \in RowsOf(s)
      BY DEF Survivors
    <2>2. \A v \in matches : v[2] = r => v[1] = s
      BY Pairs
    <2>3. \A v \in matches : SeqOf(v[1], v[2]) = SeqOf(s, r) => v[1] = s /\ v[2] = r
      BY <1>1, <2>1, SeqsDistinct DEF RowInv
    <2>4. r \in found => SeqOf(s, r) \in seqsOf(s.cell[2])
      BY <2>2
    <2>5. SeqOf(s, r) \in seqsOf(s.cell[2]) => r \in found
      BY <2>3
    <2> QED BY <2>4, <2>5
  <1>4. found \subseteq Visible
    BY <1>1
  <1> HIDE DEF found, seqsOf
  <1>5. /\ entries \in [Shards -> Tombstones]
        /\ \A sh \in Shards :
              /\ entries[sh].batches = {} /\ entries[sh].ents = {} /\ entries[sh].ranges = {}
              /\ entries[sh].rows = seqsOf(sh)
    BY <1>2, NoJobType DEF NoTombs, Tombstones
  <1> HIDE DEF entries
  <1>6. IdKinds \cap DeleteKinds # {}
    BY DEF IdKinds
  <1>7. \A s \in segs : \A r \in Survivors(s) :
           r \in found <=> Hides(entries[s.cell[2]], s, r)
    BY <1>3, <1>5, CellShard DEF Hides
  <1>8. Plan(entries, {}, found)
    BY <1>2, <1>4, <1>5, <1>6, <1>7 DEF Plan, SeqsBelow, BatchesBelow, NotSticky
  <1> QED BY <1>8 DEF found, entries, seqsOf

\* Every DELETE that starts has such a plan.
LEMMA DeletePlan ==
    ASSUME IInv, RowInv, DeleteStart
    PROVE  \E entries, ranges, matching :
              BeginDelete(entries, ranges, matching) /\ Plan(entries, ranges, matching)
  <1>1. CASE DeleteBySeqId
    BY <1>1, SeqIdPlan DEF DeleteBySeqId
  <1>2. CASE DeleteByBatchId
    BY <1>2, BatchIdPlan DEF DeleteByBatchId
  <1>3. CASE DeleteByEntity
    BY <1>3, EntityPlan DEF DeleteByEntity
  <1>4. CASE DeleteByTimeRange
    BY <1>4, TimeRangePlan DEF DeleteByTimeRange
  <1>5. CASE DeleteByScan
    <2>1. PICK P \in ScanPredicates :
            LET matches == {v \in VisibleOn(Shards) : <<v[2].ent, v[2].ts>> \in P}
                seqsOf(sh) == {SeqOf(v[1], v[2]) : v \in {v \in matches : v[1].cell[2] = sh}}
            IN  BeginDelete([sh \in Shards |-> [NoTombs EXCEPT !.rows = seqsOf(sh)]], {},
                            {v[2] : v \in matches})
      BY <1>5 DEF DeleteByScan
    <2> QED BY <1>5, <2>1, ScanPlan DEF DeleteByScan
  <1> QED BY <1>1, <1>2, <1>3, <1>4, <1>5 DEF DeleteStart

\* What the first step of a DELETE leaves in its job record.
LEMMA DeleteBegins ==
    ASSUME IInv, RowInv, DeleteStart
    PROVE  \E entries, ranges, matching :
              /\ Plan(entries, ranges, matching)
              /\ job'.entries = entries
              /\ job'.todo = TargetCells(entries, ranges)
              /\ job'.doomed = {r.key : r \in matching}
              /\ condemned' = condemned \cup {r.key : r \in matching}
              /\ phase = "idle" /\ phase' = "delete"
              /\ UNCHANGED <<manifest, files, tombs, nextKey, committed, drops>>
  BY DeletePlan DEF BeginDelete, NoJob, disk

\* Only a running DELETE is at its control point.
LEMMA DeletePhase ==
    ASSUME NextByView, phase' = "delete"
    PROVE  DeleteStart \/ \E c \in Cells : DeleteWrite(c)
  <1>1. CASE Settles
    BY <1>1, SettlesFacts
  <1>2. CASE \/ IngestStart \/ IngestAllocateId \/ IngestAllocateSeqs \/ IngestWrite
             \/ (\E c \in Cells : CompactStart(c)) \/ CompactAllocate \/ CompactWrite
    BY <1>2 DEF IngestStart, IngestAllocateId, IngestAllocateSeqs, IngestWrite, CompactStart,
       CompactAllocate, CompactAllocateId, CompactAllocateSeqs, CompactAllocateBatch, CompactWrite
  <1>3. CASE IngestPublish \/ CompactPublish \/ CompactDrop \/ CompactReclaim \/ Ddl
    BY <1>3 DEF IngestPublish, CompactPublish, CompactDrop, CompactReclaim, Ddl, CreateTable,
       DropTable, Finish
  <1> QED BY <1>1, <1>2, <1>3 DEF NextByView

\* A tombstone file hides what it hid before and what the DELETE adds.
LEMMA MergeHides ==
    \A t, u, s, r : Hides(Merge(t, u), s, r) <=> Hides(t, s, r) \/ Hides(u, s, r)
  BY DEF Merge, Hides

\* What one rewrite of a tombstone file does to the rows of each segment.
LEMMA WriteHides ==
    ASSUME IInv, NEW c \in Cells, DeleteWrite(c)
    PROVE  /\ phase = "delete" /\ phase' = "delete" /\ c \in job.todo
           /\ UNCHANGED <<manifest, files, nextKey, committed, condemned, drops>>
           /\ job'.todo = job.todo \ {c} /\ job'.entries = job.entries
           /\ job'.doomed = job.doomed
           /\ tombs'[c] = Merge(tombs[c], job.entries[c[2]])
           /\ \A d \in Cells \ {c} : tombs'[d] = tombs[d]
           /\ \A s \in segs :
                 /\ s.cell # c => Survivors(s)' = Survivors(s)
                 /\ s.cell = c => Survivors(s)' =
                       {r \in Survivors(s) : ~Hides(job.entries[c[2]], s, r)}
  <1>1. /\ phase = "delete" /\ phase' = "delete" /\ c \in job.todo
        /\ UNCHANGED <<manifest, files, nextKey, committed, condemned, drops>>
        /\ tombs' = [tombs EXCEPT ![c] = Merge(@, job.entries[c[2]])]
        /\ job' = [job EXCEPT !.todo = @ \ {c}]
    BY DEF DeleteWrite, observed, bounds
  <1>2. job \in Job /\ tombs \in [Cells -> Tombstones]
    BY DEF IInv, TypeOK
  <1>3. /\ tombs'[c] = Merge(tombs[c], job.entries[c[2]])
        /\ \A d \in Cells \ {c} : tombs'[d] = tombs[d]
    BY <1>1, <1>2
  <1>4. /\ job'.todo = job.todo \ {c} /\ job'.entries = job.entries
        /\ job'.doomed = job.doomed
    BY <1>1, <1>2 DEF Job
  <1>5. ASSUME NEW s \in segs
        PROVE  /\ s.cell # c => Survivors(s)' = Survivors(s)
               /\ s.cell = c => Survivors(s)' =
                     {r \in Survivors(s) : ~Hides(job.entries[c[2]], s, r)}
    <2>1. /\ s.cell \in Cells /\ RowsOf(s)' = RowsOf(s)
          /\ \A t, r : Hides(t, s, r)' <=> Hides(t, s, r)
      BY <1>1, ListedFile, SameFile
    <2>2. CASE s.cell # c
      BY <1>3, <2>1, <2>2, SameFile, <1>1
    <2>3. CASE s.cell = c
      <3>1. Survivors(s)' = {r \in RowsOf(s) : ~Hides(tombs[c], s, r)
                                               /\ ~Hides(job.entries[c[2]], s, r)}
        <4>1. \A r : Hides(tombs[s.cell], s, r)' <=> Hides(tombs'[c], s, r)
          BY <1>1, <2>3 DEF Hides, SeqOf, RowsOf, PathOf
        <4>2. Survivors(s)' = {r \in RowsOf(s) : ~Hides(tombs'[c], s, r)}
          BY <2>1, <4>1 DEF Survivors
        <4> QED BY <1>3, <4>2, MergeHides
      <3> QED BY <2>3, <3>1 DEF Survivors
    <2> QED BY <2>2, <2>3
  <1> QED BY <1>1, <1>3, <1>4, <1>5

\* Every step keeps what is left of a DELETE covered.
LEMMA NextTargeted ==
    ASSUME IInv, RowInv, "range" \in DeleteKinds => RangesCover, Targeted, [Next]_vars
    PROVE  Targeted'
  <1>1. CASE UNCHANGED vars
    <2>1. UNCHANGED <<segs, files, tombs, phase, job>>
      BY <1>1 DEF vars, manifest, disk
    <2> QED BY <2>1, SameFile DEF Targeted
  <1>2. CASE DeleteStart
    <2>1. PICK entries, ranges, matching :
            /\ Plan(entries, ranges, matching)
            /\ job'.entries = entries
            /\ job'.todo = TargetCells(entries, ranges)
            /\ job'.doomed = {r.key : r \in matching}
            /\ UNCHANGED <<manifest, files, tombs>>
      BY <1>2, DeleteBegins
    <2>2. ASSUME NEW s \in segs, NEW r \in Survivors(s), r.key \in job'.doomed
          PROVE  s.cell \in TargetCells(entries, ranges) /\ Hides(entries[s.cell[2]], s, r)
      <3>1. PICK q \in matching : q.key = r.key
        BY <2>1, <2>2
      <3>2. PICK t \in segs : q \in Survivors(t)
        BY <2>1 DEF Plan, Visible
      <3>3. r \in matching
        BY <3>1, <3>2 DEF RowInv, KeysOnce, Survivors
      <3>4. Hides(entries[s.cell[2]], s, r)
        BY <2>1, <3>3 DEF Plan
      <3>5. entries[s.cell[2]] # NoTombs
        BY <3>4 DEF Hides, NoTombs
      <3>6. s.cell \in Cells /\ SegsIn(s.cell) # {}
        BY ListedFile DEF SegsIn
      <3>7. ASSUME NEW range \in ranges PROVE WindowTouched(s.cell[1], range)
        <4>1. RangesCover /\ Contains(range, r.ts) /\ range \in TimeRange
          BY <2>1, <3>3, <3>7 DEF Plan
        <4>2. r \in RowsOf(s) /\ RowsOf(s) \in SUBSET Row /\ s \in Segment
          BY ListedFile DEF Survivors
        <4>3. /\ s.ts[1] \in Times /\ s.ts[2] \in Times /\ r.ts \in Times
              /\ range[1] \in Times /\ range[2] \in Times
          BY <4>1, <4>2 DEF Segment, Row, TimeRange
        <4>4. s.ts[1] <= r.ts /\ r.ts <= s.ts[2]
          BY <4>1, <4>2 DEF RangesCover
        <4>5. range[1] <= r.ts /\ r.ts <= range[2]
          BY <4>1 DEF Contains
        <4>6. \A u \in Times : u \in Int
          <5>1. Times \subseteq Nat
            BY StoreAssumption
          <5> QED BY <5>1, SMTT(30)
        <4>7. s.ts[1] <= range[2] /\ range[1] <= s.ts[2]
          BY <4>3, <4>4, <4>5, <4>6
        <4> QED BY <4>7 DEF WindowTouched
      <3> QED BY <3>4, <3>5, <3>6, <3>7 DEF TargetCells
    <2>3. segs' = segs /\ \A s \in segs : Survivors(s)' = Survivors(s) /\
             \A t, r : Hides(t, s, r)' <=> Hides(t, s, r)
      BY <2>1, SameFile DEF manifest
    <2> QED BY <2>1, <2>2, <2>3 DEF Targeted
  <1>3. CASE \E c \in Cells : DeleteWrite(c)
    <2>1. PICK c \in Cells : DeleteWrite(c)
      BY <1>3
    <2>2. ASSUME NEW s \in segs, NEW r \in Survivors(s)', r.key \in job'.doomed
          PROVE  s.cell \in job'.todo /\ Hides(job.entries[s.cell[2]], s, r)'
      <3>1. /\ r \in Survivors(s) /\ r.key \in job.doomed
            /\ s.cell = c => ~Hides(job.entries[c[2]], s, r)
        BY <2>1, <2>2, WriteHides
      <3>2. s.cell \in job.todo /\ Hides(job.entries[s.cell[2]], s, r)
        BY <2>1, <3>1, WriteHides DEF Targeted
      <3>3. files' = files /\ job'.entries = job.entries
        BY <2>1, WriteHides
      <3>4. Hides(job.entries[s.cell[2]], s, r)'
        BY <3>2, <3>3 DEF Hides, SeqOf, RowsOf, PathOf
      <3> QED BY <2>1, <3>1, <3>2, <3>4, WriteHides
    <2>3. segs' = segs
      BY <2>1, WriteHides DEF manifest
    <2> QED BY <2>2, <2>3 DEF Targeted
  <1>4. CASE phase' # "delete"
    BY <1>4 DEF Targeted
  <1> QED BY <1>1, <1>2, <1>3, <1>4, NextCases, DeletePhase

\* A DELETE that has written all it planned has reached all its rows.
LEMMA TargetedIsComplete == Targeted => DeleteComplete
  BY DEF Targeted, DeleteComplete, VisibleKeys, Visible

\* When the last planned tombstone of a DELETE is written, every row it found
\* is gone, whatever failed, crashed or was compacted before; a DELETE of a
\* time range needs segments of one entity each, whose time ranges can be
\* trusted.
THEOREM DeletesComplete ==
    ("range" \in DeleteKinds => ShardsApart) => (Spec => []DeleteComplete)
  <1> SUFFICES ASSUME "range" \in DeleteKinds => ShardsApart
               PROVE  Spec => []DeleteComplete
    OBVIOUS
  <1>1. Init => Targeted
    BY DEF Init, Targeted
  <1>2. IInv /\ RowInv /\ RangesMissOnlyDisorder /\ Targeted /\ [Next]_vars => Targeted'
    BY NextTargeted, ApartCovers
  <1> QED BY <1>1, <1>2, StoreInvariant, RowsInPlace, RangesRightButForDisorder,
             TargetedIsComplete, PTL DEF Spec

-----------------------------------------------------------------------------
(* Old ids only *)

\* Ids below a counter stay below it when it grows.
LEMMA BelowGrows ==
    ASSUME NEW t \in Tombstones, NEW m \in Nat, NEW n \in Nat, m <= n
    PROVE  /\ SeqsBelow(t, m) => SeqsBelow(t, n)
           /\ BatchesBelow(t, m) => BatchesBelow(t, n)
  <1>1. t.rows \subseteq Nat /\ t.batches \subseteq Nat
    BY DEF Tombstones
  <1> QED BY <1>1 DEF SeqsBelow, BatchesBelow

\* A step that only the statement sees hands out no id a tombstone names.
LEMMA ViewVis ==
    ASSUME IInv, VisInv, View, drops' = drops,
           nextSeq' \in Nat, nextSeq <= nextSeq', nextBatch' \in Nat, nextBatch <= nextBatch',
           phase' \in SeqsHeld => job'.lo = nextSeq \/ (phase \in SeqsHeld /\ job'.lo = job.lo),
           phase' \in BatchHeld =>
              job'.batch = nextBatch \/ (phase \in BatchHeld /\ job'.batch = job.batch),
           phase' # "delete",
           phase' \in {"compact_unlink", "compact_reclaim"} =>
              phase \in {"compact_unlink", "compact_reclaim"} /\ job'.cell = job.cell
    PROVE  VisInv'
  <1>1. /\ \A c \in Cells : tombs[c] \in Tombstones
        /\ nextSeq \in Nat /\ nextBatch \in Nat
    BY DEF IInv, TypeOK
  <1>2. tombs' = tombs /\ segs' = segs
    BY DEF View
  <1>3. \A c \in Cells : SeqsBelow(tombs[c], nextSeq') /\ BatchesBelow(tombs[c], nextBatch')
    BY <1>1, BelowGrows DEF VisInv, OldTombs
  <1>4. OldTombs'
    <2>1. phase' \in SeqsHeld => \A c \in Cells : SeqsBelow(tombs[c], job'.lo)
      BY DEF VisInv, OldTombs
    <2>2. phase' \in BatchHeld => \A c \in Cells : BatchesBelow(tombs[c], job'.batch)
      BY DEF VisInv, OldTombs
    <2> QED BY <1>2, <1>3, <2>1, <2>2 DEF VisInv, OldTombs, SeqsBelow, BatchesBelow
  <1>5. KindsUsed'
    BY <1>2 DEF VisInv, KindsUsed, NoIds, NotSticky
  <1>6. Reclaimable'
    BY <1>2, SameView DEF VisInv, Reclaimable, SegsIn
  <1>7. Intended'
    BY DEF Intended
  <1> QED BY <1>4, <1>5, <1>6, <1>7 DEF VisInv

\* The steps of an INSERT up to its segment file keep the invariant of tombstones,
LEMMA IngestVis ==
    ASSUME IInv, VisInv, IngestStart \/ IngestAllocateId \/ IngestAllocateSeqs \/ IngestWrite
    PROVE  VisInv'
  <1>1. /\ job \in Job /\ nextSeq \in Nat /\ nextBatch \in Nat
        /\ Cardinality(job.rows) \in Nat
    BY FS_CardinalityType DEF IInv, TypeOK, FiniteData
  <1>2. View
    BY OutOfSight
  <1>3. drops' = drops /\ phase' \in Ingesting
    BY DEF IngestStart, IngestAllocateId, IngestAllocateSeqs, IngestWrite, observed, bounds,
       Ingesting
  <1>4. phase' # "delete" /\ phase' \notin {"compact_unlink", "compact_reclaim"}
    BY <1>3 DEF Ingesting
  <1>5. CASE IngestStart
    <2>1. /\ nextSeq' = nextSeq /\ nextBatch' = nextBatch + 1 /\ job'.batch = nextBatch
          /\ phase' \notin SeqsHeld
      BY <1>5 DEF IngestStart, AllocateBatchId, NoJob, SeqsHeld
    <2> QED BY <1>1, <1>2, <1>3, <1>4, <2>1, ViewVis
  <1>6. CASE IngestAllocateId
    <2>1. /\ nextSeq' = nextSeq /\ nextBatch' = nextBatch /\ job'.batch = job.batch
          /\ phase' \notin SeqsHeld /\ phase \in BatchHeld
      BY <1>1, <1>6 DEF IngestAllocateId, AllocateSegmentId, Job, SeqsHeld, BatchHeld, Ingesting
    <2> QED BY <1>1, <1>2, <1>3, <1>4, <2>1, ViewVis
  <1>7. CASE IngestAllocateSeqs
    <2>1. /\ nextSeq' = nextSeq + Cardinality(job.rows) /\ nextBatch' = nextBatch
          /\ job'.batch = job.batch /\ job'.lo = nextSeq /\ phase \in BatchHeld
      BY <1>1, <1>7 DEF IngestAllocateSeqs, AllocateSeqRange, Job, BatchHeld, Ingesting
    <2>2. nextSeq' \in Nat /\ nextSeq <= nextSeq'
      BY <1>1, <2>1
    <2> QED BY <1>1, <1>2, <1>3, <1>4, <2>1, <2>2, ViewVis
  <1>8. CASE IngestWrite
    <2>1. /\ nextSeq' = nextSeq /\ nextBatch' = nextBatch /\ job' = job
          /\ phase \in BatchHeld /\ phase \in SeqsHeld
      BY <1>8 DEF IngestWrite, manifest, SeqsHeld, BatchHeld, Ingesting
    <2> QED BY <1>1, <1>2, <1>3, <1>4, <2>1, ViewVis
  <1> QED BY <1>5, <1>6, <1>7, <1>8

\* so do those of a compaction up to its output,
LEMMA CompactVis ==
    ASSUME IInv, VisInv,
           (\E c \in Cells : CompactStart(c)) \/ CompactAllocate \/ CompactWrite
    PROVE  VisInv'
  <1>1. /\ job \in Job /\ nextSeq \in Nat /\ nextBatch \in Nat
        /\ Cardinality(job.rows) \in Nat
    BY FS_CardinalityType DEF IInv, TypeOK, FiniteData
  <1>2. View
    BY OutOfSight
  <1>3. drops' = drops /\ phase' \in Building \cup {"compact_drop"}
    BY DEF CompactStart, CompactAllocate, CompactAllocateId, CompactAllocateSeqs,
       CompactAllocateBatch, CompactWrite, observed, bounds, Building
  <1>4. phase' # "delete" /\ phase' \notin {"compact_unlink", "compact_reclaim"}
    BY <1>3 DEF Building
  <1>5. CASE \E c \in Cells : CompactStart(c)
    <2>1. /\ nextSeq' = nextSeq /\ nextBatch' = nextBatch
          /\ phase' \notin SeqsHeld /\ phase' \notin BatchHeld
      BY <1>5 DEF CompactStart, manifest, SeqsHeld, BatchHeld, Ingesting
    <2> QED BY <1>1, <1>2, <1>3, <1>4, <2>1, ViewVis
  <1>6. CASE CompactAllocateId
    <2>1. /\ nextSeq' = nextSeq /\ nextBatch' = nextBatch
          /\ phase' \notin SeqsHeld /\ phase' \notin BatchHeld
      BY <1>6 DEF CompactAllocateId, AllocateSegmentId, SeqsHeld, BatchHeld, Ingesting
    <2> QED BY <1>1, <1>2, <1>3, <1>4, <2>1, ViewVis
  <1>7. CASE CompactAllocateSeqs
    <2>1. /\ nextSeq' = nextSeq + Cardinality(job.rows) /\ nextBatch' = nextBatch
          /\ job'.lo = nextSeq /\ phase' \notin BatchHeld
      BY <1>1, <1>7 DEF CompactAllocateSeqs, AllocateSeqRange, Job, BatchHeld, Ingesting
    <2>2. nextSeq' \in Nat /\ nextSeq <= nextSeq'
      BY <1>1, <2>1
    <2> QED BY <1>1, <1>2, <1>3, <1>4, <2>1, <2>2, ViewVis
  <1>8. CASE CompactAllocateBatch
    <2>1. /\ nextSeq' = nextSeq /\ nextBatch' = nextBatch + 1
          /\ job'.lo = job.lo /\ job'.batch = nextBatch /\ phase \in SeqsHeld
      BY <1>1, <1>8 DEF CompactAllocateBatch, AllocateBatchId, Job, SeqsHeld
    <2> QED BY <1>1, <1>2, <1>3, <1>4, <2>1, ViewVis
  <1>9. CASE CompactWrite
    <2>1. /\ nextSeq' = nextSeq /\ nextBatch' = nextBatch /\ job' = job
          /\ phase \in BatchHeld /\ phase \in SeqsHeld
      BY <1>9 DEF CompactWrite, manifest, SeqsHeld, BatchHeld
    <2> QED BY <1>1, <1>2, <1>3, <1>4, <2>1, ViewVis
  <1> QED BY <1>5, <1>6, <1>7, <1>8, <1>9 DEF CompactAllocate

\* the steps that end a statement, and recovery,
LEMMA SettlesVis ==
    ASSUME OldIdsOnly, IInv, RowInv, VisInv, Settles
    PROVE  VisInv'
  <1>1. View
    BY OutOfSight DEF Settles
  <1>2. nextSeq' = nextSeq /\ nextBatch' = nextBatch /\ nextSeq \in Nat /\ nextBatch \in Nat
    BY SettlesFacts DEF manifest, IInv, TypeOK
  <1>3. CASE DeleteStart
    <2>1. PICK entries, ranges, matching :
            /\ Plan(entries, ranges, matching)
            /\ job'.entries = entries
            /\ job'.doomed = {r.key : r \in matching}
            /\ condemned' = condemned \cup {r.key : r \in matching}
            /\ phase' = "delete" /\ drops' = drops
      BY <1>3, DeleteBegins
    <2>2. segs' = segs /\ tombs' = tombs
      BY <1>1 DEF View
    <2>3. OldTombs'
      BY <1>2, <2>1, <2>2 DEF VisInv, OldTombs, SeqsBelow, BatchesBelow, Plan, SeqsHeld,
         BatchHeld, Ingesting
    <2>4. KindsUsed'
      BY <2>1, <2>2 DEF VisInv, KindsUsed, NoIds, NotSticky, Plan
    <2>5. Reclaimable'
      BY <2>1 DEF Reclaimable
    <2>6. Intended'
      <3>1. \A s \in segs : \A r \in Survivors(s) :
               Hides(entries[s.cell[2]], s, r) => r.key \in job'.doomed
        BY <2>1 DEF Plan
      <3> QED BY <1>1, <2>1, <2>2, <3>1, SameView DEF Intended
    <2> QED BY <2>3, <2>4, <2>5, <2>6 DEF VisInv
  <1>4. CASE phase' # "delete"
    <2>1. phase' \notin SeqsHeld /\ phase' \notin BatchHeld
      BY SettlesFacts DEF SeqsHeld, BatchHeld, Ingesting
    <2>2. phase' = "compact_reclaim" => phase = "compact_unlink" /\ job' = job
      BY SettlesFacts DEF CompactUnlink
    <2>3. drops' = drops
      BY <1>4 DEF Settles, IngestFail, CompactUnlink, CompactFail, DeleteStart, DeleteBySeqId,
         DeleteByBatchId, DeleteByEntity, DeleteByTimeRange, DeleteByScan, BeginDelete,
         DeleteFinish, DeleteFail, Recover, Crash, Open, OpenFail, observed, bounds
    <2>4. phase' # "compact_unlink"
      BY SettlesFacts
    <2> QED BY <1>1, <1>2, <1>4, <2>1, <2>2, <2>3, <2>4, ViewVis
  <1> QED BY <1>3, <1>4, SettlesFacts

\* Hidden for good, whenever the row came.
StickyHides(t, r) == r.ent \in t.ents \/ \E range \in t.ranges : Contains(range, r.ts)

\* The ids of a segment about to be listed are in no tombstone.
LEMMA FreshIds ==
    ASSUME IInv, VisInv, phase \in Written, NEW range
    PROVE  \A r \in job.rows : Hides(tombs[job.cell], NewSegment(range), r) <=>
                                  StickyHides(tombs[job.cell], r)
  <1> DEFINE N == NewSegment(range)
             t == tombs[job.cell]
  <1>1. /\ RowsOf(N) = job.rows /\ job.rows \in SUBSET Row /\ IsFiniteSet(job.rows)
        /\ N.batch = job.batch /\ N.lo = job.lo
        /\ job.cell \in Cells /\ job.batch \in Nat /\ job.lo \in Nat
    BY OutputFile
  <1>2. t \in Tombstones /\ SeqsBelow(t, job.lo) /\ BatchesBelow(t, job.batch)
    BY <1>1 DEF VisInv, OldTombs, IInv, TypeOK, Written, SeqsHeld, BatchHeld, Ingesting
  <1> HIDE DEF N, t
  <1> TAKE r \in job.rows
  <1>3. N.batch \notin t.batches
    BY <1>1, <1>2 DEF BatchesBelow
  <1>4. SeqOf(N, r) \notin t.rows
    <2>1. Offset(r, job.rows) \in Nat
      BY <1>1, OffsetsRise
    <2> QED BY <1>1, <1>2, <2>1 DEF SeqOf, SeqsBelow, Tombstones
  <1>5. Hides(t, N, r) <=> StickyHides(t, r)
    BY <1>3, <1>4 DEF Hides, StickyHides
  <1> QED BY <1>5 DEF t, N

\* What a compaction has merged no tombstone of its cell hides.
LEMMA OutputVisible ==
    ASSUME IInv, RowInv, VisInv, phase = "compact_publish", NEW range
    PROVE  \A r \in job.rows : ~Hides(tombs[job.cell], NewSegment(range), r)
  <1> TAKE r \in job.rows
  <1>1. \E s \in segs : s.cell = job.cell /\ r \in Survivors(s)
    BY DEF RowInv, Merging, Building, SegsIn
  <1>2. ~StickyHides(tombs[job.cell], r)
    BY <1>1 DEF Survivors, Hides, StickyHides
  <1> QED BY <1>2, FreshIds DEF Written

\* the listing of a segment,
LEMMA PublishVis ==
    ASSUME IInv, RowInv, VisInv, IngestPublish \/ CompactPublish \/ CompactDrop
    PROVE  VisInv'
  <1>1. /\ UNCHANGED <<nextSeq, nextBatch, files, tombs, drops>>
        /\ phase' \in {"idle", "ingest_id", "compact_unlink"}
    BY DEF IngestPublish, CompactPublish, CompactDrop, disk, observed, bounds, Finish
  <1>2. OldTombs'
    <2>1. phase' \in BatchHeld => phase \in BatchHeld /\ job'.batch = job.batch
      <3>1. job \in Job
        BY DEF IInv, TypeOK
      <3> QED BY <3>1 DEF IngestPublish, CompactPublish, CompactDrop, BatchHeld, Ingesting,
                 Finish, Job
    <2> QED BY <1>1, <2>1 DEF VisInv, OldTombs, SeqsBelow, BatchesBelow, SeqsHeld
  <1>3. KindsUsed'
    BY <1>1 DEF VisInv, KindsUsed, NoIds, NotSticky
  <1>4. Reclaimable'
    <2>1. CASE IngestPublish
      BY <2>1 DEF IngestPublish, Finish, Reclaimable
    <2>2. CASE CompactPublish
      <3>1. PICK N : N = NewSegment(CompactTsRange(job.rows))
        OBVIOUS
      <3>2. phase = "compact_publish" /\ segs' = (segs \ job.inputs) \cup {N} /\ job' = job
        BY <2>2, <3>1 DEF CompactPublish
      <3>3. /\ N.cell = job.cell /\ RowsOf(N) = job.rows
            /\ \A r \in job.rows : ~Hides(tombs[job.cell], N, r)
        BY <3>1, <3>2, OutputFile, OutputVisible DEF Written
      <3>4. job.inputs = SegsIn(job.cell)
        BY <3>2 DEF RowInv, Merging, Building
      <3>5. \A s \in segs' : s.cell = job.cell => s = N
        BY <3>2, <3>4 DEF SegsIn
      <3>6. RowsOf(N)' = RowsOf(N) /\ \A t, r : Hides(t, N, r)' <=> Hides(t, N, r)
        BY <1>1, SameFile
      <3> QED BY <1>1, <3>2, <3>3, <3>5, <3>6 DEF Reclaimable, SegsIn
    <2>3. CASE CompactDrop
      <3>1. phase = "compact_drop" /\ segs' = segs \ job.inputs /\ job' = job
        BY <2>3 DEF CompactDrop
      <3>2. job.inputs = SegsIn(job.cell)
        BY <3>1 DEF RowInv, Merging
      <3> QED BY <3>1, <3>2 DEF Reclaimable, SegsIn
    <2> QED BY <2>1, <2>2, <2>3
  <1>5. Intended'
    BY <1>1 DEF Intended
  <1> QED BY <1>2, <1>3, <1>4, <1>5 DEF VisInv

\* the writing of a tombstone file,
LEMMA DeleteWriteVis ==
    ASSUME IInv, VisInv, NEW c \in Cells, DeleteWrite(c)
    PROVE  VisInv'
  <1>1. /\ phase = "delete" /\ phase' = "delete"
        /\ UNCHANGED <<segs, nextSeq, nextBatch, files, condemned, drops>>
        /\ job'.todo = job.todo \ {c} /\ job'.entries = job.entries
        /\ job'.doomed = job.doomed
        /\ tombs'[c] = Merge(tombs[c], job.entries[c[2]])
        /\ \A d \in Cells \ {c} : tombs'[d] = tombs[d]
    BY WriteHides DEF manifest
  <1>2. c[2] \in Shards
    BY DEF Cells
  <1>3. OldTombs'
    BY <1>1, <1>2 DEF VisInv, OldTombs, SeqsBelow, BatchesBelow, Merge, SeqsHeld, BatchHeld,
       Ingesting
  <1>4. KindsUsed'
    BY <1>1, <1>2 DEF VisInv, KindsUsed, NoIds, NotSticky, Merge
  <1>5. Reclaimable'
    BY <1>1 DEF Reclaimable
  <1>6. Intended'
    <2>1. \A s \in segs : Survivors(s)' \subseteq Survivors(s)
      BY WriteHides
    <2>2. \A t, s, r : Hides(t, s, r)' <=> Hides(t, s, r)
      BY <1>1, SameFile
    <2> QED BY <1>1, <2>1, <2>2 DEF VisInv, Intended
  <1> QED BY <1>3, <1>4, <1>5, <1>6 DEF VisInv

\* Reclaiming takes tombstones away and adds none.
LEMMA ReclaimFacts ==
    ASSUME IInv, CompactReclaim
    PROVE  /\ phase = "compact_reclaim" /\ phase' = "idle"
           /\ UNCHANGED <<segs, nextSeq, nextBatch, files, committed, condemned, drops>>
           /\ job.cell \in Cells
           /\ \A d \in Cells \ {job.cell} : tombs'[d] = tombs[d]
           /\ \A d \in Cells :
                 /\ tombs'[d].rows \subseteq tombs[d].rows
                 /\ tombs'[d].batches \subseteq tombs[d].batches
                 /\ tombs'[d].ents \subseteq tombs[d].ents
                 /\ tombs'[d].ranges \subseteq tombs[d].ranges
  <1>1. /\ phase = "compact_reclaim" /\ phase' = "idle"
        /\ UNCHANGED <<segs, nextSeq, nextBatch, files, committed, condemned, drops>>
        /\ tombs' = [tombs EXCEPT ![job.cell] = Reclaimed(@, job.snap, job.inputs)]
    BY DEF CompactReclaim, Finish, manifest, observed, bounds
  <1>2. job.cell \in Cells /\ tombs \in [Cells -> Tombstones]
    BY DEF IInv, TypeOK, Job
  <1>3. \A t, snap, inputs :
          /\ Reclaimed(t, snap, inputs).rows \subseteq t.rows
          /\ Reclaimed(t, snap, inputs).batches \subseteq t.batches
          /\ Reclaimed(t, snap, inputs).ents \subseteq t.ents
          /\ Reclaimed(t, snap, inputs).ranges \subseteq t.ranges
    BY DEF Reclaimed
  <1> QED BY <1>1, <1>2, <1>3

\* and taking tombstones from it.
LEMMA ReclaimVis == IInv /\ VisInv /\ CompactReclaim => VisInv'
  <1> SUFFICES ASSUME IInv, VisInv, CompactReclaim PROVE VisInv'
    OBVIOUS
  <1>1. OldTombs'
    BY ReclaimFacts DEF VisInv, OldTombs, SeqsBelow, BatchesBelow, SeqsHeld, BatchHeld, Ingesting
  <1>2. KindsUsed'
    BY ReclaimFacts DEF VisInv, KindsUsed, NoIds, NotSticky
  <1>3. Reclaimable' /\ Intended'
    BY ReclaimFacts DEF Reclaimable, Intended
  <1> QED BY <1>1, <1>2, <1>3 DEF VisInv

\* A new table starts its ids at zero again; the tombstones of the old one,
\* which stay, name none.
LEMMA DdlVis == OldIdsOnly /\ IInv /\ RowInv /\ VisInv /\ Ddl => VisInv'
  <1> SUFFICES ASSUME OldIdsOnly, IInv, RowInv, VisInv, Ddl PROVE VisInv'
    OBVIOUS
  <1>1. tombs' = tombs /\ nextSeq' = 0 /\ nextBatch' = 0 /\ phase' = "idle"
    BY DEF Ddl, CreateTable, DropTable, disk
  <1>2. /\ drops' \in Nat
        /\ \A c \in Cells : SeqsBelow(tombs[c], 0) /\ BatchesBelow(tombs[c], 0)
    <2>1. CASE CreateTable
      BY <2>1 DEF CreateTable, observed, bounds, RowInv, NoTable, VisInv, OldTombs
    <2>2. CASE DropTable
      <3>1. drops < MaxDrops /\ drops' = drops + 1 /\ drops \in Nat /\ MaxDrops \in Nat
        BY <2>2, StoreAssumption DEF DropTable, VisInv, OldTombs
      <3>2. IdKinds \cap DeleteKinds = {}
        BY <3>1 DEF OldIdsOnly
      <3> QED BY <3>1, <3>2 DEF VisInv, KindsUsed, NoIds, SeqsBelow, BatchesBelow
    <2> QED BY <2>1, <2>2 DEF Ddl
  <1>3. OldTombs'
    BY <1>1, <1>2 DEF OldTombs, SeqsBelow, BatchesBelow, SeqsHeld, BatchHeld, Ingesting
  <1>4. KindsUsed'
    BY <1>1 DEF VisInv, KindsUsed, NoIds, NotSticky
  <1>5. Reclaimable' /\ Intended'
    BY <1>1 DEF Reclaimable, Intended
  <1> QED BY <1>3, <1>4, <1>5 DEF VisInv

\* A new database has no tombstones.
LEMMA InitVis == Init => VisInv
  <1> SUFFICES ASSUME Init PROVE VisInv
    OBVIOUS
  <1>1. phase = "idle" /\ drops = 0 /\ \A c \in Cells : tombs[c] = NoTombs
    BY DEF Init
  <1> QED BY <1>1 DEF VisInv, OldTombs, KindsUsed, Reclaimable, Intended, NoTombs, SeqsBelow,
             BatchesBelow, NoIds, NotSticky, SeqsHeld, BatchHeld, Ingesting

\* Every step keeps the invariant of tombstones.
LEMMA NextVis == OldIdsOnly /\ IInv /\ RowInv /\ VisInv /\ [Next]_vars => VisInv'
  <1> SUFFICES ASSUME OldIdsOnly, IInv, RowInv, VisInv, [Next]_vars PROVE VisInv'
    OBVIOUS
  <1>1. CASE UNCHANGED vars
    <2>1. UNCHANGED <<segs, nextSeq, nextBatch, files, tombs, phase, job, condemned, drops>>
      BY <1>1 DEF vars, manifest, disk, observed, bounds
    <2>2. \A s : RowsOf(s)' = RowsOf(s) /\ Survivors(s)' = Survivors(s)
                 /\ \A t, r : Hides(t, s, r)' <=> Hides(t, s, r)
      BY <2>1, SameFile
    <2>3. OldTombs' /\ KindsUsed'
      BY <2>1 DEF VisInv, OldTombs, KindsUsed, SeqsBelow, BatchesBelow, NoIds, NotSticky
    <2>4. Reclaimable' /\ Intended'
      BY <2>1, <2>2 DEF VisInv, Reclaimable, Intended, SegsIn
    <2> QED BY <2>3, <2>4 DEF VisInv
  <1>2. CASE NextByView
    BY <1>2, IngestVis, CompactVis, SettlesVis, PublishVis, DeleteWriteVis, ReclaimVis, DdlVis
       DEF NextByView
  <1> QED BY <1>1, <1>2, NextCases

\* No tombstone names an id that is still to be handed out, and what a
\* compaction has published or a DELETE is about to write is as it was planned.
THEOREM TombstonesNameOldIds == OldIdsOnly => (Spec => []VisInv)
  <1> SUFFICES ASSUME OldIdsOnly PROVE Spec => []VisInv
    OBVIOUS
  <1>1. IInv /\ RowInv /\ VisInv /\ [Next]_vars => VisInv'
    BY NextVis
  <1> QED BY <1>1, InitVis, StoreInvariant, RowsInPlace, PTL DEF Spec

-----------------------------------------------------------------------------
(* Tombstones and the rows they hide *)

\* No step makes a tombstone hit a row that came after it.
LEMMA NextPresent ==
    ASSUME OldIdsOnly, StickyKinds \cap DeleteKinds = {},
           IInv, RowInv, VisInv, TombstonesHitOnlyPresentRows, [Next]_vars
    PROVE  TombstonesHitOnlyPresentRows'
  <1> USE DEF TombstonesHitOnlyPresentRows
  <1>1. CASE View
    <2>1. condemned \subseteq condemned'
      <3>1. CASE UNCHANGED vars
        BY <3>1 DEF vars, observed
      <3>2. CASE NextByView
        BY <3>2 DEF NextByView, IngestStart, IngestAllocateId, IngestAllocateSeqs, IngestWrite,
           CompactStart, CompactAllocate, CompactAllocateId, CompactAllocateSeqs,
           CompactAllocateBatch, CompactWrite, Settles, IngestFail, CompactUnlink, CompactFail,
           DeleteStart, DeleteBySeqId, DeleteByBatchId, DeleteByEntity, DeleteByTimeRange,
           DeleteByScan, BeginDelete, DeleteFinish, DeleteFail, Recover, Crash, Open, OpenFail,
           IngestPublish, CompactPublish, CompactDrop, DeleteWrite, CompactReclaim, Ddl,
           CreateTable, DropTable, observed
      <3> QED BY <3>1, <3>2, NextCases
    <2>2. \A s \in segs : RowsOf(s)' = RowsOf(s)
                          /\ \A t, r : Hides(t, s, r)' <=> Hides(t, s, r)
      BY <1>1, SameView
    <2> QED BY <1>1, <2>1, <2>2 DEF View
  <1>2. CASE IngestPublish \/ CompactPublish
    <2>1. /\ phase \in Written /\ tombs' = tombs /\ files' = files /\ condemned' = condemned
          /\ \E range : segs' \subseteq segs \cup {NewSegment(range)}
      BY <1>2 DEF IngestPublish, CompactPublish, disk, observed, Written
    <2>2. PICK range : segs' \subseteq segs \cup {NewSegment(range)}
      BY <2>1
    <2>3. PICK N : N = NewSegment(range)
      OBVIOUS
    <2>4. RowsOf(N) = job.rows /\ N.cell = job.cell /\ job.cell \in Cells
      BY <2>1, <2>3, OutputFile
    <2>5. \A r \in job.rows : ~StickyHides(tombs[job.cell], r)
      BY <2>4 DEF VisInv, KindsUsed, NotSticky, StickyHides
    <2>6. \A r \in RowsOf(N) : ~Hides(tombs[N.cell], N, r)
      BY <2>1, <2>3, <2>4, <2>5, FreshIds
    <2>7. \A s : RowsOf(s)' = RowsOf(s) /\ \A t, r : Hides(t, s, r)' <=> Hides(t, s, r)
      BY <2>1, SameFile
    <2>8. \A s \in segs' : s \in segs \/ s = N
      BY <2>2, <2>3
    <2> QED BY <2>1, <2>6, <2>7, <2>8
  <1>3. CASE CompactDrop
    <2>1. segs' \subseteq segs /\ tombs' = tombs /\ files' = files /\ condemned' = condemned
      BY <1>3 DEF CompactDrop, disk, observed
    <2> QED BY <2>1, SameFile
  <1>4. CASE \E c \in Cells : DeleteWrite(c)
    <2>1. PICK c \in Cells : DeleteWrite(c)
      BY <1>4
    <2>2. /\ phase = "delete" /\ segs' = segs /\ files' = files /\ condemned' = condemned
          /\ c \in job.todo
          /\ tombs'[c] = Merge(tombs[c], job.entries[c[2]])
          /\ \A d \in Cells \ {c} : tombs'[d] = tombs[d]
      BY <2>1, WriteHides DEF manifest
    <2>3. ASSUME NEW s \in segs, NEW r \in RowsOf(s), Hides(tombs'[s.cell], s, r)
          PROVE  r.key \in condemned
      <3>1. CASE Hides(tombs[s.cell], s, r)
        BY <3>1
      <3>2. CASE ~Hides(tombs[s.cell], s, r)
        <4>1. r \in Survivors(s) /\ s.cell \in Cells
          BY <3>2, ListedFile DEF Survivors
        <4>2. s.cell = c /\ Hides(job.entries[c[2]], s, r)
          BY <2>2, <2>3, <3>2, <4>1, MergeHides
        <4> QED BY <2>2, <4>1, <4>2 DEF VisInv, Intended
      <3> QED BY <3>1, <3>2
    <2>4. \A s : /\ RowsOf(s)' = RowsOf(s)
                 /\ \A r : Hides(tombs[s.cell], s, r)' <=> Hides(tombs'[s.cell], s, r)
      BY <2>2 DEF RowsOf, PathOf, Hides, SeqOf
    <2> QED BY <2>2, <2>3, <2>4
  <1>5. CASE CompactReclaim
    <2>1. \A s \in segs : \A r : Hides(tombs'[s.cell], s, r) => Hides(tombs[s.cell], s, r)
      BY <1>5, ReclaimFacts, ListedFile DEF Hides
    <2>2. segs' = segs /\ files' = files /\ condemned' = condemned
      BY <1>5, ReclaimFacts
    <2>3. \A s : /\ RowsOf(s)' = RowsOf(s)
                 /\ \A r : Hides(tombs[s.cell], s, r)' <=> Hides(tombs'[s.cell], s, r)
      BY <2>2 DEF RowsOf, PathOf, Hides, SeqOf
    <2> QED BY <2>1, <2>2, <2>3
  <1>6. CASE Ddl
    BY <1>6 DEF Ddl, CreateTable, DropTable
  <1>7. CASE Settles \/ UNCHANGED vars
    BY <1>1, <1>7, OutOfSight DEF Settles
  <1>8. CASE \/ IngestStart \/ IngestAllocateId \/ IngestAllocateSeqs \/ IngestWrite
             \/ (\E c \in Cells : CompactStart(c)) \/ CompactAllocate \/ CompactWrite
    BY <1>1, <1>8, OutOfSight
  <1> QED BY <1>2, <1>3, <1>4, <1>5, <1>6, <1>7, <1>8, NextCases DEF NextByView

\* Where all DELETEs name ids, and old ones, no tombstone ever hides a row that
\* came after it.
THEOREM NoLaterRowHidden ==
    OldIdsOnly /\ StickyKinds \cap DeleteKinds = {} =>
        (Spec => []TombstonesHitOnlyPresentRows)
  <1> SUFFICES ASSUME OldIdsOnly, StickyKinds \cap DeleteKinds = {}
               PROVE  Spec => []TombstonesHitOnlyPresentRows
    OBVIOUS
  <1>1. Init => TombstonesHitOnlyPresentRows
    BY DEF Init, TombstonesHitOnlyPresentRows
  <1>2. IInv /\ RowInv /\ VisInv /\ TombstonesHitOnlyPresentRows /\ [Next]_vars
           => TombstonesHitOnlyPresentRows'
    BY NextPresent
  <1> QED BY <1>1, <1>2, StoreInvariant, RowsInPlace, TombstonesNameOldIds, PTL DEF Spec

-----------------------------------------------------------------------------
(* The table of EventTable *)

\* What `doomed` of EventTable stands for.
Doomed == IF phase = "delete" THEN job.doomed ELSE {}

\* Nothing a statement prepares, and nothing it leaves behind, can be seen; a
\* DELETE begins and ends.
LEMMA ViewRefines ==
    ASSUME IInv, RowInv, [Next]_vars, View
    PROVE  [Table!Next]_(Table!tableVars)
  <1>1. VisibleKeys' = VisibleKeys /\ committed' = committed
    BY SameView DEF View
  <1>2. CASE UNCHANGED vars
    BY <1>1, <1>2 DEF vars, Table!tableVars
  <1>3. CASE DeleteStart
    <2>1. PICK entries, ranges, matching :
            /\ Plan(entries, ranges, matching)
            /\ job'.doomed = {r.key : r \in matching}
            /\ phase = "idle" /\ phase' = "delete"
      BY <1>3, DeleteBegins
    <2>2. job'.doomed \subseteq VisibleKeys
      BY <2>1 DEF Plan, VisibleKeys
    <2>3. Table!BeginDelete
      BY <1>1, <2>1, <2>2 DEF Table!BeginDelete
    <2> QED BY <2>3 DEF Table!Next
  <1>4. CASE \E c \in Cells : DeleteWrite(c)
    <2>1. Doomed' = Doomed
      BY <1>4, WriteHides DEF Doomed
    <2> QED BY <1>1, <2>1 DEF Table!tableVars, Doomed
  <1>5. CASE phase' # "delete"
    <2>1. Table!EndDelete
      BY <1>1, <1>5 DEF Table!EndDelete
    <2> QED BY <2>1 DEF Table!Next
  <1> QED BY <1>2, <1>3, <1>4, <1>5, NextCases, DeletePhase

\* The rows of a bucket appear together, but for those that a standing entity
\* or time-range tombstone hides.
LEMMA IngestRefines ==
    ASSUME OldIdsOnly, IInv, RowInv, VisInv, IngestPublish
    PROVE  Table!Insert
  <1>1. PICK N : N = NewSegment(IngestTsRange(job.rows))
    OBVIOUS
  <1>2. /\ phase = "ingest_publish" /\ phase' \in {"idle", "ingest_id"}
        /\ segs' = segs \cup {N} /\ tombs' = tombs /\ files' = files
        /\ committed' = committed \cup {r.key : r \in job.rows}
    BY <1>1 DEF IngestPublish, Finish, disk
  <1>3. /\ RowsOf(N) = job.rows /\ N.cell = job.cell /\ job.rows \in SUBSET Row
        /\ job.rows # {} /\ job.cell \in Cells
    BY <1>1, <1>2, OutputFile DEF Written
  <1> DEFINE K == {r.key : r \in job.rows}
             V == {r.key : r \in Survivors(N)}
  <1>4. K # {} /\ K \subseteq (0..(MaxKeys - 1)) \ committed
    <2>1. \A r \in job.rows : r.key \in Nat /\ r.key < nextKey /\ r.key \notin committed
      BY <1>2, <1>3 DEF RowInv, KeysOnce, Placed, Ingesting, Row
    <2>2. nextKey <= MaxKeys /\ nextKey \in Nat /\ MaxKeys \in Nat
      BY StoreAssumption DEF RowInv, KeysOnce, IInv, TypeOK
    <2>3. \A r \in job.rows : r.key \in 0..(MaxKeys - 1)
      BY <2>1, <2>2
    <2> QED BY <1>3, <2>1, <2>3
  <1>5. V \subseteq K
    BY <1>3 DEF Survivors
  <1>6. VisibleKeys' = VisibleKeys \cup V
    <2>1. \A s : Survivors(s)' = Survivors(s)
      BY <1>2, SameFile
    <2>2. Visible' = Visible \cup Survivors(N)
      BY <1>2, <2>1 DEF Visible
    <2> QED BY <2>2 DEF VisibleKeys
  <1>7. ~(DeleteKinds \cap {"entity", "range"} # {}) => V = K
    <2> SUFFICES ASSUME DeleteKinds \cap {"entity", "range"} = {} PROVE V = K
      OBVIOUS
    <2>1. \A r \in job.rows : ~StickyHides(tombs[job.cell], r)
      BY <1>3 DEF VisInv, KindsUsed, NotSticky, StickyHides, StickyKinds
    <2>2. \A r \in job.rows : ~Hides(tombs[job.cell], N, r)
      BY <1>1, <1>2, <2>1, FreshIds DEF Written
    <2>3. Survivors(N) = job.rows
      BY <1>3, <2>2 DEF Survivors
    <2> QED BY <2>3
  <1>8. phase # "delete" /\ phase' # "delete"
    BY <1>2
  <1> HIDE DEF V
  <1>9. committed' = committed \cup K
    BY <1>2
  <1> HIDE DEF K
  <1> QED BY <1>4, <1>5, <1>6, <1>7, <1>8, <1>9 DEF Table!Insert

\* A compaction replaces rows by themselves.
LEMMA CompactRefines ==
    ASSUME IInv, RowInv, VisInv, CompactPublish \/ CompactDrop \/ CompactReclaim
    PROVE  UNCHANGED Table!tableVars
  <1>1. committed' = committed /\ phase # "delete" /\ phase' # "delete"
    BY DEF CompactPublish, CompactDrop, CompactReclaim, Finish, observed
  <1>2. CASE CompactPublish \/ CompactDrop
    <2>1. PICK N : N = NewSegment(CompactTsRange(job.rows))
      OBVIOUS
    <2>2. /\ phase \in {"compact_publish", "compact_drop"}
          /\ tombs' = tombs /\ files' = files
          /\ phase = "compact_publish" => segs' = (segs \ job.inputs) \cup {N}
          /\ phase = "compact_drop" => segs' = segs \ job.inputs
      BY <1>2, <2>1 DEF CompactPublish, CompactDrop, disk
    <2>3. /\ job.inputs \subseteq segs
          /\ job.rows = UNION {Survivors(s) : s \in job.inputs}
          /\ phase = "compact_drop" => job.rows = {}
      BY <2>2 DEF RowInv, Merging, Building, SegsIn
    <2>4. phase = "compact_publish" => Survivors(N) = job.rows
      <3> SUFFICES ASSUME phase = "compact_publish" PROVE Survivors(N) = job.rows
        OBVIOUS
      <3>1. RowsOf(N) = job.rows /\ N.cell = job.cell
        BY <2>1, OutputFile DEF Written
      <3>2. \A r \in job.rows : ~Hides(tombs[job.cell], N, r)
        BY <2>1, OutputVisible
      <3> QED BY <3>1, <3>2 DEF Survivors
    <2>5. \A s : Survivors(s)' = Survivors(s)
      BY <2>2, SameFile
    <2> DEFINE kept == segs \ job.inputs
    <2>6. \A r : r \in Visible <=> r \in job.rows \/ \E s \in kept : r \in Survivors(s)
      <3>1. \A r : r \in job.rows <=> \E s \in job.inputs : r \in Survivors(s)
        BY <2>3
      <3> QED BY <2>3, <3>1 DEF Visible
    <2>7. \A r : r \in Visible' <=> r \in job.rows \/ \E s \in kept : r \in Survivors(s)
      <3>1. \A r : r \in Visible' <=> \E s \in segs' : r \in Survivors(s)
        BY <2>5 DEF Visible
      <3>2. CASE phase = "compact_publish"
        BY <2>2, <2>4, <3>1, <3>2
      <3>3. CASE phase = "compact_drop"
        BY <2>2, <2>3, <3>1, <3>3
      <3> QED BY <2>2, <3>2, <3>3
    <2>8. VisibleKeys' = VisibleKeys
      <3>1. \A r : r \in Visible' <=> r \in Visible
        BY <2>6, <2>7
      <3>2. Visible' = Visible
        BY <3>1
      <3> QED BY <3>2 DEF VisibleKeys
    <2> QED BY <1>1, <2>8 DEF Table!tableVars
  <1>3. CASE CompactReclaim
    <2>1. ASSUME NEW s \in segs PROVE Survivors(s)' = Survivors(s)
      <3>1. CASE s.cell # job.cell
        <4>1. tombs'[s.cell] = tombs[s.cell] /\ files' = files
          BY <1>3, <3>1, ReclaimFacts, ListedFile
        <4> QED BY <4>1, SameFile
      <3>2. CASE s.cell = job.cell
        <4>1. \A r \in RowsOf(s) : ~Hides(tombs[s.cell], s, r)
          BY <1>3, <3>2, ReclaimFacts DEF VisInv, Reclaimable, SegsIn
        <4>2. \A r : Hides(tombs'[s.cell], s, r) => Hides(tombs[s.cell], s, r)
          BY <1>3, ReclaimFacts, ListedFile DEF Hides
        <4>3. /\ RowsOf(s)' = RowsOf(s)
              /\ \A r : Hides(tombs[s.cell], s, r)' <=> Hides(tombs'[s.cell], s, r)
          BY <1>3, ReclaimFacts DEF RowsOf, PathOf, Hides, SeqOf
        <4> QED BY <4>1, <4>2, <4>3 DEF Survivors
      <3> QED BY <3>1, <3>2
    <2>2. Visible' = Visible
      BY <1>3, <2>1, ReclaimFacts DEF Visible
    <2> QED BY <1>1, <2>2 DEF Table!tableVars, VisibleKeys
  <1> QED BY <1>2, <1>3

\* One rewrite of a tombstone file hides rows the DELETE has set out to hide.
LEMMA DeleteRefines ==
    ASSUME IInv, RowInv, VisInv, NEW c \in Cells, DeleteWrite(c)
    PROVE  Table!Hide
  <1> DEFINE Hit(s) == {r \in Survivors(s) : Hides(job.entries[c[2]], s, r)}
             K == {r.key : r \in UNION {Hit(s) : s \in SegsIn(c)}}
  <1>1. /\ phase = "delete" /\ phase' = "delete" /\ c \in job.todo
        /\ segs' = segs /\ committed' = committed /\ job'.doomed = job.doomed
        /\ \A s \in segs :
              /\ s.cell # c => Survivors(s)' = Survivors(s)
              /\ s.cell = c => Survivors(s)' = Survivors(s) \ Hit(s)
    BY WriteHides DEF manifest
  <1>2. K \subseteq job.doomed
    BY <1>1 DEF VisInv, Intended, SegsIn
  <1>3. VisibleKeys' = VisibleKeys \ K
    <2>1. \A s, t \in segs : \A r \in Survivors(s), q \in Survivors(t) :
             r.key = q.key => s = t /\ r = q
      BY DEF RowInv, KeysOnce, Survivors
    <2>2. \A k : k \in VisibleKeys <=> \E s \in segs : \E r \in Survivors(s) : k = r.key
      BY DEF VisibleKeys, Visible
    <2>3. \A k : k \in VisibleKeys' <=> \E s \in segs : \E r \in Survivors(s)' : k = r.key
      BY <1>1 DEF VisibleKeys, Visible
    <2>4. \A k : k \in K <=> \E s \in segs : s.cell = c /\ \E r \in Hit(s) : k = r.key
      BY DEF SegsIn
    <2>5. \A s : Hit(s) \subseteq Survivors(s)
      OBVIOUS
    <2> HIDE DEF Hit, K
    <2>6. ASSUME NEW k \in VisibleKeys' PROVE k \in VisibleKeys \ K
      <3>1. PICK s \in segs : \E r \in Survivors(s)' : k = r.key
        BY <2>3
      <3>2. PICK r \in Survivors(s)' : k = r.key
        BY <3>1
      <3>3. r \in Survivors(s) /\ (s.cell = c => r \notin Hit(s))
        BY <1>1, <3>2
      <3>4. k \notin K
        BY <2>1, <2>4, <2>5, <3>2, <3>3
      <3> QED BY <2>2, <3>2, <3>3, <3>4
    <2>7. ASSUME NEW k \in VisibleKeys, k \notin K PROVE k \in VisibleKeys'
      <3>1. PICK s \in segs : \E r \in Survivors(s) : k = r.key
        BY <2>2
      <3>2. PICK r \in Survivors(s) : k = r.key
        BY <3>1
      <3>3. r \in Survivors(s)'
        BY <1>1, <2>4, <2>7, <3>2
      <3> QED BY <2>3, <3>2, <3>3
    <2> QED BY <2>6, <2>7
  <1> HIDE DEF K
  <1> QED BY <1>1, <1>2, <1>3 DEF Table!Hide

\* Creating and dropping the table are steps of the abstract table, or none.
LEMMA DdlRefines ==
    ASSUME RowInv, Ddl
    PROVE  Table!Drop \/ UNCHANGED Table!tableVars
  <1>1. segs' = {} /\ committed' = committed /\ phase' = "idle" /\ phase = "idle"
    BY DEF Ddl, CreateTable, DropTable, observed
  <1>2. VisibleKeys' = {}
    BY <1>1 DEF VisibleKeys, Visible
  <1> QED BY <1>1, <1>2 DEF Table!Drop

\* A new database is an empty table.
LEMMA InitRefines == Init => Table!Init
  BY DEF Init, Table!Init, VisibleKeys, Visible

\* Every step of the store is a step of the abstract table, or none.
LEMMA StepRefines ==
    ASSUME OldIdsOnly, IInv, RowInv, VisInv, [Next]_vars
    PROVE  [Table!Next]_(Table!tableVars)
  <1>1. CASE View
    BY <1>1, ViewRefines
  <1>2. CASE IngestPublish
    BY <1>2, IngestRefines DEF Table!Next
  <1>3. CASE CompactPublish \/ CompactDrop \/ CompactReclaim
    BY <1>3, CompactRefines
  <1>4. CASE \E c \in Cells : DeleteWrite(c)
    BY <1>4, DeleteRefines DEF Table!Next
  <1>5. CASE Ddl
    BY <1>5, DdlRefines DEF Table!Next
  <1>6. CASE Settles \/ UNCHANGED vars
    BY <1>1, <1>6, OutOfSight DEF Settles
  <1>7. CASE \/ IngestStart \/ IngestAllocateId \/ IngestAllocateSeqs \/ IngestWrite
             \/ (\E c \in Cells : CompactStart(c)) \/ CompactAllocate \/ CompactWrite
    BY <1>1, <1>7, OutOfSight
  <1> QED BY <1>2, <1>3, <1>4, <1>5, <1>6, <1>7, NextCases DEF NextByView

\* The store behaves as a table of rows: segments, tombstones, compactions,
\* failures, crashes and restarts cannot be seen.
THEOREM StoreImplementsTable == OldIdsOnly => (Spec => ImplementsTable)
  <1> SUFFICES ASSUME OldIdsOnly PROVE Spec => ImplementsTable
    OBVIOUS
  <1>1. IInv /\ RowInv /\ VisInv /\ [Next]_vars => [Table!Next]_(Table!tableVars)
    BY StepRefines
  <1> QED BY <1>1, InitRefines, StoreInvariant, RowsInPlace, TombstonesNameOldIds, PTL
          DEF Spec, ImplementsTable, Table!Spec
=============================================================================
