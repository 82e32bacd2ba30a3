----------------------------- MODULE TableStore -----------------------------
(***************************************************************************)
(* The storage of one bqlite table: the manifest entry, the segment files  *)
(* and the tombstone files, and the statements that change them.           *)
(*                                                                         *)
(* INSERT, DELETE, CREATE/DROP TABLE and compaction all take the           *)
(* `&mut Database`, so one statement runs at a time; a statement is a      *)
(* sequence of durable steps (each manifest update, file write and         *)
(* tombstone rewrite is one atomic rename), any of which may fail, and     *)
(* between any two of which the process may crash.                         *)
(*                                                                         *)
(* Rows are abstracted to an entity, a timestamp and a ghost key that      *)
(* tells apart equal rows.  A segment file is the set of its rows: it      *)
(* stores them sorted, and the __seq_id of a row is its position in that   *)
(* order added to the segment's first __seq_id.                            *)
(***************************************************************************)
EXTENDS Integers, FiniteSets, Sequences, Functions

CONSTANTS
    Entities,        \* entity keys, numbers because segments sort by them
    Times,           \* event timestamps
    WindowLen,       \* width of a time window
    ShardCount,
    ShardOf,         \* the hash placement of entities on shards
    DeleteKinds,     \* granularities the clients use: "row", "batch",
                     \* "entity", "range", "scan"
    AnyId,           \* TRUE: a DELETE may name an id not handed out yet
    ScanPredicates,  \* predicates of ALLOW SCAN, as sets of <<entity, time>>
    MaxKeys, MaxBatchRows, MaxSegments, MaxSeqs, MaxBatches,
    MaxDeletes, MaxDrops, MaxCrashes  \* bounds of the model

ASSUME StoreAssumption ==
    /\ Entities \subseteq Nat
    /\ Times \subseteq Nat /\ Times # {}
    /\ WindowLen \in Nat \ {0}
    /\ ShardCount \in Nat \ {0}
    /\ ShardOf \in [Entities -> 0..(ShardCount - 1)]
    /\ AnyId \in BOOLEAN
    /\ ScanPredicates \subseteq SUBSET (Entities \X Times)
    /\ {MaxKeys, MaxBatchRows, MaxSegments, MaxSeqs, MaxBatches,
        MaxDeletes, MaxDrops, MaxCrashes} \subseteq Nat

VARIABLES
    (* manifest.json *)
    hasTable, segs, nextSegment, nextSeq, nextBatch,
    (* the other files of the database directory *)
    files,       \* path -> rows, for every .seg file
    tombs,       \* cell -> contents of its tombstones.json
    (* the process *)
    phase,       \* control point of the running statement; "idle"; "down"
    job,         \* local variables of the running statement
    (* observation: not in the code *)
    nextKey,     \* key of the next row a client inserts
    committed,   \* keys of the rows ever published
    condemned,   \* keys of the rows some DELETE found present and matching
    deletes, drops, crashes  \* how often, for the bounds

manifest == <<hasTable, segs, nextSegment, nextSeq, nextBatch>>
disk == <<files, tombs>>
bounds == <<deletes, drops, crashes>>
observed == <<nextKey, committed, condemned, bounds>>
vars == <<manifest, disk, phase, job, observed>>

-----------------------------------------------------------------------------
(* Rows, cells, segments *)

Shards == 0..(ShardCount - 1)
WindowOf(t) == t \div WindowLen
Windows == {WindowOf(t) : t \in Times}
Cells == Windows \X Shards
CellOf(r) == <<WindowOf(r.ts), ShardOf[r.ent]>>

Row == [key : Nat, ent : Entities, ts : Times]
Segment ==
    [id : Nat, cell : Cells, batch : Nat, lo : Nat, n : Nat, ts : Times \X Times]

\* Order of the rows in a segment: by entity, then time, then arrival.
Precedes(q, r) ==
    \/ q.ent < r.ent
    \/ q.ent = r.ent /\ q.ts < r.ts
    \/ q.ent = r.ent /\ q.ts = r.ts /\ q.key < r.key

Offset(r, rows) == Cardinality({q \in rows : Precedes(q, r)})
FirstRow(rows) == CHOOSE r \in rows : \A q \in rows : ~Precedes(q, r)
LastRow(rows) == CHOOSE r \in rows : \A q \in rows : ~Precedes(r, q)

PathOf(s) == <<s.cell, s.id>>
RowsOf(s) == files[PathOf(s)]
SegsIn(c) == {s \in segs : s.cell = c}
SeqOf(s, r) == s.lo + Offset(r, RowsOf(s))
SeqRange(s) == s.lo .. (s.lo + s.n - 1)

\* prepare_segment takes the timestamps of the first and the last row.
IngestTsRange(rows) == <<FirstRow(rows).ts, LastRow(rows).ts>>

\* compute_segment_ranges scans for the least and the greatest.
CompactTsRange(rows) ==
    LET stamps == {r.ts : r \in rows}
    IN  <<CHOOSE t \in stamps : \A u \in stamps : t <= u,
          CHOOSE t \in stamps : \A u \in stamps : t >= u>>

-----------------------------------------------------------------------------
(* Tombstones *)

TimeRange == Times \X Times     \* closed; an open or missing bound is rounded
Tombstones ==
    [rows : SUBSET Nat, batches : SUBSET Nat,
     ents : SUBSET Entities, ranges : SUBSET TimeRange]
NoTombs == [rows |-> {}, batches |-> {}, ents |-> {}, ranges |-> {}]

Contains(range, t) == range[1] <= t /\ t <= range[2]

Merge(old, new) ==
    [rows |-> old.rows \cup new.rows,
     batches |-> old.batches \cup new.batches,
     ents |-> old.ents \cup new.ents,
     ranges |-> old.ranges \cup new.ranges]

\* TombstoneFilter, as a query applies it to a row of segment s.
Hides(t, s, r) ==
    \/ s.batch \in t.batches
    \/ r.ent \in t.ents
    \/ SeqOf(s, r) \in t.rows
    \/ \E range \in t.ranges : Contains(range, r.ts)

\* A compaction that forgets to drop batch-deleted segments.
CompactionHidesNoBatch(t, s, r) ==
    \/ SeqOf(s, r) \in t.rows
    \/ r.ent \in t.ents
    \/ \E range \in t.ranges : Contains(range, r.ts)

\* CompactionTombstoneScan, the same filter as the merge applies it.
CompactionHides(t, s, r) ==
    \/ s.batch \in t.batches
    \/ SeqOf(s, r) \in t.rows
    \/ r.ent \in t.ents
    \/ \E range \in t.ranges : Contains(range, r.ts)

Survivors(s) == {r \in RowsOf(s) : ~Hides(tombs[s.cell], s, r)}
Visible == UNION {Survivors(s) : s \in segs}
VisibleKeys == {r.key : r \in Visible}

\* A query's segment pruning with the lower bound taken as exclusive.
OverlapsTimeRangeExclusive(s, from, to) == s.ts[2] > from /\ s.ts[1] < to

\* filter_windows_by_time_range: is segment s read for [from, to)?
OverlapsTimeRange(s, from, to) == s.ts[2] >= from /\ s.ts[1] < to

QueryTimeRange(from, to) ==
    {r \in UNION {Survivors(s) : s \in {s \in segs : OverlapsTimeRange(s, from, to)}} :
        from <= r.ts /\ r.ts < to}

-----------------------------------------------------------------------------
(* Statements *)

Phases ==
    {"idle", "down",
     "ingest_id", "ingest_seqs", "ingest_write", "ingest_publish",
     "compact_id", "compact_seqs", "compact_batch", "compact_write",
     "compact_publish", "compact_drop", "compact_unlink", "compact_reclaim",
     "delete"}

Ingesting == {"ingest_id", "ingest_seqs", "ingest_write", "ingest_publish"}
Building ==
    {"compact_id", "compact_seqs", "compact_batch", "compact_write",
     "compact_publish"}

NoJob ==
    [batch |-> 0, id |-> 0, lo |-> 0,
     cell |-> CHOOSE c \in Cells : TRUE,
     pending |-> {}, rows |-> {}, inputs |-> {}, snap |-> NoTombs,
     todo |-> {}, entries |-> [sh \in Shards |-> NoTombs], doomed |-> {}]

Init ==
    /\ hasTable = FALSE
    /\ segs = {}
    /\ nextSegment = 0 /\ nextSeq = 0 /\ nextBatch = 0
    /\ files = <<>>
    /\ tombs = [c \in Cells |-> NoTombs]
    /\ phase = "idle"
    /\ job = NoJob
    /\ nextKey = 0
    /\ committed = {} /\ condemned = {}
    /\ deletes = 0 /\ drops = 0 /\ crashes = 0

Finish ==
    /\ phase' = "idle"
    /\ job' = NoJob

CreateTable ==
    /\ phase = "idle" /\ ~hasTable
    /\ hasTable' = TRUE
    /\ segs' = {}
    /\ nextSegment' = 0 /\ nextSeq' = 0 /\ nextBatch' = 0
    /\ UNCHANGED <<disk, phase, job, observed>>

\* Only the manifest entry goes: segment and tombstone files stay.
DropTable ==
    /\ phase = "idle" /\ hasTable
    /\ drops < MaxDrops
    /\ hasTable' = FALSE
    /\ segs' = {}
    /\ nextSegment' = 0 /\ nextSeq' = 0 /\ nextBatch' = 0
    /\ drops' = drops + 1
    /\ UNCHANGED <<disk, phase, job, nextKey, committed, condemned, deletes, crashes>>

(* Durable allocation of the three counters; gaps are allowed. *)

AllocateSegmentId ==
    /\ nextSegment < MaxSegments
    /\ nextSegment' = nextSegment + 1
    /\ UNCHANGED <<hasTable, segs, nextSeq, nextBatch>>

\* Advances to the last id handed out, not past it.
AllocateSeqRangeShort(n) ==
    /\ nextSeq + n <= MaxSeqs
    /\ nextSeq' = nextSeq + n - 1
    /\ UNCHANGED <<hasTable, segs, nextSegment, nextBatch>>

AllocateSeqRange(n) ==
    /\ nextSeq + n <= MaxSeqs
    /\ nextSeq' = nextSeq + n
    /\ UNCHANGED <<hasTable, segs, nextSegment, nextBatch>>

AllocateBatchId ==
    /\ nextBatch < MaxBatches
    /\ nextBatch' = nextBatch + 1
    /\ UNCHANGED <<hasTable, segs, nextSegment, nextSeq>>

\* A write that leaves a file it finds at the path alone.
WithFileKeepsOld(path, rows) ==
    [p \in DOMAIN files \cup {path} |-> IF p \in DOMAIN files THEN files[p] ELSE rows]

\* write_segment: the file appears under its name complete or not at all.
WithFile(path, rows) ==
    [p \in DOMAIN files \cup {path} |-> IF p = path THEN rows ELSE files[p]]
WithoutFiles(paths) == Restrict(files, DOMAIN files \ paths)

-----------------------------------------------------------------------------
(* INSERT: one batch id for the statement, then one segment per bucket.    *)

FirstCell(C) ==
    CHOOSE c \in C : \A d \in C : c[1] < d[1] \/ (c[1] = d[1] /\ c[2] <= d[2])

Bucket(c, rows) == {r \in rows : CellOf(r) = c}

IngestStart ==
    /\ phase = "idle" /\ hasTable
    /\ \E n \in 1..MaxBatchRows : \E input \in [1..n -> Entities \X Times] :
          /\ nextKey + n <= MaxKeys
          /\ job' = [NoJob EXCEPT
                !.batch = nextBatch,
                !.pending = {[key |-> nextKey + i - 1,
                              ent |-> input[i][1], ts |-> input[i][2]] : i \in 1..n}]
          /\ nextKey' = nextKey + n
    /\ AllocateBatchId
    /\ phase' = "ingest_id"
    /\ UNCHANGED <<disk, committed, condemned, bounds>>

IngestAllocateId ==
    /\ phase = "ingest_id"
    /\ AllocateSegmentId
    /\ LET c == FirstCell({CellOf(r) : r \in job.pending})
       IN  job' = [job EXCEPT !.id = nextSegment, !.cell = c,
                              !.rows = Bucket(c, job.pending)]
    /\ phase' = "ingest_seqs"
    /\ UNCHANGED <<disk, observed>>

IngestAllocateSeqs ==
    /\ phase = "ingest_seqs"
    /\ AllocateSeqRange(Cardinality(job.rows))
    /\ job' = [job EXCEPT !.lo = nextSeq]
    /\ phase' = "ingest_write"
    /\ UNCHANGED <<disk, observed>>

IngestWrite ==
    /\ phase = "ingest_write"
    /\ files' = WithFile(<<job.cell, job.id>>, job.rows)
    /\ phase' = "ingest_publish"
    /\ UNCHANGED <<manifest, tombs, job, observed>>

NewSegment(range) ==
    [id |-> job.id, cell |-> job.cell, batch |-> job.batch,
     lo |-> job.lo, n |-> Cardinality(job.rows), ts |-> range]

\* Manifest::add_segment, and on to the next bucket.
IngestPublish ==
    /\ phase = "ingest_publish"
    /\ segs' = segs \cup {NewSegment(IngestTsRange(job.rows))}
    /\ committed' = committed \cup {r.key : r \in job.rows}
    /\ LET rest == job.pending \ job.rows
       IN  IF rest = {}
           THEN Finish
           ELSE /\ phase' = "ingest_id"
                /\ job' = [job EXCEPT !.pending = rest]
    /\ UNCHANGED <<hasTable, nextSegment, nextSeq, nextBatch, disk,
                   nextKey, condemned, bounds>>

\* An error ends the statement; buckets published before stay.  Whatever is
\* at the path of the segment is removed, best effort, when the write or the
\* publish is what failed.
IngestFail ==
    /\ phase \in Ingesting
    /\ \/ UNCHANGED files
       \/ /\ phase \in {"ingest_write", "ingest_publish"}
          /\ files' = WithoutFiles({<<job.cell, job.id>>})
    /\ Finish
    /\ UNCHANGED <<manifest, tombs, observed>>

-----------------------------------------------------------------------------
(* compact_one: merge all segments of one cell into one.                   *)

CompactStart(c) ==
    /\ phase = "idle" /\ hasTable
    /\ Cardinality(SegsIn(c)) >= 2
    /\ \A s \in SegsIn(c) : PathOf(s) \in DOMAIN files
    /\ LET merged == UNION {{r \in RowsOf(s) : ~CompactionHides(tombs[c], s, r)} :
                                s \in SegsIn(c)}
       IN  /\ job' = [NoJob EXCEPT !.cell = c, !.inputs = SegsIn(c),
                                   !.snap = tombs[c], !.rows = merged]
           /\ phase' = IF merged = {} THEN "compact_drop" ELSE "compact_id"
    /\ UNCHANGED <<manifest, disk, observed>>

CompactAllocateId ==
    /\ phase = "compact_id"
    /\ AllocateSegmentId
    /\ job' = [job EXCEPT !.id = nextSegment]
    /\ phase' = "compact_seqs"
    /\ UNCHANGED <<disk, observed>>

CompactAllocateSeqs ==
    /\ phase = "compact_seqs"
    /\ AllocateSeqRange(Cardinality(job.rows))
    /\ job' = [job EXCEPT !.lo = nextSeq]
    /\ phase' = "compact_batch"
    /\ UNCHANGED <<disk, observed>>

\* The output carries on under the oldest batch id of its inputs.
CompactInheritBatch ==
    /\ phase = "compact_batch"
    /\ LET batches == {s.batch : s \in job.inputs}
       IN  job' = [job EXCEPT !.batch = CHOOSE b \in batches : \A d \in batches : b <= d]
    /\ phase' = "compact_write"
    /\ UNCHANGED <<manifest, disk, observed>>

CompactAllocateBatch ==
    /\ phase = "compact_batch"
    /\ AllocateBatchId
    /\ job' = [job EXCEPT !.batch = nextBatch]
    /\ phase' = "compact_write"
    /\ UNCHANGED <<disk, observed>>

CompactWrite ==
    /\ phase = "compact_write"
    /\ files' = WithFile(<<job.cell, job.id>>, job.rows)
    /\ phase' = "compact_publish"
    /\ UNCHANGED <<manifest, tombs, job, observed>>

\* Database::replace_segments: inputs out, output in, one rename.
CompactPublish ==
    /\ phase = "compact_publish"
    /\ segs' = (segs \ job.inputs) \cup {NewSegment(CompactTsRange(job.rows))}
    /\ phase' = "compact_unlink"
    /\ UNCHANGED <<hasTable, nextSegment, nextSeq, nextBatch, disk, job, observed>>

\* Database::remove_segments_atomic, when every row was tombstoned.
CompactDrop ==
    /\ phase = "compact_drop"
    /\ segs' = segs \ job.inputs
    /\ phase' = "compact_unlink"
    /\ UNCHANGED <<hasTable, nextSegment, nextSeq, nextBatch, disk, job, observed>>

\* Superseded files are unlinked; a failed unlink is ignored.
CompactUnlink ==
    /\ phase = "compact_unlink"
    /\ \E kept \in SUBSET job.inputs :
          files' = WithoutFiles({PathOf(s) : s \in job.inputs \ kept})
    /\ phase' = "compact_reclaim"
    /\ UNCHANGED <<manifest, tombs, job, observed>>

\* What is left of a tombstone file after the compaction of `inputs`.
Reclaimed(current, snap, inputs) ==
    [rows    |-> {q \in current.rows :
                    ~(q \in snap.rows /\ \E s \in inputs : q \in SeqRange(s))},
     batches |-> {b \in current.batches :
                    ~(b \in snap.batches /\ \E s \in inputs : s.batch = b)},
     ents    |-> current.ents \ snap.ents,
     ranges  |-> current.ranges \ snap.ranges]

\* Drops the shard's entry when its tombstone file becomes empty.
CompactReclaimForgetful ==
    /\ phase = "compact_reclaim"
    /\ LET left == Reclaimed(tombs[job.cell], job.snap, job.inputs)
       IN  tombs' = IF left = NoTombs
                    THEN Restrict(tombs, DOMAIN tombs \ {job.cell})
                    ELSE [tombs EXCEPT ![job.cell] = left]
    /\ Finish
    /\ UNCHANGED <<manifest, files, observed>>

CompactReclaim ==
    /\ phase = "compact_reclaim"
    /\ tombs' = [tombs EXCEPT ![job.cell] = Reclaimed(@, job.snap, job.inputs)]
    /\ Finish
    /\ UNCHANGED <<manifest, files, observed>>

\* An error before the publish leaves the manifest alone (the output file is
\* removed, best effort); one while reclaiming leaves the tombstones alone.
CompactFail ==
    /\ phase \in Building \cup {"compact_drop", "compact_reclaim"}
    /\ \/ UNCHANGED files
       \/ /\ phase \in {"compact_write", "compact_publish"}
          /\ files' = WithoutFiles({<<job.cell, job.id>>})
    /\ Finish
    /\ UNCHANGED <<manifest, tombs, observed>>

-----------------------------------------------------------------------------
(* DELETE: a tombstone-file rewrite per (window, shard) that has segments.  *)

RowIds == IF AnyId THEN 0..MaxSeqs ELSE 0..(nextSeq - 1)
BatchIds == IF AnyId THEN 0..MaxBatches ELSE 0..(nextBatch - 1)

\* time_range_overlaps_window, by the ts_range of the window's segments.
WindowTouched(w, range) ==
    LET inWindow == {s \in segs : s.cell[1] = w}
    IN  /\ \E s \in inWindow : s.ts[1] <= range[2]
        /\ \E s \in inWindow : range[1] <= s.ts[2]

\* The loop stops after the first window.
TargetCellsOneWindow(entries, ranges) ==
    LET all == {c \in Cells :
            /\ SegsIn(c) # {}
            /\ entries[c[2]] # NoTombs
            /\ \A range \in ranges : WindowTouched(c[1], range)}
    IN  {c \in all : \A d \in all : c[1] <= d[1]}

TargetCells(entries, ranges) ==
    {c \in Cells :
        /\ SegsIn(c) # {}
        /\ entries[c[2]] # NoTombs
        /\ \A range \in ranges : WindowTouched(c[1], range)}

\* The same entries for every shard of `targets`.
OnShards(targets, t) == [sh \in Shards |-> IF sh \in targets THEN t ELSE NoTombs]

BeginDelete(entries, ranges, matching) ==
    /\ phase = "idle" /\ hasTable
    /\ deletes < MaxDeletes
    /\ job' = [NoJob EXCEPT !.entries = entries,
                            !.todo = TargetCells(entries, ranges),
                            !.doomed = {r.key : r \in matching}]
    /\ condemned' = condemned \cup {r.key : r \in matching}
    /\ deletes' = deletes + 1
    /\ phase' = "delete"
    /\ UNCHANGED <<manifest, disk, nextKey, committed, drops, crashes>>

\* The entity term of `entity AND __seq_id` only narrows the shards.
Targetings == {Shards} \cup {{ShardOf[e]} : e \in Entities}
VisibleOn(targets) ==
    UNION {{<<s, r>> : r \in Survivors(s)} : s \in {s \in segs : s.cell[2] \in targets}}

DeleteBySeqId ==
    /\ "row" \in DeleteKinds
    /\ \E q \in RowIds, targets \in Targetings :
          BeginDelete(OnShards(targets, [NoTombs EXCEPT !.rows = {q}]), {},
                      {v[2] : v \in {v \in VisibleOn(targets) : SeqOf(v[1], v[2]) = q}})

DeleteByBatchId ==
    /\ "batch" \in DeleteKinds
    /\ \E b \in BatchIds, targets \in Targetings :
          BeginDelete(OnShards(targets, [NoTombs EXCEPT !.batches = {b}]), {},
                      {v[2] : v \in {v \in VisibleOn(targets) : v[1].batch = b}})

DeleteByEntity ==
    /\ "entity" \in DeleteKinds
    /\ \E e \in Entities :
          BeginDelete(OnShards({ShardOf[e]}, [NoTombs EXCEPT !.ents = {e}]), {},
                      {r \in Visible : r.ent = e})

DeleteByTimeRange ==
    /\ "range" \in DeleteKinds
    /\ \E range \in TimeRange :
          /\ range[1] <= range[2]
          /\ BeginDelete(OnShards(Shards, [NoTombs EXCEPT !.ranges = {range}]), {range},
                         {r \in Visible : Contains(range, r.ts)})

\* ALLOW SCAN reads the table now and turns the matches into row tombstones,
\* written to every window of the shard.
DeleteByScan ==
    /\ "scan" \in DeleteKinds
    /\ \E P \in ScanPredicates :
          LET matches == {v \in VisibleOn(Shards) : <<v[2].ent, v[2].ts>> \in P}
              seqsOf(sh) == {SeqOf(v[1], v[2]) : v \in {v \in matches : v[1].cell[2] = sh}}
          IN  BeginDelete([sh \in Shards |-> [NoTombs EXCEPT !.rows = seqsOf(sh)]], {},
                          {v[2] : v \in matches})

DeleteStart ==
    \/ DeleteBySeqId \/ DeleteByBatchId \/ DeleteByEntity
    \/ DeleteByTimeRange \/ DeleteByScan

\* write_shard_tombstone: read, merge, rename.  The cheap path goes by window
\* and shard, ALLOW SCAN by the order of a HashMap; any order covers both.
DeleteWrite(c) ==
    /\ phase = "delete" /\ c \in job.todo
    /\ tombs' = [tombs EXCEPT ![c] = Merge(@, job.entries[c[2]])]
    /\ job' = [job EXCEPT !.todo = @ \ {c}]
    /\ UNCHANGED <<manifest, files, phase, observed>>

DeleteFinish ==
    /\ phase = "delete" /\ job.todo = {}
    /\ Finish
    /\ UNCHANGED <<manifest, disk, observed>>

\* A failed rewrite ends the statement; shards written before stay written.
DeleteFail ==
    /\ phase = "delete" /\ job.todo # {}
    /\ Finish
    /\ UNCHANGED <<manifest, disk, observed>>

-----------------------------------------------------------------------------
(* Crash and Database::open *)

Crash ==
    /\ phase # "down"
    /\ crashes < MaxCrashes
    /\ crashes' = crashes + 1
    /\ phase' = "down"
    /\ job' = NoJob
    /\ UNCHANGED <<manifest, disk, nextKey, committed, condemned, deletes, drops>>

\* Active set built from the first shard only.
ActivePathsFirstShard == {PathOf(s) : s \in {s \in segs : s.cell[2] = 0}}

ActivePaths == {PathOf(s) : s \in segs}

\* Cleanup that takes the tombstone files of the cells for garbage too.
OpenReapsTombstones ==
    /\ phase = "down"
    /\ files' = WithoutFiles(DOMAIN files \ ActivePaths)
    /\ tombs' = [c \in Cells |-> NoTombs]
    /\ phase' = "idle"
    /\ UNCHANGED <<manifest, job, observed>>

\* reconcile_segments: unreferenced segment files go, tombstones stay.
Open ==
    /\ phase = "down"
    /\ files' = WithoutFiles(DOMAIN files \ ActivePaths)
    /\ phase' = "idle"
    /\ UNCHANGED <<manifest, tombs, job, observed>>

\* A removal that fails makes `open` return the error.
OpenFail ==
    /\ phase = "down"
    /\ \E orphans \in SUBSET (DOMAIN files \ ActivePaths) :
          files' = WithoutFiles(orphans)
    /\ UNCHANGED <<manifest, tombs, phase, job, observed>>

-----------------------------------------------------------------------------

Ddl == CreateTable \/ DropTable

Ingest ==
    \/ IngestStart \/ IngestAllocateId \/ IngestAllocateSeqs
    \/ IngestWrite \/ IngestPublish \/ IngestFail

Compact ==
    \/ \E c \in Cells : CompactStart(c)
    \/ CompactAllocateId \/ CompactAllocateSeqs \/ CompactAllocateBatch
    \/ CompactWrite \/ CompactPublish \/ CompactDrop
    \/ CompactUnlink \/ CompactReclaim \/ CompactFail

Delete ==
    \/ DeleteStart
    \/ \E c \in Cells : DeleteWrite(c)
    \/ DeleteFinish \/ DeleteFail

Recover == Crash \/ Open \/ OpenFail

Next == Ddl \/ Ingest \/ Compact \/ Delete \/ Recover

Spec == Init /\ [][Next]_vars

-----------------------------------------------------------------------------
(* Properties *)

\* Job records of a running statement.
Job ==
    [batch : Nat, id : Nat, lo : Nat, cell : Cells,
     pending : SUBSET Row, rows : SUBSET Row, inputs : SUBSET Segment,
     snap : Tombstones, todo : SUBSET Cells,
     entries : [Shards -> Tombstones], doomed : SUBSET Nat]

\* The state has the shape of the manifest, the directory and the statement's
\* locals.
TypeOK ==
    /\ hasTable \in BOOLEAN
    /\ segs \subseteq Segment
    /\ nextSegment \in Nat /\ nextSeq \in Nat /\ nextBatch \in Nat
    /\ DOMAIN files \subseteq Cells \X Nat
    /\ \A p \in DOMAIN files : files[p] \subseteq Row
    /\ tombs \in [Cells -> Tombstones]
    /\ phase \in Phases
    /\ job \in Job
    /\ nextKey \in Nat /\ committed \subseteq Nat /\ condemned \subseteq Nat

\* Every segment the manifest lists is on disk, whole: no publish precedes its
\* file, and neither a failed statement, a compaction's unlink nor the cleanup
\* in `open` takes a file that is still referenced.
RefsHaveFiles ==
    \A s \in segs :
        /\ PathOf(s) \in DOMAIN files
        /\ Cardinality(RowsOf(s)) = s.n

\* No segment id, __seq_id or __batch_id is ever handed out twice while a
\* segment carrying it is listed, whatever crashes or fails between the
\* allocation and the publish.
IdsUnique ==
    /\ \A s \in segs :
          s.id < nextSegment /\ s.lo + s.n <= nextSeq /\ s.batch < nextBatch
    /\ \A s, t \in segs :
          s # t => s.id # t.id /\ SeqRange(s) \cap SeqRange(t) = {}

\* When every planned tombstone of a DELETE is written, no row it found
\* matching is visible: window and shard targeting skip no matching row.
DeleteComplete ==
    phase = "delete" /\ job.todo = {} => job.doomed \cap VisibleKeys = {}

\* A time-bounded query returns exactly the visible rows in its bounds: the
\* ts_range it prunes segments by covers every row of the segment.
TimePruningSound ==
    \A from, to \in Times : from < to =>
        QueryTimeRange(from, to) = {r \in Visible : from <= r.ts /\ r.ts < to}

\* A standing tombstone hides only rows that some DELETE found in the table,
\* as deletes.md has it; in particular a tombstone that outlives the ids it
\* names never lands on a row that reuses them.
TombstonesHitOnlyPresentRows ==
    \A s \in segs : \A r \in RowsOf(s) :
        Hides(tombs[s.cell], s, r) => r.key \in condemned

Table ==
    INSTANCE EventTable WITH
        Keys <- 0..(MaxKeys - 1),
        StickyDeletes <- DeleteKinds \cap {"entity", "range"} # {},
        known <- committed,
        live <- VisibleKeys,
        doomed <- IF phase = "delete" THEN job.doomed ELSE {}

\* Segments, tombstones, compactions, failures and crashes are invisible:
\* the store behaves as the table of rows of EventTable.
ImplementsTable == Table!Spec
=============================================================================
