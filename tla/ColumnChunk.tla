---------------------------- MODULE ColumnChunk ----------------------------
(***************************************************************************)
(* One integer column of a segment file: how the writer turns each row     *)
(* group's values into a column chunk (null bitmap, zone map, one of nine  *)
(* codecs, the segment's dictionaries) and how the reader turns the chunk  *)
(* back into values.                                                       *)
(*                                                                         *)
(* An i64 is a signed integer of Width bits, a block of 128 values is      *)
(* BlockSize values, and a bit-packed stream is the sequence of the codes  *)
(* cut to the packed width.  The sizes in bytes by which the selector      *)
(* ranks the codecs, and PFOR its widths, are left out: any codec that     *)
(* passes its guard may be chosen, and any width PFOR compares.            *)
(***************************************************************************)
EXTENDS Integers, Sequences, SequencesExt, FiniteSetsExt

CONSTANTS Null,        \* a null value
          Width,       \* bits of an integer (64 in the code)
          BlockSize,   \* values in a FOR or PFOR block (128 in the code)
          Jobs         \* columns to write: [type, nullable, groups]

VARIABLES job,     \* the column
          state,   \* [chunks, dicts, agg, refused]
          out      \* the row groups read back, by number

vars == <<job, state, out>>
-----------------------------------------------------------------------------
(* Fixed-width integers and bit packing.                                   *)

FitsInt(n) == n \in -(2^(Width - 1)) .. 2^(Width - 1) - 1

Wrap(n) == ((n + 2^(Width - 1)) % 2^Width) - 2^(Width - 1)

ZigZag(n) == IF n >= 0 THEN 2 * n ELSE -2 * n - 1

UnZigZag(z) == IF z % 2 = 0 THEN z \div 2 ELSE -(z \div 2) - 1

\* Mutant: the logarithm rounded up, one bit short for a power of two.
SignificantBitsOfBound(n) == Min({k \in 1 .. Width : n <= 2^k})

SignificantBits(n) == Min({k \in 1 .. Width : n < 2^k})

Packed(codes, width) == [i \in DOMAIN codes |-> codes[i] % 2^width]

Distinct(s) == {s[i] : i \in DOMAIN s}

Differences(s) == [i \in 1 .. Len(s) - 1 |-> s[i + 1] - s[i]]

PrefixSums(base, deltas) ==
  LET sum[i \in 0 .. Len(deltas)] == IF i = 0 THEN base ELSE sum[i - 1] + deltas[i]
  IN [i \in 1 .. Len(deltas) + 1 |-> sum[i - 1]]

AllFit(s) == \A i \in DOMAIN s : FitsInt(s[i])
-----------------------------------------------------------------------------
(* The codecs.  Decoding yields Null where the decoder returns an error.   *)

ResidualWidth(residuals) ==
  IF residuals = <<>> THEN 1
  ELSE SignificantBits(Max({ZigZag(residuals[i]) : i \in DOMAIN residuals}))

PackResiduals(residuals) ==
  LET w == ResidualWidth(residuals)
  IN Packed([i \in DOMAIN residuals |-> ZigZag(residuals[i])], w)

UnpackResiduals(codes) == [i \in DOMAIN codes |-> UnZigZag(codes[i])]

DecodeDelta(c) ==
  LET values == PrefixSums(c.base, UnpackResiduals(c.codes))
  IN IF AllFit(values) THEN values ELSE Null

DecodeDoubleDelta(c) ==
  LET deltas == PrefixSums(c.first, UnpackResiduals(c.codes))
      rest   == PrefixSums(Wrap(c.base + c.first), Tail(deltas))
  IN CASE c.rows = 1    -> <<c.base>>
       [] ~AllFit(rest) -> Null
       [] OTHER         -> <<c.base>> \o rest

Blocks(s) ==
  [b \in 1 .. (Len(s) + BlockSize - 1) \div BlockSize |->
     SubSeq(s, (b - 1) * BlockSize + 1, Min({b * BlockSize, Len(s)}))]

Offsets(block) ==
  LET min == Min(Distinct(block)) IN [i \in DOMAIN block |-> (block[i] - min) % 2^Width]

FrameWidth(block) == SignificantBits(Max(Distinct(Offsets(block))))

\* A block at the given width: the offsets that do not fit it become patches.
PackBlock(block, width) ==
  LET offsets == Offsets(block)
      patched == {i \in DOMAIN block : offsets[i] >= 2^width}
  IN [min     |-> Min(Distinct(block)),
      codes   |-> Packed([i \in DOMAIN block |-> IF i \in patched THEN 0 ELSE offsets[i]], width),
      patches |-> [i \in patched |-> block[i]]]

DecodeBlock(b) ==
  [i \in DOMAIN b.codes |->
     IF i \in DOMAIN b.patches THEN b.patches[i] ELSE Wrap(b.min + b.codes[i])]

DecodeBlocks(c) == FlattenSeq([b \in DOMAIN c.blocks |-> DecodeBlock(c.blocks[b])])

RunEnds(s) ==
  SetToSortSeq({i \in DOMAIN s : i = Len(s) \/ s[i + 1] # s[i]}, <)

DecodeRuns(c) ==
  LET n == Len(c.ends)
  IN IF (\E i \in 1 .. n - 1 : c.ends[i + 1] <= c.ends[i]) \/ c.ends[n] # c.rows
     THEN Null
     ELSE [i \in 1 .. c.rows |-> c.values[Min({r \in 1 .. n : c.ends[r] >= i})]]

DictionaryOf(s) == SetToSortSeq(Distinct(s), <)

DecodeCodes(c, dict) ==
  IF \E i \in DOMAIN c.codes : c.codes[i] >= Len(dict) THEN Null
  ELSE [i \in DOMAIN c.codes |-> dict[c.codes[i] + 1]]
-----------------------------------------------------------------------------
(* Choosing a codec for the dense values s.                                *)

Codecs(type) ==
  {"Plain", "Delta", "DoubleDelta", "BitPacking", "Rle", "For", "PFor"}
    \cup IF type = "Int" THEN {"Dictionary"} ELSE {}

PassesGuard(codec, s) ==
  CASE codec = "Dictionary" -> Cardinality(Distinct(s)) * 10 < Len(s) * 3
    [] codec = "Rle"        -> Len(RunEnds(s)) * 2 < Len(s)
    [] OTHER                -> TRUE

Estimable(codec, s) ==
  CASE codec = "Delta"       -> AllFit(Differences(s))
    [] codec = "DoubleDelta" -> AllFit(Differences(s)) /\ AllFit(Differences(Differences(s)))
    [] OTHER                 -> TRUE

Candidates(type, s) ==
  CASE s = <<>>                    -> {"Plain"}
    [] Cardinality(Distinct(s)) = 1 -> {"Constant"}
    [] OTHER -> {codec \in Codecs(type) : PassesGuard(codec, s) /\ Estimable(codec, s)}

\* The widths PFOR's search for the smallest block compares.
PatchWidths(s) ==
  LET blocks == Blocks(s)
  IN {w \in [DOMAIN blocks -> 1 .. Width] : \A b \in DOMAIN blocks : w[b] <= FrameWidth(blocks[b])}

\* The encoded chunk, before its dictionary moves to the segment.
Encodings(codec, s) ==
  LET n == Len(s)
      deltas == Differences(s)
      E(rec) == {rec @@ [codec |-> codec, rows |-> n]}
  IN CASE codec = "Plain"       -> E([values |-> s])
       [] codec = "Constant"    -> E([value |-> s[1]])
       [] codec = "Delta"       -> E([base |-> s[1], codes |-> PackResiduals(deltas)])
       [] codec = "DoubleDelta" -> E([base |-> s[1], first |-> IF n >= 2 THEN deltas[1] ELSE 0,
                                      codes |-> PackResiduals(Differences(deltas))])
       [] codec = "BitPacking"  -> E([blocks |-> <<PackBlock(s, FrameWidth(s))>>])
       [] codec = "For"         -> E([blocks |-> [b \in DOMAIN Blocks(s) |->
                                        PackBlock(Blocks(s)[b], FrameWidth(Blocks(s)[b]))]])
       [] codec = "PFor"        -> UNION {E([blocks |-> [b \in DOMAIN w |-> PackBlock(Blocks(s)[b], w[b])]]) :
                                            w \in PatchWidths(s)}
       [] codec = "Rle"         -> E([ends |-> RunEnds(s),
                                      values |-> [r \in DOMAIN RunEnds(s) |-> s[RunEnds(s)[r]]]])
       [] codec = "Dictionary"  ->
            LET dict == DictionaryOf(s)
            IN E([dict |-> dict,
                  codes |-> Packed([i \in DOMAIN s |-> (CHOOSE k \in DOMAIN dict : dict[k] = s[i]) - 1],
                                   SignificantBits(Len(dict) - 1))])
-----------------------------------------------------------------------------
(* Writing a row group's chunk and reading it back.                        *)

NonNull(v) == v # Null

Extrema(s) ==
  IF s = <<>> THEN [min |-> Null, max |-> Null]
  ELSE [min |-> Min(Distinct(s)), max |-> Max(Distinct(s))]

\* The segment's zone map after one more row group; an all-null row group
\* contributes nothing.
MergeExtrema(agg, zone) ==
  [min |-> IF zone.min # Null /\ (agg.min = Null \/ zone.min < agg.min) THEN zone.min ELSE agg.min,
   max |-> IF zone.max # Null /\ (agg.max = Null \/ zone.max > agg.max) THEN zone.max ELSE agg.max]

Init ==
  /\ job \in Jobs
  /\ state = [chunks |-> <<>>, dicts |-> <<>>, agg |-> Extrema(<<>>), refused |-> FALSE]
  /\ out = <<>>

Group == job.groups[Len(state.chunks) + 1]

Writing == ~state.refused /\ Len(state.chunks) < Len(job.groups)

\* The null bitmap and the zone map are taken from the values, the dense
\* values are encoded, and a dictionary joins the segment's list.
WriteChunk ==
  /\ Writing
  /\ job.nullable \/ \A i \in DOMAIN Group : NonNull(Group[i])
  /\ LET dense == SelectSeq(Group, NonNull)
         head  == [bitmap |-> [i \in DOMAIN Group |-> NonNull(Group[i])], zone |-> Extrema(dense)]
     IN \E codec \in Candidates(job.type, dense) : \E chunk \in Encodings(codec, dense) :
          state' = [state EXCEPT
            !.chunks = Append(@, head @@ IF codec = "Dictionary"
                                           THEN [chunk EXCEPT !.dict = Len(state.dicts) + 1]
                                           ELSE chunk),
            !.dicts = IF codec = "Dictionary" THEN Append(@, chunk.dict) ELSE @,
            !.agg = MergeExtrema(@, head.zone)]
  /\ UNCHANGED <<job, out>>

\* A null in a NOT NULL column fails the write of the segment.
RefuseNull ==
  /\ Writing
  /\ ~job.nullable
  /\ \E i \in DOMAIN Group : Group[i] = Null
  /\ state' = [state EXCEPT !.refused = TRUE]
  /\ UNCHANGED <<job, out>>

DecodeDense(c) ==
  CASE c.codec = "Plain"       -> c.values
    [] c.codec = "Constant"    -> [i \in 1 .. c.rows |-> c.value]
    [] c.codec = "Delta"       -> DecodeDelta(c)
    [] c.codec = "DoubleDelta" -> DecodeDoubleDelta(c)
    [] c.codec \in {"BitPacking", "For", "PFor"} -> DecodeBlocks(c)
    [] c.codec = "Rle"         -> DecodeRuns(c)
    [] c.codec = "Dictionary"  -> DecodeCodes(c, state.dicts[c.dict])

\* The k-th set bit of the bitmap takes the k-th dense value.
SpliceNulls(dense, bitmap) ==
  LET rank(i) == Cardinality({j \in 1 .. i : bitmap[j]})
  IN IF dense = Null \/ Len(dense) # rank(Len(bitmap)) THEN Null
     ELSE [i \in DOMAIN bitmap |-> IF bitmap[i] THEN dense[rank(i)] ELSE Null]

ReadChunks ==
  /\ ~state.refused /\ ~Writing
  /\ out = <<>>
  /\ out' = [i \in DOMAIN state.chunks |->
               SpliceNulls(DecodeDense(state.chunks[i]), state.chunks[i].bitmap)]
  /\ UNCHANGED <<job, state>>

Next == WriteChunk \/ RefuseNull \/ ReadChunks

Spec == Init /\ [][Next]_vars
-----------------------------------------------------------------------------
(* Whatever codecs the selector picks, and whatever widths PFOR settles    *)
(* on, the file gives back the values that were written, with their nulls  *)
(* in place; and each row group's zone map, and the segment's, are the     *)
(* least and the greatest of the values they cover, so that pruning by     *)
(* them is exact.                                                          *)
ColumnExact ==
  out # <<>> =>
    /\ out = job.groups
    /\ \A i \in DOMAIN job.groups :
         state.chunks[i].zone = Extrema(SelectSeq(job.groups[i], NonNull))
    /\ state.agg = Extrema(SelectSeq(FlattenSeq(job.groups), NonNull))
=============================================================================
