------------------------------ MODULE RangeSet ------------------------------
(***************************************************************************)
(* core/ranges.rs: half-open byte ranges and the normalized set of them    *)
(* that every other component counts progress with.                        *)
(*                                                                         *)
(* The state is the vector of ranges and the cached number of covered      *)
(* bytes; insert and remove find the affected slice with partition_point   *)
(* and splice a replacement in.  Offsets are naturals: the code's offsets  *)
(* are u64 and no operation here leaves the interval of its arguments.     *)
(***************************************************************************)
EXTENDS Integers, Sequences, FiniteSets, SequencesExt

CONSTANT MaxByte        \* ranges lie within [0, MaxByte)

ASSUME MaxByteAssumption == MaxByte \in Nat \ {0}

VARIABLES ranges,       \* Vec<ByteRange>, each <<start, end>>
          covered       \* cached sum of the lengths

vars == <<ranges, covered>>

Start(r) == r[1]
End(r) == r[2]
Length(r) == End(r) - Start(r)
BytesOf(r) == Start(r) .. End(r) - 1

ByteRanges == {r \in (0 .. MaxByte) \X (0 .. MaxByte) : Start(r) <= End(r)}

LengthSum(rs) == FoldSeq(LAMBDA r, acc : acc + Length(r), 0, rs)

(***************************************************************************)
(* partition_point(pred): the number of leading elements with pred, which  *)
(* is where the binary search ends on a vector that pred partitions.       *)
(***************************************************************************)
PartitionPoint(rs, Pred(_)) ==
  CHOOSE i \in 0 .. Len(rs) :
    /\ \A k \in 1 .. i : Pred(rs[k])
    /\ i < Len(rs) => ~Pred(rs[i + 1])

\* ranges.splice(lo..hi, new): positions lo+1 .. hi give way to new.
Splice(rs, lo, hi, new) == SubSeq(rs, 1, lo) \o new \o SubSeq(rs, hi + 1, Len(rs))

-----------------------------------------------------------------------------
(***************************************************************************)
(* insert: the ranges that overlap or touch r become one.                  *)
(***************************************************************************)
FirstTouching(rs, r) == PartitionPoint(rs, LAMBDA x : End(x) < Start(r))

AfterTouching(rs, r) == PartitionPoint(rs, LAMBDA x : Start(x) <= End(r))

\* Mutant of CoveredAfter: the bytes of the replaced ranges stay counted.
CoveredWithoutReplaced(cov, replaced, new) == cov + LengthSum(new)

\* The cached byte count after `replaced` gave way to `new`.
CoveredAfter(cov, replaced, new) == cov - LengthSum(replaced) + LengthSum(new)

InsertInto(set, r) ==
  LET rs == set.ranges
      lo == FirstTouching(rs, r)
      hi == AfterTouching(rs, r)
      merged == IF lo = hi
                THEN r
                ELSE <<Min({Start(r), Start(rs[lo + 1])}), Max({End(r), End(rs[hi])})>>
  IN  IF Start(r) >= End(r)
      THEN set
      ELSE [ranges  |-> Splice(rs, lo, hi, <<merged>>),
            covered |-> CoveredAfter(set.covered, SubSeq(rs, lo + 1, hi), <<merged>>)]

InsertRange(r) ==
  LET set == InsertInto([ranges |-> ranges, covered |-> covered], r)
  IN  ranges' = set.ranges /\ covered' = set.covered

(***************************************************************************)
(* remove: the ranges that overlap r give way to at most two trimmed ends. *)
(***************************************************************************)
\* Mutant of Remnants: a removal in the middle of a range drops its left part.
RightRemnant(first, last, r) ==
  IF End(last) > End(r) THEN <<(<<End(r), End(last)>>)>> ELSE <<>>

Remnants(first, last, r) ==
  (IF Start(first) < Start(r) THEN <<(<<Start(first), Start(r)>>)>> ELSE <<>>)
  \o (IF End(last) > End(r) THEN <<(<<End(r), End(last)>>)>> ELSE <<>>)

RemoveRange(r) ==
  LET lo == PartitionPoint(ranges, LAMBDA x : End(x) <= Start(r))
      hi == PartitionPoint(ranges, LAMBDA x : Start(x) < End(r))
      rest == Remnants(ranges[lo + 1], ranges[hi], r)
  IN  /\ Start(r) < End(r)
      /\ lo < hi
      /\ ranges' = Splice(ranges, lo, hi, rest)
      /\ covered' = CoveredAfter(covered, SubSeq(ranges, lo + 1, hi), rest)

-----------------------------------------------------------------------------
(***************************************************************************)
(* Queries.  Option<ByteRange> is a set of at most one range.              *)
(***************************************************************************)
ContainsRange(rs, r) ==
  LET i == PartitionPoint(rs, LAMBDA x : End(x) <= Start(r))
  IN  \/ Start(r) >= End(r)
      \/ i < Len(rs) /\ Start(rs[i + 1]) <= Start(r) /\ End(rs[i + 1]) >= End(r)

FirstGap(rs, from, limit) ==
  LET i == PartitionPoint(rs, LAMBDA x : End(x) <= from)
      nextStart == IF i + 2 <= Len(rs) THEN Min({Start(rs[i + 2]), limit}) ELSE limit
  IN  CASE from >= limit -> {}
        [] from < limit /\ i = Len(rs) -> {<<from, limit>>}
        [] from < limit /\ i < Len(rs) /\ Start(rs[i + 1]) > from ->
             {<<from, Min({Start(rs[i + 1]), limit})>>}
        [] OTHER -> IF End(rs[i + 1]) >= limit THEN {} ELSE {<<End(rs[i + 1]), nextStart>>}

\* gaps(limit): before each range that starts below limit, and after the last.
Gaps(rs, limit) ==
  LET below == {k \in 1 .. Len(rs) : Start(rs[k]) < limit}
      curBefore(k) == IF k = 1 THEN 0 ELSE End(rs[k - 1])
      cur == IF below = {} THEN 0 ELSE End(rs[Max(below)])
  IN  {<<curBefore(k), Start(rs[k])>> : k \in {j \in below : Start(rs[j]) > curBefore(j)}}
      \cup (IF cur < limit THEN {<<cur, limit>>} ELSE {})

IsComplete(rs, total) ==
  \/ Len(rs) = 1 /\ Start(rs[1]) = 0 /\ End(rs[1]) >= total
  \/ Len(rs) = 0 /\ total = 0

ContiguousPrefix(rs) == IF rs # <<>> /\ Start(rs[1]) = 0 THEN End(rs[1]) ELSE 0

EmptySet == [ranges |-> <<>>, covered |-> 0]

\* Mutant of FromRanges: the stored ranges are adopted as they come.
Adopted(raw) == [ranges |-> raw, covered |-> LengthSum(raw)]

\* from_ranges, union_with and Deserialize: inserted one by one.
FromRanges(raw) == FoldLeft(LAMBDA set, r : InsertInto(set, r), EmptySet, raw)

-----------------------------------------------------------------------------
Init == ranges = <<>> /\ covered = 0

Next ==
  \/ \E r \in ByteRanges : InsertRange(r)
  \/ \E r \in ByteRanges : RemoveRange(r)

Spec == Init /\ [][Next]_vars

-----------------------------------------------------------------------------
(***************************************************************************)
(* Properties.                                                             *)
(***************************************************************************)
Denotes(rs) == UNION {BytesOf(rs[i]) : i \in 1 .. Len(rs)}

\* What assert_normalized (ranges.rs) asserts after any sequence of inserts and
\* removes: ranges of this file, no empty one, strictly increasing, never two
\* adjacent; and the counter that insert and remove update incrementally never
\* drifts from the number of bytes in the set ("covered counter drifted").
Normalized ==
  /\ ranges \in Seq(ByteRanges)
  /\ \A i \in 1 .. Len(ranges) : Length(ranges[i]) > 0
  /\ \A i \in 1 .. Len(ranges) - 1 : End(ranges[i]) < Start(ranges[i + 1])
  /\ covered = Cardinality(Denotes(ranges))

\* insert and remove implement a plain set of offsets, each with its own argument:
\* the abstraction the other modules use for completed, claimed and durable bytes.
Bytes == INSTANCE ByteSet WITH bytes <- Denotes(ranges)

ImplementsByteSet ==
  /\ Bytes!Spec
  /\ [][\A r \in ByteRanges :
         /\ InsertRange(r) => Bytes!Add(Start(r), End(r))
         /\ RemoveRange(r) => Bytes!Drop(Start(r), End(r))]_vars

\* The queries agree with the byte set: first_gap returns the maximal uncovered
\* run at or after `from`, gaps all of them, contains_range is inclusion,
\* contiguous_prefix the longest covered run from 0, and is_complete neither says
\* yes while a byte of [0, total) is missing nor no of a set that is just full.
\* A set written to the journal and read back, in order or reversed, is the same
\* set: Deserialize rebuilds through insert and cannot be left unnormalized.
QueriesExact ==
  LET has == Denotes(ranges)
      gap(f, l) == {r \in ByteRanges :
                      /\ Start(r) >= f /\ Start(r) < End(r) /\ End(r) <= l
                      /\ BytesOf(r) \cap has = {}
                      /\ f .. (Start(r) - 1) \subseteq has
                      /\ End(r) = l \/ End(r) \in has}
      prefix == ContiguousPrefix(ranges)
      set == [ranges |-> ranges, covered |-> covered]
  IN  /\ \A f, l \in 0 .. MaxByte : FirstGap(ranges, f, l) = gap(f, l)
      /\ \A l \in 0 .. MaxByte : UNION {BytesOf(g) : g \in Gaps(ranges, l)} = (0 .. l - 1) \ has
      /\ \A r \in ByteRanges : ContainsRange(ranges, r) <=> BytesOf(r) \subseteq has
      /\ 0 .. prefix - 1 \subseteq has /\ prefix \notin has
      /\ \A t \in 0 .. MaxByte : /\ IsComplete(ranges, t) => 0 .. t - 1 \subseteq has
                                 /\ has = 0 .. t - 1 => IsComplete(ranges, t)
      /\ FromRanges(ranges) = set /\ FromRanges(Reverse(ranges) \o ranges) = set
=============================================================================
