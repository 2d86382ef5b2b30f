------------------------------- MODULE ByteSet -------------------------------
(***************************************************************************)
(* What core/ranges.rs promises: a mutable set of byte offsets.  A caller  *)
(* of RangeSet sees only these operations; how the set is stored is the    *)
(* business of module RangeSet, which is shown to implement this one.      *)
(***************************************************************************)
EXTENDS Naturals

CONSTANT MaxByte        \* offsets are 0 .. MaxByte - 1

VARIABLE bytes          \* the offsets in the set

Offsets == 0 .. MaxByte - 1

Init == bytes = {}

Add(lo, hi) == bytes' = bytes \cup (lo .. hi - 1)

Drop(lo, hi) == bytes' = bytes \ (lo .. hi - 1)

Next == \E lo, hi \in 0 .. MaxByte : lo <= hi /\ (Add(lo, hi) \/ Drop(lo, hi))

Spec == Init /\ [][Next]_bytes
=============================================================================
