--------------------------- MODULE MCCheckedHeap ---------------------------
(* CheckedHeap for TLC: interchangeable addresses, strings of one and two  *)
(* bytes, and u32 scaled down to WORD.                                     *)
EXTENDS CheckedHeap, TLC

CONSTANTS p1, p2

MCPtr == {p1, p2}
MCText == {<<7>>, <<7, 7>>}
PtrSymmetry == Permutations(MCPtr)
=============================================================================
