-------------------------- MODULE MCHybridExecutor --------------------------
(* HybridExecutor for TLC: two-way branches, with two seeds that differ    *)
(* only by name, and a map with one bit tracked per byte.                  *)
EXTENDS HybridExecutor, TLC

CONSTANTS s1, s2, b1

MCSeed == {s1, s2}
MCBits == {b1}
OneAddr == {0}
TwoAddr == {0, 1}
OneSucc == [a \in OneAddr |-> 2]
TwoSucc == [a \in TwoAddr |-> 2]
SeedSymmetry == Permutations(MCSeed)
=============================================================================
