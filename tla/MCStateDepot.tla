---------------------------- MODULE MCStateDepot ----------------------------
(* StateDepot for TLC: two two-way branches, at the addresses 0 and 1, and *)
(* three interchangeable seeds.                                            *)
EXTENDS StateDepot, TLC

CONSTANTS s1, s2, s3

MCSeed == {s1, s2, s3}
MCAddr == {0, 1}
MCDest == {0, 1}
MCSuccMax == [a \in MCAddr |-> 2]
SeedSymmetry == Permutations(MCSeed)
=============================================================================
