----------------------------- MODULE MCSeedSync -----------------------------
(* SeedSync for TLC: a map of three bytes, one bit tracked in each.        *)
EXTENDS SeedSync

CONSTANT b1

MCBits == {b1}
=============================================================================
