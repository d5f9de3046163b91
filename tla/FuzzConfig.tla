----------------------------- MODULE FuzzConfig -----------------------------
(***************************************************************************)
(* The size shared by AFL's coverage map, by its map of basic-block hits   *)
(* and by the crack map: config.py gives it once, and basic-block ids are  *)
(* drawn below it (AFL_R(MAP_SIZE) in trace-pass.so.cc).                   *)
(***************************************************************************)
EXTENDS Integers

CONSTANT MAP_SIZE

ASSUME MapSizeAssumption == MAP_SIZE \in Nat \ {0}

Idx == 0 .. MAP_SIZE - 1
=============================================================================
