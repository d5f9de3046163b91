---------------------------- MODULE MCCrackSeed ----------------------------
(* CrackSeed for TLC: two addresses, bytes of one bit, a seed of two bytes *)
(* and a shorter one, and two path constraints: a value of byte 0, and one *)
(* of two clauses that also fixes byte 1, which the shorter seed lacks.    *)
EXTENDS CrackSeed, TLC

CONSTANTS s1, s2

One(k, v) == [offset |-> k, values |-> {v}]
MCConstraint == {<<One(0, 1)>>, <<One(0, 0), One(1, 0)>>}
MCSeed == {s1, s2}
MCContent == s1 :> <<0, 1>> @@ s2 :> <<0>>
=============================================================================
