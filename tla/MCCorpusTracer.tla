--------------------------- MODULE MCCorpusTracer ---------------------------
(* CorpusTracer for TLC: loops of a branch and of a switch of two cases,   *)
(*     e: if .. goto s else goto e                                         *)
(*     s: switch .. { case: goto x; case: goto e; default: goto y }        *)
(*     y: goto e        x: return                                          *)
(* with every assignment of ids, and two interchangeable seeds.            *)
EXTENDS CorpusTracer, TLC

CONSTANTS e, s, x, y, s1, s2

MCBlock == {e, s, x, y}
MCTerm ==
    e :> [kind |-> "br", succ |-> <<s, e>>, default |-> x] @@
    s :> [kind |-> "switch", succ |-> <<x, e>>, default |-> y] @@
    y :> [kind |-> "jump", succ |-> <<e>>, default |-> e] @@
    x :> [kind |-> "exit", succ |-> <<>>, default |-> x]
MCSeed == {s1, s2}
SeedSymmetry == Permutations(MCSeed)
=============================================================================
