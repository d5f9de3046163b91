---------------------------- MODULE MCTracePass ----------------------------
(* TracePass for TLC: a function with every kind of condition,             *)
(*     a: if (x < 3 && (p || strcmp(s, t) == 0)) ..   a phi of b, c and d  *)
(*     b: if (check() ^ f > g) ..                                          *)
(*     c: switch (x) ..            d: switch (strlen(s)) ..                *)
(* each block known to the pass or not; and a loop,                        *)
(*     while (strcmp(s, t) != n) if (c) { g(); n++; }                      *)
(* in which the values of n at the two ends of the body are phis of each   *)
(* other.                                                                  *)
EXTENDS TracePass

CONSTANTS a, b, c, d, Sample

MCBlock == {a, b, c, d}
MCOrder == <<a, b, c, d>>
MCFn == {"strcmp", "check"}
\* In the third sample check is called something like graphics_i0.
MCKeywords ==
    [fn \in MCFn |-> CASE fn = "strcmp" -> [words |-> {"strcmp"}, width |-> NoWidth]
                       [] Sample = "name" -> [words |-> {"phi"}, width |-> 0]
                       [] OTHER -> [words |-> {}, width |-> NoWidth]]

Make(op, n, width, fn, args, blocks) ==
    [op |-> op, n |-> n, width |-> width, fn |-> fn, args |-> args, blocks |-> blocks]

Leaf(op, n) == Make(op, n, 0, NoFn, <<>>, <<>>)

MCValue == {"cond", "guard", "str", "less", "call", "zero", "arg", "both", "check", "fcmp",
            "int", "n0", "n1", "inc", "loop"}

\* The loop's n0 and n1 are made of each other only in the second sample.
MCDef ==
    [v \in MCValue |->
        CASE v = "cond"  -> Make("phi", 0, 0, NoFn, <<"less", "guard", "zero">>, <<b, c, d>>)
          [] v = "guard" -> Make("or", 0, 0, NoFn, <<"arg", "str">>, <<>>)
          [] v = "str"   -> Make("icmp", 32, 32, NoFn, <<"zero", "call">>, <<>>)
          [] v = "less"  -> Make("icmp", 40, 32, NoFn, <<"int", "zero">>, <<>>)
          [] v = "call"  -> Make("call", 0, 0, "strcmp", <<>>, <<>>)
          [] v = "both"  -> Make("xor", 0, 0, NoFn, <<"check", "fcmp">>, <<>>)
          [] v = "check" -> Make("call", 0, 0, "check", <<>>, <<>>)
          [] v = "fcmp"  -> Leaf("fcmp", 2)
          [] v = "zero"  -> Leaf("constant", 0)
          [] v = "arg"   -> Leaf("argument", 0)
          [] v \in {"int", "inc"} -> Leaf("other", 0)
          [] v = "n0"    -> Make("phi", 0, 0, NoFn, <<"zero", "n1">>, <<a, d>>)
          [] v = "n1"    -> Make("phi", 0, 0, NoFn,
                                 <<"inc", IF Sample = "loop" THEN "n0" ELSE "zero">>, <<c, b>>)
          [] v = "loop"  -> Make("icmp", 33, 32, NoFn, <<"call", "n0">>, <<>>)]

MCTerm ==
    [x \in MCBlock |->
        CASE x = a -> [kind |-> "br", succ |-> <<b, c>>, default |-> a,
                       cond |-> IF Sample = "loop" THEN "loop" ELSE "cond"]
          [] x = b -> [kind |-> "br", succ |-> <<c, d>>, default |-> a,
                       cond |-> CASE Sample = "all" -> "both"
                                  [] Sample = "name" -> "check"
                                  [] Sample = "loop" -> "less"]
          [] x = c -> [kind |-> "switch", succ |-> <<d, a>>, default |-> b, cond |-> "int"]
          [] x = d -> [kind |-> "switch", succ |-> <<a>>, default |-> b, cond |-> "check"]]

\* The hypotheses of the theorems about the texts hold where they should.
MCRank ==
    [v \in MCValue |-> CASE v \in {"str", "both", "n1"} -> 1
                         [] v \in {"guard", "n0"} -> 2
                         [] v \in {"cond", "loop"} -> 3
                         [] OTHER -> 0]

ASSUME RankAssumption == Sample # "loop" => Ranked(MCRank)

ASSUME NamesAssumption == PlainNames <=> Sample # "name"
=============================================================================
