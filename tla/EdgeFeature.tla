---------------------------- MODULE EdgeFeature ----------------------------
(***************************************************************************)
(* condition.py: the features BrCond reads from the text trace-pass.so.cc  *)
(* gives a condition.  The text is the sequence of the words the readers   *)
(* tell apart: a compare with its predicate and width, a call with the     *)
(* name called, a phi with its incoming blocks, an instruction of another  *)
(* kind, a constant.  A name is known by the keywords and the width that   *)
(* occur in it.                                                            *)
(***************************************************************************)
EXTENDS Integers, Sequences

CONSTANTS
    Fn, NoFn,               \* names of called functions; NoFn: through a pointer
    Keywords                \* the words of edge_enum, and the width if any, in a name

\* edge_enum: the words looked for, in this order, numbered from 42.
EdgeEnum == <<"strcmp", "strncmp", "memcmp", "phi", "call@", "constInst">>

NoWidth == -1

ASSUME FeatureAssumption ==
    /\ NoFn \notin Fn
    /\ Keywords \in [Fn -> [words : SUBSET {"strcmp", "strncmp", "memcmp", "phi", "constInst"},
                           width : Nat \cup {NoWidth}]]

Word(kind, n, width, fn) == [kind |-> kind, n |-> n, width |-> width, fn |-> fn]

Bare(kind) == Word(kind, 0, NoWidth, NoFn)

\* word occurs in the text of w.
Occurs(word, w) ==
    \/ word = "phi" /\ w.kind = "phi"
    \/ word = "call@" /\ w.kind = "call"
    \/ word = "constInst" /\ w.kind = "constInst"
    \/ w.kind = "call" /\ w.fn # NoFn /\ word \in Keywords[w.fn].words

Least(indices) == CHOOSE i \in indices : \A j \in indices : i <= j

Compares(text) == {i \in DOMAIN text : text[i].kind \in {"icmp", "fcmp"}}

Found(text) == {i \in DOMAIN EdgeEnum : \E k \in DOMAIN text : Occurs(EdgeEnum[i], text[k])}

BugEdgeType(text) ==
    IF Compares(text) # {} THEN text[Least(Compares(text))].n
    ELSE IF Found(text) # {} THEN 42 + Least(Found(text))
    ELSE 0

\* __parse_edge_type: the first predicate, or else the first word of edge_enum.
EdgeType(text) ==
    IF Compares(text) # {} THEN text[Least(Compares(text))].n
    ELSE IF Found(text) # {} THEN 41 + Least(Found(text))
    ELSE 0

WidthOf(w) == IF w.kind = "call" /\ w.fn # NoFn THEN Keywords[w.fn].width ELSE w.width

\* __parse_cond_width: the first width in the text; np.log2 of it, truncated.
CondWidth(text) ==
    LET widths == {i \in DOMAIN text : WidthOf(text[i]) # NoWidth}
    IN  IF widths = {} THEN NoWidth ELSE WidthOf(text[Least(widths)])
=============================================================================
