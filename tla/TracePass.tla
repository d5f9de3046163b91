----------------------------- MODULE TracePass -----------------------------
(***************************************************************************)
(* trace-pass.so.cc: the LLVM pass that gives every basic block an id and  *)
(* puts a call with the ids and the text of the condition before every     *)
(* conditional branch, and one with the ids before every switch.           *)
(*                                                                         *)
(* getBrCond calls itself for the operands of a condition: frames is its   *)
(* stack.  Blocks that other passes make after doInitialization, as the    *)
(* inliner does, are not in basicBlockMap.                                 *)
(***************************************************************************)
EXTENDS FuzzConfig, EdgeFeature, FiniteSets, SequencesExt

CONSTANTS
    Block,
    Order,                  \* the blocks in the order runOnModule visits them
    Term,                   \* terminators: [kind, cond, succ, default]
    Value,
    Def                     \* values: [op, n, width, fn, args, blocks]

Binary == {"or", "and", "xor"}
Op == Binary \cup {"phi", "icmp", "fcmp", "call", "constant", "other", "argument"}

ASSUME PassAssumption ==
    /\ IsFiniteSet(Value)
    /\ Order \in Seq(Block) /\ {Order[i] : i \in DOMAIN Order} = Block
    /\ \A i, j \in DOMAIN Order : Order[i] = Order[j] => i = j
    /\ \A b \in Block : /\ Term[b].kind \in {"br", "switch", "jump", "exit"}
                        /\ Term[b].kind \in {"br", "switch"} => Term[b].cond \in Value
                        /\ Term[b].succ \in Seq(Block)
                        /\ Term[b].default \in Block
                        /\ Term[b].kind = "br" => Len(Term[b].succ) = 2
    /\ \A v \in Value : /\ Def[v].op \in Op
                        /\ Def[v].n \in Nat
                        /\ Def[v].op = "icmp" => Def[v].width \in (Nat \ {0}) \cup {NoWidth}
                        /\ Def[v].fn \in Fn \cup {NoFn}
                        /\ Def[v].args \in Seq(Value)
                        /\ Def[v].op \in Binary \cup {"icmp"} => Len(Def[v].args) = 2
                        /\ Def[v].op = "phi" => /\ Def[v].blocks \in Seq(Block)
                                                /\ Len(Def[v].blocks) = Len(Def[v].args)

VARIABLES
    basicBlockMap,          \* ids of the blocks that have one
    at,                     \* the next block of Order
    frames,                 \* calls of getBrCond: the value, the operand that is next
    cond_info,              \* the text made so far
    calls                   \* the calls inserted, with the blocks known at the time

passVars == <<basicBlockMap, at, frames, cond_info, calls>>

Done == at > Len(Order)

Described == frames = <<>> /\ cond_info # <<>>

PassTypeOK ==
    /\ DOMAIN basicBlockMap \subseteq Block
    /\ \A b \in DOMAIN basicBlockMap : basicBlockMap[b] \in Idx
    /\ at \in 1 .. Len(Order) + 1
    /\ frames \in Seq([value : Value, next : Nat \ {0}])
    /\ \A i \in DOMAIN cond_info : cond_info[i].kind \in
           {"icmp", "fcmp", "strcmp", "phi", "in", "call", "constInst", "const", "none"}
    /\ Len(calls) < at

BugAFL_R(x) == 0 .. x

\* What a random number below x may be.
AFL_R(x) == 0 .. x - 1

\* doInitialization; ids are random and need not differ.
PassInit ==
    /\ \E known \in SUBSET Block : basicBlockMap \in [known -> AFL_R(MAP_SIZE)]
    /\ at = 1
    /\ frames = <<>> /\ cond_info = <<>>
    /\ calls = <<>>

-----------------------------------------------------------------------------
StringFn == {"strcmp", "strncmp", "memcmp"}

isStrcmp(v) == Def[v].op = "call" /\ Def[v].fn \in StringFn

BugComparesStrings(v) == Def[v].op = "icmp" /\ isStrcmp(Def[v].args[1])

ComparesStrings(v) == Def[v].op = "icmp" /\ \E i \in {1, 2} : isStrcmp(Def[v].args[i])

\* The values getBrCond calls itself for.
Operands(v) ==
    IF ComparesStrings(v) \/ Def[v].op \in Binary \cup {"phi"} THEN Def[v].args ELSE <<>>

\* The text of v before that of its operands; what joins the operands of || and the
\* like is layout.
Opening(v) ==
    CASE Def[v].op \in Binary -> <<>>
      [] Def[v].op = "phi" -> <<Bare("phi")>>
      [] ComparesStrings(v) -> <<Bare("strcmp")>>
      [] Def[v].op = "icmp" /\ ~ComparesStrings(v) ->
             <<Word("icmp", Def[v].n, Def[v].width, NoFn)>>
      [] Def[v].op = "fcmp" -> <<Word("fcmp", Def[v].n, NoWidth, NoFn)>>
      [] Def[v].op = "call" -> <<Word("call", 0, NoWidth, Def[v].fn)>>
      [] Def[v].op = "constant" -> <<Word("const", Def[v].n, NoWidth, NoFn)>>
      [] Def[v].op = "other" -> <<Bare("constInst")>>
      [] Def[v].op = "argument" -> <<Bare("none")>>

Frame(v) == [value |-> v, next |-> 1]

Top == frames[Len(frames)]

Pending == Top.next <= Len(Operands(Top.value))

Advanced == [frames EXCEPT ![Len(frames)].next = @ + 1]

BugWithBlocks(map, blocks) ==
    [b \in DOMAIN map \cup blocks |-> IF b \in blocks THEN at % MAP_SIZE ELSE map[b]]

\* operator[] of the map: a block that is not in it gets the id 0.
WithBlocks(map, blocks) ==
    [b \in DOMAIN map \cup blocks |-> IF b \in DOMAIN map THEN map[b] ELSE 0]

BB == Order[at]

Inserted(blocks, text) ==
    /\ basicBlockMap' = WithBlocks(basicBlockMap, {blocks[i] : i \in DOMAIN blocks})
    /\ calls' = Append(calls, [block |-> BB, text |-> text, known |-> basicBlockMap,
                               ids |-> [i \in DOMAIN blocks |->
                                            <<blocks[i], basicBlockMap'[blocks[i]]>>]])
    /\ at' = at + 1

\* visitBranchInst asks for the condition.
Condition ==
    /\ ~Done /\ frames = <<>> /\ cond_info = <<>>
    /\ Term[BB].kind = "br"
    /\ frames' = <<Frame(Term[BB].cond)>>
    /\ cond_info' = Opening(Term[BB].cond)
    /\ UNCHANGED <<basicBlockMap, at, calls>>

\* A PHI leaves out the incoming values of blocks without an id.
Unknown ==
    /\ Def[Top.value].op = "phi"
    /\ Def[Top.value].blocks[Top.next] \notin DOMAIN basicBlockMap

BugSkipOperand == UNCHANGED frames

SkipOperand == frames' = Advanced

Recurse ==
    /\ frames # <<>> /\ Pending
    /\ IF Unknown THEN SkipOperand /\ UNCHANGED cond_info
       ELSE LET v == Operands(Top.value)[Top.next]
            IN  /\ frames' = Append(Advanced, Frame(v))
                /\ cond_info' = cond_info
                       \o (IF Def[Top.value].op # "phi" THEN <<>>
                           ELSE <<Word("in", basicBlockMap[Def[Top.value].blocks[Top.next]],
                                       NoWidth, NoFn)>>)
                       \o Opening(v)
    /\ UNCHANGED <<basicBlockMap, at, calls>>

Return ==
    /\ frames # <<>> /\ ~Pending
    /\ frames' = Front(frames)
    /\ UNCHANGED <<basicBlockMap, at, cond_info, calls>>

\* The rest of visitBranchInst.
LogBranch ==
    /\ Described
    /\ Inserted(<<BB>> \o Term[BB].succ, cond_info)
    /\ cond_info' = <<>>
    /\ UNCHANGED frames

\* visitSwitchInst; a switch on what a call returns is left alone.
visitSwitchInst ==
    /\ ~Done /\ Term[BB].kind = "switch" /\ Def[Term[BB].cond].op # "call"
    /\ Inserted(<<BB, Term[BB].default>> \o Term[BB].succ, <<>>)
    /\ UNCHANGED <<frames, cond_info>>

BugPassesOver(b) == Term[b].kind # "br"

PassesOver(b) ==
    \/ Term[b].kind \in {"jump", "exit"}
    \/ Term[b].kind = "switch" /\ Def[Term[b].cond].op = "call"

NextBlock ==
    /\ ~Done /\ PassesOver(BB)
    /\ at' = at + 1
    /\ UNCHANGED <<basicBlockMap, frames, cond_info, calls>>

PassNext == Condition \/ Recurse \/ Return \/ LogBranch \/ visitSwitchInst \/ NextBlock

PassSpec == PassInit /\ [][PassNext]_passVars /\ WF_passVars(PassNext)

(***************************************************************************)
(* Properties.                                                             *)
(***************************************************************************)

\* The tracing binary knows a block by one id: all the calls agree on it, the
\* blocks included that get theirs when they are first looked up (lines 175-207).
IdsAgree ==
    \A i, j \in DOMAIN calls :
        \A k \in DOMAIN calls[i].ids, l \in DOMAIN calls[j].ids :
            calls[i].ids[k][1] = calls[j].ids[l][1] => calls[i].ids[k] = calls[j].ids[l]

\* Each conditional branch and each switch on something else than a call has one
\* call, in the order of the blocks, when the pass is done (lines 244-258).
Instrumented(b) ==
    \/ Term[b].kind = "br"
    \/ Term[b].kind = "switch" /\ Def[Term[b].cond].op # "call"

Before(b, c) == \E i, j \in DOMAIN Order : i < j /\ Order[i] = b /\ Order[j] = c

AllInstrumented ==
    Done => /\ {calls[i].block : i \in DOMAIN calls} = {b \in Block : Instrumented(b)}
            /\ \A i, j \in DOMAIN calls : i < j => Before(calls[i].block, calls[j].block)

\* What a condition is, said without a stack: the text of its operands in order,
\* those of a PHI with the ids of the blocks that have one.
TextStep(known, text, v) ==
    LET args == Def[v].args
        branch(i) ==
            IF Def[v].blocks[i] \notin DOMAIN known THEN <<>>
            ELSE <<Word("in", known[Def[v].blocks[i]], NoWidth, NoFn)>> \o text[args[i]]
    IN  IF Def[v].op = "phi"
        THEN <<Bare("phi")>> \o FlattenSeq([i \in DOMAIN args |-> branch(i)])
        ELSE IF Def[v].op \in Binary THEN text[args[1]] \o text[args[2]]
        ELSE IF Def[v].op = "icmp" /\ (isStrcmp(args[1]) \/ isStrcmp(args[2]))
        THEN <<Bare("strcmp")>> \o text[args[1]] \o text[args[2]]
        ELSE Opening(v)

TextOf(known) ==
    LET text[v \in Value] == TextStep(known, text, v)
    IN  text

\* A condition is logged whole and in order, however deep and shared its operands
\* are (lines 77-157).
TextRight ==
    \A i \in DOMAIN calls :
        Term[calls[i].block].kind = "br" =>
            calls[i].text = TextOf(calls[i].known)[Term[calls[i].block].cond]

\* The values a condition is made of.
WithOperands(S) == S \cup UNION {{Operands(u)[i] : i \in DOMAIN Operands(u)} : u \in S}

Parts(v) ==
    LET parts[n \in Nat] == IF n = 0 THEN {v} ELSE WithOperands(parts[n - 1])
    IN  parts[Cardinality(Value)]

\* The types a part may give a condition, as edge_enum means them.
TypesOf(v) ==
    CASE Def[v].op \in {"icmp", "fcmp"} -> {Def[v].n}
      [] Def[v].op = "call" -> IF Def[v].fn = "strcmp" THEN {42}
                               ELSE IF Def[v].fn = "strncmp" THEN {43}
                               ELSE IF Def[v].fn = "memcmp" THEN {44} ELSE {46}
      [] Def[v].op = "phi" -> {45}
      [] Def[v].op = "other" -> {47}
      [] OTHER -> {0}

\* The type condition.py reads from a text is the type of a part of that condition
\* (condition.py:26-35), and the width the width of an integer compare of it, never
\* one that log2 cannot take (condition.py:37-43).
FeaturesReal ==
    \A i \in DOMAIN calls :
        Term[calls[i].block].kind = "br" =>
            LET parts == Parts(Term[calls[i].block].cond)
                widths == {Def[v].width : v \in {u \in parts : Def[u].op = "icmp"}}
            IN  /\ EdgeType(calls[i].text) \in UNION {TypesOf(v) : v \in parts}
                /\ CondWidth(calls[i].text) \in (widths \cup {NoWidth}) \ {0}

\* What the theorems about the texts ask of a module: no name but a string function's
\* has a keyword or a width in it, and no condition is made of itself, a rank going
\* down from every value to its operands.
PlainNames ==
    /\ \A fn \in Fn : Keywords[fn].words = StringFn \cap {fn} /\ Keywords[fn].width = NoWidth
    /\ NoFn \notin StringFn

Ranked(rank) ==
    /\ rank \in [Value -> 0 .. Cardinality(Value)]
    /\ \A v \in Value : \A i \in DOMAIN Operands(v) : rank[Operands(v)[i]] < rank[v]

\* clang-trace.c:26 "drop-in replacement for clang": the pass never asks for a value
\* it is describing already, which it would do for ever.
NoReentry ==
    \A i, j \in DOMAIN frames : frames[i].value = frames[j].value => i = j

\* The pass gets to the end of every module whose conditions are not made of
\* themselves (lines 77-157, 244-258).
PassEnds == <>Done
=============================================================================
