---------------------------- MODULE TraceRuntime ----------------------------
(***************************************************************************)
(* The tracing binary: trace-pass.so.cc gives every basic block an id and  *)
(* puts a call before every conditional branch and every switch; the calls *)
(* go to trace-rt.o.c, which prints on stderr where the program is about   *)
(* to jump.  The program owns that stderr too: what it prints may be no    *)
(* text at all, or may lack the newline that keeps it off the next line.   *)
(***************************************************************************)
EXTENDS FuzzConfig, Sequences

CONSTANTS
    Block, Entry,           \* basic blocks; Nowhere: the program is not running
    Nowhere,
    Term,                   \* terminators: [kind, succ, default]
    MAX_LINES               \* bound: lines a run prints

ASSUME RuntimeAssumption ==
    /\ Nowhere \notin Block
    /\ Entry \in Block
    /\ \A b \in Block : /\ Term[b].kind \in {"br", "switch", "jump", "exit"}
                        /\ Term[b].succ \in Seq(Block)
                        /\ Term[b].default \in Block
                        /\ Term[b].kind = "br" => Len(Term[b].succ) = 2
    /\ MAX_LINES \in Nat

VARIABLES
    block_id,               \* basicBlockMap
    block,                  \* the block being executed
    stack,                  \* case flags and ids on its stack (alloca at every switch)
    partial,                \* the program has printed an unfinished line
    trace_info              \* the lines on stderr not read yet

runtimeVars == <<block_id, block, stack, partial, trace_info>>

\* kind is the condition of a trace line, or "text" and "binary" for other lines.
Line == [kind : {"br", "switch", "text", "binary"}, case_num : Nat, src : Idx, dest : Idx]

RuntimeTypeOK ==
    /\ block_id \in [Block -> Idx]
    /\ block \in Block \cup {Nowhere}
    /\ stack \in Nat
    /\ partial \in {"none", "text", "binary"}
    /\ trace_info \in Seq(Line)

\* doInitialization draws the ids at random: blocks may share one, and 0 is one.
RuntimeInit ==
    /\ block_id \in [Block -> Idx]
    /\ block = Nowhere
    /\ stack = 0
    /\ partial = "none"
    /\ trace_info = <<>>

\* The terminators visitBranchInst and visitSwitchInst instrument; an unconditional
\* branch, or a switch on the result of a call, is a jump.
Instrumented == {b \in Block : Term[b].kind \in {"br", "switch"}}

Noise(kind) == [kind |-> kind, case_num |-> 0, src |-> 0, dest |-> 0]

\* fprintf: what the program left unfinished swallows the line.
Emit(line) ==
    /\ Len(trace_info) < MAX_LINES
    /\ trace_info' = Append(trace_info, IF partial = "none" THEN line ELSE Noise(partial))
    /\ partial' = "none"

LogBranch ==
    /\ block # Nowhere /\ Term[block].kind = "br"
    /\ \E succ \in {1, 2} :
           /\ block' = Term[block].succ[succ]
           /\ Emit([kind |-> "br", case_num |-> 0,
                    src |-> block_id[block], dest |-> block_id[block']])
    /\ UNCHANGED <<block_id, stack>>

BugDestLoc(case) == IF case = 0 THEN block_id[Term[block].default] ELSE case

\* __log_switch: the id of the case taken (0 when none is), where an id of 0 reads
\* as no case taken.
DestLoc(case) ==
    LET id == IF case = 0 THEN 0 ELSE block_id[Term[block].succ[case]]
    IN  IF id = 0 THEN block_id[Term[block].default] ELSE id

\* The switch takes room for its cases anew each time it is come to.
LogSwitch ==
    /\ block # Nowhere /\ Term[block].kind = "switch"
    /\ \E case \in 0 .. Len(Term[block].succ) :
           /\ block' = IF case = 0 THEN Term[block].default ELSE Term[block].succ[case]
           /\ Emit([kind |-> "switch", case_num |-> Len(Term[block].succ),
                    src |-> block_id[block], dest |-> DestLoc(case)])
    /\ stack' = stack + Len(Term[block].succ)
    /\ UNCHANGED block_id

Jump ==
    /\ block # Nowhere /\ Term[block].kind = "jump"
    /\ \E succ \in DOMAIN Term[block].succ : block' = Term[block].succ[succ]
    /\ UNCHANGED <<block_id, stack, partial, trace_info>>

\* The program prints something of its own, and may or may not end the line.
PrintPartial ==
    /\ block # Nowhere /\ partial = "none"
    /\ partial' \in {"text", "binary"}
    /\ UNCHANGED <<block_id, block, stack, trace_info>>

EndLine ==
    /\ block # Nowhere /\ partial # "none"
    /\ Emit(Noise(partial))
    /\ UNCHANGED <<block_id, block, stack>>

\* The program returns, or is ended by a signal wherever it is; splitlines takes
\* what is left of an unfinished line for a line.
Exit ==
    /\ block # Nowhere
    /\ block' = Nowhere
    /\ stack' = 0
    /\ partial' = "none"
    /\ trace_info' = IF partial = "none" THEN trace_info
                     ELSE Append(trace_info, Noise(partial))
    /\ UNCHANGED block_id

\* The jumps trace-pass.so.cc puts a call before.
LoggedJump == LogBranch \/ LogSwitch

Unlogged == Jump \/ PrintPartial \/ EndLine \/ Exit

RuntimeNext == LoggedJump \/ Unlogged
=============================================================================
