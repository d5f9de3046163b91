---------------------------- MODULE CorpusTracer ----------------------------
(***************************************************************************)
(* trace.py and condition.py: the tracer runs the tracing binary on every  *)
(* new seed, waits for it to end and folds the lines it printed into the   *)
(* execution tree, a CondStmt for every address of a condition.            *)
(***************************************************************************)
EXTENDS TraceRuntime, FiniteSetsExt

CONSTANTS Seed, NoSeed

ASSUME TracerAssumption == NoSeed \notin Seed

VARIABLES
    cov_state,              \* the execution tree, NoStmt for an absent key
    started,                \* seeds given to the tracer so far
    seed_path,              \* the seed being traced
    line_cnt

\* History: the whole trace lines printed, with their numbers among the readable
\* lines of their run, and the jumps really made.
VARIABLES printed, taken

treeVars == <<cov_state, started, seed_path, line_cnt>>
tracerVars == <<runtimeVars, treeVars, printed, taken>>

NoStmt == [min_dist |-> 0, succ_max |-> 0, children |-> {}, belongs |-> {}]
CondStmt == [min_dist : Nat, succ_max : Nat, children : SUBSET Idx, belongs : SUBSET Seed]

\* Types of the execution tree (condition.py:53-62) and of the tracer's locals.
TracerTypeOK ==
    /\ RuntimeTypeOK
    /\ cov_state \in [Idx -> CondStmt]
    /\ started \in SUBSET Seed
    /\ seed_path \in Seed \cup {NoSeed}
    /\ line_cnt \in Nat
    /\ printed \in SUBSET [seed : Seed, line : Line, no : Nat]
    /\ taken \in SUBSET (Block \X Block)

TracerInit ==
    /\ RuntimeInit
    /\ cov_state = [a \in Idx |-> NoStmt]
    /\ started = {}
    /\ seed_path = NoSeed
    /\ line_cnt = 0
    /\ printed = {}
    /\ taken = {}

\* trace_corpus: the next seed; its process starts.
TraceSeed ==
    /\ seed_path = NoSeed
    /\ seed_path' \in Seed \ started
    /\ started' = started \cup {seed_path'}
    /\ line_cnt' = 0
    /\ block' = Entry
    /\ UNCHANGED <<block_id, stack, partial, trace_info, cov_state, printed, taken>>

IsTrace(line) == line.kind \in {"br", "switch"}

Readable(lines) == {i \in DOMAIN lines : lines[i].kind # "binary"}

Run ==
    /\ \/ LoggedJump /\ taken' = taken \cup {<<block, block'>>}
       \/ Unlogged /\ UNCHANGED taken
    /\ printed' = IF trace_info' # trace_info /\ IsTrace(trace_info'[Len(trace_info')])
                  THEN printed \cup {[seed |-> seed_path, line |-> trace_info'[Len(trace_info')],
                                      no |-> Cardinality(Readable(trace_info'))]}
                  ELSE printed
    /\ UNCHANGED treeVars

(***************************************************************************)
(* __dump_trace, once the process has ended: one line.                     *)
(***************************************************************************)
BugParseCondition(line) == line.case_num

\* BrCond has two successors, SwitchCond as many as the switch has cases.
ParseCondition(line) == IF line.kind = "br" THEN 2 ELSE line.case_num

BugStmtOf(line, n) ==
    [min_dist |-> n, succ_max |-> ParseCondition(line), children |-> {}, belongs |-> {}]

\* The key of the line's source, made when it is absent.
StmtOf(line, n) ==
    IF cov_state[line.src] = NoStmt
    THEN [min_dist |-> n, succ_max |-> ParseCondition(line), children |-> {}, belongs |-> {}]
    ELSE cov_state[line.src]

BugRecord(line, n) ==
    LET stmt == StmtOf(line, n)
    IN  [cov_state EXCEPT ![line.src] =
            [stmt EXCEPT !.children = @ \cup {line.dest},
                         !.belongs = @ \cup {seed_path},
                         !.min_dist = IF n > @ THEN n ELSE @]]

Record(line, n) ==
    LET stmt == StmtOf(line, n)
    IN  [cov_state EXCEPT ![line.src] =
            [stmt EXCEPT !.children = @ \cup {line.dest},
                         !.belongs = @ \cup {seed_path},
                         !.min_dist = IF n < @ THEN n ELSE @]]

BugRest(lines) == IF Head(lines).kind = "binary" THEN lines ELSE Tail(lines)

\* A line that is no text is passed over, as any other.
Rest(lines) == Tail(lines)

DumpLine ==
    /\ seed_path # NoSeed /\ block = Nowhere /\ trace_info # <<>>
    /\ LET line == Head(trace_info)
       IN  /\ line_cnt' = IF line.kind = "binary" THEN line_cnt ELSE line_cnt + 1
           /\ cov_state' = IF IsTrace(line) THEN Record(line, line_cnt') ELSE cov_state
    /\ trace_info' = Rest(trace_info)
    /\ UNCHANGED <<block_id, block, stack, partial, started, seed_path, printed, taken>>

TraceDone ==
    /\ seed_path # NoSeed /\ block = Nowhere /\ trace_info = <<>>
    /\ seed_path' = NoSeed
    /\ UNCHANGED <<runtimeVars, cov_state, started, line_cnt, printed, taken>>

TracerNext == TraceSeed \/ Run \/ DumpLine \/ TraceDone

TracerSpec == TracerInit /\ [][TracerNext]_tracerVars

\* Once a process has ended CoFuzz reads what it printed and goes on.
Reading == TraceSeed \/ DumpLine \/ TraceDone

\* The program under test ends on every seed.
EndsFair == TracerSpec /\ WF_tracerVars(Reading) /\ WF_tracerVars(Run /\ Exit)

-----------------------------------------------------------------------------
IsBranchCovered(a) == Cardinality(cov_state[a].children) >= cov_state[a].succ_max

Known == {a \in Idx : cov_state[a] # NoStmt}

\* No other condition has the id of b.
Unique(b) == \A c \in Instrumented \ {b} : block_id[c] # block_id[b]

CoveredMeansTaken(b) ==
    block_id[b] \in Known /\ IsBranchCovered(block_id[b]) =>
        \A succ \in {Term[b].succ[i] : i \in DOMAIN Term[b].succ} \cup
                        (IF Term[b].kind = "switch" THEN {Term[b].default} ELSE {}) :
            <<b, succ>> \in taken

\* A two-way branch is dropped from the missed edges (depot.py:42) only if the
\* traced seeds took both ways; ids shared by its successors, lines lost in the
\* program's output or cut by its death delay that, and never hasten it.
BranchCoverSound ==
    \A b \in Block : Term[b].kind = "br" /\ Unique(b) => CoveredMeansTaken(b)

\* The tree is what records say and nothing else: each has left its destination,
\* its seed and, if it is the nearest to the start of a run, its number.
TreeSays(records) ==
    \A a \in Idx :
        LET lines == {p \in records : p.line.src = a}
        IN  /\ a \in Known <=> lines # {}
            /\ cov_state[a].children = {p.line.dest : p \in lines}
            /\ cov_state[a].belongs = {p.seed : p \in lines}
            /\ a \in Known => /\ \E p \in lines : p.no = cov_state[a].min_dist
                              /\ \A p \in lines : cov_state[a].min_dist <= p.no

\* Between two seeds the tree is what the whole lines say, whatever came between
\* them (trace.py:17-39).
TreeMatchesTraces == seed_path = NoSeed => TreeSays(printed)

\* depot.py:86 "missed edges": a condition with an id of its own is dropped from
\* them only if all its destinations were taken, those of a switch included.
MissedEdgesKept ==
    \A b \in Instrumented : Unique(b) => CoveredMeansTaken(b)

\* clang-trace.c:26 "drop-in replacement for clang": a function takes no more stack
\* than it has switches, however often it loops (trace-pass.so.cc:195-196).
StackFixed ==
    stack <= MapThenSumSet(LAMBDA b : Len(Term[b].succ),
                           {b \in Block : Term[b].kind = "switch"})

\* "Trace new seeds" (trace.py:42): the tracer gets through all the seeds it is
\* given; it waits for each process without a timeout (trace.py:45-46).
EverySeedTraced == \A seed \in Seed : <>(seed \in started /\ seed_path = NoSeed)

(***************************************************************************)
(* The depot sees tracing as its two operations MarkTraced and RecordTrace.*)
(***************************************************************************)
Depot == INSTANCE StateDepot WITH
             Addr <- Idx, Dest <- Idx,
             SuccMax <- [a \in Idx |-> 2], NoWidth <- {},
             CANDIDATE_NUM <- 1, CRACK_SEED_MAX <- 1, CRACK_UPPER_LIMIT <- 1,
             children <- [a \in Idx |-> cov_state[a].children],
             belongs <- [a \in Idx |-> cov_state[a].belongs],
             traced_seeds <- started,
             blk_len <- MAP_SIZE, init_phase <- TRUE, fitted <- FALSE,
             solved_seeds <- {}, cracked_seed <- {},
             cracked_addr <- [a \in Idx |-> 0]

\* Every line of every run is recorded for a seed marked traced before, and the
\* tree changes in no other way (executor.py:47-48, trace.py:33-38).
RecordsTraces == Depot!DepotSpec
=============================================================================
