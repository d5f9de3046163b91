----------------------------- MODULE CrackSeed -----------------------------
(***************************************************************************)
(* What HybridExecutor does to one candidate, between the pipes: crack the *)
(* seed at its addresses, parse the constraints out of the child's stderr  *)
(* (Synchronizer.dump_constraint), sample every one of them, then solve    *)
(* the seed.  The files a stage leaves behind are there in the next one.   *)
(***************************************************************************)
EXTENDS ConcolicExecutor, CrackTarget

CONSTANT Content            \* the bytes of every seed

ASSUME ContentAssumption == \A s \in Seed : Content[s] \in Seq(Byte)

VARIABLES
    pc, todo,               \* the stage, and the candidates not cracked yet
    crack_addr,             \* crack_list of the candidate
    src_bb, record_flag, express_list,
    constraint_dict,        \* constraints found, per address
    testcases               \* what crack_target or solve has returned

parseVars == <<src_bb, record_flag, express_list, constraint_dict>>
crackVars == <<concolicVars, targetVars, pc, todo, crack_addr, parseVars, testcases>>

NoConstraints == [a \in Idx |-> <<>>]

\* Types of the files (conolic.py:12-17) and of the locals of the pipeline.
CrackTypeOK ==
    /\ ConcolicTypeOK
    /\ sample_out \in SUBSET [id : Nat, bytes : UNION {[DOMAIN Content[s] -> Byte] : s \in Seed}]
    /\ sample_id \in Nat
    /\ step \in {"out", "solve", "sample", "save", "finally"}
    /\ pc \in {"next", "cracking", "parse", "constraints", "target", "sync", "solving", "list"}
    /\ todo \in SUBSET Seed
    /\ crack_addr \in SUBSET Idx
    /\ src_bb \in Idx
    /\ record_flag \in BOOLEAN
    /\ constraint_dict \in [Idx -> Seq(Constraint)]

CrackInit ==
    /\ ConcolicInit
    /\ TargetInit
    /\ pc = "next" /\ todo = Seed
    /\ crack_addr = {}
    /\ src_bb = 0 /\ record_flag = FALSE /\ express_list = <<>>
    /\ constraint_dict = NoConstraints
    /\ testcases = {}

CrackCandidate ==
    /\ pc = "next"
    /\ \E s \in todo, addrs \in (SUBSET Idx) \ {{}} :
           /\ Crack(s, addrs)
           /\ crack_addr' = addrs
           /\ todo' = todo \ {s}
    /\ pc' = "cracking"
    /\ testcases' = {}
    /\ UNCHANGED <<targetVars, parseVars>>

Child ==
    /\ ChildStep
    /\ pc' = IF child' = "running" THEN pc ELSE IF pc = "cracking" THEN "parse" ELSE "list"
    /\ UNCHANGED <<targetVars, todo, crack_addr, parseVars, testcases>>

(***************************************************************************)
(* dump_constraint: one line of the log.                                   *)
(***************************************************************************)
ParseStart(line) ==
    /\ line.kind = "start"
    /\ src_bb' = line.src
    /\ record_flag' = TRUE
    /\ UNCHANGED <<express_list, constraint_dict>>

BugParseExpress(line) ==
    /\ line.kind = "express"
    /\ express_list' = Append(express_list, line.clause)
    /\ UNCHANGED <<src_bb, record_flag, constraint_dict>>

ParseExpress(line) ==
    /\ line.kind = "express" /\ record_flag
    /\ express_list' = Append(express_list, line.clause)
    /\ UNCHANGED <<src_bb, record_flag, constraint_dict>>

BugParseEnd(line) ==
    /\ line.kind = "end" /\ record_flag
    /\ constraint_dict' = [constraint_dict EXCEPT ![src_bb] = Append(@, express_list)]
    /\ record_flag' = FALSE
    /\ UNCHANGED <<src_bb, express_list>>

ParseEnd(line) ==
    /\ line.kind = "end" /\ record_flag
    /\ constraint_dict' = [constraint_dict EXCEPT ![src_bb] = Append(@, express_list)]
    /\ express_list' = <<>>
    /\ record_flag' = FALSE
    /\ UNCHANGED src_bb

ParseOther(line) ==
    /\ line.kind = "other" \/ (line.kind # "start" /\ ~record_flag)
    /\ UNCHANGED parseVars

DumpConstraint ==
    /\ pc = "parse" /\ constraint_info # NoLines
    /\ LET line == Head(constraint_info)
       IN  ParseStart(line) \/ ParseExpress(line) \/ ParseEnd(line) \/ ParseOther(line)
    /\ constraint_info' = Tail(constraint_info)
    /\ UNCHANGED <<crackmap, cur_input, output_path, env, child, logged, targetVars,
                   pc, todo, crack_addr, testcases>>

ParseDone ==
    /\ pc = "parse" /\ constraint_info = NoLines
    /\ pc' = "constraints"
    /\ src_bb' = 0 /\ record_flag' = FALSE /\ express_list' = <<>>
    /\ UNCHANGED <<concolicVars, targetVars, todo, crack_addr, constraint_dict, testcases>>

(***************************************************************************)
(* The constraints one by one; their test cases are synced before the next *)
(* call empties the directory.                                             *)
(***************************************************************************)
NextConstraint ==
    /\ pc = "constraints"
    /\ \E a \in Idx :
           /\ constraint_dict[a] # <<>>
           /\ CallCrackTarget(Content[cur_input], Head(constraint_dict[a]))
           /\ constraint_dict' = [constraint_dict EXCEPT ![a] = Tail(@)]
    /\ pc' = "target"
    /\ UNCHANGED <<concolicVars, todo, crack_addr, src_bb, record_flag, express_list, testcases>>

Target ==
    /\ pc = "target"
    /\ TargetStep
    /\ UNCHANGED <<concolicVars, pc, todo, crack_addr, parseVars, testcases>>

TargetReturns ==
    /\ pc = "target"
    /\ Return
    /\ testcases' = sample_out
    /\ pc' = "sync"
    /\ UNCHANGED <<concolicVars, todo, crack_addr, parseVars>>

SyncSamples ==
    /\ pc = "sync"
    /\ testcases' = {}
    /\ Forget
    /\ pc' = "constraints"
    /\ UNCHANGED <<concolicVars, todo, crack_addr, parseVars>>

(***************************************************************************)
(* __solve_seed, of the same seed.                                         *)
(***************************************************************************)
SolveCandidate ==
    /\ pc = "constraints" /\ constraint_dict = NoConstraints
    /\ Solve(cur_input)
    /\ pc' = "solving"
    /\ UNCHANGED <<targetVars, todo, crack_addr, parseVars, testcases>>

ListSolutions ==
    /\ pc = "list"
    /\ testcases' = output_path
    /\ pc' = "next"
    /\ UNCHANGED <<concolicVars, targetVars, todo, crack_addr, parseVars>>

CrackNext ==
    \/ CrackCandidate \/ Child
    \/ DumpConstraint \/ ParseDone
    \/ NextConstraint \/ Target \/ TargetReturns \/ SyncSamples
    \/ SolveCandidate \/ ListSolutions

CrackSpec == CrackInit /\ [][CrackNext]_crackVars

-----------------------------------------------------------------------------
\* Nothing is sampled for an address the candidate was not to be cracked at
\* (conolic.py:25-31): the crack map of an earlier candidate has no effect.
ConstraintAtTarget ==
    \A a \in Idx : constraint_dict[a] # <<>> => a \in crack_addr

\* A constraint is parsed whole and for its own address or not at all, whatever the
\* program prints around it and wherever the child is killed (sync.py:44-62); and
\* all that the child printed whole are found.
ConstraintsMatchLog ==
    /\ \A a \in Idx : \A i \in DOMAIN constraint_dict[a] : <<a, constraint_dict[a][i]>> \in logged
    /\ pc = "parse" /\ constraint_info = NoLines =>
           \A l \in logged : \E i \in DOMAIN constraint_dict[l[1]] : constraint_dict[l[1]][i] = l[2]

Satisfies(bytes) == \A k \in Offsets : bytes[k + 1] \in Allowed(k)

\* The test cases synced for a constraint are mutants of this seed at the offsets of
\* this constraint: none is left from an earlier one, none builds on another.
MutantsOfSeed ==
    pc = "sync" =>
        \A t \in testcases :
            /\ DOMAIN t.bytes = DOMAIN Content[cur_input]
            /\ \A i \in DOMAIN t.bytes : i - 1 \notin Offsets => t.bytes[i] = Content[cur_input][i]

\* Whatever fails later, what the solver found is kept (sync.py:94, 116-120): if
\* a constraint yields test cases at all, one of them satisfies it.
SolutionKept ==
    pc = "sync" /\ testcases # {} => \E t \in testcases : Satisfies(t.bytes)

\* The test cases a solving run returns are of its own seed (conolic.py:47, 54).
SolutionsOfSeed ==
    pc = "next" => \A t \in testcases : t.seed = cur_input

\* sync.py:95 "Polyhedral Path Abstraction": the sampled polytope abstracts the
\* path, so for clauses on single bytes every sample satisfies the constraint.
SamplesInPath ==
    pc = "sync" => \A t \in testcases : Satisfies(t.bytes)
=============================================================================
