--------------------------- MODULE HybridExecutor ---------------------------
(***************************************************************************)
(* executor.py, class HybridExecutor: the main loop, which traces AFL's    *)
(* new seeds, asks the depot for (address, seed) candidates, cracks and    *)
(* solves them with the concolic executor, syncs what comes out and trains *)
(* the depot's model; in one session, beside an AFL that keeps adding      *)
(* seeds and rewriting its bitmaps, and a user who may press Ctrl-C.       *)
(*                                                                         *)
(* Runs of the other programs are split in two where the fuzzer can move   *)
(* under them: the step that starts one and the step that reads its        *)
(* results.                                                                *)
(***************************************************************************)
EXTENDS StateDepot, SeedSync

CONSTANTS
    NoSeed,
    RAND_SOLVE_NUM,         \* config.py: seeds solved when there is no candidate
    MAX_CONSTRAINTS,        \* bound: constraints logged for an address by a crack
    MAX_TESTCASES           \* bound: test cases of a concolic run or of a sampling

ASSUME ExecutorAssumption ==
    /\ NoSeed \notin Seed
    /\ RAND_SOLVE_NUM \in Nat \ {0}
    /\ MAX_CONSTRAINTS \in Nat
    /\ MAX_TESTCASES \in Nat

VARIABLES
    afl_queue,              \* AFL's queue directory
    bb_written,             \* AFL has written its bb_bitmap, if only in part
    pc,                     \* where the main loop is
    phase,                  \* which caller __solve_seed returns to
    trace_list,             \* seeds left to trace
    candidate,              \* addresses to crack per seed, {}: not a key
    random_list,            \* seeds left to solve in __solve_random
    seed_input,             \* the seed being cracked or solved
    crack_addr,             \* the addresses it is cracked for
    constraint_dict,        \* constraints left to crack, per address
    addr,                   \* the address whose constraint is being cracked
    testcases,              \* test cases left to sync
    label_cov,              \* keys of label_cov
    interrupted             \* Ctrl-C was pressed

\* History: the pairs the concolic executor has been run on, in the session and
\* in this round.
VARIABLES ran, round

loopVars == <<trace_list, candidate, random_list, seed_input, crack_addr, phase>>
crackVars == <<constraint_dict, addr, testcases, label_cov>>
historyVars == <<ran, round>>
aflFiles == <<afl_queue, bb_written>>
execVars == <<depotVars, syncVars, aflFiles, pc, loopVars, crackVars, interrupted,
              historyVars>>

Running == {"seek", "trace", "select", "random", "next", "cracking", "constraints",
            "sampling", "sync_crack", "solving", "sync_solve"}

NoCandidate == [s \in Seed |-> {}]
NoConstraint == [a \in Addr |-> 0]

\* Types of the executor's state, with those of the depot and of the sync.
ExecTypeOK ==
    /\ DepotTypeOK
    /\ SyncTypeOK
    /\ afl_queue \in SUBSET Seed
    /\ bb_written \in BOOLEAN
    /\ pc \in Running \cup {"start", "failed_start", "dead", "done"}
    /\ phase \in {"crack", "random"}
    /\ trace_list \in SUBSET Seed
    /\ candidate \in [Seed -> SUBSET Addr]
    /\ random_list \in SUBSET Seed
    /\ seed_input \in Seed \cup {NoSeed}
    /\ crack_addr \in SUBSET Addr
    /\ constraint_dict \in [Addr -> 0 .. MAX_CONSTRAINTS]
    /\ addr \in Idx
    /\ testcases \in 0 .. MAX_TESTCASES
    /\ label_cov \in SUBSET Addr
    /\ interrupted \in BOOLEAN
    /\ ran \in SUBSET (Addr \X Seed)
    /\ round \in SUBSET (Addr \X Seed)

ExecInit ==
    /\ DepotInit
    /\ SyncInit
    /\ afl_queue = {}
    /\ bb_written = FALSE
    /\ pc = "start"
    /\ phase = "random"
    /\ trace_list = {}
    /\ candidate = NoCandidate
    /\ random_list = {}
    /\ seed_input = NoSeed
    /\ crack_addr = {}
    /\ constraint_dict = NoConstraint
    /\ addr = 0
    /\ testcases = 0
    /\ label_cov = {}
    /\ interrupted = FALSE
    /\ ran = {}
    /\ round = {}

-----------------------------------------------------------------------------
(***************************************************************************)
(* The environment.                                                        *)
(***************************************************************************)
AflAddSeed ==
    /\ \E s \in Seed \ afl_queue : afl_queue' = afl_queue \cup {s}
    /\ UNCHANGED <<depotVars, syncVars, bb_written, pc, loopVars, crackVars, interrupted,
                   historyVars>>

AflFirstHits ==
    /\ ~bb_written /\ bb_written' = TRUE
    /\ UNCHANGED <<depotVars, syncVars, afl_queue, pc, loopVars, crackVars, interrupted,
                   historyVars>>

AflRewrite ==
    /\ Afl
    /\ UNCHANGED <<depotVars, aflFiles, pc, loopVars, crackVars, interrupted, historyVars>>

(***************************************************************************)
(* Start and end of the session.                                           *)
(***************************************************************************)
Start ==
    /\ pc = "start"
    /\ \/ Startup /\ pc' = "seek"
       \/ StartupFails /\ pc' = "failed_start"
    /\ UNCHANGED <<depotVars, aflFiles, loopVars, crackVars, interrupted, historyVars>>

\* An exception nothing in the loop catches.
Die ==
    /\ pc' = "dead"
    /\ Stop
    /\ UNCHANGED <<depotVars, aflFiles, loopVars, crackVars, interrupted, historyVars>>

(***************************************************************************)
(* run(): trace the new seeds, read the hits, resolve the candidates.      *)
(***************************************************************************)
SeekTraceSeeds ==
    /\ pc = "seek"
    /\ trace_list' = afl_queue \ traced_seeds
    /\ MarkTraced(afl_queue)
    /\ pc' = "trace"
    /\ UNCHANGED <<syncVars, aflFiles, candidate, random_list, seed_input, crack_addr,
                   phase, crackVars, interrupted, historyVars>>

TraceSeed ==
    /\ pc = "trace"
    /\ \E s \in trace_list : \E path \in SUBSET (Addr \X Dest) :
           RecordTrace(s, path) /\ trace_list' = trace_list \ {s}
    /\ UNCHANGED <<syncVars, aflFiles, pc, candidate, random_list, seed_input,
                   crack_addr, phase, crackVars, interrupted, historyVars>>

\* resolve_fuzz_hits: the size read is MAP_SIZE, or less while AFL rewrites the file.
TracesDone == pc = "trace" /\ trace_list = {}

BbBitmap == {file \in HitsFile : file.exists = bb_written}

ReadHits ==
    /\ TracesDone
    /\ \E bb_bitmap \in BbBitmap : ResolveOk(bb_bitmap) /\ ResolveFuzzHits(bb_bitmap)
    /\ pc' = "select"
    /\ UNCHANGED <<syncVars, aflFiles, loopVars, crackVars, interrupted, historyVars>>

ReadHitsFails == TracesDone /\ (\E bb_bitmap \in BbBitmap : ~ResolveOk(bb_bitmap)) /\ Die

PredictFails == pc = "select" /\ ~PredictOk /\ Die

BugNewRound == round' = {} /\ UNCHANGED label_cov

NewRound == round' = {} /\ label_cov' = {}

\* A round starts from an empty label_cov; without a candidate it is random.
Select ==
    /\ pc = "select" /\ PredictOk
    /\ \E pick \in Selections :
           /\ ConcolicCandidate(pick)
           /\ candidate' = [s \in Seed |-> {a \in Addr : s \in pick[a]}]
    /\ phase' = IF candidate' = NoCandidate THEN "random" ELSE "crack"
    /\ pc' = IF candidate' = NoCandidate THEN "random" ELSE "next"
    /\ NewRound
    /\ UNCHANGED <<syncVars, aflFiles, trace_list, random_list, seed_input, crack_addr,
                   constraint_dict, addr, testcases, interrupted, ran>>

(***************************************************************************)
(* __solve_random: up to RAND_SOLVE_NUM unsolved seeds in the order of     *)
(* testcase_core, which is arbitrary here; none left, it waits.            *)
(***************************************************************************)
Unsolved == afl_queue \ solved_seeds

RandomChoices ==
    {list \in SUBSET Unsolved :
        \/ Cardinality(list) = RAND_SOLVE_NUM
        \/ list = Unsolved /\ Cardinality(list) <= RAND_SOLVE_NUM}

SolveRandom ==
    /\ pc = "random"
    /\ random_list' \in RandomChoices
    /\ pc' = IF Unsolved = {} THEN "seek" ELSE "next"
    /\ UNCHANGED <<depotVars, syncVars, aflFiles, trace_list, candidate, seed_input,
                   crack_addr, phase, crackVars, interrupted, historyVars>>

(***************************************************************************)
(* __crack_seed: run the concolic executor on the seed with the crack map  *)
(* of its addresses, refresh the bitmap, then sample every constraint.     *)
(***************************************************************************)
BugCrackKeepsCandidate(s) == candidate' = candidate

TakeCandidate(s) == candidate' = [candidate EXCEPT ![s] = {}]

StartCrack ==
    /\ pc = "next" /\ phase = "crack"
    /\ \E s \in Seed :
           /\ candidate[s] # {}
           /\ seed_input' = s
           /\ crack_addr' = candidate[s]
           /\ TakeCandidate(s)
    /\ pc' = "cracking"
    /\ UNCHANGED <<depotVars, syncVars, aflFiles, trace_list, random_list, phase,
                   crackVars, interrupted, historyVars>>

\* The concolic executor logs constraints at the addresses of the crack map only.
FinishCrack ==
    /\ pc = "cracking"
    /\ constraint_dict' \in
           {dict \in [Addr -> 0 .. MAX_CONSTRAINTS] :
               \A a \in Addr \ crack_addr : dict[a] = 0}
    /\ RefreshBitmap
    /\ ran' = ran \cup (crack_addr \X {seed_input})
    /\ round' = round \cup (crack_addr \X {seed_input})
    /\ pc' = "constraints"
    /\ UNCHANGED <<depotVars, aflFiles, loopVars, addr, testcases, label_cov, interrupted>>

\* crack_target: enter its try block with one constraint ...
StartSampling ==
    /\ pc = "constraints"
    /\ \E a \in Addr :
           /\ constraint_dict[a] > 0
           /\ constraint_dict' = [constraint_dict EXCEPT ![a] = @ - 1]
           /\ addr' = a
    /\ pc' = "sampling"
    /\ UNCHANGED <<depotVars, syncVars, aflFiles, loopVars, testcases, label_cov,
                   interrupted, historyVars>>

\* ... and leave it through finally, with the test cases made until then.
FinishSampling ==
    /\ pc = "sampling"
    /\ testcases' \in 0 .. MAX_TESTCASES
    /\ pc' = "sync_crack"
    /\ UNCHANGED <<depotVars, syncVars, aflFiles, loopVars, constraint_dict, addr,
                   label_cov, interrupted, historyVars>>

BugSyncCrack ==
    /\ pc = "sync_crack"
    /\ SyncTestcase
    /\ testcases' = testcases - 1
    /\ label_cov' = label_cov \cup {addr}
    /\ UNCHANGED <<depotVars, aflFiles, pc, loopVars, constraint_dict, addr,
                   interrupted, historyVars>>

\* cov_count, merged into label_cov when the seed is done, gets a key for every
\* test case synced, interesting or not.
SyncCrack ==
    /\ pc = "sync_crack" /\ testcases > 0
    /\ SyncTestcase
    /\ testcases' = testcases - 1
    /\ label_cov' = label_cov \cup {addr}
    /\ UNCHANGED <<depotVars, aflFiles, pc, loopVars, constraint_dict, addr,
                   interrupted, historyVars>>

NextConstraint ==
    /\ pc = "sync_crack" /\ testcases = 0
    /\ pc' = "constraints"
    /\ UNCHANGED <<depotVars, syncVars, aflFiles, loopVars, crackVars, interrupted,
                   historyVars>>

(***************************************************************************)
(* __solve_seed: skip a solved seed, else run the concolic executor on it, *)
(* refresh the bitmap, sync the results and mark the seed solved.          *)
(***************************************************************************)
SolveCracked ==
    /\ pc = "constraints" /\ constraint_dict = NoConstraint
    /\ pc' = IF seed_input \in solved_seeds THEN "next" ELSE "solving"
    /\ UNCHANGED <<depotVars, syncVars, aflFiles, loopVars, crackVars, interrupted,
                   historyVars>>

StartRandom ==
    /\ pc = "next" /\ phase = "random"
    /\ \E s \in random_list :
           /\ seed_input' = s
           /\ random_list' = random_list \ {s}
           /\ pc' = IF s \in solved_seeds THEN "next" ELSE "solving"
    /\ UNCHANGED <<depotVars, syncVars, aflFiles, trace_list, candidate, crack_addr,
                   phase, crackVars, interrupted, historyVars>>

FinishSolve ==
    /\ pc = "solving"
    /\ testcases' \in 0 .. MAX_TESTCASES
    /\ RefreshBitmap
    /\ pc' = "sync_solve"
    /\ UNCHANGED <<depotVars, aflFiles, loopVars, constraint_dict, addr, label_cov,
                   interrupted, historyVars>>

SyncSolve ==
    /\ pc = "sync_solve" /\ testcases > 0
    /\ SyncTestcase
    /\ testcases' = testcases - 1
    /\ UNCHANGED <<depotVars, aflFiles, pc, loopVars, constraint_dict, addr, label_cov,
                   interrupted, historyVars>>

BugSolvedForgotten == UNCHANGED depotVars

SolveDone == MarkSolved(seed_input)

EndSolve ==
    /\ pc = "sync_solve" /\ testcases = 0
    /\ SolveDone
    /\ pc' = "next"
    /\ UNCHANGED <<syncVars, aflFiles, loopVars, crackVars, interrupted, historyVars>>

(***************************************************************************)
(* The end of a round: update_model after a round of cracks.               *)
(***************************************************************************)
EndRandom ==
    /\ pc = "next" /\ phase = "random" /\ random_list = {}
    /\ pc' = "seek"
    /\ UNCHANGED <<depotVars, syncVars, aflFiles, loopVars, crackVars, interrupted,
                   historyVars>>

CracksDone == pc = "next" /\ phase = "crack" /\ candidate = NoCandidate

Learn ==
    /\ CracksDone /\ UpdateOk(label_cov)
    /\ UpdateModel(label_cov)
    /\ pc' = "seek"
    /\ UNCHANGED <<syncVars, aflFiles, loopVars, crackVars, interrupted, historyVars>>

LearnFails == CracksDone /\ ~UpdateOk(label_cov) /\ Die

(***************************************************************************)
(* Ctrl-C, pressed once.  main() catches it and ends the session, unless   *)
(* it arrives in crack_target: the return in its finally block discards    *)
(* the exception and the loop goes on with the test cases there are.       *)
(***************************************************************************)
Interrupt ==
    /\ pc \in Running /\ ~interrupted
    /\ interrupted' = TRUE
    /\ \/ /\ pc = "sampling"
          /\ testcases' \in 0 .. MAX_TESTCASES
          /\ pc' = "sync_crack"
          /\ UNCHANGED syncVars
       \/ /\ pc # "sampling"
          /\ pc' = "done"
          /\ Stop
          /\ UNCHANGED testcases
    /\ UNCHANGED <<depotVars, aflFiles, loopVars, constraint_dict, addr, label_cov,
                   historyVars>>

-----------------------------------------------------------------------------
Environment == AflAddSeed \/ AflFirstHits \/ AflRewrite \/ Interrupt

Cofuzz ==
    \/ Start
    \/ SeekTraceSeeds \/ TraceSeed \/ ReadHits \/ ReadHitsFails
    \/ PredictFails \/ Select
    \/ SolveRandom
    \/ StartCrack \/ FinishCrack
    \/ StartSampling \/ FinishSampling \/ SyncCrack \/ NextConstraint
    \/ SolveCracked \/ StartRandom \/ FinishSolve \/ SyncSolve \/ EndSolve
    \/ EndRandom \/ Learn \/ LearnFails

ExecNext == Cofuzz \/ Environment

ExecSpec == ExecInit /\ [][ExecNext]_execVars

\* Every child process ends (timeout, -t, the solver's own limit), so CoFuzz
\* moves on; AFL and the user owe it nothing.
FairExecSpec == ExecSpec /\ WF_execVars(Cofuzz)

-----------------------------------------------------------------------------
Cracking == pc \in {"next", "cracking", "constraints", "sampling", "sync_crack",
                    "solving", "sync_solve"} /\ phase = "crack"

Pending == {p \in Addr \X Seed : p[1] \in candidate[p[2]]}
InFlight == IF pc = "cracking" THEN crack_addr \X {seed_input} ELSE {}

\* A pair handed out by the depot is never lost and never run twice: it was run,
\* is being run or is still a candidate, one of the three (executor.py:149-153).
PairsAccounted ==
    pc \in Running =>
        /\ cracked_seed = ran \cup Pending \cup InFlight
        /\ ran \cap Pending = {}
        /\ ran \cap InFlight = {}
        /\ Pending \cap InFlight = {}

\* A round is credited with its own work only (executor.py:148-154): the model
\* learns from addresses cracked in this round, not from what an earlier round left
\* over, and test cases are counted for a pair that was run.
LabelsOfRound ==
    Cracking =>
        /\ \A a \in label_cov : \E s \in Seed : <<a, s>> \in round
        /\ pc \in {"sampling", "sync_crack"} => <<addr, seed_input>> \in round

\* The depot raises no exception but for what it is given (depot.py:36, 56-60,
\* 111-119): a bb_bitmap that AFL has not written yet, or only in part, or a missed
\* condition with a width of 0.  Never a KeyError, never a model not fitted.
DiesOnlyOfInput ==
    [][pc # "dead" /\ pc' = "dead" =>
          \/ pc = "trace" /\ ~bb_written
          \/ blk_len < MAP_SIZE
          \/ Missed \cap NoWidth # {}]_execVars

\* The composition keeps the depot's own protocol: every step of the main loop
\* is one of the depot's operations, with its precondition, or none.
DepotProtocol == DepotSpec

Stopped == pc \in {"failed_start", "dead", "done"}

\* Every seed AFL puts in its queue is eventually traced and solved, once AFL
\* stops adding seeds (run, __solve_random), unless the session ends.
EverySeedSolved ==
    \A s \in Seed : s \in afl_queue ~> Stopped \/ s \in solved_seeds \cap traced_seeds

\* Every pair handed out is eventually run, unless the session ends.
EveryPairRun ==
    \A p \in Addr \X Seed : p \in cracked_seed ~> Stopped \/ p \in ran

\* cofuzz.py:36-42: Ctrl-C ends the session.
InterruptStops == interrupted ~> Stopped

\* executor.py:144 "No candidate": a random round means that no missed edge has
\* a seed left to crack it with.
NoCandidateLeft ==
    pc = "random" => \A a \in Eligible : Fresh(a) = {}
=============================================================================
