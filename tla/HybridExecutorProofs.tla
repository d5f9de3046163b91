------------------------ MODULE HybridExecutorProofs ------------------------
(***************************************************************************)
(* The main loop for any seeds, branches, limits and map size: it uses the *)
(* depot and the seed sync as their own specifications allow, so that what *)
(* is proved of them holds in it; and its own invariants.                  *)
(***************************************************************************)
EXTENDS HybridExecutor, SeedSyncProofs, StateDepotProofs

(***************************************************************************)
(* The inductive invariant, in the order in which its parts build on each  *)
(* other.                                                                  *)
(***************************************************************************)
LocalsOK ==
    /\ afl_queue \in SUBSET Seed
    /\ bb_written \in BOOLEAN
    /\ pc \in Running \cup {"start", "failed_start", "dead", "done"}
    /\ phase \in {"crack", "random"}
    /\ trace_list \in SUBSET Seed
    /\ candidate \in [Seed -> SUBSET Addr]
    /\ random_list \in SUBSET Seed
    /\ seed_input \in Seed \cup {NoSeed}
    /\ crack_addr \in SUBSET Addr
    /\ constraint_dict \in [Addr -> 0 .. MAX_CONSTRAINTS]
    /\ addr \in Idx
    /\ testcases \in 0 .. MAX_TESTCASES
    /\ label_cov \in SUBSET Addr
    /\ interrupted \in BOOLEAN
    /\ ran \in SUBSET (Addr \X Seed)
    /\ round \in SUBSET (Addr \X Seed)

InCrack == {"cracking", "constraints", "sampling", "sync_crack"}
InSolve == {"solving", "sync_solve"}

\* A seed is traced after it was marked, and a run of the concolic executor has
\* a seed; only the crack phase cracks, an address of the program.
SeedsGiven ==
    /\ trace_list \subseteq traced_seeds
    /\ pc \in InCrack \cup InSolve => seed_input \in Seed
    /\ pc \in InCrack => phase = "crack"
    /\ pc = "random" => phase = "random"
    /\ pc \in {"sampling", "sync_crack"} => addr \in Addr

\* Outside a crack round there are no candidates.
NoneIdle ==
    phase = "random" \/ pc \in {"start", "seek", "trace", "select", "random"} =>
        candidate = NoCandidate

\* PairsAccounted, from the first state on.
Accounted ==
    pc \in Running \cup {"start"} =>
        /\ cracked_seed = ran \cup Pending \cup InFlight
        /\ ran \cap Pending = {}
        /\ ran \cap InFlight = {}
        /\ Pending \cap InFlight = {}

\* Everything a crack round deals with is missed until the round is over, since
\* nothing is traced before.
OnTarget ==
    /\ Cracking => label_cov \subseteq Missed
    /\ Cracking => \A s \in Seed : candidate[s] \subseteq Missed
    /\ pc \in InCrack => crack_addr \subseteq Missed
    /\ pc \in {"constraints", "sampling", "sync_crack"} =>
           \A a \in Addr : constraint_dict[a] > 0 => a \in crack_addr
    /\ pc \in {"sampling", "sync_crack"} => addr \in crack_addr

\* What a round labels it has cracked, and the pairs in work are among those run.
OwnWork ==
    /\ Cracking => \A a \in label_cov : \E s \in Seed : <<a, s>> \in round
    /\ pc \in {"constraints", "sampling", "sync_crack"} => crack_addr \X {seed_input} \subseteq round

\* The model has been fitted when it is first asked.
FittedInTime == ~init_phase => fitted

ExecInv ==
    /\ ExecTypeOK
    /\ DepotInv
    /\ SeedsGiven
    /\ NoneIdle
    /\ Accounted
    /\ OnTarget
    /\ OwnWork
    /\ FittedInTime

\* The type invariant is those of the depot, the seed sync and the loop's own variables.
LEMMA ExecTypeSplit == ExecTypeOK <=> DepotTypeOK /\ SyncTypeOK /\ LocalsOK
  BY DEF ExecTypeOK, LocalsOK

(***************************************************************************)
(* Every step is one of the depot and one of the seed sync, or none.       *)
(***************************************************************************)
LEMMA DepotStep ==
  ASSUME LocalsOK, SeedsGiven, [ExecNext]_execVars
  PROVE  [DepotNext]_depotVars
<1>1. CASE SeekTraceSeeds
  BY <1>1 DEF SeekTraceSeeds, DepotNext, LocalsOK
<1>2. CASE TraceSeed
  BY <1>2 DEF TraceSeed, DepotNext, SeedsGiven
<1>3. CASE ReadHits
  BY <1>3 DEF ReadHits, BbBitmap, DepotNext
<1>4. CASE Select
  BY <1>4 DEF Select, DepotNext
<1>5. CASE EndSolve
  BY <1>5 DEF EndSolve, SolveDone, DepotNext, SeedsGiven, InSolve
<1>6. CASE Learn
  <2>1. UpdateOk(label_cov) /\ UpdateModel(label_cov) /\ label_cov \in SUBSET Known
    BY <1>6 DEF Learn, UpdateOk, LocalsOK
  <2> QED
    BY <2>1 DEF DepotNext
<1>7. CASE UNCHANGED depotVars
  BY <1>7
<1>8. CASE Environment
  BY <1>8, <1>7 DEF Environment, AflAddSeed, AflFirstHits, AflRewrite, Interrupt
<1>9. CASE Start \/ ReadHitsFails \/ PredictFails \/ SolveRandom \/ StartCrack \/ FinishCrack
           \/ StartSampling \/ FinishSampling \/ SyncCrack \/ NextConstraint
  BY <1>9, <1>7 DEF Start, ReadHitsFails, PredictFails, Die, SolveRandom, StartCrack, FinishCrack,
                    StartSampling, FinishSampling, SyncCrack, NextConstraint
<1>10. CASE SolveCracked \/ StartRandom \/ FinishSolve \/ SyncSolve \/ EndRandom \/ LearnFails
  BY <1>10, <1>7 DEF SolveCracked, StartRandom, FinishSolve, SyncSolve, EndRandom,
                     LearnFails, Die
<1>11. CASE UNCHANGED execVars
  BY <1>11, <1>7 DEF execVars
<1> QED
  BY <1>1, <1>2, <1>3, <1>4, <1>5, <1>6, <1>8, <1>9, <1>10, <1>11 DEF ExecNext, Cofuzz

\* Every step of the loop is one of the seed sync or leaves it alone.
LEMMA SyncStep == [ExecNext]_execVars => [SyncNext]_syncVars
<1> SUFFICES ASSUME [ExecNext]_execVars PROVE [SyncNext]_syncVars
  OBVIOUS
<1>1. CASE Start
  BY <1>1 DEF Start, SyncNext
<1>2. CASE ReadHitsFails \/ PredictFails \/ LearnFails
  BY <1>2 DEF ReadHitsFails, PredictFails, LearnFails, Die, SyncNext
<1>3. CASE FinishCrack \/ FinishSolve
  BY <1>3 DEF FinishCrack, FinishSolve, SyncNext
<1>4. CASE SyncCrack \/ SyncSolve
  BY <1>4 DEF SyncCrack, SyncSolve, SyncNext
<1>5. CASE AflRewrite \/ Interrupt
  BY <1>5 DEF AflRewrite, Interrupt, SyncNext
<1>6. CASE SeekTraceSeeds \/ TraceSeed \/ ReadHits \/ Select \/ SolveRandom \/ StartCrack
           \/ StartSampling \/ FinishSampling \/ NextConstraint
  BY <1>6 DEF SeekTraceSeeds, TraceSeed, ReadHits, Select, SolveRandom, StartCrack,
              StartSampling, FinishSampling, NextConstraint
<1>7. CASE SolveCracked \/ StartRandom \/ EndSolve \/ EndRandom \/ Learn \/ AflAddSeed
           \/ AflFirstHits
  BY <1>7 DEF SolveCracked, StartRandom, EndSolve, EndRandom, Learn, AflAddSeed, AflFirstHits
<1>8. CASE UNCHANGED execVars
  BY <1>8 DEF execVars
<1> QED
  BY <1>1, <1>2, <1>3, <1>4, <1>5, <1>6, <1>7, <1>8 DEF ExecNext, Cofuzz, Environment

(***************************************************************************)
(* Types of the loop's own variables, and the seeds they stand for.        *)
(***************************************************************************)
LEMMA ExecInitInv == ExecInit => ExecInv
<1> SUFFICES ASSUME ExecInit PROVE ExecInv
  OBVIOUS
<1> USE DEF ExecInit
<1>1. DepotInv /\ DepotTypeOK /\ SyncTypeOK
  BY DepotInitInv, TypeInit DEF DepotInv
<1>2. LocalsOK
  <2>1. 0 \in Idx /\ 0 \in 0 .. MAX_CONSTRAINTS /\ 0 \in 0 .. MAX_TESTCASES
    BY MapSizeAssumption, ExecutorAssumption DEF Idx
  <2>2. NoCandidate \in [Seed -> SUBSET Addr] /\ NoConstraint \in [Addr -> 0 .. MAX_CONSTRAINTS]
    BY <2>1 DEF NoCandidate, NoConstraint
  <2> QED
    BY <2>1, <2>2 DEF LocalsOK
<1>3. SeedsGiven
  BY DEF SeedsGiven, InCrack, InSolve
<1>4. NoneIdle
  BY DEF NoneIdle
<1>5. Accounted
  BY DEF Accounted, Pending, InFlight, NoCandidate, DepotInit
<1>6. OnTarget
  BY DEF OnTarget, Cracking, InCrack
<1>7. OwnWork /\ FittedInTime
  BY DEF OwnWork, Cracking, FittedInTime, DepotInit
<1> QED
  BY <1>1, <1>2, <1>3, <1>4, <1>5, <1>6, <1>7, ExecTypeSplit DEF ExecInv

\* Every step keeps the types of the loop's variables and who has which seed.
LEMMA LocalsStep ==
  ASSUME LocalsOK, SeedsGiven, DepotTypeOK, [ExecNext]_execVars
  PROVE  LocalsOK' /\ SeedsGiven'
<1> USE DEF LocalsOK, SeedsGiven, InCrack, InSolve, Running, aflFiles
<1>1. CASE Start
  BY <1>1 DEF Start, depotVars, loopVars, crackVars, historyVars
<1>2. CASE ReadHitsFails \/ PredictFails \/ LearnFails
  BY <1>2 DEF ReadHitsFails, PredictFails, LearnFails, Die, depotVars, loopVars, crackVars,
              historyVars
<1>3. CASE SeekTraceSeeds
  BY <1>3 DEF SeekTraceSeeds, MarkTraced, crackVars, historyVars
<1>4. CASE TraceSeed
  BY <1>4 DEF TraceSeed, RecordTrace, crackVars, historyVars
<1>5. CASE ReadHits
  BY <1>5 DEF ReadHits, ResolveFuzzHits, loopVars, crackVars, historyVars
<1>6. CASE Select
  <2>1. candidate' \in [Seed -> SUBSET Addr]
    BY <1>6 DEF Select
  <2> QED
    BY <1>6, <2>1 DEF Select, NewRound, ConcolicCandidate
<1>7. CASE SolveRandom
  BY <1>7 DEF SolveRandom, RandomChoices, Unsolved, depotVars, crackVars, historyVars
<1>8. CASE StartCrack
  BY <1>8 DEF StartCrack, TakeCandidate, depotVars, crackVars, historyVars
<1>9. CASE FinishCrack
  BY <1>9 DEF FinishCrack, depotVars, loopVars
<1>10. CASE StartSampling
  <2>1. PICK a \in Addr : /\ constraint_dict[a] > 0
                          /\ constraint_dict' = [constraint_dict EXCEPT ![a] = @ - 1]
                          /\ addr' = a
    BY <1>10 DEF StartSampling
  <2>2. constraint_dict[a] - 1 \in 0 .. MAX_CONSTRAINTS
    <3>1. constraint_dict[a] \in 0 .. MAX_CONSTRAINTS
      BY DEF LocalsOK
    <3> QED
      BY <2>1, <3>1, ExecutorAssumption
  <2>3. constraint_dict' \in [Addr -> 0 .. MAX_CONSTRAINTS] /\ addr' \in Idx
    BY <2>1, <2>2, DepotAssumption
  <2> QED
    BY <1>10, <2>3 DEF StartSampling, depotVars, loopVars, historyVars
<1>11. CASE FinishSampling
  BY <1>11 DEF FinishSampling, depotVars, loopVars, historyVars
<1>12. CASE SyncCrack
  <2>1. testcases' \in 0 .. MAX_TESTCASES
    BY <1>12, ExecutorAssumption DEF SyncCrack
  <2>2. label_cov' \in SUBSET Addr
    BY <1>12 DEF SyncCrack
  <2> QED
    BY <1>12, <2>1, <2>2 DEF SyncCrack, depotVars, loopVars, historyVars
<1>13. CASE NextConstraint \/ SolveCracked \/ EndRandom
  BY <1>13 DEF NextConstraint, SolveCracked, EndRandom, depotVars, loopVars, crackVars, historyVars
<1>14. CASE StartRandom
  BY <1>14 DEF StartRandom, depotVars, crackVars, historyVars
<1>15. CASE FinishSolve
  BY <1>15 DEF FinishSolve, depotVars, loopVars, historyVars
<1>16. CASE SyncSolve
  <2>1. testcases' \in 0 .. MAX_TESTCASES
    BY <1>16, ExecutorAssumption DEF SyncSolve
  <2> QED
    BY <1>16, <2>1 DEF SyncSolve, depotVars, loopVars, historyVars
<1>17. CASE EndSolve
  BY <1>17 DEF EndSolve, SolveDone, MarkSolved, loopVars, crackVars, historyVars
<1>18. CASE Learn
  BY <1>18 DEF Learn, UpdateModel, loopVars, crackVars, historyVars
<1>19. CASE AflAddSeed \/ AflFirstHits
  BY <1>19 DEF AflAddSeed, AflFirstHits, depotVars, loopVars, crackVars, historyVars
<1>20. CASE AflRewrite
  BY <1>20 DEF AflRewrite, depotVars, loopVars, crackVars, historyVars
<1>21. CASE Interrupt
  BY <1>21 DEF Interrupt, depotVars, loopVars, historyVars
<1>22. CASE UNCHANGED execVars
  BY <1>22 DEF execVars, depotVars, loopVars, crackVars, historyVars
<1> QED
  BY <1>1, <1>2, <1>3, <1>4, <1>5, <1>6, <1>7, <1>8, <1>9, <1>10, <1>11, <1>12, <1>13,
     <1>14, <1>15, <1>16, <1>17, <1>18, <1>19, <1>20, <1>21, <1>22
     DEF ExecNext, Cofuzz, Environment

(***************************************************************************)
(* Pairs.                                                                  *)
(***************************************************************************)
\* A step that touches no pair and no concolic run that cracks.
Quiet ==
    /\ UNCHANGED <<cracked_seed, ran, candidate>>
    /\ pc \in (Running \cup {"start"}) \ {"cracking"}
    /\ pc' # "cracking"

\* A step that touches no candidate and no run leaves the account of pairs as it is.
LEMMA QuietPairs ==
  ASSUME Accounted, Quiet
  PROVE  Accounted'
<1>1. Pending' = Pending
  BY DEF Quiet, Pending
<1>2. InFlight' = {} /\ InFlight = {}
  BY DEF Quiet, InFlight
<1> QED
  BY <1>1, <1>2 DEF Accounted, Quiet

\* The pairs handed out were not cracked before, and none was waiting: all wait now.
LEMMA SelectPairs ==
  ASSUME DepotTypeOK, NoneIdle, Accounted, Select
  PROVE  Accounted'
<1>1. PICK pick \in Selections :
          /\ ConcolicCandidate(pick)
          /\ candidate' = [s \in Seed |-> {a \in Addr : s \in pick[a]}]
  BY DEF Select
<1> DEFINE new == {p \in Addr \X Seed : p[2] \in pick[p[1]]}
<1>2. Pending = {}
  BY DEF Select, NoneIdle, Pending, NoCandidate
<1>3. InFlight = {} /\ InFlight' = {}
  BY DEF Select, InFlight
<1>4. cracked_seed = ran
  BY <1>2, <1>3 DEF Accounted, Select, Running
<1>5. cracked_seed' = cracked_seed \cup new /\ ran' = ran
  BY <1>1 DEF ConcolicCandidate, HandOut, Select
<1>6. Pending' = new
  BY <1>1 DEF Pending
<1>7. cracked_seed \cap new = {}
  <2>1. \A a \in Addr : pick[a] \subseteq Fresh(a)
    BY <1>1, SelectionBound
  <2> QED
    BY <2>1 DEF Fresh
<1> QED
  BY <1>3, <1>4, <1>5, <1>6, <1>7 DEF Accounted

\* The pairs of the seed taken go from waiting to being run.
LEMMA StartCrackPairs ==
  ASSUME LocalsOK, Accounted, StartCrack
  PROVE  Accounted'
<1>1. PICK s \in Seed : /\ candidate[s] # {}
                        /\ seed_input' = s
                        /\ crack_addr' = candidate[s]
                        /\ candidate' = [candidate EXCEPT ![s] = {}]
  BY DEF StartCrack, TakeCandidate
<1> DEFINE taken == candidate[s] \X {s}
<1>2. InFlight = {} /\ InFlight' = taken
  BY <1>1 DEF StartCrack, InFlight
<1>3. Pending = Pending' \cup taken /\ Pending' \cap taken = {}
  <2>1. ASSUME NEW p \in Pending PROVE p \in Pending' \cup taken
    BY <1>1 DEF Pending, LocalsOK
  <2>2. ASSUME NEW p \in Pending' PROVE p \in Pending /\ p \notin taken
    BY <1>1 DEF Pending, LocalsOK
  <2>3. taken \subseteq Pending
    BY <1>1 DEF Pending, LocalsOK
  <2> QED
    BY <2>1, <2>2, <2>3
<1>4. UNCHANGED <<cracked_seed, ran>> /\ pc \in Running
  BY DEF StartCrack, depotVars, historyVars, Running
<1> QED
  BY <1>2, <1>3, <1>4 DEF Accounted

\* Every step keeps the account of pairs.
LEMMA PairsStep ==
  ASSUME LocalsOK, DepotTypeOK, SeedsGiven, NoneIdle, Accounted, [ExecNext]_execVars
  PROVE  NoneIdle' /\ Accounted'
<1> USE DEF NoneIdle, SeedsGiven, InCrack, InSolve, Running
<1>1. CASE Start
  BY <1>1, QuietPairs DEF Start, Quiet, depotVars, loopVars, crackVars, historyVars
<1>2. CASE ReadHitsFails \/ PredictFails \/ LearnFails
  BY <1>2 DEF ReadHitsFails, PredictFails, LearnFails, Die, Accounted, loopVars
<1>3. CASE SeekTraceSeeds
  BY <1>3, QuietPairs DEF SeekTraceSeeds, MarkTraced, Quiet, historyVars
<1>4. CASE TraceSeed
  BY <1>4, QuietPairs DEF TraceSeed, RecordTrace, Quiet, historyVars
<1>5. CASE ReadHits
  BY <1>5, QuietPairs DEF ReadHits, TracesDone, ResolveFuzzHits, Quiet, loopVars, historyVars
<1>6. CASE Select
  BY <1>6, SelectPairs DEF Select
<1>7. CASE SolveRandom
  BY <1>7, QuietPairs DEF SolveRandom, Quiet, depotVars, historyVars
<1>8. CASE StartCrack
  BY <1>8, StartCrackPairs DEF StartCrack, depotVars
<1>9. CASE FinishCrack
  <2>1. Pending' = Pending
    BY <1>9 DEF FinishCrack, loopVars, Pending
  <2>2. InFlight' = {} /\ InFlight = crack_addr \X {seed_input} /\ ran' = ran \cup InFlight
    BY <1>9 DEF FinishCrack, InFlight
  <2> QED
    BY <1>9, <2>1, <2>2 DEF FinishCrack, Accounted, depotVars, loopVars
<1>10. CASE StartSampling \/ FinishSampling
  BY <1>10, QuietPairs DEF StartSampling, FinishSampling, Quiet, depotVars, loopVars, historyVars
<1>11. CASE SyncCrack \/ NextConstraint
  BY <1>11, QuietPairs DEF SyncCrack, NextConstraint, Quiet, depotVars, loopVars, crackVars,
                          historyVars
<1>12. CASE SolveCracked \/ EndRandom
  BY <1>12, QuietPairs DEF SolveCracked, EndRandom, Quiet, depotVars, loopVars, crackVars,
                          historyVars
<1>13. CASE StartRandom
  BY <1>13, QuietPairs DEF StartRandom, Quiet, depotVars, historyVars
<1>14. CASE FinishSolve
  BY <1>14, QuietPairs DEF FinishSolve, Quiet, depotVars, loopVars, historyVars
<1>15. CASE SyncSolve
  BY <1>15, QuietPairs DEF SyncSolve, Quiet, depotVars, loopVars, historyVars
<1>16. CASE EndSolve
  BY <1>16, QuietPairs DEF EndSolve, SolveDone, MarkSolved, Quiet, loopVars, historyVars
<1>17. CASE Learn
  BY <1>17, QuietPairs DEF Learn, CracksDone, UpdateModel, Quiet, loopVars, historyVars
<1>18. CASE AflAddSeed \/ AflFirstHits \/ AflRewrite \/ UNCHANGED execVars
  BY <1>18 DEF AflAddSeed, AflFirstHits, AflRewrite, execVars, depotVars, loopVars, historyVars,
               Accounted, Pending, InFlight
<1>19. CASE Interrupt
  <2>1. CASE pc = "sampling"
    BY <1>19, <2>1, QuietPairs DEF Interrupt, Quiet, depotVars, loopVars, historyVars
  <2>2. CASE pc # "sampling"
    BY <1>19, <2>2 DEF Interrupt, Accounted, loopVars
  <2> QED
    BY <2>1, <2>2
<1> QED
  BY <1>1, <1>2, <1>3, <1>4, <1>5, <1>6, <1>7, <1>8, <1>9, <1>10, <1>11, <1>12, <1>13,
     <1>14, <1>15, <1>16, <1>17, <1>18, <1>19
     DEF ExecNext, Cofuzz, Environment

(***************************************************************************)
(* Targets.                                                                *)
(***************************************************************************)
LEMMA MissedKept ==
  ASSUME UNCHANGED <<children, belongs>>
  PROVE  Missed' = Missed
  BY DEF Missed, Known, IsBranchCovered

\* The depot hands out missed addresses only.
LEMMA SelectTargets ==
  ASSUME DepotTypeOK, Select
  PROVE  OnTarget'
<1>1. PICK pick \in Selections :
          /\ ConcolicCandidate(pick)
          /\ candidate' = [s \in Seed |-> {a \in Addr : s \in pick[a]}]
  BY DEF Select
<1>2. Missed' = Missed
  BY <1>1, MissedKept DEF ConcolicCandidate
<1>3. \A s \in Seed : candidate'[s] \subseteq Missed
  <2> SUFFICES ASSUME NEW s \in Seed, NEW a \in Addr, s \in pick[a]
               PROVE  a \in Missed
    BY <1>1
  <2>1. a \in Eligible
    BY SelectionBound
  <2> QED
    BY <2>1 DEF Eligible
<1>4. label_cov' = {} /\ pc' \in {"random", "next"}
  BY DEF Select, NewRound
<1> QED
  BY <1>2, <1>3, <1>4 DEF OnTarget, InCrack

\* A step inside a crack round that touches nothing of OnTarget but pc, and
\* reaches no stage that promises more.
Steady ==
    /\ UNCHANGED <<children, belongs, label_cov, candidate, crack_addr, constraint_dict, addr>>
    /\ Cracking' => Cracking
    /\ pc' \in InCrack => pc \in InCrack
    /\ pc' \in {"constraints", "sampling", "sync_crack"}
           => pc \in {"constraints", "sampling", "sync_crack"}
    /\ pc' \in {"sampling", "sync_crack"} => pc \in {"sampling", "sync_crack"}

\* As long as the tree stands still and nothing new is dealt with, targets stay missed.
LEMMA SteadyTargets ==
  ASSUME OnTarget, Steady
  PROVE  OnTarget'
<1>1. Missed' = Missed
  BY MissedKept DEF Steady
<1> QED
  BY <1>1 DEF OnTarget, Steady

\* A step that ends outside a crack round.
LEMMA IdleTargets ==
  ASSUME ~Cracking', pc' \notin InCrack
  PROVE  OnTarget'
  BY DEF OnTarget, InCrack

\* The addresses cracked are candidates, which are missed.
LEMMA StartCrackTargets ==
  ASSUME LocalsOK, OnTarget, StartCrack
  PROVE  OnTarget'
<1>1. PICK s \in Seed : /\ crack_addr' = candidate[s]
                        /\ candidate' = [candidate EXCEPT ![s] = {}]
  BY DEF StartCrack, TakeCandidate
<1>2. Missed' = Missed
  BY MissedKept DEF StartCrack, depotVars
<1>3. \A t \in Seed : candidate'[t] \subseteq candidate[t]
  BY <1>1 DEF LocalsOK
<1>4. Cracking
  BY DEF StartCrack, Cracking
<1> QED
  BY <1>1, <1>2, <1>3, <1>4 DEF OnTarget, StartCrack, crackVars, InCrack

\* Every step keeps what a round deals with missed.
LEMMA TargetStep ==
  ASSUME LocalsOK, DepotTypeOK, SeedsGiven, OnTarget, [ExecNext]_execVars
  PROVE  OnTarget'
<1> USE DEF SeedsGiven, InCrack, InSolve, Cracking
<1>1. CASE Start \/ ReadHitsFails \/ PredictFails \/ LearnFails
  BY <1>1, IdleTargets DEF Start, ReadHitsFails, PredictFails, LearnFails, Die
<1>2. CASE SeekTraceSeeds \/ TraceSeed \/ ReadHits
  BY <1>2, IdleTargets DEF SeekTraceSeeds, TraceSeed, ReadHits
<1>3. CASE Select
  BY <1>3, SelectTargets
<1>4. CASE SolveRandom
  <2>1. CASE pc' = "seek"
    BY <2>1, IdleTargets
  <2>2. CASE pc' = "next"
    BY <1>4, <2>2, IdleTargets DEF SolveRandom
  <2> QED
    BY <1>4, <2>1, <2>2 DEF SolveRandom
<1>5. CASE StartCrack
  BY <1>5, StartCrackTargets
<1>6. CASE FinishCrack
  <2>1. Missed' = Missed
    BY <1>6, MissedKept DEF FinishCrack, depotVars
  <2>2. \A a \in Addr : constraint_dict'[a] > 0 => a \in crack_addr
    BY <1>6 DEF FinishCrack
  <2> QED
    BY <1>6, <2>1, <2>2 DEF FinishCrack, OnTarget, loopVars
<1>7. CASE StartSampling
  <2>1. Missed' = Missed
    BY <1>7, MissedKept DEF StartSampling, depotVars
  <2>2. PICK a \in Addr : /\ constraint_dict[a] > 0
                          /\ constraint_dict' = [constraint_dict EXCEPT ![a] = @ - 1]
                          /\ addr' = a
    BY <1>7 DEF StartSampling
  <2>3. \A b \in Addr : constraint_dict'[b] > 0 => constraint_dict[b] > 0
    BY <2>2, ExecutorAssumption DEF LocalsOK
  <2> QED
    BY <1>7, <2>1, <2>2, <2>3 DEF StartSampling, OnTarget, loopVars
<1>8. CASE FinishSampling \/ NextConstraint \/ SolveCracked
  BY <1>8, SteadyTargets DEF FinishSampling, NextConstraint, SolveCracked, Steady, depotVars,
                             loopVars, crackVars
<1>9. CASE SyncCrack
  <2>1. Missed' = Missed
    BY <1>9, MissedKept DEF SyncCrack, depotVars
  <2>2. label_cov' \subseteq Missed
    BY <1>9 DEF SyncCrack, OnTarget
  <2> QED
    BY <1>9, <2>1, <2>2 DEF SyncCrack, OnTarget, loopVars
<1>10. CASE StartRandom \/ EndRandom \/ Learn
  BY <1>10, IdleTargets DEF StartRandom, EndRandom, Learn
<1>11. CASE FinishSolve \/ SyncSolve
  BY <1>11, SteadyTargets DEF FinishSolve, SyncSolve, Steady, depotVars, loopVars
<1>12. CASE EndSolve
  BY <1>12, SteadyTargets DEF EndSolve, SolveDone, MarkSolved, Steady, loopVars, crackVars
<1>13. CASE AflAddSeed \/ AflFirstHits \/ AflRewrite \/ UNCHANGED execVars
  BY <1>13, SteadyTargets DEF AflAddSeed, AflFirstHits, AflRewrite, execVars, Steady, depotVars, loopVars,
                              crackVars
<1>14. CASE Interrupt
  <2>1. CASE pc = "sampling"
    BY <1>14, <2>1, SteadyTargets DEF Interrupt, Steady, depotVars, loopVars
  <2>2. CASE pc # "sampling"
    BY <1>14, <2>2, IdleTargets DEF Interrupt
  <2> QED
    BY <2>1, <2>2
<1> QED
  BY <1>1, <1>2, <1>3, <1>4, <1>5, <1>6, <1>7, <1>8, <1>9, <1>10, <1>11, <1>12, <1>13, <1>14
     DEF ExecNext, Cofuzz, Environment

(***************************************************************************)
(* The work of a round.                                                    *)
(***************************************************************************)
\* A step that adds no label and forgets no pair of the round, and does not come to
\* the constraints of a seed from elsewhere.
IdleWork ==
    /\ UNCHANGED <<label_cov, round, crack_addr, seed_input>>
    /\ Cracking' => Cracking
    /\ pc' \in {"constraints", "sampling", "sync_crack"}
           => pc \in {"constraints", "sampling", "sync_crack"}

LEMMA IdleWorkKept == OwnWork /\ IdleWork => OwnWork'
  BY DEF OwnWork, IdleWork

\* Every step keeps the labels within the round.
LEMMA OwnWorkStep ==
  ASSUME LocalsOK, SeedsGiven, OnTarget, OwnWork, [ExecNext]_execVars
  PROVE  OwnWork'
<1> USE DEF SeedsGiven, InCrack, InSolve, Cracking
<1>0. ASSUME ~Cracking', pc' \notin {"constraints", "sampling", "sync_crack"} PROVE OwnWork'
  BY <1>0 DEF OwnWork
<1>1. CASE Start \/ ReadHitsFails \/ PredictFails \/ LearnFails
  BY <1>0, <1>1 DEF Start, ReadHitsFails, PredictFails, LearnFails, Die
<1>2. CASE SeekTraceSeeds \/ TraceSeed \/ ReadHits
  BY <1>0, <1>2 DEF SeekTraceSeeds, TraceSeed, ReadHits
<1>3. CASE Select
  BY <1>3 DEF Select, NewRound, OwnWork
<1>4. CASE SolveRandom \/ StartRandom \/ EndRandom \/ Learn
  BY <1>0, <1>4 DEF SolveRandom, StartRandom, EndRandom, Learn
<1>5. CASE StartCrack
  BY <1>5 DEF StartCrack, OwnWork, crackVars, historyVars
<1>6. CASE FinishCrack
  BY <1>6 DEF FinishCrack, OwnWork, loopVars
<1>7. CASE SyncCrack
  <2>1. <<addr, seed_input>> \in round /\ seed_input \in Seed
    BY <1>7 DEF SyncCrack, OnTarget, OwnWork
  <2> QED
    BY <1>7, <2>1 DEF SyncCrack, OwnWork, loopVars, historyVars
<1>8. CASE StartSampling \/ FinishSampling \/ NextConstraint \/ SolveCracked
  BY <1>8, IdleWorkKept DEF StartSampling, FinishSampling, NextConstraint, SolveCracked,
                            IdleWork, loopVars, crackVars, historyVars
<1>9. CASE FinishSolve \/ SyncSolve \/ EndSolve
  BY <1>9, IdleWorkKept DEF FinishSolve, SyncSolve, EndSolve, IdleWork, loopVars, crackVars,
                            historyVars
<1>10. CASE AflAddSeed \/ AflFirstHits \/ AflRewrite \/ UNCHANGED execVars
  BY <1>10, IdleWorkKept DEF AflAddSeed, AflFirstHits, AflRewrite, execVars, IdleWork, loopVars,
                             crackVars, historyVars
<1>11. CASE Interrupt
  <2>1. CASE pc = "sampling"
    BY <1>11, <2>1, IdleWorkKept DEF Interrupt, IdleWork, loopVars, historyVars
  <2>2. CASE pc # "sampling"
    BY <1>0, <1>11, <2>2 DEF Interrupt
  <2> QED
    BY <2>1, <2>2
<1> QED
  BY <1>1, <1>2, <1>3, <1>4, <1>5, <1>6, <1>7, <1>8, <1>9, <1>10, <1>11
     DEF ExecNext, Cofuzz, Environment

(***************************************************************************)
(* The end of the loop.                                                    *)
(***************************************************************************)
LEMMA FittedStep ==
  ASSUME LocalsOK, SeedsGiven, FittedInTime, [ExecNext]_execVars
  PROVE  FittedInTime'
<1>1. [DepotNext]_depotVars
  BY DepotStep
<1> QED
  BY <1>1 DEF FittedInTime, DepotNext, depotVars, MarkTraced, RecordTrace, ResolveFuzzHits,
              MarkSolved, ConcolicCandidate, UpdateModel

\* An address without an entry in the hits read means that the file was read short.
LEMMA ShortRead ==
  ASSUME DepotTypeOK, NEW a \in Addr, ~(a < blk_len)
  PROVE  blk_len < MAP_SIZE
  BY DepotAssumption, MapSizeAssumption DEF DepotTypeOK, Idx

\* The exceptions of the depot, by where the loop is: the model was fitted when it is
\* asked and an address with a label has a node, so the input is at fault.
LEMMA DeadStep ==
  ASSUME LocalsOK, DepotTypeOK, OnTarget, FittedInTime, [ExecNext]_execVars,
         pc # "dead", pc' = "dead"
  PROVE  \/ pc = "trace" /\ ~bb_written
         \/ blk_len < MAP_SIZE
         \/ Missed \cap NoWidth # {}
<1>1. CASE ReadHitsFails
  BY <1>1 DEF ReadHitsFails, TracesDone, BbBitmap, ResolveOk
<1>2. CASE PredictFails
  <2>1. PICK a \in Eligible : ~FeatureOk(a)
    BY <1>2 DEF PredictFails, PredictOk, FittedInTime
  <2>2. a \in Addr /\ a \in Missed
    BY <2>1 DEF Eligible, Missed, Known
  <2> QED
    BY <2>1, <2>2, ShortRead DEF FeatureOk
<1>3. CASE LearnFails
  <2>1. PICK a \in label_cov : ~(a \in Known /\ FeatureOk(a))
    BY <1>3 DEF LearnFails, UpdateOk
  <2>2. a \in Known /\ a \in Addr /\ a \in Missed
    BY <1>3, <2>1 DEF LearnFails, CracksDone, OnTarget, Cracking, Missed, LocalsOK
  <2> QED
    BY <2>1, <2>2, ShortRead DEF FeatureOk
<1>4. ~(Environment \/ UNCHANGED execVars)
  BY DEF Environment, AflAddSeed, AflFirstHits, AflRewrite, Interrupt, execVars
<1>5. ~(Start \/ SeekTraceSeeds \/ TraceSeed \/ ReadHits \/ Select \/ SolveRandom
        \/ StartCrack \/ FinishCrack)
  BY DEF Start, SeekTraceSeeds, TraceSeed, ReadHits, Select, SolveRandom, StartCrack,
         FinishCrack
<1>6. ~(StartSampling \/ FinishSampling \/ SyncCrack \/ NextConstraint \/ SolveCracked
        \/ StartRandom \/ FinishSolve \/ SyncSolve \/ EndSolve \/ EndRandom \/ Learn)
  BY DEF StartSampling, FinishSampling, SyncCrack, NextConstraint, SolveCracked,
         StartRandom, FinishSolve, SyncSolve, EndSolve, EndRandom, Learn
<1> QED
  BY <1>1, <1>2, <1>3, <1>4, <1>5, <1>6 DEF ExecNext, Cofuzz

\* All layers together are inductive.
LEMMA ExecInvStep == ExecInv /\ [ExecNext]_execVars => ExecInv'
<1> SUFFICES ASSUME ExecInv, [ExecNext]_execVars PROVE ExecInv'
  OBVIOUS
<1>1. /\ DepotTypeOK /\ SyncTypeOK /\ LocalsOK /\ SeedsGiven /\ NoneIdle /\ Accounted
      /\ OnTarget /\ OwnWork /\ FittedInTime
  BY ExecTypeSplit DEF ExecInv
<1>2. SyncTypeOK'
  BY <1>1, SyncStep, TypeStep
<1>3. DepotInv'
  BY <1>1, DepotStep, DepotInvStep DEF ExecInv
<1>4. LocalsOK' /\ SeedsGiven'
  BY <1>1, LocalsStep
<1>5. NoneIdle' /\ Accounted'
  BY <1>1, PairsStep
<1>6. OnTarget' /\ OwnWork' /\ FittedInTime'
  BY <1>1, TargetStep, OwnWorkStep, FittedStep
<1>7. ExecTypeOK'
  BY <1>2, <1>3, <1>4 DEF ExecTypeOK, LocalsOK, DepotInv
<1> QED
  BY <1>3, <1>4, <1>5, <1>6, <1>7 DEF ExecInv

\* The conjunction above holds throughout a run of the main loop (executor.py:29-36),
\* whatever AFL writes and the children answer.
THEOREM ExecInvariant == ExecSpec => []ExecInv
  BY ExecInitInv, ExecInvStep, PTL DEF ExecSpec

-----------------------------------------------------------------------------
\* Every variable of the main loop keeps its type, the depot's and the seed
\* sync's among them (executor.py:19-36).
THEOREM ExecTypeCorrect == ExecSpec => []ExecTypeOK
<1>1. ExecInv => ExecTypeOK
  BY DEF ExecInv
<1> QED
  BY <1>1, ExecInvariant, PTL

\* A pair handed out by the depot is run exactly once or still waits for it, for
\* any number of seeds, addresses and rounds (executor.py:149-153).
THEOREM PairsRunOnce == ExecSpec => []PairsAccounted
<1>1. ExecInv => PairsAccounted
  BY DEF ExecInv, Accounted, PairsAccounted
<1> QED
  BY <1>1, ExecInvariant, PTL

\* A round counts its own work only: what the model learns from was cracked in the
\* round, in any number of rounds of any size (executor.py:148-160).
THEOREM LabelsOwn == ExecSpec => []LabelsOfRound
<1>1. ExecInv => LabelsOfRound
  <2> SUFFICES ASSUME ExecInv PROVE LabelsOfRound
    OBVIOUS
  <2>1. OwnWork /\ OnTarget
    BY DEF ExecInv
  <2> QED
    BY <2>1 DEF OwnWork, OnTarget, LabelsOfRound
<1> QED
  BY <1>1, ExecInvariant, PTL

\* What ends the loop in the depot's code is a bb_bitmap that is missing or short, or a
\* width of 0 in a missed condition (depot.py:36, 56-60, 111-119): no lookup of an
\* unknown address, no model asked before it was fitted.
THEOREM OnlyInputKills == ExecSpec => DiesOnlyOfInput
<1>1. ExecInv /\ [ExecNext]_execVars =>
        [pc # "dead" /\ pc' = "dead" =>
            \/ pc = "trace" /\ ~bb_written
            \/ blk_len < MAP_SIZE
            \/ Missed \cap NoWidth # {}]_execVars
  BY DeadStep, ExecTypeSplit DEF ExecInv
<1> QED
  BY <1>1, ExecInvariant, PTL DEF ExecSpec, DiesOnlyOfInput

\* The main loop uses the depot as the depot's own specification allows: every
\* step is a call of one method or leaves it alone (executor.py:77-113, 149-153).
THEOREM DepotRefinement == ExecSpec => DepotProtocol
<1>1. ExecInit => DepotInit
  BY DEF ExecInit
<1>2. ExecInv /\ [ExecNext]_execVars => [DepotNext]_depotVars
  BY DepotStep, ExecTypeSplit DEF ExecInv
<1> QED
  BY <1>1, <1>2, ExecInvariant, PTL DEF ExecSpec, DepotSpec, DepotProtocol

\* What is proved of the depot holds in the main loop: no pair is handed out twice, only
\* seeds that reach an address are cracked for it, and no address goes beyond its limit by
\* more than a round's share (executor.py:140-153, depot.py:85-101).
THEOREM LoopUsesDepot == ExecSpec => [](LedgerBalanced /\ PairsReachable) /\ LimitRespected
  BY DepotRefinement, LedgerCorrect, PairsCorrect, LimitCorrect, PTL DEF DepotProtocol

\* The main loop implements the seed sync, its session being the only one
\* (executor.py:38-75).
THEOREM SyncRefinement == ExecSpec => SyncSpec
<1>1. ExecInit => SyncInit
  BY DEF ExecInit
<1> QED
  BY <1>1, SyncStep, PTL DEF ExecSpec, SyncSpec

\* What is proved of the seed sync holds in the main loop: the map is sound, the
\* queue has no redundant seed, files keep their numbers, a seed saved is news as far as
\* AFL's file was read (executor.py:51-75).
THEOREM LoopSyncs == ExecSpec => [](Sound /\ Novel /\ Numbered) /\ NewsToAfl
  BY SyncRefinement, Soundness, Novelty, Numbering, SeedsAreNews, PTL

\* The main loop keeps the promise of the seed archive: a test case enters the
\* queue only with a point nobody reached before (executor.py:55-62).
THEOREM LoopKeepsPromise == ExecSpec => KeepsPromise
  BY SyncRefinement, Refinement, PTL

=============================================================================
