----------------------------- MODULE StateDepot -----------------------------
(***************************************************************************)
(* depot.py, class StateDepot: what CoFuzz remembers of the branches of    *)
(* the program under test and of the seeds it has worked on, and how it    *)
(* picks the (address, seed) pairs the concolic executor tries to crack.   *)
(*                                                                         *)
(* The regression model only ranks the addresses; its output is an         *)
(* arbitrary ranking here.  Seeds are named by their file names.           *)
(***************************************************************************)
EXTENDS FuzzConfig, FiniteSets

CONSTANTS
    Seed,                   \* seeds of AFL's queue
    Addr,                   \* addresses (basic-block ids) of conditions
    Dest,                   \* addresses a condition can jump to
    SuccMax,                \* condition.succ_max of every address
    NoWidth,                \* addresses whose condition was read with a width of 0
    CANDIDATE_NUM,          \* config.py: addresses considered in a round
    CRACK_SEED_MAX,         \* config.py: seeds taken for an address in a round
    CRACK_UPPER_LIMIT       \* config.py: cracks after which an address is left

ASSUME DepotAssumption ==
    /\ IsFiniteSet(Seed)
    /\ Addr \subseteq Idx
    /\ SuccMax \in [Addr -> Nat]
    /\ NoWidth \subseteq Addr
    /\ CANDIDATE_NUM \in Nat \ {0}
    /\ CRACK_SEED_MAX \in Nat \ {0}
    /\ CRACK_UPPER_LIMIT \in Nat \ {0}

VARIABLES
    children,               \* cov_state[addr].children
    belongs,                \* cov_state[addr].belongs
    blk_len,                \* len(blk_hit): entries read from bb_bitmap
    init_phase,             \* no label has been learnt yet
    fitted,                 \* the regression model has been fitted
    traced_seeds,
    solved_seeds,
    cracked_seed,           \* the (addr, seed) pairs handed out for cracking
    cracked_addr            \* how many pairs of an address were handed out

depotVars == <<children, belongs, blk_len, init_phase, fitted, traced_seeds,
               solved_seeds, cracked_seed, cracked_addr>>

\* Types of the depot's fields (depot.py:12-20).
DepotTypeOK ==
    /\ children \in [Addr -> SUBSET Dest]
    /\ belongs \in [Addr -> SUBSET Seed]
    /\ blk_len \in 0 .. MAP_SIZE
    /\ init_phase \in BOOLEAN
    /\ fitted \in BOOLEAN
    /\ traced_seeds \in SUBSET Seed
    /\ solved_seeds \in SUBSET Seed
    /\ cracked_seed \in SUBSET (Addr \X Seed)
    /\ cracked_addr \in [Addr -> Nat]

DepotInit ==
    /\ children = [a \in Addr |-> {}]
    /\ belongs = [a \in Addr |-> {}]
    /\ blk_len = MAP_SIZE
    /\ init_phase = TRUE
    /\ fitted = FALSE
    /\ traced_seeds = {}
    /\ solved_seeds = {}
    /\ cracked_seed = {}
    /\ cracked_addr = [a \in Addr |-> 0]

\* The keys of the dictionary cov_state: an entry is made for the first seed
\* that reaches the address, and belongs to it from then on.
Known == {a \in Addr : belongs[a] # {}}

IsBranchCovered(a) == Cardinality(children[a]) >= SuccMax[a]

(***************************************************************************)
(* The tracer and the executor write the depot's fields directly.          *)
(***************************************************************************)
BugMarkTraced(seeds) == UNCHANGED depotVars

MarkTraced(seeds) ==
    /\ traced_seeds' = traced_seeds \cup seeds
    /\ UNCHANGED <<children, belongs, blk_len, init_phase, fitted, solved_seeds,
                   cracked_seed, cracked_addr>>

\* A seed ran through the edges in path.
RecordTrace(seed, path) ==
    /\ children' = [a \in Addr |-> children[a] \cup {d \in Dest : <<a, d>> \in path}]
    /\ belongs' = [a \in Addr |->
                      IF \E d \in Dest : <<a, d>> \in path
                      THEN belongs[a] \cup {seed}
                      ELSE belongs[a]]
    /\ UNCHANGED <<blk_len, init_phase, fitted, traced_seeds, solved_seeds,
                   cracked_seed, cracked_addr>>

\* bb_bitmap as a reader finds it: AFL rewrites it like fuzz_bitmap, so it may be
\* cut short, and it is not there before AFL first writes it.
HitsFile == [exists : BOOLEAN, size : 0 .. MAP_SIZE]

\* open() is called without asking whether the file exists: FileNotFoundError.
ResolveOk(bb_bitmap) == bb_bitmap.exists

ResolveFuzzHits(bb_bitmap) ==
    /\ blk_len' = bb_bitmap.size
    /\ UNCHANGED <<children, belongs, init_phase, fitted, traced_seeds, solved_seeds,
                   cracked_seed, cracked_addr>>

MarkSolved(seed) ==
    /\ solved_seeds' = solved_seeds \cup {seed}
    /\ UNCHANGED <<children, belongs, blk_len, init_phase, fitted, traced_seeds,
                   cracked_seed, cracked_addr>>

(***************************************************************************)
(* concolic_candidate.                                                     *)
(***************************************************************************)
Missed == {a \in Known : ~IsBranchCovered(a)}

\* __init_edges shuffles all missed edges; __edge_predict ranks those that
\* have not been cracked too often.
BugEligible == Missed

Eligible ==
    IF init_phase THEN Missed
    ELSE {a \in Missed : cracked_addr[a] < CRACK_UPPER_LIMIT}

\* edge_feature takes the width, whose logarithm does not fit an integer if the
\* width is 0; then blk_hit is indexed.  OverflowError, IndexError.
FeatureOk(a) == a \notin NoWidth /\ a < blk_len

\* __edge_predict asks the model for every address: NotFittedError.
PredictOk == init_phase \/ \A a \in Eligible : FeatureOk(a) /\ fitted

\* The loop stops after CANDIDATE_NUM addresses of the ranking, whether or not
\* they had a seed left to crack.
Ranked ==
    {top \in SUBSET Eligible :
        \/ Cardinality(top) = CANDIDATE_NUM
        \/ top = Eligible /\ Cardinality(top) <= CANDIDATE_NUM}

\* __seed_selection: seeds not cracked at this address yet, unsolved ones first.
BugFresh(a) == {s \in traced_seeds : <<a, s>> \notin cracked_seed}

Fresh(a) == {s \in belongs[a] : <<a, s>> \notin cracked_seed}

BugSeedSelection(a) == {pick \in SUBSET belongs[a] : Cardinality(pick) <= CRACK_SEED_MAX}

SeedSelection(a) ==
    LET unsolved == Fresh(a) \ solved_seeds
        solved == Fresh(a) \cap solved_seeds
        room == CRACK_SEED_MAX - Cardinality(unsolved)
    IN  IF Cardinality(unsolved) >= CRACK_SEED_MAX
        THEN {pick \in SUBSET unsolved : Cardinality(pick) = CRACK_SEED_MAX}
        ELSE {pick \in SUBSET Fresh(a) :
                 /\ unsolved \subseteq pick
                 /\ \/ Cardinality(pick \cap solved) = room
                    \/ solved \subseteq pick /\ Cardinality(solved) <= room}

\* All choices a round can make: the seeds picked for every address.
Selections ==
    {pick \in [Addr -> SUBSET Seed] :
        \E top \in Ranked : \A a \in Addr :
            IF a \in top THEN pick[a] \in SeedSelection(a) ELSE pick[a] = {}}

BugHandOutAll(pick) ==
    /\ cracked_seed' = cracked_seed \cup
           {p \in Addr \X Seed : pick[p[1]] # {} /\ p[2] \in belongs[p[1]]}
    /\ cracked_addr' = [a \in Addr |-> cracked_addr[a] + Cardinality(pick[a])]

HandOut(pick) ==
    /\ cracked_seed' = cracked_seed \cup {p \in Addr \X Seed : p[2] \in pick[p[1]]}
    /\ cracked_addr' = [a \in Addr |-> cracked_addr[a] + Cardinality(pick[a])]

ConcolicCandidate(pick) ==
    /\ pick \in Selections
    /\ HandOut(pick)
    /\ UNCHANGED <<children, belongs, blk_len, init_phase, fitted, traced_seeds,
                   solved_seeds>>

(***************************************************************************)
(* update_model: label_cov has an entry for every address in labels.       *)
(***************************************************************************)
\* cov_state is indexed as well: KeyError.
UpdateOk(labels) == \A a \in labels : a \in Known /\ FeatureOk(a)

BugUpdateModel(labels) ==
    /\ init_phase' = FALSE
    /\ fitted' = (fitted \/ labels # {})
    /\ UNCHANGED <<children, belongs, blk_len, traced_seeds, solved_seeds,
                   cracked_seed, cracked_addr>>

UpdateModel(labels) ==
    /\ IF labels = {}
       THEN UNCHANGED <<init_phase, fitted>>
       ELSE init_phase' = FALSE /\ fitted' = TRUE
    /\ UNCHANGED <<children, belongs, blk_len, traced_seeds, solved_seeds,
                   cracked_seed, cracked_addr>>

-----------------------------------------------------------------------------
(***************************************************************************)
(* The depot on its own, its methods called in any order.                  *)
(***************************************************************************)
DepotNext ==
    \/ \E seeds \in SUBSET Seed : MarkTraced(seeds)
    \/ \E seed \in traced_seeds : \E path \in SUBSET (Addr \X Dest) : RecordTrace(seed, path)
    \/ \E bb_bitmap \in HitsFile : ResolveOk(bb_bitmap) /\ ResolveFuzzHits(bb_bitmap)
    \/ \E seed \in Seed : MarkSolved(seed)
    \/ PredictOk /\ \E pick \in Selections : ConcolicCandidate(pick)
    \/ \E labels \in SUBSET Known : UpdateOk(labels) /\ UpdateModel(labels)

DepotSpec == DepotInit /\ [][DepotNext]_depotVars

PairsOf(a) == {s \in Seed : <<a, s>> \in cracked_seed}

\* The ledger of cracks balances (depot.py:96-97): the counter of an address,
\* which decides when it is given up, is the number of its distinct pairs.
LedgerBalanced == \A a \in Addr : cracked_addr[a] = Cardinality(PairsOf(a))

\* A pair is handed out only if its seed was seen to reach the address, and a
\* seed is never attached to an address before it is marked traced.
PairsReachable ==
    /\ \A p \in cracked_seed : p[2] \in belongs[p[1]]
    /\ \A a \in Addr : belongs[a] \subseteq traced_seeds

\* Once learning has begun, an address at the limit is never handed out again,
\* and one below it overshoots it by less than a round's seeds (depot.py:54, 94-97).
LimitRespected ==
    [][\A a \in Addr :
          /\ ~init_phase /\ cracked_addr[a] >= CRACK_UPPER_LIMIT
                 => cracked_addr'[a] = cracked_addr[a]
          /\ cracked_addr'[a] <= cracked_addr[a] + CRACK_SEED_MAX]_depotVars
=============================================================================
