-------------------------- MODULE StateDepotProofs --------------------------
(***************************************************************************)
(* The invariants of StateDepot for any finite set of seeds, any branches  *)
(* and any values of the limits of config.py.                              *)
(***************************************************************************)
EXTENDS StateDepot, FiniteSetTheorems, TLAPS

(***************************************************************************)
(* What a round may hand out.                                              *)
(***************************************************************************)
LEMMA SeedSelectionBound ==
  ASSUME NEW a \in Addr, DepotTypeOK, NEW pick \in SeedSelection(a)
  PROVE  /\ pick \subseteq Fresh(a)
         /\ Cardinality(pick) <= CRACK_SEED_MAX
<1> DEFINE unsolved == Fresh(a) \ solved_seeds
           solved == Fresh(a) \cap solved_seeds
           room == CRACK_SEED_MAX - Cardinality(unsolved)
<1>1. Fresh(a) \subseteq Seed
  BY DEF Fresh, DepotTypeOK
<1>2. IsFiniteSet(unsolved) /\ IsFiniteSet(solved)
  BY <1>1, DepotAssumption, FS_Subset
<1>3. Cardinality(unsolved) \in Nat /\ Cardinality(solved) \in Nat
  BY <1>2, FS_CardinalityType
<1>4. CASE Cardinality(unsolved) >= CRACK_SEED_MAX
  BY <1>4, DepotAssumption DEF SeedSelection
<1>5. CASE ~(Cardinality(unsolved) >= CRACK_SEED_MAX)
  <2>1. /\ pick \subseteq Fresh(a)
        /\ unsolved \subseteq pick
        /\ \/ Cardinality(pick \cap solved) = room
           \/ solved \subseteq pick /\ Cardinality(solved) <= room
    BY <1>5 DEF SeedSelection
  <2>2. Cardinality(pick \cap solved) <= room
    <3>1. CASE Cardinality(pick \cap solved) = room
      BY <1>3, <3>1, DepotAssumption
    <3>2. CASE solved \subseteq pick /\ Cardinality(solved) <= room
      <4>1. pick \cap solved = solved
        BY <3>2
      <4> QED
        BY <3>2, <4>1
    <3> QED
      BY <2>1, <3>1, <3>2
  <2>3. pick = unsolved \cup (pick \cap solved) /\ unsolved \cap (pick \cap solved) = {}
    BY <2>1
  <2>4. IsFiniteSet(pick \cap solved)
    BY <1>2, FS_Subset
  <2>5. Cardinality(pick) = Cardinality(unsolved) + Cardinality(pick \cap solved)
                                - Cardinality({})
    BY <1>2, <2>3, <2>4, FS_Union
  <2>6. Cardinality(pick) <= CRACK_SEED_MAX
    BY <1>3, <2>2, <2>4, <2>5, FS_EmptySet, FS_CardinalityType, DepotAssumption
  <2> QED
    BY <2>1, <2>6
<1> QED
  BY <1>4, <1>5

\* The choice for each address: fresh seeds, at most CRACK_SEED_MAX, of eligible addresses.
LEMMA SelectionBound ==
  ASSUME DepotTypeOK, NEW pick \in Selections, NEW a \in Addr
  PROVE  /\ pick[a] \subseteq Seed
         /\ pick[a] \subseteq Fresh(a)
         /\ Cardinality(pick[a]) <= CRACK_SEED_MAX
         /\ pick[a] # {} => a \in Eligible
<1>1. pick \in [Addr -> SUBSET Seed]
  BY DEF Selections
<1>2. PICK top \in Ranked : \A x \in Addr :
          IF x \in top THEN pick[x] \in SeedSelection(x) ELSE pick[x] = {}
  BY DEF Selections
<1>3. CASE a \in top
  <2>1. a \in Eligible
    BY <1>2, <1>3 DEF Ranked
  <2> QED
    BY <1>1, <1>2, <1>3, <2>1, SeedSelectionBound
<1>4. CASE a \notin top
  <2>1. pick[a] = {}
    BY <1>2, <1>4
  <2> QED
    BY <2>1, FS_EmptySet, DepotAssumption
<1> QED
  BY <1>3, <1>4

(***************************************************************************)
(* The inductive invariant: the ledger balances only because a seed picked *)
(* for an address is fresh, and a pair is reachable only because fresh     *)
(* seeds belong to the address.                                            *)
(***************************************************************************)
DepotInv == DepotTypeOK /\ LedgerBalanced /\ PairsReachable

\* The invariant holds at the start.
LEMMA DepotInitInv == DepotInit => DepotInv
<1> SUFFICES ASSUME DepotInit PROVE DepotInv
  OBVIOUS
<1>1. DepotTypeOK
  <2>1. MAP_SIZE \in 0 .. MAP_SIZE
    BY MapSizeAssumption
  <2> QED
    BY <2>1 DEF DepotInit, DepotTypeOK
<1>2. LedgerBalanced
  BY FS_EmptySet DEF DepotInit, LedgerBalanced, PairsOf
<1>3. PairsReachable
  BY DEF DepotInit, PairsReachable
<1> QED
  BY <1>1, <1>2, <1>3 DEF DepotInv

\* Handing out adds as many pairs as it counts, of seeds that reach the address.
LEMMA HandOutInv ==
  ASSUME DepotInv, NEW pick, ConcolicCandidate(pick)
  PROVE  DepotInv'
<1> USE DEF DepotInv, ConcolicCandidate, HandOut
<1>1. \A a \in Addr : /\ pick[a] \subseteq Seed
                      /\ pick[a] \subseteq Fresh(a)
                      /\ IsFiniteSet(pick[a])
                      /\ Cardinality(pick[a]) \in Nat
  BY SelectionBound, DepotAssumption, FS_Subset, FS_CardinalityType
<1>2. DepotTypeOK'
  BY <1>1 DEF DepotTypeOK
<1>3. LedgerBalanced'
  <2> SUFFICES ASSUME NEW a \in Addr
               PROVE  cracked_addr'[a] = Cardinality(PairsOf(a)')
    BY DEF LedgerBalanced
  <2>1. PairsOf(a)' = PairsOf(a) \cup pick[a]
    BY <1>1 DEF PairsOf
  <2>2. PairsOf(a) \cap pick[a] = {}
    BY <1>1 DEF PairsOf, Fresh
  <2>3. IsFiniteSet(PairsOf(a))
    BY DepotAssumption, FS_Subset DEF PairsOf
  <2>4. Cardinality(PairsOf(a)') = Cardinality(PairsOf(a)) + Cardinality(pick[a])
                                       - Cardinality({})
    BY <1>1, <2>1, <2>2, <2>3, FS_Union
  <2>5. cracked_addr'[a] = Cardinality(PairsOf(a)) + Cardinality(pick[a])
    BY DEF LedgerBalanced
  <2> QED
    BY <1>1, <2>3, <2>4, <2>5, FS_EmptySet, FS_CardinalityType
<1>4. PairsReachable'
  BY <1>1 DEF PairsReachable, Fresh
<1> QED
  BY <1>2, <1>3, <1>4

\* Recording a trace only adds seeds to those that reach an address.
LEMMA RecordTraceInv ==
  ASSUME DepotInv, NEW seed \in traced_seeds, NEW path \in SUBSET (Addr \X Dest),
         RecordTrace(seed, path)
  PROVE  DepotInv'
<1> USE DEF DepotInv, RecordTrace
<1>1. DepotTypeOK'
  BY DEF DepotTypeOK
<1>2. LedgerBalanced'
  BY DEF LedgerBalanced, PairsOf
<1>3. PairsReachable'
  BY DEF PairsReachable, DepotTypeOK
<1> QED
  BY <1>1, <1>2, <1>3

\* Every step keeps the invariant.
LEMMA DepotInvStep == DepotInv /\ [DepotNext]_depotVars => DepotInv'
<1> SUFFICES ASSUME DepotInv, [DepotNext]_depotVars
             PROVE  DepotInv'
  OBVIOUS
<1> USE DEF DepotInv
<1>1. ASSUME NEW seeds \in SUBSET Seed, MarkTraced(seeds) PROVE DepotInv'
  BY <1>1 DEF MarkTraced, DepotTypeOK, LedgerBalanced, PairsOf, PairsReachable
<1>2. ASSUME NEW seed \in traced_seeds, NEW path \in SUBSET (Addr \X Dest), RecordTrace(seed, path)
      PROVE  DepotInv'
  BY <1>2, RecordTraceInv
<1>3. ASSUME NEW bb_bitmap \in HitsFile, ResolveFuzzHits(bb_bitmap) PROVE DepotInv'
  BY <1>3 DEF HitsFile, ResolveFuzzHits, DepotTypeOK, LedgerBalanced, PairsOf, PairsReachable
<1>4. ASSUME NEW seed \in Seed, MarkSolved(seed) PROVE DepotInv'
  BY <1>4 DEF MarkSolved, DepotTypeOK, LedgerBalanced, PairsOf, PairsReachable
<1>5. ASSUME NEW pick \in Selections, ConcolicCandidate(pick) PROVE DepotInv'
  BY <1>5, HandOutInv
<1>6. ASSUME NEW labels \in SUBSET Known, UpdateModel(labels) PROVE DepotInv'
  BY <1>6 DEF UpdateModel, DepotTypeOK, LedgerBalanced, PairsOf, PairsReachable
<1>7. CASE UNCHANGED depotVars
  BY <1>7 DEF depotVars, DepotTypeOK, LedgerBalanced, PairsOf, PairsReachable
<1> QED
  BY <1>1, <1>2, <1>3, <1>4, <1>5, <1>6, <1>7 DEF DepotNext

\* The inductive invariant holds whatever the order of the calls (depot.py:22-119).
THEOREM DepotInvariant == DepotSpec => []DepotInv
  BY DepotInitInv, DepotInvStep, PTL DEF DepotSpec

\* The fields of the depot keep their types (depot.py:12-20).
THEOREM DepotTypeCorrect == DepotSpec => []DepotTypeOK
<1>1. DepotInv => DepotTypeOK
  BY DEF DepotInv
<1> QED
  BY <1>1, DepotInvariant, PTL

\* The crack counter of an address is the number of its distinct pairs, so the
\* limit counts different seeds and no pair is handed out twice (depot.py:96-97).
THEOREM LedgerCorrect == DepotSpec => []LedgerBalanced
<1>1. DepotInv => LedgerBalanced
  BY DEF DepotInv
<1> QED
  BY <1>1, DepotInvariant, PTL

\* Only seeds seen to reach an address are cracked for it (depot.py:71-77).
THEOREM PairsCorrect == DepotSpec => []PairsReachable
<1>1. DepotInv => PairsReachable
  BY DEF DepotInv
<1> QED
  BY <1>1, DepotInvariant, PTL

(***************************************************************************)
(* The limit.                                                              *)
(***************************************************************************)
WithinLimit ==
    \A a \in Addr :
        /\ ~init_phase /\ cracked_addr[a] >= CRACK_UPPER_LIMIT => cracked_addr'[a] = cracked_addr[a]
        /\ cracked_addr'[a] <= cracked_addr[a] + CRACK_SEED_MAX

\* After the initial phase an address at its limit is handed out no more; no call adds more
\* than its share.
LEMMA LimitStep == DepotTypeOK /\ [DepotNext]_depotVars => [WithinLimit]_depotVars
<1> SUFFICES ASSUME DepotTypeOK, DepotNext
             PROVE  WithinLimit
  OBVIOUS
<1>1. ASSUME NEW pick \in Selections, ConcolicCandidate(pick)
      PROVE  WithinLimit
  <2> SUFFICES ASSUME NEW a \in Addr
               PROVE  /\ ~init_phase /\ cracked_addr[a] >= CRACK_UPPER_LIMIT
                             => cracked_addr'[a] = cracked_addr[a]
                      /\ cracked_addr'[a] <= cracked_addr[a] + CRACK_SEED_MAX
    BY DEF WithinLimit
  <2>1. cracked_addr'[a] = cracked_addr[a] + Cardinality(pick[a])
    BY <1>1 DEF ConcolicCandidate, HandOut
  <2>2. /\ pick[a] \subseteq Seed
        /\ Cardinality(pick[a]) <= CRACK_SEED_MAX
        /\ pick[a] # {} => a \in Eligible
    BY SelectionBound
  <2>3. Cardinality(pick[a]) \in Nat /\ cracked_addr[a] \in Nat
    BY <2>2, DepotAssumption, FS_Subset, FS_CardinalityType DEF DepotTypeOK
  <2>4. ASSUME ~init_phase, cracked_addr[a] >= CRACK_UPPER_LIMIT
        PROVE  Cardinality(pick[a]) = 0
    <3>1. a \notin Eligible
      BY <2>3, <2>4, DepotAssumption DEF Eligible
    <3> QED
      BY <2>2, <3>1, FS_EmptySet
  <2> QED
    BY <2>1, <2>2, <2>3, <2>4, DepotAssumption
<1>2. ASSUME UNCHANGED cracked_addr
      PROVE  WithinLimit
  BY <1>2, DepotAssumption DEF WithinLimit, DepotTypeOK
<1> QED
  BY <1>1, <1>2
     DEF DepotNext, MarkTraced, RecordTrace, ResolveFuzzHits, MarkSolved, UpdateModel

\* Once the model learns, an address that has used up its cracks is never handed
\* out again, and no round exceeds the limit by a full round (depot.py:54, 94-97).
THEOREM LimitCorrect == DepotSpec => LimitRespected
<1>1. [WithinLimit]_depotVars =>
        [\A a \in Addr :
          /\ ~init_phase /\ cracked_addr[a] >= CRACK_UPPER_LIMIT
                 => cracked_addr'[a] = cracked_addr[a]
          /\ cracked_addr'[a] <= cracked_addr[a] + CRACK_SEED_MAX]_depotVars
  BY DEF WithinLimit
<1> QED
  BY <1>1, LimitStep, DepotTypeCorrect, PTL DEF DepotSpec, LimitRespected
=============================================================================
