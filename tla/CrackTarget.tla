---------------------------- MODULE CrackTarget ----------------------------
(***************************************************************************)
(* sync.py, Synchronizer.crack_target, and sampler.py: one constraint is   *)
(* solved, and its solution space sampled, into files of sample_out.  Any  *)
(* exception inside is printed and swallowed, and the files made so far    *)
(* are what the caller gets.                                               *)
(*                                                                         *)
(* A clause says which values one byte of the input may have; a real path  *)
(* constraint may also relate bytes, which the code does not look at.      *)
(***************************************************************************)
EXTENDS Integers, Sequences, FiniteSets

CONSTANTS
    BIT_VER_WIDTH,          \* config.py: bits of a symbolic variable
    MAX_SAMPLES             \* bound: DEFAULT_SAMPLER_NUM

ASSUME SamplerAssumption ==
    /\ BIT_VER_WIDTH \in Nat \ {0}
    /\ MAX_SAMPLES \in Nat

VARIABLES
    sample_out,             \* the directory: files [id, bytes]
    sample_id,
    step,                   \* where crack_target is
    constraint,             \* its arguments: the clauses,
    seed_bytes,             \* and the bytes of the seed
    results                 \* samples left to save

targetVars == <<sample_out, sample_id, step, constraint, seed_bytes, results>>

Byte == 0 .. 2 ^ BIT_VER_WIDTH - 1

\* The symbolic variables k!<offset>0 of the constraint.
Offsets == {constraint[i].offset : i \in DOMAIN constraint}

\* No clause fails to parse.
Parses == \A i \in DOMAIN constraint : constraint[i].offset >= 0

\* The values of the byte at offset k that satisfy the constraint.
Allowed(k) == {v \in Byte : \A i \in DOMAIN constraint :
                               constraint[i].offset = k => v \in constraint[i].values}

TargetInit ==
    /\ sample_out = {} /\ sample_id = 0
    /\ step = "out"
    /\ constraint = <<>> /\ seed_bytes = <<>>
    /\ results = <<>>

BugInitDir == UNCHANGED sample_out

InitDir == sample_out' = {}

CallCrackTarget(bytes, c) ==
    /\ step = "out"
    /\ InitDir
    /\ constraint' = c
    /\ seed_bytes' = bytes
    /\ results' = <<>>
    /\ step' = "solve"
    /\ UNCHANGED sample_id

(***************************************************************************)
(* __save_seed: a copy of the seed with the values put at their offsets,   *)
(* if the file is long enough and the values are bytes.                    *)
(***************************************************************************)
Fits(values) == \A k \in DOMAIN values : k + 1 \in DOMAIN seed_bytes /\ values[k] \in Byte

Mutant(values) ==
    [i \in DOMAIN seed_bytes |-> IF i - 1 \in DOMAIN values THEN values[i - 1] ELSE seed_bytes[i]]

SaveSeed(values) ==
    /\ sample_out' = sample_out \cup {[id |-> sample_id, bytes |-> Mutant(values)]}
    /\ sample_id' = sample_id + 1
    /\ UNCHANGED seed_bytes

\* An exception, or the return for a model without declarations.
Raise ==
    /\ step' = "finally"
    /\ UNCHANGED <<sample_out, sample_id, constraint, seed_bytes, results>>

BugSolveConstraint ==
    /\ step = "solve" /\ Parses /\ constraint # <<>>
    /\ step' = "sample"
    /\ UNCHANGED <<sample_out, sample_id, constraint, seed_bytes, results>>

\* from_string, check and model: the text does not parse, there is no solution
\* or none was found in time, or the model is saved.
SolveConstraint ==
    /\ step = "solve"
    /\ \/ Raise
       \/ /\ Parses /\ constraint # <<>>
          /\ \E solution \in {v \in [Offsets -> Byte] : \A k \in Offsets : v[k] \in Allowed(k)} :
                 IF Fits(solution)
                 THEN SaveSeed(solution) /\ step' = "sample" /\ UNCHANGED <<constraint, results>>
                 ELSE Raise

(***************************************************************************)
(* The polytope: every variable between the minimum and the maximum that   *)
(* z3.Optimize finds for it.  Nothing was ever asserted in opt.            *)
(***************************************************************************)
Feasible(k) == Byte

ObjMax(k) == CHOOSE v \in Feasible(k) : \A w \in Feasible(k) : w <= v
ObjMin(k) == CHOOSE v \in Feasible(k) : \A w \in Feasible(k) : w >= v

\* Rows x <= max and -x <= min of leq and leq_rhs, points truncated to integers.
Polytope ==
    {x \in [Offsets -> -1 .. 2 ^ BIT_VER_WIDTH] :
        \A k \in Offsets : x[k] <= ObjMax(k) /\ -x[k] <= ObjMin(k)}

\* The walks stay in the polytope; an unknown sampler, a Chebyshev center not
\* found or a point that rounding put outside (sampler.py:76-78) ends them all.
DoSample ==
    /\ step = "sample"
    /\ \/ Raise
       \/ /\ results' \in [1 .. MAX_SAMPLES -> Polytope]
          /\ step' = "save"
          /\ UNCHANGED <<sample_out, sample_id, constraint, seed_bytes>>

SaveSample ==
    /\ step = "save" /\ results # <<>>
    /\ IF Fits(Head(results))
       THEN SaveSeed(Head(results)) /\ results' = Tail(results) /\ UNCHANGED <<step, constraint>>
       ELSE Raise

SamplesSaved == step = "save" /\ results = <<>> /\ Raise

\* finally: the files there are, whatever happened.
Return ==
    /\ step = "finally"
    /\ step' = "out"
    /\ UNCHANGED <<sample_out, sample_id, constraint, seed_bytes, results>>

\* The locals of the call are gone once its result is used.
Forget ==
    /\ constraint' = <<>> /\ seed_bytes' = <<>> /\ results' = <<>>
    /\ UNCHANGED <<sample_out, sample_id, step>>

TargetStep == SolveConstraint \/ DoSample \/ SaveSample \/ SamplesSaved
=============================================================================
