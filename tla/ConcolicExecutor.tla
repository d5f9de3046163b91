-------------------------- MODULE ConcolicExecutor --------------------------
(***************************************************************************)
(* conolic.py: running the concolic executor on a seed, either to solve    *)
(* the branches of its path or to crack chosen addresses, for which it     *)
(* prints the path constraints on stderr.  Everything the child is told    *)
(* goes through files and its environment; both outlive a run.             *)
(***************************************************************************)
EXTENDS FuzzConfig, Sequences, FiniteSets

CONSTANTS
    Seed, NoSeed,
    Constraint,             \* the path constraints it may log: sequences of clauses
                            \* [offset, values], a negative offset for a broken text
    MAX_LOG,                \* bound: lines printed by the child
    MAX_SOLUTIONS           \* bound: test cases of a solving run

ASSUME ConcolicAssumption ==
    /\ NoSeed \notin Seed
    /\ \A c \in Constraint : c \in Seq([offset : Int, values : SUBSET Int])
    /\ MAX_LOG \in Nat
    /\ MAX_SOLUTIONS \in Nat

VARIABLES
    crackmap,               \* the file crackmap: 0 at the addresses to crack
    cur_input,              \* the file .cur_input: the seed it is a copy of
    output_path,            \* the solutions directory: [seed, no]
    env,                    \* the environment of the child: which variables are set
    child,                  \* "none", "running" or "ended"
    constraint_info         \* what the child has printed on stderr

\* History: the constraints the child has printed whole, in this run.
VARIABLE logged

concolicVars == <<crackmap, cur_input, output_path, env, child, constraint_info, logged>>

NoLines == <<>>
Env == [cracking : BOOLEAN, output : BOOLEAN]
\* "other" is a line of none of the three forms, or one that does not decode.
NoClause == [offset |-> -1, values |-> {}]
LogLine == [kind : {"start", "express", "end", "other"}, src : Idx \cup {-1},
            clause : {NoClause} \cup UNION {{c[i] : i \in DOMAIN c} : c \in Constraint}]

ConcolicTypeOK ==
    /\ crackmap \in [Idx -> {0, 255}]
    /\ cur_input \in Seed \cup {NoSeed}
    /\ output_path \in SUBSET [seed : Seed, no : Nat]
    /\ env \in Env
    /\ child \in {"none", "running", "ended"}
    /\ constraint_info \in Seq(LogLine)

ConcolicInit ==
    /\ crackmap = [a \in Idx |-> 255]
    /\ cur_input = NoSeed
    /\ output_path = {}
    /\ env = [cracking |-> FALSE, output |-> FALSE]
    /\ child = "none"
    /\ constraint_info = NoLines
    /\ logged = {}

(***************************************************************************)
(* __dump_crack_map, __gen_concolic_cmd, solve and crack up to Popen.      *)
(***************************************************************************)
BugDumpCrackMap(crack_list) ==
    crackmap' = [a \in Idx |-> IF a \in crack_list THEN 0 ELSE crackmap[a]]

DumpCrackMap(crack_list) ==
    crackmap' = [a \in Idx |-> IF a \in crack_list THEN 0 ELSE 255]

StartChild(seed) ==
    /\ child \in {"none", "ended"}
    /\ cur_input' = seed
    /\ child' = "running"
    /\ constraint_info' = NoLines
    /\ logged' = {}

Crack(seed, crack_list) ==
    /\ StartChild(seed)
    /\ IF crack_list # {}
       THEN DumpCrackMap(crack_list) /\ env' = [cracking |-> TRUE, output |-> FALSE]
       ELSE UNCHANGED crackmap /\ env' = [cracking |-> FALSE, output |-> TRUE]
    /\ UNCHANGED output_path

BugWipe == UNCHANGED output_path

Wipe == output_path' = {}

Solve(seed) ==
    /\ StartChild(seed)
    /\ Wipe
    /\ env' = [cracking |-> FALSE, output |-> TRUE]
    /\ UNCHANGED crackmap

(***************************************************************************)
(* The child, external: symcc, and the program it runs in.  A constraint   *)
(* is printed in one go, but what the program printed before it without a  *)
(* newline swallows its first line, and "timeout" may kill it halfway.     *)
(***************************************************************************)
Other(kind) == [kind |-> kind, src |-> -1, clause |-> NoClause]
Start(a) == [kind |-> "start", src |-> a, clause |-> NoClause]
Express(c) == [kind |-> "express", src |-> -1, clause |-> c]

\* The lines of a constraint c of the address a, after the line first.
Lines(first, c) == <<first>> \o [i \in DOMAIN c |-> Express(c[i])] \o <<Other("end")>>

Cracked == {a \in Idx : env.cracking /\ crackmap[a] = 0}

ChildLogs ==
    /\ child = "running"
    /\ \E a \in Cracked, c \in Constraint :
           /\ Len(constraint_info) + Len(c) + 2 <= MAX_LOG
           /\ \/ /\ constraint_info' = constraint_info \o Lines(Start(a), c)
                 /\ logged' = logged \cup {<<a, c>>}
              \/ /\ constraint_info' = constraint_info \o Lines(Other("other"), c)
                 /\ UNCHANGED logged
    /\ UNCHANGED <<crackmap, cur_input, output_path, env, child>>

\* A line of the program under test, which may look like a part of a constraint.
ProgramPrints ==
    /\ child = "running" /\ Len(constraint_info) < MAX_LOG
    /\ \/ constraint_info' = Append(constraint_info, Other("other"))
       \/ constraint_info' = Append(constraint_info, Express(NoClause))
    /\ UNCHANGED <<crackmap, cur_input, output_path, env, child, logged>>

ChildSolves ==
    /\ child = "running" /\ env.output
    /\ Cardinality(output_path) < MAX_SOLUTIONS
    /\ output_path' = output_path \cup {[seed |-> cur_input, no |-> Cardinality(output_path)]}
    /\ UNCHANGED <<crackmap, cur_input, env, child, constraint_info, logged>>

ChildEnds ==
    /\ child = "running"
    /\ child' = "ended"
    /\ \/ UNCHANGED constraint_info
       \/ \E a \in Cracked, c \in Constraint : \E n \in 1 .. Len(c) + 1 :
              constraint_info' = constraint_info \o SubSeq(Lines(Start(a), c), 1, n)
    /\ UNCHANGED <<crackmap, cur_input, output_path, env, logged>>

ChildStep == ChildLogs \/ ProgramPrints \/ ChildSolves \/ ChildEnds
=============================================================================
