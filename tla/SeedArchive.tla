---------------------------- MODULE SeedArchive ----------------------------
(***************************************************************************)
(* What CoFuzz promises of the seeds it hands to the fuzzer, without any   *)
(* of the machinery that keeps the promise: there is a set of known        *)
(* coverage points, and a seed enters the archive only if it covers a      *)
(* point that was not known before.  A new session starts over with an     *)
(* empty archive.                                                          *)
(***************************************************************************)
CONSTANT Point              \* coverage points: a (map index, bit) pair

VARIABLES
    known,                  \* the points known to be covered
    archive                 \* the coverage of every archived seed

vars == <<known, archive>>

Init ==
    /\ known \in SUBSET Point
    /\ archive = {}

\* Coverage reached by somebody else is learnt.
Learn ==
    /\ \E pts \in SUBSET Point : known' = known \cup pts
    /\ UNCHANGED archive

\* A seed is archived together with everything it covers.
Archive ==
    \E cov \in SUBSET Point :
        /\ ~(cov \subseteq known)
        /\ known' = known \cup cov
        /\ archive' = archive \cup {cov}

\* A new session forgets the archive and starts from a coverage it is given.
Restart ==
    /\ known' \in SUBSET Point
    /\ archive' = {}

Next == Learn \/ Archive \/ Restart

Spec == Init /\ [][Next]_vars
=============================================================================
