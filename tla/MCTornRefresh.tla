--------------------------- MODULE MCTornRefresh ---------------------------
(* SeedSync with one more history variable: the last bitmap that AFL has   *)
(* written from the first byte to the last.                                *)
EXTENDS MCSeedSync

VARIABLE afl_written

TornInit == SyncInit /\ afl_written = Zeros

TornNext ==
    /\ SyncNext
    /\ afl_written' = IF fuzz_bitmap'.exists /\ fuzz_bitmap'.size = MAP_SIZE
                      THEN [i \in Idx |-> Flip(fuzz_bitmap'.data[i])]
                      ELSE afl_written

TornSpec == TornInit /\ [][TornNext]_<<syncVars, afl_written>>

\* After a refresh CoFuzz knows whatever AFL has written (executor.py:88, 104).
\* It need not: the file may be cut short by AFL's next rewriting of it.
RefreshTakesAll ==
    [][RefreshBitmap => \A i \in Idx : afl_written[i] \subseteq bitmap'[i]]_syncVars
=============================================================================
