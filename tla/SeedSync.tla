------------------------------ MODULE SeedSync ------------------------------
(***************************************************************************)
(* HybridExecutor.__sync_seed with everything it touches: the coverage map,*)
(* the directories queue/, hangs/ and crashes/ of the concolic output, and *)
(* the counters that number their files; and the life of a session, from   *)
(* main(), which wipes the output, to the exception or signal that ends it.*)
(* AFL keeps running through all of it.                                    *)
(***************************************************************************)
EXTENDS AFLMap

CONSTANT MAX_FILES          \* bound: hangs and crashes saved in a session

VARIABLES
    session,                \* "up" while a CoFuzz process runs, else "down"
    queue,                  \* concolic_out/queue: the files [id, cov]
    hangs, crashes,         \* concolic_out/hangs, crashes: the ids in use
    interesting_cnt, hang_cnt, crash_cnt

\* History: for each byte of fuzz_bitmap what it held when this session last read
\* it; a read that stops short of the byte does not count.
VARIABLE afl_seen

dirVars == <<queue, hangs, crashes>>
cntVars == <<interesting_cnt, hang_cnt, crash_cnt>>
syncVars == <<virgin, fuzz_bitmap, bitmap, session, queue, hangs, crashes,
              interesting_cnt, hang_cnt, crash_cnt, afl_seen>>

QueueFile == [id : Nat, cov : Map]

\* Types of the map, the directories and the counters (executor.py:31-36).
SyncTypeOK ==
    /\ MapTypeOK
    /\ session \in {"up", "down"}
    /\ queue \in SUBSET QueueFile
    /\ hangs \in SUBSET Nat
    /\ crashes \in SUBSET Nat
    /\ interesting_cnt \in Nat
    /\ hang_cnt \in Nat
    /\ crash_cnt \in Nat
    /\ afl_seen \in Map

SyncInit ==
    /\ MapInit
    /\ session = "down"
    /\ queue = {} /\ hangs = {} /\ crashes = {}
    /\ interesting_cnt = 0 /\ hang_cnt = 0 /\ crash_cnt = 0
    /\ afl_seen = Zeros

(***************************************************************************)
(* main() and the constructor.  init_dir empties the output directory      *)
(* before the map is loaded, so a start that fails the length assertion    *)
(* has already deleted what the last session found.                        *)
(***************************************************************************)
WipeOutput == queue' = {} /\ hangs' = {} /\ crashes' = {}

Startup ==
    /\ session = "down"
    /\ WipeOutput
    /\ LoadOk
    /\ bitmap' = LoadedBitmap
    /\ afl_seen' = LoadedBitmap
    /\ session' = "up"
    /\ interesting_cnt' = 0 /\ hang_cnt' = 0 /\ crash_cnt' = 0
    /\ UNCHANGED aflVars

StartupFails ==
    /\ session = "down"
    /\ WipeOutput
    /\ ~LoadOk
    /\ UNCHANGED <<virgin, fuzz_bitmap, bitmap, session, cntVars, afl_seen>>

\* An uncaught exception, a signal: the files stay, the memory is gone.
Stop ==
    /\ session = "up"
    /\ session' = "down"
    /\ UNCHANGED <<virgin, fuzz_bitmap, bitmap, dirVars, cntVars, afl_seen>>

(***************************************************************************)
(* __sync_seed: afl-showmap runs the test case; 0 is a clean run, 1 a      *)
(* timeout, 2 a crash, and any other code is ignored.                      *)
(***************************************************************************)
RetCode == 0 .. 3

SaveInteresting(testcase_bitmap) ==
    /\ MergeTestcase(testcase_bitmap)
    /\ IF CovIncrease(testcase_bitmap) # 0
       THEN /\ queue' = queue \cup {[id |-> interesting_cnt, cov |-> testcase_bitmap]}
            /\ interesting_cnt' = interesting_cnt + 1
       ELSE UNCHANGED <<queue, interesting_cnt>>
    /\ UNCHANGED <<hangs, crashes, hang_cnt, crash_cnt>>

SaveHang ==
    /\ hang_cnt < MAX_FILES
    /\ hangs' = hangs \cup {hang_cnt}
    /\ hang_cnt' = hang_cnt + 1
    /\ UNCHANGED <<bitmap, queue, crashes, interesting_cnt, crash_cnt>>

BugSaveCrash ==
    /\ crash_cnt < MAX_FILES
    /\ crashes' = crashes \cup {crash_cnt}
    /\ hang_cnt' = hang_cnt + 1
    /\ UNCHANGED <<bitmap, queue, hangs, interesting_cnt, crash_cnt>>

SaveCrash ==
    /\ crash_cnt < MAX_FILES
    /\ crashes' = crashes \cup {crash_cnt}
    /\ crash_cnt' = crash_cnt + 1
    /\ UNCHANGED <<bitmap, queue, hangs, interesting_cnt, hang_cnt>>

SyncSeed(ret, testcase_bitmap) ==
    /\ \/ ret = 0 /\ SaveInteresting(testcase_bitmap)
       \/ ret = 1 /\ SaveHang
       \/ ret = 2 /\ SaveCrash
       \/ ret \notin {0, 1, 2} /\ UNCHANGED <<bitmap, dirVars, cntVars>>
    /\ UNCHANGED <<virgin, fuzz_bitmap, session, afl_seen>>

SyncTestcase ==
    /\ session = "up"
    /\ \E ret \in RetCode, cov \in Map : SyncSeed(ret, cov)

SeenInFile ==
    [i \in Idx |-> IF fuzz_bitmap.exists /\ i < fuzz_bitmap.size
                   THEN Flip(fuzz_bitmap.data[i])
                   ELSE afl_seen[i]]

\* Called before the test cases of a concolic run or of a crack are synced.
RefreshBitmap ==
    /\ session = "up"
    /\ UpdateBitmap
    /\ afl_seen' = SeenInFile
    /\ UNCHANGED <<virgin, fuzz_bitmap, session, dirVars, cntVars>>

Afl == AflStep /\ UNCHANGED <<session, dirVars, cntVars, afl_seen>>

SyncNext ==
    \/ Afl
    \/ Startup
    \/ StartupFails
    \/ Stop
    \/ SyncTestcase
    \/ RefreshBitmap

SyncSpec == SyncInit /\ [][SyncNext]_syncVars

-----------------------------------------------------------------------------

\* The map claims no coverage nobody reached (afl.py:75-91): every bit of it has
\* been hit by AFL or by a saved test case, even if the file was read half written.
Sound ==
    session = "up" =>
        \A i \in Idx : \A b \in bitmap[i] :
            b \notin virgin[i] \/ \E f \in queue : b \in f.cov[i]

\* No seed of the queue is redundant (executor.py:56-62): each covers a point
\* that no seed saved before it covers, whatever AFL's file said in between.
Novel ==
    \A f \in queue : \E i \in Idx : \E b \in f.cov[i] :
        \A g \in queue : g.id < f.id => b \notin g.cov[i]

\* No saved file overwrites another and the ids have no gaps (executor.py:58-74):
\* the ids in a directory are those below its counter, with one file for each.
Numbered ==
    session = "up" =>
        /\ {f.id : f \in queue} = 0 .. interesting_cnt - 1
        /\ \A f, g \in queue : f.id = g.id => f = g
        /\ hangs = 0 .. hang_cnt - 1
        /\ crashes = 0 .. crash_cnt - 1

\* A saved seed is news to AFL, as far as CoFuzz could know (afl.py:75-91): it
\* covers a point that is not in what any byte of fuzz_bitmap held when CoFuzz last
\* read it.  A byte that a refresh misses because AFL is rewriting the file keeps
\* what an older read found, even if AFL had written more to it in the meantime.
NewsToAfl ==
    [][\A f \in queue' \ queue : \E i \in Idx : ~(f.cov[i] \subseteq afl_seen[i])]_syncVars

-----------------------------------------------------------------------------
(***************************************************************************)
(* The promise of SeedArchive, seen through the points of the maps.        *)
(***************************************************************************)
Point == Idx \X Bits
PointsOf(map) == {p \in Point : p[2] \in map[p[1]]}

Promise == INSTANCE SeedArchive WITH
               known <- PointsOf(bitmap),
               archive <- {PointsOf(f.cov) : f \in queue}

\* __sync_seed, update_bitmap and a restart implement the archive: a seed is
\* saved only for coverage unknown so far, and known coverage is never forgotten.
KeepsPromise == Promise!Spec
=============================================================================
