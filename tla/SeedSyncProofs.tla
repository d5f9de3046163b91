--------------------------- MODULE SeedSyncProofs ---------------------------
(***************************************************************************)
(* The invariants of SeedSync for every map size, every number of bits per *)
(* byte and every number of saved files, and the refinement of SeedArchive.*)
(***************************************************************************)
EXTENDS SeedSync, FiniteSetTheorems, TLAPS

(***************************************************************************)
(* Types.                                                                  *)
(***************************************************************************)
LEMMA FlipType == ASSUME NEW b PROVE Flip(b) \in Byte
  BY DEF Flip, Byte

\* A refresh keeps the map a map, however short the file read.
LEMMA UpdateType ==
  ASSUME bitmap \in Map, UpdateBitmap
  PROVE  bitmap' \in Map
  BY FlipType DEF UpdateBitmap, Map, Byte, Flip

\* What was seen of the file is a map as well.
LEMMA SeenType ==
  ASSUME afl_seen \in Map
  PROVE  SeenInFile \in Map
  BY DEF SeenInFile, Map, Byte, Flip

\* The types hold at the start.
LEMMA TypeInit == SyncInit => SyncTypeOK
<1>1. Zeros \in Map
  BY DEF Zeros, Map, Byte
<1>2. NoFile \in File
  BY <1>1, MapSizeAssumption DEF NoFile, File
<1>3. [i \in Idx |-> Bits] \in Map
  BY DEF Map, Byte
<1> QED
  BY <1>1, <1>2, <1>3 DEF SyncInit, MapInit, SyncTypeOK, MapTypeOK

\* Saving a test case keeps the types.
LEMMA SyncSeedType ==
  ASSUME SyncTypeOK, NEW ret \in RetCode, NEW cov \in Map, SyncSeed(ret, cov)
  PROVE  SyncTypeOK'
<1> USE DEF SyncTypeOK, MapTypeOK, dirVars, cntVars
<1>1. UNCHANGED <<virgin, fuzz_bitmap, session, afl_seen>>
  BY DEF SyncSeed
<1>2. CASE SaveInteresting(cov)
  <2>1. bitmap' \in Map
    BY <1>2 DEF SaveInteresting, MergeTestcase, Map, Byte
  <2>2. queue' \in SUBSET QueueFile /\ interesting_cnt' \in Nat
    BY <1>2 DEF SaveInteresting, QueueFile
  <2> QED
    BY <1>1, <1>2, <2>1, <2>2 DEF SaveInteresting
<1>3. CASE SaveHang
  BY <1>1, <1>3 DEF SaveHang
<1>4. CASE SaveCrash
  BY <1>1, <1>4 DEF SaveCrash
<1>5. CASE UNCHANGED <<bitmap, dirVars, cntVars>>
  BY <1>1, <1>5
<1> QED
  BY <1>2, <1>3, <1>4, <1>5 DEF SyncSeed

\* So does AFL's writing.
LEMMA AflType ==
  ASSUME SyncTypeOK, Afl
  PROVE  SyncTypeOK'
<1> USE DEF SyncTypeOK, MapTypeOK, Afl, dirVars, cntVars
<1>1. CASE AflCover
  BY <1>1 DEF AflCover, Map, Byte
<1>2. CASE AflTruncate
  <2>1. fuzz_bitmap' \in File
    BY <1>2, MapSizeAssumption DEF AflTruncate, File
  <2> QED
    BY <1>2, <2>1 DEF AflTruncate
<1>3. CASE AflWrite
  <2>1. PICK n \in fuzz_bitmap.size + 1 .. MAP_SIZE :
            fuzz_bitmap' = [fuzz_bitmap EXCEPT !.size = n]
    BY <1>3 DEF AflWrite
  <2>2. n \in 0 .. MAP_SIZE
    BY <2>1, MapSizeAssumption DEF File
  <2>3. fuzz_bitmap' \in File
    BY <2>1, <2>2 DEF File
  <2> QED
    BY <1>3, <2>3 DEF AflWrite
<1> QED
  BY <1>1, <1>2, <1>3 DEF AflStep

\* So does every step.
LEMMA TypeStep == SyncTypeOK /\ [SyncNext]_syncVars => SyncTypeOK'
<1> SUFFICES ASSUME SyncTypeOK, [SyncNext]_syncVars
             PROVE  SyncTypeOK'
  OBVIOUS
<1>1. CASE Afl
  BY <1>1, AflType
<1>2. CASE Startup
  <2>1. LoadedBitmap \in Map
    BY DEF LoadedBitmap, Map, Byte, Flip, Zeros
  <2> QED
    BY <1>2, <2>1 DEF SyncTypeOK, MapTypeOK, Startup, WipeOutput, aflVars
<1>3. CASE StartupFails
  BY <1>3 DEF SyncTypeOK, MapTypeOK, StartupFails, WipeOutput, cntVars
<1>4. CASE Stop
  BY <1>4 DEF SyncTypeOK, MapTypeOK, Stop, dirVars, cntVars
<1>5. CASE SyncTestcase
  BY <1>5, SyncSeedType DEF SyncTestcase
<1>6. CASE RefreshBitmap
  BY <1>6, UpdateType, SeenType DEF SyncTypeOK, MapTypeOK, RefreshBitmap, dirVars, cntVars
<1>7. CASE UNCHANGED syncVars
  BY <1>7 DEF SyncTypeOK, MapTypeOK, syncVars
<1> QED
  BY <1>1, <1>2, <1>3, <1>4, <1>5, <1>6, <1>7 DEF SyncNext

\* Every field of the map, the directories and the counters keeps its type
\* (executor.py:31-36, afl.py:63-91).
THEOREM SyncTypeCorrect == SyncSpec => []SyncTypeOK
  BY TypeInit, TypeStep, PTL DEF SyncSpec

-----------------------------------------------------------------------------
(***************************************************************************)
(* The inductive invariant.  Sound and Novel are not inductive alone:      *)
(* update_bitmap is sound because the file, frozen at some earlier moment, *)
(* never claims more than AFL's memory, which only grows; and a saved seed *)
(* is new relative to the older ones because the map has absorbed them.    *)
(***************************************************************************)
FileNotAhead ==
    fuzz_bitmap.exists => \A i \in Idx : virgin[i] \subseteq fuzz_bitmap.data[i]

Absorbed ==
    session = "up" => \A f \in queue : \A i \in Idx : f.cov[i] \subseteq bitmap[i]

SyncInv ==
    /\ SyncTypeOK
    /\ FileNotAhead
    /\ Absorbed
    /\ Sound
    /\ Novel
    /\ Numbered

\* The invariant holds at the start: there is no file and no seed.
LEMMA InvInit == SyncInit => SyncInv
<1> SUFFICES ASSUME SyncInit PROVE SyncInv
  OBVIOUS
<1>1. SyncTypeOK
  BY TypeInit
<1>2. FileNotAhead
  BY DEF SyncInit, MapInit, NoFile, FileNotAhead
<1>3. Absorbed /\ Sound /\ Novel /\ Numbered
  BY DEF SyncInit, Absorbed, Sound, Novel, Numbered
<1> QED
  BY <1>1, <1>2, <1>3 DEF SyncInv

\* AFL only adds coverage to its memory, and rewrites the file from it.
LEMMA AflInv ==
  ASSUME SyncInv, SyncTypeOK', Afl
  PROVE  SyncInv'
<1> USE DEF SyncInv, Afl, dirVars, cntVars
<1>1. UNCHANGED <<bitmap, session, queue, hangs, crashes, interesting_cnt, hang_cnt, crash_cnt>>
  BY DEF AflStep, AflCover, AflTruncate, AflWrite
<1>2. \A i \in Idx : virgin'[i] \subseteq virgin[i]
  BY DEF AflStep, AflCover, AflTruncate, AflWrite, SyncTypeOK, MapTypeOK, Map
<1>3. FileNotAhead'
  <2>1. CASE AflCover
    BY <1>2, <2>1 DEF AflCover, FileNotAhead
  <2>2. CASE AflTruncate
    BY <2>2 DEF AflTruncate, FileNotAhead
  <2>3. CASE AflWrite
    BY <2>3 DEF AflWrite, FileNotAhead, SyncTypeOK, MapTypeOK, File
  <2> QED
    BY <2>1, <2>2, <2>3 DEF AflStep
<1>4. Sound'
  BY <1>1, <1>2 DEF Sound
<1>5. Absorbed' /\ Novel' /\ Numbered'
  BY <1>1 DEF Absorbed, Novel, Numbered
<1> QED
  BY <1>3, <1>4, <1>5

\* A start wipes the queue and loads a map that is true, if perhaps short.
LEMMA StartupInv ==
  ASSUME SyncInv, SyncTypeOK', Startup
  PROVE  SyncInv'
<1> USE DEF SyncInv, Startup, WipeOutput, aflVars
<1>1. Sound'
  <2> SUFFICES ASSUME NEW i \in Idx, NEW b \in bitmap'[i]
               PROVE  b \notin virgin[i]
    BY DEF Sound
  <2> QED
    BY DEF LoadedBitmap, Flip, Zeros, FileNotAhead
<1>2. Numbered'
  BY DEF Numbered
<1> QED
  BY <1>1, <1>2 DEF FileNotAhead, Absorbed, Novel

\* A refresh adds only what AFL had reached when it wrote the file.
LEMMA UpdateInv ==
  ASSUME SyncInv, SyncTypeOK', RefreshBitmap
  PROVE  SyncInv'
<1> USE DEF SyncInv, RefreshBitmap, dirVars, cntVars, UpdateBitmap
<1>1. Sound'
  <2> SUFFICES ASSUME NEW i \in Idx, NEW b \in bitmap'[i], b \notin bitmap[i]
               PROVE  b \notin virgin[i]
    BY DEF Sound
  <2> QED
    BY DEF Flip, FileNotAhead
<1>2. Absorbed'
  BY DEF Absorbed
<1> QED
  BY <1>1, <1>2 DEF FileNotAhead, Novel, Numbered

\* A positive coverage increase is a point the map did not have.
LEMMA IncreaseIsNew ==
  ASSUME NEW cov, CovIncrease(cov) # 0
  PROVE  \E i \in Idx : \E b \in cov[i] : b \notin bitmap[i]
<1>1. {i \in Idx : bitmap[i] \cup cov[i] # bitmap[i]} # {}
  BY FS_EmptySet DEF CovIncrease
<1> QED
  BY <1>1

\* Without a coverage increase, merging changes nothing.
LEMMA NoIncreaseNothingNew ==
  ASSUME NEW cov, CovIncrease(cov) = 0
  PROVE  \A i \in Idx : bitmap[i] \cup cov[i] = bitmap[i]
<1> DEFINE changed == {i \in Idx : bitmap[i] \cup cov[i] # bitmap[i]}
<1>1. IsFiniteSet(Idx)
  BY MapSizeAssumption, FS_Interval DEF Idx
<1>2. IsFiniteSet(changed)
  BY <1>1, FS_Subset
<1>3. changed = {}
  BY <1>2, FS_EmptySet DEF CovIncrease
<1> QED
  BY <1>3

\* A seed saved has a point the seeds before it have not, since theirs are in the map.
LEMMA SaveInterestingInv ==
  ASSUME SyncInv, SyncTypeOK', session = "up", NEW cov \in Map, SaveInteresting(cov),
         UNCHANGED <<virgin, fuzz_bitmap, session>>
  PROVE  SyncInv'
<1> USE DEF SyncInv
<1>1. \A i \in Idx : bitmap'[i] = bitmap[i] \cup cov[i]
  BY DEF SaveInteresting, MergeTestcase
<1>2. CASE CovIncrease(cov) # 0
  <2> DEFINE new == [id |-> interesting_cnt, cov |-> cov]
  <2>1. queue' = queue \cup {new} /\ interesting_cnt' = interesting_cnt + 1
    BY <1>2 DEF SaveInteresting
  <2>2. \A f \in queue : f.id \in Nat /\ f.id < interesting_cnt
    BY DEF Numbered, SyncTypeOK, QueueFile
  <2> HIDE DEF new
  <2>0. new.cov = cov /\ new.id = interesting_cnt
    BY DEF new
  <2>3. Sound'
    <3> SUFFICES ASSUME NEW i \in Idx, NEW b \in bitmap'[i], b \in virgin[i]
                 PROVE  \E f \in queue' : b \in f.cov[i]
      BY DEF Sound
    <3>1. CASE b \in bitmap[i]
      BY <2>1, <3>1 DEF Sound
    <3>2. CASE b \in cov[i]
      BY <2>0, <2>1, <3>2
    <3> QED
      BY <1>1, <3>1, <3>2
  <2>4. Absorbed'
    BY <1>1, <2>0, <2>1 DEF Absorbed
  <2>5. Novel'
    <3>1. \E i \in Idx : \E b \in new.cov[i] :
              \A g \in queue' : g.id < new.id => b \notin g.cov[i]
      <4>0. PICK i \in Idx : \E b \in cov[i] : b \notin bitmap[i]
        BY <1>2, IncreaseIsNew
      <4>1. PICK b \in cov[i] : b \notin bitmap[i]
        BY <4>0
      <4>2. \A g \in queue' : g.id < new.id => b \notin g.cov[i]
        BY <2>0, <2>1, <4>1 DEF Absorbed, SyncTypeOK
      <4> QED
        BY <2>0, <4>1, <4>2
    <3>2. ASSUME NEW f \in queue
          PROVE  \E i \in Idx : \E b \in f.cov[i] :
                     \A g \in queue' : g.id < f.id => b \notin g.cov[i]
      <4>1. ~(new.id < f.id)
        BY <2>0, <2>2 DEF SyncTypeOK
      <4> DEFINE Fresh(i, b) == \A g \in queue : g.id < f.id => b \notin g.cov[i]
      <4>2. PICK i \in Idx : \E b \in f.cov[i] : Fresh(i, b)
        BY DEF Novel
      <4>3. PICK b \in f.cov[i] : Fresh(i, b)
        BY <4>2
      <4> QED
        BY <2>1, <4>1, <4>2, <4>3
    <3> QED
      BY <2>1, <3>1, <3>2 DEF Novel
  <2>6. Numbered'
    <3>1. {f.id : f \in queue'} = {f.id : f \in queue} \cup {interesting_cnt}
      BY <2>0, <2>1
    <3>2. {f.id : f \in queue'} = 0 .. interesting_cnt' - 1
      <4>1. {f.id : f \in queue} = 0 .. interesting_cnt - 1
        BY DEF Numbered
      <4>2. 0 .. (interesting_cnt + 1) - 1 = (0 .. interesting_cnt - 1) \cup {interesting_cnt}
        BY DEF SyncTypeOK
      <4> QED
        BY <2>1, <3>1, <4>1, <4>2
    <3>3. \A f, g \in queue' : f.id = g.id => f = g
      BY <2>0, <2>1, <2>2 DEF Numbered, SyncTypeOK
    <3> QED
      BY <3>2, <3>3 DEF SaveInteresting, Numbered
  <2> QED
    BY <2>3, <2>4, <2>5, <2>6 DEF FileNotAhead
<1>3. CASE CovIncrease(cov) = 0
  <2>1. UNCHANGED <<queue, interesting_cnt, hangs, crashes, hang_cnt, crash_cnt>>
    BY <1>3 DEF SaveInteresting
  <2>2. bitmap' = bitmap
    <3>1. \A i \in Idx : bitmap[i] \cup cov[i] = bitmap[i]
      BY <1>3, NoIncreaseNothingNew
    <3> QED
      BY <3>1 DEF SaveInteresting, MergeTestcase, SyncTypeOK, MapTypeOK, Map
  <2> QED
    BY <2>1, <2>2 DEF FileNotAhead, Absorbed, Sound, Novel, Numbered
<1> QED
  BY <1>2, <1>3

\* A test case saved by its return code keeps the invariant.
LEMMA SyncSeedInv ==
  ASSUME SyncInv, SyncTypeOK', session = "up", NEW ret \in RetCode, NEW cov \in Map,
         SyncSeed(ret, cov)
  PROVE  SyncInv'
<1>1. UNCHANGED <<virgin, fuzz_bitmap, session>>
  BY DEF SyncSeed
<1>2. CASE SaveInteresting(cov)
  BY <1>1, <1>2, SaveInterestingInv
<1>3. CASE SaveHang
  <2>1. 0 .. (hang_cnt + 1) - 1 = (0 .. hang_cnt - 1) \cup {hang_cnt}
    BY DEF SyncInv, SyncTypeOK
  <2>2. Numbered'
    BY <1>1, <1>3, <2>1 DEF SyncInv, Numbered, SaveHang
  <2> QED
    BY <1>1, <1>3, <2>2 DEF SaveHang, SyncInv, FileNotAhead, Absorbed, Sound, Novel
<1>4. CASE SaveCrash
  <2>1. 0 .. (crash_cnt + 1) - 1 = (0 .. crash_cnt - 1) \cup {crash_cnt}
    BY DEF SyncInv, SyncTypeOK
  <2>2. Numbered'
    BY <1>1, <1>4, <2>1 DEF SyncInv, Numbered, SaveCrash
  <2> QED
    BY <1>1, <1>4, <2>2 DEF SaveCrash, SyncInv, FileNotAhead, Absorbed, Sound, Novel
<1>5. CASE UNCHANGED <<bitmap, dirVars, cntVars>>
  BY <1>1, <1>5 DEF SyncInv, dirVars, cntVars, FileNotAhead, Absorbed, Sound, Novel, Numbered
<1> QED
  BY <1>2, <1>3, <1>4, <1>5 DEF SyncSeed

\* Every step keeps the invariant.
LEMMA InvStep == SyncInv /\ [SyncNext]_syncVars => SyncInv'
<1> SUFFICES ASSUME SyncInv, [SyncNext]_syncVars
             PROVE  SyncInv'
  OBVIOUS
<1>0. SyncTypeOK'
  BY TypeStep DEF SyncInv
<1>1. CASE Afl
  BY <1>0, <1>1, AflInv
<1>2. CASE Startup
  BY <1>0, <1>2, StartupInv
<1>3. CASE StartupFails
  BY <1>0, <1>3
     DEF StartupFails, WipeOutput, cntVars, SyncInv, FileNotAhead, Absorbed, Sound, Novel, Numbered
<1>4. CASE Stop
  BY <1>0, <1>4 DEF Stop, dirVars, cntVars, SyncInv, FileNotAhead, Absorbed, Sound, Novel, Numbered
<1>5. CASE SyncTestcase
  BY <1>0, <1>5, SyncSeedInv DEF SyncTestcase
<1>6. CASE RefreshBitmap
  BY <1>0, <1>6, UpdateInv
<1>7. CASE UNCHANGED syncVars
  BY <1>0, <1>7 DEF syncVars, SyncInv, FileNotAhead, Absorbed, Sound, Novel, Numbered
<1> QED
  BY <1>1, <1>2, <1>3, <1>4, <1>5, <1>6, <1>7 DEF SyncNext

\* The inductive invariant holds of every session, crash and restart
\* (executor.py:51-74, afl.py:63-91).
THEOREM SyncInvariant == SyncSpec => []SyncInv
  BY InvInit, InvStep, PTL DEF SyncSpec

\* CoFuzz's map never claims coverage that neither AFL nor a saved test case
\* reached, whatever part of AFL's file it got to read (afl.py:75-91).
THEOREM Soundness == SyncSpec => []Sound
<1>1. SyncInv => Sound
  BY DEF SyncInv
<1> QED
  BY <1>1, SyncInvariant, PTL

\* No seed of the queue repeats what the seeds before it cover (executor.py:56-62).
THEOREM Novelty == SyncSpec => []Novel
<1>1. SyncInv => Novel
  BY DEF SyncInv
<1> QED
  BY <1>1, SyncInvariant, PTL

\* The files of a directory are numbered from 0 without gaps or overwriting
\* (executor.py:58-74).
THEOREM Numbering == SyncSpec => []Numbered
<1>1. SyncInv => Numbered
  BY DEF SyncInv
<1> QED
  BY <1>1, SyncInvariant, PTL

-----------------------------------------------------------------------------
(***************************************************************************)
(* News: all that was seen of AFL's file is in the map.                    *)
(***************************************************************************)
SeenAbsorbed == session = "up" => \A i \in Idx : afl_seen[i] \subseteq bitmap[i]

\* Saving a test case takes nothing out of the map.
LEMMA SaveKeepsSeen ==
  ASSUME SeenAbsorbed, SyncTestcase
  PROVE  SeenAbsorbed'
<1>1. PICK ret \in RetCode, cov \in Map : SyncSeed(ret, cov)
  BY DEF SyncTestcase
<1>2. UNCHANGED <<session, afl_seen>>
  BY <1>1 DEF SyncSeed
<1>3. CASE SaveInteresting(cov)
  BY <1>2, <1>3 DEF SaveInteresting, MergeTestcase, SeenAbsorbed
<1>4. CASE UNCHANGED bitmap
  BY <1>2, <1>4 DEF SeenAbsorbed
<1> QED
  BY <1>1, <1>3, <1>4 DEF SyncSeed, SaveHang, SaveCrash

\* Every step keeps what was seen in the map: a refresh adds the bytes it sees, and a
\* start loads all it sees.
LEMMA SeenStep == SeenAbsorbed /\ [SyncNext]_syncVars => SeenAbsorbed'
<1> SUFFICES ASSUME SeenAbsorbed, [SyncNext]_syncVars PROVE SeenAbsorbed'
  OBVIOUS
<1>1. CASE RefreshBitmap
  BY <1>1 DEF RefreshBitmap, UpdateBitmap, SeenInFile, SeenAbsorbed
<1>2. CASE SyncTestcase
  BY <1>2, SaveKeepsSeen
<1>3. CASE Startup
  BY <1>3 DEF Startup, SeenAbsorbed
<1>4. CASE Afl
  BY <1>4 DEF Afl, AflStep, AflCover, AflTruncate, AflWrite, SeenAbsorbed
<1>5. CASE StartupFails \/ Stop \/ UNCHANGED syncVars
  BY <1>5 DEF StartupFails, Stop, syncVars, SeenAbsorbed
<1> QED
  BY <1>1, <1>2, <1>3, <1>4, <1>5 DEF SyncNext

\* A seed saved has a point the map did not have, so one that was not seen.
LEMMA NewsStep ==
  ASSUME SeenAbsorbed, [SyncNext]_syncVars
  PROVE  \A f \in queue' \ queue : \E i \in Idx : ~(f.cov[i] \subseteq afl_seen[i])
<1> SUFFICES ASSUME NEW f \in queue' \ queue
             PROVE  \E i \in Idx : ~(f.cov[i] \subseteq afl_seen[i])
  OBVIOUS
<1>1. SyncTestcase
  BY DEF SyncNext, syncVars, Afl, dirVars, Startup, StartupFails, WipeOutput, Stop,
         RefreshBitmap
<1>2. PICK ret \in RetCode, cov \in Map : SyncSeed(ret, cov)
  BY <1>1 DEF SyncTestcase
<1>3. SaveInteresting(cov)
  BY <1>2 DEF SyncSeed, SaveHang, SaveCrash, dirVars
<1>4. CovIncrease(cov) # 0 /\ f.cov = cov
  BY <1>3 DEF SaveInteresting
<1>5. PICK i \in Idx : \E b \in cov[i] : b \notin bitmap[i]
  BY <1>4, IncreaseIsNew
<1> QED
  BY <1>1, <1>4, <1>5 DEF SyncTestcase, SeenAbsorbed

\* A seed is only saved for coverage that is not in what CoFuzz last read of any byte
\* of AFL's file, however often AFL rewrites it before, during and after the reads
\* (executor.py:88, 104, afl.py:75-91).
THEOREM SeedsAreNews == SyncSpec => NewsToAfl
<1>1. SyncInit => SeenAbsorbed
  BY DEF SyncInit, SeenAbsorbed
<1>2. SeenAbsorbed /\ [SyncNext]_syncVars =>
        [\A f \in queue' \ queue : \E i \in Idx : ~(f.cov[i] \subseteq afl_seen[i])]_syncVars
  BY NewsStep
<1> QED
  BY <1>1, <1>2, SeenStep, PTL DEF SyncSpec, NewsToAfl

-----------------------------------------------------------------------------
(***************************************************************************)
(* Refinement: every step archives a seed, learns, restarts or stutters.   *)
(***************************************************************************)
LEMMA PointsType == ASSUME NEW map PROVE PointsOf(map) \in SUBSET Point
  BY DEF PointsOf

\* The initial states are initial states of the archive.
LEMMA PromiseInit == SyncInit => Promise!Init
  BY PointsType DEF SyncInit, Promise!Init

\* Merging a map is learning the points of the other.
LEMMA PointsMerge ==
  ASSUME NEW cov, \A i \in Idx : bitmap'[i] = bitmap[i] \cup cov[i]
  PROVE  PointsOf(bitmap)' = PointsOf(bitmap) \cup PointsOf(cov)
  BY DEF PointsOf, Point

\* Saving a test case archives it, or, if it has nothing new, learns its points.
LEMMA PromiseSave ==
  ASSUME SyncTypeOK, NEW cov \in Map, SaveInteresting(cov)
  PROVE  [Promise!Next]_(Promise!vars)
<1>1. \A i \in Idx : bitmap'[i] = bitmap[i] \cup cov[i]
  BY DEF SaveInteresting, MergeTestcase
<1>2. PointsOf(bitmap)' = PointsOf(bitmap) \cup PointsOf(cov)
  BY <1>1, PointsMerge
<1>3. CASE CovIncrease(cov) # 0
  <2> DEFINE new == [id |-> interesting_cnt, cov |-> cov]
  <2>1. queue' = queue \cup {new}
    BY <1>3 DEF SaveInteresting
  <2> HIDE DEF new
  <2>2. new.cov = cov
    BY DEF new
  <2>3. {PointsOf(f.cov) : f \in queue'} = {PointsOf(f.cov) : f \in queue} \cup {PointsOf(cov)}
    BY <2>1, <2>2
  <2>4. ~(PointsOf(cov) \subseteq PointsOf(bitmap))
    <3>1. PICK i \in Idx : \E b \in cov[i] : b \notin bitmap[i]
      BY <1>3, IncreaseIsNew
    <3>2. PICK b \in cov[i] : b \notin bitmap[i]
      BY <3>1
    <3>3. <<i, b>> \in Point
      BY <3>2 DEF Point, Map, Byte
    <3> QED
      BY <3>2, <3>3 DEF PointsOf
  <2>5. Promise!Archive
    BY <1>2, <2>3, <2>4, PointsType DEF Promise!Archive
  <2> QED
    BY <2>5 DEF Promise!Next
<1>4. CASE CovIncrease(cov) = 0
  <2>1. UNCHANGED queue
    BY <1>4 DEF SaveInteresting
  <2>2. Promise!Learn
    BY <1>2, <2>1, PointsType DEF Promise!Learn
  <2> QED
    BY <2>2 DEF Promise!Next
<1> QED
  BY <1>3, <1>4

\* Every step is one of the archive or a stutter.
LEMMA PromiseStep == SyncTypeOK /\ [SyncNext]_syncVars => [Promise!Next]_(Promise!vars)
<1> SUFFICES ASSUME SyncTypeOK, [SyncNext]_syncVars
             PROVE  [Promise!Next]_(Promise!vars)
  OBVIOUS
<1>0. ASSUME UNCHANGED <<bitmap, queue>>
      PROVE  UNCHANGED Promise!vars
  BY <1>0 DEF Promise!vars, PointsOf
<1>1. CASE Afl
  <2>1. UNCHANGED <<bitmap, queue>>
    BY <1>1 DEF Afl, AflStep, AflCover, AflTruncate, AflWrite, dirVars
  <2> QED
    BY <1>0, <2>1
<1>2. CASE Startup \/ StartupFails
  <2>1. queue' = {}
    BY <1>2 DEF Startup, StartupFails, WipeOutput
  <2>2. PointsOf(bitmap)' \in SUBSET Point
    BY DEF PointsOf
  <2>3. Promise!Restart
    BY <2>1, <2>2 DEF Promise!Restart
  <2> QED
    BY <2>3 DEF Promise!Next
<1>3. CASE Stop
  BY <1>0, <1>3 DEF Stop, dirVars
<1>4. CASE SyncTestcase
  <2>1. PICK ret \in RetCode, cov \in Map : SyncSeed(ret, cov)
    BY <1>4 DEF SyncTestcase
  <2>2. CASE SaveInteresting(cov)
    BY <2>2, PromiseSave
  <2>3. CASE UNCHANGED <<bitmap, queue>>
    BY <1>0, <2>3
  <2> QED
    BY <2>1, <2>2, <2>3 DEF SyncSeed, SaveHang, SaveCrash, dirVars
<1>5. CASE RefreshBitmap
  <2> DEFINE new == [i \in Idx |->
                 IF fuzz_bitmap.exists /\ i < fuzz_bitmap.size
                 THEN Flip(fuzz_bitmap.data[i]) ELSE {}]
  <2>1. \A i \in Idx : bitmap'[i] = bitmap[i] \cup new[i]
    BY <1>5 DEF RefreshBitmap, UpdateBitmap
  <2>2. UNCHANGED queue
    BY <1>5 DEF RefreshBitmap, dirVars
  <2> HIDE DEF new
  <2>3. PointsOf(bitmap)' = PointsOf(bitmap) \cup PointsOf(new)
    BY <2>1, PointsMerge
  <2>4. Promise!Learn
    BY <2>2, <2>3, PointsType DEF Promise!Learn
  <2> QED
    BY <2>4 DEF Promise!Next
<1>6. CASE UNCHANGED syncVars
  BY <1>0, <1>6 DEF syncVars
<1> QED
  BY <1>1, <1>2, <1>3, <1>4, <1>5, <1>6 DEF SyncNext

\* The synchronisation implements the archive of novel seeds: nothing enters the
\* queue but for unknown coverage, and a session never forgets what it knows.
THEOREM Refinement == SyncSpec => KeepsPromise
  BY SyncTypeCorrect, PromiseInit, PromiseStep, PTL DEF SyncSpec, KeepsPromise, Promise!Spec
=============================================================================
