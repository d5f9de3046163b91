------------------------------- MODULE AFLMap -------------------------------
(***************************************************************************)
(* afl.py, class AFLMap: CoFuzz's own record of the edge coverage reached, *)
(* and the file it is fed from.  AFL runs beside CoFuzz and rewrites the   *)
(* file fuzz_bitmap in place whenever it likes; nothing locks it, so a     *)
(* reader may find it absent, or cut short by a write that has not ended.  *)
(*                                                                         *)
(* A byte of the map is the set of its bits that are 1: XOR with 255 is    *)
(* complement and OR is union.                                             *)
(***************************************************************************)
EXTENDS FuzzConfig, FiniteSets

CONSTANT Bits               \* the bits of one byte of the map

Byte == SUBSET Bits
Map == [Idx -> Byte]
Zeros == [i \in Idx |-> {}]

VARIABLES
    virgin,         \* AFL's memory: the bits no input has hit yet are 1
    fuzz_bitmap,    \* the file: data is what AFL writes, size what has reached it
    bitmap          \* AFLMap.bitmap: the bits known to be hit are 1

aflVars == <<virgin, fuzz_bitmap>>

NoFile == [exists |-> FALSE, size |-> 0, data |-> Zeros]
File == [exists : BOOLEAN, size : 0 .. MAP_SIZE, data : Map]

MapTypeOK ==
    /\ virgin \in Map
    /\ fuzz_bitmap \in File
    /\ bitmap \in Map

MapInit ==
    /\ virgin = [i \in Idx |-> Bits]
    /\ fuzz_bitmap = NoFile
    /\ bitmap = Zeros

(***************************************************************************)
(* AFL, external: it finds new coverage, and rewrites the file from its    *)
(* memory, which is frozen until the write is over.                        *)
(***************************************************************************)
Flushing == fuzz_bitmap.exists /\ fuzz_bitmap.size < MAP_SIZE

AflCover ==
    /\ ~Flushing
    /\ \E i \in Idx : \E b \in virgin[i] : virgin' = [virgin EXCEPT ![i] = @ \ {b}]
    /\ UNCHANGED <<fuzz_bitmap, bitmap>>

AflTruncate ==
    /\ ~Flushing
    /\ fuzz_bitmap' = [exists |-> TRUE, size |-> 0, data |-> virgin]
    /\ UNCHANGED <<virgin, bitmap>>

AflWrite ==
    /\ Flushing
    /\ \E n \in fuzz_bitmap.size + 1 .. MAP_SIZE :
           fuzz_bitmap' = [fuzz_bitmap EXCEPT !.size = n]
    /\ UNCHANGED <<virgin, bitmap>>

AflStep == AflCover \/ AflTruncate \/ AflWrite

(***************************************************************************)
(* AFLMap itself.  The file holds virgin bits, so every byte read is       *)
(* flipped.                                                                *)
(***************************************************************************)
Flip(b) == Bits \ b

\* __init_bitmap reads a whole file or stops CoFuzz with an AssertionError;
\* without a file the map is all zero.
LoadOk == fuzz_bitmap.exists => fuzz_bitmap.size = MAP_SIZE

LoadedBitmap ==
    IF fuzz_bitmap.exists THEN [i \in Idx |-> Flip(fuzz_bitmap.data[i])] ELSE Zeros

\* update_bitmap walks over the bytes it has read, however few, and ORs them in.
BugUpdatePadded ==
    bitmap' = [i \in Idx |->
        IF fuzz_bitmap.exists
        THEN bitmap[i] \cup
                 Flip(IF i < fuzz_bitmap.size THEN fuzz_bitmap.data[i] ELSE {})
        ELSE bitmap[i]]

BugUpdateOverwrites ==
    bitmap' = [i \in Idx |->
        IF fuzz_bitmap.exists /\ i < fuzz_bitmap.size
        THEN Flip(fuzz_bitmap.data[i])
        ELSE bitmap[i]]

BugUpdateForgotten == bitmap' = bitmap

UpdateBitmap ==
    bitmap' = [i \in Idx |->
        IF fuzz_bitmap.exists /\ i < fuzz_bitmap.size
        THEN bitmap[i] \cup Flip(fuzz_bitmap.data[i])
        ELSE bitmap[i]]

\* is_interesting counts the bytes a test case changes ...
CovIncrease(testcase_bitmap) ==
    Cardinality({i \in Idx : bitmap[i] \cup testcase_bitmap[i] # bitmap[i]})

\* ... and merges them on the way.
BugMergeNothing(testcase_bitmap) == bitmap' = bitmap

MergeTestcase(testcase_bitmap) ==
    bitmap' = [i \in Idx |-> bitmap[i] \cup testcase_bitmap[i]]
=============================================================================
