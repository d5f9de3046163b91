------------------------- MODULE CheckedHeapProofs -------------------------
(***************************************************************************)
(* The invariants of CheckedHeap, for any addresses, sizes and limits and  *)
(* in both builds.                                                         *)
(***************************************************************************)
EXTENDS CheckedHeap, SequenceTheorems, TLAPS

Why == {"ok", "size", "memory"} \cup Canary

Chunks == [c1 : {"C1", "F", "libc"}, s : 0 .. MAX_ALLOC, bytes : Seq(Cell)]

\* The shape of the heap and of what the client keeps.
Layout ==
    /\ DEBUG_BUILD \in BOOLEAN
    /\ mem \in [Ptr -> Chunks]
    /\ in_use \subseteq Ptr
    /\ status \in [why : Why, ptr : Ptr \cup {NULL}]
    /\ owned \subseteq Ptr /\ stale \subseteq Ptr
    /\ asked \in [Ptr -> 0 .. WORD - 1]
    /\ overrun \subseteq Ptr /\ misused \subseteq Ptr /\ dup_strs \subseteq Ptr

\* A buffer has room for its bytes and the tail.
Sound(chunk) == chunk.s > 0 /\ chunk.s < Len(chunk.bytes)

TailOf(chunk) == chunk.bytes[chunk.s + 1]

Room == \A p \in in_use : Sound(mem[p])

HeapInv == Layout /\ Room /\ HeadTellsUse

(***************************************************************************)
(* What a function of the allocator can do: abort the program, or take the *)
(* buffer p, if it is not NULL and whole, and give the buffer ret, if it   *)
(* is not NULL, with at least room bytes and one of tails behind them.     *)
(***************************************************************************)
Whole(p) == p \in in_use /\ CheckPtr(p) = "ok"

Exchanged(p, ret, room, tails) ==
    /\ status' = status
    /\ p = NULL \/ Whole(p)
    /\ ret = NULL \/ ret \in Ptr \ in_use \/ ret = p
    /\ in_use' = (in_use \ {p}) \cup ({ret} \ {NULL})
    /\ mem' \in [Ptr -> Chunks]
    /\ \A q \in Ptr \ {p, ret} : mem'[q] = mem[q]
    /\ ret # NULL => /\ Sound(mem'[ret]) /\ mem'[ret].c1 = "C1" /\ mem'[ret].s >= room
                     /\ TailOf(mem'[ret]) \in tails
    /\ p # NULL /\ p # ret => mem'[p].c1 # "C1"

\* Heads may have been marked, but nothing is lost.
Marked ==
    /\ mem' \in [Ptr -> Chunks] /\ UNCHANGED in_use
    /\ \A q \in Ptr : /\ mem'[q].c1 = "C1" => mem[q].c1 = "C1"
                     /\ mem'[q].s = mem[q].s /\ mem'[q].bytes = mem[q].bytes

Aborted(p) ==
    /\ Marked
    /\ status' \in [why : Why \ {"ok"}, ptr : Ptr \cup {NULL}]
    /\ status'.why \in Canary => /\ p # NULL /\ CheckPtr(p) # "ok"
                                 /\ status'.ptr = p

Outcome(p, ret, room, tails) == Aborted(p) \/ Exchanged(p, ret, room, tails)

Good == {ALLOC_MAGIC_C2}

\* The tail is one more cell, the last (alloc-inl.h:75).
LEMMA TailedShape ==
  ASSUME NEW bytes \in Seq(Cell)
  PROVE  /\ Tailed(bytes) \in Seq(Cell) /\ Len(Tailed(bytes)) = Len(bytes) + 1
         /\ Tailed(bytes)[Len(bytes) + 1] = ALLOC_MAGIC_C2
<1>1. ALLOC_MAGIC_C2 \in Cell
  BY DEF ALLOC_MAGIC_C2, Cell
<1> QED
  BY <1>1 DEF Tailed

\* ck_realloc marks one head before it may abort the program (alloc-inl.h:187-202).
LEMMA MarkedAfter ==
  ASSUME HeapInv, NEW p \in Result, NEW why, AbortMarked(why, p)
  PROVE  Marked
<1>1. mem \in [Ptr -> Chunks] /\ UNCHANGED in_use
  BY DEF HeapInv, Layout, AbortMarked
<1>2. CASE mem' = mem
  BY <1>1, <1>2 DEF Marked
<1>3. CASE p \in Ptr /\ mem' = [mem EXCEPT ![p].c1 = "F"]
  <2>1. mem[p] \in Chunks
    BY <1>1, <1>3
  <2> DEFINE head == [mem[p] EXCEPT !.c1 = "F"]
  <2>2. /\ head \in Chunks /\ head.c1 = "F" /\ head.s = mem[p].s
        /\ head.bytes = mem[p].bytes
    BY <2>1 DEF Chunks
  <2>3. mem' = [mem EXCEPT ![p] = head]
    BY <1>1, <1>3
  <2> HIDE DEF head
  <2> QED
    BY <1>1, <1>3, <2>2, <2>3 DEF Marked
<1> QED
  BY <1>2, <1>3 DEF AbortMarked, Result

\* The program is aborted for a size or for lack of memory.
LEMMA RefusedOutcome ==
  ASSUME HeapInv, NEW p, NEW ret, NEW room, NEW tails,
         NEW why \in {"size", "memory"},
         Abort(why, NULL) \/ (p \in Result /\ AbortMarked(why, p))
  PROVE  Outcome(p, ret, room, tails)
<1>1. status' = [why |-> why, ptr |-> NULL] /\ Marked
  BY MarkedAfter DEF Abort, AbortMarked, Marked, HeapInv, Layout
<1>2. why \in Why \ {"ok"} /\ why \notin Canary
  BY DEF Why, Canary
<1>3. status' \in [why : Why \ {"ok"}, ptr : Ptr \cup {NULL}] /\ status'.why = why
  BY <1>1, <1>2
<1> QED
  BY <1>1, <1>2, <1>3 DEF Outcome, Aborted

\* A buffer is made, or the program aborted for its size or for lack of memory
\* (alloc-inl.h:50-63).
LEMMA NewChunkOutcome ==
  ASSUME HeapInv, NEW size \in Nat \ {0}, NEW cells \in Seq(Cell), Len(cells) > size,
         NEW tails, cells[size + 1] \in tails,
         NEW ret \in Result, NewChunk(size, cells, ret)
  PROVE  Outcome(NULL, ret, size, tails)
<1>1. CASE ret = NULL /\ (Abort("size", NULL) \/ Abort("memory", NULL))
  BY <1>1, RefusedOutcome
<1>2. CASE /\ size <= MAX_ALLOC /\ ret \in Ptr \ in_use
           /\ mem' = [mem EXCEPT ![ret] = Chunk(size, cells)]
           /\ in_use' = in_use \cup {ret}
           /\ UNCHANGED status
  <2>1. /\ Chunk(size, cells) \in Chunks /\ Sound(Chunk(size, cells))
        /\ Chunk(size, cells).c1 = "C1"
    BY <1>2, HeapAssumption DEF Chunk, Chunks, Sound
  <2>2. mem' \in [Ptr -> Chunks] /\ mem'[ret] = Chunk(size, cells)
    BY <1>2, <2>1 DEF HeapInv, Layout
  <2>3. NULL \notin in_use /\ ret # NULL
    BY <1>2, HeapAssumption DEF HeapInv, Layout
  <2>4. in_use' = (in_use \ {NULL}) \cup ({ret} \ {NULL})
    BY <1>2, <2>3
  <2>5. \A q \in Ptr \ {NULL, ret} : mem'[q] = mem[q]
    BY <1>2 DEF HeapInv, Layout
  <2>6. Chunk(size, cells).s = size /\ TailOf(Chunk(size, cells)) \in tails
    BY DEF Chunk, TailOf
  <2> QED
    BY <1>2, <2>1, <2>2, <2>4, <2>5, <2>6 DEF Outcome, Exchanged
<1> QED
  BY <1>1, <1>2 DEF NewChunk

\* Asked for no bytes, the functions return NULL and touch nothing (alloc-inl.h:112,
\* 135, 270, 296, 320).
LEMMA NothingOutcome ==
  ASSUME HeapInv, NEW ret, NEW room, NEW tails, Nothing(ret)
  PROVE  Outcome(NULL, ret, room, tails)
<1>1. NULL \notin in_use
  BY HeapAssumption DEF HeapInv, Layout
<1> QED
  BY <1>1 DEF Nothing, heapVars, Outcome, Exchanged, HeapInv, Layout

\* ck_alloc (alloc-inl.h:129-140).
LEMMA AllocOutcome ==
  ASSUME HeapInv, NEW size \in Nat, NEW ret \in Result, DFL_ck_alloc(size, ret)
  PROVE  Outcome(NULL, ret, size, Good)
<1>1. CASE size = 0
  BY <1>1, NothingOutcome DEF DFL_ck_alloc
<1>2. CASE size # 0
  <2> DEFINE bytes == [i \in 1 .. size |-> 0]
  <2>1. bytes \in Seq(Cell) /\ Len(bytes) = size
    BY DEF Cell
  <2>2. NewChunk(size, Tailed(bytes), ret)
    BY <1>2 DEF DFL_ck_alloc
  <2> HIDE DEF bytes
  <2>3. /\ Tailed(bytes) \in Seq(Cell) /\ Len(Tailed(bytes)) > size
        /\ Tailed(bytes)[size + 1] \in Good
    BY <2>1, TailedShape DEF Good
  <2> QED
    BY <1>2, <2>2, <2>3, NewChunkOutcome
<1> QED
  BY <1>1, <1>2

\* ck_alloc_nozero (alloc-inl.h:105-126).
LEMMA AllocNozeroOutcome ==
  ASSUME HeapInv, NEW size \in Nat, NEW ret \in Result, DFL_ck_alloc_nozero(size, ret)
  PROVE  Outcome(NULL, ret, size, Good)
<1>1. CASE DEBUG_BUILD \/ size = 0
  BY <1>1, AllocOutcome DEF DFL_ck_alloc_nozero
<1>2. CASE ~(DEBUG_BUILD \/ size = 0)
  <2> DEFINE bytes == [i \in 1 .. size |-> Junk]
  <2>1. bytes \in Seq(Cell) /\ Len(bytes) = size
    BY DEF Cell, Junk
  <2>2. NewChunk(size, Tailed(bytes), ret)
    BY <1>2 DEF DFL_ck_alloc_nozero
  <2> HIDE DEF bytes
  <2>3. /\ Tailed(bytes) \in Seq(Cell) /\ Len(Tailed(bytes)) > size
        /\ Tailed(bytes)[size + 1] \in Good
    BY <2>1, TailedShape DEF Good
  <2> QED
    BY <1>2, <2>2, <2>3, NewChunkOutcome
<1> QED
  BY <1>1, <1>2

\* A string to copy is its characters and the terminator, neither empty nor too long
\* (alloc-inl.h:272).
LEMMA TextShape ==
  ASSUME NEW text \in Text
  PROVE  /\ text \in Seq(Cell) /\ Len(text) \in Nat \ {0}
         /\ Terminated(text) \in Seq(Cell) /\ Len(Terminated(text)) = Len(text) + 1
         /\ Len(text) \in 0 .. WORD - 1 /\ Len(text) + 1 \in 0 .. WORD - 1
<1>1. text \in Seq(Value \ {0}) /\ Len(text) \in 1 .. MAX_ALLOC - 1
  BY HeapAssumption
<1>2. Value \ {0} \subseteq Cell /\ 0 \in Cell
  BY HeapAssumption DEF Cell
<1>3. text \in Seq(Cell)
  BY <1>1, <1>2, SeqMonotonic
<1> QED
  BY <1>1, <1>2, <1>3, HeapAssumption DEF Terminated

\* Copies of strings and blocks (alloc-inl.h:263-310, 39-48).
LEMMA CopyOutcome ==
  ASSUME HeapInv, NEW text \in Text, NEW ret \in Result
  PROVE  /\ DFL_ck_strdup(text, ret) => Outcome(NULL, ret, Len(text) + 1, Good)
         /\ alloc_printf(text, ret) => Outcome(NULL, ret, Len(text) + 1, Good)
         /\ DFL_ck_memdup(text, ret) => Outcome(NULL, ret, Len(text), Good)
<1>1. /\ text \in Seq(Cell) /\ Len(text) \in Nat \ {0}
      /\ Terminated(text) \in Seq(Cell) /\ Len(Terminated(text)) = Len(text) + 1
  BY TextShape
<1>2. /\ Tailed(Terminated(text)) \in Seq(Cell)
      /\ Len(Tailed(Terminated(text))) > Len(text) + 1
      /\ Tailed(Terminated(text))[(Len(text) + 1) + 1] \in Good
  BY <1>1, TailedShape DEF Good
<1>3. /\ Tailed(text) \in Seq(Cell) /\ Len(Tailed(text)) > Len(text)
      /\ Tailed(text)[Len(text) + 1] \in Good
  BY <1>1, TailedShape DEF Good
<1>4. Len(text) + 1 \in Nat \ {0}
  BY <1>1
<1>5. ASSUME NewChunk(Len(text) + 1, Tailed(Terminated(text)), ret)
      PROVE  Outcome(NULL, ret, Len(text) + 1, Good)
  BY <1>2, <1>4, <1>5, NewChunkOutcome
<1>6. ASSUME NewChunk(Len(text), Tailed(text), ret)
      PROVE  Outcome(NULL, ret, Len(text), Good)
  BY <1>1, <1>3, <1>6, NewChunkOutcome
<1> QED
  BY <1>5, <1>6 DEF DFL_ck_strdup, alloc_printf, DFL_ck_memdup

\* ck_memdup_str: the terminator takes the tail's place (alloc-inl.h:330-333).
LEMMA CopyStrOutcome ==
  ASSUME HeapInv, NEW text \in Text, NEW ret \in Result, DFL_ck_memdup_str(text, ret)
  PROVE  Outcome(NULL, ret, Len(text), {0})
<1>1. text \in Seq(Cell) /\ Len(text) \in Nat \ {0}
  BY TextShape
<1>2. Tailed(text) \in Seq(Cell) /\ Len(Tailed(text)) = Len(text) + 1
  BY <1>1, TailedShape
<1> DEFINE long == Append(Tailed(text), Junk)
           cells == [long EXCEPT ![Len(text) + 1] = 0]
<1>3. long \in Seq(Cell) /\ Len(long) = Len(text) + 2
  BY <1>1, <1>2 DEF Junk, Cell
<1>4. NewChunk(Len(text), cells, ret)
  BY DEF DFL_ck_memdup_str
<1> HIDE DEF long
<1>5. cells \in Seq(Cell) /\ Len(cells) > Len(text) /\ cells[Len(text) + 1] \in {0}
  <2>1. 0 \in Cell /\ Len(text) + 1 \in 1 .. Len(long)
    BY <1>1, <1>3 DEF Cell
  <2> QED
    BY <1>1, <1>3, <2>1, ExceptSeq
<1> HIDE DEF cells
<1> QED
  BY <1>1, <1>4, <1>5, NewChunkOutcome

(***************************************************************************)
(* Freeing and resizing.                                                   *)
(***************************************************************************)
\* CHECK_PTR passes a buffer or names one of the three canaries (alloc-inl.h:84-102).
LEMMA CheckResult ==
  ASSUME NEW p
  PROVE  /\ CheckPtr(p) \in {"ok"} \cup Canary
         /\ CheckPtr(p) = "ok" <=> mem[p].c1 = "C1" /\ TailOf(mem[p]) = ALLOC_MAGIC_C2
BY DEF CheckPtr, Canary, TailOf

\* CHECK_PTR lets pass only what is in use, by the head (alloc-inl.h:84-102).
LEMMA PassedIsWhole ==
  ASSUME HeapInv, NEW p \in Ptr, CheckPtr(p) = "ok"
  PROVE  Whole(p)
BY CheckResult DEF HeapInv, HeadTellsUse, Whole

\* A buffer CHECK_PTR refuses aborts the program, over that very buffer.
LEMMA CaughtOutcome ==
  ASSUME HeapInv, NEW p \in Ptr, CheckPtr(p) # "ok", Abort(CheckPtr(p), p),
         NEW ret, NEW room, NEW tails
  PROVE  Outcome(p, ret, room, tails)
<1>1. CheckPtr(p) \in Canary
  BY CheckResult
<1>2. status' = [why |-> CheckPtr(p), ptr |-> p] /\ Marked
  BY DEF Abort, Marked, HeapInv, Layout
<1>3. status' \in [why : Why \ {"ok"}, ptr : Ptr \cup {NULL}] /\ status'.ptr = p
  BY <1>1, <1>2 DEF Why, Canary
<1>4. p # NULL
  BY HeapAssumption
<1> QED
  BY <1>2, <1>3, <1>4 DEF Outcome, Aborted

\* A freed buffer bears the mark of the freed (alloc-inl.h:157).
LEMMA FreedShape ==
  ASSUME NEW head \in FreedHeads
  PROVE  Freed(head) \in Chunks /\ Freed(head).c1 # "C1"
<1>1. <<>> \in Seq(Cell) /\ 0 \in 0 .. MAX_ALLOC
  BY HeapAssumption
<1> QED
  BY <1>1 DEF FreedHeads, Freed, Chunks

\* ck_free (alloc-inl.h:143-163).
LEMMA FreeOutcome ==
  ASSUME HeapInv, NEW p \in Result, DFL_ck_free(p), NEW tails
  PROVE  Outcome(p, NULL, 0, tails)
<1>1. CASE p = NULL
  <2>1. NULL \notin in_use
    BY HeapAssumption DEF HeapInv, Layout
  <2> QED
    BY <1>1, <2>1 DEF DFL_ck_free, heapVars, Outcome, Exchanged, HeapInv, Layout
<1>2. CASE p # NULL /\ CheckPtr(p) # "ok"
  BY <1>2, CaughtOutcome DEF DFL_ck_free, Result
<1>3. CASE p # NULL /\ CheckPtr(p) = "ok"
  <2>1. PICK head \in FreedHeads : mem' = [mem EXCEPT ![p] = Freed(head)]
    BY <1>3 DEF DFL_ck_free
  <2>2. Freed(head) \in Chunks /\ Freed(head).c1 # "C1"
    BY FreedShape
  <2>3. /\ p \in Ptr /\ mem' \in [Ptr -> Chunks] /\ mem'[p] = Freed(head)
        /\ \A q \in Ptr \ {p, NULL} : mem'[q] = mem[q]
    BY <1>3, <2>1, <2>2 DEF HeapInv, Layout, Result
  <2>4. Whole(p)
    BY <1>3, <2>3, PassedIsWhole
  <2>5. in_use' = in_use \ {p} /\ status' = status
    BY <1>3 DEF DFL_ck_free
  <2> QED
    BY <2>2, <2>3, <2>4, <2>5 DEF Outcome, Exchanged
<1> QED
  BY <1>1, <1>2, <1>3

\* What a resized buffer holds: bytes of the old one within its size, zeroes, and
\* the tail behind them (alloc-inl.h:204-232).
LEMMA RegrownShape ==
  ASSUME HeapInv, NEW p \in Result, p = NULL \/ p \in in_use, NEW size \in Nat
  PROVE  /\ Regrown(p, size) \in Seq(Cell) /\ Len(Regrown(p, size)) = size + 1
         /\ Regrown(p, size)[size + 1] = ALLOC_MAGIC_C2
<1> DEFINE old == IF p = NULL THEN <<>> ELSE mem[p].bytes
<1>1. old \in Seq(Cell) /\ OldSize(p) \in Nat
  BY DEF HeapInv, Layout, Chunks, OldSize, Result
<1>2. OldSize(p) <= Len(old)
  <2>1. CASE p = NULL
    BY <2>1 DEF OldSize
  <2>2. CASE p # NULL
    <3>1. Sound(mem[p]) /\ mem[p] \in Chunks
      BY <2>2 DEF HeapInv, Room, Layout
    <3> QED
      BY <2>2, <3>1 DEF OldSize, Sound, Chunks
  <2> QED
    BY <2>1, <2>2
<1> DEFINE copied == IF ~DEBUG_BUILD THEN Len(old)
                     ELSE IF size < OldSize(p) THEN size ELSE OldSize(p)
           cell(i) == IF i = size + 1 THEN ALLOC_MAGIC_C2
                      ELSE IF i > OldSize(p) THEN 0
                      ELSE IF i <= copied THEN old[i] ELSE Junk
<1>3. Regrown(p, size) = [i \in 1 .. size + 1 |-> cell(i)]
  BY DEF Regrown
<1>4. ASSUME NEW i \in 1 .. size + 1 PROVE cell(i) \in Cell
  <2> HIDE DEF old, copied
  <2>1. ALLOC_MAGIC_C2 \in Cell /\ 0 \in Cell /\ Junk \in Cell
    BY DEF ALLOC_MAGIC_C2, Cell, Junk
  <2>2. ASSUME ~(i > OldSize(p)) PROVE old[i] \in Cell
    BY <1>1, <1>2, <2>2
  <2> QED
    BY <2>1, <2>2
<1> HIDE DEF cell
<1>5. [i \in 1 .. size + 1 |-> cell(i)] \in [1 .. size + 1 -> Cell]
  BY <1>4
<1>6. size + 1 \in Nat
  OBVIOUS
<1>7. Regrown(p, size) \in Seq(Cell) /\ Len(Regrown(p, size)) = size + 1
  BY <1>3, <1>5, <1>6
<1>8. cell(size + 1) = ALLOC_MAGIC_C2
  BY DEF cell
<1> QED
  BY <1>3, <1>7, <1>8

\* The buffer is resized in place or moved (alloc-inl.h:199-229).
LEMMA MoveOutcome ==
  ASSUME HeapInv, NEW p \in Result, p = NULL \/ Whole(p), NEW size \in Nat \ {0},
         size <= MAX_ALLOC, NEW ret \in Result, Move(p, size, ret)
  PROVE  Outcome(p, ret, size, Good)
<1>1. PICK head \in FreedHeads :
          mem' = [q \in Ptr |-> IF q = ret THEN Chunk(size, Regrown(p, size))
                                ELSE IF q = p THEN Freed(head) ELSE mem[q]]
  BY DEF Move
<1>2. /\ ret \in Ptr \ in_use \/ (p # NULL /\ ret = p)
      /\ in_use' = (in_use \ {p}) \cup {ret} /\ status' = status
  BY DEF Move
<1>3. ret \in Ptr /\ ret # NULL
  BY <1>2, HeapAssumption DEF Result
<1>4. /\ Regrown(p, size) \in Seq(Cell) /\ Len(Regrown(p, size)) = size + 1
      /\ Regrown(p, size)[size + 1] = ALLOC_MAGIC_C2
  BY RegrownShape DEF Whole
<1> DEFINE chunk == Chunk(size, Regrown(p, size))
<1>5. /\ chunk \in Chunks /\ Sound(chunk) /\ chunk.c1 = "C1" /\ chunk.s = size
      /\ TailOf(chunk) \in Good
  BY <1>4, HeapAssumption DEF Chunk, Chunks, Sound, TailOf, Good
<1>6. Freed(head) \in Chunks /\ Freed(head).c1 # "C1"
  BY FreedShape
<1> HIDE DEF chunk
<1>7. /\ mem' \in [Ptr -> Chunks] /\ mem'[ret] = chunk
      /\ \A q \in Ptr \ {p, ret} : mem'[q] = mem[q]
      /\ p # NULL /\ p # ret => mem'[p] = Freed(head)
  BY <1>1, <1>3, <1>5, <1>6 DEF HeapInv, Layout, Result, chunk
<1> QED
  BY <1>2, <1>3, <1>5, <1>6, <1>7 DEF Outcome, Exchanged

\* ck_realloc (alloc-inl.h:168-236).
LEMMA ReallocOutcome ==
  ASSUME HeapInv, NEW p \in Result, NEW size \in Nat, NEW ret \in Result,
         DFL_ck_realloc(p, size, ret)
  PROVE  Outcome(p, ret, size, Good)
<1>1. CASE size = 0
  BY <1>1, FreeOutcome DEF DFL_ck_realloc
<1>2. CASE size # 0 /\ p # NULL /\ CheckPtr(p) # "ok"
  BY <1>2, CaughtOutcome DEF DFL_ck_realloc, Result
<1>3. CASE size # 0 /\ (p = NULL \/ CheckPtr(p) = "ok")
  <2>1. p = NULL \/ Whole(p)
    BY <1>3, PassedIsWhole DEF Result
  <2>2. CASE ret = NULL /\ (AbortMarked("size", p) \/ AbortMarked("memory", p))
    BY <2>2, RefusedOutcome
  <2>3. CASE size <= MAX_ALLOC /\ Move(p, size, ret)
    BY <1>3, <2>1, <2>3, MoveOutcome
  <2>4. MAX_ALLOC \in Nat
    BY HeapAssumption
  <2> QED
    BY <1>3, <2>2, <2>3, <2>4 DEF DFL_ck_realloc
<1> QED
  BY <1>1, <1>2, <1>3

\* What ck_realloc_block asks ck_realloc for (alloc-inl.h:252).
RoomFor(p, size) ==
    IF DEBUG_BUILD \/ p = NULL \/ Fits(p, size) THEN size
    ELSE (size + ALLOC_BLK_INC) % WORD

\* ck_realloc_block rounds up only what has to grow (alloc-inl.h:241-259).
LEMMA ReallocBlockOutcome ==
  ASSUME HeapInv, NEW p \in Result, NEW size \in Nat, NEW ret \in Result,
         DFL_ck_realloc_block(p, size, ret)
  PROVE  RoomFor(p, size) \in Nat /\ Outcome(p, ret, RoomFor(p, size), Good)
<1>1. (size + ALLOC_BLK_INC) % WORD \in Nat
  BY HeapAssumption
<1>2. CASE DEBUG_BUILD \/ p = NULL
  BY <1>2, ReallocOutcome DEF DFL_ck_realloc_block, RoomFor
<1>3. CASE ~(DEBUG_BUILD \/ p = NULL) /\ CheckPtr(p) # "ok"
  BY <1>1, <1>3, CaughtOutcome DEF DFL_ck_realloc_block, Result, RoomFor
<1>4. CASE ~(DEBUG_BUILD \/ p = NULL) /\ CheckPtr(p) = "ok" /\ Fits(p, size)
  <2>1. ret = p /\ UNCHANGED heapVars /\ RoomFor(p, size) = size
    BY <1>4 DEF DFL_ck_realloc_block, RoomFor
  <2>2. Whole(p) /\ p \in Ptr /\ p # NULL
    BY <1>4, PassedIsWhole DEF Result
  <2>3. /\ Sound(mem[p]) /\ mem[p].c1 = "C1" /\ mem[p].s >= size
        /\ TailOf(mem[p]) \in Good
    BY <1>4, <2>2, CheckResult DEF HeapInv, Room, Whole, Fits, Good
  <2>4. /\ mem' = mem /\ in_use' = in_use /\ status' = status
    BY <2>1 DEF heapVars
  <2>5. in_use' = (in_use \ {p}) \cup ({ret} \ {NULL})
    BY <2>1, <2>2, <2>4 DEF Whole
  <2> QED
    BY <2>1, <2>2, <2>3, <2>4, <2>5 DEF Outcome, Exchanged, HeapInv, Layout
<1>5. CASE ~(DEBUG_BUILD \/ p = NULL) /\ CheckPtr(p) = "ok" /\ ~Fits(p, size)
  BY <1>1, <1>5, ReallocOutcome DEF DFL_ck_realloc_block, RoomFor
<1> QED
  BY <1>2, <1>3, <1>4, <1>5

(***************************************************************************)
(* The client: it gives p for ret, of the size it asks for.                *)
(***************************************************************************)
Called(p, ret, room, size, tails) ==
    /\ Running
    /\ Outcome(p, ret, room, tails)
    /\ Exchange(p, size, ret)
    /\ UNCHANGED <<DEBUG_BUILD, overrun, misused>>
    /\ dup_strs \subseteq dup_strs' /\ dup_strs' \subseteq Ptr
    /\ ret # NULL => tails = Good \/ ret \in dup_strs'

\* The sizes do not wrap around when the increment is added (alloc-inl.h:252).
NoWrap == \A size \in Sizes : size + ALLOC_BLK_INC < WORD

SizeOfCall == 0 .. WORD - 1

\* A step is a call, or one of the client's writes, or its other mistake.
LEMMA StepIsCall ==
  ASSUME HeapInv, HeapNext
  PROVE  \/ \E p \in Owned, ret \in Result, room \in Nat, size \in SizeOfCall,
               tails \in {Good, {0}} :
               /\ Called(p, ret, room, size, tails)
               /\ NoWrap => ret = NULL \/ size <= room
         \/ \E p \in Ptr, i \in 1 .. MAX_ALLOC, byte \in Value : Write(p, i, byte)
         \/ \E p \in Ptr, byte \in Value : WriteBeyond(p, byte)
         \/ \E p \in Ptr : FreeStale(p)
<1> DEFINE Goal == \E p \in Owned, ret \in Result, room \in Nat, size \in SizeOfCall,
                      tails \in {Good, {0}} :
                      /\ Called(p, ret, room, size, tails)
                      /\ NoWrap => ret = NULL \/ size <= room
<1>1. /\ NULL \in Owned /\ Owned \subseteq Result /\ NULL \in Result
      /\ Sizes \subseteq SizeOfCall /\ SizeOfCall \subseteq Nat /\ 0 \in SizeOfCall
      /\ dup_strs \subseteq Ptr /\ UNCHANGED DEBUG_BUILD
  BY HeapAssumption DEF HeapInv, Layout, Owned, Result, SizeOfCall, HeapNext
<1>2. ASSUME NEW size \in Sizes, NEW ret \in Result, Alloc(size, ret) PROVE Goal
  <2>1. Outcome(NULL, ret, size, Good)
    BY <1>1, <1>2, AllocOutcome DEF Alloc
  <2>2. Called(NULL, ret, size, size, Good)
    BY <1>1, <1>2, <2>1 DEF Alloc, Called, CanCall
  <2> QED
    BY <1>1, <2>2
<1>3. ASSUME NEW size \in Sizes, NEW ret \in Result, AllocNozero(size, ret) PROVE Goal
  <2>1. Outcome(NULL, ret, size, Good)
    BY <1>1, <1>3, AllocNozeroOutcome DEF AllocNozero
  <2>2. Called(NULL, ret, size, size, Good)
    BY <1>1, <1>3, <2>1 DEF AllocNozero, Called, CanCall
  <2> QED
    BY <1>1, <2>2
<1>4. ASSUME NEW text \in Text, NEW ret \in Result, Copy(text, ret) PROVE Goal
  <2>1. Len(text) \in SizeOfCall /\ Len(text) + 1 \in SizeOfCall
    BY TextShape DEF SizeOfCall
  <2>2. PICK size \in {Len(text), Len(text) + 1} :
            Outcome(NULL, ret, size, Good) /\ Exchange(NULL, size, ret)
    BY <1>4, CopyOutcome DEF Copy
  <2>3. Called(NULL, ret, size, size, Good)
    BY <1>1, <1>4, <2>2 DEF Copy, Called, CanCall
  <2> QED
    BY <1>1, <2>1, <2>3
<1>5. ASSUME NEW text \in Text, NEW ret \in Result, CopyStr(text, ret) PROVE Goal
  <2>1. Len(text) \in SizeOfCall
    BY TextShape DEF SizeOfCall
  <2>2. Outcome(NULL, ret, Len(text), {0})
    BY <1>5, CopyStrOutcome DEF CopyStr
  <2>3. dup_strs' = dup_strs \cup ({ret} \ {NULL}) /\ {ret} \ {NULL} \subseteq Ptr
    BY <1>5 DEF CopyStr, Result
  <2>4. Called(NULL, ret, Len(text), Len(text), {0})
    BY <1>1, <1>5, <2>2, <2>3 DEF CopyStr, Called, CanCall
  <2> QED
    BY <1>1, <2>1, <2>4
<1>6. ASSUME NEW p \in Owned, Free(p) PROVE Goal
  <2>1. Outcome(p, NULL, 0, Good)
    BY <1>1, <1>6, FreeOutcome DEF Free
  <2>2. Called(p, NULL, 0, 0, Good)
    BY <1>1, <1>6, <2>1 DEF Free, Called, CanCall
  <2> QED
    BY <1>1, <2>2
<1>7. ASSUME NEW p \in Owned, NEW size \in Sizes, NEW ret \in Result, Realloc(p, size, ret)
      PROVE  Goal
  <2>1. Outcome(p, ret, size, Good)
    BY <1>1, <1>7, ReallocOutcome DEF Realloc
  <2>2. Called(p, ret, size, size, Good)
    BY <1>1, <1>7, <2>1 DEF Realloc, Called, CanCall
  <2> QED
    BY <1>1, <2>2
<1>8. ASSUME NEW p \in Owned, NEW size \in Sizes, NEW ret \in Result,
             ReallocBlock(p, size, ret)
      PROVE  Goal
  <2>1. RoomFor(p, size) \in Nat /\ Outcome(p, ret, RoomFor(p, size), Good)
    BY <1>1, <1>8, ReallocBlockOutcome DEF ReallocBlock
  <2>2. Called(p, ret, RoomFor(p, size), size, Good)
    BY <1>1, <1>8, <2>1 DEF ReallocBlock, Called, CanCall
  <2>3. NoWrap => size <= RoomFor(p, size)
    <3> SUFFICES ASSUME NoWrap PROVE size <= RoomFor(p, size)
      OBVIOUS
    <3>1. size \in Nat /\ size + ALLOC_BLK_INC < WORD /\ size + ALLOC_BLK_INC \in Nat
      BY <1>1, HeapAssumption DEF NoWrap
    <3>2. (size + ALLOC_BLK_INC) % WORD = size + ALLOC_BLK_INC
      BY <3>1, HeapAssumption
    <3> QED
      BY <3>1, <3>2, HeapAssumption DEF RoomFor
  <2> QED
    BY <1>1, <2>1, <2>2, <2>3
<1> HIDE DEF Goal
<1>9. \/ Goal
      \/ \E p \in Ptr, i \in 1 .. MAX_ALLOC, byte \in Value : Write(p, i, byte)
      \/ \E p \in Ptr, byte \in Value : WriteBeyond(p, byte)
      \/ \E p \in Ptr : FreeStale(p)
  <2>1. CASE \E ret \in Result :
                \/ \E size \in Sizes : Alloc(size, ret)
                \/ \E size \in Sizes : AllocNozero(size, ret)
                \/ \E text \in Text : Copy(text, ret)
                \/ \E block \in Text : CopyStr(block, ret)
                \/ \E p \in Owned, size \in Sizes : Realloc(p, size, ret)
                \/ \E p \in Owned, size \in Sizes : ReallocBlock(p, size, ret)
    BY <1>2, <1>3, <1>4, <1>5, <1>7, <1>8, <2>1
  <2>2. CASE \E p \in Owned : Free(p)
    BY <1>6, <2>2
  <2> QED
    BY <2>1, <2>2 DEF HeapNext
<1> QED
  BY <1>9 DEF Goal

(***************************************************************************)
(* Types, and heads that tell used from freed memory.                      *)
(***************************************************************************)

\* What the allocator does to the heap itself.
LEMMA OutcomeKeepsHeap ==
  ASSUME HeapInv, NEW p \in Result, NEW ret \in Result, NEW room, NEW tails,
         Outcome(p, ret, room, tails)
  PROVE  /\ mem' \in [Ptr -> Chunks] /\ in_use' \subseteq Ptr
         /\ status' \in [why : Why, ptr : Ptr \cup {NULL}]
         /\ Room' /\ HeadTellsUse'
<1>1. CASE Aborted(p)
  <2>1. Marked /\ status' \in [why : Why, ptr : Ptr \cup {NULL}] /\ ~Running'
    BY <1>1 DEF Aborted, Running
  <2>2. mem' \in [Ptr -> Chunks] /\ in_use' \subseteq Ptr
    BY <2>1 DEF Marked, HeapInv, Layout
  <2>3. Room'
    BY <2>1 DEF Marked, HeapInv, Layout, Room, Sound
  <2>4. HeadTellsUse'
    BY <2>1 DEF Marked, HeapInv, HeadTellsUse
  <2> QED
    BY <2>1, <2>2, <2>3, <2>4
<1>2. CASE Exchanged(p, ret, room, tails)
  <2>1. mem' \in [Ptr -> Chunks] /\ in_use' \subseteq Ptr /\ status' = status
    BY <1>2 DEF Exchanged, HeapInv, Layout, Result
  <2>2. ASSUME NEW q \in Ptr
        PROVE  /\ q \in in_use' => Sound(mem'[q])
               /\ mem'[q].c1 = "C1" => q \in in_use'
               /\ Running' /\ q \in in_use' => mem'[q].c1 = "C1"
    <3>0. q # NULL
      BY HeapAssumption
    <3>1. CASE q = ret
      BY <1>2, <3>0, <3>1 DEF Exchanged, Sound
    <3>2. CASE q # ret /\ q = p
      BY <1>2, <3>0, <3>2 DEF Exchanged
    <3>3. CASE q # ret /\ q # p
      <4>1. mem'[q] = mem[q] /\ (q \in in_use' <=> q \in in_use)
        BY <1>2, <3>3 DEF Exchanged
      <4> QED
        BY <2>1, <4>1 DEF HeapInv, Room, HeadTellsUse, Running
    <3> QED
      BY <3>1, <3>2, <3>3
  <2>3. Room' /\ HeadTellsUse'
    BY <2>1, <2>2 DEF Room, HeadTellsUse
  <2> QED
    BY <2>1, <2>3 DEF HeapInv, Layout
<1> QED
  BY <1>1, <1>2 DEF Outcome

\* A call keeps the invariant of the heap, whatever it comes to.
LEMMA CallKeepsHeap ==
  ASSUME HeapInv, NEW p \in Owned, NEW ret \in Result, NEW room, NEW size \in SizeOfCall,
         NEW tails, Called(p, ret, room, size, tails)
  PROVE  HeapInv'
<1>1. Owned \subseteq Result
  BY DEF HeapInv, Layout, Owned, Result
<1>2. /\ mem' \in [Ptr -> Chunks] /\ in_use' \subseteq Ptr
      /\ status' \in [why : Why, ptr : Ptr \cup {NULL}]
      /\ Room' /\ HeadTellsUse'
  BY <1>1, OutcomeKeepsHeap DEF Called
<1>3. /\ owned' \subseteq Ptr /\ stale' \subseteq Ptr
      /\ asked' \in [Ptr -> 0 .. WORD - 1]
  <2>1. CASE status'.why # "ok"
    BY <2>1 DEF Called, Exchange, clientVars, HeapInv, Layout
  <2>2. CASE status'.why = "ok"
    <3>1. owned' \subseteq Ptr /\ stale' \subseteq Ptr
      BY <1>1, <2>2 DEF Called, Exchange, HeapInv, Layout, Result, Owned
    <3>2. asked' \in [Ptr -> 0 .. WORD - 1]
      BY <2>2 DEF Called, Exchange, HeapInv, Layout, Result, SizeOfCall
    <3> QED
      BY <3>1, <3>2
  <2> QED
    BY <2>1, <2>2
<1> QED
  BY <1>2, <1>3 DEF Called, HeapInv, Layout

\* The buffer p has a byte changed, and nothing else has.
ByteChanged(p, i, byte) ==
    /\ \A q \in Ptr \ {p} : mem'[q] = mem[q]
    /\ mem'[p].c1 = mem[p].c1 /\ mem'[p].s = mem[p].s
    /\ Len(mem'[p].bytes) = Len(mem[p].bytes)
    /\ \A j \in 1 .. Len(mem[p].bytes) :
           mem'[p].bytes[j] = IF j = i THEN byte ELSE mem[p].bytes[j]

\* A byte written leaves heads, sizes and the other bytes alone.
LEMMA PutShape ==
  ASSUME HeapInv, NEW p \in in_use, NEW i \in Nat \ {0}, NEW byte \in Value,
         mem' = [mem EXCEPT ![p].bytes[i] = byte]
  PROVE  mem' \in [Ptr -> Chunks] /\ ByteChanged(p, i, byte)
<1>1. p \in Ptr /\ mem[p] \in Chunks /\ mem[p].bytes \in Seq(Cell) /\ byte \in Cell
  BY HeapAssumption DEF HeapInv, Layout, Chunks, Cell
<1> DEFINE bytes == mem[p].bytes
           new == [bytes EXCEPT ![i] = byte]
<1>2. /\ new \in Seq(Cell) /\ Len(new) = Len(bytes)
      /\ \A j \in 1 .. Len(bytes) : new[j] = IF j = i THEN byte ELSE bytes[j]
  <2> HIDE DEF bytes
  <2>0. bytes \in Seq(Cell)
    BY <1>1 DEF bytes
  <2>1. CASE i \in 1 .. Len(bytes)
    BY <1>1, <2>0, <2>1, ExceptSeq
  <2>2. CASE i \notin 1 .. Len(bytes)
    <3>1. new = bytes
      BY <2>0, <2>2
    <3> QED
      BY <2>0, <2>2, <3>1
  <2> QED
    BY <2>1, <2>2
<1>3. mem' = [mem EXCEPT ![p] = [mem[p] EXCEPT !.bytes = new]]
  BY <1>1 DEF HeapInv, Layout
<1> HIDE DEF new
<1>4. /\ [mem[p] EXCEPT !.bytes = new] \in Chunks
      /\ [mem[p] EXCEPT !.bytes = new].c1 = mem[p].c1
      /\ [mem[p] EXCEPT !.bytes = new].s = mem[p].s
      /\ [mem[p] EXCEPT !.bytes = new].bytes = new
  BY <1>1, <1>2 DEF Chunks
<1> DEFINE chunk == [mem[p] EXCEPT !.bytes = new]
<1>5. /\ mem' \in [Ptr -> Chunks] /\ mem'[p] = chunk
      /\ \A q \in Ptr \ {p} : mem'[q] = mem[q]
  <2>1. chunk \in Chunks /\ mem' = [mem EXCEPT ![p] = chunk]
    BY <1>3, <1>4
  <2> HIDE DEF chunk
  <2>2. mem \in [Ptr -> Chunks]
    BY DEF HeapInv, Layout
  <2> QED
    BY <1>1, <2>1, <2>2
<1> QED
  BY <1>2, <1>4, <1>5 DEF ByteChanged

\* So does a write of the client, within a buffer or one byte behind it.
LEMMA PutKeepsHeap ==
  ASSUME HeapInv, NEW p \in in_use, NEW i \in Nat \ {0}, NEW byte \in Value,
         mem' = [mem EXCEPT ![p].bytes[i] = byte], UNCHANGED <<in_use, status>>
  PROVE  mem' \in [Ptr -> Chunks] /\ Room' /\ HeadTellsUse'
<1>1. /\ mem' \in [Ptr -> Chunks]
      /\ \A q \in Ptr \ {p} : mem'[q] = mem[q]
      /\ mem'[p].c1 = mem[p].c1 /\ mem'[p].s = mem[p].s
      /\ Len(mem'[p].bytes) = Len(mem[p].bytes)
  BY PutShape DEF ByteChanged
<1>2. \A q \in Ptr : /\ mem'[q].c1 = mem[q].c1 /\ mem'[q].s = mem[q].s
                     /\ Len(mem'[q].bytes) = Len(mem[q].bytes)
  BY <1>1
<1> QED
  BY <1>1, <1>2 DEF HeapInv, Layout, Room, HeadTellsUse, Sound, Running

\* So does every step, the client's free of what it no longer owns included.
LEMMA StepKeepsHeap == HeapInv /\ [HeapNext]_checkedVars => HeapInv'
<1> SUFFICES ASSUME HeapInv, [HeapNext]_checkedVars PROVE HeapInv'
  OBVIOUS
<1>1. CASE UNCHANGED checkedVars
  BY <1>1 DEF checkedVars, heapVars, clientVars, mistakeVars, HeapInv, Layout, Room,
              HeadTellsUse, Running
<1>2. CASE HeapNext
  <2>1. UNCHANGED DEBUG_BUILD
    BY <1>2 DEF HeapNext
  <2>2. CASE \E p \in Owned, ret \in Result, room \in Nat, size \in SizeOfCall,
                tails \in {Good, {0}} : Called(p, ret, room, size, tails)
    BY <2>2, CallKeepsHeap
  <2>3. CASE \E p \in Ptr, i \in 1 .. MAX_ALLOC, byte \in Value : Write(p, i, byte)
    <3>1. PICK p \in Ptr, i \in 1 .. MAX_ALLOC, byte \in Value : Write(p, i, byte)
      BY <2>3
    <3>2. /\ p \in in_use /\ mem' = [mem EXCEPT ![p].bytes[i] = byte]
          /\ UNCHANGED <<in_use, status, clientVars, mistakeVars>>
      BY <3>1 DEF Write
    <3>0. i \in Nat \ {0}
      BY HeapAssumption
    <3>3. mem' \in [Ptr -> Chunks] /\ Room' /\ HeadTellsUse'
      BY <3>0, <3>2, PutKeepsHeap
    <3> QED
      BY <2>1, <3>2, <3>3 DEF clientVars, mistakeVars, HeapInv, Layout
  <2>4. CASE \E p \in Ptr, byte \in Value : WriteBeyond(p, byte)
    <3>1. PICK p \in in_use, byte \in Value :
              /\ mem' = [mem EXCEPT ![p].bytes[mem[p].s + 1] = byte]
              /\ overrun' = overrun \cup {p}
      BY <2>4 DEF WriteBeyond
    <3>2. UNCHANGED <<in_use, status, clientVars, misused, dup_strs>>
      BY <2>4 DEF WriteBeyond
    <3>3. mem[p].s + 1 \in Nat \ {0} /\ p \in Ptr
      BY <3>1, HeapAssumption DEF HeapInv, Layout, Chunks
    <3>4. mem' \in [Ptr -> Chunks] /\ Room' /\ HeadTellsUse'
      BY <3>1, <3>2, <3>3, PutKeepsHeap
    <3> QED
      BY <2>1, <3>1, <3>2, <3>3, <3>4 DEF clientVars, HeapInv, Layout
  <2>5. CASE \E p \in Ptr : FreeStale(p)
    <3>1. PICK p \in Ptr : FreeStale(p)
      BY <2>5
    <3>2. p \in Result /\ NULL \in Result
      BY DEF Result
    <3>3. Outcome(p, NULL, 0, Good)
      BY <3>1, <3>2, FreeOutcome DEF FreeStale
    <3>4. /\ mem' \in [Ptr -> Chunks] /\ in_use' \subseteq Ptr
          /\ status' \in [why : Why, ptr : Ptr \cup {NULL}]
          /\ Room' /\ HeadTellsUse'
      BY <3>2, <3>3, OutcomeKeepsHeap
    <3>5. misused' = misused \cup {p} /\ UNCHANGED <<clientVars, overrun, dup_strs>>
      BY <3>1 DEF FreeStale
    <3> QED
      BY <2>1, <3>4, <3>5 DEF clientVars, HeapInv, Layout
  <2> QED
    BY <1>2, <2>2, <2>3, <2>4, <2>5, StepIsCall
<1> QED
  BY <1>1, <1>2

\* The heap is empty at first.
LEMMA InitHeap == HeapInit => HeapInv
<1> SUFFICES ASSUME HeapInit PROVE HeapInv
  OBVIOUS
<1>1. mem \in [Ptr -> Chunks] /\ asked \in [Ptr -> 0 .. WORD - 1]
  BY HeapAssumption DEF HeapInit, Chunks
<1>2. status \in [why : Why, ptr : Ptr \cup {NULL}]
  BY DEF HeapInit, Why
<1> QED
  BY <1>1, <1>2 DEF HeapInit, HeapInv, Layout, Room, HeadTellsUse

\* Buffers always have room for their bytes and the tail, in both builds
\* (alloc-inl.h:50-75).
THEOREM HeapTypeCorrect == HeapSpec => []HeapTypeOK
<1>1. HeapInv => HeapTypeOK
  <2> SUFFICES ASSUME HeapInv PROVE HeapTypeOK
    OBVIOUS
  <2>1. \A p \in Ptr : /\ mem[p].c1 \in {"C1", "F", "libc"}
                       /\ mem[p].s \in 0 .. MAX_ALLOC
                       /\ mem[p].bytes \in Seq(Cell)
    BY DEF HeapInv, Layout, Chunks
  <2>2. \A p \in Ptr : p \in in_use => mem[p].s > 0 /\ mem[p].s < Len(mem[p].bytes)
    BY DEF HeapInv, Room, Sound
  <2>3. status.why \in Why
    BY DEF HeapInv, Layout
  <2> QED
    BY <2>1, <2>2, <2>3 DEF HeapTypeOK, HeapInv, Layout, Why
<1> QED
  BY <1>1, InitHeap, StepKeepsHeap, PTL DEF HeapSpec

\* A head says what is in use for as long as the program runs, whatever was resized in
\* place, moved, freed behind its owner's back or handed out again (alloc-inl.h:73, 157,
\* 187).
THEOREM HeadsCorrect == HeapSpec => []HeadTellsUse
<1>1. HeapInv => HeadTellsUse
  BY DEF HeapInv
<1> QED
  BY <1>1, InitHeap, StepKeepsHeap, PTL DEF HeapSpec

(***************************************************************************)
(* Sizes, tails and alarms, for programs whose sizes do not wrap around.   *)
(***************************************************************************)

\* A buffer nobody overran, and that is not from ck_memdup_str, has its tail.
Tails == \A p \in in_use \ (overrun \cup dup_strs) : TailOf(mem[p]) = ALLOC_MAGIC_C2

\* The client owns memory that is not in use only if it freed that itself.
Strays == owned \ in_use \subseteq misused

SafeInv ==
    /\ NoWrap
    /\ HeapInv
    /\ BigEnough /\ OverrunsCaught /\ Tails /\ Strays /\ AlarmsJustified

\* A buffer that passes CHECK_PTR was not overrun: its tail would be broken.
LEMMA WholeNotOverrun ==
  ASSUME HeapInv, OverrunsCaught, NEW p, Whole(p)
  PROVE  p \notin overrun
BY CheckResult DEF OverrunsCaught, Whole, TailOf

\* A call the program survives.
LEMMA ServedKeepsSafe ==
  ASSUME SafeInv, HeapInv', NEW p \in Owned, NEW ret \in Result, NEW room \in Nat,
         NEW size \in SizeOfCall, NEW tails,
         Called(p, ret, room, size, tails), ret = NULL \/ size <= room,
         Exchanged(p, ret, room, tails)
  PROVE  SafeInv'
<1>1. /\ status' = status /\ status.why = "ok"
      /\ owned' = (owned \ {p}) \cup ({ret} \ {NULL})
      /\ asked' = IF ret = NULL THEN asked ELSE [asked EXCEPT ![ret] = size]
      /\ UNCHANGED <<overrun, misused>> /\ dup_strs \subseteq dup_strs'
      /\ ret # NULL => tails = Good \/ ret \in dup_strs'
  BY DEF Exchanged, Called, Exchange, Running
<1>2. /\ in_use' = (in_use \ {p}) \cup ({ret} \ {NULL})
      /\ ret = NULL \/ ret \in Ptr \ in_use \/ ret = p
      /\ p = NULL \/ Whole(p)
      /\ \A q \in Ptr \ {p, ret} : mem'[q] = mem[q]
      /\ ret # NULL => mem'[ret].s >= room /\ TailOf(mem'[ret]) \in tails
  BY DEF Exchanged
<1>3. in_use \subseteq Ptr /\ owned \subseteq Ptr /\ asked \in [Ptr -> 0 .. WORD - 1]
  BY DEF SafeInv, HeapInv, Layout
<1>4. mem' \in [Ptr -> Chunks]
  BY DEF HeapInv, Layout
<1>5. BigEnough'
  <2> SUFFICES ASSUME NEW q \in owned' \cap in_use' PROVE asked'[q] <= mem'[q].s
    BY DEF BigEnough
  <2>1. CASE q = ret
    <3>1a. ret # NULL
      BY <1>1, <1>3, <2>1, HeapAssumption
    <3>1b. ret \in Ptr
      BY <3>1a DEF Result
    <3>1c. mem'[q].s \in Nat
      <4>1. mem'[q] \in Chunks
        BY <1>4, <2>1, <3>1b
      <4> QED
        BY <4>1, HeapAssumption DEF Chunks
    <3>1. ret \in Ptr /\ ret # NULL /\ asked'[q] = size /\ mem'[q].s \in Nat
      BY <1>1, <1>3, <2>1, <3>1a, <3>1b, <3>1c
    <3> QED
      BY <1>2, <2>1, <3>1 DEF SizeOfCall
  <2>2. CASE q # ret
    <3>1. q \in owned \cap in_use /\ q # p /\ asked'[q] = asked[q] /\ mem'[q] = mem[q]
      BY <1>1, <1>2, <1>3, <2>2
    <3> QED
      BY <3>1 DEF SafeInv, BigEnough
  <2> QED
    BY <2>1, <2>2
<1>6. OverrunsCaught'
  <2> SUFFICES ASSUME NEW q \in overrun
               PROVE  q \in in_use' /\ mem'[q].bytes[mem'[q].s + 1] # ALLOC_MAGIC_C2
    BY <1>1 DEF OverrunsCaught
  <2>1. q \in in_use /\ mem[q].bytes[mem[q].s + 1] # ALLOC_MAGIC_C2
    BY DEF SafeInv, OverrunsCaught
  <2>2. q # p
    BY <1>2, <1>3, <2>1, WholeNotOverrun, HeapAssumption DEF SafeInv
  <2>3. q # ret
    BY <1>2, <1>3, <2>1, <2>2, HeapAssumption
  <2> QED
    BY <1>2, <1>3, <2>1, <2>2, <2>3
<1>7. Tails'
  <2> SUFFICES ASSUME NEW q \in in_use' \ (overrun \cup dup_strs')
               PROVE  TailOf(mem'[q]) = ALLOC_MAGIC_C2
    BY <1>1 DEF Tails
  <2>1. CASE q = ret
    BY <1>1, <1>2, <1>3, <2>1, HeapAssumption DEF Good
  <2>2. CASE q # ret
    <3>1. q \in in_use \ (overrun \cup dup_strs) /\ mem'[q] = mem[q]
      BY <1>1, <1>2, <1>3, <2>2
    <3> QED
      BY <3>1 DEF SafeInv, Tails, TailOf
  <2> QED
    BY <2>1, <2>2
<1>8. Strays'
  BY <1>1, <1>2 DEF SafeInv, Strays
<1>9. AlarmsJustified'
  BY <1>1 DEF AlarmsJustified, FalseAlarm, Canary
<1> QED
  BY <1>5, <1>6, <1>7, <1>8, <1>9 DEF SafeInv, NoWrap

\* Whom an alarm is about, if p is refused: nobody else than p, which was overrun,
\* is from ck_memdup_str, or is not in use.
LEMMA RefusedReason ==
  ASSUME HeapInv, Running, Tails, NEW p \in Ptr, CheckPtr(p) # "ok"
  PROVE  p \in overrun \cup dup_strs \/ p \notin in_use
BY CheckResult DEF Tails, HeapInv, HeadTellsUse

\* An abort over a buffer has one of the three reasons AlarmsJustified allows.
LEMMA AbortKeepsSafe ==
  ASSUME SafeInv, HeapInv', Running, NEW p \in Result, Aborted(p), UNCHANGED clientVars,
         UNCHANGED overrun, misused \subseteq misused', dup_strs \subseteq dup_strs',
         p # NULL => p \in owned \/ p \in misused'
  PROVE  SafeInv'
<1>1. /\ in_use' = in_use /\ owned' = owned /\ asked' = asked /\ in_use \subseteq Ptr
      /\ \A q \in Ptr : mem'[q].s = mem[q].s /\ mem'[q].bytes = mem[q].bytes
  BY DEF Aborted, Marked, clientVars, SafeInv, HeapInv, Layout
<1>2. BigEnough' /\ OverrunsCaught'
  BY <1>1 DEF SafeInv, BigEnough, OverrunsCaught
<1>3. Tails' /\ Strays'
  BY <1>1 DEF SafeInv, Tails, Strays, TailOf
<1>4. AlarmsJustified'
  <2> SUFFICES ASSUME status'.why \in Canary
               PROVE  status'.ptr \in overrun' \cup misused' \cup dup_strs'
    BY DEF AlarmsJustified, FalseAlarm
  <2>1. p \in Ptr /\ CheckPtr(p) # "ok" /\ status'.ptr = p
    BY DEF Aborted, Result
  <2>2. p \in overrun \cup dup_strs \/ p \notin in_use
    BY <2>1, RefusedReason DEF SafeInv
  <2>3. CASE p \notin in_use
    BY <2>1, <2>3 DEF SafeInv, Strays, Aborted
  <2> QED
    BY <2>1, <2>2, <2>3
<1> QED
  BY <1>2, <1>3, <1>4 DEF SafeInv, NoWrap

\* Every step keeps all of it.
LEMMA StepKeepsSafe == SafeInv /\ [HeapNext]_checkedVars => SafeInv'
<1> SUFFICES ASSUME SafeInv, [HeapNext]_checkedVars PROVE SafeInv'
  OBVIOUS
<1>1. HeapInv /\ HeapInv'
  BY StepKeepsHeap DEF SafeInv
<1>2. CASE UNCHANGED checkedVars
  BY <1>1, <1>2 DEF checkedVars, heapVars, clientVars, mistakeVars, SafeInv, NoWrap,
              BigEnough, OverrunsCaught, Tails, TailOf, Strays, AlarmsJustified, FalseAlarm
<1>3. CASE HeapNext
  <2>1. CASE \E p \in Owned, ret \in Result, room \in Nat, size \in SizeOfCall,
                tails \in {Good, {0}} :
                /\ Called(p, ret, room, size, tails)
                /\ NoWrap => ret = NULL \/ size <= room
    <3>1. PICK p \in Owned, ret \in Result, room \in Nat, size \in SizeOfCall,
               tails \in {Good, {0}} :
               /\ Called(p, ret, room, size, tails)
               /\ NoWrap => ret = NULL \/ size <= room
      BY <2>1
    <3>2. CASE Exchanged(p, ret, room, tails)
      BY <1>1, <3>1, <3>2, ServedKeepsSafe DEF SafeInv
    <3>3. CASE Aborted(p)
      <4>1. p \in Result /\ (p # NULL => p \in owned)
        BY <1>1 DEF Owned, Result, HeapInv, Layout
      <4>2. status'.why # "ok"
        BY <3>3 DEF Aborted
      <4>3. /\ UNCHANGED clientVars /\ UNCHANGED overrun
            /\ misused \subseteq misused' /\ dup_strs \subseteq dup_strs'
        BY <3>1, <4>2 DEF Called, Exchange
      <4> QED
        BY <1>1, <3>1, <3>3, <4>1, <4>3, AbortKeepsSafe DEF Called
    <3> QED
      BY <3>1, <3>2, <3>3 DEF Called, Outcome
  <2>2. CASE \E p \in Ptr, i \in 1 .. MAX_ALLOC, byte \in Value : Write(p, i, byte)
    <3>1. PICK p \in Ptr, i \in 1 .. MAX_ALLOC, byte \in Value : Write(p, i, byte)
      BY <2>2
    <3>2. /\ p \in owned \cap in_use /\ i <= asked[p]
          /\ mem' = [mem EXCEPT ![p].bytes[i] = byte]
          /\ UNCHANGED <<in_use, status, owned, asked, stale, overrun, misused, dup_strs>>
      BY <3>1 DEF Write, clientVars, mistakeVars
    <3>3. i \in Nat \ {0}
      BY HeapAssumption
    <3>4a. ByteChanged(p, i, byte)
      BY <1>1, <3>2, <3>3, PutShape
    <3>4. /\ \A q \in Ptr \ {p} : mem'[q] = mem[q]
          /\ mem'[p].s = mem[p].s
          /\ \A j \in 1 .. Len(mem[p].bytes) :
                 mem'[p].bytes[j] = IF j = i THEN byte ELSE mem[p].bytes[j]
      BY <3>4a DEF ByteChanged
    <3>5. /\ asked[p] <= mem[p].s /\ mem[p].s < Len(mem[p].bytes)
          /\ mem[p].s \in Nat /\ asked[p] \in Nat /\ Len(mem[p].bytes) \in Nat
      BY <1>1, <3>2, HeapAssumption
         DEF SafeInv, BigEnough, HeapInv, Layout, Room, Sound, Chunks
    <3>6. TailOf(mem'[p]) = TailOf(mem[p])
      BY <3>2, <3>3, <3>4, <3>5 DEF TailOf
    <3>7. \A q \in Ptr : mem'[q].s = mem[q].s /\ TailOf(mem'[q]) = TailOf(mem[q])
      BY <3>4, <3>6
    <3>8. in_use \subseteq Ptr
      BY <1>1 DEF HeapInv, Layout
    <3>9. BigEnough'
      BY <3>2, <3>7, <3>8 DEF SafeInv, BigEnough
    <3>10. OverrunsCaught' /\ Tails'
      BY <3>2, <3>7, <3>8 DEF SafeInv, OverrunsCaught, Tails, TailOf
    <3>11. Strays' /\ AlarmsJustified'
      BY <3>2 DEF SafeInv, Strays, AlarmsJustified, FalseAlarm, Canary
    <3> QED
      BY <1>1, <3>9, <3>10, <3>11 DEF SafeInv, NoWrap
  <2>3. CASE \E p \in Ptr, byte \in Value : WriteBeyond(p, byte)
    <3>1. PICK p \in Ptr, byte \in Value : WriteBeyond(p, byte)
      BY <2>3
    <3>2. /\ p \in in_use /\ mem' = [mem EXCEPT ![p].bytes[mem[p].s + 1] = byte]
          /\ overrun' = overrun \cup {p}
          /\ UNCHANGED <<in_use, status, owned, asked, stale, misused, dup_strs>>
      BY <3>1 DEF WriteBeyond, clientVars
    <3>3. /\ mem[p].s < Len(mem[p].bytes)
          /\ mem[p].s \in Nat /\ Len(mem[p].bytes) \in Nat
      BY <1>1, <3>2, HeapAssumption DEF HeapInv, Layout, Room, Sound, Chunks
    <3>4. mem[p].s + 1 \in Nat \ {0} /\ mem[p].s + 1 \in 1 .. Len(mem[p].bytes)
      BY <3>3
    <3>5a. ByteChanged(p, mem[p].s + 1, byte)
      BY <1>1, <3>2, <3>4, PutShape
    <3>5. /\ \A q \in Ptr \ {p} : mem'[q] = mem[q]
          /\ mem'[p].s = mem[p].s
          /\ \A j \in 1 .. Len(mem[p].bytes) :
                 mem'[p].bytes[j] = IF j = mem[p].s + 1 THEN byte ELSE mem[p].bytes[j]
      BY <3>5a DEF ByteChanged
    <3>6. mem'[p].bytes[mem'[p].s + 1] # ALLOC_MAGIC_C2
      BY <3>4, <3>5, HeapAssumption
    <3>7. in_use \subseteq Ptr
      BY <1>1 DEF HeapInv, Layout
    <3>8. BigEnough' /\ OverrunsCaught'
      BY <3>2, <3>5, <3>6, <3>7 DEF SafeInv, BigEnough, OverrunsCaught
    <3>9. Tails' /\ Strays' /\ AlarmsJustified'
      BY <3>2, <3>5, <3>7 DEF SafeInv, Tails, TailOf, Strays, AlarmsJustified, FalseAlarm
    <3> QED
      BY <1>1, <3>8, <3>9 DEF SafeInv, NoWrap
  <2>4. CASE \E p \in Ptr : FreeStale(p)
    <3>1. PICK p \in Ptr : FreeStale(p)
      BY <2>4
    <3>2. /\ p \in Result /\ p # NULL /\ Outcome(p, NULL, 0, Good)
          /\ status.why = "ok" /\ misused' = misused \cup {p}
          /\ UNCHANGED <<clientVars, overrun, dup_strs>>
      BY <1>1, <3>1, FreeOutcome, HeapAssumption DEF FreeStale, Result, Running
    <3>3. CASE Aborted(p)
      BY <1>1, <3>2, <3>3, AbortKeepsSafe DEF Running
    <3>4. CASE Exchanged(p, NULL, 0, Good)
      <4>1. /\ in_use' = in_use \ {p} /\ status' = status /\ Whole(p)
            /\ \A q \in Ptr \ {p} : mem'[q] = mem[q]
        BY <3>2, <3>4, HeapAssumption DEF Exchanged
      <4>2. owned' = owned /\ asked' = asked /\ in_use \subseteq Ptr
        BY <1>1, <3>2 DEF clientVars, HeapInv, Layout
      <4>3. p \notin overrun
        BY <1>1, <4>1, WholeNotOverrun DEF SafeInv
      <4>4. BigEnough' /\ OverrunsCaught'
        BY <3>2, <4>1, <4>2, <4>3 DEF SafeInv, BigEnough, OverrunsCaught
      <4>5. Tails' /\ Strays'
        BY <3>2, <4>1, <4>2 DEF SafeInv, Tails, TailOf, Strays
      <4>6. AlarmsJustified'
        BY <3>2, <4>1 DEF AlarmsJustified, FalseAlarm, Canary
      <4> QED
        BY <1>1, <4>4, <4>5, <4>6 DEF SafeInv, NoWrap
    <3> QED
      BY <3>2, <3>3, <3>4 DEF Outcome
  <2> QED
    BY <1>1, <1>3, <2>1, <2>2, <2>3, <2>4, StepIsCall
<1> QED
  BY <1>2, <1>3

\* All of it holds of the empty heap.
LEMMA InitSafe == NoWrap /\ HeapInit => SafeInv
<1> SUFFICES ASSUME NoWrap, HeapInit PROVE SafeInv
  OBVIOUS
<1>1. HeapInv
  BY InitHeap
<1>2. /\ in_use = {} /\ owned = {} /\ overrun = {}
      /\ status.why = "ok"
  BY DEF HeapInit
<1> QED
  BY <1>1, <1>2 DEF SafeInv, BigEnough, OverrunsCaught, Tails, Strays, AlarmsJustified,
              FalseAlarm, Canary

\* No buffer is smaller than asked, as long as no size wraps around when
\* ck_realloc_block adds its block to it (alloc-inl.h:241-259).
THEOREM SizesCorrect == NoWrap /\ HeapSpec => []BigEnough
<1>1. SafeInv => BigEnough
  BY DEF SafeInv
<1> QED
  BY <1>1, InitSafe, StepKeepsSafe, PTL DEF HeapSpec

\* An overrun is found when its buffer is freed or resized: until then the buffer is
\* in use, and what broke its tail is still in it (alloc-inl.h:84-102).
THEOREM OverrunsCorrect == NoWrap /\ HeapSpec => []OverrunsCaught
<1>1. SafeInv => OverrunsCaught
  BY DEF SafeInv
<1> QED
  BY <1>1, InitSafe, StepKeepsSafe, PTL DEF HeapSpec

\* Nothing but an overrun, a stale free or ck_memdup_str makes the allocator abort
\* the program over a buffer (alloc-inl.h:84-102, 333).
THEOREM AlarmsCorrect == NoWrap /\ HeapSpec => []AlarmsJustified
<1>1. SafeInv => AlarmsJustified
  BY DEF SafeInv
<1> QED
  BY <1>1, InitSafe, StepKeepsSafe, PTL DEF HeapSpec

(***************************************************************************)
(* The buffers of Buffers: every step of the heap is one of theirs, or     *)
(* changes none of them.                                                   *)
(***************************************************************************)
Contents == [p \in Ptr |-> IF p \in in_use THEN SubSeq(mem[p].bytes, 1, mem[p].s) ELSE NoBuffer]

ContentsStep == Buffer!BuffersNext \/ UNCHANGED Contents

\* What a buffer may be made with.
Fresh ==
    {Buffer!Filled(n, 0) : n \in 1 .. MAX_ALLOC}
        \cup {Buffer!Filled(n, Junk) : n \in 1 .. MAX_ALLOC}
        \cup (Text \cup {Terminated(text) : text \in Text})

\* A buffer made is one obtained.
LEMMA Obtains ==
  ASSUME NEW ret \in Ptr, Contents[ret] = NoBuffer, NEW bytes \in Fresh,
         Contents' = [Contents EXCEPT ![ret] = bytes]
  PROVE  ContentsStep
<1>1. Buffer!Obtain(ret)
  BY DEF Contents, Fresh, Buffer!Obtain
<1> QED
  BY <1>1 DEF ContentsStep, Buffer!BuffersNext

\* One that changes its size, in place or with a move, is one resized.
LEMMA Resizes ==
  ASSUME NEW p \in Ptr, NEW q \in Ptr, Contents[p] # NoBuffer, q = p \/ Contents[q] = NoBuffer,
         NEW n \in 1 .. MAX_ALLOC,
         Contents' = [Contents EXCEPT ![p] = NoBuffer, ![q] = Buffer!Resized(Contents[p], n)]
  PROVE  ContentsStep
<1>1. Buffer!Resize(p, q)
  BY DEF Contents, Buffer!Resize
<1> QED
  BY <1>1 DEF ContentsStep, Buffer!BuffersNext

\* One freed is one released.
LEMMA Releases ==
  ASSUME NEW p \in Ptr, Contents[p] # NoBuffer,
         Contents' = [Contents EXCEPT ![p] = NoBuffer]
  PROVE  ContentsStep
<1>1. Buffer!Release(p)
  BY DEF Contents, Buffer!Release
<1> QED
  BY <1>1 DEF ContentsStep, Buffer!BuffersNext

\* One written keeps all other bytes.
LEMMA Puts ==
  ASSUME NEW p \in Ptr, Contents[p] # NoBuffer, NEW i \in 1 .. MAX_ALLOC,
         i \in DOMAIN Contents[p], NEW byte \in Value,
         Contents' = [Contents EXCEPT ![p][i] = byte]
  PROVE  ContentsStep
<1>1. Buffer!Put(p, i)
  BY DEF Contents, Buffer!Put
<1> QED
  BY <1>1 DEF ContentsStep, Buffer!BuffersNext

\* The bytes of a buffer, without the tail.
BytesOf(chunk) == SubSeq(chunk.bytes, 1, chunk.s)

\* They are the first of its cells.
LEMMA BytesAre ==
  ASSUME NEW chunk \in Chunks, Sound(chunk)
  PROVE  /\ BytesOf(chunk) = [i \in 1 .. chunk.s |-> chunk.bytes[i]]
         /\ BytesOf(chunk) \in Seq(Cell) /\ Len(BytesOf(chunk)) = chunk.s
<1>1. chunk.bytes \in Seq(Cell) /\ chunk.s \in Nat /\ chunk.s < Len(chunk.bytes)
  BY HeapAssumption DEF Chunks, Sound
<1>2. PICK bytes \in Seq(Cell), n \in Nat : bytes = chunk.bytes /\ n = chunk.s /\ n < Len(bytes)
  BY <1>1
<1>3. SubSeq(bytes, 1, n) = [i \in 1 .. n |-> bytes[i]]
  BY <1>2
<1>4. [i \in 1 .. n |-> bytes[i]] \in Seq(Cell) /\ Len([i \in 1 .. n |-> bytes[i]]) = n
  BY <1>2
<1> QED
  BY <1>2, <1>3, <1>4 DEF BytesOf

\* What Contents says of an address in use, and of one that is not.
LEMMA ContentsAre ==
  ASSUME HeapInv, NEW p \in Ptr
  PROVE  /\ p \in in_use => Contents[p] = BytesOf(mem[p]) /\ Contents[p] # NoBuffer
         /\ p \notin in_use => Contents[p] = NoBuffer
<1>1. CASE p \in in_use
  <2>1. Contents[p] = BytesOf(mem[p])
    BY <1>1 DEF Contents, BytesOf
  <2>2. mem[p] \in Chunks /\ Sound(mem[p])
    BY <1>1 DEF HeapInv, Layout, Room
  <2>3. BytesOf(mem[p]) \in Seq(Cell)
    BY <2>2, BytesAre
  <2> QED
    BY <1>1, <2>1, <2>3, HeapAssumption
<1> QED
  BY <1>1 DEF Contents

\* Contents after a step, address by address.
LEMMA ContentsNext ==
  /\ \A q \in Ptr : Contents'[q] = IF q \in in_use' THEN BytesOf(mem'[q]) ELSE NoBuffer
  /\ \A q \in Ptr : mem'[q] = mem[q] /\ (q \in in_use' <=> q \in in_use) =>
                        Contents'[q] = Contents[q]
  /\ \A F : DOMAIN F = Ptr /\ F = [q \in Ptr |-> F[q]] /\ (\A q \in Ptr : Contents'[q] = F[q]) =>
                Contents' = F
<1>1. \A q \in Ptr : Contents'[q] = IF q \in in_use' THEN BytesOf(mem'[q]) ELSE NoBuffer
  BY DEF Contents, BytesOf
<1>2. \A q \in Ptr : Contents[q] = IF q \in in_use THEN BytesOf(mem[q]) ELSE NoBuffer
  BY DEF Contents, BytesOf
<1>3. ASSUME NEW F, F = [q \in Ptr |-> F[q]], \A q \in Ptr : Contents'[q] = F[q]
      PROVE  Contents' = F
  <2>1. Contents' = [q \in Ptr |-> Contents'[q]]
    BY DEF Contents
  <2> HIDE DEF Contents
  <2>2. [q \in Ptr |-> Contents'[q]] = [q \in Ptr |-> F[q]]
    BY <1>3
  <2> QED
    BY <1>3, <2>1, <2>2, Zenon
<1> QED
  BY <1>1, <1>2, <1>3, Zenon

\* An aborted program has the buffers it had.
LEMMA AbortContents ==
  ASSUME HeapInv, UNCHANGED <<mem, in_use>> \/ Marked
  PROVE  ContentsStep
<1>1. CASE UNCHANGED <<mem, in_use>>
  BY <1>1 DEF ContentsStep, Contents
<1>2. CASE Marked
  <2>1. \A q \in Ptr : Contents'[q] = Contents[q]
    BY <1>2 DEF Contents, Marked
  <2>2. Contents = [q \in Ptr |-> Contents[q]] /\ DOMAIN Contents = Ptr
    BY DEF Contents
  <2>3. Contents' = Contents
    BY <2>1, <2>2, ContentsNext
  <2> QED
    BY <2>3 DEF ContentsStep
<1> QED
  BY <1>1, <1>2

\* A new buffer has the bytes it is made with (alloc-inl.h:67-77).
LEMMA NewChunkContents ==
  ASSUME HeapInv, NEW size \in Nat \ {0}, NEW cells, NEW ret \in Result,
         NewChunk(size, cells, ret), size <= MAX_ALLOC => SubSeq(cells, 1, size) \in Fresh
  PROVE  ContentsStep
<1>1. CASE ret = NULL /\ (Abort("size", NULL) \/ Abort("memory", NULL))
  BY <1>1, AbortContents DEF Abort
<1>2. CASE /\ size <= MAX_ALLOC /\ ret \in Ptr \ in_use
           /\ mem' = [mem EXCEPT ![ret] = Chunk(size, cells)]
           /\ in_use' = in_use \cup {ret}
           /\ UNCHANGED status
  <2>1. PICK bytes \in Fresh : bytes = SubSeq(cells, 1, size)
    BY <1>2
  <2>2. mem'[ret] = Chunk(size, cells) /\ \A q \in Ptr \ {ret} : mem'[q] = mem[q]
    BY <1>2 DEF HeapInv, Layout
  <2>3. BytesOf(mem'[ret]) = bytes
    BY <2>1, <2>2 DEF BytesOf, Chunk
  <2>4. Contents[ret] = NoBuffer
    BY <1>2, ContentsAre
  <2> DEFINE F == [Contents EXCEPT ![ret] = bytes]
  <2>5. F = [q \in Ptr |-> F[q]] /\ F[ret] = bytes /\ \A q \in Ptr \ {ret} : F[q] = Contents[q]
    BY <1>2 DEF Contents
  <2> HIDE DEF F
  <2>6. \A q \in Ptr : Contents'[q] = F[q]
    BY <1>2, <2>2, <2>3, <2>5, ContentsNext
  <2>7. Contents' = F
    BY <2>5, <2>6, ContentsNext
  <2> QED
    BY <1>2, <2>4, <2>7, Obtains DEF F
<1> QED
  BY <1>1, <1>2 DEF NewChunk

\* A freed one is gone (alloc-inl.h:143-163).
LEMMA FreeContents ==
  ASSUME HeapInv, NEW p \in Result, DFL_ck_free(p)
  PROVE  ContentsStep
<1>1. CASE p = NULL
  BY <1>1, AbortContents DEF DFL_ck_free, heapVars
<1>2. CASE p # NULL /\ CheckPtr(p) # "ok"
  BY <1>2, AbortContents DEF DFL_ck_free, Abort
<1>3. CASE p # NULL /\ CheckPtr(p) = "ok"
  <2>1. p \in Ptr /\ p \in in_use
    BY <1>3, PassedIsWhole DEF Result, Whole
  <2>2. (\A q \in Ptr \ {p} : mem'[q] = mem[q]) /\ in_use' = in_use \ {p}
    BY <1>3, <2>1 DEF DFL_ck_free, HeapInv, Layout
  <2> DEFINE F == [Contents EXCEPT ![p] = NoBuffer]
  <2>3. F = [q \in Ptr |-> F[q]] /\ F[p] = NoBuffer /\ \A q \in Ptr \ {p} : F[q] = Contents[q]
    BY <2>1 DEF Contents
  <2> HIDE DEF F
  <2>4. \A q \in Ptr : Contents'[q] = F[q]
    BY <2>2, <2>3, ContentsNext
  <2>5. Contents' = F
    BY <2>3, <2>4, ContentsNext
  <2>6. Contents[p] # NoBuffer
    BY <2>1, ContentsAre
  <2> QED
    BY <2>1, <2>5, <2>6, Releases DEF F
<1> QED
  BY <1>1, <1>2, <1>3

\* The bytes of a resized buffer: those that fit, and zeroes (alloc-inl.h:204-232).
LEMMA RegrownBytes ==
  ASSUME HeapInv, NEW p \in Result, p = NULL \/ p \in in_use, NEW size \in 1 .. MAX_ALLOC
  PROVE  SubSeq(Regrown(p, size), 1, size) =
             Buffer!Resized(IF p = NULL THEN <<>> ELSE BytesOf(mem[p]), size)
<1>1. size \in Nat /\ 1 <= size
  BY HeapAssumption
<1>2a. PICK old, n : old = (IF p = NULL THEN <<>> ELSE mem[p].bytes) /\ n = OldSize(p)
  OBVIOUS
<1>2. /\ old \in Seq(Cell) /\ n = OldSize(p) /\ n \in Nat /\ n <= Len(old) /\ Len(old) \in Nat
      /\ old = IF p = NULL THEN <<>> ELSE mem[p].bytes
  <2>1. CASE p = NULL
    <3>1. n = 0 /\ old = <<>>
      BY <1>2a, <2>1 DEF OldSize
    <3>2. <<>> \in Seq(Cell) /\ Len(<<>>) = 0 /\ 0 \in Nat /\ 0 <= 0
      OBVIOUS
    <3> QED
      BY <1>2a, <3>1, <3>2
  <2>2. CASE p # NULL
    <3>1. Sound(mem[p]) /\ mem[p] \in Chunks
      BY <2>2 DEF HeapInv, Room, Layout
    <3>2. mem[p].bytes \in Seq(Cell) /\ mem[p].s \in Nat /\ mem[p].s <= Len(mem[p].bytes)
      BY <3>1, HeapAssumption DEF Sound, Chunks
    <3>3. n = mem[p].s /\ old = mem[p].bytes
      BY <1>2a, <2>2 DEF OldSize
    <3> QED
      BY <1>2a, <3>2, <3>3
  <2> QED
    BY <2>1, <2>2
<1>3. PICK bytes : bytes = IF p = NULL THEN <<>> ELSE BytesOf(mem[p])
  OBVIOUS
<1>4. Len(bytes) = n /\ \A i \in 1 .. n : bytes[i] = old[i]
  <2>1. CASE p = NULL
    BY <1>2, <1>3, <2>1 DEF OldSize
  <2>2. CASE p # NULL
    <3>1. Sound(mem[p]) /\ mem[p] \in Chunks
      BY <2>2 DEF HeapInv, Room, Layout
    <3>2. BytesOf(mem[p]) = [i \in 1 .. n |-> old[i]] /\ Len(BytesOf(mem[p])) = n
      BY <1>2, <2>2, <3>1, BytesAre DEF OldSize
    <3> QED
      BY <1>3, <2>2, <3>2
  <2> QED
    BY <2>1, <2>2
<1> DEFINE copied == IF ~DEBUG_BUILD THEN Len(old) ELSE IF size < n THEN size ELSE n
           cell(i) == IF i = size + 1 THEN ALLOC_MAGIC_C2
                      ELSE IF i > n THEN 0
                      ELSE IF i <= copied THEN old[i] ELSE Junk
<1>5. Regrown(p, size) = [i \in 1 .. size + 1 |-> cell(i)]
  BY <1>2, Zenon DEF Regrown
<1>6. \A i \in 1 .. size : cell(i) = IF i <= Len(bytes) THEN bytes[i] ELSE 0
  BY <1>1, <1>2, <1>4
<1> HIDE DEF cell
<1>7. PICK all : all = [i \in 1 .. size + 1 |-> cell(i)]
  OBVIOUS
<1>8. all \in Seq(Cell) /\ Len(all) = size + 1 /\ \A i \in 1 .. size : all[i] = cell(i)
  <2>1. all \in Seq(Cell) /\ Len(all) = size + 1
    BY <1>1, <1>5, <1>7, RegrownShape
  <2> QED
    BY <1>1, <1>7, <2>1
<1>9. SubSeq(all, 1, size) = [i \in 1 .. size |-> all[i]]
  BY <1>1, <1>8
<1>10. [i \in 1 .. size |-> all[i]] =
           [i \in 1 .. size |-> IF i <= Len(bytes) THEN bytes[i] ELSE 0]
  BY <1>6, <1>8
<1> QED
  BY <1>3, <1>5, <1>7, <1>9, <1>10, Zenon DEF Buffer!Resized

\* It has them after it is resized in place, moved or made (alloc-inl.h:199-229).
LEMMA MoveContents ==
  ASSUME HeapInv, NEW p \in Result, p = NULL \/ Whole(p), NEW size \in Nat \ {0},
         size <= MAX_ALLOC, NEW ret \in Result, Move(p, size, ret)
  PROVE  ContentsStep
<1>1. /\ ret \in Ptr
      /\ ret \notin in_use \/ (p # NULL /\ ret = p)
      /\ in_use' = (in_use \ {p}) \cup {ret}
      /\ mem'[ret] = Chunk(size, Regrown(p, size))
      /\ \A q \in Ptr \ {p, ret} : mem'[q] = mem[q]
  BY HeapAssumption DEF Move, Result
<1>2. size \in 1 .. MAX_ALLOC
  BY HeapAssumption
<1>3. PICK bytes, old : /\ bytes = Buffer!Resized(old, size)
                        /\ old = IF p = NULL THEN <<>> ELSE BytesOf(mem[p])
  OBVIOUS
<1>4. BytesOf(mem'[ret]) = bytes
  <2>1. SubSeq(Regrown(p, size), 1, size) = bytes
    BY <1>2, <1>3, RegrownBytes DEF Whole
  <2> QED
    BY <1>1, <2>1 DEF BytesOf, Chunk
<1>5. ret \in Ptr
  BY <1>1 DEF Result
<1>6. CASE p = NULL
  <2>1. ret \notin in_use /\ in_use' = in_use \cup {ret} /\ NULL \notin in_use
    BY <1>1, <1>6, HeapAssumption DEF HeapInv, Layout
  <2>2. bytes \in Fresh
    <3>1. Buffer!Resized(<<>>, size) = Buffer!Filled(size, 0)
      BY <1>2 DEF Buffer!Resized, Buffer!Filled
    <3> QED
      BY <1>2, <1>3, <1>6, <3>1 DEF Fresh
  <2> DEFINE F == [Contents EXCEPT ![ret] = bytes]
  <2>3. F = [q \in Ptr |-> F[q]] /\ F[ret] = bytes /\ \A q \in Ptr \ {ret} : F[q] = Contents[q]
    BY <1>5 DEF Contents
  <2> HIDE DEF F
  <2>4. \A q \in Ptr : Contents'[q] = F[q]
    BY <1>1, <1>4, <1>6, <2>1, <2>3, ContentsNext, HeapAssumption
  <2>5. Contents' = F
    BY <2>3, <2>4, ContentsNext
  <2>6. Contents[ret] = NoBuffer
    BY <1>5, <2>1, ContentsAre
  <2> QED
    BY <1>5, <2>2, <2>5, <2>6, Obtains DEF F
<1>7. CASE p # NULL
  <2>1. p \in Ptr /\ p \in in_use /\ (ret = p \/ ret \notin in_use)
    BY <1>1, <1>7 DEF Result, Whole
  <2>2. old = Contents[p] /\ Contents[p] # NoBuffer /\ (ret = p \/ Contents[ret] = NoBuffer)
    BY <1>3, <1>5, <1>7, <2>1, ContentsAre
  <2> DEFINE F == [Contents EXCEPT ![p] = NoBuffer, ![ret] = bytes]
  <2>3. /\ F = [q \in Ptr |-> F[q]] /\ F[ret] = bytes /\ (p # ret => F[p] = NoBuffer)
        /\ \A q \in Ptr \ {p, ret} : F[q] = Contents[q]
    BY <1>5, <2>1 DEF Contents
  <2> HIDE DEF F
  <2>4. \A q \in Ptr : Contents'[q] = F[q]
    BY <1>1, <1>4, <2>1, <2>3, ContentsNext
  <2>5. Contents' = F
    BY <2>3, <2>4, ContentsNext
  <2>6. F = [Contents EXCEPT ![p] = NoBuffer, ![ret] = Buffer!Resized(Contents[p], size)]
    BY <1>3, <2>2, Zenon DEF F
  <2> QED
    BY <1>2, <1>5, <2>1, <2>2, <2>5, <2>6, Resizes
<1> QED
  BY <1>6, <1>7

\* ck_realloc (alloc-inl.h:168-236).
LEMMA ReallocContents ==
  ASSUME HeapInv, NEW p \in Result, NEW size \in Nat, NEW ret \in Result,
         DFL_ck_realloc(p, size, ret)
  PROVE  ContentsStep
<1>1. CASE size = 0
  BY <1>1, FreeContents DEF DFL_ck_realloc
<1>2. CASE Abort(CheckPtr(p), p)
  BY <1>2, AbortContents DEF Abort
<1>5. CASE AbortMarked("size", p) \/ AbortMarked("memory", p)
  BY <1>5, MarkedAfter, AbortContents
<1>3. CASE size # 0 /\ (p = NULL \/ CheckPtr(p) = "ok") /\ size <= MAX_ALLOC /\ Move(p, size, ret)
  <2>1. p = NULL \/ Whole(p)
    BY <1>3, PassedIsWhole DEF Result
  <2> QED
    BY <1>3, <2>1, MoveContents
<1>4. MAX_ALLOC \in Nat
  BY HeapAssumption
<1> QED
  BY <1>1, <1>2, <1>3, <1>4, <1>5 DEF DFL_ck_realloc

\* ck_realloc_block (alloc-inl.h:241-259).
LEMMA ReallocBlockContents ==
  ASSUME HeapInv, NEW p \in Result, NEW size \in Nat, NEW ret \in Result,
         DFL_ck_realloc_block(p, size, ret)
  PROVE  ContentsStep
<1>1. (size + ALLOC_BLK_INC) % WORD \in Nat
  BY HeapAssumption
<1>2. CASE UNCHANGED heapVars \/ Abort(CheckPtr(p), p)
  BY <1>2, AbortContents DEF Abort, heapVars
<1>3. CASE \/ DFL_ck_realloc(p, size, ret)
           \/ DFL_ck_realloc(p, (size + ALLOC_BLK_INC) % WORD, ret)
  BY <1>1, <1>3, ReallocContents
<1> QED
  BY <1>2, <1>3 DEF DFL_ck_realloc_block

\* The tail is not one of a buffer's bytes, whatever comes behind it.
LEMMA TailedBytes ==
  ASSUME NEW bytes \in Seq(Cell)
  PROVE  /\ SubSeq(Tailed(bytes), 1, Len(bytes)) = bytes
         /\ SubSeq([Append(Tailed(bytes), Junk) EXCEPT ![Len(bytes) + 1] = 0], 1, Len(bytes)) =
                bytes
<1>1. PICK n \in Nat : n = Len(bytes)
  OBVIOUS
<1>2. PICK tailed : tailed = Tailed(bytes)
  OBVIOUS
<1>3. tailed \in Seq(Cell) /\ Len(tailed) = n + 1 /\ \A i \in 1 .. n : tailed[i] = bytes[i]
  <2>1. ALLOC_MAGIC_C2 \in Cell
    BY DEF ALLOC_MAGIC_C2, Cell
  <2> QED
    BY <1>1, <1>2, <2>1 DEF Tailed
<1>4. PICK long : long = Append(tailed, Junk)
  OBVIOUS
<1>5. long \in Seq(Cell) /\ Len(long) = n + 2 /\ \A i \in 1 .. n : long[i] = bytes[i]
  BY <1>1, <1>3, <1>4 DEF Junk, Cell
<1>6. PICK cells : cells = [long EXCEPT ![n + 1] = 0]
  OBVIOUS
<1>7. cells \in Seq(Cell) /\ Len(cells) = n + 2 /\ \A i \in 1 .. n : cells[i] = bytes[i]
  <2>1. 0 \in Cell /\ n + 1 \in 1 .. Len(long)
    BY <1>5 DEF Cell
  <2>2. /\ cells \in Seq(Cell) /\ Len(cells) = Len(long)
        /\ \A i \in 1 .. Len(long) : cells[i] = IF i = n + 1 THEN 0 ELSE long[i]
    BY <1>5, <1>6, <2>1, ExceptSeq
  <2> QED
    BY <1>5, <2>2
<1>8. ASSUME NEW some \in Seq(Cell), Len(some) > n, \A i \in 1 .. n : some[i] = bytes[i]
      PROVE  SubSeq(some, 1, n) = bytes
  BY <1>1, <1>8
<1>9. SubSeq(tailed, 1, n) = bytes /\ SubSeq(cells, 1, n) = bytes
  BY <1>3, <1>7, <1>8
<1> QED
  BY <1>1, <1>2, <1>4, <1>6, <1>9, Zenon

\* ck_alloc and ck_alloc_nozero (alloc-inl.h:105-140).
LEMMA AllocContents ==
  ASSUME HeapInv, NEW size \in Nat, NEW ret \in Result,
         DFL_ck_alloc(size, ret) \/ DFL_ck_alloc_nozero(size, ret)
  PROVE  ContentsStep
<1>1. CASE Nothing(ret)
  BY <1>1, AbortContents DEF Nothing, heapVars
<1>2. ASSUME size # 0, NEW byte \in {0, Junk},
             NewChunk(size, Tailed([i \in 1 .. size |-> byte]), ret)
      PROVE  ContentsStep
  <2>1. PICK bytes : bytes = [i \in 1 .. size |-> byte]
    OBVIOUS
  <2>2. bytes \in Seq(Cell) /\ Len(bytes) = size
    BY <2>1 DEF Cell, Junk
  <2>3. PICK cells : cells = Tailed(bytes)
    OBVIOUS
  <2>4. SubSeq(cells, 1, size) = bytes
    BY <2>2, <2>3, TailedBytes
  <2>5. size <= MAX_ALLOC => bytes \in Fresh
    <3>1. bytes = Buffer!Filled(size, byte)
      BY <2>1, Zenon DEF Buffer!Filled
    <3>2. size <= MAX_ALLOC => size \in 1 .. MAX_ALLOC
      BY <1>2, HeapAssumption
    <3> QED
      BY <3>1, <3>2, Zenon DEF Fresh
  <2>6. NewChunk(size, cells, ret)
    BY <1>2, <2>1, <2>3
  <2> QED
    BY <1>2, <2>4, <2>5, <2>6, NewChunkContents
<1> QED
  BY <1>1, <1>2 DEF DFL_ck_alloc, DFL_ck_alloc_nozero

\* Copies of strings and blocks (alloc-inl.h:39-48, 263-337).
LEMMA CopyContents ==
  ASSUME HeapInv, NEW text \in Text, NEW ret \in Result,
         \/ DFL_ck_strdup(text, ret) \/ alloc_printf(text, ret)
         \/ DFL_ck_memdup(text, ret) \/ DFL_ck_memdup_str(text, ret)
  PROVE  ContentsStep
<1>1. /\ text \in Seq(Cell) /\ Len(text) \in Nat \ {0}
      /\ Terminated(text) \in Seq(Cell) /\ Len(Terminated(text)) = Len(text) + 1
      /\ text \in Fresh /\ Terminated(text) \in Fresh
  BY TextShape DEF Fresh
<1>2. CASE NewChunk(Len(text) + 1, Tailed(Terminated(text)), ret)
  <2>0. PICK bytes \in Seq(Cell) : bytes = Terminated(text)
    BY <1>1
  <2>1. PICK cells, size : cells = Tailed(bytes) /\ size = Len(text) + 1
    OBVIOUS
  <2>2. SubSeq(cells, 1, size) \in Fresh /\ size \in Nat \ {0}
    <3>1. SubSeq(cells, 1, Len(bytes)) = bytes
      BY <2>1, TailedBytes
    <3>2. size = Len(bytes) /\ bytes \in Fresh /\ size \in Nat \ {0}
      BY <1>1, <2>0, <2>1
    <3> QED
      BY <3>1, <3>2, Zenon
  <2> QED
    BY <1>2, <2>0, <2>1, <2>2, NewChunkContents
<1>3. CASE NewChunk(Len(text), Tailed(text), ret)
  <2>1. PICK cells, size : cells = Tailed(text) /\ size = Len(text)
    OBVIOUS
  <2>2. SubSeq(cells, 1, size) \in Fresh /\ size \in Nat \ {0}
    BY <1>1, <2>1, TailedBytes
  <2> QED
    BY <1>3, <2>1, <2>2, NewChunkContents
<1>4. CASE DFL_ck_memdup_str(text, ret)
  <2>1. PICK cells, size :
            /\ cells = [Append(Tailed(text), Junk) EXCEPT ![Len(text) + 1] = 0]
            /\ size = Len(text)
    OBVIOUS
  <2>2. SubSeq(cells, 1, size) \in Fresh /\ size \in Nat \ {0}
    BY <1>1, <2>1, TailedBytes, Zenon
  <2>3. NewChunk(size, cells, ret)
    BY <1>4, <2>1, Zenon DEF DFL_ck_memdup_str
  <2> QED
    BY <2>2, <2>3, NewChunkContents
<1> QED
  BY <1>2, <1>3, <1>4 DEF DFL_ck_strdup, alloc_printf, DFL_ck_memdup

\* A byte written in a buffer is the only one that changes.
LEMMA WriteContents ==
  ASSUME HeapInv, BigEnough, NEW p \in Ptr, NEW i \in 1 .. MAX_ALLOC, NEW byte \in Value,
         Write(p, i, byte)
  PROVE  ContentsStep
<1>1. /\ p \in in_use /\ p \in owned /\ i <= asked[p] /\ UNCHANGED in_use
      /\ mem' = [mem EXCEPT ![p].bytes[i] = byte]
  BY DEF Write
<1>2. i \in Nat \ {0}
  BY HeapAssumption
<1>3. mem' \in [Ptr -> Chunks] /\ ByteChanged(p, i, byte)
  BY <1>1, <1>2, PutShape
<1>4. mem[p] \in Chunks /\ Sound(mem[p]) /\ mem'[p] \in Chunks
  BY <1>1, <1>3 DEF HeapInv, Layout, Room
<1>5. PICK n \in Nat : /\ n = mem[p].s /\ n = mem'[p].s /\ n < Len(mem[p].bytes)
                       /\ Len(mem[p].bytes) \in Nat
  BY <1>3, <1>4, HeapAssumption DEF ByteChanged, Sound, Chunks
<1>6. Sound(mem'[p])
  BY <1>3, <1>4 DEF ByteChanged, Sound
<1>7. i \in 1 .. n
  <2>1. asked[p] <= mem[p].s /\ asked[p] \in Nat
    BY <1>1, HeapAssumption DEF BigEnough, HeapInv, Layout
  <2> QED
    BY <1>1, <1>2, <1>5, <2>1
<1>8. Contents[p] = [j \in 1 .. n |-> mem[p].bytes[j]] /\ Contents[p] # NoBuffer
  BY <1>1, <1>4, <1>5, BytesAre, ContentsAre
<1>9. Contents'[p] = [j \in 1 .. n |-> mem'[p].bytes[j]]
  <2>1. BytesOf(mem'[p]) = [j \in 1 .. n |-> mem'[p].bytes[j]]
    BY <1>4, <1>5, <1>6, BytesAre
  <2> QED
    BY <1>1, <2>1, ContentsNext
<1>10. \A j \in 1 .. n : mem'[p].bytes[j] = IF j = i THEN byte ELSE mem[p].bytes[j]
  BY <1>3, <1>5 DEF ByteChanged
<1>11. PICK was, now : was = Contents[p] /\ now = [was EXCEPT ![i] = byte]
  OBVIOUS
<1>12. Contents'[p] = now
  <2>1. now = [j \in 1 .. n |-> IF j = i THEN byte ELSE mem[p].bytes[j]]
    BY <1>7, <1>8, <1>11
  <2> QED
    BY <1>9, <1>10, <2>1
<1> DEFINE F == [Contents EXCEPT ![p] = now]
<1>13. F = [q \in Ptr |-> F[q]] /\ F[p] = now /\ \A q \in Ptr \ {p} : F[q] = Contents[q]
  BY DEF Contents
<1>14. F = [Contents EXCEPT ![p][i] = byte]
  BY <1>11 DEF Contents
<1> HIDE DEF F
<1>15. \A q \in Ptr : Contents'[q] = F[q]
  BY <1>1, <1>3, <1>12, <1>13, ContentsNext DEF ByteChanged
<1>16. Contents' = F
  BY <1>13, <1>15, ContentsNext
<1>17. i \in DOMAIN Contents[p]
  BY <1>7, <1>8
<1> QED
  BY <1>8, <1>14, <1>16, <1>17, Puts

\* One written behind its end keeps all its bytes.
LEMMA BeyondContents ==
  ASSUME HeapInv, NEW p \in Ptr, NEW byte \in Value, WriteBeyond(p, byte)
  PROVE  ContentsStep
<1>1. /\ p \in in_use /\ UNCHANGED in_use
      /\ mem' = [mem EXCEPT ![p].bytes[mem[p].s + 1] = byte]
  BY DEF WriteBeyond
<1>2. mem[p] \in Chunks /\ Sound(mem[p]) /\ mem[p].s + 1 \in Nat \ {0}
  BY <1>1, HeapAssumption DEF HeapInv, Layout, Room, Chunks
<1>3. mem' \in [Ptr -> Chunks] /\ ByteChanged(p, mem[p].s + 1, byte)
  BY <1>1, <1>2, PutShape
<1>4. mem'[p] \in Chunks /\ Sound(mem'[p])
  BY <1>2, <1>3 DEF ByteChanged, Sound
<1>5. PICK n \in Nat : /\ n = mem[p].s /\ n = mem'[p].s /\ n < Len(mem[p].bytes)
                       /\ Len(mem[p].bytes) \in Nat
  BY <1>2, <1>3, HeapAssumption DEF ByteChanged, Sound, Chunks
<1>6. \A j \in 1 .. n : mem'[p].bytes[j] = mem[p].bytes[j]
  BY <1>3, <1>5 DEF ByteChanged
<1>7. BytesOf(mem'[p]) = BytesOf(mem[p])
  <2>1. BytesOf(mem'[p]) = [j \in 1 .. n |-> mem'[p].bytes[j]]
    BY <1>4, <1>5, BytesAre
  <2>2. BytesOf(mem[p]) = [j \in 1 .. n |-> mem[p].bytes[j]]
    BY <1>2, <1>5, BytesAre
  <2> QED
    BY <1>6, <2>1, <2>2
<1>8. \A q \in Ptr : Contents'[q] = Contents[q]
  BY <1>1, <1>3, <1>7, ContentsAre, ContentsNext DEF ByteChanged
<1>9. Contents = [q \in Ptr |-> Contents[q]] /\ DOMAIN Contents = Ptr
  BY DEF Contents
<1>10. Contents' = Contents
  BY <1>8, <1>9, ContentsNext
<1> QED
  BY <1>10 DEF ContentsStep

\* Every step of the heap is one of its buffers, or leaves them all as they are.
LEMMA StepIsContents == SafeInv /\ [HeapNext]_checkedVars => ContentsStep
<1> SUFFICES ASSUME SafeInv, [HeapNext]_checkedVars PROVE ContentsStep
  OBVIOUS
<1>1. HeapInv /\ BigEnough
  BY DEF SafeInv
<1>2. Owned \subseteq Result /\ NULL \in Result /\ Ptr \subseteq Result
  BY <1>1 DEF HeapInv, Layout, Owned, Result
<1>3. Sizes \subseteq Nat
  BY HeapAssumption
<1>4. CASE UNCHANGED checkedVars
  BY <1>1, <1>4, AbortContents DEF checkedVars, heapVars
<1>5. CASE \E ret \in Result, size \in Sizes : Alloc(size, ret) \/ AllocNozero(size, ret)
  BY <1>1, <1>3, <1>5, AllocContents DEF Alloc, AllocNozero
<1>6. CASE \E ret \in Result, text \in Text : Copy(text, ret) \/ CopyStr(text, ret)
  BY <1>1, <1>6, CopyContents DEF Copy, CopyStr
<1>7. CASE \E ret \in Result, p \in Owned, size \in Sizes : Realloc(p, size, ret)
  BY <1>1, <1>2, <1>3, <1>7, ReallocContents DEF Realloc
<1>8. CASE \E ret \in Result, p \in Owned, size \in Sizes : ReallocBlock(p, size, ret)
  BY <1>1, <1>2, <1>3, <1>8, ReallocBlockContents DEF ReallocBlock
<1>9. CASE (\E p \in Owned : Free(p)) \/ (\E p \in Ptr : FreeStale(p))
  BY <1>1, <1>2, <1>9, FreeContents DEF Free, FreeStale
<1>10. CASE \E p \in Ptr, i \in 1 .. MAX_ALLOC, byte \in Value : Write(p, i, byte)
  BY <1>1, <1>10, WriteContents
<1>11. CASE \E p \in Ptr, byte \in Value : WriteBeyond(p, byte)
  BY <1>1, <1>11, BeyondContents
<1> QED
  BY <1>4, <1>5, <1>6, <1>7, <1>8, <1>9, <1>10, <1>11 DEF HeapNext

\* The heap implements the buffers it promises: a buffer's bytes are those it was made
\* with and those written to it, through every resize, in both builds, as long as no
\* size wraps around (alloc-inl.h:166, 199-232).
THEOREM BytesKept == NoWrap /\ HeapSpec => KeepsBytes
<1>1. HeapInit => Buffer!BuffersInit
  BY DEF HeapInit, Buffer!BuffersInit
<1>2. SafeInv /\ [HeapNext]_checkedVars => ContentsStep
  BY StepIsContents
<1> QED
  BY <1>1, <1>2, InitSafe, StepKeepsSafe, PTL
     DEF HeapSpec, KeepsBytes, Buffer!BuffersSpec, ContentsStep, Contents
=============================================================================
