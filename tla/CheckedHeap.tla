---------------------------- MODULE CheckedHeap ----------------------------
(***************************************************************************)
(* include/alloc-inl.h: the allocator of clang-trace.  Every buffer has a  *)
(* head (the dwords C1 and S before the pointer) and a tail (the byte C2   *)
(* after it) that are checked when the buffer is freed or resized.         *)
(*                                                                         *)
(* The client is any program that uses the interface and may make two      *)
(* mistakes: write one byte too many, and free a pointer it no longer      *)
(* owns.  malloc, realloc and free are the C library's: any unused         *)
(* address, any old contents, failure at any time; a freed head holds the  *)
(* allocator's mark or what the library put over it.                       *)
(***************************************************************************)
EXTENDS Naturals, Sequences

CONSTANTS
    Ptr,                    \* addresses of buffers
    NULL,
    NoBuffer,
    Sizes,                  \* sizes the client asks for
    Text,                   \* strings and blocks it copies: non-empty, without a 0
    Value,                  \* bytes it writes
    WORD,                   \* 2^32: sizes are u32
    MAX_ALLOC,
    ALLOC_BLK_INC

ALLOC_MAGIC_C2 == 240
Junk == 256                 \* not a byte: what malloc happens to return
Cell == 0 .. 256

ASSUME HeapAssumption ==
    /\ NULL \notin Ptr
    /\ NoBuffer \notin Seq(Cell)
    /\ MAX_ALLOC \in Nat \ {0} /\ ALLOC_BLK_INC \in Nat \ {0}
    /\ WORD \in Nat /\ MAX_ALLOC + ALLOC_BLK_INC < WORD
    /\ Sizes \subseteq 0 .. WORD - 1
    /\ Value \subseteq (0 .. 255) \ {ALLOC_MAGIC_C2}
    /\ \A text \in Text : /\ text \in Seq(Value \ {0})
                          /\ Len(text) \in 1 .. MAX_ALLOC - 1

VARIABLES
    DEBUG_BUILD,            \* the build, the same for the whole run
    mem,                    \* head, size and bytes at each address, the tail included
    in_use,                 \* addresses malloc has handed out
    status                  \* why the program was aborted, and at which pointer

\* The client: the buffers it owns, the size it asked for, and the pointers to
\* buffers it has given back.
VARIABLES owned, asked, stale

\* History: buffers written beyond the end, pointers freed that were not owned,
\* and buffers made by ck_memdup_str.
VARIABLES overrun, misused, dup_strs

heapVars == <<mem, in_use, status>>
clientVars == <<owned, asked, stale>>
mistakeVars == <<overrun, misused, dup_strs>>
checkedVars == <<DEBUG_BUILD, heapVars, clientVars, mistakeVars>>

Running == status.why = "ok"
Canary == {"use after free", "head", "tail"}

\* Types: a buffer has room for its bytes and the tail (alloc-inl.h:71-78).
HeapTypeOK ==
    /\ \A p \in Ptr : /\ mem[p].c1 \in {"C1", "F", "libc"}
                      /\ mem[p].s \in 0 .. MAX_ALLOC
                      /\ mem[p].bytes \in Seq(Cell)
                      /\ p \in in_use => mem[p].s > 0 /\ mem[p].s < Len(mem[p].bytes)
    /\ DEBUG_BUILD \in BOOLEAN
    /\ in_use \subseteq Ptr
    /\ status.why \in {"ok", "size", "memory"} \cup Canary
    /\ owned \subseteq Ptr /\ stale \subseteq Ptr
    /\ asked \in [Ptr -> 0 .. WORD - 1]
    /\ (overrun \cup misused \cup dup_strs) \subseteq Ptr

HeapInit ==
    /\ DEBUG_BUILD \in BOOLEAN
    /\ mem = [p \in Ptr |-> [c1 |-> "libc", s |-> 0, bytes |-> <<>>]]
    /\ in_use = {}
    /\ status = [why |-> "ok", ptr |-> NULL]
    /\ owned = {} /\ stale = {}
    /\ asked = [p \in Ptr |-> 0]
    /\ overrun = {} /\ misused = {} /\ dup_strs = {}

Abort(why, p) ==
    /\ status' = [why |-> why, ptr |-> p]
    /\ UNCHANGED <<mem, in_use>>

\* The same in ck_realloc, which by then has marked the head of p (without
\* DEBUG_BUILD), although the buffer is still there.
AbortMarked(why, p) ==
    /\ status' = [why |-> why, ptr |-> NULL]
    /\ mem' = IF p = NULL \/ DEBUG_BUILD THEN mem ELSE [mem EXCEPT ![p].c1 = "F"]
    /\ UNCHANGED in_use

-----------------------------------------------------------------------------
(***************************************************************************)
(* CHECK_PTR and the three tokens.                                         *)
(***************************************************************************)
BugCheckPtr(p) ==
    IF mem[p].c1 = "F" THEN "use after free"
    ELSE IF mem[p].c1 # "C1" THEN "head"
    ELSE "ok"

CheckPtr(p) ==
    IF mem[p].c1 = "F" THEN "use after free"
    ELSE IF mem[p].c1 # "C1" THEN "head"
    ELSE IF mem[p].bytes[mem[p].s + 1] # ALLOC_MAGIC_C2 THEN "tail"
    ELSE "ok"

Chunk(size, cells) == [c1 |-> "C1", s |-> size, bytes |-> cells]

BugTailed(bytes) == Append(bytes, Junk)

Tailed(bytes) == Append(bytes, ALLOC_MAGIC_C2)

\* What a freed head reads as: the mark, unless the library reuses the place.
BugFreedHeads == {"C1", "libc"}

FreedHeads == {"F", "libc"}

Freed(head) == [c1 |-> head, s |-> 0, bytes |-> <<>>]

BugNewChunk(size, cells, ret) ==
    \/ ret = NULL /\ Abort("memory", NULL)
    \/ /\ ret \in Ptr \ in_use
       /\ mem' = [mem EXCEPT ![ret] = Chunk(size, cells)]
       /\ in_use' = in_use \cup {ret}
       /\ UNCHANGED status

\* ALLOC_CHECK_SIZE, malloc, ALLOC_CHECK_RESULT, and the tokens.
NewChunk(size, cells, ret) ==
    \/ size > MAX_ALLOC /\ ret = NULL /\ Abort("size", NULL)
    \/ size <= MAX_ALLOC /\ ret = NULL /\ Abort("memory", NULL)
    \/ /\ size <= MAX_ALLOC /\ ret \in Ptr \ in_use
       /\ mem' = [mem EXCEPT ![ret] = Chunk(size, cells)]
       /\ in_use' = in_use \cup {ret}
       /\ UNCHANGED status

Nothing(ret) == ret = NULL /\ UNCHANGED heapVars

(***************************************************************************)
(* The functions; ret is what they return.                                 *)
(***************************************************************************)
DFL_ck_alloc(size, ret) ==
    IF size = 0 THEN Nothing(ret)
    ELSE NewChunk(size, Tailed([i \in 1 .. size |-> 0]), ret)

\* With DEBUG_BUILD, ck_alloc_nozero is an alias of the zeroing function.
DFL_ck_alloc_nozero(size, ret) ==
    IF DEBUG_BUILD \/ size = 0 THEN DFL_ck_alloc(size, ret)
    ELSE NewChunk(size, Tailed([i \in 1 .. size |-> Junk]), ret)

Terminated(text) == Append(text, 0)

DFL_ck_strdup(text, ret) == NewChunk(Len(text) + 1, Tailed(Terminated(text)), ret)

\* The macro allocates with ck_alloc and prints over the zeroes.
alloc_printf(text, ret) == NewChunk(Len(text) + 1, Tailed(Terminated(text)), ret)

DFL_ck_memdup(block, ret) == NewChunk(Len(block), Tailed(block), ret)

\* The terminator goes to ret[size], where the tail has just been put; the byte
\* more that was allocated stays unused.
DFL_ck_memdup_str(block, ret) ==
    NewChunk(Len(block), [Append(Tailed(block), Junk) EXCEPT ![Len(block) + 1] = 0], ret)

\* Clobbering with DEBUG_BUILD goes unseen: what is freed is not read again.
DFL_ck_free(p) ==
    IF p = NULL THEN UNCHANGED heapVars
    ELSE IF CheckPtr(p) # "ok" THEN Abort(CheckPtr(p), p)
    ELSE /\ \E head \in FreedHeads : mem' = [mem EXCEPT ![p] = Freed(head)]
         /\ in_use' = in_use \ {p}
         /\ UNCHANGED status

OldSize(p) == IF p = NULL THEN 0 ELSE mem[p].s

BugRegrown(p, size) ==
    LET old == IF p = NULL THEN <<>> ELSE mem[p].bytes
    IN  [i \in 1 .. size + 1 |->
            IF i = size + 1 THEN ALLOC_MAGIC_C2
            ELSE IF i <= Len(old) THEN old[i]
            ELSE IF i > OldSize(p) + 1 THEN 0 ELSE Junk]

\* realloc copies the old block, tail included, a forced relocation the old
\* bytes; then the new tail is put and the new bytes are zeroed.
Regrown(p, size) ==
    LET old == IF p = NULL THEN <<>> ELSE mem[p].bytes
        copied == IF ~DEBUG_BUILD THEN Len(old)
                  ELSE IF size < OldSize(p) THEN size ELSE OldSize(p)
    IN  [i \in 1 .. size + 1 |->
            IF i = size + 1 THEN ALLOC_MAGIC_C2
            ELSE IF i > OldSize(p) THEN 0
            ELSE IF i <= copied THEN old[i] ELSE Junk]

\* The buffer moves, or is resized in place if it is not forced to move.
Move(p, size, ret) ==
    /\ ret \in Ptr \ in_use \/ (p # NULL /\ ret = p /\ ~DEBUG_BUILD)
    /\ \E head \in FreedHeads :
           mem' = [q \in Ptr |-> IF q = ret THEN Chunk(size, Regrown(p, size))
                                 ELSE IF q = p THEN Freed(head) ELSE mem[q]]
    /\ in_use' = (in_use \ {p}) \cup {ret}
    /\ UNCHANGED status

DFL_ck_realloc(p, size, ret) ==
    IF size = 0 THEN ret = NULL /\ DFL_ck_free(p)
    ELSE IF p # NULL /\ CheckPtr(p) # "ok" THEN ret = NULL /\ Abort(CheckPtr(p), p)
    ELSE IF size > MAX_ALLOC THEN ret = NULL /\ AbortMarked("size", p)
    ELSE \/ ret = NULL /\ AbortMarked("memory", p)
         \/ Move(p, size, ret)

BugFits(p, size) == mem[p].s + 1 >= size

Fits(p, size) == mem[p].s >= size

DFL_ck_realloc_block(p, size, ret) ==
    IF DEBUG_BUILD \/ p = NULL THEN DFL_ck_realloc(p, size, ret)
    ELSE IF CheckPtr(p) # "ok" THEN ret = NULL /\ Abort(CheckPtr(p), p)
    ELSE IF Fits(p, size) THEN ret = p /\ UNCHANGED heapVars
    ELSE DFL_ck_realloc(p, (size + ALLOC_BLK_INC) % WORD, ret)

-----------------------------------------------------------------------------
(***************************************************************************)
(* The client.                                                             *)
(***************************************************************************)

\* It has given p for ret, either of which may be NULL.
Exchange(p, size, ret) ==
    IF status'.why # "ok" THEN UNCHANGED clientVars
    ELSE /\ owned' = (owned \ {p}) \cup ({ret} \ {NULL})
         /\ stale' = stale \cup ({p} \ {NULL, ret})
         /\ asked' = IF ret = NULL THEN asked ELSE [asked EXCEPT ![ret] = size]

CanCall == Running /\ UNCHANGED <<overrun, misused>>

Alloc(size, ret) ==
    /\ CanCall /\ DFL_ck_alloc(size, ret)
    /\ Exchange(NULL, size, ret) /\ UNCHANGED dup_strs

AllocNozero(size, ret) ==
    /\ CanCall /\ DFL_ck_alloc_nozero(size, ret)
    /\ Exchange(NULL, size, ret) /\ UNCHANGED dup_strs

Copy(text, ret) ==
    /\ CanCall
    /\ \/ DFL_ck_strdup(text, ret) /\ Exchange(NULL, Len(text) + 1, ret)
       \/ alloc_printf(text, ret) /\ Exchange(NULL, Len(text) + 1, ret)
       \/ DFL_ck_memdup(text, ret) /\ Exchange(NULL, Len(text), ret)
    /\ UNCHANGED dup_strs

CopyStr(block, ret) ==
    /\ CanCall /\ DFL_ck_memdup_str(block, ret)
    /\ Exchange(NULL, Len(block), ret)
    /\ dup_strs' = dup_strs \cup ({ret} \ {NULL})

Free(p) ==
    /\ CanCall /\ DFL_ck_free(p)
    /\ Exchange(p, 0, NULL) /\ UNCHANGED dup_strs

Realloc(p, size, ret) ==
    /\ CanCall /\ DFL_ck_realloc(p, size, ret)
    /\ Exchange(p, size, ret) /\ UNCHANGED dup_strs

ReallocBlock(p, size, ret) ==
    /\ CanCall /\ DFL_ck_realloc_block(p, size, ret)
    /\ Exchange(p, size, ret) /\ UNCHANGED dup_strs

Write(p, i, byte) ==
    /\ Running /\ p \in owned \cap in_use /\ i <= asked[p]
    /\ mem' = [mem EXCEPT ![p].bytes[i] = byte]
    /\ UNCHANGED <<in_use, status, clientVars, mistakeVars>>

\* One byte beyond the end; one that looks like the tail changes nothing.
WriteBeyond(p, byte) ==
    /\ Running /\ p \in owned \cap in_use
    /\ mem' = [mem EXCEPT ![p].bytes[mem[p].s + 1] = byte]
    /\ overrun' = overrun \cup {p}
    /\ UNCHANGED <<in_use, status, clientVars, misused, dup_strs>>

\* A pointer given back before; somebody else may own that address by now.
FreeStale(p) ==
    /\ Running /\ p \in stale
    /\ DFL_ck_free(p)
    /\ misused' = misused \cup {p}
    /\ UNCHANGED <<clientVars, overrun, dup_strs>>

Result == Ptr \cup {NULL}

Owned == owned \cup {NULL}

HeapNext ==
    /\ \/ \E ret \in Result :
             \/ \E size \in Sizes : Alloc(size, ret)
             \/ \E size \in Sizes : AllocNozero(size, ret)
             \/ \E text \in Text : Copy(text, ret)
             \/ \E block \in Text : CopyStr(block, ret)
             \/ \E p \in Owned, size \in Sizes : Realloc(p, size, ret)
             \/ \E p \in Owned, size \in Sizes : ReallocBlock(p, size, ret)
       \/ \E p \in Owned : Free(p)
       \/ \E p \in Ptr, i \in 1 .. MAX_ALLOC, byte \in Value : Write(p, i, byte)
       \/ \E p \in Ptr, byte \in Value : WriteBeyond(p, byte)
       \/ \E p \in Ptr : FreeStale(p)
    /\ UNCHANGED DEBUG_BUILD

HeapSpec == HeapInit /\ [][HeapNext]_checkedVars

(***************************************************************************)
(* Properties.                                                             *)
(***************************************************************************)

\* The head alone tells used memory from freed (alloc-inl.h:86-96), whatever was
\* resized in place, moved, or handed out again: so no buffer is freed twice
\* without an abort, and none that is in use is taken for a freed one, but in the
\* program that a failed ck_realloc has aborted (187, 197-202).
HeadTellsUse ==
    \A p \in Ptr : /\ mem[p].c1 = "C1" => p \in in_use
                   /\ Running /\ p \in in_use => mem[p].c1 = "C1"

\* A buffer written beyond its end stays as it is until the program is aborted:
\* it is never freed, resized or repaired on the way (alloc-inl.h:86-96).
OverrunsCaught ==
    \A p \in overrun : p \in in_use /\ mem[p].bytes[mem[p].s + 1] # ALLOC_MAGIC_C2

FalseAlarm == status.why \in Canary /\ status.ptr \notin overrun \cup misused

\* A program is aborted for a broken buffer only if it broke that buffer or
\* freed it behind its owner's back, or has it from ck_memdup_str (316-337).
AlarmsJustified == FalseAlarm => status.ptr \in dup_strs

\* alloc-inl.h:143 "checking for double free and corrupted heap", 24-25 "to detect
\* use-after-free, off-by-one writes, stale pointers": nothing else is reported.
NoFalseAlarm == ~FalseAlarm

\* A buffer is as large as its owner asked (alloc-inl.h:242-260).  Lines 50-51
\* say the size limit is a "defense against integer overflows".
BigEnough == \A p \in owned \cap in_use : asked[p] <= mem[p].s

Buffer == INSTANCE Buffers WITH
              MAX_SIZE <- MAX_ALLOC, Unset <- Junk,
              Copies <- Text \cup {Terminated(text) : text \in Text},
              buffer <- [p \in Ptr |-> IF p \in in_use
                                       THEN SubSeq(mem[p].bytes, 1, mem[p].s)
                                       ELSE NoBuffer]

\* The bytes of a buffer are what it was made with and what was written to it,
\* through every resize in place or with a move: "zeroing any newly-added tail"
\* (alloc-inl.h:166), and no byte of another buffer or of a tail shows.
KeepsBytes == Buffer!BuffersSpec
=============================================================================
