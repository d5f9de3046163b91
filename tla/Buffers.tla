------------------------------ MODULE Buffers ------------------------------
(***************************************************************************)
(* What the allocator of include/alloc-inl.h promises the programs that    *)
(* use it: buffers with the bytes asked for, that change only when they    *)
(* are written, resized or released.                                       *)
(***************************************************************************)
EXTENDS Naturals, Sequences

CONSTANTS
    Ptr,
    NoBuffer,               \* there is no buffer at an address
    Copies,                 \* contents a buffer may be made with
    Value,                  \* bytes a program writes
    Unset,                  \* a byte nobody has written yet
    MAX_SIZE

VARIABLE buffer

Filled(n, byte) == [i \in 1 .. n |-> byte]

\* Resizing keeps what fits and zeroes what is new.
Resized(bytes, n) == [i \in 1 .. n |-> IF i <= Len(bytes) THEN bytes[i] ELSE 0]

BuffersInit == buffer = [p \in Ptr |-> NoBuffer]

Obtain(p) ==
    /\ buffer[p] = NoBuffer
    /\ \E bytes \in {Filled(n, 0) : n \in 1 .. MAX_SIZE}
                    \cup {Filled(n, Unset) : n \in 1 .. MAX_SIZE} \cup Copies :
           buffer' = [buffer EXCEPT ![p] = bytes]

Resize(p, q) ==
    /\ buffer[p] # NoBuffer
    /\ q = p \/ buffer[q] = NoBuffer
    /\ \E n \in 1 .. MAX_SIZE :
           buffer' = [buffer EXCEPT ![p] = NoBuffer, ![q] = Resized(buffer[p], n)]

Release(p) ==
    /\ buffer[p] # NoBuffer
    /\ buffer' = [buffer EXCEPT ![p] = NoBuffer]

Put(p, i) ==
    /\ buffer[p] # NoBuffer
    /\ i \in DOMAIN buffer[p]
    /\ \E byte \in Value : buffer' = [buffer EXCEPT ![p][i] = byte]

BuffersNext ==
    \E p \in Ptr :
        \/ Obtain(p)
        \/ \E q \in Ptr : Resize(p, q)
        \/ Release(p)
        \/ \E i \in 1 .. MAX_SIZE : Put(p, i)

BuffersSpec == BuffersInit /\ [][BuffersNext]_buffer
=============================================================================
