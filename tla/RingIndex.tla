------------------------------ MODULE RingIndex ------------------------------
(***************************************************************************)
(* The index arithmetic of src/ring_buffer.rs, shared by every module that *)
(* models the ring: how much fits, where byte i of a write lands, which    *)
(* two slices a reader gets and where the read index moves on release.     *)
(*                                                                         *)
(* The ring has N slots and stores at most N - 1 bytes, so that            *)
(* read = write means "empty".  The code computes in usize and requires    *)
(* N < i32::MAX / 4, so that no sum below can wrap at 32 bits (theorem     *)
(* NoIndexOverflow in RingIndexProofs).                                    *)
(***************************************************************************)
EXTENDS Integers, Sequences

CONSTANT N                                              \* buf.len()

ASSUME NAssumption == N \in Nat \ {0}

Index == 0 .. N - 1

(***************************************************************************)
(* Plausible bugs, used only by the mutation runs.                         *)
(***************************************************************************)
AvailableWithoutGap(read, write) ==
    IF read > write THEN read - write ELSE N - write + read

CopyOffsetNoPivot(write, len, i) ==
    IF write + len > N /\ i > N - write THEN i - (N - write) - 1 ELSE (write + i) % N

NextWriteAtEnd(write, len) == IF write + len > N THEN write + len - N ELSE write + len

-----------------------------------------------------------------------------

\* Producer::available: one slot always stays free.
Available(read, write) ==
    IF read > write THEN read - write - 1 ELSE N - write - 1 + read

\* How many of n bytes Producer::write keeps; the last ones are discarded.
Kept(n, read, write) ==
    IF n <= Available(read, write) THEN n ELSE Available(read, write)

\* Where byte i (from 0) of a write of len bytes lands: the copy is split at
\* the end of the buffer when the write crosses it.
CopyOffset(write, len, i) ==
    IF write + len > N /\ i >= N - write THEN i - (N - write) ELSE write + i

\* The write index after len bytes were appended.
NextWrite(write, len) == (write + len) % N

\* Lengths of the two slices Consumer::read returns.
Len1(read, write) == IF write < read THEN N - read ELSE write - read
Len2(read, write) == IF write < read THEN write ELSE 0

\* The read index after GrantR::release(used) of a grant whose first slice
\* has len1 bytes; used is already capped by the grant's length.
NextRead(read, len1, used) ==
    IF read + used < N THEN read + used ELSE used - len1

-----------------------------------------------------------------------------

\* The number of bytes from index a forward to index b.
Dist(a, b) == IF a <= b THEN b - a ELSE N - a + b

\* What the two slices of a read show, first slice first.
Contents(buf, read, write) ==
    [i \in 1 .. Len1(read, write) |-> buf[read + i - 1]]
        \o [i \in 1 .. Len2(read, write) |-> buf[i - 1]]

\* The slots the consumer owns: those of Consumer::read's two slices.
Owned(read, write) ==
    (read .. read + Len1(read, write) - 1) \cup (0 .. Len2(read, write) - 1)
=============================================================================
