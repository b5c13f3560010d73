------------------------------ MODULE LogQueue -------------------------------
(***************************************************************************)
(* What the ring promises its users, without indices, slots or program     *)
(* counters: a bounded FIFO of bytes.                                      *)
(*                                                                         *)
(*   - a write adds a prefix of the data it was given, all at once, and    *)
(*     only at the end of the queue ("the last bytes are silently          *)
(*     discarded");                                                        *)
(*   - a read lends bytes from the front of the queue, and may see fewer   *)
(*     than there are;                                                     *)
(*   - a release drops bytes from the front, never more than were lent;    *)
(*   - nothing else ever changes the queue.                                *)
(***************************************************************************)
EXTENDS Naturals, Sequences

CONSTANTS Bytes,       \* the byte values
          Capacity     \* the most bytes the queue holds

VARIABLES queue,       \* the bytes written and not yet released
          pending,     \* the data of the write in progress, or <<>>
          lent         \* how many bytes the reader holds a grant for

qvars == <<queue, pending, lent>>

QueueType ==
    /\ queue \in Seq(Bytes) /\ Len(queue) <= Capacity
    /\ pending \in Seq(Bytes)
    /\ lent \in 0 .. Len(queue)

QInit == queue \in Seq(Bytes) /\ Len(queue) <= Capacity /\ pending = <<>> /\ lent = 0

StartWrite ==
    /\ pending = <<>>
    /\ pending' \in Seq(Bytes) \ {<<>>}
    /\ UNCHANGED <<queue, lent>>

FinishWrite ==
    /\ pending # <<>>
    /\ \E k \in 1 .. Len(pending) :
          /\ Len(queue) + k <= Capacity
          /\ queue' = queue \o SubSeq(pending, 1, k)
    /\ pending' = <<>>
    /\ UNCHANGED lent

Lend ==
    /\ lent' \in 0 .. Len(queue)
    /\ UNCHANGED <<queue, pending>>

Release ==
    /\ \E n \in 0 .. lent : queue' = SubSeq(queue, n + 1, Len(queue))
    /\ lent' = 0
    /\ UNCHANGED pending

QNext == StartWrite \/ FinishWrite \/ Lend \/ Release

QSpec == QInit /\ [][QNext]_qvars
=============================================================================
