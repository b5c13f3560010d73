------------------------------ MODULE RttStream ------------------------------
(***************************************************************************)
(* What the RTT channel promises the host: the bounded FIFO of LogQueue,   *)
(* to which a write adds its data piece by piece, in order.                *)
(*                                                                         *)
(*   - a blocking write adds all of its data;                              *)
(*   - a non-blocking one adds a prefix, and gives up only when full;      *)
(*   - the host takes bytes from the front, after it has copied them.      *)
(***************************************************************************)
EXTENDS LogQueue

VARIABLE blocking      \* the mode of the write in progress, or of the last

svars == <<qvars, blocking>>

SInit == QInit /\ blocking \in BOOLEAN

Call == StartWrite /\ blocking' \in BOOLEAN

Accept ==
    /\ \E k \in 1 .. Len(pending) :
          /\ Len(queue) + k <= Capacity
          /\ queue' = queue \o SubSeq(pending, 1, k)
          /\ pending' = SubSeq(pending, k + 1, Len(pending))
    /\ UNCHANGED <<lent, blocking>>

GiveUp ==
    /\ pending # <<>> /\ ~blocking /\ Len(queue) = Capacity
    /\ pending' = <<>>
    /\ UNCHANGED <<queue, lent, blocking>>

Host == (Lend \/ Release) /\ UNCHANGED blocking

SNext == Call \/ Accept \/ GiveUp \/ Host

SSpec == SInit /\ [][SNext]_svars
=============================================================================
