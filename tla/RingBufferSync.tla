--------------------------- MODULE RingBufferSync ----------------------------
(***************************************************************************)
(* RingBuffer with the happens-before edges that the orderings of its      *)
(* atomic operations give, for a Producer and a Consumer in two threads.   *)
(*                                                                         *)
(* For each slot, `access` is the last access and how far its ordering has *)
(* come: a byte is stored, the Release store of `write` follows it, the    *)
(* consumer's loads see that store, and an *Acquire* load that returns it  *)
(* puts the byte's store before whatever the consumer does next.  The      *)
(* other way there is no such load: Producer::write loads `read` Relaxed,  *)
(* so a slot that was lent stays "lent" until it is stored to again.       *)
(*                                                                         *)
(* Every action is RingBuffer's own, plus its effect on `access`.          *)
(***************************************************************************)
EXTENDS RingBuffer

VARIABLE access     \* of each slot: its last access, and what orders it

Stages == {"ordered", "stored", "released", "seen", "lent"}

svars == <<vars, access>>

\* recover_or_reinitialize and split come before both sides.
SyncInit == Init /\ access = [i \in Index |-> "ordered"]

\* The slots at one stage go to the next.
Advance(from, to) == access' = [i \in Index |-> IF access[i] = from THEN to ELSE access[i]]

\* One byte of copy_nonoverlapping, to whichever slot CopyByte chose.
SyncCopyByte ==
    /\ CopyByte
    /\ \E i \in copied' \ copied :
          access' = [access EXCEPT ![CopyOffset(write, len, i)] = "stored"]

\* The Release store of `write` covers every byte stored so far.
SyncPublish == Publish /\ Advance("stored", "released")

SyncSeeWrite == SeeWrite /\ Advance("released", "seen")

\* The stage of a slot once Consumer::read returned, when its load of `write`
\* turned the stages `acquired` into "ordered".
AfterRead(i, acquired) ==
    LET stage == IF access[i] \in acquired THEN "ordered" ELSE access[i]
    IN  IF i \in Owned(read, writeSeen) /\ stage = "ordered" THEN "lent" ELSE stage

\* A plausible bug, for the mutation runs: `write` is loaded Relaxed.
SyncReadRelaxed == ReadGrant /\ access' = [i \in Index |-> AfterRead(i, {})]

\* The Acquire load of `write`, after which the slots of both slices are read.
SyncReadGrant == ReadGrant /\ access' = [i \in Index |-> AfterRead(i, {"seen"})]

\* BeginWrite's load of `read` is Relaxed: it orders nothing.
Silent == (BeginWrite \/ Release \/ DropGrant \/ SeeRead) /\ UNCHANGED access

SyncNext == SyncCopyByte \/ SyncPublish \/ SyncSeeWrite \/ SyncReadGrant \/ Silent

SyncSpec == SyncInit /\ [][SyncNext]_svars

-----------------------------------------------------------------------------
(* Properties *)

\* "Acquire: synchronizes with producer's Release store to see written data"
\* (Consumer::read): every byte that a grant shows was stored before the
\* grant was made, in the order the memory model promises, and none is stored
\* to while it lasts.
ReadsOrdered == \A i \in Granted : access[i] \in {"ordered", "lent"}

\* "Atomic operations on header.read/write synchronize with the Producer"
\* (the SAFETY comment of Consumer's Send): no write in progress stores to a
\* slot whose last access is a read of the consumer that nothing orders
\* before it.
WritesOrdered == \A i \in Targets : access[i] # "lent"

\* The inductive invariant behind ReadsOrdered: which slots may be at each
\* stage, by the window between the indices they lie in.
Staged ==
    /\ access \in [Index -> Stages]
    /\ \A i \in Index :
          /\ access[i] = "stored" => i \in Targets
          /\ access[i] = "released" => i \notin Owned(read, writeSeen)
SyncInv == IInv /\ Staged /\ ReadsOrdered
=============================================================================
