------------------------ MODULE RingBufferSyncProofs -------------------------
(***************************************************************************)
(* For every buffer size, set of byte values and set of data: the Acquire  *)
(* and Release operations on `write` order every byte's store before the   *)
(* consumer's reads of it.                                                 *)
(***************************************************************************)
EXTENDS RingBufferSync, RingBufferProofs

-----------------------------------------------------------------------------
(* Windows *)

\* What the consumer has seen written is part of what is written, and both
\* windows are slots of the buffer.
LEMMA SeenIsOwned ==
    ASSUME IInv
    PROVE  /\ Owned(read, writeSeen) \subseteq Owned(read, write)
           /\ Owned(read, writeSeen) \subseteq Index
  BY IndexFacts, NAssumption DEF Owned, Len1, Len2, Dist, Index

\* A release takes slots out of the window, and lets none in.
LEMMA ReleaseShrinks ==
    ASSUME IInv, Release
    PROVE  Owned(read', writeSeen') \subseteq Owned(read, writeSeen)
  <1>1. PICK used \in 0 .. len1 + len2 : read' = NextRead(read, len1, used)
    BY DEF Release
  <1>2. /\ len1 \in 0 .. N - 1 /\ len2 \in 0 .. N - 1
        /\ len1 + len2 <= Dist(read, writeSeen)
        /\ read + len1 <= N
        /\ len2 > 0 => read + len1 = N
    BY DEF IInv, TypeOK, StaleIsBehind, LocalsConsistent
  <1>3. /\ read' \in Index
        /\ Dist(read, read') = used
        /\ Dist(read', writeSeen) = Dist(read, writeSeen) - used
    BY <1>1, <1>2, IndexFacts, NextReadDist
  <1>4. writeSeen' = writeSeen
    BY DEF Release, EndGrant
  <1> QED BY <1>2, <1>3, <1>4, IndexFacts, NAssumption DEF Owned, Len1, Len2, Dist, Index

-----------------------------------------------------------------------------
(* The steps *)

LEMMA SyncInitInv == SyncInit => SyncInv
  <1> SUFFICES ASSUME SyncInit PROVE SyncInv
    OBVIOUS
  <1>1. IInv /\ Granted = {}
    BY InitInv DEF SyncInit, Init, Granted
  <1>2. Staged
    BY DEF SyncInit, Staged, Stages
  <1> QED BY <1>1, <1>2 DEF SyncInv, ReadsOrdered

LEMMA SyncCopyByteInv == SyncInv /\ SyncCopyByte => Staged' /\ ReadsOrdered'
  <1> SUFFICES ASSUME SyncInv, SyncCopyByte PROVE Staged' /\ ReadsOrdered'
    OBVIOUS
  <1>1. OwnershipDisjoint
    BY InvDisjoint DEF SyncInv
  <1>2. PICK i \in copied' \ copied :
            access' = [access EXCEPT ![CopyOffset(write, len, i)] = "stored"]
    BY DEF SyncCopyByte
  <1>3. i \in 0 .. len - 1
    BY <1>2 DEF SyncCopyByte, CopyByte
  <1>4. CopyOffset(write, len, i) \in Targets
    BY <1>3 DEF Targets
  <1>5. CopyOffset(write, len, i) \in Index /\ CopyOffset(write, len, i) \notin Granted
    BY <1>1, <1>4 DEF OwnershipDisjoint
  <1>6. /\ read' = read /\ writeSeen' = writeSeen /\ Granted' = Granted /\ Targets' = Targets
        /\ Owned(read', writeSeen') = Owned(read, writeSeen)
    BY DEF SyncCopyByte, CopyByte, cvars, Granted, Targets
  <1>7. Staged'
    BY <1>2, <1>4, <1>5, <1>6 DEF SyncInv, Staged, Stages
  <1>8. ReadsOrdered'
    BY <1>1, <1>2, <1>5, <1>6 DEF SyncInv, Staged, ReadsOrdered, OwnershipDisjoint
  <1> QED BY <1>7, <1>8

LEMMA SyncPublishInv == SyncInv /\ SyncPublish => Staged' /\ ReadsOrdered'
  <1> SUFFICES ASSUME SyncInv, SyncPublish PROVE Staged' /\ ReadsOrdered'
    OBVIOUS
  <1>1. /\ OwnershipDisjoint
        /\ Owned(read, writeSeen) \subseteq Owned(read, write)
    BY InvDisjoint, SeenIsOwned DEF SyncInv
  <1>2. access' = [i \in Index |-> IF access[i] = "stored" THEN "released" ELSE access[i]]
    BY DEF SyncPublish, Advance
  <1>3. Granted' = Granted /\ Owned(read', writeSeen') = Owned(read, writeSeen)
    BY DEF SyncPublish, Publish, cvars, Granted
  <1>4. Staged'
    BY <1>1, <1>2, <1>3 DEF SyncInv, Staged, Stages, OwnershipDisjoint
  <1>5. ReadsOrdered'
    BY <1>1, <1>2, <1>3 DEF SyncInv, Staged, ReadsOrdered, OwnershipDisjoint
  <1> QED BY <1>4, <1>5

LEMMA SyncSeeWriteInv == SyncInv /\ SyncSeeWrite => Staged' /\ ReadsOrdered'
  <1> SUFFICES ASSUME SyncInv, SyncSeeWrite PROVE Staged' /\ ReadsOrdered'
    OBVIOUS
  <1>1. OwnershipDisjoint
    BY InvDisjoint DEF SyncInv
  <1>2. access' = [i \in Index |-> IF access[i] = "released" THEN "seen" ELSE access[i]]
    BY DEF SyncSeeWrite, Advance
  <1>3. Granted' = Granted /\ Targets' = Targets
    BY DEF SyncSeeWrite, SeeWrite, pvars, cvars, Granted, Targets
  <1>4. Staged'
    BY <1>2, <1>3 DEF SyncInv, Staged, Stages
  <1>5. ReadsOrdered'
    BY <1>1, <1>2, <1>3 DEF SyncInv, Staged, ReadsOrdered, OwnershipDisjoint
  <1> QED BY <1>4, <1>5

LEMMA SyncReadGrantInv == SyncInv /\ SyncReadGrant => Staged' /\ ReadsOrdered'
  <1> SUFFICES ASSUME SyncInv, SyncReadGrant PROVE Staged' /\ ReadsOrdered'
    OBVIOUS
  <1>1. /\ OwnershipDisjoint
        /\ Owned(read, writeSeen) \subseteq Owned(read, write)
        /\ Owned(read, writeSeen) \subseteq Index
    BY InvDisjoint, SeenIsOwned DEF SyncInv
  <1>2. access' = [i \in Index |-> AfterRead(i, {"seen"})]
    BY DEF SyncReadGrant
  <1>3. /\ Granted' = Owned(read, writeSeen)
        /\ Owned(read', writeSeen') = Owned(read, writeSeen)
        /\ Targets' = Targets
    BY DEF SyncReadGrant, ReadGrant, pvars, Granted, Owned, Targets
  <1>4. \A i \in Owned(read, writeSeen) : access[i] \in {"ordered", "seen", "lent"}
    BY <1>1 DEF SyncInv, Staged, Stages, OwnershipDisjoint
  <1>5. Staged'
    BY <1>2, <1>3 DEF SyncInv, Staged, Stages, AfterRead
  <1>6. ReadsOrdered'
    BY <1>1, <1>2, <1>3, <1>4 DEF ReadsOrdered, AfterRead
  <1> QED BY <1>5, <1>6

LEMMA SilentInv == SyncInv /\ Silent => Staged' /\ ReadsOrdered'
  <1> SUFFICES ASSUME SyncInv, Silent PROVE Staged' /\ ReadsOrdered'
    OBVIOUS
  <1> access' = access
    BY DEF Silent
  <1>1. CASE BeginWrite
    <2>1. Granted' = Granted /\ Owned(read', writeSeen') = Owned(read, writeSeen)
      BY <1>1 DEF BeginWrite, cvars, Granted
    <2>2. \A i \in Index : access[i] # "stored"
      <3>1. len = 0
        BY <1>1 DEF SyncInv, IInv, LocalsConsistent, BeginWrite
      <3>2. Targets = {}
        BY <3>1 DEF Targets
      <3> QED BY <3>2 DEF SyncInv, Staged
    <2> QED BY <2>1, <2>2 DEF SyncInv, Staged, ReadsOrdered
  <1>2. CASE Release
    <2>1. Granted' = {} /\ Targets' = Targets
      BY <1>2 DEF Release, EndGrant, pvars, Granted, Targets
    <2> QED BY <1>2, <2>1, ReleaseShrinks DEF SyncInv, Staged, ReadsOrdered
  <1>3. CASE DropGrant
    <2>1. /\ Granted' = {} /\ Targets' = Targets
          /\ Owned(read', writeSeen') = Owned(read, writeSeen)
      BY <1>3 DEF DropGrant, EndGrant, pvars, Granted, Targets
    <2> QED BY <2>1 DEF SyncInv, Staged, ReadsOrdered
  <1>4. CASE SeeRead
    <2>1. /\ Granted' = Granted /\ Targets' = Targets
          /\ Owned(read', writeSeen') = Owned(read, writeSeen)
      BY <1>4 DEF SeeRead, pvars, cvars, Granted, Targets
    <2> QED BY <2>1 DEF SyncInv, Staged, ReadsOrdered
  <1> QED BY <1>1, <1>2, <1>3, <1>4 DEF Silent

LEMMA SyncStep == [SyncNext]_svars => [Next]_vars
  BY DEF SyncNext, SyncCopyByte, SyncPublish, SyncSeeWrite, SyncReadGrant, Silent, Next, svars

LEMMA SyncNextInv == SyncInv /\ [SyncNext]_svars => SyncInv'
  <1> SUFFICES ASSUME SyncInv, [SyncNext]_svars PROVE SyncInv'
    OBVIOUS
  <1>1. IInv'
    BY SyncStep, NextInv DEF SyncInv
  <1>2. Staged' /\ ReadsOrdered'
    <2>1. CASE UNCHANGED svars
      BY <2>1 DEF svars, vars, pvars, cvars, SyncInv, Staged, ReadsOrdered, Granted, Targets
    <2> QED
      BY <2>1, SyncCopyByteInv, SyncPublishInv, SyncSeeWriteInv, SyncReadGrantInv, SilentInv
      DEF SyncNext
  <1> QED BY <1>1, <1>2 DEF SyncInv

\* Every byte a grant shows was stored before the grant was made, in the
\* order the memory model promises, whatever stale `write` the load returned.
THEOREM GrantsSynchronize == SyncSpec => []ReadsOrdered
  <1>1. SyncInv => ReadsOrdered
    BY DEF SyncInv
  <1> QED BY <1>1, SyncInitInv, SyncNextInv, PTL DEF SyncSpec

\* To say how the accesses are ordered restricts none of them: what holds of
\* every behaviour of RingBuffer, NoOverwrite and RingImplementsQueue among
\* it, holds of RingBufferSync.
THEOREM SyncIsRing == SyncSpec => Spec
  <1>1. SyncInit => Init
    BY DEF SyncInit
  <1> QED  BY <1>1, SyncStep, PTL DEF SyncSpec, Spec

\* Under those orderings too the ring is the bounded FIFO.
THEOREM SyncImplementsQueue == SyncSpec => ImplementsQueue
  BY SyncIsRing, RingImplementsQueue, PTL
=============================================================================
