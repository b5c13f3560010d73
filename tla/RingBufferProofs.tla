--------------------------- MODULE RingBufferProofs ---------------------------
(***************************************************************************)
(* For every buffer size, every set of byte values and every set of data:  *)
(* the indices stay in range, the producer never stores to a byte the      *)
(* consumer owns, and the ring implements the bounded FIFO of LogQueue.    *)
(***************************************************************************)
EXTENDS RingBuffer, RingIndexProofs

-----------------------------------------------------------------------------
(* The inductive invariant *)

\* The four indices of a state that satisfies the invariant, and their
\* distances: readSeen, read, writeSeen and write follow each other.
LEMMA IndexFacts ==
    ASSUME IInv
    PROVE  /\ read \in Index /\ write \in Index /\ readSeen \in Index /\ writeSeen \in Index
           /\ Dist(readSeen, read) \in Nat /\ Dist(read, writeSeen) \in Nat
           /\ Dist(writeSeen, write) \in Nat
           /\ Dist(read, write) = Dist(read, writeSeen) + Dist(writeSeen, write)
           /\ Dist(readSeen, write) = Dist(readSeen, read) + Dist(read, write)
           /\ Dist(readSeen, write) <= N - 1
  <1>1. /\ read \in Index /\ write \in Index /\ readSeen \in Index /\ writeSeen \in Index
    BY DEF IInv, TypeOK
  <1>2. /\ Dist(readSeen, read) \in Nat /\ Dist(read, writeSeen) \in Nat
        /\ Dist(writeSeen, write) \in Nat
    BY <1>1, DistType, NAssumption
  <1>3. Dist(readSeen, read) + Dist(read, writeSeen) + Dist(writeSeen, write) <= N - 1
    BY DEF IInv, StaleIsBehind
  <1>4. Dist(read, write) = Dist(read, writeSeen) + Dist(writeSeen, write)
    BY <1>1, <1>2, <1>3, DistAdds, NAssumption
  <1>5. Dist(readSeen, write) = Dist(readSeen, read) + Dist(read, write)
    BY <1>1, <1>2, <1>3, <1>4, DistAdds, NAssumption
  <1> QED BY <1>1, <1>2, <1>3, <1>4, <1>5, NAssumption

LEMMA InitInv == Init => IInv
  <1> SUFFICES ASSUME Init PROVE IInv
    OBVIOUS
  <1>1. TypeOK
    BY NAssumption DEF Init, TypeOK, Index
  <1>2. StaleIsBehind
    BY NAssumption DEF Init, StaleIsBehind, Dist, Index
  <1>3. LocalsConsistent
    BY NAssumption DEF Init, LocalsConsistent, Index
  <1> QED BY <1>1, <1>2, <1>3 DEF IInv

LEMMA BeginWriteInv == IInv /\ BeginWrite => IInv'
  <1> SUFFICES ASSUME IInv, BeginWrite PROVE IInv'
    OBVIOUS
  <1> USE DEF IInv
  <1>1. PICK d \in Data : /\ Kept(Len(d), readSeen, write) > 0
                          /\ data' = d
                          /\ len' = Kept(Len(d), readSeen, write)
    BY DEF BeginWrite
  <1>2. d \in Seq(Bytes) /\ Len(d) \in Nat
    BY DataAssumption
  <1>3. readSeen \in Index /\ write \in Index
    BY DEF TypeOK
  <1>4. /\ Available(readSeen, write) = N - 1 - Dist(readSeen, write)
        /\ Available(readSeen, write) \in 0 .. N - 1
    BY <1>3, AvailableIsExact
  <1>5. len' \in 1 .. Len(d) /\ len' \in 1 .. N - 1 - Dist(readSeen, write)
    BY <1>1, <1>2, <1>4 DEF Kept
  <1>6. TypeOK'
    BY <1>1, <1>2, <1>5 DEF BeginWrite, TypeOK, cvars
  <1>7. StaleIsBehind'
    BY DEF BeginWrite, StaleIsBehind, cvars
  <1>8. LocalsConsistent'
    BY <1>5 DEF BeginWrite, LocalsConsistent, cvars
  <1> QED BY <1>6, <1>7, <1>8

LEMMA ReadGrantInv == IInv /\ ReadGrant => IInv'
  <1> SUFFICES ASSUME IInv, ReadGrant PROVE IInv'
    OBVIOUS
  <1> USE DEF IInv
  <1>1. read \in Index /\ writeSeen \in Index
    BY IndexFacts
  <1>2. /\ len1' \in 0 .. N - 1 /\ len2' \in 0 .. N - 1
        /\ len1' + len2' = Dist(read, writeSeen)
        /\ read + len1' <= N
        /\ len2' > 0 => read + len1' = N
    BY <1>1, SlicesAreExact, NAssumption DEF ReadGrant, Index
  <1>3. TypeOK'
    BY <1>2 DEF ReadGrant, TypeOK, pvars
  <1>4. StaleIsBehind'
    BY <1>2 DEF ReadGrant, StaleIsBehind, pvars
  <1>5. LocalsConsistent'
    BY <1>2 DEF ReadGrant, LocalsConsistent, pvars
  <1> QED BY <1>3, <1>4, <1>5

LEMMA SeeReadInv == IInv /\ SeeRead => IInv'
  <1> SUFFICES ASSUME IInv, SeeRead PROVE IInv'
    OBVIOUS
  <1> USE DEF IInv
  <1>1. /\ read' = read /\ write' = write /\ writeSeen' = writeSeen /\ readSeen' = read
        /\ len1' = len1 /\ len2' = len2
    BY DEF SeeRead, pvars, cvars
  <1>2. Dist(read, read) = 0
    BY IndexFacts, DistType
  <1>3. TypeOK'
    BY DEF SeeRead, TypeOK, pvars, cvars
  <1>4. StaleIsBehind'
    BY <1>1, <1>2, IndexFacts, NAssumption DEF StaleIsBehind
  <1>5. Dist(read, write) <= Dist(readSeen, write)
    BY IndexFacts
  <1>6. ppc = "copy" => len \in 1 .. N - 1 - Dist(read, write)
    BY <1>5, IndexFacts, NAssumption DEF LocalsConsistent
  <1>7. LocalsConsistent'
    BY <1>1, <1>6 DEF SeeRead, LocalsConsistent, pvars, cvars
  <1> QED BY <1>3, <1>4, <1>7

LEMMA SeeWriteInv == IInv /\ SeeWrite => IInv'
  <1> SUFFICES ASSUME IInv, SeeWrite PROVE IInv'
    OBVIOUS
  <1> USE DEF IInv
  <1>1. /\ read' = read /\ write' = write /\ readSeen' = readSeen /\ writeSeen' = write
        /\ len1' = len1 /\ len2' = len2
    BY DEF SeeWrite, pvars, cvars
  <1>2. Dist(write, write) = 0
    BY IndexFacts, DistType
  <1>3. TypeOK'
    BY DEF SeeWrite, TypeOK, pvars, cvars
  <1>4. len1 + len2 <= Dist(read, write)
    BY IndexFacts DEF StaleIsBehind, TypeOK
  <1>5. StaleIsBehind'
    BY <1>1, <1>2, <1>4, IndexFacts DEF StaleIsBehind
  <1>6. LocalsConsistent'
    BY DEF SeeWrite, LocalsConsistent, pvars, cvars
  <1> QED BY <1>3, <1>5, <1>6

LEMMA CopyByteInv == IInv /\ CopyByte => IInv'
  <1> SUFFICES ASSUME IInv, CopyByte PROVE IInv'
    OBVIOUS
  <1> USE DEF IInv
  <1>1. PICK i \in (0 .. len - 1) \ copied :
            /\ buf' = [buf EXCEPT ![CopyOffset(write, len, i)] = data[i + 1]]
            /\ copied' = copied \cup {i}
    BY DEF CopyByte
  <1>2. len \in 1 .. N - 1 - Dist(readSeen, write)
    BY DEF CopyByte, LocalsConsistent
  <1>3. /\ len \in 0 .. Len(data) /\ data \in Seq(Bytes) /\ buf \in [Index -> Bytes]
        /\ copied \subseteq 0 .. len - 1
    BY DEF TypeOK
  <1>4. readSeen \in Index /\ write \in Index /\ Dist(readSeen, write) \in 0 .. N - 1
    BY IndexFacts, DistType
  <1>5. \A j \in 0 .. len - 1 :
            /\ CopyOffset(write, len, j) \in Index
            /\ CopyOffset(write, len, j) = IF write + j < N THEN write + j ELSE write + j - N
    BY <1>2, <1>4, CopyStaysInFreeSpace
  <1>6. \A j \in 0 .. len - 1 :
            j # i => CopyOffset(write, len, j) # CopyOffset(write, len, i)
    BY <1>2, <1>4, <1>5, NAssumption DEF Index
  <1>7. data[i + 1] \in Bytes
    BY <1>1, <1>3
  <1>8. TypeOK'
    BY <1>1, <1>3, <1>5, <1>7 DEF CopyByte, TypeOK, cvars
  <1>9. StaleIsBehind'
    BY DEF CopyByte, StaleIsBehind, cvars
  <1>10. \A j \in copied' : buf'[CopyOffset(write, len, j)] = data[j + 1]
    <2> SUFFICES ASSUME NEW j \in copied'
                 PROVE  buf'[CopyOffset(write, len, j)] = data[j + 1]
      OBVIOUS
    <2>1. CASE j = i
      BY <2>1, <1>1, <1>3, <1>5
    <2>2. CASE j # i
      <3>1. j \in copied /\ j \in 0 .. len - 1
        BY <2>2, <1>1, <1>3
      <3>2. buf[CopyOffset(write, len, j)] = data[j + 1]
        BY <3>1 DEF LocalsConsistent
      <3>3. CopyOffset(write, len, j) # CopyOffset(write, len, i)
        BY <2>2, <3>1, <1>6
      <3> QED BY <3>1, <3>2, <3>3, <1>1, <1>3, <1>5
    <2> QED BY <2>1, <2>2
  <1>11. LocalsConsistent'
    BY <1>2, <1>10 DEF CopyByte, LocalsConsistent, cvars
  <1> QED BY <1>8, <1>9, <1>11

LEMMA PublishInv == IInv /\ Publish => IInv'
  <1> SUFFICES ASSUME IInv, Publish PROVE IInv'
    OBVIOUS
  <1> USE DEF IInv
  <1>1. len \in 1 .. N - 1 - Dist(readSeen, write)
    BY DEF Publish, LocalsConsistent
  <1>2. Dist(writeSeen, write) <= Dist(readSeen, write)
    BY IndexFacts
  <1>3. len \in 0 .. N - 1 - Dist(writeSeen, write)
    BY <1>1, <1>2, IndexFacts, NAssumption
  <1>4. /\ write' \in Index
        /\ Dist(writeSeen, write') = Dist(writeSeen, write) + len
    BY <1>3, IndexFacts, NextWriteDist DEF Publish
  <1>5. TypeOK'
    BY <1>4 DEF Publish, TypeOK, cvars
  <1>6. StaleIsBehind'
    BY <1>1, <1>4, IndexFacts, NAssumption DEF Publish, StaleIsBehind, cvars
  <1>7. LocalsConsistent'
    BY DEF Publish, LocalsConsistent, cvars
  <1> QED BY <1>5, <1>6, <1>7

LEMMA ReleaseInv == IInv /\ Release => IInv'
  <1> SUFFICES ASSUME IInv, Release PROVE IInv'
    OBVIOUS
  <1> USE DEF IInv
  <1>1. PICK used \in 0 .. len1 + len2 : read' = NextRead(read, len1, used)
    BY DEF Release
  <1>2. /\ len1 \in 0 .. N - 1 /\ len2 \in 0 .. N - 1
        /\ len1 + len2 <= Dist(read, writeSeen)
        /\ read + len1 <= N
        /\ len2 > 0 => read + len1 = N
    BY DEF TypeOK, StaleIsBehind, LocalsConsistent
  <1>3. /\ read' \in Index
        /\ Dist(read, read') = used
        /\ Dist(read', writeSeen) = Dist(read, writeSeen) - used
    BY <1>1, <1>2, IndexFacts, NextReadDist
  <1>4. Dist(readSeen, read') = Dist(readSeen, read) + used
    BY <1>1, <1>2, <1>3, IndexFacts, DistAdds, NAssumption
  <1>5. TypeOK'
    BY <1>3, NAssumption DEF Release, EndGrant, TypeOK, pvars
  <1>6. StaleIsBehind'
    BY <1>1, <1>2, <1>3, <1>4, IndexFacts, NAssumption DEF Release, EndGrant, StaleIsBehind, pvars
  <1>7. read' <= N
    BY <1>3, NAssumption DEF Index
  <1>8. LocalsConsistent'
    BY <1>3, <1>7, NAssumption DEF Release, EndGrant, LocalsConsistent, pvars, Index
  <1> QED BY <1>5, <1>6, <1>8

LEMMA DropGrantInv == IInv /\ DropGrant => IInv'
  <1> SUFFICES ASSUME IInv, DropGrant PROVE IInv'
    OBVIOUS
  <1> USE DEF IInv
  <1>1. read' = read /\ read <= N /\ len1' = 0 /\ len2' = 0
    BY IndexFacts, NAssumption DEF DropGrant, EndGrant, Index
  <1>2. TypeOK'
    BY NAssumption DEF DropGrant, EndGrant, TypeOK, pvars
  <1>3. StaleIsBehind'
    BY <1>1, IndexFacts, NAssumption DEF DropGrant, EndGrant, StaleIsBehind, pvars
  <1>4. LocalsConsistent'
    BY <1>1, IndexFacts DEF DropGrant, EndGrant, LocalsConsistent, pvars, Index
  <1> QED BY <1>2, <1>3, <1>4

LEMMA NextInv == IInv /\ [Next]_vars => IInv'
  <1> SUFFICES ASSUME IInv, [Next]_vars PROVE IInv'
    OBVIOUS
  <1>1. CASE BeginWrite  BY <1>1, BeginWriteInv
  <1>2. CASE CopyByte    BY <1>2, CopyByteInv
  <1>3. CASE Publish     BY <1>3, PublishInv
  <1>4. CASE ReadGrant   BY <1>4, ReadGrantInv
  <1>5. CASE Release     BY <1>5, ReleaseInv
  <1>6. CASE DropGrant   BY <1>6, DropGrantInv
  <1>7. CASE SeeRead     BY <1>7, SeeReadInv
  <1>8. CASE SeeWrite    BY <1>8, SeeWriteInv
  <1>9. CASE UNCHANGED vars
    BY <1>9 DEF vars, pvars, cvars, IInv, TypeOK, StaleIsBehind, LocalsConsistent
  <1> QED
    BY <1>1, <1>2, <1>3, <1>4, <1>5, <1>6, <1>7, <1>8, <1>9 DEF Next

\* The inductive invariant holds in every reachable state.
THEOREM Invariance == Spec => []IInv
  BY InitInv, NextInv, PTL DEF Spec

\* Both indices, every stale copy of them and every local stay in range.
THEOREM TypeCorrect == Spec => []TypeOK
  <1>1. IInv => TypeOK
    BY DEF IInv
  <1> QED BY <1>1, Invariance, PTL

\* Stale indices are behind, never ahead.
THEOREM StaleIndicesAreSafe == Spec => []StaleIsBehind
  <1>1. IInv => StaleIsBehind
    BY DEF IInv
  <1> QED BY <1>1, Invariance, PTL

\* In a state that satisfies the invariant, the free space, the stored bytes
\* and the grant are where each side takes them to be.
LEMMA InvDisjoint == IInv => OwnershipDisjoint
  <1> SUFFICES ASSUME IInv PROVE OwnershipDisjoint
    OBVIOUS
  <1>1. /\ len \in 0 .. N - 1 - Dist(read, write)
        /\ read \in Index /\ write \in Index
    <2>1. len = 0 \/ len \in 1 .. N - 1 - Dist(readSeen, write)
      BY DEF IInv, LocalsConsistent, TypeOK
    <2> QED BY <2>1, IndexFacts, DistType, NAssumption
  <1>2. Targets \subseteq Index /\ Targets \cap Owned(read, write) = {}
    BY <1>1, CopyStaysInFreeSpace DEF Targets
  <1>3. Granted \subseteq Owned(read, write) /\ Granted \subseteq Index
    <2>1. /\ len1 \in 0 .. N - 1 /\ len2 \in 0 .. N - 1
          /\ len1 + len2 <= Dist(read, write)
          /\ read + len1 <= N
          /\ len2 > 0 => read + len1 = N
      BY IndexFacts DEF IInv, TypeOK, StaleIsBehind, LocalsConsistent
    <2> QED BY <1>1, <2>1, NAssumption DEF Granted, Owned, Len1, Len2, Dist, Index
  <1> QED BY <1>2, <1>3 DEF OwnershipDisjoint

\* The producer never stores to a byte the consumer owns or was granted,
\* whatever stale `read` it computed the free space from.
THEOREM NoOverwrite == Spec => []OwnershipDisjoint
  BY InvDisjoint, Invariance, PTL

-----------------------------------------------------------------------------
(* The ring implements the bounded FIFO *)

\* What the consumer owns is a sequence of bytes as long as the distance
\* between the indices, so it never exceeds the capacity.
LEMMA QueueType ==
    ASSUME IInv
    PROVE  /\ Contents(buf, read, write) \in Seq(Bytes)
           /\ Len(Contents(buf, read, write)) = Dist(read, write)
           /\ Dist(read, write) \in 0 .. N - 1
  <1>1. read \in Index /\ write \in Index /\ buf \in [Index -> Bytes]
    BY DEF IInv, TypeOK
  <1>2. ShowsSlots(Contents(buf, read, write), Bytes, buf, read, Dist(read, write))
    BY <1>1, ContentsIsWindow, Zenon
  <1> QED BY <1>1, <1>2, DistType DEF ShowsSlots

LEMMA InitImplements == Init => Queue!QInit
  <1> SUFFICES ASSUME Init PROVE Queue!QInit
    OBVIOUS
  <1>1. /\ Contents(buf, read, write) \in Seq(Bytes)
        /\ Len(Contents(buf, read, write)) <= N - 1
    BY InitInv, QueueType, NAssumption
  <1>2. data = <<>> /\ len1 + len2 = 0
    BY DEF Init
  <1> QED BY <1>1, <1>2 DEF Queue!QInit

LEMMA BeginWriteImplements == IInv /\ BeginWrite => Queue!StartWrite
  <1> SUFFICES ASSUME IInv, BeginWrite PROVE Queue!StartWrite
    OBVIOUS
  <1>1. PICK d \in Data : Kept(Len(d), readSeen, write) > 0 /\ data' = d
    BY DEF BeginWrite
  <1>2. d \in Seq(Bytes) /\ d # <<>>
    <2>1. d \in Seq(Bytes)
      BY DataAssumption
    <2>2. Available(readSeen, write) \in 0 .. N - 1
      BY IndexFacts, AvailableIsExact
    <2>3. Len(d) > 0
      BY <1>1, <2>1, <2>2, NAssumption DEF Kept
    <2> QED BY <2>1, <2>3
  <1>3. data = <<>>
    BY DEF BeginWrite, IInv, LocalsConsistent
  <1>4. /\ buf' = buf /\ read' = read /\ write' = write
        /\ len1' = len1 /\ len2' = len2
    BY DEF BeginWrite, cvars
  <1> QED BY <1>1, <1>2, <1>3, <1>4 DEF Queue!StartWrite

\* A byte stored by the copy is outside what the consumer owns: the queue
\* does not change until the write is published.
LEMMA CopyByteImplements == IInv /\ CopyByte => UNCHANGED Queue!qvars
  <1> SUFFICES ASSUME IInv, CopyByte PROVE UNCHANGED Queue!qvars
    OBVIOUS
  <1>1. PICK i \in (0 .. len - 1) \ copied :
            buf' = [buf EXCEPT ![CopyOffset(write, len, i)] = data[i + 1]]
    BY DEF CopyByte
  <1>2. buf \in [Index -> Bytes] /\ read \in Index /\ write \in Index
    BY DEF IInv, TypeOK
  <1>3. buf' \in [Index -> Bytes]
    BY CopyByteInv DEF IInv, TypeOK
  <1>4. len \in 0 .. N - 1 - Dist(read, write)
    BY IndexFacts, NAssumption DEF IInv, LocalsConsistent, CopyByte
  <1>5. CopyOffset(write, len, i) \notin Owned(read, write)
    BY <1>2, <1>4, CopyStaysInFreeSpace
  <1>6. Owned(read, write) \subseteq Index
    BY <1>2, OwnedSlots
  <1>7. \A o \in Owned(read, write) : buf'[o] = buf[o]
    BY <1>1, <1>2, <1>5, <1>6
  <1>8. Contents(buf', read, write) = Contents(buf, read, write)
    <2>1. SameOwned(buf, buf', read, write)
      BY <1>7 DEF SameOwned
    <2> QED BY <1>2, <2>1, ContentsEqual
  <1>9. read' = read /\ write' = write /\ data' = data /\ len1' = len1 /\ len2' = len2
    BY DEF CopyByte, cvars
  <1> QED BY <1>8, <1>9 DEF Queue!qvars

LEMMA PublishImplements == IInv /\ Publish => Queue!FinishWrite
  <1> SUFFICES ASSUME IInv, Publish PROVE Queue!FinishWrite
    OBVIOUS
  <1> DEFINE q == Contents(buf, read, write)
  <1>1. /\ buf \in [Index -> Bytes] /\ read \in Index /\ write \in Index
        /\ data \in Seq(Bytes) /\ len \in 0 .. Len(data)
    BY DEF IInv, TypeOK
  <1>2. len \in 1 .. Len(data) /\ len <= N - 1 - Dist(read, write)
    <2>1. len > 0 /\ len <= N - 1 - Dist(readSeen, write)
      BY IndexFacts DEF IInv, LocalsConsistent, Publish
    <2> QED BY <1>1, <2>1, IndexFacts, NAssumption
  <1>3. \A i \in 0 .. len - 1 : buf[CopyOffset(write, len, i)] = data[i + 1]
    BY DEF Publish, IInv, LocalsConsistent
  <1>4. Contents(buf, read, NextWrite(write, len)) = q \o SubSeq(data, 1, len)
    <2>1. len \in 1 .. N - 1 - Dist(read, write)
      BY <1>1, <1>2, QueueType, NAssumption
    <2>2. Appends(buf, read, write, data, len)
      <3>1. Copied(buf, write, data, len)
        BY <1>3 DEF Copied
      <3> QED BY <1>1, <2>1, <3>1, ContentsAppend, Zenon
    <2> QED BY <2>2 DEF Appends
  <1>5. Len(q) + len <= N - 1
    BY <1>2, QueueType, NAssumption
  <1>6. data # <<>>
    BY <1>1, <1>2
  <1>7. /\ buf' = buf /\ read' = read /\ write' = NextWrite(write, len)
        /\ data' = <<>> /\ len1' = len1 /\ len2' = len2
    BY DEF Publish, cvars
  <1>8. Contents(buf', read', write') = q \o SubSeq(data, 1, len)
    BY <1>4, <1>7
  <1> HIDE DEF q
  <1>9. \E k \in 1 .. Len(data) :
            Len(q) + k <= N - 1 /\ Contents(buf', read', write') = q \o SubSeq(data, 1, k)
    BY <1>2, <1>5, <1>8
  <1> QED BY <1>6, <1>7, <1>9 DEF Queue!FinishWrite, q

LEMMA ReadGrantImplements == IInv /\ ReadGrant => Queue!Lend
  <1> SUFFICES ASSUME IInv, ReadGrant PROVE Queue!Lend
    OBVIOUS
  <1>1. len1' + len2' = Dist(read, writeSeen)
    BY IndexFacts, SlicesAreExact DEF ReadGrant
  <1>2. len1' + len2' \in 0 .. Len(Contents(buf, read, write))
    BY <1>1, IndexFacts, QueueType
  <1>3. buf' = buf /\ read' = read /\ write' = write /\ data' = data
    BY DEF ReadGrant, pvars
  <1> QED BY <1>2, <1>3 DEF Queue!Lend

LEMMA DropGrantImplements == IInv /\ DropGrant => Queue!Lend
  <1> SUFFICES ASSUME IInv, DropGrant PROVE Queue!Lend
    OBVIOUS
  <1>1. len1' + len2' \in 0 .. Len(Contents(buf, read, write))
    BY QueueType DEF DropGrant, EndGrant
  <1>2. buf' = buf /\ read' = read /\ write' = write /\ data' = data
    BY DEF DropGrant, EndGrant, pvars
  <1> QED BY <1>1, <1>2 DEF Queue!Lend

LEMMA ReleaseImplements == IInv /\ Release => Queue!Release
  <1> SUFFICES ASSUME IInv, Release PROVE Queue!Release
    OBVIOUS
  <1> DEFINE q == Contents(buf, read, write)
  <1>1. PICK used \in 0 .. len1 + len2 : read' = NextRead(read, len1, used)
    BY DEF Release
  <1>2. /\ buf \in [Index -> Bytes] /\ read \in Index /\ write \in Index
        /\ len1 \in 0 .. N - 1 /\ len2 \in 0 .. N - 1
        /\ len1 + len2 <= Dist(read, write)
        /\ read + len1 <= N
        /\ len2 > 0 => read + len1 = N
    <2>1. /\ buf \in [Index -> Bytes] /\ read \in Index /\ write \in Index
          /\ len1 \in 0 .. N - 1 /\ len2 \in 0 .. N - 1
          /\ read + len1 <= N
          /\ len2 > 0 => read + len1 = N
      BY DEF IInv, TypeOK, LocalsConsistent
    <2>2. len1 + len2 <= Dist(read, writeSeen)
      BY DEF IInv, StaleIsBehind
    <2> QED BY <2>1, <2>2, IndexFacts
  <1>3. /\ read' \in Index /\ Dist(read, read') = used
        /\ Dist(read', write) = Dist(read, write) - used
    <2>1. /\ NextRead(read, len1, used) \in Index
          /\ Dist(read, NextRead(read, len1, used)) = used
          /\ Dist(NextRead(read, len1, used), write) = Dist(read, write) - used
      BY <1>1, <1>2, NextReadDist
    <2> QED BY <1>1, <2>1
  <1>4. used \in 0 .. Dist(read, write)
    <2>1. Dist(read, write) \in Nat
      BY <1>2, DistType, NAssumption
    <2> QED BY <1>1, <1>2, <2>1
  <1>5. Contents(buf, read', write) = SubSeq(q, used + 1, Len(q))
    <2>1. Drops(buf, read, read', write, used)
      BY <1>2, <1>3, <1>4, ContentsDrop, Zenon
    <2> QED BY <2>1 DEF Drops
  <1>6. buf' = buf /\ write' = write /\ data' = data /\ len1' = 0 /\ len2' = 0
    BY DEF Release, EndGrant, pvars
  <1>7. \E n \in 0 .. len1 + len2 :
            Contents(buf', read', write') = SubSeq(q, n + 1, Len(q))
    BY <1>5, <1>6
  <1>8. len1' + len2' = 0
    BY <1>6
  <1> QED BY <1>6, <1>7, <1>8 DEF Queue!Release

LEMMA NextImplements == IInv /\ [Next]_vars => [Queue!QNext]_(Queue!qvars)
  <1> SUFFICES ASSUME IInv, [Next]_vars PROVE [Queue!QNext]_(Queue!qvars)
    OBVIOUS
  <1> USE DEF Queue!QNext
  <1>1. CASE BeginWrite  BY <1>1, BeginWriteImplements
  <1>2. CASE CopyByte    BY <1>2, CopyByteImplements
  <1>3. CASE Publish     BY <1>3, PublishImplements
  <1>4. CASE ReadGrant   BY <1>4, ReadGrantImplements
  <1>5. CASE Release     BY <1>5, ReleaseImplements
  <1>6. CASE DropGrant   BY <1>6, DropGrantImplements
  <1>7. CASE SeeRead     BY <1>7 DEF SeeRead, pvars, cvars, Queue!qvars
  <1>8. CASE SeeWrite    BY <1>8 DEF SeeWrite, pvars, cvars, Queue!qvars
  <1>9. CASE UNCHANGED vars
    BY <1>9 DEF vars, pvars, cvars, Queue!qvars
  <1> QED
    BY <1>1, <1>2, <1>3, <1>4, <1>5, <1>6, <1>7, <1>8, <1>9 DEF Next

\* The ring is a bounded FIFO: whole writes are appended in order (cut at the
\* end when they do not fit), and nothing but a release takes bytes out.
THEOREM RingImplementsQueue == Spec => ImplementsQueue
  BY InitImplements, NextImplements, Invariance, PTL DEF Spec, ImplementsQueue, Queue!QSpec
=============================================================================
