--------------------------- MODULE RttChannelProofs ---------------------------
(***************************************************************************)
(* For every buffer size, every set of byte values and every set of data:  *)
(* both indices of the RTT channel stay in range, and what the host copies *)
(* is the stream that RttStream promises, also if it sets the mode inside  *)
(* a call; each step of a call brings it nearer to its end.                *)
(***************************************************************************)
EXTENDS RttChannel, RingIndexProofs, FiniteSetTheorems

-----------------------------------------------------------------------------
(* The inductive invariant *)

\* What every step needs to know of a state that satisfies the invariant.
LEMMA RttFacts ==
    ASSUME IInv
    PROVE  /\ read \in Index /\ write \in Index /\ buf \in [Index -> Bytes]
           /\ Dist(read, write) \in 0 .. N - 1
           /\ bytes \in Seq(Bytes) /\ Len(bytes) \in Nat
           /\ len \in 0 .. Len(bytes) /\ len <= N - 1 - Dist(read, write)
           /\ copied \subseteq 0 .. len - 1
           /\ taken \in 0 .. Dist(read, write)
  <1>1. read \in Index /\ write \in Index /\ bytes \in Seq(Bytes)
    BY DEF IInv, TypeOK
  <1>2. Dist(read, write) \in 0 .. N - 1 /\ Len(bytes) \in Nat
    BY <1>1, DistType
  <1> QED BY <1>1, <1>2, NAssumption DEF IInv, TypeOK, CopyConsistent

LEMMA RttInit == Init => IInv
  <1> SUFFICES ASSUME Init PROVE IInv
    OBVIOUS
  <1>1. /\ N \in Nat /\ N > 1 /\ 0 \in Index /\ 0 \in 0 .. N - 1
        /\ <<>> \in Seq(Bytes) /\ Len(<<>>) = 0
    BY NAssumption, RttAssumption DEF Index
  <1>2. /\ len \in 0 .. Len(bytes) /\ copied \subseteq 0 .. len - 1
        /\ pc \in {"loop", "copy"} <=> bytes # <<>>
    BY <1>1 DEF Init
  <1>3. TypeOK
    BY <1>1, <1>2 DEF Init, TypeOK
  <1>4. CopyConsistent
    BY <1>1 DEF Init, CopyConsistent, Dist
  <1> QED BY <1>3, <1>4 DEF IInv

LEMMA RttBeginWriteAll == IInv /\ BeginWriteAll => IInv'
  <1> SUFFICES ASSUME IInv, BeginWriteAll PROVE IInv'
    OBVIOUS
  <1>1. bytes' \in Seq(Bytes) /\ bytes' # <<>>
    BY RttAssumption DEF BeginWriteAll
  <1>2. len = 0 /\ copied = {}
    BY RttFacts DEF BeginWriteAll, IInv, CopyConsistent
  <1>3. Len(bytes') \in Nat
    BY <1>1
  <1>4. TypeOK'
    BY <1>1, <1>2, <1>3 DEF BeginWriteAll, IInv, TypeOK, hvars, cvars
  <1>5. CopyConsistent'
    BY <1>2 DEF BeginWriteAll, IInv, CopyConsistent, hvars, cvars
  <1> QED BY <1>4, <1>5 DEF IInv

LEMMA RttBeginChunk == IInv /\ BeginChunk => IInv'
  <1> SUFFICES ASSUME IInv, BeginChunk PROVE IInv'
    OBVIOUS
  <1>1. /\ Available(read, write) = N - 1 - Dist(read, write)
        /\ Available(read, write) \in 0 .. N - 1
    BY RttFacts, AvailableIsExact
  <1>2. bytes \in Seq(Bytes) /\ bytes # <<>>
    BY DEF BeginChunk, IInv, TypeOK
  <1>3. Len(bytes) \in Nat /\ Len(bytes) > 0
    BY <1>2
  <1>4. len' \in 1 .. Len(bytes) /\ len' <= N - 1 - Dist(read, write)
    BY <1>1, <1>3, NAssumption DEF BeginChunk, Kept
  <1>5. TypeOK'
    BY <1>2, <1>4 DEF BeginChunk, IInv, TypeOK, hvars
  <1>6. CopyConsistent'
    BY <1>4, RttFacts DEF BeginChunk, IInv, CopyConsistent, hvars
  <1> QED BY <1>5, <1>6 DEF IInv

\* Where the bytes of the copy under way land: inside the buffer, outside what
\* the host has not released, and each in a slot of its own.
LEMMA RttTargets ==
    ASSUME IInv
    PROVE  \A i \in 0 .. len - 1 :
               /\ CopyOffset(write, len, i) \in Index
               /\ CopyOffset(write, len, i) \notin Owned(read, write)
               /\ \A j \in 0 .. len - 1 :
                      j # i => CopyOffset(write, len, j) # CopyOffset(write, len, i)
  <1>1. /\ read \in Index /\ write \in Index
        /\ len \in 0 .. N - 1 - Dist(read, write)
    BY RttFacts, NAssumption
  <1>2. \A i \in 0 .. len - 1 :
            /\ CopyOffset(write, len, i) \in Index
            /\ CopyOffset(write, len, i) \notin Owned(read, write)
            /\ CopyOffset(write, len, i) = IF write + i < N THEN write + i ELSE write + i - N
    BY <1>1, CopyStaysInFreeSpace
  <1>3. len \in 0 .. N - 1
    BY RttFacts, NAssumption
  <1> QED BY <1>1, <1>2, <1>3, NAssumption DEF Index

LEMMA RttCopyByte == IInv /\ CopyByte => IInv'
  <1> SUFFICES ASSUME IInv, CopyByte PROVE IInv'
    OBVIOUS
  <1>1. PICK i \in (0 .. len - 1) \ copied :
            /\ buf' = [buf EXCEPT ![CopyOffset(write, len, i)] = bytes[i + 1]]
            /\ copied' = copied \cup {i}
    BY DEF CopyByte
  <1>2. bytes[i + 1] \in Bytes
    BY <1>1, RttFacts
  <1>3. buf' \in [Index -> Bytes]
    BY <1>1, <1>2, RttFacts
  <1>4. copied' \subseteq 0 .. len - 1
    BY <1>1, RttFacts
  <1>5. TypeOK'
    BY <1>3, <1>4 DEF CopyByte, IInv, TypeOK, hvars
  <1>6. \A j \in copied' : buf'[CopyOffset(write, len, j)] = bytes[j + 1]
    <2> SUFFICES ASSUME NEW j \in copied'
                 PROVE  buf'[CopyOffset(write, len, j)] = bytes[j + 1]
      OBVIOUS
    <2>1. CASE j = i
      BY <2>1, <1>1, RttFacts, RttTargets
    <2>2. CASE j # i
      <3>1. j \in copied /\ j \in 0 .. len - 1
        BY <2>2, <1>1, RttFacts
      <3>2. buf[CopyOffset(write, len, j)] = bytes[j + 1]
        BY <3>1 DEF IInv, CopyConsistent
      <3>3. /\ CopyOffset(write, len, j) # CopyOffset(write, len, i)
            /\ CopyOffset(write, len, j) \in Index
        BY <2>2, <3>1, <1>1, RttTargets
      <3> QED BY <3>2, <3>3, <1>1, RttFacts
    <2> QED BY <2>1, <2>2
  <1>7. CopyConsistent'
    BY <1>6 DEF CopyByte, IInv, CopyConsistent, hvars
  <1> QED BY <1>5, <1>7 DEF IInv

LEMMA RttPublish == IInv /\ Publish => IInv'
  <1> SUFFICES ASSUME IInv, Publish PROVE IInv'
    OBVIOUS
  <1>1. len \in 1 .. Len(bytes) /\ len \in 0 .. N - 1 - Dist(read, write)
    BY RttFacts, NAssumption DEF Publish, IInv, CopyConsistent
  <1>2. write' \in Index /\ Dist(read, write') = Dist(read, write) + len
    BY <1>1, RttFacts, NextWriteDist DEF Publish
  <1>3. bytes' \in Seq(Bytes) /\ len' = 0 /\ copied' = {}
    <2>1. SubSeq(bytes, len + 1, Len(bytes)) \in Seq(Bytes)
      BY <1>1, RttFacts
    <2> QED BY <2>1 DEF Publish
  <1>4. Len(bytes') \in Nat
    BY <1>3
  <1>5. TypeOK'
    BY <1>2, <1>3, <1>4 DEF Publish, IInv, TypeOK, hvars
  <1>6. /\ Dist(read, write') \in 0 .. N - 1 /\ taken <= Dist(read, write')
    BY <1>1, <1>2, RttFacts, NAssumption
  <1>7. CopyConsistent'
    BY <1>3, <1>6, NAssumption DEF Publish, IInv, CopyConsistent, hvars
  <1> QED BY <1>5, <1>7 DEF IInv

LEMMA RttDiscard == IInv /\ Discard => IInv'
  <1> SUFFICES ASSUME IInv, Discard PROVE IInv'
    OBVIOUS
  <1>1. len = 0 /\ copied = {}
    BY RttFacts DEF Discard, FullRound, IInv, CopyConsistent
  <1>2. <<>> \in Seq(Bytes) /\ Len(<<>>) = 0
    OBVIOUS
  <1>3. TypeOK'
    BY <1>1, <1>2 DEF Discard, FullRound, IInv, TypeOK, hvars, cvars
  <1>4. CopyConsistent'
    BY <1>1 DEF Discard, FullRound, IInv, CopyConsistent, hvars, cvars
  <1> QED BY <1>3, <1>4 DEF IInv

\* flush, and a host that sets the mode, change neither bytes nor indices.
LEMMA RttOther ==
    ASSUME IInv, BeginFlush \/ EndFlush \/ HostSetMode \/ UNCHANGED vars
    PROVE  IInv'
  <1>1. TypeOK'
    BY DEF BeginFlush, EndFlush, HostSetMode, IInv, TypeOK, vars, hvars, cvars, target
  <1>2. CopyConsistent'
    BY DEF BeginFlush, EndFlush, HostSetMode, IInv, CopyConsistent, vars, hvars, cvars, target
  <1> QED BY <1>1, <1>2 DEF IInv

LEMMA RttHostCopy == IInv /\ HostCopy => IInv'
  <1> SUFFICES ASSUME IInv, HostCopy PROVE IInv'
    OBVIOUS
  <1>1. taken' \in 1 .. Dist(read, write) /\ taken' \in 0 .. N - 1
    BY RttFacts, NAssumption DEF HostCopy
  <1>2. TypeOK'
    BY <1>1 DEF HostCopy, IInv, TypeOK, target, cvars
  <1>3. CopyConsistent'
    BY <1>1 DEF HostCopy, IInv, CopyConsistent, target, cvars
  <1> QED BY <1>2, <1>3 DEF IInv

\* The host's `read` goes forward by the bytes it took, and not past `write`.
LEMMA HostMoves ==
    ASSUME IInv, HostRelease
    PROVE  /\ read' \in Index /\ Dist(read, read') = taken
           /\ Dist(read', write) = Dist(read, write) - taken
  <1>1. read' = IF read + taken < N THEN read + taken ELSE read + taken - N
    <2>1. read' = NextWrite(read, taken)
      BY DEF HostRelease, NextWrite
    <2>2. read \in Index /\ taken \in 0 .. N
      BY RttFacts, NAssumption
    <2>3. NextWrite(read, taken) = IF read + taken < N THEN read + taken ELSE read + taken - N
      BY <2>2, NextWriteCases
    <2> QED BY <2>1, <2>3, Zenon
  <1>2. /\ N \in Nat \ {0} /\ read \in 0 .. N - 1 /\ write \in 0 .. N - 1
        /\ taken \in 0 .. Dist(read, write)
    BY RttFacts, NAssumption DEF Index
  <1>3. CASE read + taken < N
    BY <1>1, <1>2, <1>3 DEF Dist, Index
  <1>4. CASE read + taken >= N
    BY <1>1, <1>2, <1>4 DEF Dist, Index
  <1>5. taken \in Nat
    BY RttFacts
  <1> QED BY <1>2, <1>3, <1>4, <1>5

LEMMA RttHostRelease == IInv /\ HostRelease => IInv'
  <1> SUFFICES ASSUME IInv, HostRelease PROVE IInv'
    OBVIOUS
  <1>1. taken' = 0 /\ 0 \in 0 .. N - 1
    BY NAssumption DEF HostRelease
  <1>2. TypeOK'
    BY <1>1, HostMoves DEF HostRelease, IInv, TypeOK, target, cvars
  <1>3. CopyConsistent'
    BY <1>1, HostMoves, RttFacts, NAssumption
    DEF HostRelease, IInv, CopyConsistent, target, cvars
  <1> QED BY <1>2, <1>3 DEF IInv

LEMMA RttNext == IInv /\ [Next]_vars => IInv'
  <1> SUFFICES ASSUME IInv, [Next]_vars PROVE IInv'
    OBVIOUS
  <1>1. CASE BeginWriteAll  BY <1>1, RttBeginWriteAll
  <1>2. CASE BeginChunk     BY <1>2, RttBeginChunk
  <1>3. CASE CopyByte       BY <1>3, RttCopyByte
  <1>4. CASE Publish        BY <1>4, RttPublish
  <1>5. CASE Discard        BY <1>5, RttDiscard
  <1>6. CASE HostCopy       BY <1>6, RttHostCopy
  <1>7. CASE HostRelease    BY <1>7, RttHostRelease
  <1>8. CASE BeginFlush \/ EndFlush \/ HostSetMode \/ UNCHANGED vars
    BY <1>8, RttOther
  <1> QED
    BY <1>1, <1>2, <1>3, <1>4, <1>5, <1>6, <1>7, <1>8 DEF Next, Target

\* The inductive invariant holds in every reachable state.
THEOREM RttInvariance == Spec => []IInv
  BY RttInit, RttNext, PTL DEF Spec

\* Indices, lengths and what is left of a frame stay in range, and a frame is
\* under way exactly while some of it is left to write.
THEOREM RttTypes == Spec => []TypeOK
  <1>1. IInv => TypeOK
    BY DEF IInv
  <1> QED BY <1>1, RttInvariance, PTL

-----------------------------------------------------------------------------
(* The channel implements the stream *)

LEMMA StreamType ==
    ASSUME IInv
    PROVE  /\ Contents(buf, read, write) \in Seq(Bytes)
           /\ Len(Contents(buf, read, write)) = Dist(read, write)
  <1>1. ShowsSlots(Contents(buf, read, write), Bytes, buf, read, Dist(read, write))
    BY RttFacts, ContentsIsWindow, Zenon
  <1> QED BY <1>1 DEF ShowsSlots

LEMMA InitStreams == Init => Stream!SInit
  <1> SUFFICES ASSUME Init PROVE Stream!SInit
    OBVIOUS
  <1>1. /\ Contents(buf, read, write) \in Seq(Bytes)
        /\ Len(Contents(buf, read, write)) <= N - 1
    BY RttInit, StreamType, RttFacts, NAssumption
  <1> QED BY <1>1 DEF Init, Stream!SInit, Stream!QInit

LEMMA BeginWriteAllStreams == IInv /\ BeginWriteAll => Stream!Call
  <1> SUFFICES ASSUME IInv, BeginWriteAll PROVE Stream!Call
    OBVIOUS
  <1>1. bytes = <<>> /\ hostConnected' \in BOOLEAN
    BY DEF BeginWriteAll, IInv, TypeOK
  <1>2. bytes' \in Seq(Bytes) \ {<<>>}
    BY RttAssumption DEF BeginWriteAll
  <1>3. buf' = buf /\ read' = read /\ write' = write /\ taken' = taken
    BY DEF BeginWriteAll, hvars
  <1> QED BY <1>1, <1>2, <1>3 DEF Stream!Call, Stream!StartWrite

\* A byte that the copy stores is outside what the host has yet to take.
LEMMA CopyByteStreams == IInv /\ CopyByte => UNCHANGED Stream!svars
  <1> SUFFICES ASSUME IInv, CopyByte PROVE UNCHANGED Stream!svars
    OBVIOUS
  <1>1. PICK i \in (0 .. len - 1) \ copied :
            buf' = [buf EXCEPT ![CopyOffset(write, len, i)] = bytes[i + 1]]
    BY DEF CopyByte
  <1>2. buf' \in [Index -> Bytes]
    BY RttCopyByte DEF IInv, TypeOK
  <1>3. read \in Index /\ write \in Index /\ buf \in [Index -> Bytes]
    BY RttFacts
  <1>4. \A o \in Owned(read, write) : buf'[o] = buf[o]
    <2>1. Owned(read, write) \subseteq Index
      BY <1>3, OwnedSlots
    <2>2. CopyOffset(write, len, i) \notin Owned(read, write)
      BY RttTargets
    <2> QED BY <1>1, <1>3, <2>1, <2>2
  <1>5. Contents(buf', read, write) = Contents(buf, read, write)
    <2>1. SameOwned(buf, buf', read, write)
      BY <1>4 DEF SameOwned
    <2> QED BY <1>3, <2>1, ContentsEqual
  <1>6. /\ read' = read /\ write' = write /\ bytes' = bytes /\ taken' = taken
        /\ hostConnected' = hostConnected
    BY DEF CopyByte, hvars
  <1> QED BY <1>5, <1>6 DEF Stream!svars, Stream!qvars

LEMMA PublishStreams == IInv /\ Publish => Stream!Accept
  <1> SUFFICES ASSUME IInv, Publish PROVE Stream!Accept
    OBVIOUS
  <1> DEFINE q == Contents(buf, read, write)
  <1>1. len \in 1 .. Len(bytes) /\ len <= N - 1 - Dist(read, write)
    BY RttFacts DEF Publish, IInv, CopyConsistent
  <1>2. \A i \in 0 .. len - 1 : buf[CopyOffset(write, len, i)] = bytes[i + 1]
    BY DEF Publish, IInv, CopyConsistent
  <1>3. Contents(buf, read, NextWrite(write, len)) = q \o SubSeq(bytes, 1, len)
    <2>1. /\ buf \in [Index -> Bytes] /\ read \in Index /\ write \in Index
          /\ bytes \in Seq(Bytes)
      BY RttFacts
    <2> HIDE DEF q
    <2>2. Appends(buf, read, write, bytes, len)
      <3>1. len \in 1 .. N - 1 - Dist(read, write)
        BY <1>1, RttFacts, NAssumption
      <3>2. Copied(buf, write, bytes, len)
        BY <1>2 DEF Copied
      <3> QED BY <2>1, <3>1, <3>2, ContentsAppend, Zenon
    <2> QED BY <2>2 DEF Appends, q
  <1>4. Len(q) + len <= N - 1
    BY <1>1, StreamType, RttFacts, NAssumption
  <1>5. /\ buf' = buf /\ read' = read /\ write' = NextWrite(write, len)
        /\ bytes' = SubSeq(bytes, len + 1, Len(bytes))
        /\ taken' = taken /\ hostConnected' = hostConnected
    BY DEF Publish, hvars
  <1>6. Contents(buf', read', write') = q \o SubSeq(bytes, 1, len)
    BY <1>3, <1>5
  <1> HIDE DEF q
  <1>7. \E k \in 1 .. Len(bytes) :
            /\ Len(q) + k <= N - 1
            /\ Contents(buf', read', write') = q \o SubSeq(bytes, 1, k)
            /\ bytes' = SubSeq(bytes, k + 1, Len(bytes))
    BY <1>1, <1>4, <1>5, <1>6
  <1> QED BY <1>5, <1>7 DEF Stream!Accept, q

LEMMA DiscardStreams == IInv /\ Discard => Stream!GiveUp
  <1> SUFFICES ASSUME IInv, Discard PROVE Stream!GiveUp
    OBVIOUS
  <1>1. bytes # <<>> /\ ~hostConnected /\ bytes' = <<>>
    BY DEF Discard, FullRound, IInv, TypeOK
  <1>2. Len(Contents(buf, read, write)) = N - 1
    <2>1. read \in Index /\ write \in Index /\ Available(read, write) = 0
      BY RttFacts DEF Discard, FullRound
    <2>2. Available(read, write) = N - 1 - Dist(read, write)
      BY <2>1, AvailableIsExact
    <2>3. Dist(read, write) \in 0 .. N - 1
      BY <2>1, DistType
    <2> QED BY <2>1, <2>2, <2>3, StreamType, NAssumption
  <1>3. /\ buf' = buf /\ read' = read /\ write' = write /\ taken' = taken
        /\ hostConnected' = hostConnected
    BY DEF Discard, FullRound, hvars
  <1> QED BY <1>1, <1>2, <1>3 DEF Stream!GiveUp

LEMMA HostCopyStreams == IInv /\ HostCopy => Stream!Host
  <1> SUFFICES ASSUME IInv, HostCopy PROVE Stream!Host
    OBVIOUS
  <1>1. taken' \in 0 .. Len(Contents(buf, read, write))
    BY RttFacts, StreamType DEF HostCopy
  <1>2. /\ buf' = buf /\ read' = read /\ write' = write /\ bytes' = bytes
        /\ hostConnected' = hostConnected
    BY DEF HostCopy, target
  <1> QED BY <1>1, <1>2 DEF Stream!Host, Stream!Lend

LEMMA HostReleaseStreams == IInv /\ HostRelease => Stream!Host
  <1> SUFFICES ASSUME IInv, HostRelease PROVE Stream!Host
    OBVIOUS
  <1> DEFINE q == Contents(buf, read, write)
  <1>1. Contents(buf, read', write) = SubSeq(q, taken + 1, Len(q))
    <2>1. /\ read \in Index /\ write \in Index /\ buf \in [Index -> Bytes]
          /\ taken \in 0 .. Dist(read, write)
      BY RttFacts
    <2>2. /\ read' \in Index /\ Dist(read, read') = taken
          /\ Dist(read', write) = Dist(read, write) - taken
      BY HostMoves
    <2>3. Drops(buf, read, read', write, taken)
      BY <2>1, <2>2, ContentsDrop, Zenon
    <2> QED BY <2>3 DEF Drops
  <1>2. /\ buf' = buf /\ write' = write /\ bytes' = bytes /\ taken' = 0
        /\ hostConnected' = hostConnected
    BY DEF HostRelease, target
  <1>3. Contents(buf', read', write') = SubSeq(q, taken + 1, Len(q))
    BY <1>1, <1>2
  <1>4. taken \in 0 .. taken
    BY RttFacts
  <1> HIDE DEF q
  <1>5. \E n \in 0 .. taken : Contents(buf', read', write') = SubSeq(q, n + 1, Len(q))
    BY <1>3, <1>4
  <1> QED BY <1>2, <1>5 DEF Stream!Host, Stream!Release, q

LEMMA NextStreams == IInv /\ [Next]_vars => [Stream!SNext]_(Stream!svars)
  <1> SUFFICES ASSUME IInv, [Next]_vars PROVE [Stream!SNext]_(Stream!svars)
    OBVIOUS
  <1> USE DEF Stream!SNext
  <1>1. CASE BeginWriteAll  BY <1>1, BeginWriteAllStreams
  <1>2. CASE CopyByte       BY <1>2, CopyByteStreams
  <1>3. CASE Publish        BY <1>3, PublishStreams
  <1>4. CASE Discard        BY <1>4, DiscardStreams
  <1>5. CASE HostCopy       BY <1>5, HostCopyStreams
  <1>6. CASE HostRelease    BY <1>6, HostReleaseStreams
  <1>7. CASE BeginChunk \/ BeginFlush \/ EndFlush \/ HostSetMode \/ UNCHANGED vars
    BY <1>7 DEF BeginChunk, BeginFlush, EndFlush, HostSetMode, vars, hvars, target,
                Stream!svars, Stream!qvars
  <1> QED
    BY <1>1, <1>2, <1>3, <1>4, <1>5, <1>6, <1>7 DEF Next, Target

\* What the host reads is what the target wrote: all of a blocking write, of
\* another one a prefix cut by a full buffer only, in order, and nothing is
\* overwritten that the host has not released.
THEOREM ChannelImplementsStream == Spec => ImplementsStream
  BY InitStreams, NextStreams, RttInvariance, PTL DEF Spec, ImplementsStream, Stream!SSpec

-----------------------------------------------------------------------------
(* Calls come nearer to their end *)

LEMMA PublishAdvances == IInv /\ Publish => Work' < Work
  <1> SUFFICES ASSUME IInv, Publish PROVE Work' < Work
    OBVIOUS
  <1>1. /\ pc = "copy" /\ copied = 0 .. len - 1
        /\ bytes' = SubSeq(bytes, len + 1, Len(bytes))
        /\ pc' = IF bytes' = <<>> THEN "idle" ELSE "loop"
    BY DEF Publish
  <1>2. bytes \in Seq(Bytes) /\ Len(bytes) \in Nat /\ len \in 1 .. Len(bytes)
    BY <1>1, RttFacts DEF IInv, CopyConsistent
  <1>3. Len(bytes') = Len(bytes) - len
    BY <1>1, <1>2
  <1>4. Cardinality(copied) = len
    <2>1. Cardinality(0 .. len - 1) = len
      BY <1>2, FS_Interval
    <2> QED  BY <1>1, <2>1
  <1>5. Work = 3 * Len(bytes) - 1 - len
    BY <1>1, <1>4 DEF Work
  <1>6. Work' = 0 \/ Work' = 3 * (Len(bytes) - len)
    BY <1>1, <1>3 DEF Work
  <1> QED  BY <1>2, <1>5, <1>6

LEMMA CopyByteAdvances == IInv /\ CopyByte => Work' < Work
  <1> SUFFICES ASSUME IInv, CopyByte PROVE Work' < Work
    OBVIOUS
  <1>1. PICK i \in (0 .. len - 1) \ copied : copied' = copied \cup {i}
    BY DEF CopyByte
  <1>2. pc = "copy" /\ pc' = pc /\ bytes' = bytes
    BY DEF CopyByte
  <1>3. Len(bytes) \in Nat /\ copied \subseteq 0 .. len - 1 /\ len \in Nat
    BY RttFacts
  <1>4. IsFiniteSet(copied)
    <2>1. IsFiniteSet(0 .. len - 1)
      BY <1>3, FS_Interval
    <2> QED  BY <1>3, <2>1, FS_Subset
  <1>5. Cardinality(copied) \in Nat /\ Cardinality(copied') = Cardinality(copied) + 1
    BY <1>1, <1>4, FS_CardinalityType, FS_AddElement
  <1>6. Work = 3 * Len(bytes) - 1 - Cardinality(copied)
    BY <1>2 DEF Work
  <1>7. Work' = 3 * Len(bytes) - 1 - Cardinality(copied')
    BY <1>2 DEF Work
  <1> QED  BY <1>3, <1>5, <1>6, <1>7

LEMMA OthersAdvance ==
    ASSUME IInv, BeginChunk \/ Discard \/ EndFlush
    PROVE  Work' < Work
  <1>1. CASE BeginChunk
    <2>1. /\ pc = "loop" /\ pc' = "copy" /\ bytes' = bytes /\ copied' = {}
      BY <1>1 DEF BeginChunk
    <2>2. Work = 3 * Len(bytes)
      BY <2>1 DEF Work
    <2>3. Work' = 3 * Len(bytes) - 1 - 0
      BY <2>1, FS_EmptySet DEF Work
    <2>4. Len(bytes) \in Nat
      BY RttFacts
    <2> QED  BY <2>2, <2>3, <2>4
  <1>2. CASE Discard
    <2>1. pc = "loop" /\ pc' = "idle"
      BY <1>2 DEF Discard, FullRound
    <2>2. Len(bytes) \in Nat \ {0}
      BY <2>1, RttFacts, EmptySeq DEF IInv, TypeOK
    <2>3. Work = 3 * Len(bytes) /\ Work' = 0
      BY <2>1 DEF Work
    <2> QED  BY <2>2, <2>3
  <1>3. CASE EndFlush
    BY <1>3 DEF EndFlush, Work
  <1> QED  BY <1>1, <1>2, <1>3

\* Each step of write_all or flush brings it nearer to its end, whatever the
\* host does meanwhile: a call of n bytes makes at most 3 * n steps, and what
\* is left to liveness is that a connected host makes room.
THEOREM CallsAreBounded == Spec => CallsAdvance
  <1>1. ASSUME IInv, [Next]_vars PROVE pc # "idle" => UNCHANGED target \/ Work' < Work
    <2>1. CASE BeginWriteAll \/ BeginFlush
      BY <2>1 DEF BeginWriteAll, BeginFlush
    <2>2. CASE BeginChunk \/ Discard \/ EndFlush
      BY <1>1, <2>2, OthersAdvance
    <2>3. CASE CopyByte
      BY <1>1, <2>3, CopyByteAdvances
    <2>4. CASE Publish
      BY <1>1, <2>4, PublishAdvances
    <2>5. CASE HostCopy \/ HostRelease \/ HostSetMode \/ UNCHANGED vars
      BY <2>5 DEF HostCopy, HostRelease, HostSetMode, vars, target, cvars
    <2> QED  BY <1>1, <2>1, <2>2, <2>3, <2>4, <2>5 DEF Next, Target
  <1>2. IInv /\ [Next]_vars => [pc # "idle" => UNCHANGED target \/ Work' < Work]_vars
    BY <1>1
  <1> QED  BY <1>2, RttInvariance, PTL DEF Spec, CallsAdvance
=============================================================================
