----------------------------- MODULE BoardProofs ------------------------------
(***************************************************************************)
(* Board, for all callers, ring sizes, frames and numbers of resets: one   *)
(* caller at most gets the memory, a failed init leaves it alone, and what *)
(* is read after the recovered bytes is of the current boot.  The second   *)
(* part is about which messages a full ring, a reset or a recovery may     *)
(* cost, and that the rest can be decoded.                                 *)
(***************************************************************************)
EXTENDS Board, SequenceTheorems, TLAPS

\* A call returns its result when it is done, no earlier.
Returned == \A c \in Callers : pc[c] # "done" => result[c] = "none"

\* Nobody is past the swap that has not happened.
Swapped == ~initialized => \A c \in Callers : ~PastSwap(c)

\* The flag of the logger is set after the producer.
ProducerFirst == \A c \in Callers : pc[c] \in {"activate", "count"} => producer

\* With a bad region no caller gets further than the checks.
Refused ==
    region # "ok" =>
        /\ ~producer
        /\ \A c \in Callers : pc[c] \in {"swap", "check", "done"} /\ result[c] # "ok"

\* The bytes of the frame under way are of this boot.
FrameIsNew == \A i \in 1 .. Len(frame) : frame[i][1] > old

\* Nothing is read before there is a consumer.
Unread == ~HasConsumer => Len(drained) = mark

\* From recovery on, init has seen every byte that is not of this boot.
Counting == \E c \in Callers : pc[c] \in {"producer", "activate", "count"}

OldSeen ==
    Counting \/ HasConsumer =>
        LET read == drained \o ring
        IN \A i \in mark + recovered + 1 .. Len(read) : read[i][1] > old

IInv ==
    /\ TypeOK /\ Returned /\ Swapped /\ OneConsumer /\ ProducerFirst /\ Refused
    /\ FrameIsNew /\ Unread /\ OldSeen

-----------------------------------------------------------------------------
(* Bytes *)

\* The library's facts on concatenation, for bytes.
LEMMA Joined ==
    ASSUME NEW s \in Seq(Byte), NEW t \in Seq(Byte)
    PROVE  /\ s \o t \in Seq(Byte) /\ Len(s \o t) = Len(s) + Len(t)
           /\ \A i \in 1 .. Len(s) + Len(t) :
                  (s \o t)[i] = IF i <= Len(s) THEN s[i] ELSE t[i - Len(s)]
  BY ConcatProperties

LEMMA Regrouped ==
    ASSUME NEW s \in Seq(Byte), NEW t \in Seq(Byte), NEW u \in Seq(Byte)
    PROVE  (s \o t) \o u = s \o (t \o u)
  BY ConcatAssociative

LEMMA FrameIsBytes ==
    ASSUME NEW m \in Nat
    PROVE  /\ Frame(m) \in Seq(Byte) /\ Len(Frame(m)) = Size
           /\ \A i \in 1 .. Len(Frame(m)) : Frame(m)[i][1] = m
  <1>1. Frame(m) \in [1 .. Size -> Byte]
    BY BoardAssumption DEF Frame, Byte
  <1>2. Frame(m) \in Seq(Byte)
    BY <1>1, BoardAssumption, SeqDef
  <1>3. Len(Frame(m)) = Size
    BY <1>1, <1>2, BoardAssumption, LenProperties DEF Frame
  <1>4. \A i \in 1 .. Size : Frame(m)[i][1] = m
    BY BoardAssumption DEF Frame
  <1> QED  BY <1>2, <1>3, <1>4

\* A write appends some of the frame's bytes, none with the logger not
\* initialized and no more than fit.
LEMMA WriteAppends ==
    ASSUME TypeOK, FrameIsNew, WriteAll
    PROVE  /\ \E kept \in Seq(Byte) :
                 /\ ring' = ring \o kept
                 /\ ~active => kept = <<>>
                 /\ Len(ring) + Len(kept) <= capacity
                 /\ \A i \in 1 .. Len(kept) : kept[i][1] > old
           /\ frame' \in Seq(Byte) /\ FrameIsNew'
           /\ stdout' \in Seq(Byte)
  <1>0. PICK k \in 1 .. Len(frame) : \E n \in Kept(k) :
            /\ Outputs(SubSeq(frame, 1, k), n)
            /\ frame' = SubSeq(frame, k + 1, Len(frame))
            /\ old' = old
    BY DEF WriteAll, history
  <1>1. PICK n \in Kept(k) :
            /\ Outputs(SubSeq(frame, 1, k), n)
            /\ frame' = SubSeq(frame, k + 1, Len(frame))
            /\ old' = old
    BY <1>0
  <1> DEFINE piece == SubSeq(frame, 1, k)
             kept  == SubSeq(piece, 1, n)
  <1>2. /\ frame \in Seq(Byte) /\ Len(frame) \in Nat /\ k \in Nat
        /\ ring \in Seq(Byte) /\ Len(ring) \in Nat /\ Len(ring) <= capacity
        /\ capacity \in Nat /\ stdout \in Seq(Byte)
        /\ \A i \in 1 .. Len(frame) : frame[i] \in Byte
    BY LenProperties, ElementOfSeq DEF TypeOK
  <1>3. n \in 0 .. k /\ Len(ring) + n <= capacity /\ (~active => n = 0)
    BY <1>1, <1>2 DEF Kept
  <1>4. /\ piece \in Seq(Byte) /\ Len(piece) = k
        /\ \A i \in 1 .. k : piece[i] = frame[i]
    BY <1>2, SubSeqProperties
  <1>5. /\ kept \in Seq(Byte) /\ Len(kept) = n
        /\ \A i \in 1 .. n : kept[i] = frame[i]
    <2> HIDE DEF piece
    <2>1. \A i \in 1 .. n : piece[i] \in Byte
      BY <1>2, <1>3, <1>4
    <2> QED  BY <2>1, <1>3, <1>4, SubSeqProperties
  <1>6. /\ frame' \in Seq(Byte) /\ Len(frame') = Len(frame) - k
        /\ \A i \in 1 .. Len(frame') : frame'[i] = frame[k + i]
    BY <1>1, <1>2, SubSeqProperties
  <1>7. FrameIsNew'
    BY <1>1, <1>2, <1>6 DEF FrameIsNew
  <1> HIDE DEF piece, kept
  <1>8. stdout' \in Seq(Byte)
    <2>1. stdout \o piece \in Seq(Byte)
      BY <1>2, <1>4, Joined, Zenon
    <2>2. stdout' = stdout \o piece \/ stdout' = piece
      BY <1>1 DEF Outputs, piece
    <2> QED  BY <1>4, <2>1, <2>2
  <1>9. ring' = ring \o kept
    BY <1>1 DEF Outputs, kept, piece
  <1>10. ~active => kept = <<>>
    BY <1>3, <1>5, EmptySeq
  <1>11. \A i \in 1 .. Len(kept) : kept[i][1] > old
    <2>1. \A i \in 1 .. n : i \in 1 .. Len(frame)
      BY <1>2, <1>3
    <2> QED  BY <1>5, <2>1 DEF FrameIsNew
  <1> QED  BY <1>3, <1>5, <1>6, <1>7, <1>8, <1>9, <1>10, <1>11

\* A drain moves bytes from the ring, and changes nothing in their order.
LEMMA DrainMoves ==
    ASSUME TypeOK, NEW used \in 1 .. Len(ring), Drain(used)
    PROVE  /\ ring' \in Seq(Byte) /\ drained' \in Seq(Byte)
           /\ Len(ring') <= Len(ring) /\ Len(drained) <= Len(drained')
           /\ drained' \o ring' = drained \o ring
  <1> DEFINE head == SubSeq(ring, 1, used)
             rest == SubSeq(ring, used + 1, Len(ring))
  <1>1. /\ ring \in Seq(Byte) /\ drained \in Seq(Byte)
        /\ Len(ring) \in Nat /\ used \in Nat
        /\ \A i \in 1 .. Len(ring) : ring[i] \in Byte
    BY LenProperties, ElementOfSeq DEF TypeOK
  <1>2. /\ head \in Seq(Byte) /\ Len(head) = used
        /\ rest \in Seq(Byte) /\ Len(rest) = Len(ring) - used
    BY <1>1, SubSeqProperties
  <1>3. head \o rest = ring
    <2>1. head \o rest = SubSeq(ring, 1, Len(ring))
      BY <1>1, ConcatAdjacentSubSeq
    <2> QED  BY <2>1, <1>1, SubSeqFull
  <1>4. drained' = drained \o head /\ ring' = rest
    BY DEF Drain
  <1> HIDE DEF head, rest
  <1>5. (drained \o head) \o rest = drained \o (head \o rest)
    BY <1>1, <1>2, Regrouped, Zenon
  <1>6. drained' \in Seq(Byte) /\ Len(drained') = Len(drained) + used
    <2>1. drained \o head \in Seq(Byte) /\ Len(drained \o head) = Len(drained) + Len(head)
      BY <1>1, <1>2, Joined, Zenon
    <2> QED  BY <1>2, <1>4, <2>1, Zenon
  <1>7. Len(drained) \in Nat
    BY <1>1, LenProperties
  <1> QED  BY <1>1, <1>2, <1>3, <1>4, <1>5, <1>6, <1>7

-----------------------------------------------------------------------------
(* The invariant *)

LEMMA Initially == Init => IInv
  <1> SUFFICES ASSUME Init PROVE IInv
    OBVIOUS
  <1>1. ring \in Seq(Byte)
    BY FrameIsBytes, EmptySeq DEF Init
  <1>2. TypeOK
    <2>1. <<>> \in Seq(Byte) /\ Len(<<>>) = 0
      BY EmptySeq
    <2>2. /\ frame = <<>> /\ drained = <<>> /\ stdout = <<>> /\ logs = 0 /\ old = 0
          /\ boots = 1 /\ mark = 0 /\ cut = {} /\ recovered = 0
          /\ ~initialized /\ ~producer /\ ~active /\ ~opened
          /\ {initialized, producer, active, opened} \subseteq BOOLEAN
      BY DEF Init
    <2>3. /\ oneCore \in BOOLEAN /\ region \in RegionErrors \cup {"ok"}
          /\ capacity \in Nat /\ Len(ring) <= capacity
          /\ damage \subseteq Fields
      BY BoardAssumption DEF Init, Fields
    <2>4. /\ pc \in [Callers -> {"swap", "check", "recover", "producer", "activate", "count", "done"}]
          /\ result \in [Callers -> Results]
      BY DEF Init, Results
    <2> QED  BY <1>1, <2>1, <2>2, <2>3, <2>4 DEF TypeOK
  <1>3. Returned /\ Swapped /\ OneConsumer /\ ProducerFirst /\ Refused /\ Unread
    BY EmptySeq DEF Init, Returned, Swapped, OneConsumer, PastSwap, ProducerFirst, Refused, Unread
  <1>4. FrameIsNew /\ OldSeen
    BY EmptySeq DEF Init, FrameIsNew, OldSeen, Counting, HasConsumer
  <1> QED  BY <1>2, <1>3, <1>4 DEF IInv

\* The parts of the invariant that tell which caller is where.
CallerInv == Returned /\ Swapped /\ OneConsumer /\ ProducerFirst /\ Refused

LEMMA RecoverKeepsType ==
    ASSUME TypeOK, NEW c \in Callers, Recover(c)
    PROVE  ring' \in Seq(Byte) /\ Len(ring') <= capacity /\ capacity \in Nat
  <1>1. ring \in Seq(Byte) /\ <<>> \in Seq(Byte) /\ Len(<<>>) = 0
    BY EmptySeq DEF TypeOK
  <1>2. capacity \in Nat /\ Len(ring) <= capacity
    BY DEF TypeOK
  <1>3. CASE ring' = ring
    BY <1>1, <1>2, <1>3, Zenon
  <1>4. CASE ring' = <<>>
    <2>1. ring' \in Seq(Byte) /\ Len(ring') = 0
      BY <1>1, <1>4, Zenon
    <2> QED  BY <2>1, <1>2
  <1> QED  BY <1>3, <1>4 DEF Recover

\* Where a call may be.
Steps == {"swap", "check", "recover", "producer", "activate", "count", "done"}

\* A step of a call leaves the other calls where they are.
Alone(c) == \A d \in Callers \ {c} : pc'[d] = pc[d] /\ result'[d] = result[d]

LEMMA GotoMoves ==
    ASSUME TypeOK, NEW c \in Callers, NEW step \in Steps, Goto(c, step)
    PROVE  /\ pc' \in [Callers -> Steps] /\ result' \in [Callers -> Results]
           /\ pc'[c] = step /\ result'[c] = result[c] /\ Alone(c)
  <1>1. pc \in [Callers -> Steps] /\ result \in [Callers -> Results]
    BY DEF TypeOK, Steps
  <1>2. pc' = [pc EXCEPT ![c] = step] /\ result' = result
    BY DEF Goto
  <1> QED  BY <1>1, <1>2 DEF Alone

LEMMA FinishMoves ==
    ASSUME TypeOK, NEW c \in Callers, NEW r \in Results, Finish(c, r)
    PROVE  /\ pc' \in [Callers -> Steps] /\ result' \in [Callers -> Results]
           /\ pc'[c] = "done" /\ result'[c] = r /\ Alone(c)
  <1>1. pc \in [Callers -> Steps] /\ result \in [Callers -> Results] /\ "done" \in Steps
    BY DEF TypeOK, Steps
  <1>2. pc' = [pc EXCEPT ![c] = "done"] /\ result' = [result EXCEPT ![c] = r]
    BY DEF Finish
  <1> QED  BY <1>1, <1>2 DEF Alone

\* A step of the one caller that is past the swap.
LEMMA OwnerStep ==
    ASSUME IInv, NEW c \in Callers, PastSwap(c), Alone(c),
           UNCHANGED <<initialized, region>>,
           pc'[c] # "done" => result'[c] = "none",
           producer => producer',
           pc'[c] \in {"activate", "count"} => producer',
           region # "ok" => /\ ~producer' /\ pc'[c] \in {"swap", "check", "done"}
                            /\ result'[c] # "ok"
    PROVE  CallerInv'
  <1>1. \A d \in Callers \ {c} : ~PastSwap(d)
    BY DEF IInv, OneConsumer
  <1>2. \A d \in Callers \ {c} : ~PastSwap(d)'
    BY <1>1 DEF Alone, PastSwap
  <1>3. Returned'
    BY DEF IInv, Returned, Alone
  <1>4. Swapped'
    BY DEF IInv, Swapped
  <1>5. OneConsumer'
    BY <1>2 DEF OneConsumer
  <1>6. ProducerFirst'
    BY DEF IInv, ProducerFirst, Alone
  <1>7. Refused'
    BY DEF IInv, Refused, Alone
  <1> QED  BY <1>3, <1>4, <1>5, <1>6, <1>7 DEF CallerInv

\* The swap lets a caller past it only when nobody is.
LEMMA SwapStep ==
    ASSUME IInv, NEW c \in Callers, Swap(c)
    PROVE  CallerInv' /\ pc' \in [Callers -> Steps] /\ result' \in [Callers -> Results]
  <1>1. /\ pc[c] = "swap" /\ result[c] = "none" /\ initialized' = TRUE
        /\ UNCHANGED <<region, producer>>
    BY DEF Swap, memory, IInv, Returned
  <1>2. /\ pc' \in [Callers -> Steps] /\ result' \in [Callers -> Results] /\ Alone(c)
        /\ \/ initialized /\ pc'[c] = "done" /\ result'[c] = "already initialized"
           \/ ~initialized /\ pc'[c] = "check" /\ result'[c] = "none"
    <2>1. "check" \in Steps /\ "already initialized" \in Results
      BY DEF Steps, Results
    <2>2. CASE initialized
      BY <2>1, <2>2, FinishMoves DEF IInv, Swap
    <2>3. CASE ~initialized
      BY <1>1, <2>1, <2>3, GotoMoves DEF IInv, Swap
    <2> QED  BY <2>2, <2>3
  <1>3. Returned'
    BY <1>2 DEF IInv, Returned, Alone
  <1>4. Swapped'
    BY <1>1 DEF Swapped
  <1>5. OneConsumer'
    <2>1. \A d \in Callers \ {c} : PastSwap(d)' => PastSwap(d)
      BY <1>2 DEF Alone, PastSwap
    <2>2. CASE initialized
      <3>1. ~PastSwap(c)'
        BY <1>2, <2>2 DEF PastSwap
      <3> QED  BY <2>1, <3>1 DEF IInv, OneConsumer
    <2>3. CASE ~initialized
      BY <2>1, <2>3 DEF IInv, Swapped, OneConsumer
    <2> QED  BY <2>2, <2>3
  <1>6. ProducerFirst'
    BY <1>1, <1>2 DEF IInv, ProducerFirst, Alone
  <1>7. Refused'
    BY <1>1, <1>2 DEF IInv, Refused, Alone
  <1> QED  BY <1>2, <1>3, <1>4, <1>5, <1>6, <1>7 DEF CallerInv

LEMMA CheckStep ==
    ASSUME IInv, NEW c \in Callers, CheckRegion(c)
    PROVE  CallerInv' /\ pc' \in [Callers -> Steps] /\ result' \in [Callers -> Results]
  <1>1. /\ pc[c] = "check" /\ result[c] = "none" /\ PastSwap(c)
        /\ UNCHANGED <<initialized, region, producer>>
    BY DEF CheckRegion, memory, statics, IInv, Returned, PastSwap
  <1>2. /\ pc' \in [Callers -> Steps] /\ result' \in [Callers -> Results] /\ Alone(c)
        /\ \/ region = "ok" /\ pc'[c] = "recover" /\ result'[c] = "none"
           \/ region # "ok" /\ pc'[c] = "done" /\ result'[c] # "ok"
    <2>1. "recover" \in Steps /\ region \in Results
      BY DEF IInv, TypeOK, Steps, Results
    <2>2. CASE region # "ok"
      BY <2>1, <2>2, FinishMoves DEF IInv, CheckRegion
    <2>3. CASE region = "ok"
      BY <1>1, <2>1, <2>3, GotoMoves DEF IInv, CheckRegion
    <2> QED  BY <2>2, <2>3
  <1>3. CallerInv'
    <2>1. region # "ok" => ~producer
      BY DEF IInv, Refused
    <2> QED  BY <1>1, <1>2, <2>1, OwnerStep
  <1> QED  BY <1>2, <1>3

\* The later steps, each at its place, of a caller whose region is right.
LEMMA LaterStep ==
    ASSUME IInv, NEW c \in Callers,
           Recover(c) \/ WriteProducer(c) \/ Activate(c) \/ CountRecovered(c)
    PROVE  CallerInv' /\ pc' \in [Callers -> Steps] /\ result' \in [Callers -> Results]
  <1>1. /\ pc[c] \in {"recover", "producer", "activate", "count"}
        /\ UNCHANGED <<initialized, region>>
        /\ pc[c] = "producer" \/ producer' = producer
        /\ pc[c] = "producer" => producer'
    BY DEF Recover, WriteProducer, Activate, CountRecovered, memory, statics
  <1>2. result[c] = "none" /\ PastSwap(c) /\ region = "ok"
    BY <1>1 DEF IInv, Returned, Refused, PastSwap
  <1>3. /\ pc' \in [Callers -> Steps] /\ result' \in [Callers -> Results] /\ Alone(c)
        /\ \/ pc[c] = "recover" /\ pc'[c] = "producer" /\ result'[c] = "none"
           \/ pc[c] = "producer" /\ pc'[c] = "activate" /\ result'[c] = "none"
           \/ pc[c] = "activate" /\ pc'[c] = "count" /\ result'[c] = "none"
           \/ pc[c] = "count" /\ pc'[c] = "done" /\ result'[c] = "ok"
    <2>1. {"producer", "activate", "count"} \subseteq Steps /\ "ok" \in Results /\ TypeOK
      BY DEF Steps, Results, IInv
    <2>2. CASE Recover(c)
      BY <1>2, <2>1, <2>2, GotoMoves DEF Recover
    <2>3. CASE WriteProducer(c)
      BY <1>2, <2>1, <2>3, GotoMoves DEF WriteProducer
    <2>4. CASE Activate(c)
      BY <1>2, <2>1, <2>4, GotoMoves DEF Activate
    <2>5. CASE CountRecovered(c)
      BY <1>2, <2>1, <2>5, FinishMoves DEF CountRecovered
    <2> QED  BY <2>2, <2>3, <2>4, <2>5
  <1>4. producer => producer'
    BY <1>1
  <1>5. pc[c] \in {"activate", "count"} => producer
    BY DEF IInv, ProducerFirst
  <1>6. pc'[c] \in {"activate", "count"} => producer'
    BY <1>1, <1>3, <1>4, <1>5
  <1>7. pc'[c] # "done" => result'[c] = "none"
    BY <1>3
  <1>8. CallerInv'
    BY <1>1, <1>2, <1>3, <1>4, <1>6, <1>7, OwnerStep
  <1> QED  BY <1>3, <1>8

LEMMA CallerStep ==
    ASSUME IInv, NEW c \in Callers, CallInit(c)
    PROVE  CallerInv' /\ TypeOK'
  <1>1. CallerInv' /\ pc' \in [Callers -> Steps] /\ result' \in [Callers -> Results]
    BY SwapStep, CheckStep, LaterStep DEF CallInit
  <1>2. /\ frame' = frame /\ drained' = drained /\ cut' = cut /\ stdout' = stdout
        /\ oneCore' = oneCore /\ region' = region /\ capacity' = capacity
        /\ UNCHANGED history
    BY DEF CallInit, Swap, CheckRegion, Recover, WriteProducer, Activate, CountRecovered,
           memory, statics
  <1>3. ring' \in Seq(Byte) /\ Len(ring') <= capacity /\ damage' \subseteq Fields
    <2>1. CASE Recover(c)
      <3>1. damage' = {}
        BY <2>1 DEF Recover
      <3> QED  BY <2>1, <3>1, RecoverKeepsType DEF IInv
    <2>2. CASE ring' = ring /\ damage' = damage
      BY <2>2 DEF IInv, TypeOK
    <2> QED  BY <2>1, <2>2
        DEF CallInit, Swap, CheckRegion, WriteProducer, Activate, CountRecovered, memory
  <1>4. recovered' \in Nat
    <2>1. Len(ring) \in Nat /\ recovered \in Nat
      BY LenProperties DEF IInv, TypeOK
    <2>2. Len(ring') \in Nat
      BY <1>3, LenProperties
    <2>3. \/ recovered' \in {recovered, Len(ring), Len(ring')}
          \/ recovered' \in recovered .. Len(ring)
      BY DEF CallInit, Swap, CheckRegion, Recover, WriteProducer, Activate, CountRecovered
    <2> QED  BY <2>1, <2>2, <2>3
  <1>5. {initialized', producer', active', opened'} \subseteq BOOLEAN /\ (active' => producer')
    <2>1. /\ {initialized, producer, active, opened} \subseteq BOOLEAN /\ (active => producer)
          /\ pc[c] = "activate" => producer
      BY DEF IInv, TypeOK, ProducerFirst
    <2>2. CASE Swap(c)
      BY <2>1, <2>2 DEF Swap
    <2>3. CASE WriteProducer(c)
      BY <2>1, <2>3 DEF WriteProducer
    <2>4. CASE Activate(c)
      BY <2>1, <2>4 DEF Activate
    <2>5. CASE UNCHANGED statics
      BY <2>1, <2>5 DEF statics
    <2> QED  BY <2>2, <2>3, <2>4, <2>5 DEF CallInit, CheckRegion, Recover, CountRecovered
  <1>6. /\ oneCore' \in BOOLEAN /\ region' \in RegionErrors \cup {"ok"} /\ capacity' \in Nat
        /\ Len(ring') <= capacity' /\ frame' \in Seq(Byte) /\ drained' \in Seq(Byte)
        /\ stdout' \in Seq(Byte) /\ logs' \in Nat /\ boots' \in Nat
        /\ old' \in 0 .. logs' /\ mark' \in 0 .. Len(drained') /\ cut' \subseteq Nat
    BY <1>2, <1>3 DEF IInv, TypeOK, history
  <1>7. TypeOK'
    BY <1>1, <1>3, <1>4, <1>5, <1>6 DEF TypeOK, Steps
  <1> QED  BY <1>1, <1>7

\* A caller changes the ring, and counts it, only while there is no consumer.
LEMMA CallerReads ==
    ASSUME IInv, NEW c \in Callers, CallInit(c)
    PROVE  FrameIsNew' /\ Unread' /\ OldSeen'
  <1> USE DEF IInv, Goto, Finish, memory, statics, callers, history
  <1>1. frame' = frame /\ old' = old /\ drained' = drained /\ mark' = mark
    BY DEF CallInit, Swap, CheckRegion, Recover, WriteProducer, Activate, CountRecovered
  <1>2. FrameIsNew'
    BY <1>1 DEF FrameIsNew
  <1>3. CASE Recover(c)
    <2>1. ~HasConsumer' /\ ~HasConsumer
      BY <1>3 DEF Recover, HasConsumer, OneConsumer, PastSwap, Returned
    <2>2. Len(drained) = mark /\ recovered' = Len(ring') /\ ring' \in Seq(Byte)
      BY <1>3, <2>1, RecoverKeepsType DEF Unread, Recover
    <2>3. Len(drained \o ring') = mark + Len(ring') /\ mark \in Nat /\ Len(ring') \in Nat
      BY <2>2, ConcatProperties, LenProperties DEF TypeOK
    <2>4. OldSeen'
      BY <1>1, <2>2, <2>3 DEF OldSeen
    <2> QED  BY <1>1, <1>2, <2>1, <2>4 DEF Unread
  <1>4. CASE CountRecovered(c)
    <2>1. ~HasConsumer
      BY <1>4 DEF CountRecovered, HasConsumer, OneConsumer, PastSwap, Returned
    <2>2. HasConsumer'
      BY <1>4 DEF CountRecovered, HasConsumer, TypeOK
    <2>3. Len(ring) \in Nat /\ Len(drained) = mark /\ mark \in Nat /\ recovered \in Nat
      BY <2>1, LenProperties DEF Unread, TypeOK
    <2>4. ring' = ring /\ (recovered' = Len(ring) \/ recovered' \in recovered .. Len(ring))
      BY <1>4 DEF CountRecovered
    <2>5. OldSeen'
      <3>1. Len(drained \o ring) = mark + Len(ring)
        BY <2>3, ConcatProperties DEF TypeOK
      <3>2. Counting
        BY <1>4 DEF Counting, CountRecovered
      <3> DEFINE stream == drained \o ring
      <3>3. \A i \in mark + recovered + 1 .. Len(stream) : stream[i][1] > old
        BY <3>2 DEF OldSeen
      <3>4. Len(stream) = mark + Len(ring) /\ stream' = stream
        BY <1>1, <2>4, <3>1
      <3> HIDE DEF stream
      <3>5. \A i \in mark + recovered' + 1 .. Len(stream) : stream[i][1] > old
        BY <2>3, <2>4, <3>3, <3>4
      <3> QED  BY <1>1, <3>4, <3>5 DEF OldSeen, stream
    <2> QED  BY <1>2, <2>2, <2>5 DEF Unread
  <1>5. CASE Swap(c) \/ CheckRegion(c) \/ WriteProducer(c) \/ Activate(c)
    <2>1. ring' = ring /\ recovered' = recovered
      BY <1>5 DEF Swap, CheckRegion, WriteProducer, Activate
    <2>2. region = "ok" \/ region \in RegionErrors
      BY DEF TypeOK
    <2>3. HasConsumer' <=> HasConsumer
      BY <1>5, <2>2
      DEF Swap, CheckRegion, WriteProducer, Activate, HasConsumer, TypeOK, Returned, RegionErrors
    <2>4. Counting' => Counting
      BY <1>5 DEF Swap, CheckRegion, WriteProducer, Activate, Counting, TypeOK
    <2> QED  BY <1>1, <1>2, <2>1, <2>3, <2>4 DEF Unread, OldSeen
  <1> QED  BY <1>3, <1>4, <1>5 DEF CallInit

\* What leaves the callers alone keeps what tells where they are.
LEMMA CallersStay ==
    ASSUME CallerInv, UNCHANGED <<region, initialized, producer, callers>>
    PROVE  CallerInv'
  BY DEF callers, CallerInv, Returned, Swapped, OneConsumer, PastSwap, ProducerFirst, Refused

LEMMA FrameStep ==
    ASSUME IInv, StartFrame
    PROVE  IInv'
  <1> USE DEF IInv, memory, statics, callers
  <1>1. /\ frame' = Frame(logs + 1) /\ logs' = logs + 1
        /\ logs \in Nat /\ logs + 1 \in Nat /\ old \in 0 .. logs
    BY DEF StartFrame, TypeOK
  <1>2. TypeOK'
    BY <1>1, FrameIsBytes DEF StartFrame, TypeOK
  <1>3. FrameIsNew'
    BY <1>1, FrameIsBytes DEF FrameIsNew, StartFrame
  <1>4. CallerInv'
    BY CallersStay DEF StartFrame, CallerInv
  <1>5. Unread' /\ OldSeen'
    BY DEF StartFrame, Unread, OldSeen, Counting, HasConsumer
  <1> QED  BY <1>2, <1>3, <1>4, <1>5 DEF CallerInv

LEMMA WriteStep ==
    ASSUME IInv, WriteAll
    PROVE  IInv'
  <1> USE DEF IInv, callers, history
  <1>1. PICK kept \in Seq(Byte) :
            /\ ring' = ring \o kept
            /\ Len(ring) + Len(kept) <= capacity
            /\ \A i \in 1 .. Len(kept) : kept[i][1] > old
    BY WriteAppends
  <1>2. frame' \in Seq(Byte) /\ FrameIsNew' /\ stdout' \in Seq(Byte)
    BY WriteAppends
  <1>3. /\ ring \in Seq(Byte) /\ drained \in Seq(Byte)
        /\ Len(ring) \in Nat /\ Len(drained) \in Nat /\ Len(kept) \in Nat
    BY LenProperties DEF TypeOK
  <1>4. ring' \in Seq(Byte) /\ Len(ring') = Len(ring) + Len(kept)
    BY <1>1, <1>3, ConcatProperties
  <1>5. /\ oneCore' = oneCore /\ region' = region /\ capacity' = capacity
        /\ damage' = damage /\ initialized' = initialized /\ producer' = producer
        /\ active' = active /\ opened' = TRUE /\ pc' = pc /\ result' = result
        /\ recovered' = recovered /\ drained' = drained /\ logs' = logs
        /\ boots' = boots /\ old' = old /\ mark' = mark
    BY DEF WriteAll
  <1>6. cut' \subseteq Nat
    BY DEF WriteAll, TypeOK
  <1>7. TypeOK'
    BY <1>1, <1>2, <1>4, <1>5, <1>6 DEF TypeOK
  <1>8. CallerInv'
    BY <1>5, CallersStay DEF CallerInv
  <1>9. Unread'
    BY <1>5 DEF Unread, HasConsumer
  <1>10. OldSeen'
    <2>1. SUFFICES ASSUME Counting \/ HasConsumer, NEW i \in mark + recovered + 1 .. Len(drained \o ring')
                   PROVE  (drained \o ring')[i][1] > old
      BY <1>5 DEF OldSeen, Counting, HasConsumer
    <2>2. (drained \o ring) \o kept = drained \o (ring \o kept)
      BY <1>3, Regrouped, Zenon
    <2>3. drained \o ring' = (drained \o ring) \o kept
      BY <1>1, <2>2
    <2>4. /\ drained \o ring \in Seq(Byte)
          /\ Len(drained \o ring) = Len(drained) + Len(ring)
      BY <1>3, ConcatProperties
    <2> DEFINE read == drained \o ring
    <2> HIDE DEF read
    <2>5. /\ Len(read) \in Nat /\ Len(read \o kept) = Len(read) + Len(kept)
          /\ \A j \in 1 .. Len(read) + Len(kept) : (read \o kept)[j] =
                 IF j <= Len(read) THEN read[j] ELSE kept[j - Len(read)]
      BY <2>4, <1>3, ConcatProperties DEF read
    <2>6. mark \in Nat /\ recovered \in Nat
      BY <1>3 DEF TypeOK
    <2>7. \A j \in mark + recovered + 1 .. Len(read) : read[j][1] > old
      BY <2>1 DEF OldSeen, read
    <2>8. drained \o ring' = read \o kept
      BY <2>3 DEF read
    <2>9. i \in 1 .. Len(read) + Len(kept)
      BY <2>1, <2>5, <2>6, <2>8
    <2>10. CASE i <= Len(read)
      BY <2>5, <2>6, <2>7, <2>8, <2>9, <2>10
    <2>11. CASE i > Len(read)
      <3>1. ~(i <= Len(read)) /\ i - Len(read) \in 1 .. Len(kept)
        BY <1>3, <2>5, <2>9, <2>11
      <3>2. (read \o kept)[i] = kept[i - Len(read)]
        BY <2>5, <2>9, <3>1, Zenon
      <3> QED  BY <1>1, <2>8, <3>1, <3>2, Zenon
    <2> QED  BY <2>5, <2>9, <2>10, <2>11
  <1> QED  BY <1>2, <1>7, <1>8, <1>9, <1>10 DEF CallerInv

LEMMA DrainStep ==
    ASSUME IInv, NEW used \in 1 .. Len(ring), Drain(used)
    PROVE  IInv'
  <1> USE DEF IInv, callers, history, statics
  <1>1. /\ ring' \in Seq(Byte) /\ drained' \in Seq(Byte)
        /\ Len(ring') <= Len(ring) /\ Len(drained) <= Len(drained')
        /\ drained' \o ring' = drained \o ring
    BY DrainMoves
  <1>2. HasConsumer /\ UNCHANGED <<oneCore, region, capacity, damage, statics, callers,
                                   frame, history, cut>>
    BY DEF Drain
  <1>3. /\ Len(ring) \in Nat /\ Len(ring') \in Nat
        /\ Len(drained) \in Nat /\ Len(drained') \in Nat
    BY <1>1, LenProperties DEF TypeOK
  <1>4. TypeOK'
    <2>1. Len(ring') <= capacity /\ mark \in 0 .. Len(drained')
      BY <1>1, <1>3 DEF TypeOK
    <2> QED  BY <1>1, <1>2, <2>1 DEF TypeOK
  <1>5. CallerInv'
    BY <1>2, CallersStay DEF CallerInv
  <1>6. FrameIsNew'
    BY <1>2 DEF FrameIsNew
  <1>7. Unread' /\ OldSeen'
    BY <1>1, <1>2 DEF Unread, OldSeen, Counting, HasConsumer
  <1> QED  BY <1>4, <1>5, <1>6, <1>7 DEF CallerInv

\* A restart forgets all but the memory, and no byte is of the new boot yet.
LEMMA RestartStep ==
    ASSUME IInv, Restart, ring' \in Seq(Byte), Len(ring') <= capacity,
           damage' \subseteq Fields, cut' \subseteq Nat
    PROVE  IInv'
  <1> USE DEF IInv
  <1>1. <<>> \in Seq(Byte) /\ Len(<<>>) = 0 /\ Len(drained) \in Nat
    BY EmptySeq, LenProperties DEF TypeOK
  <1>2. /\ oneCore' = oneCore /\ region' = region /\ capacity' = capacity
        /\ drained' = drained /\ logs' = logs /\ boots' = boots + 1
        /\ old' = logs /\ mark' = Len(drained) /\ frame' = <<>> /\ stdout' = <<>>
        /\ recovered' = 0
        /\ initialized' = FALSE /\ producer' = FALSE /\ active' = FALSE /\ opened' = FALSE
        /\ pc' = [c \in Callers |-> "swap"] /\ result' = [c \in Callers |-> "none"]
    BY DEF Restart
  <1>3. TypeOK'
    <2>1. /\ pc' \in [Callers -> {"swap", "check", "recover", "producer", "activate", "count", "done"}]
          /\ result' \in [Callers -> Results]
      BY <1>2 DEF Results
    <2>2. /\ old' \in 0 .. logs' /\ mark' \in 0 .. Len(drained') /\ boots' \in Nat
          /\ logs' \in Nat /\ capacity' \in Nat
      BY <1>1, <1>2 DEF TypeOK
    <2> QED  BY <1>1, <1>2, <2>1, <2>2 DEF TypeOK
  <1>4. /\ \A c \in Callers : ~PastSwap(c)' /\ result'[c] = "none" /\ pc'[c] = "swap"
        /\ ~HasConsumer' /\ ~Counting'
    BY <1>2 DEF PastSwap, HasConsumer, Counting
  <1>5. Returned' /\ Swapped' /\ OneConsumer' /\ ProducerFirst' /\ Refused'
    BY <1>2, <1>4 DEF Returned, Swapped, OneConsumer, ProducerFirst, Refused
  <1>6. FrameIsNew'
    BY <1>1, <1>2 DEF FrameIsNew
  <1>7. Unread' /\ OldSeen'
    BY <1>2, <1>4 DEF Unread, OldSeen
  <1> QED  BY <1>3, <1>5, <1>6, <1>7

LEMMA ResetStep ==
    ASSUME IInv, Reset
    PROVE  IInv'
  <1>1. ring' \in Seq(Byte) /\ Len(ring') <= capacity
    BY DEF Reset, IInv, TypeOK
  <1>2. damage' \subseteq Fields
    BY DEF Reset, IInv, TypeOK
  <1>3. cut' \subseteq Nat
    <2>1. Messages(ring) \subseteq Nat
      <3>1. \A i \in DOMAIN ring : ring[i] \in Byte
        BY LenProperties, ElementOfSeq DEF IInv, TypeOK
      <3> QED  BY <3>1 DEF Messages, Byte
    <2>2. logs \in Nat /\ cut \subseteq Nat
      BY DEF IInv, TypeOK
    <2> QED  BY <2>1, <2>2 DEF Reset
  <1> QED  BY <1>1, <1>2, <1>3, RestartStep DEF Reset

LEMMA Inductive == IInv /\ [Next]_vars => IInv'
  <1> SUFFICES ASSUME IInv, [Next]_vars PROVE IInv'
    OBVIOUS
  <1>1. ASSUME NEW c \in Callers, CallInit(c) PROVE IInv'
    BY <1>1, CallerStep, CallerReads DEF IInv, CallerInv
  <1>2. CASE logs < MaxLogs /\ StartFrame
    BY <1>2, FrameStep
  <1>3. CASE WriteAll
    BY <1>3, WriteStep
  <1>4. ASSUME NEW used \in 1 .. Len(ring), Drain(used) PROVE IInv'
    BY <1>4, DrainStep
  <1>5. CASE boots < MaxBoots /\ Reset
    BY <1>5, ResetStep
  <1>6. CASE UNCHANGED vars
    BY <1>6 DEF vars, memory, statics, callers, history, IInv, TypeOK, Returned, Swapped,
        OneConsumer, PastSwap, ProducerFirst, Refused, FrameIsNew, Unread, OldSeen,
        Counting, HasConsumer
  <1> QED  BY <1>1, <1>2, <1>3, <1>4, <1>5, <1>6 DEF Next

-----------------------------------------------------------------------------
(* Results *)

\* The invariant holds, and with it the types and all its parts.
LEMMA Invariant == Spec => []IInv
  BY Initially, Inductive, PTL DEF Spec

\* The types hold, and the logger never uses a producer that was not written
\* (src/logger.rs:41, 51).
THEOREM BoardTypes == Spec => []TypeOK
  <1>1. IInv => TypeOK
    BY DEF IInv
  <1> QED  BY <1>1, Invariant, PTL

\* However many callers race for init and whenever the board resets, at most
\* one per boot takes the memory and gets a Consumer (src/lib.rs:73).
THEOREM ExclusiveOwner == Spec => []OneConsumer
  <1>1. IInv => OneConsumer
    BY DEF IInv
  <1> QED  BY <1>1, Invariant, PTL

\* The bytes beyond the first recovered_logs_len ones of a boot are of that
\* boot, for rings of any size, pieces of any length and any reading
\* (src/lib.rs:36).
THEOREM RecoveredLenSeparates == Spec => []CurrentRunKnown
  <1>1. IInv => CurrentRunKnown
    BY DEF IInv, OldSeen, CurrentRunKnown
  <1> QED  BY <1>1, Invariant, PTL

\* An init that fails its checks leaves the memory alone (src/lib.rs:77-90).
THEOREM FailedInitIsHarmless == Spec => FailedInitTouchesNothing
  <1>1. IInv /\ [Next]_vars => [region # "ok" => ring' = ring /\ producer' = FALSE]_vars
    <2> SUFFICES ASSUME IInv, [Next]_vars, region # "ok"
                 PROVE  ring' = ring /\ producer' = FALSE
      OBVIOUS
    <2> USE DEF memory, statics, callers, history
    <2>1. ~producer /\ producer \in BOOLEAN /\ ~active /\ ~HasConsumer
      BY DEF IInv, Refused, TypeOK, HasConsumer
    <2>2. ASSUME NEW c \in Callers, CallInit(c) PROVE ring' = ring /\ producer' = FALSE
      BY <2>1, <2>2
      DEF IInv, Refused, CallInit, Swap, CheckRegion, Recover, WriteProducer, Activate, CountRecovered
    <2>3. CASE StartFrame
      BY <2>1, <2>3 DEF StartFrame
    <2>4. CASE WriteAll
      <3>1. ring' = ring \o <<>>
        BY <2>1, <2>4, WriteAppends DEF IInv
      <3>2. ring \o <<>> = ring
        BY ConcatEmptySeq DEF IInv, TypeOK
      <3> QED  BY <2>1, <2>4, <3>1, <3>2 DEF WriteAll
    <2>5. ASSUME NEW used \in 1 .. Len(ring), Drain(used) PROVE FALSE
      BY <2>1, <2>5 DEF Drain
    <2>6. CASE Reset
      BY <2>6 DEF Reset, Restart
    <2>7. CASE UNCHANGED vars
      BY <2>1, <2>7 DEF vars
    <2> QED  BY <2>2, <2>3, <2>4, <2>5, <2>6, <2>7 DEF Next
  <1> QED  BY <1>1, Invariant, PTL DEF Spec, FailedInitTouchesNothing

-----------------------------------------------------------------------------
(* What a reader gets *)

\* What the consumer has read so far and what it would read next.
Read == drained \o ring

\* How much of the frame under way the encoder has handed over.
Handed == Size - Len(frame)

\* What is left of a frame is its end.
FrameTail ==
    /\ Len(frame) <= Size /\ (Len(frame) > 0 => logs > 0)
    /\ \A i \in 1 .. Len(frame) : frame[i] = <<logs, Handed + i>>

\* A caller that has come further than Activate.
Late(c) == pc[c] = "count" \/ result[c] = "ok"

\* The logger writes, and a consumer reads, only what recovery has gone over.
Recovered ==
    /\ active => \E c \in Callers : Late(c)
    /\ damage # {} =>
          \A c \in Callers : pc[c] \notin {"producer", "activate", "count"} /\ result[c] # "ok"

\* A damaged ring is given up, with all messages that have a byte in it; the
\* message 0 that the first boot may find does not count.
GivenUp ==
    damage # {} =>
        \A i \in 1 .. Len(ring) : ring[i][1] \in cut \/ (ring[i][1] = 0 /\ drained = <<>>)

\* The first n bytes of s are none, or end with message m.
LastIs(s, n, m) == n = 0 \/ s[n] = <<m, Size>>

\* Between frames, a message that was kept ends what there is to read.
Between == Len(frame) = 0 /\ logs \notin cut => LastIs(Read, Len(Read), logs)

\* In a frame of which nothing was lost so far, what was handed over ends what
\* there is to read, right after the message before, if that was kept.
Within ==
    Len(frame) > 0 /\ logs \notin cut =>
        /\ Handed <= Len(Read)
        /\ \A i \in 1 .. Handed : Read[Len(Read) - Handed + i] = <<logs, i>>
        /\ logs - 1 \notin cut => LastIs(Read, Len(Read) - Handed, logs - 1)
        /\ ~active => Handed = 0

\* Decodable, byte by byte.
Found(m, s) ==
    \E i \in 0 .. Len(s) - Size :
        /\ \A k \in 1 .. Size : s[i + k] = <<m, k>>
        /\ i > 0 => s[i][2] = Size

KeptWhole ==
    \A m \in 1 .. logs :
        m \notin cut /\ m - 1 \notin cut /\ (m = logs => Len(frame) = 0) => Found(m, Read)

LossInv == IInv /\ FrameTail /\ Recovered /\ GivenUp /\ Between /\ Within /\ KeptWhole

\* The bytes of s that are not the first of a frame follow the one before.
Chained(s) ==
    \A i \in 1 .. Len(s) : s[i][2] > 1 => i > 1 /\ s[i - 1] = <<s[i][1], s[i][2] - 1>>

\* On one core, the next byte of the frame follows the last one kept, unless
\* it is not kept either.
NextFits ==
    oneCore /\ Len(frame) > 0 /\ Handed > 0 /\ active /\ Len(ring) < capacity =>
        Len(Read) > 0 /\ Read[Len(Read)] = <<logs, Handed>>

TailInv == LossInv /\ (oneCore => Chained(Read)) /\ NextFits

-----------------------------------------------------------------------------
(* Sequences of bytes *)

\* The two parts of what is read, and their bytes.
LEMMA ReadBytes ==
    ASSUME TypeOK
    PROVE  /\ Read \in Seq(Byte) /\ Len(Read) = Len(drained) + Len(ring)
           /\ Len(drained) \in Nat /\ Len(ring) \in Nat /\ Len(frame) \in Nat
           /\ \A i \in 1 .. Len(drained) : Read[i] = drained[i]
           /\ \A i \in 1 .. Len(ring) : Read[Len(drained) + i] = ring[i]
  <1>1. drained \in Seq(Byte) /\ ring \in Seq(Byte) /\ frame \in Seq(Byte)
    BY DEF TypeOK
  <1>2. Len(drained) \in Nat /\ Len(ring) \in Nat /\ Len(frame) \in Nat
    BY <1>1, LenProperties
  <1>3. /\ Read \in Seq(Byte) /\ Len(Read) = Len(drained) + Len(ring)
        /\ \A i \in 1 .. Len(drained) + Len(ring) :
               Read[i] = IF i <= Len(drained) THEN drained[i] ELSE ring[i - Len(drained)]
    <2> DEFINE joined == drained \o ring
    <2>1. /\ joined \in Seq(Byte) /\ Len(joined) = Len(drained) + Len(ring)
          /\ \A i \in 1 .. Len(drained) + Len(ring) :
                 joined[i] = IF i <= Len(drained) THEN drained[i] ELSE ring[i - Len(drained)]
      BY <1>1, Joined
    <2>2. Read = joined
      BY DEF Read
    <2> HIDE DEF joined
    <2> QED  BY <2>1, <2>2
  <1>4. ASSUME NEW i \in 1 .. Len(drained) PROVE Read[i] = drained[i]
    <2>1. i \in 1 .. Len(drained) + Len(ring) /\ i <= Len(drained)
      BY <1>2
    <2> QED  BY <1>3, <2>1, Zenon
  <1>5. ASSUME NEW i \in 1 .. Len(ring) PROVE Read[Len(drained) + i] = ring[i]
    <2>1. /\ Len(drained) + i \in 1 .. Len(drained) + Len(ring)
          /\ ~(Len(drained) + i <= Len(drained))
          /\ (Len(drained) + i) - Len(drained) = i
      BY <1>2
    <2> QED  BY <1>3, <2>1, Zenon
  <1> QED BY <1>2, <1>3, <1>4, <1>5, Zenon

LEMMA NoFrame == TypeOK => (frame = <<>> <=> Len(frame) = 0)
  BY EmptySeq DEF TypeOK

\* What is found in a sequence is found in each that begins with it.
LEMMA FoundGrows ==
    ASSUME NEW m, NEW s, NEW t, Len(s) \in Nat, Len(t) \in Nat, Len(s) <= Len(t),
           \A i \in 1 .. Len(s) : t[i] = s[i], Found(m, s)
    PROVE  Found(m, t)
  <1>1. PICK i \in 0 .. Len(s) - Size :
            /\ \A k \in 1 .. Size : s[i + k] = <<m, k>>
            /\ i > 0 => s[i][2] = Size
    BY DEF Found
  <1>2. Size \in Nat \ {0}
    BY BoardAssumption
  <1>3. i \in 0 .. Len(t) - Size
    BY <1>1, <1>2
  <1>4. \A k \in 1 .. Size : t[i + k] = <<m, k>>
    <2>1. \A k \in 1 .. Size : i + k \in 1 .. Len(s)
      BY <1>1, <1>2
    <2> QED  BY <1>1, <2>1, Zenon
  <1>5. i > 0 => t[i][2] = Size
    <2>1. i > 0 => i \in 1 .. Len(s)
      BY <1>1, <1>2
    <2> QED  BY <1>1, <2>1, Zenon
  <1> QED BY <1>3, <1>4, <1>5 DEF Found

LEMMA FoundIsDecodable ==
    ASSUME NEW m \in Nat, NEW s \in Seq(Byte), Found(m, s)
    PROVE  Decodable(m, s)
  <1>1. PICK i \in 0 .. Len(s) - Size :
            /\ \A k \in 1 .. Size : s[i + k] = <<m, k>>
            /\ i > 0 => s[i][2] = Size
    BY DEF Found
  <1>2. Size \in Nat \ {0} /\ Len(s) \in Nat
    BY BoardAssumption, LenProperties
  <1>3. /\ SubSeq(s, i + 1, i + Size) \in Seq(Byte)
        /\ Len(SubSeq(s, i + 1, i + Size)) = Size
        /\ \A k \in 1 .. Size : SubSeq(s, i + 1, i + Size)[k] = s[i + k]
    <2>1. \A j \in 1 .. Len(s) : s[j] \in Byte
      BY ElementOfSeq
    <2>2. i + 1 \in 1 .. Len(s) + 1 /\ i + Size \in 0 .. Len(s)
      BY <1>1, <1>2
    <2> QED BY <1>1, <1>2, <2>1, <2>2, SubSeqProperties
  <1>4. Frame(m) \in Seq(Byte) /\ Len(Frame(m)) = Size
    BY FrameIsBytes
  <1>5. \A k \in 1 .. Size : Frame(m)[k] = <<m, k>>
    BY DEF Frame
  <1>6. SubSeq(s, i + 1, i + Size) = Frame(m)
    <2> DEFINE t == SubSeq(s, i + 1, i + Size)
    <2>1. \A k \in 1 .. Len(t) : t[k] = Frame(m)[k]
      BY <1>1, <1>3, <1>5
    <2> QED BY <2>1, <1>3, <1>4, SeqEqual
  <1>7. i > 0 => IsDelimiter(s[i])
    BY <1>1 DEF IsDelimiter
  <1> QED BY <1>1, <1>6, <1>7 DEF Decodable
-----------------------------------------------------------------------------
(* What a write does *)

\* Of the next k bytes of the frame the first n are kept, at the end of what
\* there is to read, and the rest is lost; on one core because the ring is full.
Wrote(k, n) ==
    /\ n <= k /\ (~active => n = 0)
    /\ oneCore /\ active /\ n < k => Len(ring') = capacity
    /\ Len(ring) + n <= capacity /\ Len(ring') = Len(ring) + n
    /\ \A i \in 1 .. Len(ring) : ring'[i] = ring[i]
    /\ Len(Read') = Len(Read) + n /\ Read' \in Seq(Byte)
    /\ \A i \in 1 .. Len(Read) : Read'[i] = Read[i]
    /\ \A i \in 1 .. n : Read'[Len(Read) + i] = <<logs, Handed + i>>
    /\ Len(frame') = Len(frame) - k
    /\ \A i \in 1 .. Len(frame') : frame'[i] = frame[k + i]
    /\ cut' = IF n < k THEN cut \cup {logs} ELSE cut
    /\ UNCHANGED <<oneCore, capacity, damage, active, pc, result, drained, logs>>

LEMMA WriteFacts ==
    ASSUME TypeOK, FrameTail, WriteAll
    PROVE  \E k \in 1 .. Len(frame) : \E n \in Nat : Wrote(k, n)
  <1>1. PICK k \in 1 .. Len(frame), n \in Nat :
            /\ n \in Kept(k)
            /\ Outputs(SubSeq(frame, 1, k), n)
            /\ frame' = SubSeq(frame, k + 1, Len(frame))
            /\ cut' = IF n < k THEN cut \cup {logs} ELSE cut
            /\ UNCHANGED <<oneCore, capacity, damage, active, pc, result, drained, logs>>
    <2>1. PICK k \in 1 .. Len(frame) : \E n \in Kept(k) :
            /\ Outputs(SubSeq(frame, 1, k), n)
            /\ frame' = SubSeq(frame, k + 1, Len(frame))
            /\ cut' = IF n < k THEN cut \cup {logs} ELSE cut
            /\ UNCHANGED <<oneCore, capacity, damage, active, pc, result, drained, logs>>
      BY DEF WriteAll, history, callers
    <2>2. PICK n \in Kept(k) :
            /\ Outputs(SubSeq(frame, 1, k), n)
            /\ frame' = SubSeq(frame, k + 1, Len(frame))
            /\ cut' = IF n < k THEN cut \cup {logs} ELSE cut
            /\ UNCHANGED <<oneCore, capacity, damage, active, pc, result, drained, logs>>
      BY <2>1
    <2>3. n \in Nat
      <3>1. Len(ring) \in Nat /\ capacity \in Nat /\ Len(ring) <= capacity /\ k \in Nat
        BY ReadBytes DEF TypeOK
      <3> QED  BY <2>2, <3>1 DEF Kept
    <2> QED  BY <2>2, <2>3
  <1> DEFINE piece == SubSeq(frame, 1, k)
             kept  == SubSeq(piece, 1, n)
  <1>2. /\ frame \in Seq(Byte) /\ Len(frame) \in Nat /\ k \in Nat
        /\ ring \in Seq(Byte) /\ Len(ring) \in Nat /\ Len(ring) <= capacity
        /\ drained \in Seq(Byte) /\ Len(drained) \in Nat
        /\ capacity \in Nat
        /\ \A i \in 1 .. Len(frame) : frame[i] \in Byte
    BY LenProperties, ElementOfSeq DEF TypeOK
  <1>3. /\ n \in 0 .. k /\ Len(ring) + n <= capacity /\ (~active => n = 0)
        /\ oneCore /\ active /\ n < k => Len(ring) + n = capacity
    BY <1>1, <1>2 DEF Kept
  <1>4. /\ piece \in Seq(Byte) /\ Len(piece) = k
        /\ \A i \in 1 .. k : piece[i] = frame[i]
    BY <1>2, SubSeqProperties
  <1>5. /\ kept \in Seq(Byte) /\ Len(kept) = n
        /\ \A i \in 1 .. n : kept[i] = frame[i]
    <2> HIDE DEF piece
    <2>1. \A i \in 1 .. n : piece[i] \in Byte
      BY <1>2, <1>3, <1>4
    <2> QED  BY <2>1, <1>3, <1>4, SubSeqProperties
  <1>6. /\ Len(frame') = Len(frame) - k
        /\ \A i \in 1 .. Len(frame') : frame'[i] = frame[k + i]
    BY <1>1, <1>2, SubSeqProperties
  <1>7. ring' = ring \o kept
    BY <1>1 DEF Outputs
  <1> HIDE DEF piece, kept
  <1>8. /\ Len(ring') = Len(ring) + n
        /\ \A i \in 1 .. Len(ring) : ring'[i] = ring[i]
    <2>1. /\ Len(ring \o kept) = Len(ring) + n
          /\ \A i \in 1 .. Len(ring) + n :
                 (ring \o kept)[i] = IF i <= Len(ring) THEN ring[i] ELSE kept[i - Len(ring)]
      BY <1>2, <1>5, ConcatProperties
    <2>2. \A i \in 1 .. Len(ring) : (ring \o kept)[i] = ring[i]
      BY <1>2, <2>1
    <2> QED  BY <1>7, <2>1, <2>2
  <1>9. Read' = Read \o kept
    <2>1. (drained \o ring) \o kept = drained \o (ring \o kept)
      BY <1>2, <1>5, Regrouped, Zenon
    <2>2. Read' = drained \o (ring \o kept)
      BY <1>1, <1>7 DEF Read
    <2> QED  BY <2>1, <2>2 DEF Read
  <1>10. Read \in Seq(Byte) /\ Len(Read) \in Nat
    BY ReadBytes, LenProperties
  <1>11. /\ Len(Read') = Len(Read) + n /\ Read' \in Seq(Byte)
         /\ \A i \in 1 .. Len(Read) + n :
                Read'[i] = IF i <= Len(Read) THEN Read[i] ELSE kept[i - Len(Read)]
    <2>1. /\ Read \o kept \in Seq(Byte) /\ Len(Read \o kept) = Len(Read) + Len(kept)
          /\ \A i \in 1 .. Len(Read) + Len(kept) :
                 (Read \o kept)[i] = IF i <= Len(Read) THEN Read[i] ELSE kept[i - Len(Read)]
      BY <1>5, <1>10, Joined
    <2>2. Len(kept) = n
      BY <1>5
    <2> DEFINE joined == Read \o kept
    <2>3. /\ joined \in Seq(Byte) /\ Len(joined) = Len(Read) + n
          /\ \A i \in 1 .. Len(Read) + n :
                 joined[i] = IF i <= Len(Read) THEN Read[i] ELSE kept[i - Len(Read)]
      BY <2>1, <2>2, Zenon
    <2>4. Read' = joined
      BY <1>9
    <2> HIDE DEF joined
    <2> QED  BY <2>3, <2>4, Zenon
  <1>12. \A i \in 1 .. Len(Read) : Read'[i] = Read[i]
    BY <1>3, <1>10, <1>11
  <1>13. \A i \in 1 .. n : Read'[Len(Read) + i] = <<logs, Handed + i>>
    <2>1. \A i \in 1 .. n : Read'[Len(Read) + i] = kept[i]
      <3>1. \A i \in 1 .. n : /\ Len(Read) + i \in 1 .. Len(Read) + n
                             /\ ~(Len(Read) + i <= Len(Read))
                             /\ (Len(Read) + i) - Len(Read) = i
        BY <1>3, <1>10
      <3> QED  BY <1>11, <3>1, Zenon
    <2>2. \A i \in 1 .. n : kept[i] = <<logs, Handed + i>>
      <3>1. \A i \in 1 .. n : kept[i] = frame[i] /\ i \in 1 .. Len(frame)
        BY <1>2, <1>3, <1>5
      <3> QED  BY <3>1 DEF FrameTail
    <2> QED  BY <2>1, <2>2
  <1>14. Wrote(k, n)
    <2>1. n <= k /\ (oneCore /\ active /\ n < k => Len(ring') = capacity)
      BY <1>3, <1>8
    <2> QED  BY <2>1, <1>1, <1>3, <1>6, <1>8, <1>11, <1>12, <1>13, Zenon DEF Wrote
  <1> QED  BY <1>14
-----------------------------------------------------------------------------
(* The messages that are lost *)

LossParts == FrameTail /\ Recovered /\ GivenUp /\ Between /\ Within /\ KeptWhole

LEMMA WriteKeepsTail ==
    ASSUME TypeOK, FrameTail, NEW k \in 1 .. Len(frame), NEW n \in Nat, Wrote(k, n)
    PROVE  FrameTail' /\ Handed' = Handed + k /\ Handed \in Nat
  <1>1. Len(frame) \in Nat /\ Size \in Nat /\ Len(frame) <= Size
    BY ReadBytes, BoardAssumption DEF FrameTail
  <1>2. /\ Len(frame') = Len(frame) - k /\ logs' = logs
        /\ \A i \in 1 .. Len(frame') : frame'[i] = frame[k + i]
    BY DEF Wrote
  <1>3. Handed' = Handed + k /\ Handed \in Nat
    BY <1>1, <1>2 DEF Handed
  <1>4. \A i \in 1 .. Len(frame') : frame'[i] = <<logs, Handed + k + i>>
    <2>1. SUFFICES ASSUME NEW i \in 1 .. Len(frame')
                   PROVE  frame'[i] = <<logs, Handed + k + i>>
      OBVIOUS
    <2>2. k + i \in 1 .. Len(frame) /\ Handed + (k + i) = Handed + k + i
      BY <1>1, <1>2, <1>3
    <2>3. frame[k + i] = <<logs, Handed + (k + i)>>
      BY <2>2 DEF FrameTail
    <2> QED  BY <1>2, <2>2, <2>3
  <1>5. \A i \in 1 .. Len(frame') : frame'[i] = <<logs', Handed' + i>>
    BY <1>2, <1>3, <1>4
  <1>6. Len(frame') <= Size /\ (Len(frame') > 0 => logs' > 0)
    BY <1>1, <1>2 DEF FrameTail
  <1> QED  BY <1>3, <1>5, <1>6 DEF FrameTail

\* Nothing is written to a ring that is damaged.
LEMMA WriteKeepsGivenUp ==
    ASSUME TypeOK, Recovered, GivenUp,
           NEW k \in 1 .. Len(frame), NEW n \in Nat, Wrote(k, n)
    PROVE  Recovered' /\ GivenUp'
  <1>1. /\ UNCHANGED <<damage, active, pc, result, drained>> /\ cut \subseteq cut'
        /\ (~active => n = 0)
    BY DEF Wrote
  <1>2. Recovered'
    BY <1>1 DEF Recovered, Late
  <1>3. SUFFICES ASSUME damage # {}
                 PROVE  \A i \in 1 .. Len(ring') :
                            ring'[i][1] \in cut \/ (ring'[i][1] = 0 /\ drained = <<>>)
    BY <1>1, <1>2 DEF GivenUp
  <1>4. n = 0
    BY <1>1, <1>3 DEF Recovered, Late
  <1>5. Len(ring') = Len(ring)
    <2>1. Len(ring') = Len(ring) + n /\ Len(ring) \in Nat
      BY ReadBytes DEF Wrote
    <2> QED  BY <2>1, <1>4
  <1>6. \A i \in 1 .. Len(ring') : ring'[i] = ring[i]
    BY <1>5 DEF Wrote
  <1> QED  BY <1>3, <1>5, <1>6 DEF GivenUp

LEMMA WriteKeepsWhole ==
    ASSUME TypeOK, LossParts, FrameTail',
           NEW k \in 1 .. Len(frame), NEW n \in Nat, Wrote(k, n)
    PROVE  Between' /\ Within' /\ KeptWhole'
  <1>1. /\ Len(frame) \in Nat /\ Len(Read) \in Nat /\ Size \in Nat \ {0} /\ k \in Nat
        /\ logs \in Nat /\ Len(frame) <= Size
    BY ReadBytes, BoardAssumption DEF TypeOK, LossParts, FrameTail
  <1>2. Handed' = Handed + k /\ Handed \in Nat
    BY WriteKeepsTail DEF LossParts
  <1>3. /\ n <= k /\ (~active => n = 0)
        /\ Len(Read') = Len(Read) + n
        /\ \A i \in 1 .. Len(Read) : Read'[i] = Read[i]
        /\ \A i \in 1 .. n : Read'[Len(Read) + i] = <<logs, Handed + i>>
        /\ Len(frame') = Len(frame) - k
        /\ cut' = IF n < k THEN cut \cup {logs} ELSE cut
        /\ logs' = logs /\ active' = active
    BY DEF Wrote
  <1>4. logs \notin cut' => n = k /\ cut' = cut
    BY <1>1, <1>3
  <1>5. Handed = Size - Len(frame)
    BY DEF Handed
  <1>6. Between'
    <2>1. SUFFICES ASSUME Len(frame') = 0, logs \notin cut'
                   PROVE  Read'[Len(Read')] = <<logs, Size>>
      BY <1>3 DEF Between, LastIs
    <2>2. n = k /\ k = Len(frame) /\ Len(Read') = Len(Read) + k
      BY <1>1, <1>3, <1>4, <2>1
    <2>3. Read'[Len(Read) + k] = <<logs, Handed + k>>
      BY <1>1, <1>3, <2>2
    <2>4. Handed + k = Size
      BY <1>1, <1>5, <2>2
    <2> QED  BY <2>2, <2>3, <2>4
  <1>7. ASSUME logs \notin cut'
        PROVE  /\ Handed <= Len(Read) /\ Len(Read') = Len(Read) + k
               /\ Len(Read') - Handed' = Len(Read) - Handed
               /\ \A i \in 1 .. Handed + k : Read'[Len(Read) - Handed + i] = <<logs, i>>
               /\ logs - 1 \notin cut => LastIs(Read', Len(Read) - Handed, logs - 1)
    <2>1. n = k /\ logs \notin cut
      BY <1>4, <1>7
    <2>2. /\ Handed <= Len(Read)
          /\ \A i \in 1 .. Handed : Read[Len(Read) - Handed + i] = <<logs, i>>
          /\ logs - 1 \notin cut => LastIs(Read, Len(Read) - Handed, logs - 1)
      BY <1>1, <2>1 DEF LossParts, Within
    <2>3. ASSUME NEW i \in 1 .. Handed
          PROVE  Read'[Len(Read) - Handed + i] = <<logs, i>>
      <3>1. Len(Read) - Handed + i \in 1 .. Len(Read)
        <4>1. Len(Read) \in Nat /\ Handed \in Nat /\ Handed <= Len(Read)
          BY <1>1, <1>2, <2>2, Zenon
        <4> QED  BY <4>1
      <3>2. Read'[Len(Read) - Handed + i] = Read[Len(Read) - Handed + i]
        BY <1>3, <3>1, Zenon
      <3> QED  BY <2>2, <3>2, Zenon
    <2>4. ASSUME NEW i \in Handed + 1 .. Handed + k
          PROVE  Read'[Len(Read) - Handed + i] = <<logs, i>>
      <3>1. i - Handed \in 1 .. n /\ i \in Nat
        BY <1>1, <1>2, <2>1
      <3>2. Read'[Len(Read) + (i - Handed)] = <<logs, Handed + (i - Handed)>>
        BY <1>3, <3>1
      <3>3. /\ Len(Read) + (i - Handed) = Len(Read) - Handed + i
            /\ Handed + (i - Handed) = i
        BY <1>1, <1>2, <3>1
      <3> QED  BY <3>2, <3>3
    <2>5. \A i \in 1 .. Handed + k : Read'[Len(Read) - Handed + i] = <<logs, i>>
      BY <1>1, <1>2, <2>3, <2>4
    <2>6. logs - 1 \notin cut => LastIs(Read', Len(Read) - Handed, logs - 1)
      <3> DEFINE p == Len(Read) - Handed
      <3>1. p \in 0 .. Len(Read)
        BY <1>1, <1>2, <2>2
      <3>2. p # 0 => Read'[p] = Read[p]
        <4>1. \A i \in 1 .. Len(Read) : Read'[i] = Read[i]
          BY <1>3
        <4> HIDE DEF p
        <4> QED  BY <1>1, <3>1, <4>1
      <3> HIDE DEF p
      <3>3. LastIs(Read, p, logs - 1) => LastIs(Read', p, logs - 1)
        BY <3>2, Zenon DEF LastIs
      <3> QED  BY <2>2, <3>3, Zenon DEF p
    <2>7. Len(Read') = Len(Read) + k /\ Len(Read') - Handed' = Len(Read) - Handed
      BY <1>1, <1>2, <1>3, <2>1
    <2> QED  BY <2>2, <2>5, <2>6, <2>7
  <1>8. Within'
    <2>1. SUFFICES ASSUME Len(frame') > 0, logs \notin cut'
                   PROVE  /\ Handed' <= Len(Read')
                          /\ \A i \in 1 .. Handed' : Read'[Len(Read') - Handed' + i] = <<logs, i>>
                          /\ logs - 1 \notin cut' =>
                                 LastIs(Read', Len(Read') - Handed', logs - 1)
                          /\ active
      BY <1>3 DEF Within
    <2>2. active
      BY <1>1, <1>3, <1>4, <2>1
    <2>3. Handed' <= Len(Read')
      BY <1>1, <1>2, <1>7, <2>1
    <2>4. \A i \in 1 .. Handed' : Read'[Len(Read') - Handed' + i] = <<logs, i>>
      BY <1>2, <1>7, <2>1
    <2>5. logs - 1 \notin cut' => LastIs(Read', Len(Read') - Handed', logs - 1)
      BY <1>4, <1>7, <2>1
    <2> QED  BY <2>2, <2>3, <2>4, <2>5
  <1>9. KeptWhole'
    <2>1. SUFFICES ASSUME NEW m \in 1 .. logs, m \notin cut', m - 1 \notin cut',
                          m = logs => Len(frame') = 0
                   PROVE  Found(m, Read')
      BY <1>3 DEF KeptWhole
    <2>2. cut \subseteq cut'
      BY <1>3
    <2>3. CASE m # logs
      <3>1. Found(m, Read)
        BY <2>1, <2>2, <2>3 DEF LossParts, KeptWhole
      <3>2. Len(Read') \in Nat /\ Len(Read) <= Len(Read')
        BY <1>1, <1>3
      <3>3. \A i \in 1 .. Len(Read) : Read'[i] = Read[i]
        BY <1>3
      <3> QED  BY <1>1, <3>1, <3>2, <3>3, FoundGrows
    <2>4. CASE m = logs
      <3> DEFINE p == Len(Read) - Handed
      <3>1. Handed + k = Size
        <4>1. Len(frame') = 0 /\ Len(frame') = Len(frame) - k
          BY <1>3, <2>1, <2>4, Zenon
        <4> QED  BY <1>1, <1>5, <4>1
      <3>2. p \in Nat /\ p + Size = Len(Read')
        <4>1. Handed <= Len(Read) /\ Len(Read') = Len(Read) + k
          BY <1>7, <2>1, <2>4
        <4> QED  BY <1>1, <1>2, <3>1, <4>1
      <3>3. \A i \in 1 .. Size : Read'[p + i] = <<m, i>>
        BY <1>7, <2>1, <2>4, <3>1
      <3>4. LastIs(Read', p, m - 1)
        BY <1>4, <1>7, <2>1, <2>4
      <3> HIDE DEF p
      <3>5. p > 0 => Read'[p][2] = Size
        BY <3>2, <3>4 DEF LastIs
      <3>6. p \in 0 .. Len(Read') - Size
        BY <1>1, <3>2
      <3> QED  BY <3>3, <3>5, <3>6 DEF Found
    <2> QED  BY <2>3, <2>4
  <1> QED  BY <1>6, <1>8, <1>9
LEMMA LossInitially == Init => LossInv
  <1> SUFFICES ASSUME Init PROVE LossInv
    OBVIOUS
  <1>1. IInv
    BY Initially
  <1>2. /\ frame = <<>> /\ drained = <<>> /\ logs = 0 /\ ring \in {<<>>, Frame(0)}
        /\ ~active /\ \A c \in Callers : pc[c] = "swap" /\ result[c] = "none"
    BY DEF Init
  <1>3. /\ Len(frame) = 0 /\ Len(drained) = 0 /\ Size \in Nat \ {0}
        /\ Len(Read) = Len(ring) /\ Len(ring) \in Nat
        /\ \A i \in 1 .. Len(ring) : Read[i] = ring[i]
    <2>1. Len(frame) = 0 /\ Len(drained) = 0 /\ Size \in Nat \ {0}
      BY <1>2, EmptySeq, BoardAssumption
    <2>2. /\ Len(Read) = Len(drained) + Len(ring) /\ Len(ring) \in Nat
          /\ \A i \in 1 .. Len(ring) : Read[Len(drained) + i] = ring[i]
      BY <1>1, ReadBytes DEF IInv
    <2> QED  BY <2>1, <2>2
  <1>4. /\ Len(ring) \in {0, Size}
        /\ \A i \in 1 .. Len(ring) : ring[i] = <<0, i>>
    <2>1. CASE ring = <<>>
      BY <1>3, <2>1, EmptySeq
    <2>2. CASE ring = Frame(0)
      BY <1>3, <2>2, FrameIsBytes DEF Frame
    <2> QED  BY <1>2, <2>1, <2>2
  <1>5. FrameTail /\ Recovered /\ GivenUp
    BY <1>2, <1>3, <1>4 DEF FrameTail, Recovered, GivenUp
  <1>6. Between /\ Within /\ KeptWhole
    <2>1. LastIs(Read, Len(Read), logs)
      BY <1>2, <1>3, <1>4 DEF LastIs
    <2> QED  BY <1>2, <1>3, <2>1 DEF Between, Within, KeptWhole
  <1> QED  BY <1>1, <1>5, <1>6 DEF LossInv

LEMMA LossWrite ==
    ASSUME LossInv, WriteAll
    PROVE  LossParts'
  <1>1. TypeOK /\ LossParts
    BY DEF LossInv, LossParts, IInv
  <1>2. PICK k \in 1 .. Len(frame), n \in Nat : Wrote(k, n)
    BY <1>1, WriteFacts DEF LossParts
  <1>3. FrameTail'
    BY <1>1, <1>2, WriteKeepsTail DEF LossParts
  <1>4. Recovered' /\ GivenUp'
    BY <1>1, <1>2, WriteKeepsGivenUp DEF LossParts
  <1>5. Between' /\ Within' /\ KeptWhole'
    BY <1>1, <1>2, <1>3, WriteKeepsWhole
  <1> QED  BY <1>3, <1>4, <1>5 DEF LossParts

LEMMA LossStart ==
    ASSUME LossInv, StartFrame
    PROVE  LossParts'
  <1> USE DEF LossInv
  <1>1. TypeOK /\ Size \in Nat \ {0}
    BY BoardAssumption DEF IInv
  <1>2. /\ logs \in Nat /\ logs' = logs + 1 /\ frame' = Frame(logs + 1) /\ Len(frame) = 0
        /\ UNCHANGED <<active, damage, pc, result, ring, drained, cut>> /\ Read' = Read
    BY <1>1, NoFrame DEF StartFrame, memory, statics, callers, TypeOK, Read
  <1>3. Len(frame') = Size /\ Handed' = 0
    BY <1>1, <1>2, FrameIsBytes DEF Handed
  <1>4. Len(Read) \in Nat
    BY <1>1, ReadBytes
  <1>5. FrameTail'
    <2>1. \A i \in 1 .. Size : frame'[i] = <<logs', i>>
      BY <1>2 DEF Frame
    <2> QED  BY <1>1, <1>2, <1>3, <2>1 DEF FrameTail
  <1>6. Recovered' /\ GivenUp'
    BY <1>2 DEF Recovered, Late, GivenUp
  <1>7. Between'
    BY <1>1, <1>3 DEF Between
  <1>8. Within'
    <2>1. logs' - 1 = logs /\ Len(Read) - 0 = Len(Read)
      BY <1>2, <1>4
    <2>2. logs' - 1 \notin cut' => LastIs(Read', Len(Read') - Handed', logs' - 1)
      BY <1>2, <1>3, <2>1 DEF Between
    <2> QED  BY <1>2, <1>3, <1>4, <2>2 DEF Within
  <1>9. KeptWhole'
    <2>1. SUFFICES ASSUME NEW m \in 1 .. logs + 1, m \notin cut, m - 1 \notin cut,
                          m = logs + 1 => Len(frame') = 0
                   PROVE  Found(m, Read)
      BY <1>2 DEF KeptWhole
    <2>2. m \in 1 .. logs
      BY <1>1, <1>2, <1>3, <2>1
    <2> QED  BY <1>2, <2>1, <2>2 DEF KeptWhole
  <1> QED  BY <1>5, <1>6, <1>7, <1>8, <1>9 DEF LossParts

LEMMA LossDrain ==
    ASSUME LossInv, NEW used \in 1 .. Len(ring), Drain(used)
    PROVE  LossParts'
  <1> USE DEF LossInv
  <1>1. Read' = Read
    BY DrainMoves DEF IInv, Read
  <1>2. /\ HasConsumer
        /\ UNCHANGED <<active, damage, pc, result, frame, logs, cut>>
    BY DEF Drain, statics, callers, history
  <1>3. FrameTail'
    BY <1>2 DEF FrameTail, Handed
  <1>4. Recovered' /\ GivenUp'
    <2>1. damage = {}
      BY <1>2 DEF HasConsumer, Recovered
    <2> QED  BY <1>2, <2>1 DEF Recovered, Late, GivenUp
  <1>5. Between' /\ Within'
    BY <1>1, <1>2 DEF Between, Within, Handed
  <1>6. KeptWhole'
    BY <1>1, <1>2 DEF KeptWhole
  <1> QED  BY <1>3, <1>4, <1>5, <1>6 DEF LossParts

\* A reset costs the message under way, and all in a ring that it damages.
LEMMA LossReset ==
    ASSUME LossInv, Reset
    PROVE  LossParts'
  <1> USE DEF LossInv
  <1>1. TypeOK /\ Size \in Nat \ {0}
    BY BoardAssumption DEF IInv
  <1>2. /\ Read' = Read /\ ring' = ring /\ logs' = logs /\ frame' = <<>> /\ active' = FALSE
        /\ \A c \in Callers : pc'[c] = "swap" /\ result'[c] = "none"
    BY DEF Reset, Restart, Read
  <1>3. /\ cut \subseteq cut' /\ (frame # <<>> => logs \in cut')
        /\ (damage' # {} => Messages(ring) \subseteq cut')
    BY DEF Reset
  <1>4. Len(frame') = 0
    BY <1>2, EmptySeq
  <1>5. FrameTail'
    BY <1>1, <1>4 DEF FrameTail
  <1>6. Recovered'
    BY <1>2 DEF Recovered
  <1>7. GivenUp'
    <2>1. DOMAIN ring = 1 .. Len(ring)
      BY <1>1, LenProperties DEF TypeOK
    <2>2. \A i \in 1 .. Len(ring) : ring[i][1] \in Messages(ring)
      BY <2>1 DEF Messages
    <2> QED  BY <1>2, <1>3, <2>2 DEF GivenUp
  <1>8. logs \notin cut' => Len(frame) = 0
    BY <1>1, <1>3, NoFrame
  <1>9. Between' /\ Within'
    BY <1>2, <1>3, <1>4, <1>8 DEF Between, Within
  <1>10. KeptWhole'
    BY <1>2, <1>3, <1>8 DEF KeptWhole
  <1> QED  BY <1>5, <1>6, <1>7, <1>9, <1>10 DEF LossParts

\* What recovery gives up was not the last of what was kept.
LEMMA GivenUpEnds ==
    ASSUME TypeOK, GivenUp, damage # {}, NEW m \in Nat, m \notin cut,
           LastIs(Read, Len(Read), m)
    PROVE  LastIs(drained, Len(drained), m)
  <1>1. /\ Len(Read) = Len(drained) + Len(ring)
        /\ Len(drained) \in Nat /\ Len(ring) \in Nat
        /\ \A i \in 1 .. Len(drained) : Read[i] = drained[i]
        /\ \A i \in 1 .. Len(ring) : Read[Len(drained) + i] = ring[i]
    BY ReadBytes
  <1>2. CASE Len(ring) = 0
    BY <1>1, <1>2 DEF LastIs
  <1>3. CASE Len(ring) > 0
    <2>1. Len(ring) \in 1 .. Len(ring) /\ Len(Read) # 0
      BY <1>1, <1>3
    <2>2. ring[Len(ring)] = <<m, Size>>
      BY <1>1, <2>1 DEF LastIs
    <2>3. ring[Len(ring)][1] = m
      BY <2>2
    <2>4. drained = <<>>
      BY <2>1, <2>3 DEF GivenUp
    <2>5. Len(drained) = 0
      BY <2>4, EmptySeq
    <2> QED  BY <2>5 DEF LastIs
  <1> QED  BY <1>1, <1>2, <1>3

\* A message that was kept has no byte in what recovery gives up.
LEMMA GivenUpLosesNone ==
    ASSUME TypeOK, GivenUp, damage # {}, NEW m \in Nat \ {0}, m \notin cut, Found(m, Read)
    PROVE  Found(m, drained)
  <1>1. /\ Len(Read) = Len(drained) + Len(ring)
        /\ Len(drained) \in Nat /\ Len(ring) \in Nat /\ Size \in Nat \ {0}
        /\ \A i \in 1 .. Len(drained) : Read[i] = drained[i]
        /\ \A i \in 1 .. Len(ring) : Read[Len(drained) + i] = ring[i]
    BY ReadBytes, BoardAssumption
  <1>2. PICK i \in 0 .. Len(Read) - Size :
            /\ \A k \in 1 .. Size : Read[i + k] = <<m, k>>
            /\ i > 0 => Read[i][2] = Size
    BY DEF Found
  <1>3. i + Size <= Len(drained)
    <2>1. SUFFICES ASSUME i + Size > Len(drained) PROVE FALSE
      BY <1>1, <1>2
    <2> DEFINE j == i + Size - Len(drained)
    <2>2. j \in 1 .. Len(ring) /\ Len(drained) + j = i + Size
      BY <1>1, <1>2, <2>1
    <2>3. ring[j] = <<m, Size>>
      <3>1. Read[i + Size] = <<m, Size>>
        BY <1>1, <1>2
      <3>2. Read[Len(drained) + j] = ring[j]
        BY <1>1, <2>2
      <3> HIDE DEF j
      <3> QED  BY <2>2, <3>1, <3>2
    <2> HIDE DEF j
    <2>4. ring[j][1] = m
      BY <2>3
    <2> QED  BY <2>2, <2>4 DEF GivenUp
  <1>4. ASSUME NEW k \in 1 .. Size PROVE drained[i + k] = <<m, k>>
    <2>1. i + k \in 1 .. Len(drained)
      BY <1>1, <1>2, <1>3
    <2>2. Read[i + k] = drained[i + k]
      BY <1>1, <2>1, Zenon
    <2> QED  BY <1>2, <2>2
  <1>5. i > 0 => drained[i][2] = Size
    BY <1>1, <1>2, <1>3
  <1>6. i \in 0 .. Len(drained) - Size
    BY <1>1, <1>2, <1>3
  <1> QED  BY <1>4, <1>5, <1>6 DEF Found

\* Recovery runs before the logger writes, and gives up nothing that was kept.
LEMMA LossRecover ==
    ASSUME LossInv, NEW c \in Callers, Recover(c)
    PROVE  LossParts'
  <1> USE DEF LossInv, IInv
  <1>1. /\ UNCHANGED <<active, frame, drained, logs, cut>> /\ damage' = {}
        /\ ring' = IF damage = {} THEN ring ELSE <<>>
    BY DEF Recover, statics, history
  <1>2. ~active
    BY DEF Recover, OneConsumer, PastSwap, Returned, Recovered, Late
  <1>3. FrameTail' /\ Recovered' /\ GivenUp'
    BY <1>1, <1>2 DEF FrameTail, Handed, Recovered, GivenUp
  <1>4. CASE damage = {}
    <2>1. Read' = Read
      BY <1>1, <1>4 DEF Read
    <2> QED  BY <1>1, <1>3, <2>1 DEF LossParts, Between, Within, Handed, KeptWhole
  <1>5. CASE damage # {}
    <2>1. Read' = drained
      BY <1>1, <1>5, ConcatEmptySeq DEF Read, TypeOK
    <2>2. /\ logs \in Nat /\ (Len(frame) > 0 => logs - 1 \in Nat)
          /\ Len(drained) \in Nat /\ Len(Read) \in Nat
      BY ReadBytes DEF TypeOK, FrameTail
    <2>3. Between'
      BY <1>1, <1>5, <2>1, <2>2, GivenUpEnds DEF Between
    <2>4. Within'
      <3>1. SUFFICES ASSUME Len(frame) > 0, logs \notin cut
                     PROVE  /\ Handed <= Len(drained) /\ Handed = 0
                            /\ logs - 1 \notin cut => LastIs(drained, Len(drained) - Handed, logs - 1)
        <4>1. Handed' = Handed
          BY <1>1 DEF Handed
        <4> QED  BY <1>1, <1>2, <2>1, <4>1 DEF Within
      <3>2. Handed = 0
        BY <1>2, <3>1 DEF Within
      <3>3. logs - 1 \notin cut => LastIs(Read, Len(Read), logs - 1)
        BY <2>2, <3>1, <3>2 DEF Within
      <3>4. logs - 1 \notin cut => LastIs(drained, Len(drained), logs - 1)
        BY <1>5, <2>2, <3>1, <3>3, GivenUpEnds
      <3> QED  BY <2>2, <3>2, <3>4
    <2>5. KeptWhole'
      <3>1. SUFFICES ASSUME NEW m \in 1 .. logs, m \notin cut, m - 1 \notin cut,
                            m = logs => Len(frame) = 0
                     PROVE  Found(m, drained)
        BY <1>1, <2>1 DEF KeptWhole
      <3>2. Found(m, Read) /\ m \in Nat \ {0}
        BY <2>2, <3>1 DEF KeptWhole
      <3> QED  BY <1>5, <3>1, <3>2, GivenUpLosesNone
    <2> QED  BY <1>3, <2>3, <2>4, <2>5 DEF LossParts
  <1> QED  BY <1>4, <1>5

\* The other steps of init leave the memory alone.
LEMMA LossCaller ==
    ASSUME LossInv, NEW c \in Callers,
           Swap(c) \/ CheckRegion(c) \/ WriteProducer(c) \/ Activate(c) \/ CountRecovered(c)
    PROVE  LossParts'
  <1> USE DEF LossInv, IInv
  <1>1. /\ UNCHANGED <<ring, damage, frame, drained, logs, cut>> /\ (active => active')
        /\ Read' = Read /\ Handed' = Handed
    <2> USE DEF memory, statics, history
    <2>1. UNCHANGED <<ring, damage, frame, drained, logs, cut>>
      BY DEF Swap, CheckRegion, WriteProducer, Activate, CountRecovered
    <2>2. active => active'
      BY Zenon DEF Swap, CheckRegion, WriteProducer, Activate, CountRecovered
    <2> QED  BY <2>1, <2>2 DEF Read, Handed
  <1>2. FrameTail' /\ GivenUp' /\ Between' /\ Within' /\ KeptWhole'
    BY <1>1 DEF FrameTail, GivenUp, Between, Within, KeptWhole
  <1>3. Recovered'
    <2> USE DEF Recovered, Late, Goto, Finish, memory, statics, TypeOK, Returned
    <2>1. CASE Swap(c)
      BY <2>1 DEF Swap
    <2>2. CASE CheckRegion(c)
      <3>1. region # "ok" => region \in RegionErrors
        OBVIOUS
      <3>2. "ok" \notin RegionErrors
        BY DEF RegionErrors
      <3> QED  BY <2>2, <3>1, <3>2 DEF CheckRegion
    <2>3. CASE WriteProducer(c)
      BY <2>3 DEF WriteProducer
    <2>4. CASE Activate(c)
      BY <2>4 DEF Activate
    <2>5. CASE CountRecovered(c)
      BY <2>5 DEF CountRecovered
    <2> QED  BY <2>1, <2>2, <2>3, <2>4, <2>5
  <1> QED  BY <1>2, <1>3 DEF LossParts

LEMMA LossInductive == LossInv /\ [Next]_vars => LossInv'
  <1> SUFFICES ASSUME LossInv, [Next]_vars PROVE LossParts'
    BY Inductive DEF LossInv, LossParts
  <1>1. ASSUME NEW c \in Callers, CallInit(c) PROVE LossParts'
    BY <1>1, LossRecover, LossCaller DEF CallInit
  <1>2. CASE StartFrame
    BY <1>2, LossStart
  <1>3. CASE WriteAll
    BY <1>3, LossWrite
  <1>4. ASSUME NEW used \in 1 .. Len(ring), Drain(used) PROVE LossParts'
    BY <1>4, LossDrain
  <1>5. CASE Reset
    BY <1>5, LossReset
  <1>6. CASE UNCHANGED vars
    BY <1>6 DEF LossInv, LossParts, vars, memory, statics, callers, history, FrameTail, Recovered,
        Late, GivenUp, Between, Within, KeptWhole, Read, Handed
  <1> QED  BY <1>1, <1>2, <1>3, <1>4, <1>5, <1>6 DEF Next

\* Over any number of overflows, resets and partial reads, each message that
\* was kept whole and does not follow one that was cut can be decoded, for all
\* ring and frame sizes (Cargo.toml:29, src/ring_buffer.rs:269).
THEOREM LossStaysLimited == Spec => []LossIsLimited
  <1>1. LossInv => LossIsLimited
    <2> SUFFICES ASSUME LossInv, NEW m \in 1 .. logs, m \notin cut, m - 1 \notin cut,
                        m = logs => frame = <<>>
                 PROVE  Decodable(m, Read)
      BY DEF LossIsLimited, Read
    <2>1. TypeOK
      BY DEF LossInv, IInv
    <2>2. m \in Nat /\ Read \in Seq(Byte)
      BY <2>1, ReadBytes DEF TypeOK
    <2>3. Found(m, Read)
      BY <2>1, NoFrame DEF LossInv, KeptWhole
    <2> QED  BY <2>2, <2>3, FoundIsDecodable
  <1> QED  BY <1>1, LossInitially, LossInductive, PTL DEF Spec
-----------------------------------------------------------------------------
(* Tails *)

TailParts == (oneCore => Chained(Read)) /\ NextFits

LEMMA TailInitially == Init => TailInv
  <1> SUFFICES ASSUME Init PROVE TailInv
    OBVIOUS
  <1>1. LossInv /\ TypeOK /\ Size \in Nat \ {0}
    BY LossInitially, BoardAssumption DEF LossInv, IInv
  <1>2. /\ Len(frame) = 0 /\ Len(drained) = 0
    BY EmptySeq DEF Init
  <1>3. /\ Len(Read) = Len(ring) /\ Len(ring) \in Nat
        /\ \A i \in 1 .. Len(ring) : Read[i] = ring[i]
    <2>1. /\ Len(Read) = Len(drained) + Len(ring) /\ Len(ring) \in Nat
          /\ \A i \in 1 .. Len(ring) : Read[Len(drained) + i] = ring[i]
      BY <1>1, ReadBytes
    <2> QED  BY <1>2, <2>1
  <1>4. \A i \in 1 .. Len(ring) : ring[i] = <<0, i>>
    <2>1. CASE ring = <<>>
      BY <1>3, <2>1, EmptySeq
    <2>2. CASE ring = Frame(0)
      BY <1>1, <1>3, <2>2, FrameIsBytes DEF Frame
    <2> QED  BY <2>1, <2>2 DEF Init
  <1>5. Chained(Read)
    <2>1. SUFFICES ASSUME NEW i \in 1 .. Len(ring), i > 1
                   PROVE  Read[i - 1] = <<Read[i][1], Read[i][2] - 1>>
      BY <1>3, <1>4 DEF Chained
    <2>2. i - 1 \in 1 .. Len(ring)
      BY <1>3, <2>1
    <2> QED  BY <1>3, <1>4, <2>2
  <1> QED  BY <1>1, <1>2, <1>5 DEF TailInv, NextFits

LEMMA TailWrite ==
    ASSUME TailInv, WriteAll
    PROVE  TailParts'
  <1>1. TypeOK /\ FrameTail
    BY DEF TailInv, LossInv, IInv
  <1>2. PICK k \in 1 .. Len(frame), n \in Nat : Wrote(k, n)
    BY <1>1, WriteFacts
  <1>3. /\ Len(frame) \in Nat /\ Len(Read) \in Nat /\ Len(ring) \in Nat
        /\ k \in Nat /\ capacity \in Nat
        /\ Handed \in Nat /\ Handed' = Handed + k
    BY <1>1, <1>2, ReadBytes, WriteKeepsTail DEF TypeOK
  <1>4. /\ n <= k /\ (~active => n = 0)
        /\ oneCore /\ active /\ n < k => Len(ring') = capacity
        /\ Len(ring) + n <= capacity /\ Len(ring') = Len(ring) + n
        /\ Len(Read') = Len(Read) + n
        /\ \A i \in 1 .. Len(Read) : Read'[i] = Read[i]
        /\ \A i \in 1 .. n : Read'[Len(Read) + i] = <<logs, Handed + i>>
        /\ UNCHANGED <<oneCore, capacity, active, logs>>
    BY <1>2 DEF Wrote
  <1>5. ASSUME oneCore, NEW i \in 1 .. Len(Read'), Read'[i][2] > 1
        PROVE  i > 1 /\ Read'[i - 1] = <<Read'[i][1], Read'[i][2] - 1>>
    <2>1. CASE i <= Len(Read)
      <3>1. i \in 1 .. Len(Read) /\ Read'[i] = Read[i]
        BY <1>3, <1>4, <2>1
      <3>2. i > 1 /\ Read[i - 1] = <<Read[i][1], Read[i][2] - 1>>
        BY <1>5, <3>1 DEF TailInv, Chained
      <3>3. i - 1 \in 1 .. Len(Read)
        BY <1>3, <3>1, <3>2
      <3> QED  BY <1>4, <3>1, <3>2, <3>3
    <2>2. CASE i > Len(Read)
      <3>1. PICK j \in 1 .. n : i = Len(Read) + j
        <4>1. i - Len(Read) \in 1 .. n /\ i = Len(Read) + (i - Len(Read))
          BY <1>3, <1>4, <2>2
        <4> QED  BY <4>1
      <3>2. Read'[i] = <<logs, Handed + j>> /\ Handed + j > 1
        <4>1. Read'[i] = <<logs, Handed + j>>
          BY <1>4, <3>1
        <4> QED  BY <1>5, <4>1
      <3>3. CASE j > 1
        <4>1. j - 1 \in 1 .. n /\ i - 1 = Len(Read) + (j - 1) /\ i > 1
          BY <1>3, <3>1, <3>3
        <4>2. Read'[i - 1] = <<logs, Handed + (j - 1)>>
          BY <1>4, <4>1
        <4>3. Handed + (j - 1) = (Handed + j) - 1
          BY <1>3, <3>1
        <4> QED  BY <3>2, <4>1, <4>2, <4>3
      <3>4. CASE j = 1
        <4>1. active /\ Len(ring) < capacity /\ Handed > 0 /\ Len(frame) > 0
          BY <1>3, <1>4, <3>1, <3>2, <3>4
        <4>2. Len(Read) > 0 /\ Read[Len(Read)] = <<logs, Handed>>
          BY <1>5, <4>1 DEF TailInv, NextFits
        <4>3. i - 1 = Len(Read) /\ Len(Read) \in 1 .. Len(Read) /\ i > 1
          BY <1>3, <3>1, <3>4, <4>2
        <4>4. Handed = (Handed + j) - 1
          BY <1>3, <3>4
        <4> QED  BY <1>4, <3>2, <4>2, <4>3, <4>4
      <3> QED  BY <3>1, <3>3, <3>4
    <2> QED  BY <1>3, <1>4, <2>1, <2>2
  <1>6. oneCore' => Chained(Read')
    BY <1>4, <1>5 DEF Chained
  <1>7. NextFits'
    <2>1. SUFFICES ASSUME oneCore, active, Len(ring') < capacity
                   PROVE  Len(Read') > 0 /\ Read'[Len(Read')] = <<logs, Handed'>>
      BY <1>4 DEF NextFits
    <2>2. n = k
      BY <1>3, <1>4, <2>1
    <2> QED  BY <1>3, <1>4, <2>2
  <1> QED  BY <1>6, <1>7 DEF TailParts

\* On one core init, the consumer and a reset do not see half of a frame.
LEMMA TailRest ==
    ASSUME TailInv, UNCHANGED oneCore, Len(frame') = 0 \/ Handed' = 0,
           Read' = Read \/ Read' = drained
    PROVE  TailParts'
  <1>1. TypeOK /\ Size \in Nat
    BY BoardAssumption DEF TailInv, LossInv, IInv
  <1>2. NextFits'
    <2>1. \A h : h = 0 => ~(h > 0)
      OBVIOUS
    <2> QED  BY <2>1 DEF NextFits
  <1>3. CASE Read' = Read
    BY <1>2, <1>3 DEF TailInv, TailParts, Chained
  <1>4. CASE Read' = drained
    <2>1. /\ Len(drained) \in Nat /\ Len(Read) = Len(drained) + Len(ring) /\ Len(ring) \in Nat
          /\ \A i \in 1 .. Len(drained) : Read[i] = drained[i]
      BY <1>1, ReadBytes
    <2>2. ASSUME oneCore, NEW i \in 1 .. Len(drained), drained[i][2] > 1
          PROVE  i > 1 /\ drained[i - 1] = <<drained[i][1], drained[i][2] - 1>>
      <3>1. i \in 1 .. Len(Read) /\ Read[i] = drained[i]
        BY <2>1
      <3>2. i > 1 /\ Read[i - 1] = <<Read[i][1], Read[i][2] - 1>>
        BY <2>2, <3>1 DEF TailInv, Chained
      <3>3. i - 1 \in 1 .. Len(drained)
        BY <2>1, <3>2
      <3> QED  BY <2>1, <3>1, <3>2, <3>3
    <2>3. oneCore' => Chained(drained)
      BY <2>2 DEF Chained
    <2>4. oneCore' => Chained(Read')
      BY <1>4, <2>3 DEF Chained
    <2> QED  BY <1>2, <2>4 DEF TailParts
  <1> QED  BY <1>3, <1>4

LEMMA TailInductive == TailInv /\ [Next]_vars => TailInv'
  <1> SUFFICES ASSUME TailInv, [Next]_vars PROVE TailParts'
    BY LossInductive DEF TailInv, TailParts
  <1> USE DEF memory, statics, callers, history
  <1>1. LossInv /\ TypeOK
    BY DEF TailInv, LossInv, IInv
  <1>2. frame = <<>> => Len(frame) = 0
    BY <1>1, NoFrame
  <1>3. ASSUME NEW c \in Callers, CallInit(c) PROVE TailParts'
    <2>1. oneCore' = oneCore /\ frame' = frame /\ drained' = drained /\ MayRun
          /\ ring' \in {ring, <<>>}
      BY <1>3 DEF CallInit, Swap, CheckRegion, Recover, WriteProducer, Activate, CountRecovered
    <2>2. Read' = Read \/ Read' = drained
      BY <1>1, <2>1, ConcatEmptySeq DEF Read, TypeOK
    <2>3. CASE oneCore
      BY <1>2, <2>1, <2>2, <2>3, TailRest DEF MayRun
    <2>4. CASE ~oneCore
      BY <2>1, <2>4 DEF TailParts, NextFits
    <2> QED  BY <2>3, <2>4
  <1>4. CASE StartFrame
    <2>1. oneCore' = oneCore /\ Read' = Read /\ frame' = Frame(logs + 1) /\ logs + 1 \in Nat
      BY <1>1, <1>4 DEF StartFrame, Read, TypeOK
    <2>2. Handed' = 0
      BY <2>1, FrameIsBytes, BoardAssumption DEF Handed
    <2> QED  BY <2>1, <2>2, TailRest
  <1>5. CASE WriteAll
    BY <1>5, TailWrite
  <1>6. ASSUME NEW used \in 1 .. Len(ring), Drain(used) PROVE TailParts'
    <2>1. oneCore' = oneCore /\ frame' = frame /\ MayRun
      BY <1>6 DEF Drain
    <2>2. Read' = Read
      BY <1>1, <1>6, DrainMoves DEF Read
    <2>3. CASE oneCore
      BY <1>2, <2>1, <2>2, <2>3, TailRest DEF MayRun
    <2>4. CASE ~oneCore
      BY <2>1, <2>4 DEF TailParts, NextFits
    <2> QED  BY <2>3, <2>4
  <1>7. CASE Reset
    <2>1. oneCore' = oneCore /\ Read' = Read /\ Len(frame') = 0
      BY <1>7, EmptySeq DEF Reset, Restart, Read
    <2> QED  BY <2>1, TailRest
  <1>8. CASE UNCHANGED vars
    BY <1>8 DEF vars, TailInv, TailParts, Chained, NextFits, Handed, Read
  <1> QED  BY <1>3, <1>4, <1>5, <1>6, <1>7, <1>8 DEF Next

\* On one core a full ring cuts only the tails of frames, for all ring sizes,
\* frames and pieces (src/ring_buffer.rs:269).
THEOREM OnlyTailsAreCut == Spec => []TailsOnly
  <1>1. TailInv => TailsOnly
    <2>1. ASSUME TailInv PROVE DOMAIN Read = 1 .. Len(Read)
      <3>1. TypeOK
        BY <2>1 DEF TailInv, LossInv, IInv
      <3> QED  BY <3>1, ReadBytes, LenProperties
    <2> QED  BY <2>1 DEF TailInv, TailsOnly, Chained, Read
  <1> QED  BY <1>1, TailInitially, TailInductive, PTL DEF Spec
=============================================================================
