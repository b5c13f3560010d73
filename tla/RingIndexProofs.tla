--------------------------- MODULE RingIndexProofs ----------------------------
(***************************************************************************)
(* Facts about the index arithmetic of src/ring_buffer.rs, for every size  *)
(* of the buffer.  They are the arithmetic the SAFETY comments of          *)
(* Producer::write and Consumer::read argue with, and the lemmas the       *)
(* invariance proofs of the other modules cite.  The second part is about  *)
(* what Consumer::read shows, as a sequence of bytes: a write appends, a   *)
(* release drops from the front, and a store to a slot the consumer does   *)
(* not own changes nothing.                                                *)
(***************************************************************************)
EXTENDS RingIndex, SequenceTheorems, TLAPS

\* The remainder in Producer::write's final store is a single subtraction.
LEMMA NextWriteCases ==
    ASSUME NEW write \in Index, NEW len \in 0 .. N
    PROVE  /\ NextWrite(write, len) = IF write + len < N THEN write + len ELSE write + len - N
           /\ NextWrite(write, len) \in Index
  BY NAssumption DEF NextWrite, Index

\* Free space and stored bytes always add up to N - 1: `available` is exact.
THEOREM AvailableIsExact ==
    ASSUME NEW read \in Index, NEW write \in Index
    PROVE  /\ Available(read, write) = N - 1 - Dist(read, write)
           /\ Available(read, write) \in 0 .. N - 1
  BY NAssumption DEF Available, Dist, Index

\* Distances around the ring are below N, and add up along a path that does
\* not lap the ring.
LEMMA DistType ==
    ASSUME NEW a \in Index, NEW b \in Index
    PROVE  Dist(a, b) \in 0 .. N - 1 /\ (Dist(a, b) = 0 <=> a = b)
  BY NAssumption DEF Dist, Index

LEMMA DistAdds ==
    ASSUME NEW a \in Index, NEW b \in Index, NEW c \in Index,
           Dist(a, b) + Dist(b, c) <= N - 1
    PROVE  Dist(a, c) = Dist(a, b) + Dist(b, c)
  BY NAssumption DEF Dist, Index

\* The two slices of a read hold exactly the bytes between the indices, both
\* lie inside the buffer, and the second is not empty only when the first
\* reaches the end of the buffer.
LEMMA SlicesAreExact ==
    ASSUME NEW read \in Index, NEW write \in Index
    PROVE  /\ Len1(read, write) \in 0 .. N - 1
           /\ Len2(read, write) \in 0 .. N - 1
           /\ Len1(read, write) + Len2(read, write) = Dist(read, write)
           /\ read + Len1(read, write) <= N
           /\ write < read => read + Len1(read, write) = N
           /\ write >= read => read + Len1(read, write) < N /\ Len2(read, write) = 0
  BY NAssumption DEF Len1, Len2, Dist, Index

\* A write that fits in the free space never leaves the buffer, never stores
\* to a byte the consumer owns, and never stores twice to one slot.
LEMMA CopyStaysInFreeSpace ==
    ASSUME NEW read \in Index, NEW write \in Index,
           NEW len \in 0 .. N - 1 - Dist(read, write),
           NEW i \in 0 .. len - 1
    PROVE  /\ CopyOffset(write, len, i) \in Index
           /\ CopyOffset(write, len, i) \notin Owned(read, write)
           /\ CopyOffset(write, len, i) =
                 IF write + i < N THEN write + i ELSE write + i - N
  BY NAssumption DEF CopyOffset, Owned, Len1, Len2, Dist, Index

\* Appending len bytes that fit moves the write index len bytes further from
\* the read index.
LEMMA NextWriteDist ==
    ASSUME NEW read \in Index, NEW write \in Index,
           NEW len \in 0 .. N - 1 - Dist(read, write)
    PROVE  /\ NextWrite(write, len) \in Index
           /\ Dist(read, NextWrite(write, len)) = Dist(read, write) + len
           /\ Dist(write, NextWrite(write, len)) = len
  <1>1. Dist(read, write) \in 0 .. N - 1
    BY NAssumption DEF Dist, Index
  <1>2. len \in 0 .. N
    BY <1>1, NAssumption
  <1>3. /\ NextWrite(write, len) = IF write + len < N THEN write + len ELSE write + len - N
        /\ NextWrite(write, len) \in Index
    BY <1>2, NextWriteCases
  <1>4. QED
    BY <1>2, <1>3, NAssumption DEF Dist, Index

\* Releasing no more than the grant moves the read index exactly that far,
\* also when the grant was taken before later writes.
LEMMA NextReadDist ==
    ASSUME NEW read \in Index, NEW write \in Index,
           NEW len1 \in 0 .. N - 1, NEW len2 \in 0 .. N - 1,
           len1 + len2 <= Dist(read, write),
           read + len1 <= N, len2 > 0 => read + len1 = N,
           NEW used \in 0 .. len1 + len2
    PROVE  /\ NextRead(read, len1, used) \in Index
           /\ Dist(read, NextRead(read, len1, used)) = used
           /\ Dist(NextRead(read, len1, used), write) = Dist(read, write) - used
  BY NAssumption DEF NextRead, Dist, Index

\* Neither sum of Producer::write and GrantR::release can wrap: init refuses a
\* buffer of i32::MAX / 4 bytes or more, and both sums stay below 2 * N.
THEOREM NoIndexOverflow ==
    ASSUME N < 2147483647 \div 4,
           NEW read \in Index, NEW write \in Index,
           NEW len \in 0 .. Available(read, write),
           NEW used \in 0 .. Dist(read, write)
    PROVE  write + len < 2147483648 /\ read + used < 2147483648
  <1>1. Available(read, write) \in 0 .. N - 1 /\ Dist(read, write) \in 0 .. N - 1
    BY AvailableIsExact, DistType
  <1> QED BY <1>1, NAssumption DEF Index

-----------------------------------------------------------------------------
(* What a reader sees *)

\* The slot i places after index a.
Slot(a, i) == IF a + i < N THEN a + i ELSE a + i - N

\* The sequence q is what the n slots from index a on hold.
ShowsSlots(q, S, buf, a, n) ==
    /\ q \in Seq(S) /\ Len(q) = n
    /\ \A i \in 1 .. n : q[i] = buf[Slot(a, i - 1)]

\* Both slices together cover the slots from the read index up to the write
\* index, and no other.
LEMMA SlotsAreOwned ==
    ASSUME NEW read \in Index, NEW write \in Index, NEW i \in 1 .. Dist(read, write)
    PROVE  Slot(read, i - 1) \in Owned(read, write) /\ Slot(read, i - 1) \in Index
  BY NAssumption DEF Slot, Owned, Len1, Len2, Dist, Index

LEMMA OwnedSlots ==
    ASSUME NEW read \in Index, NEW write \in Index
    PROVE  Owned(read, write) \subseteq Index
  BY NAssumption DEF Owned, Len1, Len2, Index

\* The two slices of a read, put together, show the slots from the read index
\* up to the write index, in order.
LEMMA ContentsIsWindow ==
    ASSUME NEW S, NEW buf, \A o \in Index : buf[o] \in S,
           NEW read \in Index, NEW write \in Index
    PROVE  ShowsSlots(Contents(buf, read, write), S, buf, read, Dist(read, write))
  <1> DEFINE l1 == Len1(read, write)
             l2 == Len2(read, write)
             s1 == [i \in 1 .. l1 |-> buf[read + i - 1]]
             s2 == [i \in 1 .. l2 |-> buf[i - 1]]
  <1>1. /\ l1 \in Nat /\ l2 \in Nat /\ l1 + l2 = Dist(read, write)
        /\ l2 <= N /\ read + l1 <= N
        /\ l2 > 0 => read + l1 = N
        /\ l1 + l2 < N
    BY NAssumption DEF Len1, Len2, Dist, Index
  <1>2. Contents(buf, read, write) = s1 \o s2
    BY DEF Contents
  <1> HIDE DEF l1, l2
  <1>3. \A i \in 1 .. l1 : buf[read + i - 1] \in S
    <2>1. \A i \in 1 .. l1 : read + i - 1 \in Index
      BY <1>1, NAssumption DEF Index
    <2> QED BY <2>1, Zenon
  <1>4. s1 \in Seq(S) /\ Len(s1) = l1 /\ \A i \in 1 .. l1 : s1[i] = buf[read + i - 1]
    BY <1>1, <1>3
  <1>5. \A i \in 1 .. l2 : buf[i - 1] \in S
    <2>1. \A i \in 1 .. l2 : i - 1 \in Index
      BY <1>1, NAssumption DEF Index
    <2> QED BY <2>1, Zenon
  <1>6. s2 \in Seq(S) /\ Len(s2) = l2 /\ \A i \in 1 .. l2 : s2[i] = buf[i - 1]
    BY <1>1, <1>5
  <1> HIDE DEF s1, s2
  <1>7. /\ s1 \o s2 \in Seq(S)
        /\ Len(s1 \o s2) = l1 + l2
        /\ \A i \in 1 .. l1 + l2 : (s1 \o s2)[i] = IF i <= l1 THEN s1[i] ELSE s2[i - l1]
    <2>1. /\ s1 \o s2 \in Seq(S)
          /\ Len(s1 \o s2) = Len(s1) + Len(s2)
          /\ \A i \in 1 .. Len(s1) + Len(s2) :
                 (s1 \o s2)[i] = IF i <= Len(s1) THEN s1[i] ELSE s2[i - Len(s1)]
      BY <1>4, <1>6, ConcatProperties, Zenon
    <2> QED BY <1>4, <1>6, <2>1, Zenon
  <1>8. \A i \in 1 .. l1 + l2 : (s1 \o s2)[i] = buf[Slot(read, i - 1)]
    <2> TAKE i \in 1 .. l1 + l2
    <2>1. CASE i <= l1
      <3>1. Slot(read, i - 1) = read + i - 1
        BY <1>1, <2>1, NAssumption DEF Slot, Index
      <3>2. i \in 1 .. l1 /\ i \in 1 .. l1 + l2
        BY <1>1, <2>1
      <3>3. (s1 \o s2)[i] = s1[i]
        BY <1>7, <2>1, <3>2, Zenon
      <3> QED BY <1>4, <3>1, <3>2, <3>3, Zenon
    <2>2. CASE ~(i <= l1)
      <3>1. i - l1 \in 1 .. l2 /\ Slot(read, i - 1) = i - l1 - 1
        BY <1>1, <2>2, NAssumption DEF Slot, Index
      <3>2. (s1 \o s2)[i] = s2[i - l1]
        BY <1>7, <2>2, Zenon
      <3> QED BY <1>6, <3>1, <3>2, Zenon
    <2> QED BY <2>1, <2>2
  <1>9. l1 + l2 = Dist(read, write)
    BY <1>1
  <1> QED
    BY <1>2, <1>7, <1>8, <1>9, Zenon DEF ShowsSlots

\* What a buffer holds, for the lemmas that do not tell one value from another.
Stored(buf) == {buf[o] : o \in Index}

LEMMA ContentsIsStored ==
    ASSUME NEW buf, NEW read \in Index, NEW write \in Index
    PROVE  ShowsSlots(Contents(buf, read, write), Stored(buf), buf, read, Dist(read, write))
  <1>1. \A o \in Index : buf[o] \in Stored(buf)
    BY DEF Stored
  <1> QED BY <1>1, ContentsIsWindow, Zenon

\* Two buffers agree on the slots the consumer owns; the bytes of a write are
\* copied.
SameOwned(buf, buf2, read, write) == \A o \in Owned(read, write) : buf2[o] = buf[o]

Copied(buf, write, data, len) ==
    \A i \in 0 .. len - 1 : buf[CopyOffset(write, len, i)] = data[i + 1]

\* Publishing the write appends its first len bytes to what the consumer sees.
Appends(buf, read, write, data, len) ==
    Contents(buf, read, NextWrite(write, len)) = Contents(buf, read, write) \o SubSeq(data, 1, len)

\* Releasing up to `next` drops `used` bytes from the front.
Drops(buf, read, next, write, used) ==
    Contents(buf, next, write)
        = SubSeq(Contents(buf, read, write), used + 1, Len(Contents(buf, read, write)))

\* Two buffers that agree on the slots the consumer owns show it the same.
LEMMA ContentsEqual ==
    ASSUME NEW buf, NEW buf2, NEW read \in Index, NEW write \in Index,
           SameOwned(buf, buf2, read, write)
    PROVE  Contents(buf2, read, write) = Contents(buf, read, write)
  <1> DEFINE l1 == Len1(read, write)
             l2 == Len2(read, write)
  <1>1. /\ \A i \in 1 .. l1 : read + i - 1 \in Owned(read, write)
        /\ \A i \in 1 .. l2 : i - 1 \in Owned(read, write)
    BY NAssumption DEF Owned, Len1, Len2, Index
  <1> HIDE DEF l1, l2
  <1>2. [i \in 1 .. l1 |-> buf2[read + i - 1]] = [i \in 1 .. l1 |-> buf[read + i - 1]]
    BY <1>1, Zenon DEF SameOwned
  <1>3. [i \in 1 .. l2 |-> buf2[i - 1]] = [i \in 1 .. l2 |-> buf[i - 1]]
    BY <1>1, Zenon DEF SameOwned
  <1> QED BY <1>2, <1>3, Zenon DEF Contents, l1, l2

\* Publishing a write whose bytes were copied appends them.
LEMMA ContentsAppend ==
    ASSUME NEW buf, NEW read \in Index, NEW write \in Index,
           NEW data, NEW len \in 1 .. N - 1 - Dist(read, write),
           Copied(buf, write, data, len)
    PROVE  Appends(buf, read, write, data, len)
  <1> DEFINE S == Stored(buf)
             end == NextWrite(write, len)
             old == Contents(buf, read, write)
             new == Contents(buf, read, end)
             tail == SubSeq(data, 1, len)
             d == Dist(read, write)
             e == Dist(read, end)
  <1>1. d \in 0 .. N - 1 /\ len \in 1 .. N - 1 - d
    BY DistType, NAssumption
  <1>2. end \in Index /\ e = d + len
    BY <1>1, NextWriteDist
  <1> HIDE DEF end
  <1>3. ShowsSlots(old, S, buf, read, d) /\ ShowsSlots(new, S, buf, read, e)
    BY <1>2, ContentsIsStored, Zenon
  <1>4. /\ tail \in Seq(S) /\ Len(tail) = len
        /\ \A i \in 1 .. len : tail[i] = data[i]
    <2>1. ASSUME NEW i \in 1 .. len PROVE data[i] \in S
      <3>1. i - 1 \in 0 .. len - 1 /\ (i - 1) + 1 = i
        BY <1>1
      <3>2. CopyOffset(write, len, i - 1) \in Index
        BY <1>1, <3>1, CopyStaysInFreeSpace
      <3>3. data[i] = buf[CopyOffset(write, len, i - 1)]
        BY <3>1 DEF Copied
      <3> QED BY <3>2, <3>3 DEF Stored
    <2>2. 1 \in Int /\ len \in Int /\ 1 <= len /\ len - 1 + 1 = len
          /\ \A i \in 1 .. len : 1 + i - 1 = i
      BY <1>1
    <2> HIDE DEF S
    <2> QED BY <2>1, <2>2, SubSeqProperties
  <1> HIDE DEF S
  <1>5. ASSUME NEW i \in d + 1 .. d + len
        PROVE  buf[Slot(read, i - 1)] = data[i - d]
    <2>1. i - d - 1 \in 0 .. len - 1 /\ (i - d - 1) + 1 = i - d
      BY <1>1
    <2>2. Slot(read, i - 1) = CopyOffset(write, len, i - d - 1)
      BY <1>1, <2>1, NAssumption DEF Slot, CopyOffset, Dist, Index
    <2>3. buf[CopyOffset(write, len, i - d - 1)] = data[(i - d - 1) + 1]
      BY <2>1 DEF Copied
    <2> QED BY <2>1, <2>2, <2>3, Zenon
  <1> HIDE DEF old, new, tail, d, e
  <1>6. /\ old \o tail \in Seq(S) /\ Len(old \o tail) = d + len
        /\ \A i \in 1 .. d + len : (old \o tail)[i] = IF i <= d THEN old[i] ELSE tail[i - d]
    <2>1. old \in Seq(S) /\ Len(old) = d
      BY <1>3, Zenon DEF ShowsSlots
    <2>2. /\ old \o tail \in Seq(S) /\ Len(old \o tail) = Len(old) + Len(tail)
          /\ \A i \in 1 .. Len(old) + Len(tail) :
                 (old \o tail)[i] = IF i <= Len(old) THEN old[i] ELSE tail[i - Len(old)]
      BY <1>4, <2>1, ConcatProperties, Zenon
    <2> QED BY <1>4, <2>1, <2>2, Zenon
  <1>7. \A i \in 1 .. d + len : new[i] = (old \o tail)[i]
    <2> TAKE i \in 1 .. d + len
    <2>1. new[i] = buf[Slot(read, i - 1)]
      BY <1>2, <1>3, Zenon DEF ShowsSlots
    <2>2. CASE i <= d
      <3>1. i \in 1 .. d
        BY <1>1, <2>2
      <3>2. old[i] = buf[Slot(read, i - 1)]
        BY <1>3, <3>1, Zenon DEF ShowsSlots
      <3> QED BY <1>6, <2>1, <2>2, <3>2, Zenon
    <2>3. CASE ~(i <= d)
      <3>1. i - d \in 1 .. len /\ i \in d + 1 .. d + len
        BY <1>1, <2>3
      <3>2. tail[i - d] = buf[Slot(read, i - 1)]
        BY <1>4, <1>5, <3>1, Zenon
      <3> QED BY <1>6, <2>1, <2>3, <3>2, Zenon
    <2> QED BY <2>2, <2>3
  <1>8. new \in Seq(S) /\ Len(new) = d + len
    BY <1>2, <1>3, Zenon DEF ShowsSlots
  <1>9. new = old \o tail
    BY <1>6, <1>7, <1>8, SeqEqual, Zenon
  <1> QED BY <1>9 DEF Appends, old, new, tail, end

\* Moving the read index forward by `used` bytes drops them from the front.
LEMMA ContentsDrop ==
    ASSUME NEW buf, NEW read \in Index, NEW write \in Index,
           NEW next \in Index, NEW used \in 0 .. Dist(read, write),
           Dist(read, next) = used,
           Dist(next, write) = Dist(read, write) - used
    PROVE  Drops(buf, read, next, write, used)
  <1> DEFINE S == Stored(buf)
             old == Contents(buf, read, write)
             rest == Contents(buf, next, write)
             d == Dist(read, write)
             e == Dist(next, write)
             sub == SubSeq(old, used + 1, d)
  <1>1. d \in 0 .. N - 1 /\ used \in 0 .. d /\ e = d - used
    BY DistType
  <1>2. ShowsSlots(old, S, buf, read, d) /\ ShowsSlots(rest, S, buf, next, e)
    BY ContentsIsStored, Zenon
  <1>3. \A i \in 1 .. e : Slot(next, i - 1) = Slot(read, used + i - 1)
    BY <1>1, NAssumption DEF Slot, Dist, Index
  <1> HIDE DEF S, old, rest, d, e
  <1>4. /\ old \in Seq(S) /\ Len(old) = d
        /\ \A i \in 1 .. d : old[i] = buf[Slot(read, i - 1)]
    BY <1>2, Zenon DEF ShowsSlots
  <1>5. /\ rest \in Seq(S) /\ Len(rest) = e
        /\ \A i \in 1 .. e : rest[i] = buf[Slot(next, i - 1)]
    BY <1>2, Zenon DEF ShowsSlots
  <1>6. /\ sub \in Seq(S) /\ Len(sub) = e
        /\ \A i \in 1 .. e : sub[i] = old[used + i]
    <2>1. /\ used + 1 \in Int /\ d \in Int /\ d - (used + 1) + 1 = e
          /\ e = IF used + 1 <= d THEN d - (used + 1) + 1 ELSE 0
          /\ \A i \in 1 .. e : (used + 1) + i - 1 = used + i
      BY <1>1
    <2>2. \A i \in used + 1 .. d : old[i] \in S
      BY <1>1, <1>4, ElementOfSeq
    <2>3. /\ sub \in Seq(S) /\ Len(sub) = IF used + 1 <= d THEN d - (used + 1) + 1 ELSE 0
          /\ \A i \in 1 .. d - (used + 1) + 1 : sub[i] = old[(used + 1) + i - 1]
      BY <2>1, <2>2, SubSeqProperties
    <2> HIDE DEF sub
    <2> QED BY <2>1, <2>3
  <1>7. \A i \in 1 .. e : used + i \in 1 .. d
    BY <1>1
  <1> HIDE DEF sub
  <1>8. \A i \in 1 .. e : rest[i] = sub[i]
    <2> TAKE i \in 1 .. e
    <2> DEFINE j == used + i
    <2>1. sub[i] = buf[Slot(read, j - 1)]
      <3>1. sub[i] = old[j] /\ j \in 1 .. d
        BY <1>6, <1>7
      <3> HIDE DEF j
      <3> QED BY <1>4, <3>1
    <2>2. rest[i] = buf[Slot(next, i - 1)]
      BY <1>5, Zenon
    <2>3. Slot(next, i - 1) = Slot(read, j - 1)
      BY <1>3
    <2> HIDE DEF j
    <2> QED BY <2>1, <2>2, <2>3
  <1>9. rest = sub
    BY <1>5, <1>6, <1>8, SeqEqual, Zenon
  <1> QED BY <1>4, <1>9 DEF Drops, rest, sub, old, d
=============================================================================
