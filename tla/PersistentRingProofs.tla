------------------------- MODULE PersistentRingProofs -------------------------
(***************************************************************************)
(* PersistentRing, for every size of the buffer, of the header and of an   *)
(* ECC word, all data and all three kinds of RAM: what an index in the RAM *)
(* covers is in the RAM, and the ring implements the log of DurableLog,    *)
(* whatever store, of a call or of recovery itself, a reset cuts off.      *)
(***************************************************************************)
EXTENDS PersistentRing, RingIndexProofs

\* Images of the region, which are equal unless a word is held,
ImagesOK ==
    /\ build \in Builds /\ cpu \in Image /\ ram \in Image
    /\ held = NoWord => ram = cpu

\* and which differ in that word alone.
Apart ==
    /\ build.ram = "plain" => ram = cpu
    /\ build.ram = "ecc32" =>
           ram.magic = cpu.magic /\ ram.read = cpu.read /\ ram.write = cpu.write
    /\ \A o \in Index : ram.buf[o] # cpu.buf[o] => held = BufWord(o)
    /\ \A o \in Index : held = BufWord(o) => ram.read = cpu.read /\ ram.write = cpu.write

\* The bytes that are not in the RAM are of the write under way.
Dirty ==
    \A o \in Index : ram.buf[o] # cpu.buf[o] =>
        ppc = "copy" /\ \E i \in copied : o = CopyOffset(cpu.write, len, i)

\* How far recovery has come, and that nothing else runs meanwhile.
Progress ==
    /\ phase \in {"boot", "zero write", "flush zeroed", "store magic",
                  "repair write", "flush repaired", "ready"}
    /\ phase # "ready" => ppc = "idle" /\ cpc = "idle"
    /\ stored # {} => phase = "store magic"
    /\ stored # HeaderWords /\ stored \subseteq HeaderWords /\ stored \subseteq cpu.magic
    /\ phase = "zero write" => ~HeaderOk(cpu) /\ cpu.read = 0
    /\ phase \in {"flush zeroed", "store magic"} => cpu.read = 0 /\ cpu.write = 0
    /\ phase = "repair write" => HeaderOk(cpu) /\ cpu.read = 0 /\ cpu.write = N
    /\ phase \in {"flush repaired", "ready"} => HeaderOk(cpu) /\ IndicesOk(cpu)

\* What the calls remember fits the indices, which the other one moves.
WriteFits ==
    /\ ppc \in {"idle", "copy", "publish", "flush index"}
    /\ data \in Seq(Bytes) /\ len \in 0 .. Len(data) /\ copied \subseteq 0 .. len - 1
    /\ ppc \in {"copy", "publish"} =>
           /\ len > 0 /\ len <= N - 1 - Dist(cpu.read, cpu.write)
           /\ \A i \in copied : cpu.buf[CopyOffset(cpu.write, len, i)] = data[i + 1]
    /\ ppc = "publish" => copied = 0 .. len - 1
    /\ ppc \in {"idle", "flush index"} => data = <<>>

GrantFits ==
    /\ cpc \in {"idle", "granted", "flush index"}
    /\ len1 \in 0 .. N - 1 /\ len2 \in 0 .. N - 1
    /\ cpc = "granted" =>
           /\ len1 + len2 <= Dist(cpu.read, cpu.write)
           /\ cpu.read + len1 <= N /\ (len2 > 0 => cpu.read + len1 = N)
    /\ cpc # "granted" => len1 = 0 /\ len2 = 0

\* When no call is under way, what the program sees is what a reset leaves.
Idle == ppc = "idle" /\ cpc # "flush index" => Log(ram) = Log(cpu)

Steady == ImagesOK /\ Apart /\ Dirty /\ Progress /\ WriteFits /\ GrantFits

IInv == Steady /\ Idle

-----------------------------------------------------------------------------
(* Images and their logs *)

LEMMA ImageFields ==
    ASSUME NEW image \in Image
    PROVE  /\ image.magic \subseteq HeaderWords /\ image.read \in 0 .. N /\ image.write \in 0 .. N
           /\ image.buf \in [Index -> Bytes]
           /\ image.read < N => image.read \in Index
           /\ image.write < N => image.write \in Index
  BY NAssumption DEF Image, Index

\* The log of an image whose fields recovery accepts is what the slots from
\* the read index on hold.
LEMMA LogIsWindow ==
    ASSUME NEW image \in Image, HeaderOk(image), IndicesOk(image)
    PROVE  /\ image.read \in Index /\ image.write \in Index
           /\ Log(image) = Contents(image.buf, image.read, image.write)
           /\ Log(image) \in Seq(Bytes)
           /\ Len(Log(image)) = Dist(image.read, image.write)
  <1>1. image.read \in Index /\ image.write \in Index /\ image.buf \in [Index -> Bytes]
    BY ImageFields DEF IndicesOk
  <1>2. Log(image) = Contents(image.buf, image.read, image.write)
    BY DEF Log
  <1>3. ShowsSlots(Contents(image.buf, image.read, image.write), Bytes, image.buf, image.read,
                   Dist(image.read, image.write))
    BY <1>1, ContentsIsWindow
  <1>4. /\ Contents(image.buf, image.read, image.write) \in Seq(Bytes)
        /\ Len(Contents(image.buf, image.read, image.write)) = Dist(image.read, image.write)
    BY <1>3, Zenon DEF ShowsSlots
  <1> QED  BY <1>1, <1>2, <1>4, Zenon

LEMMA LogType ==
    ASSUME NEW image \in Image
    PROVE  Log(image) \in Seq(Bytes) /\ Len(Log(image)) \in 0 .. N - 1
  <1>1. CASE HeaderOk(image) /\ IndicesOk(image)
    BY <1>1, LogIsWindow, DistType
  <1>2. CASE ~(HeaderOk(image) /\ IndicesOk(image))
    <2>1. Log(image) = <<>>
      BY <1>2 DEF Log
    <2> QED  BY <2>1, NAssumption
  <1> QED  BY <1>1, <1>2

\* An empty log: a field recovery does not accept, or equal indices.
Empty(image) == HeaderOk(image) /\ IndicesOk(image) => image.read = image.write

LEMMA EmptyLog ==
    ASSUME NEW image \in Image
    PROVE  Empty(image) <=> Log(image) = <<>>
  <1>1. CASE HeaderOk(image) /\ IndicesOk(image)
    <2>1. /\ image.read \in Index /\ image.write \in Index
          /\ Log(image) \in Seq(Bytes) /\ Len(Log(image)) = Dist(image.read, image.write)
      BY <1>1, LogIsWindow
    <2>2. Log(image) = <<>> <=> Dist(image.read, image.write) = 0
      BY <2>1, EmptySeq
    <2>3. Dist(image.read, image.write) = 0 <=> image.read = image.write
      BY <2>1, DistType
    <2> QED  BY <1>1, <2>2, <2>3 DEF Empty
  <1>2. CASE ~(HeaderOk(image) /\ IndicesOk(image))
    BY <1>2 DEF Empty, Log
  <1> QED  BY <1>1, <1>2

\* Images with equal header fields have equal logs if they agree on the bytes
\* between the indices.
LEMMA LogsEqual ==
    ASSUME NEW image \in Image, NEW other \in Image,
           other.magic = image.magic, other.read = image.read, other.write = image.write,
           HeaderOk(image) /\ IndicesOk(image) =>
               \A o \in Owned(image.read, image.write) : other.buf[o] = image.buf[o]
    PROVE  Log(other) = Log(image)
  <1>1. CASE HeaderOk(image) /\ IndicesOk(image)
    <2>1. HeaderOk(other) /\ IndicesOk(other)
      BY <1>1 DEF HeaderOk, IndicesOk
    <2>2. /\ image.read \in Index /\ image.write \in Index
          /\ image.buf \in [Index -> Bytes] /\ other.buf \in [Index -> Bytes]
      BY <1>1, ImageFields, LogIsWindow
    <2>3. Contents(other.buf, image.read, image.write) = Contents(image.buf, image.read, image.write)
      <3>1. SameOwned(image.buf, other.buf, image.read, image.write)
        BY <1>1 DEF SameOwned
      <3> QED  BY <2>2, <3>1, ContentsEqual
    <2> QED  BY <1>1, <2>1, <2>3 DEF Log
  <1>2. CASE ~(HeaderOk(image) /\ IndicesOk(image))
    BY <1>2 DEF Log, HeaderOk, IndicesOk
  <1> QED  BY <1>1, <1>2

-----------------------------------------------------------------------------
(* Stores *)

LEMMA BuildKinds ==
    ASSUME ImagesOK
    PROVE  /\ build.ram = "plain" \/ build.ram = "ecc32" \/ build.ram = "ecc64"
           /\ build.ram # "plain" => build.ecc
  BY PersistAssumption DEF ImagesOK

\* What a store to a field of the header does to the images.
FieldStored ==
    /\ build' = build /\ cpu' \in Image /\ ram' \in Image /\ cpu'.buf = cpu.buf
    /\ \/ build.ram = "plain" /\ ram' = cpu' /\ held' = NoWord
       \/ /\ build.ram = "ecc32" /\ held' = held /\ ram'.buf = ram.buf
          /\ ram'.magic = cpu'.magic /\ ram'.read = cpu'.read /\ ram'.write = cpu'.write
       \/ /\ build.ram = "ecc64" /\ ram' \in {ram, cpu} /\ ram'.buf = cpu.buf
          /\ held' # NoWord /\ \A o \in Index : held' # BufWord(o)

\* While the cache holds no data, all data is in the RAM.
LEMMA DataIsSaved ==
    ASSUME ImagesOK, Apart, \A o \in Index : held # BufWord(o)
    PROVE  ram.buf = cpu.buf
  <1>1. ram.buf \in [Index -> Bytes] /\ cpu.buf \in [Index -> Bytes]
    BY ImageFields DEF ImagesOK
  <1>2. \A o \in Index : ram.buf[o] = cpu.buf[o]
    BY DEF Apart
  <1> QED  BY <1>1, <1>2

LEMMA StoreReadFacts ==
    ASSUME ImagesOK, Apart, NEW v \in 0 .. N, StoreRead(v)
    PROVE  FieldStored /\ cpu'.read = v /\ cpu'.write = cpu.write /\ cpu'.magic = cpu.magic
  <1>1. [cpu EXCEPT !.read = v] \in Image /\ [ram EXCEPT !.read = v] \in Image
    BY DEF ImagesOK, Image
  <1>2. CASE build.ram = "ecc32"
    <2>1. /\ cpu' = [cpu EXCEPT !.read = v] /\ ram' = [ram EXCEPT !.read = v]
          /\ build' = build /\ held' = held
      BY <1>2 DEF StoreRead, StoreThrough, Bypasses
    <2> QED  BY <1>1, <1>2, <2>1 DEF FieldStored, Apart, ImagesOK, Image
  <1>3. CASE build.ram # "ecc32"
    <2>1. /\ cpu' = [cpu EXCEPT !.read = v] /\ build' = build
          /\ ram' = (IF build.ram = "plain" THEN cpu' ELSE IF held = ReadWord THEN ram ELSE cpu)
          /\ held' = IF build.ram = "plain" THEN NoWord ELSE ReadWord
      BY <1>3 DEF StoreRead, Store, Bypasses
    <2>2. ReadWord # NoWord /\ \A o \in Index : ReadWord # BufWord(o)
      BY DEF ReadWord, NoWord, BufWord
    <2>3. cpu' \in Image /\ cpu'.buf = cpu.buf
          /\ cpu'.read = v /\ cpu'.write = cpu.write /\ cpu'.magic = cpu.magic
      BY <1>1, <2>1 DEF ImagesOK, Image
    <2>4. held = ReadWord => ram.buf = cpu.buf
      BY <2>2, DataIsSaved
    <2> QED  BY <1>3, <2>1, <2>2, <2>3, <2>4, BuildKinds DEF FieldStored, ImagesOK
  <1> QED  BY <1>2, <1>3

LEMMA StoreWriteFacts ==
    ASSUME ImagesOK, Apart, NEW v \in 0 .. N, StoreWrite(v)
    PROVE  FieldStored /\ cpu'.write = v /\ cpu'.read = cpu.read /\ cpu'.magic = cpu.magic
  <1>1. [cpu EXCEPT !.write = v] \in Image /\ [ram EXCEPT !.write = v] \in Image
    BY DEF ImagesOK, Image
  <1>2. CASE build.ram = "ecc32"
    <2>1. /\ cpu' = [cpu EXCEPT !.write = v] /\ ram' = [ram EXCEPT !.write = v]
          /\ build' = build /\ held' = held
      BY <1>2 DEF StoreWrite, StoreThrough, Bypasses
    <2> QED  BY <1>1, <1>2, <2>1 DEF FieldStored, Apart, ImagesOK, Image
  <1>3. CASE build.ram # "ecc32"
    <2>1. /\ cpu' = [cpu EXCEPT !.write = v] /\ build' = build
          /\ ram' = (IF build.ram = "plain" THEN cpu' ELSE IF held = WriteWord THEN ram ELSE cpu)
          /\ held' = IF build.ram = "plain" THEN NoWord ELSE WriteWord
      BY <1>3 DEF StoreWrite, Store, Bypasses
    <2>2. WriteWord # NoWord /\ \A o \in Index : WriteWord # BufWord(o)
      BY DEF WriteWord, NoWord, BufWord
    <2>3. cpu' \in Image /\ cpu'.buf = cpu.buf
          /\ cpu'.write = v /\ cpu'.read = cpu.read /\ cpu'.magic = cpu.magic
      BY <1>1, <2>1 DEF ImagesOK, Image
    <2>4. held = WriteWord => ram.buf = cpu.buf
      BY <2>2, DataIsSaved
    <2> QED  BY <1>3, <2>1, <2>2, <2>3, <2>4, BuildKinds DEF FieldStored, ImagesOK
  <1> QED  BY <1>2, <1>3

LEMMA StoreMagicFacts ==
    ASSUME ImagesOK, Apart, NEW k \in HeaderWords, StoreMagic(k)
    PROVE  /\ FieldStored /\ cpu'.read = cpu.read /\ cpu'.write = cpu.write
           /\ cpu'.magic = cpu.magic \cup {k}
  <1>1. /\ [cpu EXCEPT !.magic = @ \cup {k}] \in Image
        /\ [ram EXCEPT !.magic = @ \cup {k}] \in Image
    BY DEF ImagesOK, Image
  <1>2. CASE build.ram = "ecc32"
    <2>1. /\ cpu' = [cpu EXCEPT !.magic = @ \cup {k}] /\ ram' = [ram EXCEPT !.magic = @ \cup {k}]
          /\ build' = build /\ held' = held
      BY <1>2 DEF StoreMagic, StoreThrough, Bypasses
    <2> QED  BY <1>1, <1>2, <2>1 DEF FieldStored, Apart, ImagesOK, Image
  <1>3. CASE build.ram # "ecc32"
    <2>1. /\ cpu' = [cpu EXCEPT !.magic = @ \cup {k}] /\ build' = build
          /\ ram' = (IF build.ram = "plain" THEN cpu' ELSE IF held = HeaderWord(k) THEN ram ELSE cpu)
          /\ held' = IF build.ram = "plain" THEN NoWord ELSE HeaderWord(k)
      BY <1>3 DEF StoreMagic, Store, Bypasses
    <2>2. HeaderWord(k) # NoWord /\ \A o \in Index : HeaderWord(k) # BufWord(o)
      BY DEF HeaderWord, NoWord, BufWord
    <2>3. cpu' \in Image /\ cpu'.buf = cpu.buf
          /\ cpu'.read = cpu.read /\ cpu'.write = cpu.write /\ cpu'.magic = cpu.magic \cup {k}
      BY <1>1, <2>1 DEF ImagesOK, Image
    <2>4. held = HeaderWord(k) => ram.buf = cpu.buf
      BY <2>2, DataIsSaved
    <2> QED  BY <1>3, <2>1, <2>2, <2>3, <2>4, BuildKinds DEF FieldStored, ImagesOK
  <1> QED  BY <1>2, <1>3

LEMMA FieldStoreKeeps ==
    ASSUME ImagesOK, Apart, FieldStored
    PROVE  /\ ImagesOK' /\ Apart'
           /\ \A o \in Index : ram'.buf[o] # cpu'.buf[o] => ram.buf[o] # cpu.buf[o]
  <1>1. CASE build.ram = "plain"
    <2>1. ram' = cpu' /\ build' = build
      BY <1>1 DEF FieldStored
    <2>2. Apart'
      BY <1>1, <2>1 DEF Apart
    <2> QED  BY <2>1, <2>2 DEF ImagesOK, FieldStored
  <1>2. CASE build.ram = "ecc32"
    <2>1. /\ build' = build /\ held' = held /\ ram'.buf = ram.buf /\ cpu'.buf = cpu.buf
          /\ ram'.magic = cpu'.magic /\ ram'.read = cpu'.read /\ ram'.write = cpu'.write
          /\ ram' \in Image /\ cpu' \in Image
      BY <1>2 DEF FieldStored
    <2>2. Apart'
      BY <1>2, <2>1 DEF Apart, BufWord
    <2>3. held = NoWord => ram' = cpu'
      BY <2>1 DEF ImagesOK, Image
    <2> QED  BY <2>1, <2>2, <2>3 DEF ImagesOK
  <1>3. CASE build.ram = "ecc64"
    <2>1. /\ build' = build /\ cpu'.buf = cpu.buf /\ ram'.buf = cpu.buf
          /\ held' # NoWord /\ \A o \in Index : held' # BufWord(o)
          /\ ram' \in Image /\ cpu' \in Image
      BY <1>3 DEF FieldStored
    <2>2. \A o \in Index : ram'.buf[o] # cpu'.buf[o] => ram.buf[o] # cpu.buf[o]
      BY <2>1
    <2> QED  BY <1>3, <2>1, <2>2 DEF ImagesOK, Apart
  <1> QED  BY <1>1, <1>2, <1>3, BuildKinds

LEMMA ByteStoreFacts ==
    ASSUME ImagesOK, Apart, NEW i \in Index, NEW b \in Bytes, StoreByte(i, b)
    PROVE  /\ ImagesOK' /\ Apart'
           /\ cpu'.magic = cpu.magic /\ cpu'.read = cpu.read /\ cpu'.write = cpu.write
           /\ cpu'.buf = [cpu.buf EXCEPT ![i] = b] /\ ram' \in {ram, cpu, cpu'}
           /\ \A o \in Index : ram'.buf[o] # cpu'.buf[o] => o = i \/ ram.buf[o] # cpu.buf[o]
  <1>1. /\ cpu' = [cpu EXCEPT !.buf[i] = b] /\ build' = build
        /\ ram' = (IF build.ram = "plain" THEN cpu' ELSE IF held = BufWord(i) THEN ram ELSE cpu)
        /\ held' = IF build.ram = "plain" THEN NoWord ELSE BufWord(i)
    BY DEF StoreByte, Store
  <1>2. /\ cpu' \in Image
        /\ cpu'.magic = cpu.magic /\ cpu'.read = cpu.read /\ cpu'.write = cpu.write
        /\ cpu'.buf = [cpu.buf EXCEPT ![i] = b]
    BY <1>1 DEF ImagesOK, Image
  <1>3. \A o \in Index : cpu'.buf[o] # cpu.buf[o] => o = i
    <2>1. cpu.buf \in [Index -> Bytes]
      BY ImageFields DEF ImagesOK
    <2> QED  BY <1>2, <2>1
  <1>4. BufWord(i) # NoWord
    BY DEF BufWord, NoWord
  <1>5. CASE build.ram = "plain"
    <2>1. ram' = cpu' /\ build' = build
      BY <1>1, <1>5
    <2>2. ImagesOK'
      BY <1>2, <2>1 DEF ImagesOK
    <2>3. Apart'
      BY <1>5, <2>1 DEF Apart
    <2> QED  BY <1>2, <2>1, <2>2, <2>3
  <1>6. CASE build.ram # "plain" /\ held = BufWord(i)
    <2>1. ram' = ram /\ held' = BufWord(i) /\ build' = build
      BY <1>1, <1>6
    <2>2. ImagesOK'
      BY <1>2, <1>4, <2>1 DEF ImagesOK
    <2>3. \A o \in Index : ram'.buf[o] # cpu'.buf[o] => o = i \/ ram.buf[o] # cpu.buf[o]
      BY <1>3, <2>1
    <2>4. \A o \in Index : ram'.buf[o] # cpu'.buf[o] => held' = BufWord(o)
      BY <1>6, <2>1, <2>3 DEF Apart
    <2>5. ram.read = cpu.read /\ ram.write = cpu.write
      BY <1>6 DEF Apart
    <2>6. Apart'
      BY <1>2, <1>6, <2>1, <2>4, <2>5 DEF Apart, BufWord
    <2> QED  BY <1>2, <2>1, <2>2, <2>3, <2>6
  <1>7. CASE build.ram # "plain" /\ held # BufWord(i)
    <2>1. ram' = cpu /\ held' = BufWord(i) /\ build' = build
      BY <1>1, <1>7
    <2>2. ImagesOK'
      BY <1>2, <1>4, <2>1 DEF ImagesOK
    <2>3. \A o \in Index : ram'.buf[o] # cpu'.buf[o] => o = i
      BY <1>3, <2>1
    <2>4. Apart'
      BY <1>2, <1>7, <2>1, <2>3 DEF Apart, BufWord
    <2> QED  BY <1>2, <2>1, <2>2, <2>3, <2>4
  <1> QED  BY <1>5, <1>6, <1>7

\* With both images equal there is nothing to hold apart.
LEMMA Level ==
    ASSUME build' = build, build \in Builds, cpu' \in Image, ram' = cpu'
    PROVE  ImagesOK' /\ Apart' /\ Dirty'
  BY DEF ImagesOK, Apart, Dirty, BufWord

LEMMA FlushFacts ==
    ASSUME ImagesOK, Apart, FlushEcc
    PROVE  ram' = cpu' /\ cpu' = cpu /\ build' = build /\ ImagesOK' /\ Apart' /\ Dirty'
  <1>1. cpu' = cpu /\ build' = build
    BY DEF FlushEcc
  <1>2. ram' = cpu
    <2>1. CASE build.ecc
      BY <2>1 DEF FlushEcc
    <2>2. CASE ~build.ecc
      BY <2>2, BuildKinds DEF FlushEcc, Apart
    <2> QED  BY <2>1, <2>2
  <1> QED  BY <1>1, <1>2, Level DEF ImagesOK

LEMMA NoDirty ==
    ASSUME ImagesOK, Dirty, ppc # "copy"
    PROVE  ram.buf = cpu.buf
  <1>1. ram.buf \in [Index -> Bytes] /\ cpu.buf \in [Index -> Bytes]
    BY ImageFields DEF ImagesOK
  <1>2. \A o \in Index : ram.buf[o] = cpu.buf[o]
    BY DEF Dirty
  <1> QED  BY <1>1, <1>2

-----------------------------------------------------------------------------
(* The steps of recovery *)

\* A step of recovery that leaves the data alone: what remains to be shown is
\* that it takes recovery to where it claims to be.
LEMMA QuietStep ==
    ASSUME Steady, phase # "ready", UNCHANGED <<pvars, cvars>>,
           ImagesOK', Apart', Dirty', Progress'
    PROVE  Steady'
  <1>1. ppc = "idle" /\ cpc = "idle"
    BY DEF Steady, Progress
  <1>2. WriteFits'
    BY <1>1 DEF Steady, WriteFits, pvars
  <1>3. GrantFits'
    BY <1>1 DEF Steady, GrantFits, cvars
  <1> QED  BY <1>2, <1>3 DEF Steady

\* What a store of recovery to a header field does to the logs: both are and
\* stay empty, because recovery touches a field only of such images.
LEMMA EmptyStays ==
    ASSUME ImagesOK, Apart, FieldStored, ram.buf = cpu.buf,
           Log(ram) = Log(cpu), Empty(cpu), Empty(cpu')
    PROVE  Log(ram) = <<>> /\ Log(cpu) = <<>> /\ Log(cpu') = <<>> /\ Log(ram') = <<>>
  <1>1. Log(cpu) = <<>> /\ Log(ram) = <<>> /\ Log(cpu') = <<>>
    BY EmptyLog DEF ImagesOK, FieldStored
  <1>2. CASE build.ram = "ecc32"
    <2>1. ram' = cpu'
      BY <1>2 DEF FieldStored, Image
    <2> QED  BY <1>1, <2>1
  <1>3. CASE build.ram # "ecc32"
    <2>1. ram' \in {ram, cpu, cpu'}
      BY <1>3 DEF FieldStored
    <2> QED  BY <1>1, <2>1
  <1> QED  BY <1>2, <1>3

\* A store of recovery to a header field.
LEMMA QuietStore ==
    ASSUME IInv, phase # "ready", UNCHANGED <<pvars, cvars>>, FieldStored, Progress',
           Empty(cpu), Empty(cpu')
    PROVE  IInv' /\ Log(cpu') = Log(cpu) /\ Log(ram') = Log(ram)
  <1>1. ppc = "idle" /\ cpc = "idle" /\ Log(ram) = Log(cpu)
    BY DEF IInv, Steady, Progress, Idle
  <1>2. ImagesOK /\ Apart /\ Dirty
    BY DEF IInv, Steady
  <1>3. ram.buf = cpu.buf
    BY <1>1, <1>2, NoDirty
  <1>4. Log(ram) = <<>> /\ Log(cpu) = <<>> /\ Log(cpu') = <<>> /\ Log(ram') = <<>>
    BY <1>1, <1>2, <1>3, EmptyStays
  <1>5. /\ ImagesOK' /\ Apart'
        /\ \A o \in Index : ram'.buf[o] # cpu'.buf[o] => ram.buf[o] # cpu.buf[o]
    BY <1>2, FieldStoreKeeps
  <1>6. Dirty'
    BY <1>3, <1>5 DEF Dirty
  <1>7. Steady'
    BY <1>5, <1>6, QuietStep DEF IInv
  <1> QED  BY <1>4, <1>7 DEF IInv, Idle

\* A flush of recovery, or no store at all.
LEMMA QuietFlush ==
    ASSUME IInv, phase # "ready", UNCHANGED <<pvars, cvars>>,
           FlushEcc \/ UNCHANGED memory, Progress'
    PROVE  IInv' /\ Log(cpu') = Log(cpu) /\ Log(ram') = Log(ram)
  <1>1. ppc = "idle" /\ cpc = "idle" /\ Log(ram) = Log(cpu)
    BY DEF IInv, Steady, Progress, Idle
  <1>2. CASE FlushEcc
    <2>1. ram' = cpu' /\ cpu' = cpu /\ ImagesOK' /\ Apart' /\ Dirty'
      BY <1>2, FlushFacts DEF IInv, Steady
    <2>2. Steady'
      BY <2>1, QuietStep DEF IInv
    <2> QED  BY <1>1, <2>1, <2>2 DEF IInv, Idle
  <1>3. CASE UNCHANGED memory
    <2>1. ram' = ram /\ cpu' = cpu /\ ppc' = ppc
      BY <1>3 DEF memory, pvars
    <2>2. ImagesOK' /\ Apart' /\ Dirty'
      BY <1>3, <2>1 DEF IInv, Steady, ImagesOK, Apart, Dirty, memory, pvars, BufWord
    <2>3. Steady'
      BY <2>2, QuietStep DEF IInv
    <2> QED  BY <1>1, <2>1, <2>3 DEF IInv, Idle
  <1> QED  BY <1>2, <1>3

\* What each store of recovery needs to know.
LEMMA RecoveryFacts ==
    ASSUME IInv
    PROVE  /\ ImagesOK /\ Apart /\ cpu \in Image /\ N \in Nat /\ N > 0 /\ 0 \in 0 .. N
           /\ cpu.read \in 0 .. N /\ cpu.write \in 0 .. N /\ cpu.magic \subseteq HeaderWords
           /\ phase # "store magic" => stored = {}
           /\ HeaderWords # {}
  <1>1. ImagesOK /\ Apart /\ Progress
    BY DEF IInv, Steady
  <1>2. cpu \in Image
    BY <1>1 DEF ImagesOK
  <1>3. cpu.read \in 0 .. N /\ cpu.write \in 0 .. N /\ cpu.magic \subseteq HeaderWords
    BY <1>2, ImageFields
  <1>4. N \in Nat /\ N > 0 /\ 0 \in 0 .. N
    BY NAssumption
  <1>5. phase # "store magic" => stored = {}
    BY <1>1 DEF Progress
  <1> QED  BY <1>1, <1>2, <1>3, <1>4, <1>5, PersistAssumption

SameLogs == Log(cpu') = Log(cpu) /\ Log(ram') = Log(ram)

LEMMA ZeroReadStep ==
    ASSUME IInv, ZeroRead
    PROVE  IInv' /\ SameLogs
  <1>1. /\ ~HeaderOk(cpu) /\ phase = "boot" /\ StoreRead(0) /\ phase' = "zero write"
        /\ stored' = stored /\ UNCHANGED <<pvars, cvars>>
    BY DEF ZeroRead, Recovery
  <1>2. FieldStored /\ cpu'.read = 0 /\ cpu'.magic = cpu.magic
    BY <1>1, RecoveryFacts, StoreReadFacts
  <1>3. ~HeaderOk(cpu')
    BY <1>1, <1>2 DEF HeaderOk
  <1>4. Progress'
    BY <1>1, <1>2, <1>3, RecoveryFacts DEF Progress, pvars, cvars, IInv, Steady
  <1> QED  BY <1>1, <1>2, <1>3, <1>4, QuietStore DEF Empty, SameLogs

LEMMA ZeroWriteStep ==
    ASSUME IInv, ZeroWrite
    PROVE  IInv' /\ SameLogs
  <1>1. /\ phase = "zero write" /\ StoreWrite(0) /\ phase' = "flush zeroed"
        /\ stored' = stored /\ UNCHANGED <<pvars, cvars>>
    BY DEF ZeroWrite, Recovery
  <1>2. ~HeaderOk(cpu) /\ cpu.read = 0
    BY <1>1 DEF IInv, Steady, Progress
  <1>3. FieldStored /\ cpu'.write = 0 /\ cpu'.read = cpu.read /\ cpu'.magic = cpu.magic
    BY <1>1, RecoveryFacts, StoreWriteFacts
  <1>4. ~HeaderOk(cpu')
    BY <1>2, <1>3 DEF HeaderOk
  <1>5. Progress'
    BY <1>1, <1>2, <1>3, RecoveryFacts DEF Progress, pvars, cvars, IInv, Steady
  <1> QED  BY <1>1, <1>2, <1>3, <1>4, <1>5, QuietStore DEF Empty, SameLogs

LEMMA FlushZeroedStep ==
    ASSUME IInv, FlushZeroed
    PROVE  IInv' /\ SameLogs
  <1>1. /\ phase = "flush zeroed" /\ FlushEcc /\ phase' = "store magic"
        /\ stored' = stored /\ UNCHANGED <<pvars, cvars>>
    BY DEF FlushZeroed, Recovery
  <1>2. cpu' = cpu
    BY <1>1 DEF FlushEcc
  <1>3. Progress'
    BY <1>1, <1>2, RecoveryFacts DEF Progress, pvars, cvars, IInv, Steady
  <1> QED  BY <1>1, <1>3, QuietFlush DEF SameLogs

LEMMA StoreHeaderStep ==
    ASSUME IInv, StoreHeader
    PROVE  IInv' /\ SameLogs
  <1>1. PICK k \in HeaderWords \ stored :
           /\ StoreMagic(k)
           /\ stored' = IF stored \cup {k} = HeaderWords THEN {} ELSE stored \cup {k}
           /\ phase' = IF stored \cup {k} = HeaderWords THEN "ready" ELSE phase
    BY DEF StoreHeader
  <1>2. phase = "store magic" /\ UNCHANGED <<pvars, cvars>>
    BY DEF StoreHeader
  <1>3. /\ cpu.read = 0 /\ cpu.write = 0 /\ stored \subseteq cpu.magic
        /\ stored \subseteq HeaderWords
    BY <1>2 DEF IInv, Steady, Progress
  <1>4. /\ FieldStored /\ cpu'.read = 0 /\ cpu'.write = 0
        /\ cpu'.magic = cpu.magic \cup {k}
    BY <1>1, <1>3, RecoveryFacts, StoreMagicFacts
  <1>5. Progress'
    <2>1. CASE stored \cup {k} = HeaderWords
      <3>1. stored' = {} /\ phase' = "ready"
        BY <1>1, <2>1
      <3>2. cpu'.magic = HeaderWords
        BY <1>3, <1>4, <2>1, RecoveryFacts
      <3>3. HeaderOk(cpu)' /\ IndicesOk(cpu)'
        BY <1>4, <3>2, RecoveryFacts DEF HeaderOk, IndicesOk
      <3> QED  BY <3>1, <3>3, RecoveryFacts DEF Progress
    <2>2. CASE stored \cup {k} # HeaderWords
      <3>1. stored' = stored \cup {k} /\ phase' = "store magic"
        BY <1>1, <1>2, <2>2
      <3>2. ppc' = "idle" /\ cpc' = "idle"
        BY <1>2 DEF IInv, Steady, Progress, pvars, cvars
      <3> QED  BY <1>1, <1>3, <1>4, <2>2, <3>1, <3>2 DEF Progress
    <2> QED  BY <2>1, <2>2
  <1> QED  BY <1>2, <1>3, <1>4, <1>5, QuietStore DEF Empty, SameLogs

LEMMA KeepIndicesStep ==
    ASSUME IInv, KeepIndices
    PROVE  IInv' /\ SameLogs
  <1>1. /\ phase = "boot" /\ UNCHANGED memory /\ phase' = "flush repaired"
        /\ stored' = stored /\ UNCHANGED <<pvars, cvars>>
        /\ HeaderOk(cpu) /\ IndicesOk(cpu)
    BY DEF KeepIndices, Recovery, Valid, IndicesOk
  <1>2. cpu' = cpu
    BY <1>1 DEF memory
  <1>3. Progress'
    BY <1>1, <1>2, RecoveryFacts DEF Progress, pvars, cvars, IInv, Steady
  <1> QED  BY <1>1, <1>3, QuietFlush DEF SameLogs

LEMMA RepairWriteStep ==
    ASSUME IInv, RepairWrite
    PROVE  IInv' /\ SameLogs
  <1>1. /\ phase = "boot" /\ StoreWrite(cpu.read) /\ phase' = "flush repaired"
        /\ stored' = stored /\ UNCHANGED <<pvars, cvars>>
        /\ HeaderOk(cpu) /\ cpu.read < N /\ ~(cpu.write < N)
    BY DEF RepairWrite, Recovery, Valid
  <1>2. FieldStored /\ cpu'.write = cpu.read /\ cpu'.read = cpu.read /\ cpu'.magic = cpu.magic
    BY <1>1, RecoveryFacts, StoreWriteFacts
  <1>3. HeaderOk(cpu') /\ IndicesOk(cpu')
    BY <1>1, <1>2 DEF HeaderOk, IndicesOk
  <1>4. Progress'
    BY <1>1, <1>2, <1>3, RecoveryFacts DEF Progress, pvars, cvars, IInv, Steady
  <1>5. Empty(cpu) /\ Empty(cpu')
    BY <1>1, <1>2 DEF Empty, IndicesOk
  <1> QED  BY <1>1, <1>2, <1>4, <1>5, QuietStore DEF SameLogs

LEMMA RepairReadStep ==
    ASSUME IInv, RepairRead
    PROVE  IInv' /\ SameLogs
  <1>1. /\ phase = "boot" /\ StoreRead(cpu.write) /\ phase' = "flush repaired"
        /\ stored' = stored /\ UNCHANGED <<pvars, cvars>>
        /\ HeaderOk(cpu) /\ ~(cpu.read < N) /\ cpu.write < N
    BY DEF RepairRead, Recovery, Valid
  <1>2. FieldStored /\ cpu'.read = cpu.write /\ cpu'.write = cpu.write /\ cpu'.magic = cpu.magic
    BY <1>1, RecoveryFacts, StoreReadFacts
  <1>3. HeaderOk(cpu') /\ IndicesOk(cpu')
    BY <1>1, <1>2 DEF HeaderOk, IndicesOk
  <1>4. Progress'
    BY <1>1, <1>2, <1>3, RecoveryFacts DEF Progress, pvars, cvars, IInv, Steady
  <1>5. Empty(cpu) /\ Empty(cpu')
    BY <1>1, <1>2 DEF Empty, IndicesOk
  <1> QED  BY <1>1, <1>2, <1>4, <1>5, QuietStore DEF SameLogs

LEMMA RepairBothStep ==
    ASSUME IInv, RepairBoth
    PROVE  IInv' /\ SameLogs
  <1>1. /\ phase = "boot" /\ StoreRead(0) /\ phase' = "repair write"
        /\ stored' = stored /\ UNCHANGED <<pvars, cvars>>
        /\ HeaderOk(cpu) /\ ~(cpu.read < N) /\ ~(cpu.write < N)
    BY DEF RepairBoth, Recovery, Valid
  <1>2. FieldStored /\ cpu'.read = 0 /\ cpu'.write = cpu.write /\ cpu'.magic = cpu.magic
    BY <1>1, RecoveryFacts, StoreReadFacts
  <1>3. cpu.write = N /\ HeaderOk(cpu')
    <2>1. cpu.write \in 0 .. N /\ ~(cpu.write < N)
      BY <1>1, RecoveryFacts
    <2>2. cpu.write = N
      BY <2>1, NAssumption
    <2> QED  BY <1>1, <1>2, <2>2 DEF HeaderOk
  <1>4. Progress'
    BY <1>1, <1>2, <1>3, RecoveryFacts DEF Progress, pvars, cvars, IInv, Steady
  <1>5. Empty(cpu) /\ Empty(cpu')
    BY <1>1, <1>2 DEF Empty, IndicesOk
  <1> QED  BY <1>1, <1>2, <1>4, <1>5, QuietStore DEF SameLogs

LEMMA RepairBothWriteStep ==
    ASSUME IInv, RepairBothWrite
    PROVE  IInv' /\ SameLogs
  <1>1. /\ phase = "repair write" /\ StoreWrite(0) /\ phase' = "flush repaired"
        /\ stored' = stored /\ UNCHANGED <<pvars, cvars>>
    BY DEF RepairBothWrite, Recovery
  <1>2. HeaderOk(cpu) /\ cpu.read = 0 /\ cpu.write = N
    BY <1>1 DEF IInv, Steady, Progress
  <1>3. FieldStored /\ cpu'.write = 0 /\ cpu'.read = 0 /\ cpu'.magic = cpu.magic
    BY <1>1, <1>2, RecoveryFacts, StoreWriteFacts
  <1>4. HeaderOk(cpu') /\ IndicesOk(cpu')
    BY <1>2, <1>3, RecoveryFacts DEF HeaderOk, IndicesOk
  <1>5. Progress'
    BY <1>1, <1>3, <1>4, RecoveryFacts DEF Progress, pvars, cvars, IInv, Steady
  <1>6. Empty(cpu) /\ Empty(cpu')
    BY <1>2, <1>3, NAssumption DEF Empty, IndicesOk
  <1> QED  BY <1>1, <1>3, <1>5, <1>6, QuietStore DEF SameLogs

LEMMA FlushRepairedStep ==
    ASSUME IInv, FlushRepaired
    PROVE  IInv' /\ SameLogs
  <1>1. /\ phase = "flush repaired" /\ FlushEcc /\ phase' = "ready"
        /\ stored' = stored /\ UNCHANGED <<pvars, cvars>>
    BY DEF FlushRepaired, Recovery
  <1>2. cpu' = cpu
    BY <1>1 DEF FlushEcc
  <1>3. Progress'
    BY <1>1, <1>2, RecoveryFacts DEF Progress, pvars, cvars, IInv, Steady
  <1> QED  BY <1>1, <1>3, QuietFlush DEF SameLogs

LEMMA RecoverStep ==
    ASSUME IInv, Recover
    PROVE  IInv' /\ SameLogs
  BY ZeroReadStep, ZeroWriteStep, FlushZeroedStep, StoreHeaderStep, KeepIndicesStep,
     RepairWriteStep, RepairReadStep, RepairBothStep, RepairBothWriteStep, FlushRepairedStep
  DEF Recover

-----------------------------------------------------------------------------
(* The steps of the calls *)

\* While a call is under way, or may start, recovery is done.
LEMMA ReadyFacts ==
    ASSUME Steady, phase = "ready" \/ ppc # "idle" \/ cpc # "idle"
    PROVE  /\ phase = "ready" /\ stored = {} /\ HeaderOk(cpu) /\ IndicesOk(cpu)
           /\ cpu \in Image /\ cpu.read \in Index /\ cpu.write \in Index
           /\ cpu.buf \in [Index -> Bytes] /\ Dist(cpu.read, cpu.write) \in 0 .. N - 1
           /\ ImagesOK /\ Apart
  <1>1. phase = "ready" /\ stored = {} /\ HeaderOk(cpu) /\ IndicesOk(cpu)
    BY DEF Steady, Progress
  <1>2. cpu \in Image /\ ImagesOK /\ Apart
    BY DEF Steady, ImagesOK
  <1>3. cpu.read \in Index /\ cpu.write \in Index /\ cpu.buf \in [Index -> Bytes]
    BY <1>1, <1>2, ImageFields DEF IndicesOk
  <1> QED  BY <1>1, <1>2, <1>3, DistType

\* A call's step leaves recovery where it is, as long as the program's own
\* image stays acceptable.
LEMMA StillReady ==
    ASSUME Steady, phase = "ready" \/ ppc # "idle" \/ cpc # "idle",
           UNCHANGED <<phase, stored>>,
           cpu'.magic = cpu.magic, cpu'.read \in Index, cpu'.write \in Index
    PROVE  Progress'
  <1>1. phase = "ready" /\ stored = {} /\ HeaderOk(cpu)
    BY ReadyFacts
  <1>2. HeaderOk(cpu') /\ IndicesOk(cpu')
    BY <1>1, NAssumption DEF HeaderOk, IndicesOk, Index
  <1> QED  BY <1>1, <1>2, PersistAssumption DEF Progress

\* A step that leaves the memory alone leaves what is said of it alone.
LEMMA MemoryKept ==
    ASSUME Steady, UNCHANGED memory
    PROVE  /\ ImagesOK' /\ Apart' /\ cpu' = cpu /\ ram' = ram
           /\ ppc # "copy" => Dirty'
  BY DEF Steady, ImagesOK, Apart, Dirty, memory, BufWord

\* A call that is over has nothing that must fit.
LEMMA NothingFits ==
    /\ <<>> \in Seq(Bytes) /\ 0 \in 0 .. Len(<<>>) /\ {} \subseteq 0 .. 0 - 1
    /\ 0 \in 0 .. N - 1
  BY NAssumption

LEMMA NoWrite ==
    ASSUME ppc' \in {"idle", "flush index"}, data' = <<>>, len' = 0, copied' = {}
    PROVE  WriteFits'
  <1>1. /\ data' \in Seq(Bytes) /\ len' \in 0 .. Len(data') /\ copied' \subseteq 0 .. len' - 1
    BY NothingFits, Zenon
  <1>2. ppc' \notin {"copy", "publish"}
    OBVIOUS
  <1> QED  BY <1>1, <1>2, Zenon DEF WriteFits

LEMMA NoGrant ==
    ASSUME cpc' \in {"idle", "flush index"}, len1' = 0, len2' = 0
    PROVE  GrantFits'
  <1>1. cpc' # "granted" /\ cpc' \in {"idle", "granted", "flush index"}
    OBVIOUS
  <1> QED  BY <1>1, NothingFits, Zenon DEF GrantFits

LEMMA BeginWriteStep ==
    ASSUME IInv, BeginWrite
    PROVE  IInv'
  <1>1. PICK d \in Data :
           /\ Kept(Len(d), cpu.read, cpu.write) > 0
           /\ data' = d /\ len' = Kept(Len(d), cpu.read, cpu.write)
    BY DEF BeginWrite
  <1>2. /\ phase = "ready" /\ ppc = "idle" /\ ppc' = "copy" /\ copied' = {}
        /\ UNCHANGED <<memory, phase, stored, cvars>>
    BY DEF BeginWrite, Ready
  <1>3. Steady
    BY DEF IInv
  <1>4. cpu.read \in Index /\ cpu.write \in Index
    BY <1>2, <1>3, ReadyFacts
  <1>5. d \in Seq(Bytes) /\ Len(d) \in Nat
    BY PersistAssumption
  <1>6. /\ Available(cpu.read, cpu.write) = N - 1 - Dist(cpu.read, cpu.write)
        /\ Available(cpu.read, cpu.write) \in 0 .. N - 1
    BY <1>4, AvailableIsExact
  <1>7. /\ len' \in 0 .. Len(d) /\ len' > 0 /\ len' <= N - 1 - Dist(cpu.read, cpu.write)
    BY <1>1, <1>5, <1>6 DEF Kept
  <1>8. ImagesOK' /\ Apart' /\ cpu' = cpu /\ Dirty'
    BY <1>2, <1>3, MemoryKept
  <1>9. Progress'
    BY <1>2, <1>3, <1>4, <1>8, StillReady
  <1>10. WriteFits'
    BY <1>1, <1>2, <1>5, <1>7, <1>8 DEF WriteFits
  <1>11. GrantFits'
    BY <1>2, <1>3, <1>8 DEF Steady, GrantFits, cvars
  <1> QED  BY <1>2, <1>8, <1>9, <1>10, <1>11 DEF IInv, Steady, Idle

\* Two bytes of a write never go to one slot.
LEMMA CopyIsInjective ==
    ASSUME NEW read \in Index, NEW write \in Index,
           NEW n \in 0 .. N - 1 - Dist(read, write),
           NEW i \in 0 .. n - 1, NEW j \in 0 .. n - 1,
           CopyOffset(write, n, i) = CopyOffset(write, n, j)
    PROVE  i = j
  <1>2. Dist(read, write) \in 0 .. N - 1
    BY DistType
  <1>3. n \in Nat /\ n <= N - 1
    BY <1>2, NAssumption
  <1>4. i \in Nat /\ j \in Nat /\ i < N /\ j < N
    BY <1>3, NAssumption
  <1> QED  BY <1>3, <1>4, NAssumption DEF CopyOffset, Index

LEMMA CopyByteStep ==
    ASSUME IInv, CopyByte
    PROVE  IInv' /\ ram' \in {ram, cpu, cpu'} /\ Log(cpu') = Log(cpu)
  <1> DEFINE At(i) == CopyOffset(cpu.write, len, i)
  <1>1. PICK i \in (0 .. len - 1) \ copied :
           StoreByte(At(i), data[i + 1]) /\ copied' = copied \cup {i}
    BY DEF CopyByte
  <1>2. ppc = "copy" /\ UNCHANGED <<phase, stored, ppc, data, len, cvars>>
    BY DEF CopyByte
  <1>3. Steady
    BY DEF IInv
  <1>4. /\ phase = "ready" /\ HeaderOk(cpu) /\ IndicesOk(cpu) /\ cpu \in Image
        /\ cpu.read \in Index /\ cpu.write \in Index
        /\ cpu.buf \in [Index -> Bytes] /\ ImagesOK /\ Apart
    BY <1>2, <1>3, ReadyFacts
  <1>5. /\ data \in Seq(Bytes) /\ len \in 0 .. Len(data) /\ copied \subseteq 0 .. len - 1
        /\ len > 0 /\ len <= N - 1 - Dist(cpu.read, cpu.write)
        /\ \A j \in copied : cpu.buf[At(j)] = data[j + 1]
    BY <1>2, <1>3 DEF Steady, WriteFits
  <1>6. len \in 0 .. N - 1 - Dist(cpu.read, cpu.write)
    BY <1>4, <1>5, DistType, NAssumption
  <1>7. /\ At(i) \in Index /\ At(i) \notin Owned(cpu.read, cpu.write)
        /\ \A j \in 0 .. len - 1 : At(j) \in Index
    BY <1>4, <1>6, CopyStaysInFreeSpace
  <1>8. data[i + 1] \in Bytes
    BY <1>5
  <1>9. /\ ImagesOK' /\ Apart'
        /\ cpu'.magic = cpu.magic /\ cpu'.read = cpu.read /\ cpu'.write = cpu.write
        /\ cpu'.buf = [cpu.buf EXCEPT ![At(i)] = data[i + 1]] /\ ram' \in {ram, cpu, cpu'}
        /\ \A o \in Index : ram'.buf[o] # cpu'.buf[o] => o = At(i) \/ ram.buf[o] # cpu.buf[o]
    BY <1>1, <1>4, <1>7, <1>8, ByteStoreFacts
  <1>10. Dirty'
    <2>1. \A o \in Index : ram.buf[o] # cpu.buf[o] => \E j \in copied : o = At(j)
      BY <1>3 DEF Steady, Dirty
    <2>2. \A o \in Index : ram'.buf[o] # cpu'.buf[o] => \E j \in copied' : o = At(j)
      BY <1>1, <1>9, <2>1
    <2> QED  BY <1>2, <1>9, <2>2 DEF Dirty
  <1>11. Progress'
    BY <1>2, <1>3, <1>4, <1>9, StillReady
  <1>12. WriteFits'
    <2>1. ASSUME NEW j \in copied'
          PROVE  cpu'.buf[At(j)] = data[j + 1]
      <3>1. CASE j = i
        BY <1>4, <1>7, <1>9, <3>1
      <3>2. CASE j # i
        <4>1. j \in copied /\ j \in 0 .. len - 1
          BY <1>1, <1>5, <3>2
        <4>2. At(j) # At(i)
          BY <1>4, <1>6, <3>2, <4>1, CopyIsInjective
        <4>3. cpu'.buf[At(j)] = cpu.buf[At(j)]
          BY <1>4, <1>7, <1>9, <4>1, <4>2
        <4> QED  BY <1>5, <4>1, <4>3
      <3> QED  BY <3>1, <3>2
    <2>2. copied' \subseteq 0 .. len - 1
      BY <1>1, <1>5
    <2> QED  BY <1>2, <1>5, <1>9, <2>1, <2>2 DEF WriteFits
  <1>13. GrantFits'
    BY <1>2, <1>3, <1>9 DEF Steady, GrantFits, cvars
  <1>14. Log(cpu') = Log(cpu)
    <2>1. \A o \in Owned(cpu.read, cpu.write) : cpu'.buf[o] = cpu.buf[o]
      <3>1. Owned(cpu.read, cpu.write) \subseteq Index
        BY <1>4, OwnedSlots
      <3> QED  BY <1>4, <1>7, <1>9, <3>1
    <2>2. cpu' \in Image
      BY <1>9 DEF ImagesOK
    <2> QED  BY <1>4, <1>9, <2>1, <2>2, LogsEqual
  <1> QED  BY <1>2, <1>9, <1>10, <1>11, <1>12, <1>13, <1>14 DEF IInv, Steady, Idle

LEMMA FlushDataStep ==
    ASSUME IInv, FlushData
    PROVE  IInv' /\ cpu' = cpu /\ ram' = cpu
  <1>1. /\ ppc = "copy" /\ copied = 0 .. len - 1 /\ FlushEcc /\ ppc' = "publish"
        /\ UNCHANGED <<phase, stored, data, len, copied, cvars>>
    BY DEF FlushData
  <1>2. Steady
    BY DEF IInv
  <1>3. cpu.read \in Index /\ cpu.write \in Index /\ ImagesOK /\ Apart
    BY <1>1, <1>2, ReadyFacts
  <1>4. ram' = cpu' /\ cpu' = cpu /\ ImagesOK' /\ Apart' /\ Dirty'
    BY <1>1, <1>3, FlushFacts
  <1>5. Progress'
    BY <1>1, <1>2, <1>3, <1>4, StillReady
  <1>6. WriteFits'
    BY <1>1, <1>2, <1>4 DEF Steady, WriteFits
  <1>7. GrantFits'
    BY <1>1, <1>2, <1>4 DEF Steady, GrantFits, cvars
  <1> QED  BY <1>1, <1>4, <1>5, <1>6, <1>7 DEF IInv, Steady, Idle

LEMMA PublishStep ==
    ASSUME IInv, Publish
    PROVE  /\ IInv' /\ FieldStored /\ ram.buf = cpu.buf
           /\ cpu'.magic = cpu.magic /\ cpu'.read = cpu.read
           /\ cpu'.write = NextWrite(cpu.write, len)
  <1>1. /\ ppc = "publish" /\ StoreWrite(NextWrite(cpu.write, len)) /\ ppc' = "flush index"
        /\ data' = <<>> /\ len' = 0 /\ copied' = {}
        /\ UNCHANGED <<phase, stored, cvars>>
    BY DEF Publish
  <1>2. Steady
    BY DEF IInv
  <1>3. /\ cpu.read \in Index /\ cpu.write \in Index /\ ImagesOK /\ Apart
        /\ Dist(cpu.read, cpu.write) \in 0 .. N - 1
    BY <1>1, <1>2, ReadyFacts
  <1>4. len \in 0 .. N - 1 - Dist(cpu.read, cpu.write)
    <2>1. /\ data \in Seq(Bytes) /\ len \in 0 .. Len(data)
          /\ len <= N - 1 - Dist(cpu.read, cpu.write)
      BY <1>1, <1>2 DEF Steady, WriteFits
    <2>2. len \in Nat
      BY <2>1
    <2> QED  BY <1>3, <2>1, <2>2, NAssumption
  <1>5. /\ NextWrite(cpu.write, len) \in Index /\ NextWrite(cpu.write, len) \in 0 .. N
        /\ Dist(cpu.read, NextWrite(cpu.write, len)) = Dist(cpu.read, cpu.write) + len
    <2>1. NextWrite(cpu.write, len) \in Index
      BY <1>3, <1>4, NextWriteDist
    <2> QED  BY <1>3, <1>4, <2>1, NextWriteDist, NAssumption DEF Index
  <1>6. /\ FieldStored /\ cpu'.write = NextWrite(cpu.write, len)
        /\ cpu'.read = cpu.read /\ cpu'.magic = cpu.magic
    BY <1>1, <1>3, <1>5, StoreWriteFacts
  <1>7. ram.buf = cpu.buf
    BY <1>1, <1>2, NoDirty DEF Steady
  <1>8. /\ ImagesOK' /\ Apart'
        /\ \A o \in Index : ram'.buf[o] # cpu'.buf[o] => ram.buf[o] # cpu.buf[o]
    BY <1>3, <1>6, FieldStoreKeeps
  <1>9. Dirty'
    BY <1>7, <1>8 DEF Dirty
  <1>10. Progress'
    BY <1>1, <1>2, <1>3, <1>5, <1>6, StillReady
  <1>11. WriteFits'
    <2>1. ppc' = "flush index" /\ data' = <<>> /\ len' = 0 /\ copied' = {}
      BY <1>1
    <2> QED  BY <2>1, NoWrite
  <1>12. GrantFits'
    <2>1. \A n \in Nat : n <= Dist(cpu.read, cpu.write) => n <= Dist(cpu'.read, cpu'.write)
      BY <1>3, <1>4, <1>5, <1>6
    <2>2. len1 \in 0 .. N - 1 /\ len2 \in 0 .. N - 1
      BY <1>2 DEF Steady, GrantFits
    <2>3. len1 + len2 \in Nat
      BY <2>2, NAssumption
    <2>4. len1 + len2 <= Dist(cpu.read, cpu.write) => len1 + len2 <= Dist(cpu'.read, cpu'.write)
      BY <2>1, <2>3
    <2> QED  BY <1>1, <1>2, <1>6, <2>4 DEF Steady, GrantFits, cvars
  <1> QED  BY <1>1, <1>6, <1>7, <1>8, <1>9, <1>10, <1>11, <1>12 DEF IInv, Steady, Idle

LEMMA EndWriteStep ==
    ASSUME IInv, EndWrite
    PROVE  IInv' /\ cpu' = cpu /\ ram' = cpu
  <1>1. /\ ppc = "flush index" /\ FlushEcc /\ ppc' = "idle"
        /\ UNCHANGED <<phase, stored, data, len, copied, cvars>>
    BY DEF EndWrite
  <1>2. Steady
    BY DEF IInv
  <1>3. cpu.read \in Index /\ cpu.write \in Index /\ ImagesOK /\ Apart
    BY <1>1, <1>2, ReadyFacts
  <1>4. ram' = cpu' /\ cpu' = cpu /\ ImagesOK' /\ Apart' /\ Dirty'
    BY <1>1, <1>3, FlushFacts
  <1>5. Progress'
    BY <1>1, <1>2, <1>3, <1>4, StillReady
  <1>6. WriteFits'
    BY <1>1, <1>2 DEF Steady, WriteFits
  <1>7. GrantFits'
    BY <1>1, <1>2, <1>4 DEF Steady, GrantFits, cvars
  <1> QED  BY <1>1, <1>4, <1>5, <1>6, <1>7 DEF IInv, Steady, Idle

LEMMA ReadGrantStep ==
    ASSUME IInv, ReadGrant
    PROVE  /\ IInv' /\ cpu' = cpu /\ ram' = ram
           /\ len1' + len2' = Dist(cpu.read, cpu.write)
  <1>1. /\ phase = "ready" /\ cpc = "idle" /\ cpc' = "granted"
        /\ len1' = Len1(cpu.read, cpu.write) /\ len2' = Len2(cpu.read, cpu.write)
        /\ UNCHANGED <<memory, phase, stored, pvars>>
    BY DEF ReadGrant, Ready
  <1>2. Steady
    BY DEF IInv
  <1>3. /\ cpu.read \in Index /\ cpu.write \in Index
        /\ Dist(cpu.read, cpu.write) \in 0 .. N - 1
    BY <1>1, <1>2, ReadyFacts
  <1>4. /\ len1' \in 0 .. N - 1 /\ len2' \in 0 .. N - 1
        /\ len1' + len2' = Dist(cpu.read, cpu.write)
        /\ cpu.read + len1' <= N /\ (len2' > 0 => cpu.read + len1' = N)
    <2>1. /\ Len1(cpu.read, cpu.write) \in 0 .. N - 1 /\ Len2(cpu.read, cpu.write) \in 0 .. N - 1
          /\ Len1(cpu.read, cpu.write) + Len2(cpu.read, cpu.write) = Dist(cpu.read, cpu.write)
          /\ cpu.read + Len1(cpu.read, cpu.write) <= N
          /\ cpu.write < cpu.read => cpu.read + Len1(cpu.read, cpu.write) = N
          /\ cpu.write >= cpu.read => Len2(cpu.read, cpu.write) = 0
      BY <1>3, SlicesAreExact
    <2>2. cpu.write < cpu.read \/ cpu.write >= cpu.read
      BY <1>3, NAssumption DEF Index
    <2>3. Len2(cpu.read, cpu.write) > 0 => cpu.read + Len1(cpu.read, cpu.write) = N
      BY <2>1, <2>2
    <2> QED  BY <1>1, <2>1, <2>3
  <1>5. ImagesOK' /\ Apart' /\ cpu' = cpu /\ ram' = ram
    BY <1>1, <1>2, MemoryKept
  <1>6. Dirty'
    BY <1>1, <1>2, <1>5 DEF Steady, Dirty, pvars
  <1>7. Progress'
    BY <1>1, <1>2, <1>3, <1>5, StillReady
  <1>8. WriteFits'
    BY <1>1, <1>2, <1>5 DEF Steady, WriteFits, pvars
  <1>9. GrantFits'
    BY <1>1, <1>3, <1>4, <1>5 DEF GrantFits
  <1>10. Idle'
    BY <1>1, <1>5 DEF IInv, Idle, pvars
  <1> QED  BY <1>4, <1>5, <1>6, <1>7, <1>8, <1>9, <1>10 DEF IInv, Steady

LEMMA ReleaseStep ==
    ASSUME IInv, Release
    PROVE  /\ IInv' /\ FieldStored /\ cpu'.magic = cpu.magic /\ cpu'.write = cpu.write
           /\ \E used \in 0 .. len1 + len2 :
                  /\ Dist(cpu.read, cpu'.read) = used
                  /\ Dist(cpu'.read, cpu.write) = Dist(cpu.read, cpu.write) - used
  <1>1. PICK used \in 0 .. len1 + len2 : StoreRead(NextRead(cpu.read, len1, used))
    BY DEF Release
  <1>2. /\ cpc = "granted" /\ cpc' = "flush index" /\ len1' = 0 /\ len2' = 0
        /\ UNCHANGED <<phase, stored, pvars>>
    BY DEF Release
  <1>3. Steady
    BY DEF IInv
  <1>4. /\ cpu.read \in Index /\ cpu.write \in Index /\ ImagesOK /\ Apart
        /\ Dist(cpu.read, cpu.write) \in 0 .. N - 1
    BY <1>2, <1>3, ReadyFacts
  <1>5. /\ len1 \in 0 .. N - 1 /\ len2 \in 0 .. N - 1
        /\ len1 + len2 <= Dist(cpu.read, cpu.write)
        /\ cpu.read + len1 <= N /\ (len2 > 0 => cpu.read + len1 = N)
    BY <1>2, <1>3 DEF Steady, GrantFits
  <1> DEFINE next == NextRead(cpu.read, len1, used)
  <1>6. /\ next \in Index /\ Dist(cpu.read, next) = used
        /\ Dist(next, cpu.write) = Dist(cpu.read, cpu.write) - used
    BY <1>4, <1>5, NextReadDist
  <1>7. next \in 0 .. N
    BY <1>6, NAssumption DEF Index
  <1>8. /\ FieldStored /\ cpu'.read = next
        /\ cpu'.write = cpu.write /\ cpu'.magic = cpu.magic
    BY <1>1, <1>4, <1>7, StoreReadFacts
  <1> HIDE DEF next
  <1>9. /\ ImagesOK' /\ Apart'
        /\ \A o \in Index : ram'.buf[o] # cpu'.buf[o] => ram.buf[o] # cpu.buf[o]
    BY <1>4, <1>8, FieldStoreKeeps
  <1>10. Dirty'
    BY <1>2, <1>3, <1>8, <1>9 DEF Steady, Dirty, pvars
  <1>11. Progress'
    BY <1>2, <1>3, <1>4, <1>6, <1>8, StillReady
  <1>12. WriteFits'
    <2>1. used \in Nat /\ Dist(cpu.read, cpu.write) \in Nat /\ N \in Nat
      BY <1>4, <1>5, NAssumption
    <2>2. \A n \in Nat : n <= N - 1 - Dist(cpu.read, cpu.write) =>
                          n <= N - 1 - Dist(next, cpu.write)
      BY <1>6, <2>1
    <2>3. cpu'.buf = cpu.buf
      BY <1>8 DEF FieldStored
    <2>4. data \in Seq(Bytes) /\ len \in 0 .. Len(data)
      BY <1>3 DEF Steady, WriteFits
    <2>5. len \in Nat
      BY <2>4
    <2>6. len <= N - 1 - Dist(cpu.read, cpu.write) => len <= N - 1 - Dist(cpu'.read, cpu'.write)
      BY <1>8, <2>2, <2>5
    <2> QED  BY <1>2, <1>3, <1>8, <2>3, <2>6 DEF Steady, WriteFits, pvars
  <1>13. GrantFits'
    <2>1. cpc' = "flush index" /\ len1' = 0 /\ len2' = 0
      BY <1>2
    <2> QED  BY <2>1, NoGrant
  <1>14. IInv'
    BY <1>2, <1>9, <1>10, <1>11, <1>12, <1>13 DEF IInv, Steady, Idle
  <1> QED  BY <1>6, <1>8, <1>14

LEMMA EndReleaseStep ==
    ASSUME IInv, EndRelease
    PROVE  IInv' /\ cpu' = cpu /\ ram' = cpu
  <1>1. /\ cpc = "flush index" /\ FlushEcc /\ cpc' = "idle"
        /\ UNCHANGED <<phase, stored, pvars, len1, len2>>
    BY DEF EndRelease
  <1>2. Steady
    BY DEF IInv
  <1>3. cpu.read \in Index /\ cpu.write \in Index /\ ImagesOK /\ Apart
    BY <1>1, <1>2, ReadyFacts
  <1>4. ram' = cpu' /\ cpu' = cpu /\ ImagesOK' /\ Apart' /\ Dirty'
    BY <1>1, <1>3, FlushFacts
  <1>5. Progress'
    BY <1>1, <1>2, <1>3, <1>4, StillReady
  <1>6. WriteFits'
    BY <1>1, <1>2, <1>4 DEF Steady, WriteFits, pvars
  <1>7. GrantFits'
    BY <1>1, <1>2 DEF Steady, GrantFits
  <1> QED  BY <1>1, <1>4, <1>5, <1>6, <1>7 DEF IInv, Steady, Idle

LEMMA DropGrantStep ==
    ASSUME IInv, DropGrant
    PROVE  IInv' /\ cpu' = cpu /\ ram' = ram
  <1>1. /\ cpc = "granted" /\ cpc' = "idle" /\ len1' = 0 /\ len2' = 0
        /\ UNCHANGED <<memory, phase, stored, pvars>>
    BY DEF DropGrant
  <1>2. Steady
    BY DEF IInv
  <1>3. cpu.read \in Index /\ cpu.write \in Index
    BY <1>1, <1>2, ReadyFacts
  <1>4. ImagesOK' /\ Apart' /\ cpu' = cpu /\ ram' = ram
    BY <1>1, <1>2, MemoryKept
  <1>5. Dirty'
    BY <1>1, <1>2, <1>4 DEF Steady, Dirty, pvars
  <1>6. Progress'
    BY <1>1, <1>2, <1>3, <1>4, StillReady
  <1>7. WriteFits'
    BY <1>1, <1>2, <1>4 DEF Steady, WriteFits, pvars
  <1>8. GrantFits'
    BY <1>1, NoGrant
  <1>9. Idle'
    BY <1>1, <1>4 DEF IInv, Idle, pvars
  <1> QED  BY <1>4, <1>5, <1>6, <1>7, <1>8, <1>9 DEF IInv, Steady

LEMMA EvictStep ==
    ASSUME IInv, Evict
    PROVE  IInv' /\ cpu' = cpu /\ ram' = cpu
  <1>1. ram' = cpu /\ cpu' = cpu /\ UNCHANGED <<build, phase, stored, pvars, cvars>>
    BY DEF Evict
  <1>2. Steady
    BY DEF IInv
  <1>3. ImagesOK' /\ Apart' /\ Dirty'
    BY <1>1, <1>2, Level DEF Steady, ImagesOK
  <1>4. Progress'
    BY <1>1, <1>2 DEF Steady, Progress, pvars, cvars
  <1>5. WriteFits'
    BY <1>1, <1>2 DEF Steady, WriteFits, pvars
  <1>6. GrantFits'
    BY <1>1, <1>2 DEF Steady, GrantFits, cvars
  <1> QED  BY <1>1, <1>3, <1>4, <1>5, <1>6 DEF IInv, Steady, Idle

\* Every local is as at power-up.
LEMMA Restarted ==
    ASSUME Restart
    PROVE  Progress' /\ WriteFits' /\ GrantFits'
  <1>1. Progress'
    BY PersistAssumption DEF Restart, Progress
  <1>2. WriteFits'
    BY NoWrite DEF Restart
  <1>3. GrantFits'
    BY NoGrant DEF Restart
  <1> QED  BY <1>1, <1>2, <1>3

LEMMA ResetStep ==
    ASSUME IInv, Reset
    PROVE  IInv' /\ cpu' \in {ram, cpu} /\ ram' = cpu'
  <1>1. cpu' \in {ram, cpu} /\ ram' = cpu' /\ build' = build /\ Restart
    BY DEF Reset
  <1>2. ImagesOK' /\ Apart' /\ Dirty'
    BY <1>1, Level DEF IInv, Steady, ImagesOK
  <1>3. Progress' /\ WriteFits' /\ GrantFits'
    BY <1>1, Restarted
  <1> QED  BY <1>1, <1>2, <1>3 DEF IInv, Steady, Idle

LEMMA HandoverStep ==
    ASSUME IInv, Handover
    PROVE  IInv' /\ cpu' = cpu /\ ram' = ram
  <1>1. /\ phase = "ready" /\ ppc = "idle" /\ cpc \in {"idle", "granted"}
        /\ Restart /\ UNCHANGED memory
    BY DEF Handover, Ready
  <1>2. ImagesOK' /\ Apart' /\ Dirty' /\ cpu' = cpu /\ ram' = ram
    BY <1>1, MemoryKept DEF IInv
  <1>3. Progress' /\ WriteFits' /\ GrantFits'
    BY <1>1, Restarted
  <1>4. Idle'
    BY <1>1, <1>2 DEF IInv, Idle
  <1> QED  BY <1>2, <1>3, <1>4 DEF IInv, Steady

-----------------------------------------------------------------------------
(* Types, and what an index in the RAM covers *)

LEMMA PersistInit == Init => IInv
  <1> SUFFICES ASSUME Init PROVE IInv
    OBVIOUS
  <1>1. build \in Builds /\ cpu \in Image /\ ram = cpu
    BY DEF Init
  <1>2. ImagesOK /\ Apart /\ Dirty
    BY <1>1 DEF ImagesOK, Apart, Dirty
  <1>3. Progress
    BY PersistAssumption DEF Init, Progress
  <1>4. WriteFits
    <2>1. ppc = "idle" /\ data = <<>> /\ len = 0 /\ copied = {}
      BY DEF Init
    <2>2. ppc \notin {"copy", "publish"} /\ ppc \in {"idle", "copy", "publish", "flush index"}
      BY <2>1
    <2> QED  BY <2>1, <2>2, NothingFits, Zenon DEF WriteFits
  <1>5. GrantFits
    BY NothingFits DEF Init, GrantFits
  <1> QED  BY <1>1, <1>2, <1>3, <1>4, <1>5 DEF IInv, Steady, Idle

LEMMA PersistNext == IInv /\ [Next]_vars => IInv'
  <1> SUFFICES ASSUME IInv, [Next]_vars PROVE IInv'
    OBVIOUS
  <1>1. CASE Recover      BY <1>1, RecoverStep
  <1>2. CASE BeginWrite   BY <1>2, BeginWriteStep
  <1>3. CASE CopyByte     BY <1>3, CopyByteStep
  <1>4. CASE FlushData    BY <1>4, FlushDataStep
  <1>5. CASE Publish      BY <1>5, PublishStep
  <1>6. CASE EndWrite     BY <1>6, EndWriteStep
  <1>7. CASE ReadGrant    BY <1>7, ReadGrantStep
  <1>8. CASE Release      BY <1>8, ReleaseStep
  <1>9. CASE EndRelease   BY <1>9, EndReleaseStep
  <1>10. CASE DropGrant   BY <1>10, DropGrantStep
  <1>11. CASE Evict       BY <1>11, EvictStep
  <1>12. CASE Reset       BY <1>12, ResetStep
  <1>13. CASE Handover    BY <1>13, HandoverStep
  <1>14. CASE UNCHANGED vars
    <2>1. /\ build' = build /\ cpu' = cpu /\ ram' = ram /\ held' = held
          /\ phase' = phase /\ stored' = stored
          /\ ppc' = ppc /\ data' = data /\ len' = len /\ copied' = copied
          /\ cpc' = cpc /\ len1' = len1 /\ len2' = len2
      BY <1>14 DEF vars, memory, pvars, cvars
    <2>2. ImagesOK' /\ Apart' /\ Dirty'
      BY <2>1 DEF IInv, Steady, ImagesOK, Apart, Dirty, BufWord
    <2>3. Progress' /\ WriteFits' /\ GrantFits' /\ Idle'
      BY <2>1 DEF IInv, Steady, Progress, WriteFits, GrantFits, Idle
    <2> QED  BY <2>2, <2>3 DEF IInv, Steady
  <1> QED
    BY <1>1, <1>2, <1>3, <1>4, <1>5, <1>6, <1>7, <1>8, <1>9, <1>10, <1>11, <1>12, <1>13, <1>14
    DEF Next

LEMMA PersistInvariance == Spec => []IInv
  BY PersistInit, PersistNext, PTL DEF Spec

\* Recovery hands over a valid header and indices in bounds, whatever it was
\* given and however often a reset cut it off, and no index, image or local
\* of a call ever leaves its range.
THEOREM PersistTypes == Spec => []TypeOK
  <1>1. IInv => TypeOK
    BY DEF IInv, Steady, ImagesOK, Progress, WriteFits, GrantFits, TypeOK, Ready
  <1> QED  BY <1>1, PersistInvariance, PTL

\* The slots of a window are slots of the buffer.
LEMMA OwnedIsIndex ==
    ASSUME NEW read \in Index, NEW write \in Index
    PROVE  Owned(read, write) \subseteq Index
  BY NAssumption DEF Owned, Len1, Len2, Index

\* A byte that is not in the RAM lies outside the window, of either image.
LEMMA DirtyIsFree ==
    Steady => \A o \in Index :
        ram.buf[o] # cpu.buf[o] =>
            /\ ram.read = cpu.read /\ ram.write = cpu.write
            /\ o \notin Owned(cpu.read, cpu.write)
  <1> SUFFICES ASSUME Steady, NEW o \in Index, ram.buf[o] # cpu.buf[o]
               PROVE  /\ ram.read = cpu.read /\ ram.write = cpu.write
                      /\ o \notin Owned(cpu.read, cpu.write)
    OBVIOUS
  <1>1. ram.read = cpu.read /\ ram.write = cpu.write
    BY DEF Steady, Apart
  <1>2. PICK i \in copied : o = CopyOffset(cpu.write, len, i)
    BY DEF Steady, Dirty
  <1>3. ppc = "copy"
    BY DEF Steady, Dirty
  <1>4. /\ data \in Seq(Bytes) /\ len \in 0 .. Len(data) /\ copied \subseteq 0 .. len - 1
        /\ len <= N - 1 - Dist(cpu.read, cpu.write)
    BY <1>3 DEF Steady, WriteFits
  <1>5. /\ cpu.read \in Index /\ cpu.write \in Index
        /\ Dist(cpu.read, cpu.write) \in 0 .. N - 1
    BY <1>3, ReadyFacts
  <1>6. len \in Nat
    BY <1>4
  <1>7. len \in 0 .. N - 1 - Dist(cpu.read, cpu.write) /\ i \in 0 .. len - 1
    BY <1>4, <1>5, <1>6, NAssumption
  <1>8. o \notin Owned(cpu.read, cpu.write)
    BY <1>2, <1>5, <1>7, CopyStaysInFreeSpace
  <1> QED  BY <1>1, <1>8

\* "The index never points to uncommitted data": every byte that a reset
\* would recover is in the RAM, for every ring, header and kind of RAM.
THEOREM CommittedIsSaved == Spec => []CommittedData
  <1>1. ASSUME Steady PROVE CommittedData
    <2>1. SUFFICES ASSUME IndicesOk(ram), NEW o \in Owned(ram.read, ram.write)
                   PROVE  ram.buf[o] = cpu.buf[o]
      BY DEF CommittedData
    <2>2. ram.read \in Index /\ ram.write \in Index
      BY <1>1, <2>1, ImageFields DEF Steady, ImagesOK, IndicesOk
    <2>3. o \in Index
      BY <2>2, OwnedIsIndex
    <2> QED  BY <1>1, <2>3, DirtyIsFree
  <1>2. IInv => CommittedData
    BY <1>1 DEF IInv
  <1> QED  BY <1>2, PersistInvariance, PTL

-----------------------------------------------------------------------------
(* The refinement of DurableLog *)

\* `busy`, as DurableLog is instantiated.
BusyCalls ==
    (IF ppc = "idle" THEN {} ELSE {"write"})
       \cup (IF cpc = "flush index" THEN {"release"} ELSE {})

LEMMA BusyFacts ==
    /\ "write" \in BusyCalls <=> ppc # "idle"
    /\ "release" \in BusyCalls <=> cpc = "flush index"
    /\ \A call \in BusyCalls : call = "write" \/ call = "release"
    /\ UNCHANGED <<ppc, cpc>> => BusyCalls' = BusyCalls
  BY DEF BusyCalls

\* The logs of the invariant's images.
LEMMA LogFacts ==
    ASSUME IInv
    PROVE  /\ Log(cpu) \in Seq(Bytes) /\ Len(Log(cpu)) \in 0 .. N - 1
           /\ Log(ram) \in Seq(Bytes)
  BY LogType DEF IInv, Steady, ImagesOK

\* In a call, the log is what the window shows.
LEMMA LogInCall ==
    ASSUME IInv, phase = "ready" \/ ppc # "idle" \/ cpc # "idle"
    PROVE  /\ Log(cpu) = Contents(cpu.buf, cpu.read, cpu.write)
           /\ Len(Log(cpu)) = Dist(cpu.read, cpu.write)
           /\ cpu.read \in Index /\ cpu.write \in Index /\ cpu.buf \in [Index -> Bytes]
           /\ phase = "ready"
  <1>1. /\ cpu \in Image /\ HeaderOk(cpu) /\ IndicesOk(cpu) /\ phase = "ready"
        /\ cpu.read \in Index /\ cpu.write \in Index /\ cpu.buf \in [Index -> Bytes]
    BY ReadyFacts DEF IInv
  <1> QED  BY <1>1, LogIsWindow

\* DirtyIsFree, after a step.
FreeDirt ==
    \A o \in Index : ram.buf[o] # cpu.buf[o] => o \notin Owned(cpu.read, cpu.write)

LEMMA FreeNext == Steady' => FreeDirt'
  <1>1. Steady => FreeDirt
    BY DirtyIsFree DEF FreeDirt
  <1> QED  BY <1>1, PTL

\* A store of a call to an index shows a reset one of three logs.
LEMMA FieldSaves ==
    ASSUME Steady, FieldStored, Steady'
    PROVE  Log(ram') \in {Log(ram), Log(cpu), Log(cpu')}
  <1>1. CASE build.ram = "ecc32"
    <2>1. /\ ram' \in Image /\ cpu' \in Image
          /\ ram'.magic = cpu'.magic /\ ram'.read = cpu'.read /\ ram'.write = cpu'.write
      BY <1>1 DEF FieldStored
    <2>2. \A o \in Index : ram'.buf[o] # cpu'.buf[o] => o \notin Owned(cpu'.read, cpu'.write)
      BY FreeNext DEF FreeDirt
    <2>3. HeaderOk(cpu') /\ IndicesOk(cpu') =>
              \A o \in Owned(cpu'.read, cpu'.write) : ram'.buf[o] = cpu'.buf[o]
      <3>1. SUFFICES ASSUME IndicesOk(cpu'), NEW o \in Owned(cpu'.read, cpu'.write)
                     PROVE  ram'.buf[o] = cpu'.buf[o]
        OBVIOUS
      <3>2. cpu'.read \in Index /\ cpu'.write \in Index
        BY <2>1, <3>1, ImageFields DEF IndicesOk
      <3>3. o \in Index
        BY <3>2, OwnedIsIndex
      <3> QED  BY <2>2, <3>3
    <2>4. Log(ram') = Log(cpu')
      BY <2>1, <2>3, LogsEqual
    <2> QED  BY <2>4
  <1>2. CASE build.ram # "ecc32"
    <2>1. ram' \in {ram, cpu, cpu'}
      BY <1>2 DEF FieldStored
    <2> QED  BY <2>1
  <1> QED  BY <1>1, <1>2

LEMMA ZeroSum == 0 + 0 = 0
  OBVIOUS

LEMMA InitDurable == Init => Durable!DInit
  <1> SUFFICES ASSUME Init PROVE Durable!DInit
    OBVIOUS
  <1>1. IInv
    BY PersistInit
  <1>2. Log(cpu) \in Seq(Bytes) /\ Len(Log(cpu)) <= N - 1
    BY <1>1, LogFacts, NAssumption
  <1>3. Log(ram) = Log(cpu) /\ data = <<>> /\ len1 + len2 = 0
    BY DEF Init
  <1>4. ppc = "idle" /\ cpc = "idle" /\ phase = "boot"
    BY DEF Init
  <1>5. BusyCalls = {}
    BY <1>4 DEF BusyCalls
  <1>6. Ready = FALSE
    BY <1>4 DEF Ready
  <1> QED  BY <1>2, <1>3, <1>5, <1>6 DEF BusyCalls, Durable!DInit, Durable!QInit

\* Recovery changes neither log, and its last step lets the program log.
LEMMA RecoverDurable ==
    ASSUME IInv, Recover
    PROVE  Durable!Recovered \/ UNCHANGED Durable!dvars
  <1>1. SameLogs /\ IInv'
    BY RecoverStep
  <1>2. phase # "ready" /\ UNCHANGED <<pvars, cvars>>
    BY DEF Recover, ZeroRead, ZeroWrite, FlushZeroed, StoreHeader, KeepIndices, RepairWrite,
           RepairRead, RepairBoth, RepairBothWrite, FlushRepaired, Recovery
  <1>3. /\ Log(cpu)' = Log(cpu) /\ Log(ram)' = Log(ram)
        /\ data' = data /\ (len1 + len2)' = len1 + len2 /\ BusyCalls' = BusyCalls
    BY <1>1, <1>2 DEF SameLogs, Log, HeaderOk, IndicesOk, pvars, cvars, BusyCalls
  <1>4. Ready = FALSE
    BY <1>2 DEF Ready
  <1>5. Ready' = TRUE \/ Ready' = FALSE
    BY DEF Ready
  <1> QED
    BY <1>3, <1>4, <1>5, Zenon DEF BusyCalls, Durable!Recovered, Durable!dvars, Durable!qvars

LEMMA BeginWriteDurable ==
    ASSUME IInv, BeginWrite
    PROVE  Durable!BeginCall
  <1>1. /\ phase = "ready" /\ ppc = "idle" /\ ppc' = "copy" /\ copied' = {}
        /\ UNCHANGED <<memory, phase, stored, cvars>>
    BY DEF BeginWrite, Ready
  <1>2. IInv'
    BY BeginWriteStep
  <1>3. data = <<>>
    BY <1>1 DEF IInv, Steady, WriteFits
  <1>4. data' \in Seq(Bytes) /\ data' # <<>>
    <2>1. data' \in Seq(Bytes) /\ len' \in 0 .. Len(data') /\ len' > 0
      BY <1>1, <1>2 DEF IInv, Steady, WriteFits
    <2> QED  BY <2>1
  <1>5. /\ Log(cpu)' = Log(cpu) /\ Log(ram)' = Log(ram) /\ (len1 + len2)' = len1 + len2
        /\ Ready' = Ready /\ Ready
    BY <1>1 DEF memory, cvars, Ready
  <1>6. "write" \notin BusyCalls /\ BusyCalls' = BusyCalls \cup {"write"}
    BY <1>1 DEF BusyCalls, cvars
  <1> QED
    BY <1>3, <1>4, <1>5, <1>6 DEF BusyCalls, Durable!BeginCall, Durable!StartWrite

LEMMA CopyByteDurable ==
    ASSUME IInv, CopyByte
    PROVE  Durable!Save \/ UNCHANGED Durable!dvars
  <1>1. ram' \in {ram, cpu, cpu'} /\ Log(cpu') = Log(cpu)
    BY CopyByteStep
  <1>2. UNCHANGED <<phase, ppc, data, len, cvars>>
    BY DEF CopyByte
  <1>3. /\ Log(cpu)' = Log(cpu) /\ data' = data /\ (len1 + len2)' = len1 + len2
        /\ BusyCalls' = BusyCalls /\ Ready' = Ready
    BY <1>1, <1>2 DEF cvars, BusyCalls, Ready, Log, HeaderOk, IndicesOk
  <1>4. Log(ram)' = Log(ram) \/ Log(ram)' = Log(cpu)
    BY <1>1 DEF Log, HeaderOk, IndicesOk
  <1> QED
    BY <1>3, <1>4, Zenon DEF BusyCalls, Durable!Save, Durable!dvars, Durable!qvars

LEMMA FlushDataDurable ==
    ASSUME IInv, FlushData
    PROVE  Durable!Save
  <1>1. cpu' = cpu /\ ram' = cpu
    BY FlushDataStep
  <1>2. ppc = "copy" /\ ppc' = "publish" /\ UNCHANGED <<phase, data, cvars>>
    BY DEF FlushData
  <1>3. /\ Log(cpu)' = Log(cpu) /\ Log(ram)' = Log(cpu) /\ data' = data
        /\ (len1 + len2)' = len1 + len2 /\ BusyCalls' = BusyCalls /\ Ready' = Ready
    BY <1>1, <1>2 DEF cvars, BusyCalls, Ready, Log, HeaderOk, IndicesOk
  <1> QED  BY <1>3, Zenon DEF BusyCalls, Durable!Save, Durable!qvars

LEMMA EvictDurable ==
    ASSUME IInv, Evict
    PROVE  Durable!Save
  <1>1. cpu' = cpu /\ ram' = cpu
    BY EvictStep
  <1>2. UNCHANGED <<phase, pvars, cvars>>
    BY DEF Evict
  <1>3. /\ Log(cpu)' = Log(cpu) /\ Log(ram)' = Log(cpu) /\ data' = data
        /\ (len1 + len2)' = len1 + len2 /\ BusyCalls' = BusyCalls /\ Ready' = Ready
    BY <1>1, <1>2 DEF pvars, cvars, BusyCalls, Ready, Log, HeaderOk, IndicesOk
  <1> QED  BY <1>3, Zenon DEF BusyCalls, Durable!Save, Durable!qvars

\* The store of `write` appends what was copied, all at once.
LEMMA PublishDurable ==
    ASSUME IInv, Publish
    PROVE  Durable!Extend
  <1> DEFINE q == Log(cpu)
             r == Log(cpu')
  <1>1. /\ ppc = "publish" /\ ppc' = "flush index" /\ data' = <<>>
        /\ UNCHANGED <<phase, cvars>>
    BY DEF Publish
  <1>2. /\ IInv' /\ FieldStored /\ cpu'.magic = cpu.magic /\ cpu'.read = cpu.read
        /\ cpu'.write = NextWrite(cpu.write, len) /\ cpu'.buf = cpu.buf
    BY PublishStep DEF FieldStored
  <1>3. /\ q = Contents(cpu.buf, cpu.read, cpu.write) /\ Len(q) = Dist(cpu.read, cpu.write)
        /\ cpu.read \in Index /\ cpu.write \in Index /\ cpu.buf \in [Index -> Bytes]
        /\ phase = "ready"
    BY <1>1, LogInCall
  <1>4. r = Contents(cpu'.buf, cpu'.read, cpu'.write)
    <2>1. HeaderOk(cpu') /\ IndicesOk(cpu')
      BY <1>1, <1>2, <1>3 DEF IInv, Steady, Progress
    <2> QED  BY <2>1 DEF Log
  <1>5. /\ data \in Seq(Bytes) /\ len \in 0 .. Len(data) /\ len > 0
        /\ len <= N - 1 - Dist(cpu.read, cpu.write)
        /\ \A i \in 0 .. len - 1 : cpu.buf[CopyOffset(cpu.write, len, i)] = data[i + 1]
    BY <1>1 DEF IInv, Steady, WriteFits
  <1>6. len \in 1 .. Len(data) /\ data # <<>>
    BY <1>5
  <1>7. r = q \o SubSeq(data, 1, len)
    <2>1. Appends(cpu.buf, cpu.read, cpu.write, data, len)
      <3>1. len \in 1 .. N - 1 - Dist(cpu.read, cpu.write)
        BY <1>3, <1>5, DistType, NAssumption
      <3>2. Copied(cpu.buf, cpu.write, data, len)
        BY <1>5 DEF Copied
      <3> QED  BY <1>3, <3>1, <3>2, ContentsAppend, Zenon
    <2> HIDE DEF q, r
    <2> QED  BY <1>2, <1>3, <1>4, <2>1, Zenon DEF Appends
  <1>8. Len(q) + len <= N - 1
    <2>1. Dist(cpu.read, cpu.write) \in 0 .. N - 1
      BY <1>3, DistType
    <2> QED  BY <1>3, <1>5, <1>6, <2>1, NAssumption
  <1>9. Log(ram') \in {Log(ram), q, r}
    BY <1>2, FieldSaves DEF IInv
  <1>10. /\ Log(cpu)' = r /\ Log(ram)' = Log(ram')
         /\ (len1 + len2)' = len1 + len2 /\ BusyCalls' = BusyCalls /\ Ready' = Ready /\ Ready
    BY <1>1, <1>3 DEF cvars, BusyCalls, Ready, Log, HeaderOk, IndicesOk
  <1> HIDE DEF q, r
  <1>11. \E k \in 1 .. Len(data) : Len(q) + k <= N - 1 /\ r = q \o SubSeq(data, 1, k)
    BY <1>6, <1>7, <1>8
  <1> QED
    BY <1>1, <1>6, <1>9, <1>10, <1>11
    DEF q, BusyCalls, Durable!Extend, Durable!FinishWrite, Durable!Saving

LEMMA EndWriteDurable ==
    ASSUME IInv, EndWrite
    PROVE  Durable!Return
  <1>1. cpu' = cpu /\ ram' = cpu
    BY EndWriteStep
  <1>2. ppc = "flush index" /\ ppc' = "idle" /\ UNCHANGED <<phase, data, cvars>>
    BY DEF EndWrite
  <1>3. data = <<>>
    BY <1>2 DEF IInv, Steady, WriteFits
  <1>4. /\ Log(cpu)' = Log(cpu) /\ Log(ram)' = Log(cpu) /\ data' = data
        /\ (len1 + len2)' = len1 + len2 /\ Ready' = Ready
    BY <1>1, <1>2 DEF cvars, Ready, Log, HeaderOk, IndicesOk
  <1>5. "write" \in BusyCalls /\ BusyCalls' = BusyCalls \ {"write"}
    BY <1>2 DEF BusyCalls, cvars
  <1> QED  BY <1>3, <1>4, <1>5 DEF BusyCalls, Durable!Return, Durable!qvars

LEMMA ReadGrantDurable ==
    ASSUME IInv, ReadGrant
    PROVE  Durable!Grant
  <1>1. /\ cpu' = cpu /\ ram' = ram /\ len1' + len2' = Dist(cpu.read, cpu.write)
    BY ReadGrantStep
  <1>2. /\ phase = "ready" /\ cpc = "idle" /\ cpc' = "granted"
        /\ UNCHANGED <<phase, pvars>>
    BY DEF ReadGrant, Ready
  <1>3. Len(Log(cpu)) = Dist(cpu.read, cpu.write) /\ Dist(cpu.read, cpu.write) \in Nat
    BY <1>2, LogInCall, DistType
  <1>4. (len1 + len2)' \in 0 .. Len(Log(cpu))
    BY <1>1, <1>3
  <1>5. /\ Log(cpu)' = Log(cpu) /\ Log(ram)' = Log(ram) /\ data' = data /\ Ready' = Ready /\ Ready
        /\ "release" \notin BusyCalls /\ BusyCalls' = BusyCalls
    BY <1>1, <1>2 DEF pvars, Ready, Log, HeaderOk, IndicesOk, BusyCalls
  <1> QED  BY <1>4, <1>5, Zenon DEF BusyCalls, Durable!Grant, Durable!Lend

LEMMA DropGrantDurable ==
    ASSUME IInv, DropGrant
    PROVE  Durable!Grant
  <1>1. cpu' = cpu /\ ram' = ram
    BY DropGrantStep
  <1>2. /\ cpc = "granted" /\ cpc' = "idle" /\ len1' = 0 /\ len2' = 0
        /\ UNCHANGED <<phase, pvars>>
    BY DEF DropGrant
  <1>3. phase = "ready" /\ Len(Log(cpu)) \in Nat
    BY <1>2, LogInCall, LogFacts, NAssumption
  <1>4. (len1 + len2)' \in 0 .. Len(Log(cpu))
    BY <1>2, <1>3
  <1>5. /\ Log(cpu)' = Log(cpu) /\ Log(ram)' = Log(ram) /\ data' = data /\ Ready' = Ready /\ Ready
        /\ "release" \notin BusyCalls /\ BusyCalls' = BusyCalls
    BY <1>1, <1>2, <1>3 DEF pvars, Ready, Log, HeaderOk, IndicesOk, BusyCalls
  <1> QED  BY <1>4, <1>5, Zenon DEF BusyCalls, Durable!Grant, Durable!Lend

\* The store of `read` drops what was released, all at once.
LEMMA ReleaseDurable ==
    ASSUME IInv, Release
    PROVE  Durable!Drop
  <1> DEFINE q == Log(cpu)
             r == Log(cpu')
  <1>1. /\ cpc = "granted" /\ cpc' = "flush index" /\ len1' = 0 /\ len2' = 0
        /\ UNCHANGED <<phase, pvars>>
    BY DEF Release
  <1>2. /\ IInv' /\ FieldStored /\ cpu'.magic = cpu.magic /\ cpu'.write = cpu.write
        /\ cpu'.buf = cpu.buf
    BY ReleaseStep DEF FieldStored
  <1>3. PICK used \in 0 .. len1 + len2 :
           /\ Dist(cpu.read, cpu'.read) = used
           /\ Dist(cpu'.read, cpu.write) = Dist(cpu.read, cpu.write) - used
    BY ReleaseStep
  <1>4. /\ q = Contents(cpu.buf, cpu.read, cpu.write) /\ Len(q) = Dist(cpu.read, cpu.write)
        /\ cpu.read \in Index /\ cpu.write \in Index /\ cpu.buf \in [Index -> Bytes]
        /\ phase = "ready"
    BY <1>1, LogInCall
  <1>5. HeaderOk(cpu') /\ IndicesOk(cpu') /\ cpu'.read \in Index
    <2>1. HeaderOk(cpu') /\ IndicesOk(cpu') /\ cpu' \in Image
      BY <1>1, <1>2, <1>4 DEF IInv, Steady, Progress, ImagesOK
    <2> QED  BY <2>1, ImageFields DEF IndicesOk
  <1>6. r = Contents(cpu'.buf, cpu'.read, cpu'.write)
    BY <1>5 DEF Log
  <1>7. /\ len1 \in 0 .. N - 1 /\ len2 \in 0 .. N - 1
        /\ len1 + len2 <= Dist(cpu.read, cpu.write)
    BY <1>1 DEF IInv, Steady, GrantFits
  <1>8. used \in 0 .. Dist(cpu.read, cpu.write)
    BY <1>4, <1>7, DistType, NAssumption
  <1>9. r = SubSeq(q, used + 1, Len(q))
    <2>1. Drops(cpu.buf, cpu.read, cpu'.read, cpu.write, used)
      <3>1. /\ cpu.buf \in [Index -> Bytes] /\ cpu.read \in Index /\ cpu.write \in Index
            /\ cpu'.read \in Index
        BY <1>4, <1>5, LogInCall
      <3> QED  BY <1>3, <1>8, <3>1, ContentsDrop, Zenon
    <2> HIDE DEF q, r
    <2> QED  BY <1>2, <1>4, <1>6, <2>1, Zenon DEF Drops
  <1>10. Log(ram') \in {Log(ram), q, r}
    <2>1. Steady /\ Steady'
      BY <1>2 DEF IInv
    <2> QED  BY <1>2, <2>1, FieldSaves, Zenon
  <1>11. (len1 + len2)' = 0
    BY <1>1, ZeroSum, Zenon
  <1>12. /\ Log(cpu)' = r /\ Log(ram)' = Log(ram') /\ data' = data
         /\ Ready' = Ready /\ Ready
         /\ "release" \notin BusyCalls /\ BusyCalls' = BusyCalls \cup {"release"}
    BY <1>1, <1>4 DEF pvars, BusyCalls, Ready, Log, HeaderOk, IndicesOk
  <1> HIDE DEF q, r
  <1>13. \E n \in 0 .. len1 + len2 : r = SubSeq(q, n + 1, Len(q))
    BY <1>9
  <1> QED
    BY <1>10, <1>11, <1>12, <1>13
    DEF q, BusyCalls, Durable!Drop, Durable!Release, Durable!Saving

LEMMA EndReleaseDurable ==
    ASSUME IInv, EndRelease
    PROVE  Durable!Return
  <1>1. cpu' = cpu /\ ram' = cpu
    BY EndReleaseStep
  <1>2. /\ cpc = "flush index" /\ cpc' = "idle" /\ UNCHANGED <<phase, pvars, len1, len2>>
    BY DEF EndRelease
  <1>3. /\ Log(cpu)' = Log(cpu) /\ Log(ram)' = Log(cpu) /\ data' = data
        /\ (len1 + len2)' = len1 + len2 /\ Ready' = Ready
    BY <1>1, <1>2 DEF pvars, Ready, Log, HeaderOk, IndicesOk
  <1>4. "release" \in BusyCalls /\ BusyCalls' = BusyCalls \ {"release"}
    BY <1>2 DEF BusyCalls, pvars
  <1> QED  BY <1>3, <1>4 DEF BusyCalls, Durable!Return, Durable!qvars

LEMMA ResetDurable ==
    ASSUME IInv, Reset
    PROVE  Durable!Reset
  <1>1. cpu' \in {ram, cpu} /\ ram' = cpu'
    BY ResetStep
  <1>2. /\ phase' = "boot" /\ ppc' = "idle" /\ cpc' = "idle" /\ data' = <<>>
        /\ len1' = 0 /\ len2' = 0
    BY DEF Reset, Restart
  <1>3. Log(cpu)' \in {Log(ram), Log(cpu)} /\ Log(ram)' = Log(cpu)'
    BY <1>1 DEF Log, HeaderOk, IndicesOk
  <1>4. Ready' = FALSE /\ BusyCalls' = {} /\ (len1 + len2)' = 0
    BY <1>2 DEF Ready, BusyCalls
  <1> QED  BY <1>2, <1>3, <1>4 DEF BusyCalls, Durable!Reset

LEMMA HandoverDurable ==
    ASSUME IInv, Handover
    PROVE  Durable!Handover
  <1>1. cpu' = cpu /\ ram' = ram
    BY HandoverStep
  <1>2. /\ phase = "ready" /\ ppc = "idle" /\ cpc # "flush index"
        /\ phase' = "boot" /\ ppc' = "idle" /\ cpc' = "idle" /\ data' = <<>>
        /\ len1' = 0 /\ len2' = 0
    BY DEF Handover, Ready, Restart
  <1>3. data = <<>>
    BY <1>2 DEF IInv, Steady, WriteFits
  <1>4. Log(cpu)' = Log(cpu) /\ Log(ram)' = Log(ram) /\ data' = data
    BY <1>1, <1>2, <1>3 DEF Log, HeaderOk, IndicesOk
  <1>5. Ready /\ Ready' = FALSE
    BY <1>2 DEF Ready
  <1>6. BusyCalls = {} /\ BusyCalls' = {}
    BY <1>2 DEF BusyCalls
  <1>7. (len1 + len2)' = 0
    BY <1>2, ZeroSum, Zenon
  <1> QED  BY <1>4, <1>5, <1>6, <1>7 DEF BusyCalls, Durable!Handover

LEMMA NextDurable == IInv /\ [Next]_vars => [Durable!DNext]_(Durable!dvars)
  <1> SUFFICES ASSUME IInv, [Next]_vars PROVE [Durable!DNext]_(Durable!dvars)
    OBVIOUS
  <1> USE DEF Durable!DNext
  <1>1. CASE Recover      BY <1>1, RecoverDurable
  <1>2. CASE BeginWrite   BY <1>2, BeginWriteDurable
  <1>3. CASE CopyByte     BY <1>3, CopyByteDurable
  <1>4. CASE FlushData    BY <1>4, FlushDataDurable
  <1>5. CASE Publish      BY <1>5, PublishDurable
  <1>6. CASE EndWrite     BY <1>6, EndWriteDurable
  <1>7. CASE ReadGrant    BY <1>7, ReadGrantDurable
  <1>8. CASE Release      BY <1>8, ReleaseDurable
  <1>9. CASE EndRelease   BY <1>9, EndReleaseDurable
  <1>10. CASE DropGrant   BY <1>10, DropGrantDurable
  <1>11. CASE Evict       BY <1>11, EvictDurable
  <1>12. CASE Reset       BY <1>12, ResetDurable
  <1>13. CASE Handover    BY <1>13, HandoverDurable
  <1>14. CASE UNCHANGED vars
    <2>1. UNCHANGED <<cpu, ram, phase, ppc, data, cpc, len1, len2>>
      BY <1>14 DEF vars, memory, pvars, cvars
    <2> QED
      BY <2>1 DEF Log, HeaderOk, IndicesOk, Ready, Durable!dvars, Durable!qvars
  <1> QED
    BY <1>1, <1>2, <1>3, <1>4, <1>5, <1>6, <1>7, <1>8, <1>9, <1>10, <1>11, <1>12, <1>13, <1>14
    DEF Next

\* A reset between any two stores, of a call or of recovery itself, loses no
\* byte whose write returned, brings back none whose release returned, and
\* invents none: for every ring, header, ECC word and kind of RAM, and for
\* every damaged header or index at power-up.
THEOREM LogSurvives == Spec => ImplementsDurableLog
  BY InitDurable, NextDurable, PersistInvariance, PTL
  DEF Spec, ImplementsDurableLog, Durable!DSpec

===============================================================================
