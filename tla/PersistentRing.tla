---------------------------- MODULE PersistentRing ----------------------------
(***************************************************************************)
(* The persist region of src/ring_buffer.rs across resets: every store of  *)
(* recover_or_reinitialize, Producer::write and GrantR::release, the ECC   *)
(* write cache between the CPU and the RAM, and a reset between any two    *)
(* stores.                                                                 *)
(*                                                                         *)
(* Memory is two images of the region: `cpu`, what the program reads, and  *)
(* `ram`, what survives a reset.  They differ in at most one ECC word, the *)
(* one the cache holds ("writes stay in cache until a write to a different *)
(* word flushes them", Cargo.toml).  A build is the crate's `ecc` feature  *)
(* and the kind of RAM it runs on:                                         *)
(*                                                                         *)
(*   "plain"        every store reaches the RAM at once;                   *)
(*   "ecc32"        a 32-bit store fills a word and goes straight to the   *)
(*                  RAM, while a word of data stays in the cache;          *)
(*   "ecc64"        `read` and `write` share one word, and no store of the *)
(*                  program fills a word.                                  *)
(*                                                                         *)
(* Both sides run on one core here and see each other's stores at once;    *)
(* module RingBuffer covers stale indices.                                 *)
(***************************************************************************)
EXTENDS RingIndex

CONSTANTS
    Bytes,              \* the byte values
    Data,               \* the data slices Producer::write is called with
    HeaderWords,        \* the ECC words of RingBuffer.header
    WordSize,           \* bytes of the buffer in one ECC word
    Builds              \* the builds: kind of RAM, `ecc` feature

ASSUME PersistAssumption ==
    /\ Data \subseteq Seq(Bytes)
    /\ HeaderWords # {}
    /\ WordSize \in Nat \ {0}
    /\ Builds \subseteq [ram : {"plain", "ecc32", "ecc64"}, ecc : BOOLEAN]
    /\ \A b \in Builds : b.ram # "plain" => b.ecc

VARIABLES
    build,                  \* the build, one of Builds
    cpu, ram, held,         \* the two images, the word in the write cache
    phase, stored,          \* recovery: next step, header words stored
    ppc, data, len, copied, \* Producer::write
    cpc, len1, len2         \* Consumer::read and GrantR

memory == <<build, cpu, ram, held>>
pvars  == <<ppc, data, len, copied>>
cvars  == <<cpc, len1, len2>>
vars   == <<memory, phase, stored, pvars, cvars>>

\* An image of the region.  `magic` is the set of header words that hold
\* their part of MAGIC, and N stands for any index that is out of bounds.
Image == [magic : SUBSET HeaderWords, read : 0 .. N, write : 0 .. N, buf : [Index -> Bytes]]

NoWord == <<"none", 0>>
HeaderWord(k) == <<"header", k>>
ReadWord      == IF build.ram = "ecc64" THEN <<"index", 0>> ELSE <<"read", 0>>
WriteWord     == IF build.ram = "ecc64" THEN <<"index", 0>> ELSE <<"write", 0>>
BufWord(i)    == <<"buf", i \div WordSize>>

-----------------------------------------------------------------------------
(* Stores *)

\* A store to word w that makes the program see `image`: the cache holds w
\* from now on, and lets go of the word it held.
Store(w, image) ==
    /\ cpu' = image
    /\ ram' = IF build.ram = "plain" THEN image ELSE IF held = w THEN ram ELSE cpu
    /\ held' = IF build.ram = "plain" THEN NoWord ELSE w
    /\ UNCHANGED build

\* A store that fills its word, so that it bypasses the cache: `image` and
\* `ramImage` are what the program and a reset see of it.
StoreThrough(image, ramImage) ==
    /\ cpu' = image /\ ram' = ramImage
    /\ UNCHANGED <<build, held>>

Bypasses == build.ram = "ecc32"

StoreRead(v) ==
    IF Bypasses THEN StoreThrough([cpu EXCEPT !.read = v], [ram EXCEPT !.read = v])
                ELSE Store(ReadWord, [cpu EXCEPT !.read = v])

StoreWrite(v) ==
    IF Bypasses THEN StoreThrough([cpu EXCEPT !.write = v], [ram EXCEPT !.write = v])
                ELSE Store(WriteWord, [cpu EXCEPT !.write = v])

StoreMagic(k) ==
    IF Bypasses THEN StoreThrough([cpu EXCEPT !.magic = @ \cup {k}],
                                  [ram EXCEPT !.magic = @ \cup {k}])
                ELSE Store(HeaderWord(k), [cpu EXCEPT !.magic = @ \cup {k}])

StoreByte(i, b) == Store(BufWord(i), [cpu EXCEPT !.buf[i] = b])

\* RingBuffer::flush_ecc: a one-byte store to a word of its own, which holds
\* nothing that is ever read.
\* FlushNothing: a plausible bug, for the mutation runs.
FlushNothing == UNCHANGED memory

FlushEcc ==
    /\ ram' = IF build.ecc THEN cpu ELSE ram
    /\ held' = IF build.ecc THEN NoWord ELSE held
    /\ UNCHANGED <<build, cpu>>

\* Any other store of the program to the same RAM also empties the cache.
Evict ==
    /\ held # NoWord
    /\ ram' = cpu /\ held' = NoWord
    /\ UNCHANGED <<build, cpu, phase, stored, pvars, cvars>>

-----------------------------------------------------------------------------
(* RingBuffer::recover_or_reinitialize *)

HeaderOk(image) == image.magic = HeaderWords
IndicesOk(image) == image.read < N /\ image.write < N

\* One store or flush of recovery, which then goes on at phase `next`.
Recovery(at, store, next) ==
    /\ phase = at /\ store
    /\ phase' = next
    /\ UNCHANGED <<stored, pvars, cvars>>

\* No valid header: zero both indices, flush, and only then store MAGIC,
\* whose words reach the memory one at a time.
\* SkipZeroWrite: a plausible bug, for the mutation runs.
ZeroRead    == ~HeaderOk(cpu) /\ Recovery("boot", StoreRead(0), "zero write")
SkipZeroWrite == Recovery("zero write", UNCHANGED memory, "flush zeroed")
ZeroWrite   == Recovery("zero write", StoreWrite(0), "flush zeroed")
FlushZeroed == Recovery("flush zeroed", FlushEcc, "store magic")

StoreHeader ==
    /\ phase = "store magic"
    /\ \E k \in HeaderWords \ stored :
          /\ StoreMagic(k)
          /\ stored' = IF stored \cup {k} = HeaderWords THEN {} ELSE stored \cup {k}
          /\ phase' = IF stored \cup {k} = HeaderWords THEN "ready" ELSE phase
    /\ UNCHANGED <<pvars, cvars>>

\* A valid header: repair whichever index is out of bounds.
Valid(readOk, writeOk) ==
    HeaderOk(cpu) /\ readOk = (cpu.read < N) /\ writeOk = (cpu.write < N)

KeepIndices == Valid(TRUE, TRUE) /\ Recovery("boot", UNCHANGED memory, "flush repaired")

\* KeepBadWrite, RepairReadToZero: plausible bugs, for the mutation runs.
KeepBadWrite == Valid(TRUE, FALSE) /\ Recovery("boot", UNCHANGED memory, "flush repaired")
RepairWrite  == Valid(TRUE, FALSE) /\ Recovery("boot", StoreWrite(cpu.read), "flush repaired")

RepairReadToZero == Valid(FALSE, TRUE) /\ Recovery("boot", StoreRead(0), "flush repaired")
RepairRead == Valid(FALSE, TRUE) /\ Recovery("boot", StoreRead(cpu.write), "flush repaired")

RepairBoth == Valid(FALSE, FALSE) /\ Recovery("boot", StoreRead(0), "repair write")

RepairBothWrite == Recovery("repair write", StoreWrite(0), "flush repaired")
FlushRepaired   == Recovery("flush repaired", FlushEcc, "ready")

Recover ==
    \/ ZeroRead \/ ZeroWrite \/ FlushZeroed \/ StoreHeader
    \/ KeepIndices \/ RepairWrite \/ RepairRead \/ RepairBoth \/ RepairBothWrite
    \/ FlushRepaired

-----------------------------------------------------------------------------
(* Producer::write *)

Ready == phase = "ready"

BeginWrite ==
    /\ Ready /\ ppc = "idle"
    /\ \E d \in Data :
          /\ Kept(Len(d), cpu.read, cpu.write) > 0
          /\ data' = d
          /\ len' = Kept(Len(d), cpu.read, cpu.write)
    /\ ppc' = "copy" /\ copied' = {}
    /\ UNCHANGED <<memory, phase, stored, cvars>>

CopyByte ==
    /\ ppc = "copy"
    /\ \E i \in (0 .. len - 1) \ copied :
          /\ StoreByte(CopyOffset(cpu.write, len, i), data[i + 1])
          /\ copied' = copied \cup {i}
    /\ UNCHANGED <<phase, stored, ppc, data, len, cvars>>

\* The flush between the data and the index.  SkipFlushData: a plausible bug,
\* for the mutation runs.
SkipFlushData ==
    /\ ppc = "copy" /\ copied = 0 .. len - 1
    /\ ppc' = "publish"
    /\ UNCHANGED <<memory, phase, stored, data, len, copied, cvars>>

FlushData ==
    /\ ppc = "copy" /\ copied = 0 .. len - 1
    /\ FlushEcc
    /\ ppc' = "publish"
    /\ UNCHANGED <<phase, stored, data, len, copied, cvars>>

Publish ==
    /\ ppc = "publish"
    /\ StoreWrite(NextWrite(cpu.write, len))
    /\ ppc' = "flush index"
    /\ data' = <<>> /\ len' = 0 /\ copied' = {}
    /\ UNCHANGED <<phase, stored, cvars>>

EndWrite ==
    /\ ppc = "flush index"
    /\ FlushEcc
    /\ ppc' = "idle"
    /\ UNCHANGED <<phase, stored, data, len, copied, cvars>>

-----------------------------------------------------------------------------
(* Consumer::read and GrantR *)

ReadGrant ==
    /\ Ready /\ cpc = "idle"
    /\ len1' = Len1(cpu.read, cpu.write)
    /\ len2' = Len2(cpu.read, cpu.write)
    /\ cpc' = "granted"
    /\ UNCHANGED <<memory, phase, stored, pvars>>

Release ==
    /\ cpc = "granted"
    /\ \E used \in 0 .. len1 + len2 : StoreRead(NextRead(cpu.read, len1, used))
    /\ cpc' = "flush index" /\ len1' = 0 /\ len2' = 0
    /\ UNCHANGED <<phase, stored, pvars>>

EndRelease ==
    /\ cpc = "flush index"
    /\ FlushEcc
    /\ cpc' = "idle"
    /\ UNCHANGED <<phase, stored, pvars, len1, len2>>

DropGrant ==
    /\ cpc = "granted"
    /\ cpc' = "idle" /\ len1' = 0 /\ len2' = 0
    /\ UNCHANGED <<memory, phase, stored, pvars>>

-----------------------------------------------------------------------------
(* Resets *)

\* Every local is lost and the program starts over.
Restart ==
    /\ phase' = "boot" /\ stored' = {}
    /\ ppc' = "idle" /\ data' = <<>> /\ len' = 0 /\ copied' = {}
    /\ cpc' = "idle" /\ len1' = 0 /\ len2' = 0

\* A reset at any time: the word in the cache reaches the RAM or is lost.
Reset ==
    /\ \E image \in {ram, cpu} : cpu' = image /\ ram' = image
    /\ held' = NoWord
    /\ UNCHANGED build
    /\ Restart

\* A bootloader that called init starts the application, which does so too,
\* without a reset in between.
Handover ==
    /\ Ready /\ ppc = "idle" /\ cpc \in {"idle", "granted"}
    /\ Restart
    /\ UNCHANGED memory

Init ==
    /\ build \in Builds
    /\ cpu \in Image /\ ram = cpu /\ held = NoWord
    /\ phase = "boot" /\ stored = {}
    /\ ppc = "idle" /\ data = <<>> /\ len = 0 /\ copied = {}
    /\ cpc = "idle" /\ len1 = 0 /\ len2 = 0

Next ==
    \/ Recover
    \/ BeginWrite \/ CopyByte \/ FlushData \/ Publish \/ EndWrite
    \/ ReadGrant \/ Release \/ EndRelease \/ DropGrant
    \/ Evict \/ Reset \/ Handover

Spec == Init /\ [][Next]_vars

-----------------------------------------------------------------------------
(* Properties *)

\* Every variable has its type, the images differ at most in the word the
\* cache holds, and recovery hands over indices that are in bounds.
TypeOK ==
    /\ build \in Builds
    /\ cpu \in Image /\ ram \in Image
    /\ held = NoWord => ram = cpu
    /\ phase \in {"boot", "zero write", "flush zeroed", "store magic",
                  "repair write", "flush repaired", "ready"}
    /\ stored \subseteq HeaderWords
    /\ Ready => HeaderOk(cpu) /\ IndicesOk(cpu)
    /\ ppc \in {"idle", "copy", "publish", "flush index"}
    /\ data \in Seq(Bytes) /\ len \in 0 .. Len(data) /\ copied \subseteq 0 .. len - 1
    /\ cpc \in {"idle", "granted", "flush index"}
    /\ len1 \in 0 .. N - 1 /\ len2 \in 0 .. N - 1

\* What recovery would find in an image.
Log(image) ==
    IF HeaderOk(image) /\ IndicesOk(image)
    THEN Contents(image.buf, image.read, image.write) ELSE <<>>

\* "The index never points to uncommitted data": whatever a reset would
\* recover, every byte of it is in the RAM, also while freed space is being
\* overwritten.
CommittedData ==
    HeaderOk(ram) /\ IndicesOk(ram) =>
        \A o \in Owned(ram.read, ram.write) : ram.buf[o] = cpu.buf[o]

\* The persistent ring implements the log that survives resets: a reset
\* between any two stores, of a call or of recovery itself, loses no byte
\* whose write returned, brings back none whose release returned, and invents
\* none.
Durable == INSTANCE DurableLog WITH
    Capacity <- N - 1,
    queue    <- Log(cpu),
    saved    <- Log(ram),
    pending  <- data,
    lent     <- len1 + len2,
    busy     <- (IF ppc = "idle" THEN {} ELSE {"write"})
                   \cup (IF cpc = "flush index" THEN {"release"} ELSE {}),
    up       <- Ready

ImplementsDurableLog == Durable!DSpec
=============================================================================
