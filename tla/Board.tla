-------------------------------- MODULE Board ---------------------------------
(***************************************************************************)
(* The crate on a board: defmt_persist::init (src/lib.rs) called by several*)
(* contexts, LoggerState::initialize and write_all (src/logger.rs), the    *)
(* semihosting output (src/logger/semihosting.rs), a consumer that drains  *)
(* the ring, and resets that keep the persistent memory or damage it.      *)
(*                                                                         *)
(* The ring is the sequence of the bytes between its indices: RingBuffer   *)
(* refines its operations, PersistentRing what a reset leaves of them.  A  *)
(* byte is <<message, position>>; the encoder is external, it ends a frame *)
(* with a delimiter that no frame contains (rzcobs) and hands the frame to *)
(* write_all in pieces of any length.  Frames do not overlap (Logger).     *)
(*                                                                         *)
(* On one core the logger's critical section keeps init and the consumer   *)
(* out while a frame is written; on several it keeps out the other loggers *)
(* only.                                                                   *)
(***************************************************************************)
EXTENDS Integers, Sequences, FiniteSets

CONSTANTS Callers,      \* the callers of init
          Capacities,   \* bytes a ring may hold: its buffer, less one
          Size,         \* bytes of a frame, the delimiter included
          MaxLogs,      \* bound: messages logged
          MaxBoots      \* bound: boots

ASSUME BoardAssumption ==
    /\ Capacities \subseteq Nat /\ Size \in Nat \ {0}
    /\ MaxLogs \in Nat /\ MaxBoots \in Nat

\* What the linker symbols may be wrong about, and the fields of the header
\* that a reset may damage.
RegionErrors == {"bad alignment", "too small", "too large"}
Results == RegionErrors \cup {"none", "ok", "already initialized"}
Fields == {"header", "read", "write"}

VARIABLES
    oneCore,            \* does the program run on one core?
    region,             \* what init finds wrong with the region, or "ok"
    capacity,           \* bytes the ring holds
    damage,             \* fields that the last reset left invalid
    ring,               \* the bytes between `read` and `write`
    initialized,        \* INITIALIZED, the static of init
    producer,           \* LoggerState.producer was written
    active,             \* LoggerState.initialized
    pc, result,         \* of each caller: step, what init returned
    recovered,          \* bytes of the ring that init has seen, at its end
                        \* ConsumerAndMetadata.recovered_logs_len
    frame,              \* the bytes of the frame under way still to be written
    opened, stdout,     \* the handle of semihosting is there; the host's stdout
    drained,            \* the bytes the consumer has read and released
    logs, boots,        \* messages and boots so far
    old, mark,          \* at the last boot: messages logged, bytes drained
    cut                 \* messages of which some byte is not kept

memory  == <<region, capacity, damage, ring>>
statics == <<initialized, producer, active, opened, stdout>>
callers == <<pc, result, recovered>>
history == <<logs, boots, old, mark>>
vars == <<oneCore, memory, statics, callers, frame, drained, history, cut>>

Byte == Nat \X (1 .. Size)
Frame(m) == [i \in 1 .. Size |-> <<m, i>>]
IsDelimiter(b) == b[2] = Size
Messages(s) == {s[i][1] : i \in DOMAIN s}

\* Whether what runs between the frames, on one core, may run now.
MayRun == oneCore => frame = <<>>

\* The first boot finds what an earlier program left, message 0 or nothing, or
\* memory that no header was written to.
Init ==
    /\ oneCore \in BOOLEAN
    /\ region \in RegionErrors \cup {"ok"} /\ capacity \in Capacities
    /\ damage \in {{}, {"header"}} /\ ring \in {<<>>, Frame(0)} /\ Len(ring) <= capacity
    /\ initialized = FALSE /\ producer = FALSE /\ active = FALSE
    /\ opened = FALSE /\ stdout = <<>>
    /\ pc = [c \in Callers |-> "swap"]
    /\ result = [c \in Callers |-> "none"]
    /\ recovered = 0 /\ frame = <<>>
    /\ drained = <<>> /\ logs = 0 /\ boots = 1 /\ old = 0 /\ mark = 0 /\ cut = {}

Finish(c, r) ==
    /\ result' = [result EXCEPT ![c] = r]
    /\ pc' = [pc EXCEPT ![c] = "done"]

Goto(c, step) == pc' = [pc EXCEPT ![c] = step] /\ UNCHANGED result

-----------------------------------------------------------------------------
(* init *)

\* A plausible bug, for the mutation runs: a load of INITIALIZED and a store
\* instead of the swap; this is the caller that loses the race between them.
SwapAlways(c) ==
    /\ pc[c] = "swap"
    /\ initialized' = TRUE
    /\ Goto(c, "check")
    /\ UNCHANGED <<oneCore, memory, producer, active, opened, stdout, recovered, frame, drained, history, cut>>

\* INITIALIZED.swap(true)
Swap(c) ==
    /\ pc[c] = "swap"
    /\ initialized' = TRUE
    /\ IF initialized THEN Finish(c, "already initialized") ELSE Goto(c, "check")
    /\ UNCHANGED <<oneCore, memory, producer, active, opened, stdout, recovered, frame, drained, history, cut>>

\* A plausible bug, for the mutation runs: the size is not checked.
CheckAlignment(c) ==
    /\ pc[c] = "check"
    /\ IF region = "bad alignment" THEN Finish(c, region) ELSE Goto(c, "recover")
    /\ UNCHANGED <<oneCore, memory, statics, recovered, frame, drained, history, cut>>

\* Alignment and size, each with its early return.
CheckRegion(c) ==
    /\ pc[c] = "check"
    /\ IF region # "ok" THEN Finish(c, region) ELSE Goto(c, "recover")
    /\ UNCHANGED <<oneCore, memory, statics, recovered, frame, drained, history, cut>>

\* A plausible bug, for the mutation runs: damaged indices are not looked at.
RecoverByHeader(c) ==
    /\ pc[c] = "recover"
    /\ ring' = IF "header" \notin damage THEN ring ELSE <<>>
    /\ damage' = {} /\ recovered' = Len(ring')
    /\ Goto(c, "producer")
    /\ UNCHANGED <<oneCore, region, capacity, statics, frame, drained, history, cut>>

\* RingBuffer::recover_or_reinitialize: a wrong magic clears both indices, an
\* index out of range is set to the other one, or both to 0.
Recover(c) ==
    /\ pc[c] = "recover"
    /\ ring' = IF damage = {} THEN ring ELSE <<>>
    /\ damage' = {} /\ recovered' = Len(ring')
    /\ Goto(c, "producer")
    /\ UNCHANGED <<oneCore, region, capacity, statics, frame, drained, history, cut>>

\* LoggerState::initialize writes the producer ...
WriteProducer(c) ==
    /\ pc[c] = "producer"
    /\ producer' = TRUE
    /\ Goto(c, "activate")
    /\ UNCHANGED <<oneCore, memory, initialized, active, opened, stdout, recovered, frame, drained, history, cut>>

\* ... and then sets the flag that lets the logger use it.
Activate(c) ==
    /\ pc[c] = "activate"
    /\ active' = TRUE
    /\ Goto(c, "count")
    /\ UNCHANGED <<oneCore, memory, initialized, producer, opened, stdout, recovered, frame, drained, history, cut>>

\* A plausible bug, for the mutation runs: only the first of the two slices is
\* counted, the one up to the end of the buffer.
CountFirstSlice(c) ==
    /\ pc[c] = "count"
    /\ recovered' \in 0 .. Len(ring)
    /\ Finish(c, "ok")
    /\ UNCHANGED <<oneCore, memory, statics, frame, drained, history, cut>>

\* The length of the grant that is read, and dropped, to count what was
\* recovered.  The load of `write` may be older than what another core has
\* written since, but no older than what Recover found.
CountRecovered(c) ==
    /\ pc[c] = "count"
    /\ recovered' \in IF oneCore THEN {Len(ring)} ELSE recovered .. Len(ring)
    /\ Finish(c, "ok")
    /\ UNCHANGED <<oneCore, memory, statics, frame, drained, history, cut>>

CallInit(c) ==
    /\ MayRun
    /\ \/ Swap(c) \/ CheckRegion(c) \/ Recover(c)
       \/ WriteProducer(c) \/ Activate(c) \/ CountRecovered(c)

-----------------------------------------------------------------------------
(* Messages *)

\* A frame begins; its number is that of the message.
StartFrame ==
    /\ frame = <<>>
    /\ logs' = logs + 1
    /\ frame' = Frame(logs + 1)
    /\ UNCHANGED <<oneCore, memory, statics, callers, drained, boots, old, mark, cut>>

\* A plausible bug, for the mutation runs: full is not told from empty.
KeptAll(n) == IF ~active THEN {0} ELSE {n}

\* How many of n bytes Producer::write keeps: what fits, or less when another
\* core's `read` is not seen yet; none before the logger is initialized.
Kept(n) ==
    LET free == capacity - Len(ring)
        fit  == IF n <= free THEN n ELSE free
    IN IF ~active THEN {0} ELSE IF oneCore THEN {fit} ELSE 0 .. fit

\* Plausible bugs, for the mutation runs: bytes that do not fit are kept from
\* the end; the host's stdout is opened again, and truncated, by every write.
KeepLast(piece, n) ==
    /\ ring' = ring \o SubSeq(piece, Len(piece) - n + 1, Len(piece))
    /\ stdout' = IF opened THEN stdout \o piece ELSE piece

Reopen(piece, n) ==
    /\ ring' = ring \o SubSeq(piece, 1, n)
    /\ stdout' = piece

\* The outputs of write_all: LoggerState::write, and semihosting::write, which
\* opens the host's stdout once.
Outputs(piece, n) ==
    /\ ring' = ring \o SubSeq(piece, 1, n)
    /\ stdout' = IF opened THEN stdout \o piece ELSE piece

\* The encoder hands the next k bytes of the frame to write_all.
WriteAll ==
    \E k \in 1 .. Len(frame) : \E n \in Kept(k) :
        /\ Outputs(SubSeq(frame, 1, k), n)
        /\ opened' = TRUE
        /\ frame' = SubSeq(frame, k + 1, Len(frame))
        /\ cut' = IF n < k THEN cut \cup {logs} ELSE cut
        /\ UNCHANGED <<oneCore, region, capacity, damage, initialized, producer, active,
                       callers, drained, history>>

-----------------------------------------------------------------------------
(* The consumer and resets *)

HasConsumer == \E c \in Callers : result[c] = "ok"

\* A plausible bug, for the mutation runs: a grant used in part is released
\* whole.
DrainAll(used) ==
    /\ HasConsumer /\ MayRun
    /\ used \in 1 .. Len(ring)
    /\ drained' = drained \o SubSeq(ring, 1, used)
    /\ ring' = <<>>
    /\ UNCHANGED <<oneCore, region, capacity, damage, statics, callers, frame, history, cut>>

\* Consumer::read and GrantR::release, of any part of what is there.
Drain(used) ==
    /\ HasConsumer /\ MayRun
    /\ used \in 1 .. Len(ring)
    /\ drained' = drained \o SubSeq(ring, 1, used)
    /\ ring' = SubSeq(ring, used + 1, Len(ring))
    /\ UNCHANGED <<oneCore, region, capacity, damage, statics, callers, frame, history, cut>>

\* The startup code of the next boot sets the statics.
Restart ==
    /\ boots' = boots + 1 /\ old' = logs /\ mark' = Len(drained)
    /\ initialized' = FALSE /\ producer' = FALSE /\ active' = FALSE
    /\ opened' = FALSE /\ stdout' = <<>>
    /\ pc' = [c \in Callers |-> "swap"]
    /\ result' = [c \in Callers |-> "none"]
    /\ recovered' = 0 /\ frame' = <<>>
    /\ UNCHANGED <<oneCore, region, capacity, drained, logs>>

\* A reset, at any time.  It interrupts the frame under way, and may leave
\* fields of the header invalid, which gives up what the ring holds.
Reset ==
    /\ Restart
    /\ \E fields \in {{}} \cup {{f} : f \in Fields} : damage' = damage \cup fields
    /\ cut' = cut \cup (IF frame # <<>> THEN {logs} ELSE {})
                  \cup (IF damage' # {} THEN Messages(ring) ELSE {})
    /\ UNCHANGED ring

Next ==
    \/ \E c \in Callers : CallInit(c)
    \/ logs < MaxLogs /\ StartFrame
    \/ WriteAll
    \/ \E used \in 1 .. Len(ring) : Drain(used)
    \/ boots < MaxBoots /\ Reset

Spec == Init /\ [][Next]_vars

-----------------------------------------------------------------------------
(* Properties *)

\* Types, and the logger never uses a producer that was not written.
TypeOK ==
    /\ oneCore \in BOOLEAN /\ region \in RegionErrors \cup {"ok"}
    /\ capacity \in Nat /\ damage \subseteq Fields
    /\ {initialized, producer, active, opened} \subseteq BOOLEAN
    /\ active => producer
    /\ ring \in Seq(Byte) /\ Len(ring) <= capacity
    /\ pc \in [Callers -> {"swap", "check", "recover", "producer", "activate", "count", "done"}]
    /\ result \in [Callers -> Results]
    /\ recovered \in Nat
    /\ frame \in Seq(Byte) /\ drained \in Seq(Byte)
    /\ stdout \in Seq(Byte)
    /\ logs \in Nat /\ boots \in Nat /\ old \in 0 .. logs /\ mark \in 0 .. Len(drained)
    /\ cut \subseteq Nat

\* "The atomic swap above guarantees this code runs exactly once, ensuring
\* exclusive ownership": of all callers, however they interleave, at most one
\* is past the swap, takes the memory and gets a Consumer.
PastSwap(c) == pc[c] \notin {"swap", "done"} \/ result[c] \notin {"none", "already initialized"}

OneConsumer == \A c, d \in Callers : PastSwap(c) /\ PastSwap(d) => c = d

\* A boot in which init fails its checks leaves the memory as it found it,
\* whoever calls init again and whatever is logged.
FailedInitTouchesNothing == [][region # "ok" => ring' = ring /\ producer' = FALSE]_vars

\* "Number of bytes that were not from the current run."
RecoveredIsOld ==
    HasConsumer /\ Len(drained) = mark =>
        recovered = Cardinality({i \in DOMAIN ring : ring[i][1] <= old})

\* "This field helps identify the data that was definitely produced by the
\* current firmware": all that is read after the first recovered_logs_len
\* bytes of a boot is of this boot, whenever it was logged.
CurrentRunKnown ==
    HasConsumer =>
        LET read == drained \o ring
        IN \A i \in mark + recovered + 1 .. Len(read) : read[i][1] > old

\* A message in a stream of bytes that a decoder, which starts anew after
\* each delimiter, finds there unharmed.
Decodable(m, stream) ==
    \E i \in 0 .. Len(stream) - Size :
        /\ SubSeq(stream, i + 1, i + Size) = Frame(m)
        /\ i > 0 => IsDelimiter(stream[i])

\* "It is possible to recover from this corruption, with the loss of a limited
\* number of messages": over any number of overflows, resets and partial
\* reads, each message that was kept whole and does not follow one that was
\* cut can be decoded.
LossIsLimited ==
    \A m \in 1 .. logs :
        m \notin cut /\ m - 1 \notin cut /\ (m = logs => frame = <<>>) =>
            Decodable(m, drained \o ring)

\* On one core a full ring cuts the tail of a frame, and never leaves a hole
\* in it: room that is made later is used by later frames.
TailsOnly ==
    oneCore =>
        LET read == drained \o ring
        IN \A i \in DOMAIN read : read[i][2] > 1 =>
               i > 1 /\ read[i - 1] = <<read[i][1], read[i][2] - 1>>
=============================================================================
