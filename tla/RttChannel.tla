----------------------------- MODULE RttChannel ------------------------------
(***************************************************************************)
(* The RTT up channel of src/logger/rtt.rs: the target writes frames into  *)
(* a ring of N = BUF_SIZE bytes, and a host reads them through the debug   *)
(* port while the target runs.                                             *)
(*                                                                         *)
(* write_all and flush run in the logger's critical section, so there is   *)
(* one writer.  available_buffer_size and write_impl compute what          *)
(* Producer::available and Producer::write do (RingIndex).                 *)
(*                                                                         *)
(* The host is external.  It copies bytes and then stores `read`; it sets  *)
(* the channel's mode while it has halted the target.  Whether it may halt *)
(* the target in a write or a flush is a constant.                         *)
(***************************************************************************)
EXTENDS RingIndex, FiniteSets

CONSTANTS Bytes,        \* the byte values
          Data,         \* the data slices write_all is called with
          HaltInCall    \* the host may set the mode during write_all or flush

ASSUME RttAssumption ==
    /\ N > 1
    /\ Data \subseteq Seq(Bytes) \ {<<>>}
    /\ HaltInCall \in BOOLEAN

VARIABLES
    read, write,        \* Channel.read, Channel.write
    buf,                \* BUFFER
    connected,          \* flags hold MODE_BLOCK_IF_FULL: host_is_connected()
    pc,                 \* target: "idle", "loop", "copy" or "flush"
    bytes,              \* write_all: what is left to write
    hostConnected,      \* write_all: the mode it found
    len, copied,        \* write_impl: length, bytes stored
    taken               \* host: bytes copied whose release is not stored yet

cvars == <<len, copied>>
hvars == <<read, taken>>
vars  == <<hvars, cvars, write, buf, connected, pc, bytes, hostConnected>>

Init ==
    /\ read = 0 /\ write = 0
    /\ buf \in [Index -> Bytes]
    /\ connected = FALSE
    /\ pc = "idle" /\ bytes = <<>> /\ hostConnected = FALSE
    /\ len = 0 /\ copied = {}
    /\ taken = 0

-----------------------------------------------------------------------------
(* Channel::write_all *)

BeginWriteAll ==
    /\ pc = "idle"
    /\ bytes' \in Data
    /\ hostConnected' = connected
    /\ pc' = "loop"
    /\ UNCHANGED <<hvars, cvars, write, buf, connected>>

\* One round of the loop that finds room: the loads of blocking_write or
\* nonblocking_write.  In blocking mode a round that finds none changes nothing.
BeginChunk ==
    /\ pc = "loop" /\ Available(read, write) > 0
    /\ len' = Kept(Len(bytes), read, write)
    /\ copied' = {}
    /\ pc' = "copy"
    /\ UNCHANGED <<hvars, write, buf, connected, bytes, hostConnected>>

\* One byte of the copies of write_impl.
CopyByte ==
    /\ pc = "copy"
    /\ \E i \in (0 .. len - 1) \ copied :
          /\ buf' = [buf EXCEPT ![CopyOffset(write, len, i)] = bytes[i + 1]]
          /\ copied' = copied \cup {i}
    /\ UNCHANGED <<hvars, len, write, connected, pc, bytes, hostConnected>>

\* A plausible bug, for the mutation runs: the next round writes it all again.
PublishAgain ==
    /\ pc = "copy" /\ copied = 0 .. len - 1
    /\ write' = NextWrite(write, len)
    /\ pc' = "loop" /\ len' = 0 /\ copied' = {}
    /\ UNCHANGED <<hvars, buf, connected, bytes, hostConnected>>

\* The Release store of `write`, and the rest of the bytes for the next round.
Publish ==
    /\ pc = "copy" /\ copied = 0 .. len - 1
    /\ write' = NextWrite(write, len)
    /\ bytes' = SubSeq(bytes, len + 1, Len(bytes))
    /\ pc' = IF bytes' = <<>> THEN "idle" ELSE "loop"
    /\ len' = 0 /\ copied' = {}
    /\ UNCHANGED <<hvars, buf, connected, hostConnected>>

\* The round that finds no room, with `mayDiscard` the condition of the break.
FullRound(mayDiscard) ==
    /\ pc = "loop" /\ Available(read, write) = 0 /\ mayDiscard
    /\ bytes' = <<>>
    /\ pc' = "idle"
    /\ UNCHANGED <<hvars, cvars, write, buf, connected, hostConnected>>

\* Plausible bugs, for the mutation runs: a full buffer always, and never,
\* ends the loop.
DiscardAlways == FullRound(TRUE)
DiscardNever  == FullRound(FALSE)

\* The break, in non-blocking mode only.
Discard == FullRound(~hostConnected)

-----------------------------------------------------------------------------
(* Channel::flush *)

\* Without a host it returns at once, and changes nothing.
BeginFlush ==
    /\ pc = "idle" /\ connected
    /\ pc' = "flush"
    /\ UNCHANGED <<hvars, cvars, write, buf, connected, bytes, hostConnected>>

EndFlush ==
    /\ pc = "flush" /\ read = write
    /\ pc' = "idle"
    /\ UNCHANGED <<hvars, cvars, write, buf, connected, bytes, hostConnected>>

Target == BeginChunk \/ CopyByte \/ Publish \/ Discard \/ EndFlush

-----------------------------------------------------------------------------
(* The host *)

target == <<cvars, write, buf, pc, bytes, hostConnected>>

HostCopy ==
    /\ taken = 0
    /\ taken' \in 1 .. Dist(read, write)
    /\ UNCHANGED <<target, read, connected>>

HostRelease ==
    /\ taken > 0
    /\ read' = (read + taken) % N
    /\ taken' = 0
    /\ UNCHANGED <<target, connected>>

HostSetMode ==
    /\ pc = "idle" \/ HaltInCall
    /\ connected' = ~connected
    /\ UNCHANGED <<target, hvars>>

Next ==
    \/ BeginWriteAll \/ BeginFlush \/ Target
    \/ HostCopy \/ HostRelease \/ HostSetMode

\* The target runs on; a host that is connected reads on.
Fairness ==
    /\ WF_vars(Target)
    /\ WF_vars(connected /\ HostCopy)
    /\ WF_vars(connected /\ HostRelease)

Spec == Init /\ [][Next]_vars /\ Fairness

-----------------------------------------------------------------------------
(* Properties *)

\* Types; both indices stay inside the buffer.
TypeOK ==
    /\ read \in Index /\ write \in Index /\ buf \in [Index -> Bytes]
    /\ {connected, hostConnected} \subseteq BOOLEAN
    /\ pc \in {"idle", "loop", "copy", "flush"}
    /\ bytes \in Seq(Bytes) /\ (pc \in {"loop", "copy"} <=> bytes # <<>>)
    /\ len \in 0 .. Len(bytes) /\ copied \subseteq 0 .. len - 1
    /\ taken \in 0 .. N - 1

\* What a copy under way, and bytes taken but not released, rely on while the
\* other side moves on.  With TypeOK this is inductive.
CopyConsistent ==
    /\ pc = "copy" <=> len > 0
    /\ len <= N - 1 - Dist(read, write)
    /\ \A i \in copied : buf[CopyOffset(write, len, i)] = bytes[i + 1]
    /\ taken <= Dist(read, write)

IInv == TypeOK /\ CopyConsistent

\* The host receives every byte of a blocking write, and of a non-blocking one
\* a prefix that is cut only when the buffer is full; nothing it has not
\* released is overwritten, while it reads at any moment of a write.
Stream == INSTANCE RttStream WITH
    Capacity <- N - 1,
    queue    <- Contents(buf, read, write),
    pending  <- bytes,
    lent     <- taken,
    blocking <- hostConnected

ImplementsStream == Stream!SSpec

\* write_all and flush, which run with interrupts masked, come to an end:
\* without a host by themselves, with one as long as it reads.
CallsEnd == pc # "idle" ~> pc = "idle"

\* Each step of a call brings its end nearer, and nothing that the host does
\* sets it back: besides rounds that find no room in blocking mode, write_all
\* of n bytes makes at most 3 * n steps.
Work ==
    CASE pc = "idle" -> 0
      [] pc = "flush" -> 1
      [] pc = "loop" -> 3 * Len(bytes)
      [] pc = "copy" -> 3 * Len(bytes) - 1 - Cardinality(copied)

CallsAdvance == [][pc # "idle" => UNCHANGED target \/ Work' < Work]_vars

\* "The host-connection-status is only modified ... while the device is
\* halted, so we only need to check it once before the write-loop": a host
\* that left for good, whenever it did, leaves no call waiting for it.
NoWaitWithoutHost == <>[]~connected => []<>(pc = "idle")
=============================================================================
