----------------------------- MODULE RingBuffer ------------------------------
(***************************************************************************)
(* The lock-free single-producer single-consumer ring of                   *)
(* src/ring_buffer.rs, with both sides interleaved at every access to      *)
(* shared memory.                                                          *)
(*                                                                         *)
(* Each side owns one index: the producer stores `write`, the consumer     *)
(* stores `read`, and a load of one's own index sees one's last store (the *)
(* locals `write`, `read` and GrantR::original_read are therefore the      *)
(* header's fields, and not variables of their own).  A load of the other  *)
(* side's index may be stale: readSeen and writeSeen are the values the    *)
(* loads return, and they catch up at any later time.                      *)
(*                                                                         *)
(* The bytes of a write are plain stores that only the Release store of    *)
(* `write` orders, so they reach the buffer in any order.                  *)
(*                                                                         *)
(* The ring may start with any contents: recovery hands it whatever the    *)
(* previous run left (module PersistentRing).                              *)
(***************************************************************************)
EXTENDS RingIndex

CONSTANTS Bytes,        \* the byte values
          Data          \* the data slices Producer::write is called with

ASSUME DataAssumption == Data \subseteq Seq(Bytes)

VARIABLES
    read, write,        \* RingBuffer.read, RingBuffer.write
    buf,                \* the storage
    readSeen,           \* what a load of `read` by the producer returns
    writeSeen,          \* what a load of `write` by the consumer returns
    ppc,                \* producer: "idle" or "copy"
    data, len, copied,  \* Producer::write: argument, kept length, bytes stored
    cpc,                \* consumer: "idle" or "granted"
    len1, len2          \* GrantR.slice1.len(), GrantR.slice2.len()

pvars == <<write, buf, ppc, data, len, copied>>
cvars == <<read, cpc, len1, len2>>
vars  == <<pvars, cvars, readSeen, writeSeen>>

Init ==
    /\ read \in Index /\ write \in Index
    /\ buf \in [Index -> Bytes]
    /\ readSeen = read /\ writeSeen = write
    /\ ppc = "idle" /\ data = <<>> /\ len = 0 /\ copied = {}
    /\ cpc = "idle" /\ len1 = 0 /\ len2 = 0

-----------------------------------------------------------------------------
(* Producer::write *)

\* Loads both indices and decides how much to keep.  When nothing fits the
\* call returns and no state changes: the guard leaves that case out.
BeginWrite ==
    /\ ppc = "idle"
    /\ \E d \in Data :
          /\ Kept(Len(d), readSeen, write) > 0
          /\ data' = d
          /\ len' = Kept(Len(d), readSeen, write)
    /\ ppc' = "copy"
    /\ copied' = {}
    /\ UNCHANGED <<write, buf, cvars, readSeen, writeSeen>>

\* One byte of the one or two copy_nonoverlapping calls.
CopyByte ==
    /\ ppc = "copy"
    /\ \E i \in (0 .. len - 1) \ copied :
          /\ buf' = [buf EXCEPT ![CopyOffset(write, len, i)] = data[i + 1]]
          /\ copied' = copied \cup {i}
    /\ UNCHANGED <<write, ppc, data, len, cvars, readSeen, writeSeen>>

\* The Release store of `write`, which makes the bytes visible.
Publish ==
    /\ ppc = "copy"
    /\ copied = 0 .. len - 1
    /\ write' = NextWrite(write, len)
    /\ ppc' = "idle"
    /\ data' = <<>> /\ len' = 0 /\ copied' = {}
    /\ UNCHANGED <<buf, cvars, readSeen, writeSeen>>

-----------------------------------------------------------------------------
(* Consumer::read and GrantR *)

\* Consumer::read: an Acquire load of `write`, then the two slices.
ReadGrant ==
    /\ cpc = "idle"
    /\ len1' = Len1(read, writeSeen)
    /\ len2' = Len2(read, writeSeen)
    /\ cpc' = "granted"
    /\ UNCHANGED <<pvars, read, readSeen, writeSeen>>

EndGrant ==
    /\ cpc = "granted"
    /\ cpc' = "idle"
    /\ len1' = 0 /\ len2' = 0
    /\ UNCHANGED <<pvars, readSeen, writeSeen>>

\* A plausible bug, for the mutation runs: more is freed than was granted.
ReleaseUncapped ==
    /\ \E used \in 0 .. N : read' = NextRead(read, len1, used) % N
    /\ EndGrant

\* GrantR::release(used): `used` is capped by the length of the grant, which
\* also covers release_all, that asks for usize::MAX.
Release ==
    /\ \E used \in 0 .. len1 + len2 : read' = NextRead(read, len1, used)
    /\ EndGrant

\* The grant is dropped without a release: no data is consumed.
DropGrant ==
    /\ EndGrant
    /\ UNCHANGED read

-----------------------------------------------------------------------------
(* Propagation of each side's index to the other *)

SeeRead ==
    /\ readSeen # read
    /\ readSeen' = read
    /\ UNCHANGED <<pvars, cvars, writeSeen>>

SeeWrite ==
    /\ writeSeen # write
    /\ writeSeen' = write
    /\ UNCHANGED <<pvars, cvars, readSeen>>

Next ==
    \/ BeginWrite \/ CopyByte \/ Publish
    \/ ReadGrant \/ Release \/ DropGrant
    \/ SeeRead \/ SeeWrite

Spec == Init /\ [][Next]_vars

-----------------------------------------------------------------------------
(* Properties *)

\* Every field and local has its type.  In particular both indices stay
\* below N, as the struct's documentation promises.
TypeOK ==
    /\ {read, write, readSeen, writeSeen} \subseteq Index
    /\ buf \in [Index -> Bytes]
    /\ ppc \in {"idle", "copy"}
    /\ data \in Seq(Bytes)
    /\ len \in 0 .. Len(data)
    /\ copied \subseteq 0 .. len - 1
    /\ cpc \in {"idle", "granted"}
    /\ len1 \in 0 .. N - 1 /\ len2 \in 0 .. N - 1

\* The slots the write in progress stores to.
Targets == {CopyOffset(write, len, i) : i \in 0 .. len - 1}

\* The slots the outstanding grant's two slices show.
Granted == IF cpc = "granted" THEN (read .. read + len1 - 1) \cup (0 .. len2 - 1) ELSE {}

\* The SAFETY argument of Producer::write and Consumer::read: whatever stale
\* indices each side works with, a copy in progress stays inside the buffer,
\* and stores neither to a slot of the outstanding grant (its slices are
\* `&[u8]`, "not mutated for the lifetime") nor to any byte written and not
\* released yet.
OwnershipDisjoint ==
    /\ Targets \subseteq Index
    /\ Granted \subseteq Index
    /\ Targets \cap Owned(read, write) = {}
    /\ Targets \cap Granted = {}

\* The stale values are only ever behind, in the order readSeen, read,
\* writeSeen, write around the ring: a stale `read` underestimates the space,
\* a stale `write` the data, and nothing is granted beyond what the consumer
\* has seen written.
StaleIsBehind ==
    /\ Dist(readSeen, read) + Dist(read, writeSeen) + Dist(writeSeen, write) <= N - 1
    /\ len1 + len2 <= Dist(read, writeSeen)

\* What each side's locals mean while its operation is in progress: the kept
\* length still fits however stale the `read` it was computed from, the bytes
\* stored so far are the data's, and the grant's second slice is used only
\* once the first reaches the end of the buffer.
LocalsConsistent ==
    /\ ppc = "idle" => data = <<>> /\ len = 0
    /\ ppc = "copy" => len \in 1 .. N - 1 - Dist(readSeen, write)
    /\ \A i \in copied : buf[CopyOffset(write, len, i)] = data[i + 1]
    /\ cpc = "idle" => len1 = 0 /\ len2 = 0
    /\ read + len1 <= N
    /\ len2 > 0 => read + len1 = N

\* "Only after releasing the data up to the end of the ring will the next call
\* provide more data" (the documentation of Consumer::read).
GrantStopsAtRingEnd == cpc = "granted" => read + len1 + len2 <= N

\* The inductive invariant behind OwnershipDisjoint and ImplementsQueue.
IInv == TypeOK /\ StaleIsBehind /\ LocalsConsistent

\* The ring implements the bounded FIFO: the bytes between the two indices
\* change only when a whole write is published at the end or a release drops
\* lent bytes from the front.
Queue == INSTANCE LogQueue WITH
    Capacity <- N - 1,
    queue    <- Contents(buf, read, write),
    pending  <- data,
    lent     <- len1 + len2

ImplementsQueue == Queue!QSpec
=============================================================================
