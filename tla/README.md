# Verification of defmt-persist

TLA+ models of `defmt-persist`, a `defmt` logger whose ring buffer survives resets: what the
code does at each access to shared state, checked with TLC on small instances and, for most of
it, proved with TLAPS for every value of the constants. File names below are relative to the
repository (`src/ring_buffer.rs` is the crate's file); line numbers are in `PROJECT.json`.

Contents: [1 The system](#1-the-system) · [2 Modules](#2-modules) · [3 Runs](#3-runs) ·
[4 Bounds](#4-bounds-and-why-they-are-enough) · [5 Fairness](#5-fairness) ·
[6 Proofs](#6-proofs) · [7 Divergences found](#7-divergences-between-code-and-comments) ·
[8 Assumptions and limits](#8-assumptions-and-limits) · [9 What is left](#9-what-is-left)

## 1 The system

A logging macro calls `acquire`, `write`…, `release` of the global logger. The encoder's bytes go
to the persist ring (and to RTT, and to semihosting under QEMU). The application gets the ring's
`Consumer` from `init`, drains it, and may wait for data in an async task. The ring's memory is
outside every section, so that a reset leaves it alone and the next `init` recovers what it holds.

    contexts ──► Logger (depth, critical section, encoder) ──► Producer::write ─┐
       │                 │ release: WAKER.wake                 RTT, semihosting  │
       │                 ▼                                                       ▼
       │           AtomicWaker ◄── register ── wait_for_data      header | read | write | buf
       │                                            ▲                            │
       └── init ── recover_or_reinitialize ─────────┼──────────── Consumer::read ┘
                                                 Consumer         GrantR::release

| Component | State | Operations | Interacts through | Hard because | Correct when |
|---|---|---|---|---|---|
| Ring buffer (`ring_buffer.rs`: `Producer`, `Consumer`, `GrantR`) | `read`, `write`, `buf`; a grant's slices | `write`, `read`, `is_empty`, `release`, `release_all` | shared memory, one index per side | lock-free, stale indices, two slices, one free slot | neither side touches the other's slots; a bounded FIFO |
| Recovery and ECC flush (`recover_or_reinitialize`, `flush_ecc`) | `header`, the indices, the RAM's write cache | recovery; a flush after data and after each index | the memory left by the last run | a reset at any store, torn header, cached words, corrupted indices | a reset loses nothing a call returned for, and invents nothing |
| `init` (`lib.rs`) | `INITIALIZED`, the linker's region | `init` | recovery, `LoggerState::initialize` | racing callers, early returns, logging meanwhile | one owner of the memory; producer written before use; the current run's data known |
| Logger (`logger.rs`) | `depth`, `cs_state`, encoder, `initialized`, `producer` | `acquire`, `write`, `flush`, `release` | critical section, `Producer`, RTT, waker | interrupts, NMI, threads and calls from arguments between any two steps | one owner, whole frames, few messages dropped, interrupts as before |
| Waiting (`wait_for_data`, `atomic_waker.rs`) | the stored `Waker` | `register`, `wake` | logger's `release`, executor | register/check/wake races | no lost wakeup, logged data is read |
| RTT channel (`logger/rtt.rs`) | `write`, `read`, `flags` | `write_all`, `flush` | host through memory | spinning masked, the host reads and sets the mode at any time | bytes in order, lossless when blocking, every call ends |
| Semihosting (`logger/semihosting.rs`) | one handle | `write` | debugger | opened once per boot, truncating | what the host prints is what was logged |
| Test firmware (`testsuite`) | – | `drain_to_uart`, `dump_persist_region`, `block_on`, the examples | the crate, UARTs | runs over a reset and over a damaged region | the expected output |
| Test runner (`xtask`) | tests passed and failed, expected files | `run_single`, `run_persist`, `run_corrupt`, `compare_expected` | QEMU, memory dumps | what it concludes depends on several runs | passes on a correct crate |
| `build.rs` | – | – | build | – | no behaviour at run time |

`PROJECT.json` lists the hazards line by line with the properties that cover each.

## 2 Modules

| Module | Models | Uses |
|---|---|---|
| `RingIndex` | index arithmetic: available, where a byte lands, slices, release | – |
| `LogQueue` | abstract: a bounded FIFO with a write in progress and a lent prefix | – |
| `RingBuffer` | `Producer::write`, `Consumer::read`, `GrantR`, interleaved | `RingIndex`; implements `LogQueue` |
| `RingBufferSync` | the happens-before edges of the atomic operations | `RingBuffer` |
| `DurableLog` | abstract: the FIFO plus the log a reset would leave | `LogQueue` |
| `PersistentRing` | recovery, write, release, ECC cache and resets | `RingIndex`; implements `DurableLog` |
| `Logger` | `acquire`/`write`/`flush`/`release`, critical section, contexts | – |
| `WaitForData` | `wait_for_data`, `AtomicWaker`, tail of `release`, the executor | – |
| `RttStream` | abstract: the FIFO fed piece by piece, lossless when blocking | `LogQueue` |
| `RttChannel` | `write_all` in both modes, `flush`, the host | `RingIndex`; implements `RttStream` |
| `Board` | `init`, the outputs of `write_all`, a consumer, resets: the whole crate with each part one step | – |
| `TestBench` | the programs of `testsuite` and the runner of `xtask` | `Board` |
| `MCRingBuffer`, `MCPersistentRing`, `MCLogger`, `MCRttChannel` | values of the constants for TLC | |
| `RingIndexProofs`, `RingBufferProofs`, `RingBufferSyncProofs`, `PersistentRingProofs`, `RttChannelProofs`, `LoggerProofs`, `WaitForDataProofs`, `BoardProofs` | lemmas and theorems | |

How the models correspond to the code:

- **RingBuffer.** `BeginWrite` is everything up to the copies (loads, `available`, the early return
  when nothing fits, which changes nothing and so is no step), `CopyByte` one byte of
  `copy_nonoverlapping`, in any order, and `Publish` the Release store. `ReadGrant` is
  `Consumer::read`; `Release` is `GrantR::release`, whose cap by the grant's length also makes it
  `release_all`; `DropGrant` is a grant dropped. A load of the other side's index returns
  `readSeen` or `writeSeen`, which catch up at any later time (`SeeRead`, `SeeWrite`). The
  flushes write a field nobody reads and are modelled in `PersistentRing`. `is_empty` compares
  what `read` loads and changes nothing.
- **RingBufferSync.** The actions of `RingBuffer`, and for each slot how far the last access to it is
  ordered: `stored`, then `released` by the Release store of `write`, `seen` once a load returns
  that store, `ordered` once an *Acquire* load does; `lent` from the grant on. `Producer::write` loads
  `read` Relaxed, so nothing takes a slot from `lent` to `ordered`.
- **PersistentRing.** One action per store and flush. `cpu` is the memory as the program sees it,
  `ram` what a reset leaves; they differ in at most the one ECC word in the write cache (`held`).
  `magic` is the set of header words that hold their part of MAGIC, so that a torn header store is
  a proper subset. An index of `N` stands for any value out of bounds: the code compares it
  with `buf_len` and then overwrites it. Phases name the places in `recover_or_reinitialize`.
  `build` is chosen at the start and fixed: the `ecc` feature
  and one of three kinds of RAM: no ECC; 32-bit ECC, where an index or header store
  fills a word and bypasses the cache while data stays in it (the comment in `Producer::write`);
  64-bit ECC, where both indices share one word and every store is cached (`read` and `write` are
  adjacent `u32` fields at an 8-byte boundary).
- **Logger.** The steps of each context's call are its accesses to `depth`, to the interrupt mask,
  to `cs_state` and to the encoder. `write` is two steps, the load of `depth` and the use of the
  encoder; `flush` is a call without writes. An argument that logs while it is formatted, or
  panics, is a call inside the call (`level` 2). Around them: threads that a scheduler switches while
  interrupts are enabled, handlers nested by priority, non-maskable handlers, and critical sections
  of the contexts' own. `system` is the set of contexts the program has. `out` is the last two
  encoder calls, which is enough to see that frame parts follow one another.
- **WaitForData.** Each body of `critical_section::with` is one step, and waits for the critical
  section of a frame (`Locked`); `wake` is two, because the Waker is woken after its critical section. A
  message is two pieces, written at the start and at the end of the frame, before the critical section
  is left: a task on another core may see and drain the first alone. The ring is its number of bytes.
  The caller is
  `drain_to_uart` of the testsuite, generalised to release at least one byte. `executor` is one
  that polls a woken task, or `block_on` of the testsuite, which polls for ever with a Waker that
  does nothing.
- **RttChannel.** `BeginChunk` is a round of `write_all`'s loop that finds room: the loads of
  `blocking_write` or `nonblocking_write`, which differ only in early returns without effect.
  `CopyByte` and `Publish` are `write_impl`, `Discard` the break. A spinning round changes nothing
  and is no step. The index arithmetic is that of the persist ring, computed alike by the two files.
  The host copies first and stores `read` afterwards; `HaltInCall` says whether it may halt the
  target inside a call to set the mode.
- **Board.** `init` from the swap to the return, step by step, for several callers: the checks of the
  linker's region with their early returns, recovery, `LoggerState::initialize` in its two stores,
  the count. A frame is its bytes, of which the last is the delimiter, and the encoder hands it
  over in pieces of any length; `Outputs` is what `write_all` does with a piece. `Drain` is a
  `read` and a `release` of any part. `Reset` sets the statics to what the startup code sets, and may damage
  one more field of the region; `Recover` gives up the contents if a field is damaged. With `oneCore`, init and the
  consumer do not run inside a frame; else they do, and a write may see an older `read`.
- **TestBench.** A program is the list of its calls to the crate, from each file of
  `testsuite/examples`, with its branch on `is_empty`. The runner takes the tests in order, starts
  QEMU as often as `run_single`, `run_persist` or `run_corrupt` do, loads the region that the first run
  dumped, with the corruption of the scenario, decodes the three outputs, and compares. `command` is
  `cargo xtask test`, the same with `--bless` and no expected files, or none: then the board is
  free and the programs play no part. The lines a test logs are fewer than the real ones (`Lines`,
  `Rounds`, `Period`).

Operators named as "a plausible bug" in the modules are never part of a specification; each one is
a variant that some property must detect.

## 3 Runs

| Run | Checks | Shows |
|---|---|---|
| `ring` | `TypeOK`, `OwnershipDisjoint`, `StaleIsBehind`, `ReadsOrdered`, `ImplementsQueue` | whatever stale indices each side uses, a copy in progress stays inside the buffer and stores to no slot of a grant or unreleased byte; stale values are only ever behind; each byte of a grant was stored before, in the language's order; the ring implements `LogQueue` |
| `ring_read_doc` | `GrantStopsAtRingEnd` (violated) | see section 7 |
| `ring_race` | `WritesOrdered` (violated) | see section 7 |
| `persist` | `TypeOK`, `CommittedData`, `ImplementsDurableLog` | on all three kinds of RAM, from any corrupted header or index, with resets between any two stores, recovery included: the log left is the one before or after the store that was cut, never a third, and a returned call is not undone; whatever an index in RAM covers is in RAM |
| `logger` | `TypeOK`, `ReentrantCallsDropped`, `AccessIsProtected`, `DroppedOnlyBeforeMask`, `MaskRestored`, `WholeFrames`, `InterruptsReenabled` | where every handler can be masked, also with two threads: one owner, whole frames, a handler's or only thread's message dropped in one window only and the mask it finds put back; with one thread, never masked for good; with two threads and an NMI as well, the steps on shared state run masked |
| `logger_nmi`, `logger_threads` | `CallsDropped`, `MaskAsBefore` (violated) | see section 7 |
| `wait_for_data` | `TypeOK`, `WakeupPending`, `DataIsRead` | no lost wakeup; data that was logged is read, by both executors |
| `rtt` | `TypeOK`, `ImplementsStream`, `CallsAdvance`, `CallsEnd` | a blocking write reaches the host whole, another one as a prefix cut only by a full buffer, in order and not overwritten while copied; each step of a call brings its end nearer; calls end by themselves without a host, and with one as long as it reads |
| `rtt_mode_change` | `NoWaitWithoutHost` (violated) | see section 7 |
| `board` | `TypeOK`, `OneConsumer`, `FailedInitTouchesNothing`, `CurrentRunKnown`, `LossIsLimited`, `TailsOnly`, `TestsPass` | callers that race for `init`: one owner, no use of an unwritten producer, a failed `init` leaves the memory alone; over resets and damage, what is read after the first `recovered_logs_len` bytes is of this boot, each message is decodable unless it or the one before was cut, and a full ring cuts tails only; every test of the suite passes |
| `board_recovered` | `RecoveredIsOld` (violated) | see section 7 |

Two refinements carry most of the weight.

`RingBuffer` implements `LogQueue` with `queue <- Contents(buf, read, write)`, the bytes between
the indices in order. It rules out, at once, a grant that shows a byte not written, a write that
appears in part, bytes out of order or overwritten, and a release that frees more than was lent.

`PersistentRing` implements `DurableLog` with `queue <- Log(cpu)` and `saved <- Log(ram)`, where
`Log` is what recovery would find in an image. `DurableLog` demands that a store moves `saved` only
to itself, to the queue before it or to the queue after it; that a call returns only when `saved`
is the queue; that a reset leaves `saved` or the queue; and that recovery, with all its stores,
changes neither. The last point is the "poorly timed reset" comment of `recover_or_reinitialize`:
the repaired index takes the value of the other (an empty ring), and with both out of bounds
`write` stays out of bounds until the second store. The header store of a reinitialisation is not
followed by a flush. Run `persist` shows that this is enough on 64-bit ECC: until some later store
evicts the header word, a reset finds no valid header, hence an empty log, which is
what the program had; and a call's own stores evict it before it returns.

Three mutants of `ImplementsDurableLog` show what each part of the code is for: without `flush_ecc`,
without the second zero of a reinitialisation, or with an out-of-bounds `read` repaired to 0 in
place of `write`, the refinement fails; without the flush between data and index `CommittedData` does.

`LossIsLimited` states what the README of the crate promises of a full ring and of a damaged region. It
rests on the delimiter: a decoder starts anew after each, so a cut message spoils itself and, by
joining what follows, the next one, and no other. `TailsOnly` is why a cut frame is never a
frame with a hole that still decodes to something: bytes that do not fit are dropped from the end,
and room made later is used by later frames. This needs the consumer kept out of a frame; with the
consumer on another core a frame can have a hole, and only `LossIsLimited` remains.

`TestsPass` composes the crate's model with its test suite. A mutant of `Outputs` that opens the host's
stdout anew for every write, harmless to the ring, makes a test fail: the suite is shown to be able to.

The passing runs with `CHECK_DEADLOCK FALSE` are `logger`, whose contexts stop when they have logged
their messages, and `board`, which stops when its bounds are used up or the tests are done.

## 4 Bounds, and why they are enough

- `ring`: N = 4 (three bytes of capacity), two byte values, data of 1 to 4 bytes. Every start
  index, a write that fits, is cut, is dropped, ends at and crosses the end, grants of one and two
  slices, every release. Larger N adds no new case of the arithmetic, and the theorems of
  section 6 hold for all N.
- `persist`: N = 4, two byte values, data of 1 to 3 bytes, ECC words of two data bytes, so that a write
  spans words, shares one with the log, and wraps; a header of two words, so that it can be torn.
  The number of resets is not bounded.
- `logger`: two messages per context of two writes each (1.2 million states). One program has one thread and two
  handlers of different priorities, so that a handler preempts a handler in a call; one has two
  threads and a handler, so that a thread is switched away from in its call and never comes back;
  the third has all kinds of contexts. `MaxCalls` bounds only the messages. A context nests one call
  in another (`Nesting = 2`): a deeper one adds to `depth` and drops its writes like the second, and
  the theorems hold for every `Nesting`.
- `wait_for_data`: two loggers, three messages of two bytes each, two bytes of ring, so that messages
  are lost to a full ring, drained in part, and wake calls overlap.
- `rtt`: a buffer of three bytes of capacity, data of up to four bytes, so that one write takes
  several rounds, wraps and is cut. Nothing else is bounded.
- `board`: two callers, frames of three bytes, three messages and one reset, on a ring of four bytes
  that holds one frame and a part (2.1 million states). That is the least in which a message is cut, the next one is spoilt,
  and the third is not. The test suite runs on a ring of nine bytes, two lines per test, seven rounds of
  `wraparound_test` with a drain after each third, so that the ring wraps and no test
  overflows it, as in the real one.

No symmetry is used. No run takes much more than a minute.

## 5 Fairness

`Logger`, `WaitForData` and `RttChannel` state liveness.

- `Logger`: weak fairness of the running context's next step in a call that it has started (`Proceed`,
  which is `Call` but for `Acquire`) and of leaving its own critical section (a core does not stop), of
  returning from a handler, and of a handler that can be taken. None for `Switch` or for starting a
  message: a scheduler need not switch and nobody has to log.
  `InterruptsReenabled` needs no more.
- `WaitForData`: weak fairness of each step of a poll once started and of polling a *woken* task,
  which is an executor's contract; weak fairness of the steps of a message once begun and of the two of
  `wake`. Whoever waits for the critical section of another gets it after finitely many messages, of
  which `MaxCalls` has only so many; loggers of another core that never pause are not covered. Of a spurious poll only if the executor is the one that `polls`: `block_on` is a loop around
  `poll`. None for logging, and none for a spurious poll of the other executor, which would make
  `DataIsRead` hold by polling alone.
- `RttChannel`: weak fairness of the target's steps inside a call, and of the host's copy and
  release *while the mode is blocking*, which is what a connected probe does. None for a host in
  the other mode, so that `CallsEnd` then rests on the target alone.

## 6 Proofs

All proofs are checked by `tlapm` to the last leaf, for every value of the constants that the named
`ASSUME`s admit: a buffer of N > 0 bytes, data that are sequences of bytes, capacities and bounds
that are natural numbers, finitely many threads apart from the handlers. Each safety theorem
rests on an inductive invariant that TLC checked first.

| Theorem | States |
|---|---|
| `TypeCorrect`, `StaleIndicesAreSafe`, `NoOverwrite` | `Spec => []TypeOK`, `[]StaleIsBehind`, `[]OwnershipDisjoint` of `RingBuffer` |
| `RingImplementsQueue` | `Spec => ImplementsQueue` |
| `AvailableIsExact` | `Producer::available` is N - 1 less the bytes stored, for all indices |
| `NoIndexOverflow` | for N < i32::MAX / 4, as `init` requires, no index sum reaches 2^31 |
| `PersistTypes`, `CommittedIsSaved`, `LogSurvives` | `Spec => []TypeOK`, `[]CommittedData`, `ImplementsDurableLog` of `PersistentRing` |
| `GrantsSynchronize` | `SyncSpec => []ReadsOrdered` |
| `SyncIsRing`, `SyncImplementsQueue` | `SyncSpec => Spec` of `RingBuffer`, so that its theorems hold with the orderings too; `SyncSpec => ImplementsQueue` |
| `WaitTypes`, `NoLostWakeup` | `Spec => []TypeOK`, `[]WakeupPending` of `WaitForData` |
| `RttTypes`, `ChannelImplementsStream`, `CallsAreBounded` | `Spec => []TypeOK`, `ImplementsStream`, `CallsAdvance` of `RttChannel` |
| `BoardTypes`, `ExclusiveOwner`, `FailedInitIsHarmless`, `RecoveredLenSeparates` | `Spec => []TypeOK`, `[]OneConsumer`, `FailedInitTouchesNothing`, `[]CurrentRunKnown` of `Board` |
| `LossStaysLimited`, `OnlyTailsAreCut` | `Spec => []LossIsLimited`, `[]TailsOnly` of `Board` |
| `LoggerTypes`, `ProtectedAccess` | `Spec => []TypeOK`, `[]AccessIsProtected` of `Logger`, for every program |
| `ReentrantDropped`, `DropWindow`, `MaskPutBack`, `FramesAreWhole` | `[]ReentrantCallsDropped`, `[]DroppedOnlyBeforeMask`, `[]MaskRestored`, `[]WholeFrames` of `Logger`, for programs whose handlers can all be masked, with any number of threads and nested calls |

**The ring** (`RingIndexProofs`, `RingBufferProofs`). `OwnershipDisjoint` is
not inductive: whether a copy is safe depends on the stale `read` its length was computed from,
long before. The inductive invariant `IInv` is `TypeOK`, `StaleIsBehind` and `LocalsConsistent`:

1. The four values `readSeen`, `read`, `writeSeen`, `write` are in this order around the ring, with
   distances that add up to less than N (`StaleIsBehind`). Each index moves only forward, `write`
   by at most the space computed from `readSeen`, `read` by at most the data computed from
   `writeSeen`, so neither passes the next (`NextWriteDist`, `NextReadDist`, `DistAdds`).
2. What each side remembers stays true while the other moves (`LocalsConsistent`): the kept length
   fits after `readSeen`, the grant ends at or before `writeSeen`, and the bytes stored so far are
   the data's.
3. `NextInv` has a lemma per action. `NoOverwrite` follows with `CopyStaysInFreeSpace`.
4. `RingImplementsQueue`: `ContentsIsWindow` shows that position k of the two slices is slot
   read + k modulo N; from it, a change outside the window changes nothing (`CopyByteImplements`),
   publishing appends (`ContentsAppend`) and releasing drops a prefix (`ContentsDrop`). Every step
   maps to one step of `LogQueue` or a stutter.

**The order of accesses** (`RingBufferSyncProofs`). `IInv` holds of every step of `RingBufferSync` too.
`Staged` says where a slot at each stage can be: one that is only `stored` is a target of the write
under way, and one that is `released` but not seen is not between `read` and `writeSeen`. What the
consumer finds there was hence seen, and its Acquire load orders it.

**RTT** (`RttChannelProofs`). `IInv` is `TypeOK` and `CopyConsistent`: the chunk under way fits in the
free space, the bytes copied so far are the data's, and what the host took is not yet released. The
refinement uses the facts about the index arithmetic that the ring's does. `CallsAreBounded` is the
part of `CallsEnd` that needs no fairness: `Work`, three times the bytes left less the steps of the
round under way, falls with each step of a call, and no step of the host raises it. A write of n
bytes hence makes at most 3n steps, besides rounds that find the buffer full in blocking mode.

**Init and the crate as a whole** (`BoardProofs`). For the owner: a caller past the swap is the only
one and finds `INITIALIZED` set (`Swapped`), there is a consumer only if one call returned
(`Returned`, `OneConsumer`), the producer is written before the logger is on (`ProducerFirst`), and a
boot that failed its checks has no producer (`Refused`). For what is recovered: the bytes
of the ring that are not of this boot are a prefix no longer than what `init` has seen of the ring
(`OldSeen`), which is what recovery found until a load that may lag behind another core's writes, but
not behind recovery, makes it the count (`CurrentRunKnown`).
`LossInv` follows the frames: what is left of one is its end (`FrameTail`), the logger writes to a
ring that recovery has gone over (`Recovered`), a damaged ring costs the messages with a
byte in it (`GivenUp`), a frame under way of which nothing was lost ends what there is to read
(`Within`), a finished one does too (`Between`), and each message of which, and of the one
before, nothing was lost is found whole (`KeptWhole`).
`TailInv` adds that within a frame each byte that is kept follows the one before
(`Chained`), and that while there is room the last byte kept is the last one handed over
(`NextFits`).

**The logger** (`LoggerProofs`). `LInv`, which holds in every program, says what the counter is: `depth`
is the number of calls between `fetch_add` and `fetch_sub` (`DepthOK`, a cardinality), over
contexts of which the preempted ones are on the core's stack (`CoreOK`), each with
interrupts as its step requires (`InsideOK`, `CountedOK`, `EndingOK`, `SavedOK`). That a call works
on the shared state only masked follows. `MInv` adds, where every handler can be masked:

1. A call that masks the interrupts is that of the context that runs (`OwnerRuns`), and so is a
   critical section of a context's own (`InsideRuns`): neither an interrupt nor a switch of threads
   comes in between. With this `CallsDropped` is inductive: a call that takes or uses the lock is
   the only one counted (`TakesAlone`), which one about to mask the interrupts would be too.
2. A context that no switch of threads leaves in its call (`Unswitched`: a handler, or the only
   thread) and that got the lock has only calls above it counted (`Alone`); what is counted below
   a handler has a call in the window before the mask (`KeptOut`). Hence `DropWindow`.
3. If the interrupts are masked and nobody is in a critical section of its own, such a context is
   in the call that masked them, the only one counted, and saved that they were enabled
   (`MaskOK`). Its `release` is then the one that restores them. Hence `MaskPutBack`.

Contexts off the core make the difference: with two threads one may be left in a call, counted,
and the other then runs masked for ever. (2) and (3) fail for it, which `logger_threads` shows, but not
(1), nor that frames are whole. `WholeFrames` looks at the last two outputs only, and whether the
next one fits depends on who makes it and what it still has to write. `FInv` adds:

1. How many writes a call has left where it starts and ends (`LeftOK`).
2. An owner of the lock is before or after its frame (`Closed`: the last output ended one) or in it
   (`Written`: the last output is its own and says how many writes are left). So is the context
   that runs in its message and is the only one counted (`Sole`); one beside which another is
   counted finds another `depth` than 1 and writes nothing, so that the frame stays open.
3. When nothing is counted and no frame is being ended, the last one is whole (`FrameOK`, second
   part): the next call that takes the lock starts a new one after it.

The condition is in the theorems' statements; `logger_nmi` shows that it is needed.

**Waiting** (`WaitForDataProofs`). `WakeupPending` alone is not inductive: the task falls asleep
after the check, and by then the logger may already hold, or not yet have taken, the Waker. `Armed`
adds that from the registration on the Waker is in the slot, in a logger's hands or was woken;
`TypeOK /\ Armed /\ WakeupPending` is inductive.

**The region across resets** (`PersistentRingProofs`). What TLC checks on the three kinds of RAM is
proved for each of them at any size. `IInv` relates the two images, the held word and the phase:

1. The images differ in the held word alone (`Apart`): index words differ only on 64-bit ECC, and while
   a data word is held both indices agree. Bytes that differ belong to the write under way
   (`Dirty`), so they lie outside the window of either image: `CommittedIsSaved`.
2. Recovery stores to a field only of an image whose log is empty, before and after (`Progress`,
   `EmptyStays`): half-repaired fields still show an empty log, so that no store of it changes
   either log, wherever it is cut off.
3. What the calls remember fits the indices (`WriteFits`, `GrantFits`), as in the ring's proof, and
   between calls both logs are equal (`Idle`).
4. `LogSurvives`: a store of an index shows a reset the log from before the store, from before
   the last flush, or its own (`FieldSaves`); a flush makes both logs one (`FlushFacts`). Each step maps to
   one of `DurableLog` or a stutter.


Model-checked only:

- `InterruptsReenabled`, `DataIsRead` and `CallsEnd`, liveness under fairness, which is out of the
  prover's reach. What they need of safety is proved: with one thread and maskable handlers, who
  runs masked is in a call that got the lock or in its own critical section (`MaskPutBack`), no
  wakeup is lost (`NoLostWakeup`), and a call takes a
  bounded number of steps (`CallsAreBounded`).
- `TestsPass`, a statement about six given programs and their expected outputs: to prove it is to run
  them. The theorems about `Board` are about its `Spec`, which is the part of run `board` without a
  runner; the runs of QEMU load snapshots, which no reset of `Board` does.

## 7 Divergences between code and comments

1. `ring_read_doc`. The documentation of `Consumer::read` says that data crossing the end of the
   ring is given in two calls. The code gives it in one, as two slices. The comment is out of date.
2. `ring_race`. "The atomics also synchronize with the `Producer`" (`ring_buffer.rs:73`). The
   Release store of `write` does, with the consumer's Acquire load, and `ReadsOrdered` is proved
   from it. The Release store of `read` has no Acquire counterpart: `Producer::write` loads `read`
   Relaxed, so the consumer's reads of a slot and the producer's next stores to it are unordered in the
   language's memory model. On one core, for which the crate is made, program order does it.
3. `logger_nmi`. Reentrant calls "from NMI, HardFault, or panic during logging" are said to be
   detected and dropped. `release` lowers `depth` to 0 *before* it ends the frame and leaves the
   critical section; an NMI or HardFault that logs in that window finds 0, starts a frame inside
   the unfinished one and overwrites `cs_state`, so that the interrupted `release` restores the
   state the handler saved, in which interrupts were masked.
4. `logger_threads`. "`release` exits the critical section after logging is complete": the depth
   counter is shared by all contexts, and `acquire` raises it before it masks interrupts. If a
   scheduler switches threads in between, a second thread's message is counted as reentrant; when
   the first resumes, its own `release` sees depth 2, and returns with interrupts masked.
   Handlers cannot do this, because they finish their call before the thread goes on (run `logger`).
   The frame under way then stays open, but nothing is mixed into it (`FramesAreWhole`).
5. `board_recovered`. `recovered_logs_len` is the "Number of bytes that were not from the current
   run", but `init` counts after it has started the logger: messages of interrupt handlers
   between the two are counted. `CurrentRunKnown` is the half that holds.
6. `rtt_mode_change`. The mode is said to change only while the device is halted, "so we only need
   to check it once before the write-loop". The device may be halted inside that loop: a host that
   leaves there, having set the non-blocking mode, leaves the target spinning with interrupts masked.

## 8 Assumptions and limits

- In `RingBuffer`, consumer and producer see each other's index late but in order, and each side's
  own accesses in program order; data stores are visible when the Release store of `write` is, and
  the producer's stores come after its load of `read`. `RingBufferSync` says which of these the
  operations' orderings promise (all but the last, see `ring_race`); on one core all hold.
- `PersistentRing` has no stale views: it is about one core and its RAM. The bytes of a write are
  stored one at a time, in any order. Which stores bypass the cache is fixed by the hardware kind.
  A copy that stores whole words of data would commit them earlier, in space no index covers.
- A reset keeps the RAM, apart from the cached word, which may be lost or not. Corruption is
  modelled at power-up (in `PersistentRing`, `Init`: any header, indices and data; in `Board`, one more
  damaged field at a reset), not while the program runs. A field that `Board` damages is a wrong
  magic or an index out of range; an index that is wrong but in range, which recovery accepts, is in
  `PersistentRing` only.
- The critical section of `Logger` is the single-core one (PRIMASK). The depth counter does not wrap:
  it is bounded by the number of contexts times `Nesting`, and the stack of a program bounds both. A panic
  handler that logs from inside a message and never returns is a behaviour in which the context stops
  after its inner call: the safety properties cover it, the liveness ones assume that it returns.
- The encoder is its sequence of calls. What a cut message decodes to is the decoder's affair,
  but for one thing `Board` relies on: the encoder ends each frame with a delimiter that occurs nowhere
  else in it, and the decoder starts anew after each.
- Of semihosting, a host that refuses to open its stdout is left out, and so is `exit_failure` of the
  testsuite, which no test reaches. `TestBench` leaves out `join` and `yield_once`, which order
  steps of one task, and the runner's errors of `cargo` and QEMU, its filter and its verbose output.
- Not modelled: `build.rs`, which writes one constant, the UART registers, and the linker scripts,
  whose region `init` checks.

## 9 What is left

- A switch between two programs with and without the `ecc` feature: MAGIC differs, so that
  the second finds no valid header. In the models it is a boot with an invalid header.
- `Board` takes recovery as one step, and `PersistentRing` has one producer and no frames. A module that
  has both, with a reset between any two stores of a frame's pieces, would join
  `LossIsLimited` to `ImplementsDurableLog`; each is checked by itself now.
