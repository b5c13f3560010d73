-------------------------------- MODULE Logger --------------------------------
(***************************************************************************)
(* The defmt logger of src/logger.rs: acquire, write and release of        *)
(* LOGGER_STATE, called by the contexts of a single-core microcontroller.  *)
(*                                                                         *)
(* The contexts are threads (one of them runs, a scheduler interrupt may   *)
(* switch to another) and interrupt handlers, which nest by priority on    *)
(* top of the thread.  A critical section masks the interrupts, the        *)
(* scheduler's included, but no context of NonMaskable (NMI, HardFault).   *)
(*                                                                         *)
(* A logging macro is one acquire, some writes and one release, and        *)
(* defmt::flush one acquire, one flush and one release.  The code that     *)
(* formats an argument may itself log, or panic and log from the panic     *)
(* handler: a call inside the context's own call.  The steps below are the *)
(* accesses to shared state between which another context may run.  The    *)
(* encoder and the critical section are external: `out` is the end of what *)
(* start_frame, write and end_frame hand to write_all.  A reset puts every *)
(* static back to Init, so that each boot is a behaviour of this module.   *)
(***************************************************************************)
EXTENDS Integers, Sequences, FiniteSets

CONSTANTS
    Threads, Handlers,     \* the contexts
    NonMaskable,           \* the handlers no critical section keeps out
    Priority,              \* of each handler
    Writes,                \* Logger::write calls of one message
    Nesting,               \* calls of one context inside one another
    Systems,               \* the sets of contexts a program may consist of
    MaxCalls               \* bound: messages logged by each context

Contexts == Threads \cup Handlers

ASSUME LoggerAssumption ==
    /\ Threads # {} /\ IsFiniteSet(Threads) /\ Threads \cap Handlers = {}
    /\ NonMaskable \subseteq Handlers
    /\ Priority \in [Handlers -> Nat]
    /\ Writes \in Nat \ {0} /\ Nesting \in Nat \ {0} /\ MaxCalls \in Nat
    /\ \A s \in Systems : s \subseteq Contexts /\ s \cap Threads # {}

VARIABLES
    system,                \* the program's contexts, one of Systems
    depth,                 \* LoggerState.depth
    csState,               \* LoggerState.cs_state: were interrupts masked?
    out,                   \* the last two of the encoder's outputs: <<context, part>>
    masked,                \* PRIMASK
    current, stack,        \* the running thread, the handlers on top of it
    level,                 \* of each context: its calls between acquire and release
    pc, restore, left,     \* of its innermost call: step, local, writes left
    calls,                 \* messages each context has logged
    inside                 \* contexts in a critical section of their own

shared == <<depth, csState, out>>
core   == <<system, masked, current, stack, inside>>
locals == <<level, pc, restore, left, calls>>
vars   == <<shared, core, locals>>

Running == IF stack = <<>> THEN current ELSE stack[Len(stack)]

\* The contexts that run or that a handler on the stack interrupted.
OnCore == {current} \cup {stack[i] : i \in 1 .. Len(stack)}

\* The parts of a frame: its start, the data of each write, its end.
FrameStart == 0
FrameEnd == Writes + 1

Init ==
    /\ system \in Systems
    /\ depth = 0 /\ csState = FALSE /\ out = <<>>
    /\ masked = FALSE /\ current \in system \cap Threads /\ stack = <<>> /\ inside = {}
    /\ level = [c \in Contexts |-> 0]
    /\ pc = [c \in Contexts |-> "idle"]
    /\ restore = [c \in Contexts |-> FALSE]
    /\ left = [c \in Contexts |-> 0]
    /\ calls = [c \in Contexts |-> 0]

Goto(c, step) == pc' = [pc EXCEPT ![c] = step]

-----------------------------------------------------------------------------
(* Logger::acquire *)

\* defmt calls acquire for a message, for a flush (no writes), or while an
\* argument of the context's own message is formatted.
Begin(c) ==
    /\ calls[c] < MaxCalls
    /\ calls' = [calls EXCEPT ![c] = @ + 1]
    /\ level' = [level EXCEPT ![c] = @ + 1]
    /\ \/ /\ level[c] = 0
          /\ \E writes \in {0, Writes} : left' = [left EXCEPT ![c] = writes]
       \/ /\ level[c] \in 1 .. Nesting - 1 /\ pc[c] = "body" /\ left[c] > 0
          /\ UNCHANGED left
    /\ UNCHANGED <<csState, out, core, restore>>

\* Plausible bugs, for the mutation runs: a reentrant call is not counted, but
\* still released; a reentrant call goes on like the first.
AcquireUncounted(c) ==
    /\ Begin(c)
    /\ depth' = IF depth > 0 THEN depth ELSE 1
    /\ Goto(c, IF depth > 0 THEN "body" ELSE "enter")

AcquireAlways(c) == Begin(c) /\ depth' = depth + 1 /\ Goto(c, "enter")

\* depth.fetch_add: only the call that finds 0 goes on to take the lock.
Acquire(c) ==
    /\ Begin(c)
    /\ depth' = depth + 1
    /\ Goto(c, IF depth > 0 THEN "body" ELSE "enter")

\* A plausible bug, for the mutation runs: nothing is masked.
EnterNothing(c) ==
    /\ pc[c] = "enter"
    /\ restore' = [restore EXCEPT ![c] = masked]
    /\ Goto(c, "save")
    /\ UNCHANGED <<shared, core, level, left, calls>>

\* critical_section::acquire
EnterCS(c) ==
    /\ pc[c] = "enter"
    /\ restore' = [restore EXCEPT ![c] = masked]
    /\ masked' = TRUE
    /\ Goto(c, "save")
    /\ UNCHANGED <<shared, system, current, stack, inside, level, left, calls>>

SaveState(c) ==
    /\ pc[c] = "save"
    /\ csState' = restore[c]
    /\ restore' = [restore EXCEPT ![c] = FALSE]
    /\ Goto(c, "start")
    /\ UNCHANGED <<depth, out, core, level, left, calls>>

\* One call into the encoder, which hands its bytes to write_all.
Encode(c, part) ==
    /\ out' = (IF out = <<>> THEN out ELSE <<out[Len(out)]>>) \o << <<c, part>> >>
    /\ UNCHANGED <<depth, csState, core, level, restore, calls>>

StartFrame(c) ==
    /\ pc[c] = "start"
    /\ Encode(c, FrameStart)
    /\ Goto(c, "body")
    /\ UNCHANGED left

-----------------------------------------------------------------------------
(* Logger::write *)

\* The load of depth.  A call that finds another value than 1 returns.
SkipWrite(c) ==
    /\ pc[c] = "body" /\ level[c] = 1 /\ left[c] > 0 /\ depth # 1
    /\ left' = [left EXCEPT ![c] = @ - 1]
    /\ UNCHANGED <<shared, core, level, pc, restore, calls>>

CheckDepth(c) ==
    /\ pc[c] = "body" /\ left[c] > 0 /\ depth = 1
    /\ Goto(c, "emit")
    /\ UNCHANGED <<shared, core, level, restore, left, calls>>

EmitData(c) ==
    /\ pc[c] = "emit"
    /\ Encode(c, FrameEnd - left[c])
    /\ left' = [left EXCEPT ![c] = @ - 1]
    /\ Goto(c, "body")

-----------------------------------------------------------------------------
(* Logger::flush *)

\* Only the owner flushes, which module RttChannel models.
BeginFlush(c) ==
    /\ pc[c] = "body" /\ level[c] = 1 /\ left[c] = 0 /\ depth = 1
    /\ Goto(c, "flush")
    /\ UNCHANGED <<shared, core, level, restore, left, calls>>

EndFlush(c) ==
    /\ pc[c] = "flush"
    /\ Goto(c, "flushed")
    /\ UNCHANGED <<shared, core, level, restore, left, calls>>

-----------------------------------------------------------------------------
(* Logger::release *)

\* The call returns, to the context's own outer call if there is one.
Leave(c) ==
    /\ level' = [level EXCEPT ![c] = @ - 1]
    /\ Goto(c, IF level[c] > 1 THEN "body" ELSE "idle")

\* depth.fetch_sub: only the call that finds 1 ends the frame.
Release(c) ==
    /\ \/ pc[c] = "body" /\ (level[c] > 1 \/ left[c] = 0)
       \/ pc[c] = "flushed"
    /\ depth' = depth - 1
    /\ IF depth # 1 THEN Leave(c) ELSE Goto(c, "end") /\ UNCHANGED level
    /\ UNCHANGED <<csState, out, core, restore, left, calls>>

EndFrame(c) ==
    /\ pc[c] = "end"
    /\ Encode(c, FrameEnd)
    /\ Goto(c, "exit")
    /\ UNCHANGED left

\* critical_section::release, with the state it is given.
Exit(c, state) ==
    /\ pc[c] = "exit"
    /\ masked' = state
    /\ Leave(c)
    /\ UNCHANGED <<shared, system, current, stack, inside, restore, left, calls>>

\* Plausible bugs, for the mutation runs: the saved state is ignored, and the
\* critical section is not left.
ExitCSUnmask(c) == Exit(c, FALSE)
KeepMasked(c)   == Exit(c, TRUE)

ExitCS(c) == Exit(c, csState)

-----------------------------------------------------------------------------
(* The core *)

\* A context's own critical section, in which it may log.
Mask(c) ==
    /\ pc[c] = "idle" /\ ~masked
    /\ masked' = TRUE /\ inside' = inside \cup {c}
    /\ UNCHANGED <<shared, locals, system, current, stack>>

Unmask(c) ==
    /\ pc[c] = "idle" /\ c \in inside
    /\ masked' = FALSE /\ inside' = inside \ {c}
    /\ UNCHANGED <<shared, locals, system, current, stack>>

\* A handler that still has something to log interrupts the running context.
Interrupt(h) ==
    /\ h \in system \ OnCore /\ calls[h] < MaxCalls
    /\ h \in NonMaskable \/ ~masked
    /\ Running \in Handlers => Priority[h] > Priority[Running]
    /\ stack' = Append(stack, h)
    /\ UNCHANGED <<shared, locals, system, masked, current, inside>>

Return(h) ==
    /\ h = Running /\ pc[h] = "idle" /\ h \notin inside
    /\ stack' = SubSeq(stack, 1, Len(stack) - 1)
    /\ UNCHANGED <<shared, locals, system, masked, current, inside>>

\* The scheduler's interrupt switches threads.
Switch(t) ==
    /\ stack = <<>> /\ ~masked /\ t \in system \ {current}
    /\ current' = t
    /\ UNCHANGED <<shared, locals, system, masked, stack, inside>>

\* The steps of a call that was started.
Proceed(c) ==
    \/ EnterCS(c) \/ SaveState(c) \/ StartFrame(c)
    \/ SkipWrite(c) \/ CheckDepth(c) \/ EmitData(c)
    \/ BeginFlush(c) \/ EndFlush(c)
    \/ Release(c) \/ EndFrame(c) \/ ExitCS(c)

Call(c) == Acquire(c) \/ Proceed(c)

\* What the running context does, and who takes the core from it.
Step == Call(Running) \/ Mask(Running) \/ Unmask(Running)

Next ==
    \/ Step
    \/ \E h \in Handlers : Interrupt(h) \/ Return(h)
    \/ \E t \in Threads : Switch(t)

\* The core does not stop inside a call, a critical section or a handler, and
\* an interrupt that can be taken is taken.  Nobody has to log.
Fairness ==
    /\ WF_vars(Proceed(Running))
    /\ WF_vars(Unmask(Running))
    /\ \A h \in Handlers : WF_vars(Interrupt(h)) /\ WF_vars(Return(h))

Spec == Init /\ [][Next]_vars /\ Fairness

-----------------------------------------------------------------------------
(* Properties *)

TypeOK ==
    /\ system \in Systems
    /\ depth \in Nat /\ csState \in BOOLEAN
    /\ out \in Seq(Contexts \X (FrameStart .. FrameEnd))
    /\ masked \in BOOLEAN /\ inside \subseteq Contexts
    /\ current \in Threads /\ stack \in Seq(Handlers)
    /\ level \in [Contexts -> 0 .. Nesting]
    /\ pc \in [Contexts -> {"idle", "enter", "save", "start", "body", "emit",
                           "flush", "flushed", "end", "exit"}]
    /\ restore \in [Contexts -> BOOLEAN]
    /\ left \in [Contexts -> 0 .. Writes]
    /\ calls \in [Contexts -> 0 .. MaxCalls]

\* The contexts whose call has passed, or is about to pass, the check of
\* depth that lets it touch cs_state, the encoder, the producer or RTT.
Owners == {c \in Contexts : pc[c] \notin {"idle", "body", "flushed"}}

\* Every handler is one that a critical section keeps out; and there is no
\* scheduler.
Maskable == system \cap NonMaskable = {}
Sequential == Maskable /\ Cardinality(system \cap Threads) = 1

\* "Reentrant calls (from NMI, HardFault, or panic during logging) are
\* detected and dropped": while one call works on the shared state, no call
\* of another context does.
CallsDropped == \A c, d \in Owners : c = d

\* CallsDropped, where every handler can be kept out, with any number of
\* threads: no other call gets the lock of a thread that is switched away
\* from between fetch_add and the start of its critical section.
ReentrantCallsDropped == Maskable => CallsDropped

\* "All mutable state access is protected by the critical section", in every
\* program: also with several threads and an NMI.
AccessIsProtected ==
    \A c \in Contexts :
        pc[c] \in {"save", "start", "emit", "flush", "end", "exit"} => masked

\* "This can happen if an NMI or HardFault fires during logging, or if a panic
\* handler tries to log": a message of an ordinary handler is dropped in one
\* case only, when it interrupts a call that has counted itself and not yet
\* masked the interrupts.  A thread drops its message also where another one
\* was switched away from in its call, which no handler is.
Unswitched(c) == c \in Handlers \/ system \cap Threads = {c}

DroppedOnlyBeforeMask ==
    Maskable =>
        \A c \in Contexts :
            Unswitched(c) /\ pc[c] = "body" /\ level[c] = 1 /\ depth > 1 =>
                \E d \in Contexts \ {c} : pc[d] = "enter"

\* A context that is in no call of the logger, and interrupted none, finds
\* the interrupts masked only by its own critical section: "release exits the
\* critical section after logging is complete", and a call made inside one
\* does not end it.
MaskAsBefore == (\A c \in OnCore : pc[c] = "idle") => (masked <=> inside # {})

\* Where every handler can be kept out, and whatever calls were interrupted:
\* a handler, or the one thread, that runs and has not got the lock finds the
\* interrupts masked exactly by a critical section of its own, and no other
\* context is in one.
MaskRestored ==
    Maskable /\ Unswitched(Running) /\ pc[Running] \in {"idle", "enter"} =>
        inside = IF masked THEN {Running} ELSE {}

\* What reaches the outputs is whole frames, one after the other, none cut
\* short, interleaved with another or missing a write, while interrupts and
\* the code that formats the arguments log too; the last frame may still be
\* under way, and that of a flush has no data.
Follows(part, prev) ==
    IF part[2] = FrameStart THEN prev[2] = FrameEnd
    ELSE /\ prev[1] = part[1]
         /\ prev[2] = part[2] - 1 \/ (part[2] = FrameEnd /\ prev[2] = FrameStart)

WholeFrames ==
    Maskable =>
        /\ Len(out) = 1 => out[1][2] = FrameStart
        /\ Len(out) = 2 => Follows(out[2], out[1])
        /\ out # <<>> /\ (\A c \in Contexts : pc[c] = "idle") => out[Len(out)][2] = FrameEnd

\* Interrupts are always enabled again: no sequence of calls leaves them
\* masked for good.
InterruptsReenabled == Sequential => []<>(~masked)
=============================================================================
