----------------------------- MODULE WaitForData ------------------------------
(***************************************************************************)
(* Consumer::wait_for_data and the AtomicWaker of src/atomic_waker.rs: one *)
(* task that waits for data, drains it and waits again, and the contexts   *)
(* whose messages wake it (the tail of Logger::release).                   *)
(*                                                                         *)
(* Every body of critical_section::with is one step, and waits for the     *)
(* critical section of a frame.  Between any two steps any other context   *)
(* may run, which covers interrupt handlers that preempt the task and      *)
(* loggers on another core alike, where the task can see a part of a frame.*)
(* The ring is only how many bytes it holds; a message is written in two   *)
(* pieces, each of which adds one byte if there is room.                   *)
(*                                                                         *)
(* The executor is external.  One that "wakes" polls the task again once the*)
(* Waker handed to the last poll was woken; one that "polls" hands it a     *)
(* Waker that does nothing and polls for ever, like block_on of the        *)
(* testsuite.                                                              *)
(***************************************************************************)
EXTENDS Integers

CONSTANTS Loggers,      \* the contexts that log
          Capacity,     \* the most bytes the ring holds
          MaxCalls      \* bound: messages of each logger

ASSUME WaitAssumption == Capacity \in Nat \ {0} /\ MaxCalls \in Nat

VARIABLES
    executor,           \* "wakes" or "polls"
    queued,             \* bytes between `read` and `write`
    waker,              \* AtomicWaker.waker holds the task's Waker
    woken,              \* the executor is to poll the task
    task,               \* step of the task
    pc, took,           \* of each logger: step, wake() took the Waker
    calls               \* messages logged by each logger

vars == <<executor, queued, waker, woken, task, pc, took, calls>>

Init ==
    /\ executor \in {"wakes", "polls"}
    /\ queued \in 0 .. Capacity
    /\ waker = FALSE /\ woken = TRUE /\ task = "asleep"
    /\ pc = [l \in Loggers |-> "idle"]
    /\ took = [l \in Loggers |-> FALSE]
    /\ calls = [l \in Loggers |-> 0]

\* A logger is in the critical section of its frame.
Locked == \E l \in Loggers : pc[l] \in {"frame", "exit"}

-----------------------------------------------------------------------------
(* The task *)

\* The executor polls the future, which registers first: AtomicWaker::register.
\* A poll nobody asked for happens too (select!, join!).
Poll ==
    /\ task = "asleep" /\ woken
    /\ woken' = FALSE
    /\ task' = "register"
    /\ UNCHANGED <<executor, queued, waker, pc, took, calls>>

SpuriousPoll ==
    /\ task = "asleep" /\ ~woken
    /\ task' = "register"
    /\ UNCHANGED <<executor, queued, waker, woken, pc, took, calls>>

Register ==
    /\ task = "register" /\ ~Locked
    /\ waker' = TRUE
    /\ task' = "check"
    /\ UNCHANGED <<executor, queued, woken, pc, took, calls>>

\* A plausible bug, for the mutation runs: a test of the wrong sense.
CheckFull ==
    /\ task = "check"
    /\ task' = IF queued = Capacity THEN "asleep" ELSE "drain"
    /\ UNCHANGED <<executor, queued, waker, woken, pc, took, calls>>

\* Consumer::is_empty decides between Pending and Ready.
CheckEmpty ==
    /\ task = "check"
    /\ task' = IF queued = 0 THEN "asleep" ELSE "drain"
    /\ UNCHANGED <<executor, queued, waker, woken, pc, took, calls>>

\* The caller reads and releases at least one byte, and waits again, in the
\* same poll.
Drain ==
    /\ task = "drain"
    /\ \E used \in 1 .. queued : queued' = queued - used
    /\ task' = "register"
    /\ UNCHANGED <<executor, waker, woken, pc, took, calls>>

\* A plausible bug, for the mutation runs: is_empty before register.
TaskChecksFirst ==
    \/ Poll \/ SpuriousPoll \/ Drain
    \/ /\ task = "register"
       /\ task' = IF queued = 0 THEN "check" ELSE "drain"
       /\ UNCHANGED <<executor, queued, waker, woken, pc, took, calls>>
    \/ /\ task = "check" /\ ~Locked
       /\ waker' = TRUE /\ task' = "asleep"
       /\ UNCHANGED <<executor, queued, woken, pc, took, calls>>

Task == Poll \/ SpuriousPoll \/ Register \/ CheckEmpty \/ Drain

-----------------------------------------------------------------------------
(* A logger *)

\* A byte is written if it fits.
Write == queued' = IF queued < Capacity THEN queued + 1 ELSE queued

\* Logger::acquire enters the critical section, and the frame begins.
StartFrame(l) ==
    /\ pc[l] = "idle" /\ ~Locked /\ calls[l] < MaxCalls
    /\ Write
    /\ calls' = [calls EXCEPT ![l] = @ + 1]
    /\ pc' = [pc EXCEPT ![l] = "frame"]
    /\ UNCHANGED <<executor, waker, woken, task, took>>

\* Logger::release: the rest of the frame is written ...
EndFrame(l) ==
    /\ pc[l] = "frame"
    /\ Write
    /\ pc' = [pc EXCEPT ![l] = "exit"]
    /\ UNCHANGED <<executor, waker, woken, task, took, calls>>

\* ... and the critical section is left, before WAKER.wake().
ExitCS(l) ==
    /\ pc[l] = "exit"
    /\ pc' = [pc EXCEPT ![l] = "take"]
    /\ UNCHANGED <<executor, queued, waker, woken, task, took, calls>>

\* AtomicWaker::wake: takes the Waker in a critical section ...
TakeWaker(l) ==
    /\ pc[l] = "take" /\ ~Locked
    /\ took' = [took EXCEPT ![l] = waker]
    /\ waker' = FALSE
    /\ pc' = [pc EXCEPT ![l] = "wake"]
    /\ UNCHANGED <<executor, queued, woken, task, calls>>

\* A plausible bug, for the mutation runs: the Waker is only dropped.
DropWaker(l) ==
    /\ pc[l] = "wake"
    /\ took' = [took EXCEPT ![l] = FALSE]
    /\ pc' = [pc EXCEPT ![l] = "idle"]
    /\ UNCHANGED <<executor, queued, waker, woken, task, calls>>

\* ... and wakes it after the critical section.
Wake(l) ==
    /\ pc[l] = "wake"
    /\ woken' = (woken \/ (took[l] /\ executor = "wakes"))
    /\ took' = [took EXCEPT ![l] = FALSE]
    /\ pc' = [pc EXCEPT ![l] = "idle"]
    /\ UNCHANGED <<executor, queued, waker, task, calls>>

Logger(l) == StartFrame(l) \/ EndFrame(l) \/ ExitCS(l) \/ TakeWaker(l) \/ Wake(l)

Next == Task \/ \E l \in Loggers : Logger(l)

\* The executor polls a woken task, or every task, and runs it until it returns
\* Pending; a context that logs leaves release.  Who waits for a critical
\* section gets it once no more messages, which are finitely many, begin.
Fairness ==
    /\ WF_vars(Poll) /\ WF_vars(executor = "polls" /\ SpuriousPoll)
    /\ WF_vars(Register) /\ WF_vars(CheckEmpty) /\ WF_vars(Drain)
    /\ \A l \in Loggers :
          /\ WF_vars(EndFrame(l)) /\ WF_vars(ExitCS(l))
          /\ WF_vars(TakeWaker(l)) /\ WF_vars(Wake(l))

Spec == Init /\ [][Next]_vars /\ Fairness

-----------------------------------------------------------------------------
(* Properties *)

TypeOK ==
    /\ executor \in {"wakes", "polls"}
    /\ queued \in 0 .. Capacity
    /\ {waker, woken} \subseteq BOOLEAN
    /\ task \in {"asleep", "register", "check", "drain"}
    /\ task = "drain" => queued > 0
    /\ pc \in [Loggers -> {"idle", "frame", "exit", "take", "wake"}]
    /\ took \in [Loggers -> BOOLEAN]
    /\ calls \in [Loggers -> 0 .. MaxCalls]

\* No wakeup is lost: whenever data waits while the task sleeps, and its Waker
\* is of use, somebody is still bound to wake it.
WakeupPending ==
    executor = "wakes" /\ task = "asleep" /\ queued > 0 =>
        \/ woken
        \/ \E l \in Loggers : pc[l] = "wake" /\ took[l]
        \/ waker /\ \E l \in Loggers : pc[l] \in {"frame", "exit", "take"}

\* Once a poll registered, the Waker is in the slot, in the hands of a logger
\* or was woken: nobody can drop it.  With this, WakeupPending is inductive.
Armed ==
    executor = "wakes" /\ task \in {"check", "asleep"} =>
        waker \/ woken \/ \E l \in Loggers : pc[l] = "wake" /\ took[l]

IInv == TypeOK /\ Armed /\ WakeupPending

\* Data that was logged is read in the end.
DataIsRead == (queued > 0) ~> (queued = 0)
=============================================================================
