-------------------------- MODULE WaitForDataProofs ---------------------------
(***************************************************************************)
(* For every set of loggers and every size of the ring, no wakeup of the   *)
(* task in Consumer::wait_for_data is lost.  The argument: registering     *)
(* before is_empty arms the Waker (Armed), and from then on every step     *)
(* hands it on - from the slot to the logger that takes it, from there to  *)
(* the executor.                                                           *)
(***************************************************************************)
EXTENDS WaitForData, TLAPS

\* A logger holds the task's Waker and is bound to wake it.
Taken == \E l \in Loggers : pc[l] = "wake" /\ took[l]

LEMMA InitInv == Init => IInv
  <1> SUFFICES ASSUME Init PROVE IInv
    OBVIOUS
  <1>1. TypeOK
    <2>1. calls \in [Loggers -> 0 .. MaxCalls]
      BY WaitAssumption DEF Init
    <2>2. took \in [Loggers -> BOOLEAN]
      BY DEF Init
    <2>3. pc \in [Loggers -> {"idle", "frame", "exit", "take", "wake"}]
      BY DEF Init
    <2> QED BY <2>1, <2>2, <2>3 DEF Init, TypeOK
  <1>2. woken = TRUE
    BY DEF Init
  <1> QED BY <1>1, <1>2 DEF IInv, Armed, WakeupPending

\* A step of the task keeps the invariant: only the check that found the ring
\* empty puts it to sleep.
LEMMA TaskInv == IInv /\ Task => IInv'
  <1> SUFFICES ASSUME IInv, Task PROVE IInv'
    OBVIOUS
  <1> USE DEF IInv
  <1>1. CASE Poll
    BY <1>1 DEF Poll, TypeOK, Armed, WakeupPending
  <1>2. CASE SpuriousPoll
    BY <1>2 DEF SpuriousPoll, TypeOK, Armed, WakeupPending
  <1>3. CASE Register
    BY <1>3 DEF Register, TypeOK, Armed, WakeupPending
  <1>4. CASE CheckEmpty
    BY <1>4, WaitAssumption DEF CheckEmpty, TypeOK, Armed, WakeupPending
  <1>5. CASE Drain
    <2>1. PICK used \in 1 .. queued : queued' = queued - used
      BY <1>5 DEF Drain
    <2>2. queued' \in 0 .. Capacity
      BY <2>1, WaitAssumption DEF TypeOK
    <2> QED BY <1>5, <2>2 DEF Drain, TypeOK, Armed, WakeupPending
  <1> QED BY <1>1, <1>2, <1>3, <1>4, <1>5 DEF Task

\* Whoever held the Waker still does after a step of another logger.
LEMMA TakenKept ==
    ASSUME IInv, NEW l \in Loggers, NEW m \in Loggers, m # l,
           pc[m] = "wake" /\ took[m],
           \E p, t : pc' = [pc EXCEPT ![l] = p] /\ took' = [took EXCEPT ![l] = t]
    PROVE  pc'[m] = "wake" /\ took'[m]
  BY DEF IInv, TypeOK

\* A logger that goes from one step before wake() to the next, and at most
\* adds to the ring, leaves the Waker where it is and is yet to wake.
LEMMA FrameInv ==
    ASSUME IInv, NEW l \in Loggers, NEW step \in {"frame", "exit", "take"},
           /\ pc[l] # "wake" /\ pc' = [pc EXCEPT ![l] = step]
           /\ UNCHANGED <<executor, waker, woken, task, took>>
           /\ queued' \in 0 .. Capacity /\ queued' >= queued
           /\ calls' \in [Loggers -> 0 .. MaxCalls]
    PROVE  IInv'
  <1> USE DEF IInv
  <1>1. pc'[l] = step
    BY DEF TypeOK
  <1>2. Taken => Taken'
    <2> SUFFICES ASSUME NEW m \in Loggers, pc[m] = "wake", took[m] PROVE Taken'
      BY DEF Taken
    <2>1. pc'[m] = "wake" /\ took'[m]
      BY DEF TypeOK
    <2> QED BY <2>1 DEF Taken
  <1>3. TypeOK'
    BY DEF TypeOK
  <1>4. Armed'
    BY <1>2 DEF Armed, Taken
  <1>5. WakeupPending'
    BY <1>1, <1>2 DEF Armed, WakeupPending, Taken
  <1> QED BY <1>3, <1>4, <1>5

\* A byte that is written, or not for lack of room, leaves the ring within
\* its capacity.
LEMMA WriteFits ==
    ASSUME IInv, Write
    PROVE  queued' \in 0 .. Capacity /\ queued' >= queued
  BY WaitAssumption DEF IInv, TypeOK, Write

LEMMA LogInv ==
    ASSUME IInv, NEW l \in Loggers, StartFrame(l) \/ EndFrame(l) \/ ExitCS(l)
    PROVE  IInv'
  <1>1. CASE StartFrame(l)
    <2>1. calls' \in [Loggers -> 0 .. MaxCalls]
      BY <1>1, WaitAssumption DEF StartFrame, IInv, TypeOK
    <2> QED BY <1>1, <2>1, WriteFits, FrameInv DEF StartFrame
  <1>2. CASE EndFrame(l)
    <2>1. calls' \in [Loggers -> 0 .. MaxCalls]
      BY <1>2 DEF EndFrame, IInv, TypeOK
    <2> QED BY <1>2, <2>1, WriteFits, FrameInv DEF EndFrame
  <1>3. CASE ExitCS(l)
    <2>1. calls' \in [Loggers -> 0 .. MaxCalls] /\ queued' \in 0 .. Capacity /\ queued' >= queued
      BY <1>3 DEF ExitCS, IInv, TypeOK
    <2> QED BY <1>3, <2>1, FrameInv DEF ExitCS
  <1> QED BY <1>1, <1>2, <1>3

LEMMA TakeWakerInv == ASSUME IInv, NEW l \in Loggers, TakeWaker(l) PROVE IInv'
  <1> USE DEF IInv
  <1>1. /\ executor' = executor /\ executor \in {"wakes", "polls"}
        /\ pc' = [pc EXCEPT ![l] = "wake"] /\ took' = [took EXCEPT ![l] = waker]
        /\ waker' = FALSE /\ woken' = woken /\ task' = task /\ queued' = queued
        /\ calls' = calls /\ pc[l] = "take"
    BY DEF TakeWaker, TypeOK
  <1>2. waker => Taken'
    BY <1>1 DEF TypeOK, Taken
  <1>3. Taken => Taken'
    <2> SUFFICES ASSUME NEW m \in Loggers, pc[m] = "wake", took[m] PROVE Taken'
      BY DEF Taken
    <2>1. m # l
      BY <1>1
    <2> QED BY <1>1, <2>1, TakenKept DEF Taken
  <1>4. TypeOK'
    BY <1>1 DEF TypeOK
  <1>5. Armed'
    BY <1>1, <1>2, <1>3 DEF Armed, Taken
  <1>6. WakeupPending'
    BY <1>1, <1>2, <1>3 DEF WakeupPending, Taken
  <1> QED BY <1>4, <1>5, <1>6

LEMMA WakeInv == ASSUME IInv, NEW l \in Loggers, Wake(l) PROVE IInv'
  <1> USE DEF IInv
  <1>1. /\ executor' = executor /\ executor \in {"wakes", "polls"}
        /\ pc' = [pc EXCEPT ![l] = "idle"] /\ took' = [took EXCEPT ![l] = FALSE]
        /\ waker' = waker /\ woken' = (woken \/ (took[l] /\ executor = "wakes")) /\ task' = task
        /\ queued' = queued /\ calls' = calls /\ pc[l] = "wake"
    BY DEF Wake, TypeOK
  <1>2. executor = "wakes" /\ Taken => woken' \/ Taken'
    <2> SUFFICES ASSUME executor = "wakes", NEW m \in Loggers, pc[m] = "wake", took[m]
                 PROVE  woken' \/ Taken'
      BY DEF Taken
    <2>1. CASE m = l
      BY <1>1, <2>1
    <2>2. CASE m # l
      BY <1>1, <2>2, TakenKept DEF Taken
    <2> QED BY <2>1, <2>2
  <1>3. TypeOK'
    BY <1>1 DEF TypeOK
  <1>4. Armed'
    BY <1>1, <1>2 DEF Armed, Taken
  <1>5. (\E k \in Loggers : pc[k] \in {"frame", "exit", "take"}) =>
            \E k \in Loggers : pc'[k] \in {"frame", "exit", "take"}
    BY <1>1 DEF TypeOK
  <1>6. WakeupPending'
    BY <1>1, <1>2, <1>5 DEF WakeupPending, Taken
  <1> QED BY <1>3, <1>4, <1>6

LEMMA NextInv == IInv /\ [Next]_vars => IInv'
  <1> SUFFICES ASSUME IInv, [Next]_vars PROVE IInv'
    OBVIOUS
  <1>1. CASE Task
    BY <1>1, TaskInv
  <1>2. ASSUME NEW l \in Loggers, Logger(l) PROVE IInv'
    BY <1>2, LogInv, TakeWakerInv, WakeInv DEF Logger
  <1>3. CASE UNCHANGED vars
    BY <1>3 DEF vars, IInv, TypeOK, Armed, WakeupPending
  <1> QED BY <1>1, <1>2, <1>3 DEF Next

\* The ring never holds more than it may, and the task, its Waker and the
\* loggers stay in their states (src/ring_buffer.rs:432).
THEOREM WaitTypes == Spec => []TypeOK
  <1>1. IInv => TypeOK
    BY DEF IInv
  <1> QED  BY <1>1, InitInv, NextInv, PTL DEF Spec

\* Whenever data waits while the task sleeps, a logger or the executor is
\* bound to wake it.
THEOREM NoLostWakeup == Spec => []WakeupPending
  <1>1. IInv => WakeupPending
    BY DEF IInv
  <1> QED BY <1>1, InitInv, NextInv, PTL DEF Spec
=============================================================================
