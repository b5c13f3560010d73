------------------------------ MODULE DurableLog ------------------------------
(***************************************************************************)
(* What the persistent ring promises across resets, without indices,       *)
(* headers, ECC words or recovery steps.                                   *)
(*                                                                         *)
(* To the bounded FIFO of LogQueue, which is what the running program      *)
(* sees, it adds the log that a reset at this moment would leave:          *)
(*                                                                         *)
(*   - an append or a release may reach that log at once or later, but     *)
(*     always as a whole, and before the call that made it returns;        *)
(*   - a reset leaves one of the two logs, and no other;                   *)
(*   - recovery changes neither, however often it is itself reset.         *)
(***************************************************************************)
EXTENDS LogQueue

VARIABLES saved,       \* the log a reset would leave
          busy,        \* the calls in progress, of "write" and "release"
          up           \* recovery is over and the program may log

dvars == <<qvars, saved, busy, up>>

DInit == QInit /\ saved = queue /\ busy = {} /\ up = FALSE

\* What a store may do to the log a reset would leave: nothing, save what
\* was there before the store, or save its own effect as well.
Saving == saved' \in {saved, queue, queue'}

BeginCall ==
    /\ up /\ "write" \notin busy
    /\ StartWrite
    /\ busy' = busy \cup {"write"}
    /\ UNCHANGED <<saved, up>>

Extend ==
    /\ up
    /\ FinishWrite
    /\ Saving
    /\ UNCHANGED <<busy, up>>

Grant ==
    /\ up /\ "release" \notin busy
    /\ Lend
    /\ UNCHANGED <<saved, busy, up>>

Drop ==
    /\ up /\ "release" \notin busy
    /\ Release
    /\ Saving
    /\ busy' = busy \cup {"release"}
    /\ UNCHANGED up

\* A call returns only once all that the program sees is saved.
Return ==
    /\ \E call \in busy :
          /\ call = "write" => pending = <<>>
          /\ busy' = busy \ {call}
    /\ saved' = queue
    /\ UNCHANGED <<qvars, up>>

Save ==
    /\ saved' = queue
    /\ UNCHANGED <<qvars, busy, up>>

Reset ==
    /\ queue' \in {saved, queue}
    /\ saved' = queue'
    /\ pending' = <<>> /\ lent' = 0 /\ busy' = {} /\ up' = FALSE

\* A bootloader that used the log starts the application.
Handover ==
    /\ up /\ busy = {}
    /\ lent' = 0 /\ up' = FALSE
    /\ UNCHANGED <<queue, saved, pending, busy>>

Recovered ==
    /\ ~up /\ up' = TRUE
    /\ UNCHANGED <<qvars, saved, busy>>

DNext ==
    \/ BeginCall \/ Extend \/ Grant \/ Drop \/ Return
    \/ Save \/ Reset \/ Handover \/ Recovered

DSpec == DInit /\ [][DNext]_dvars
=============================================================================
