------------------------------- MODULE MCLogger -------------------------------
(* Logger with handlers of distinct priorities, in five programs.          *)
EXTENDS Logger

CONSTANTS main, other, low, high, nmi     \* threads and handlers

MCPriority == [h \in Handlers |-> IF h = low THEN 1 ELSE IF h = high THEN 2 ELSE 3]

\* One thread and two nested handlers; two threads and a handler; all kinds of
\* contexts; one thread and a non-maskable handler; two threads.
MCNested   == {main, low, high}
MCSwitched == {main, other, low}
MCMixed    == {main, other, low, nmi}
MCPrograms == {MCNested, MCSwitched, MCMixed}
MCNmiOnly  == {{main, nmi}}
MCThreadsOnly == {{main, other}}

=============================================================================
