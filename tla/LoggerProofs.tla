---------------------------- MODULE LoggerProofs -----------------------------
(***************************************************************************)
(* Logger, for all sets of threads and handlers, priorities, programs and  *)
(* numbers of messages.  In every program what works on the shared state   *)
(* has the interrupts masked.  Where every handler is one that a critical  *)
(* section keeps out, no two calls work on it and what reaches the outputs *)
(* is whole frames, with any number of threads; a message of a handler, or *)
(* of the only thread, is dropped only in the window before interrupts are *)
(* masked, and these contexts find the mask put back.                      *)
(***************************************************************************)
EXTENDS Logger, FiniteSetTheorems, SequenceTheorems, TLAPS

\* The calls that depth counts: between fetch_add and fetch_sub.
Counted(c) == level[c] >= 1 /\ pc[c] \notin {"end", "exit"}
CountedCalls == {p \in Contexts \X (Nat \ {0}) : Counted(p[1]) /\ p[2] <= level[p[1]]}

\* The core is a stack: position 0 is the thread, the last one runs, and
\* nothing below it moves.
Top == Len(stack)
At(i) == IF i = 0 THEN current ELSE stack[i]
Upper(i) == {At(j) : j \in i .. Top}

\* A call inside a call is reentrant, and is counted.
LevelOK ==
    \A c \in Contexts :
        /\ (level[c] = 0) <=> (pc[c] = "idle")
        /\ level[c] > 1 => pc[c] = "body"
        /\ pc[c] = "emit" => left[c] > 0

DepthOK == IsFiniteSet(CountedCalls) /\ depth = Cardinality(CountedCalls)

\* No context is on the core twice; a handler that is not there is idle, and
\* so is what is not part of the program.
CoreOK ==
    /\ \A i, j \in 0 .. Top : At(i) = At(j) => i = j
    /\ \A i \in 0 .. Top : At(i) \in system
    /\ \A h \in Handlers : h \notin Upper(0) => pc[h] = "idle"
    /\ \A c \in Contexts : c \notin system => pc[c] = "idle"

Protected(c) == pc[c] \in {"save", "start", "emit", "flush", "end", "exit"}
Ending(c) == pc[c] \in {"end", "exit"}

\* Only one context has a critical section of its own, and nothing comes in
\* between its start and its end but what is above.
InsideOK ==
    /\ inside # {} => masked
    /\ inside \subseteq Upper(0)
    /\ \A c, d \in inside : c = d
    /\ \A i \in 0 .. Top : At(i) \in inside =>
           /\ \A d \in Contexts : Protected(d) => d \in Upper(i)
           /\ \A d \in Contexts : Counted(d) =>
                  d \in Upper(i) \/ \E h \in Contexts : pc[h] = "enter" /\ h \notin Upper(i)

\* While a call is counted, its first one masks the interrupts or is about to.
CountedOK == depth > 0 => masked \/ \E h \in Contexts : pc[h] = "enter"

\* A call that is counted when another one ends its frame came above it.
EndingOK ==
    \A i \in 0 .. Top : Ending(At(i)) => \A d \in Contexts : Counted(d) => d \in Upper(i)

\* Interrupts may not be enabled by who comes now: it is inside a critical
\* section that somebody else will leave.
Guarded == inside # {} \/ \E d \in Contexts : Ending(d)

SavedOK ==
    /\ \A c \in Contexts : pc[c] = "save" /\ Guarded => restore[c]
    /\ Guarded /\ depth > 0 =>
           csState \/ \E h \in Contexts : pc[h] \in {"enter", "save"}
    /\ \A c \in Contexts : Ending(c) /\ inside # {} => csState
    /\ \A c, d \in Contexts : Ending(c) /\ Ending(d) /\ c # d => csState

LInv ==
    /\ TypeOK /\ LevelOK /\ DepthOK /\ CoreOK /\ AccessIsProtected
    /\ InsideOK /\ CountedOK /\ EndingOK /\ SavedOK

\* Where every handler can be kept out:

\* the call that has masked the interrupts runs, and so does the critical
\* section of a context,
OwnerRuns  == \A c \in Contexts : Protected(c) => c = Running
InsideRuns == inside \subseteq {Running}

\* a handler, or the one thread, that got the lock found no other counted,
Alone ==
    \A i \in 0 .. Top : At(i) \in Owners /\ Unswitched(At(i)) =>
        \A d \in Contexts : Counted(d) => d \in Upper(i)

\* a handler did not come when a call masked the interrupts,
KeptOut ==
    \A i \in 1 .. Top : \A d \in Contexts \ Upper(i) :
        Counted(d) => \E h \in Contexts \ Upper(i) : pc[h] = "enter"

\* and who finds the interrupts masked by a call is that call, and saved that
\* they were enabled.
MaskOK ==
    masked /\ inside = {} /\ Unswitched(Running) =>
        /\ pc[Running] \notin {"idle", "enter"}
        /\ \A d \in Contexts : Counted(d) => d = Running
        /\ IF pc[Running] = "save" THEN ~restore[Running] ELSE ~csState

MInv == OwnerRuns /\ CallsDropped /\ InsideRuns /\ Alone /\ KeptOut /\ MaskOK
SInv == LInv /\ (Maskable => MInv)
-----------------------------------------------------------------------------
(* The core and the depth counter *)

LEMMA CoreFacts ==
    ASSUME TypeOK
    PROVE  /\ Top \in Nat /\ \A i \in 0 .. Top : At(i) \in Contexts
           /\ \A i \in 1 .. Top : At(i) \in Handlers
           /\ Running = At(Top) /\ Running \in Contexts
           /\ \A i \in 0 .. Top : Running \in Upper(i)
           /\ Upper(Top) = {Running} /\ OnCore = Upper(0)
           /\ stack = <<>> <=> Top = 0
  <1>1. /\ stack \in Seq(Handlers) /\ Top \in Nat
        /\ \A i \in 1 .. Top : stack[i] \in Handlers
    BY LenProperties, ElementOfSeq DEF TypeOK, Top
  <1>2. current \in Contexts /\ Handlers \subseteq Contexts
    BY DEF TypeOK, Contexts
  <1>3. \A i \in 0 .. Top : At(i) \in Contexts
    BY <1>1, <1>2 DEF At
  <1>4. stack = <<>> <=> Top = 0
    BY <1>1, EmptySeq DEF Top
  <1>5. Running = At(Top)
    BY <1>4 DEF Running, At, Top
  <1>6. \A i \in 1 .. Top : At(i) \in Handlers
    BY <1>1 DEF At
  <1>7. \A i \in 0 .. Top : Running \in Upper(i)
    BY <1>1, <1>5 DEF Upper
  <1>8. Upper(Top) = {Running}
    BY <1>1, <1>5 DEF Upper
  <1>9. OnCore = Upper(0)
    BY <1>1 DEF OnCore, Upper, At, Top
  <1> QED  BY <1>1, <1>3, <1>4, <1>5, <1>6, <1>7, <1>8, <1>9

\* What the value of depth says about the counted calls.
LEMMA DepthFacts ==
    ASSUME TypeOK, LevelOK, DepthOK
    PROVE  /\ depth \in Nat
           /\ \A c \in Contexts : Counted(c) => depth > 0
           /\ depth > 0 => \E c \in Contexts : Counted(c)
           /\ \A c \in Contexts : Counted(c) /\ depth = 1 =>
                  level[c] = 1 /\ \A d \in Contexts : Counted(d) => d = c
  <1>1. depth \in Nat /\ (depth = 0 <=> CountedCalls = {})
    BY FS_EmptySet, FS_CardinalityType DEF DepthOK
  <1>2. \A c \in Contexts : Counted(c) => <<c, 1>> \in CountedCalls
    BY DEF Counted, CountedCalls, TypeOK
  <1>3. \A c \in Contexts : Counted(c) => depth > 0
    <2>1. \A c \in Contexts : Counted(c) => CountedCalls # {}
      BY <1>2, Zenon
    <2>2. CountedCalls # {} => depth > 0
      BY <1>1
    <2> QED  BY <2>1, <2>2, Zenon
  <1>4. depth > 0 => \E c \in Contexts : Counted(c)
    BY <1>1 DEF CountedCalls
  <1>5. ASSUME NEW c \in Contexts, Counted(c), depth = 1
        PROVE  level[c] = 1 /\ \A d \in Contexts : Counted(d) => d = c
    <2>1. PICK x : CountedCalls = {x}
      BY <1>5, FS_Singleton DEF DepthOK
    <2>2. x = <<c, 1>>
      BY <1>2, <1>5, <2>1
    <2>3. \A d \in Contexts : Counted(d) => d = c
      BY <1>2, <2>1, <2>2
    <2>4. level[c] \in Nat \ {0}
      BY <1>5 DEF Counted, TypeOK
    <2>5. ~(level[c] > 1)
      <3>1. level[c] > 1 => <<c, 2>> \in CountedCalls
        BY <1>5, <2>4 DEF CountedCalls
      <3> QED  BY <2>1, <2>2, <3>1
    <2> QED  BY <2>3, <2>4, <2>5
  <1> QED  BY <1>1, <1>3, <1>4, <1>5

LEMMA LoggerInitially == Init => SInv
  <1> SUFFICES ASSUME Init PROVE SInv
    OBVIOUS
  <1> USE DEF Init
  <1>1. <<>> \in Seq(Handlers) /\ Len(<<>>) = 0
        /\ <<>> \in Seq(Contexts \X (FrameStart .. FrameEnd))
    BY EmptySeq
  <1>2. TypeOK
    <2>1. /\ system \in Systems /\ current \in Threads
          /\ depth = 0 /\ csState = FALSE /\ out = <<>> /\ masked = FALSE /\ inside = {}
          /\ stack = <<>>
      OBVIOUS
    <2>2. 0 \in 0 .. Nesting /\ 0 \in 0 .. Writes /\ 0 \in 0 .. MaxCalls /\ 0 \in Nat
      BY LoggerAssumption
    <2>3. /\ level \in [Contexts -> 0 .. Nesting] /\ restore \in [Contexts -> BOOLEAN]
          /\ pc \in [Contexts -> {"idle", "enter", "save", "start", "body", "emit",
                                 "flush", "flushed", "end", "exit"}]
          /\ left \in [Contexts -> 0 .. Writes] /\ calls \in [Contexts -> 0 .. MaxCalls]
      BY <2>2
    <2> HIDE DEF Init
    <2> QED  BY <1>1, <2>1, <2>2, <2>3 DEF TypeOK
  <1>3. LevelOK
    BY DEF LevelOK
  <1>4. CountedCalls = {}
    BY DEF CountedCalls, Counted
  <1>5. DepthOK
    BY <1>4, FS_EmptySet DEF DepthOK
  <1>6. Top = 0 /\ At(0) = current
    BY <1>1 DEF Top, At
  <1>7. CoreOK
    <2>1. current \in system
      OBVIOUS
    <2>2. \A c \in Contexts : pc[c] = "idle"
      OBVIOUS
    <2>3. Handlers \subseteq Contexts
      BY DEF Contexts
    <2> QED  BY <1>6, <2>1, <2>2, <2>3 DEF CoreOK
  <1>8. AccessIsProtected
    BY DEF AccessIsProtected
  <1>9. InsideOK /\ CountedOK /\ EndingOK /\ SavedOK
    <2>1. \A i \in 0 .. Top : At(i) \in Contexts
      BY <1>2, CoreFacts
    <2>2. inside \subseteq Upper(0)
      OBVIOUS
    <2> QED  BY <1>6, <2>1, <2>2 DEF InsideOK, CountedOK, EndingOK, SavedOK, Ending, Guarded
  <1>10. MInv
    <2>1. OwnerRuns /\ CallsDropped
      BY DEF OwnerRuns, CallsDropped, Protected, Owners
    <2>2. Alone
      <3>1. current \in Contexts /\ \A i \in 0 .. Top : At(i) = current
        BY <1>2, <1>6 DEF TypeOK, Contexts
      <3> QED  BY <3>1 DEF Alone, Owners
    <2>3. InsideRuns /\ KeptOut /\ MaskOK
      BY <1>6 DEF InsideRuns, KeptOut, MaskOK
    <2> QED  BY <2>1, <2>2, <2>3 DEF MInv
  <1> QED  BY <1>2, <1>3, <1>5, <1>7, <1>8, <1>9, <1>10 DEF SInv, LInv

-----------------------------------------------------------------------------
(* Steps of the running context *)

\* A step of context c leaves the others, and the core, as they are.
Others(c) ==
    /\ UNCHANGED <<system, current, stack>>
    /\ \A d \in Contexts : d # c =>
           /\ pc'[d] = pc[d] /\ level'[d] = level[d] /\ left'[d] = left[d]
           /\ restore'[d] = restore[d]

LEMMA CallLeavesOthers ==
    ASSUME TypeOK, NEW c \in Contexts, Call(c)
    PROVE  Others(c) /\ inside' = inside
  <1> USE DEF Goto, Leave, Encode, shared, core, Others, TypeOK
  <1>1. CASE Acquire(c)
    BY <1>1 DEF Acquire, Begin
  <1>2. CASE EnterCS(c) \/ SaveState(c) \/ StartFrame(c)
    BY <1>2 DEF EnterCS, SaveState, StartFrame
  <1>3. CASE SkipWrite(c) \/ CheckDepth(c) \/ EmitData(c)
    BY <1>3 DEF SkipWrite, CheckDepth, EmitData
  <1>4. CASE BeginFlush(c) \/ EndFlush(c)
    BY <1>4 DEF BeginFlush, EndFlush
  <1>5. CASE Release(c)
    BY <1>5 DEF Release
  <1>6. CASE EndFrame(c) \/ ExitCS(c)
    BY <1>6 DEF EndFrame, ExitCS, Exit
  <1> QED  BY <1>1, <1>2, <1>3, <1>4, <1>5, <1>6 DEF Call, Proceed

LEMMA EncodeKeepsType ==
    ASSUME TypeOK, NEW c \in Contexts, NEW part \in FrameStart .. FrameEnd, Encode(c, part)
    PROVE  out' \in Seq(Contexts \X (FrameStart .. FrameEnd))
  <1> DEFINE S == Contexts \X (FrameStart .. FrameEnd)
             last == <<c, part>>
  <1>1. out \in Seq(S) /\ last \in S
    BY DEF TypeOK
  <1> HIDE DEF S, last
  <1>2. <<last>> \in Seq(S)
    BY <1>1
  <1>3. CASE out = <<>>
    <2>1. out' = out \o <<last>>
      BY <1>3 DEF Encode, last
    <2> QED  BY <1>1, <1>2, <2>1, ConcatProperties DEF S
  <1>4. CASE out # <<>>
    <2>1. out' = <<out[Len(out)]>> \o <<last>>
      BY <1>4 DEF Encode, last
    <2>2. Len(out) \in 1 .. Len(out)
      BY <1>1, <1>4, EmptySeq
    <2>3. out[Len(out)] \in S
      BY <1>1, <2>2, ElementOfSeq
    <2>4. <<out[Len(out)]>> \in Seq(S)
      BY <2>3
    <2> QED  BY <1>2, <2>1, <2>4, ConcatProperties DEF S
  <1> QED  BY <1>3, <1>4
\* What each step of a call does to its own context and to the mask.
Acquires(c) ==
    /\ \/ level[c] = 0 /\ pc[c] = "idle"
       \/ level[c] >= 1 /\ pc[c] = "body"
    /\ level'[c] = level[c] + 1 /\ depth' = depth + 1
    /\ pc'[c] = (IF depth > 0 THEN "body" ELSE "enter")
    /\ UNCHANGED <<csState, masked, restore>>

Enters(c) ==
    /\ pc[c] = "enter" /\ pc'[c] = "save" /\ level'[c] = level[c]
    /\ masked' = TRUE /\ restore'[c] = masked /\ UNCHANGED <<depth, csState>>

Saves(c) ==
    /\ pc[c] = "save" /\ pc'[c] = "start" /\ level'[c] = level[c]
    /\ csState' = restore[c] /\ UNCHANGED <<depth, masked>>

Works(c) ==
    /\ \/ pc[c] \in {"start", "emit"} /\ pc'[c] = "body"
       \/ pc[c] = "body" /\ pc'[c] = "body" /\ depth # 1
       \/ pc[c] = "body" /\ pc'[c] = "emit" /\ depth = 1 /\ left'[c] = left[c] /\ left[c] > 0
       \/ pc[c] = "body" /\ pc'[c] = "flush" /\ depth = 1
       \/ pc[c] = "flush" /\ pc'[c] = "flushed"
       \/ pc[c] = "end" /\ pc'[c] = "exit"
    /\ level'[c] = level[c] /\ UNCHANGED <<depth, csState, masked, restore>>

Ends(c) ==
    /\ pc[c] \in {"body", "flushed"} /\ pc'[c] = "end"
    /\ depth = 1 /\ depth' = 0
    /\ level'[c] = level[c] /\ UNCHANGED <<csState, masked, restore>>

Returns(c) ==
    /\ pc[c] \in {"body", "flushed"} /\ pc'[c] = (IF level[c] > 1 THEN "body" ELSE "idle")
    /\ depth # 1 /\ depth' = depth - 1
    /\ level'[c] = level[c] - 1 /\ UNCHANGED <<csState, masked, restore>>

Exits(c) ==
    /\ pc[c] = "exit" /\ pc'[c] = "idle" /\ level[c] = 1 /\ level'[c] = 0
    /\ masked' = csState /\ UNCHANGED <<depth, csState, restore>>

LEMMA CallSteps ==
    ASSUME TypeOK, LevelOK, NEW c \in Contexts, Call(c)
    PROVE  \/ Acquires(c) \/ Enters(c) \/ Saves(c) \/ Works(c)
           \/ Ends(c) \/ Returns(c) \/ Exits(c)
  <1> USE DEF Goto, Leave, Encode, shared, core
  <1>1. /\ pc \in [Contexts -> {"idle", "enter", "save", "start", "body", "emit",
                               "flush", "flushed", "end", "exit"}]
        /\ level \in [Contexts -> 0 .. Nesting] /\ restore \in [Contexts -> BOOLEAN]
        /\ left \in [Contexts -> 0 .. Writes]
    BY DEF TypeOK
  <1>2. CASE Acquire(c)
    <2>1. /\ level[c] = 0 => pc[c] = "idle"
          /\ level[c] = 0 \/ (level[c] >= 1 /\ pc[c] = "body")
          /\ level' = [level EXCEPT ![c] = level[c] + 1] /\ depth' = depth + 1
          /\ pc' = [pc EXCEPT ![c] = IF depth > 0 THEN "body" ELSE "enter"]
          /\ UNCHANGED <<csState, masked, restore>>
      BY <1>1, <1>2, LoggerAssumption DEF Acquire, Begin, LevelOK
    <2> QED  BY <1>1, <2>1 DEF Acquires
  <1>3. CASE EnterCS(c)
    BY <1>1, <1>3 DEF EnterCS, Enters
  <1>4. CASE SaveState(c)
    BY <1>1, <1>4 DEF SaveState, Saves
  <1>5. CASE StartFrame(c)
    BY <1>1, <1>5 DEF StartFrame, Works
  <1>6. CASE SkipWrite(c)
    BY <1>1, <1>6 DEF SkipWrite, Works
  <1>7. CASE CheckDepth(c)
    BY <1>1, <1>7 DEF CheckDepth, Works
  <1>8. CASE EmitData(c)
    BY <1>1, <1>8 DEF EmitData, Works
  <1>9. CASE BeginFlush(c)
    BY <1>1, <1>9 DEF BeginFlush, Works
  <1>10. CASE EndFlush(c)
    BY <1>1, <1>10 DEF EndFlush, Works
  <1>11. CASE Release(c)
    <2>1. CASE depth = 1
      BY <1>1, <1>11, <2>1 DEF Release, Ends
    <2>2. CASE depth # 1
      BY <1>1, <1>11, <2>2 DEF Release, Returns
    <2> QED  BY <2>1, <2>2
  <1>12. CASE EndFrame(c)
    BY <1>1, <1>12 DEF EndFrame, Works
  <1>13. CASE ExitCS(c)
    <2>1. level[c] = 1
      BY <1>1, <1>13 DEF ExitCS, Exit, LevelOK
    <2> QED  BY <1>1, <1>13, <2>1 DEF ExitCS, Exit, Exits
  <1> QED  BY <1>2, <1>3, <1>4, <1>5, <1>6, <1>7, <1>8, <1>9, <1>10, <1>11, <1>12, <1>13 DEF Call, Proceed

LEMMA Updated ==
    ASSUME NEW S, NEW T, NEW f \in [S -> T], NEW x \in S, NEW y \in T
    PROVE  [f EXCEPT ![x] = y] \in [S -> T]
  OBVIOUS

LEMMA CallKeepsType ==
    ASSUME TypeOK, LevelOK, DepthOK, NEW c \in Contexts, Call(c)
    PROVE  TypeOK'
  <1> USE DEF Goto, Leave, shared, core
  <1>1. /\ Writes \in Nat \ {0} /\ Nesting \in Nat \ {0} /\ MaxCalls \in Nat /\ depth \in Nat
        /\ FrameStart = 0 /\ FrameEnd = Writes + 1
        /\ \A d \in Contexts : Counted(d) => depth > 0
    BY LoggerAssumption, DepthFacts DEF FrameStart, FrameEnd
  <1>2. level[c] \in 0 .. Nesting /\ (pc[c] # "idle" => level[c] >= 1)
    BY DEF TypeOK, LevelOK
  <1>3. CASE Acquire(c)
    <2>1. depth' \in Nat
      BY <1>1, <1>3 DEF Acquire
    <2>2. level' \in [Contexts -> 0 .. Nesting] /\ calls' \in [Contexts -> 0 .. MaxCalls]
          /\ left' \in [Contexts -> 0 .. Writes]
      <3>1. /\ level' = [level EXCEPT ![c] = level[c] + 1]
            /\ calls' = [calls EXCEPT ![c] = calls[c] + 1] /\ calls[c] < MaxCalls
            /\ level[c] \in 0 .. Nesting - 1
            /\ left' = left \/ \E writes \in {0, Writes} : left' = [left EXCEPT ![c] = writes]
        BY <1>3, LoggerAssumption DEF Acquire, Begin
      <3>2. level[c] + 1 \in 0 .. Nesting /\ calls[c] + 1 \in 0 .. MaxCalls
            /\ {0, Writes} \subseteq 0 .. Writes
        BY <1>1, <3>1 DEF TypeOK
      <3>3. level' \in [Contexts -> 0 .. Nesting] /\ calls' \in [Contexts -> 0 .. MaxCalls]
        BY <3>1, <3>2, Updated DEF TypeOK
      <3>4. left' \in [Contexts -> 0 .. Writes]
        <4>1. left \in [Contexts -> 0 .. Writes]
          BY DEF TypeOK
        <4>2. ASSUME NEW writes \in {0, Writes} PROVE [left EXCEPT ![c] = writes] \in [Contexts -> 0 .. Writes]
          BY <3>2, <4>1, Updated
        <4> QED  BY <3>1, <4>1, <4>2
      <3> QED  BY <3>3, <3>4
    <2> QED  BY <1>3, <2>1, <2>2 DEF Acquire, Begin, TypeOK
  <1>4. CASE EnterCS(c)
    BY <1>4 DEF EnterCS, TypeOK
  <1>5. CASE SaveState(c)
    BY <1>5 DEF SaveState, TypeOK
  <1>6. CASE StartFrame(c)
    <2>1. out' \in Seq(Contexts \X (FrameStart .. FrameEnd))
      BY <1>1, <1>6, EncodeKeepsType DEF StartFrame
    <2> QED  BY <1>6, <2>1 DEF StartFrame, Encode, TypeOK
  <1>7. CASE SkipWrite(c)
    <2>1. left[c] - 1 \in 0 .. Writes /\ left' = [left EXCEPT ![c] = left[c] - 1]
      BY <1>1, <1>7 DEF SkipWrite, TypeOK
    <2>2. left' \in [Contexts -> 0 .. Writes]
      BY <2>1, Updated DEF TypeOK
    <2> QED  BY <1>7, <2>2 DEF SkipWrite, TypeOK
  <1>8. CASE CheckDepth(c)
    BY <1>8 DEF CheckDepth, TypeOK
  <1>9. CASE EmitData(c)
    <2>1. left[c] \in 1 .. Writes
      BY <1>1, <1>9 DEF EmitData, TypeOK, LevelOK
    <2>2. out' \in Seq(Contexts \X (FrameStart .. FrameEnd))
      <3>1. FrameEnd - left[c] \in FrameStart .. FrameEnd
        BY <1>1, <2>1
      <3> QED  BY <1>9, <3>1, EncodeKeepsType DEF EmitData
    <2>3. left[c] - 1 \in 0 .. Writes /\ left' = [left EXCEPT ![c] = left[c] - 1]
      BY <1>1, <1>9, <2>1 DEF EmitData
    <2>4. left' \in [Contexts -> 0 .. Writes]
      BY <2>3, Updated DEF TypeOK
    <2> QED  BY <1>9, <2>2, <2>4 DEF EmitData, Encode, TypeOK
  <1>10. CASE BeginFlush(c)
    BY <1>10 DEF BeginFlush, TypeOK
  <1>11. CASE EndFlush(c)
    BY <1>11 DEF EndFlush, TypeOK
  <1>12. CASE Release(c)
    <2>1. depth > 0
      BY <1>1, <1>2, <1>12 DEF Release, Counted
    <2>2. depth' \in Nat
      BY <1>1, <1>12, <2>1 DEF Release
    <2>3. level' \in [Contexts -> 0 .. Nesting]
      <3>1. level[c] - 1 \in 0 .. Nesting
            /\ (level' = level \/ level' = [level EXCEPT ![c] = level[c] - 1])
        BY <1>2, <1>12, LoggerAssumption DEF Release
      <3> QED  BY <3>1, Updated DEF TypeOK
    <2>4. pc' \in [Contexts -> {"idle", "enter", "save", "start", "body", "emit",
                               "flush", "flushed", "end", "exit"}]
      BY <1>12 DEF Release, TypeOK
    <2> QED  BY <1>12, <2>2, <2>3, <2>4 DEF Release, TypeOK
  <1>13. CASE EndFrame(c)
    <2>1. out' \in Seq(Contexts \X (FrameStart .. FrameEnd))
      BY <1>1, <1>13, EncodeKeepsType DEF EndFrame
    <2> QED  BY <1>13, <2>1 DEF EndFrame, Encode, TypeOK
  <1>14. CASE ExitCS(c)
    <2>1. level[c] - 1 \in 0 .. Nesting /\ level' = [level EXCEPT ![c] = level[c] - 1]
      BY <1>2, <1>14, LoggerAssumption DEF ExitCS, Exit
    <2>2. level' \in [Contexts -> 0 .. Nesting]
      BY <2>1, Updated DEF TypeOK
    <2> QED  BY <1>14, <2>2 DEF ExitCS, Exit, TypeOK
  <1> QED  BY <1>3, <1>4, <1>5, <1>6, <1>7, <1>8, <1>9, <1>10, <1>11, <1>12, <1>13, <1>14 DEF Call, Proceed
LEMMA CallKeepsLevel ==
    ASSUME TypeOK, LevelOK, DepthOK, NEW c \in Contexts, Call(c)
    PROVE  LevelOK'
  <1>1. Others(c)
    BY CallLeavesOthers
  <1>2. level[c] \in 0 .. Nesting
    BY DEF TypeOK
  <1>3. depth > 0 /\ pc[c] = "body" => (level[c] > 1 => depth # 1)
    BY <1>2, DepthFacts, LoggerAssumption DEF Counted
  <1>4. /\ (level'[c] = 0) <=> (pc'[c] = "idle")
        /\ level'[c] > 1 => pc'[c] = "body"
        /\ pc'[c] = "emit" => left'[c] > 0
    <2>1. Counted(c) => depth > 0
      BY DepthFacts
    <2>2. level[c] > 1 => Counted(c) /\ depth # 1 /\ depth > 0
      <3>1. level[c] > 1 => Counted(c) /\ pc[c] = "body"
        BY <1>2, LoggerAssumption DEF LevelOK, Counted
      <3> QED  BY <1>3, <2>1, <3>1
    <2>3. /\ (pc[c] = "idle") <=> (level[c] = 0)
          /\ level[c] > 1 => pc[c] = "body"
      BY DEF LevelOK
    <2>4. level[c] >= 1 /\ pc[c] = "body" => depth > 0
      BY <2>1 DEF Counted
    <2>5. CASE Acquires(c)
      BY <1>2, <2>4, <2>5 DEF Acquires
    <2>6. CASE Enters(c) \/ Saves(c) \/ Works(c) \/ Ends(c)
      BY <1>2, <2>2, <2>3, <2>6 DEF Enters, Saves, Works, Ends
    <2>7. CASE Returns(c) \/ Exits(c)
      BY <1>2, <2>3, <2>7 DEF Returns, Exits
    <2> QED  BY <2>5, <2>6, <2>7, CallSteps
  <1>5. \A d \in Contexts : d # c =>
            /\ (level'[d] = 0) <=> (pc'[d] = "idle")
            /\ level'[d] > 1 => pc'[d] = "body"
            /\ pc'[d] = "emit" => left'[d] > 0
    BY <1>1 DEF Others, LevelOK
  <1> QED  BY <1>4, <1>5 DEF LevelOK

LEMMA CallKeepsDepth ==
    ASSUME TypeOK, LevelOK, DepthOK, NEW c \in Contexts, Call(c)
    PROVE  DepthOK'
  <1>1. /\ Others(c) /\ level[c] \in 0 .. Nesting /\ depth \in Nat
        /\ (pc[c] = "idle" <=> level[c] = 0)
    BY CallLeavesOthers, DepthFacts DEF TypeOK, LevelOK
  <1>2. \A d \in Contexts : d # c => (Counted(d)' <=> Counted(d)) /\ level'[d] = level[d]
    BY <1>1 DEF Others, Counted
  <1>3. IsFiniteSet(CountedCalls) /\ depth = Cardinality(CountedCalls)
    BY DEF DepthOK
  <1>4. CountedCalls' = {p \in Contexts \X (Nat \ {0}) : Counted(p[1])' /\ p[2] <= level'[p[1]]}
    BY DEF CountedCalls
  <1>5. CASE Acquires(c)
    <2> USE <1>5 DEF Acquires
    <2>1. /\ Counted(c)' /\ (Counted(c) <=> level[c] >= 1)
          /\ level[c] + 1 \in Nat \ {0}
      BY <1>1, <1>5 DEF Counted
    <2>2. CountedCalls' = CountedCalls \cup {<<c, level[c] + 1>>}
      <3>1. ASSUME NEW p \in Contexts \X (Nat \ {0})
            PROVE  Counted(p[1])' /\ p[2] <= level'[p[1]] <=>
                       (Counted(p[1]) /\ p[2] <= level[p[1]]) \/ p = <<c, level[c] + 1>>
        <4>1. p[1] \in Contexts /\ p[2] \in Nat \ {0} /\ p = <<p[1], p[2]>>
          OBVIOUS
        <4>2. CASE p[1] # c
          BY <1>2, <4>1, <4>2
        <4>3. CASE p[1] = c
          <5>1. p[2] <= level'[c] <=> p[2] <= level[c] \/ p[2] = level[c] + 1
            BY <1>1, <1>5, <4>1
          <5>2. p[2] <= level[c] => level[c] >= 1
            BY <1>1, <4>1
          <5>3. p = <<c, level[c] + 1>> <=> p[2] = level[c] + 1
            BY <4>1, <4>3
          <5> QED  BY <2>1, <4>3, <5>1, <5>2, <5>3
        <4> QED  BY <4>2, <4>3
      <3>2. <<c, level[c] + 1>> \in Contexts \X (Nat \ {0})
        BY <2>1
      <3> QED  BY <1>4, <3>1, <3>2 DEF CountedCalls
    <2>3. <<c, level[c] + 1>> \notin CountedCalls
      BY <1>1 DEF CountedCalls
    <2>4. IsFiniteSet(CountedCalls') /\ Cardinality(CountedCalls') = depth + 1
      BY <1>3, <2>2, <2>3, FS_AddElement
    <2> QED  BY <1>5, <2>4 DEF DepthOK
  <1>6. CASE Ends(c)
    <2> USE <1>6 DEF Ends
    <2>1. Counted(c)
      BY <1>1, <1>6 DEF Counted
    <2>2. \A d \in Contexts : ~Counted(d)'
      <3>1. ~Counted(c)'
        BY <1>6 DEF Counted
      <3>2. \A d \in Contexts : d # c => ~Counted(d)
        BY <1>6, <2>1, DepthFacts
      <3> QED  BY <1>2, <3>1, <3>2
    <2>3. CountedCalls' = {}
      BY <1>4, <2>2
    <2> QED  BY <1>6, <2>3, FS_EmptySet DEF DepthOK
  <1>7. CASE Returns(c)
    <2> USE <1>7 DEF Returns
    <2>1. /\ Counted(c) /\ level[c] \in Nat \ {0} /\ (Counted(c)' <=> level[c] > 1)
      BY <1>1, <1>7 DEF Counted
    <2>2. CountedCalls' = CountedCalls \ {<<c, level[c]>>}
      <3>1. ASSUME NEW p \in Contexts \X (Nat \ {0})
            PROVE  Counted(p[1])' /\ p[2] <= level'[p[1]] <=>
                       (Counted(p[1]) /\ p[2] <= level[p[1]]) /\ p # <<c, level[c]>>
        <4>1. p[1] \in Contexts /\ p[2] \in Nat \ {0} /\ p = <<p[1], p[2]>>
          OBVIOUS
        <4>2. CASE p[1] # c
          BY <1>2, <4>1, <4>2
        <4>3. CASE p[1] = c
          <5>1. p[2] <= level'[c] <=> p[2] <= level[c] /\ p[2] # level[c]
            BY <1>1, <1>7, <4>1
          <5>2. p[2] <= level'[c] => level[c] > 1
            BY <1>1, <1>7, <4>1
          <5>3. p = <<c, level[c]>> <=> p[2] = level[c]
            BY <4>1, <4>3
          <5> QED  BY <2>1, <4>3, <5>1, <5>2, <5>3
        <4> QED  BY <4>2, <4>3
      <3> QED  BY <1>4, <3>1 DEF CountedCalls
    <2>3. <<c, level[c]>> \in CountedCalls
      BY <1>1, <2>1 DEF CountedCalls
    <2>4. IsFiniteSet(CountedCalls') /\ Cardinality(CountedCalls') = depth - 1
      BY <1>3, <2>2, <2>3, FS_RemoveElement
    <2> QED  BY <1>7, <2>4 DEF DepthOK
  <1>8. CASE Enters(c) \/ Saves(c) \/ Works(c) \/ Exits(c)
    <2>3. depth' = depth /\ (Counted(c)' <=> Counted(c)) /\ (Counted(c) => level'[c] = level[c])
      BY <1>1, <1>8 DEF Enters, Saves, Works, Exits, Counted
    <2>1. ASSUME NEW p \in Contexts \X (Nat \ {0})
          PROVE  Counted(p[1])' /\ p[2] <= level'[p[1]] <=> Counted(p[1]) /\ p[2] <= level[p[1]]
      <3>1. p[1] \in Contexts
        OBVIOUS
      <3> QED  BY <1>2, <2>3, <3>1
    <2>2. CountedCalls' = CountedCalls
      BY <1>4, <2>1 DEF CountedCalls
    <2> QED  BY <1>3, <2>2, <2>3 DEF DepthOK
  <1> QED  BY <1>5, <1>6, <1>7, <1>8, CallSteps
LEMMA StackStays ==
    ASSUME UNCHANGED <<current, stack>>
    PROVE  /\ Top' = Top /\ \A i : At(i)' = At(i)
           /\ \A i : Upper(i)' = Upper(i)
  <1>1. Top' = Top /\ \A i : At(i)' = At(i)
    BY DEF Top, At
  <1> QED  BY <1>1 DEF Upper

\* The other contexts count, end and are protected as before.
LEMMA OthersStay ==
    ASSUME NEW c \in Contexts, Others(c), NEW d \in Contexts, d # c
    PROVE  /\ Counted(d)' <=> Counted(d)
           /\ Protected(d)' <=> Protected(d)
           /\ Ending(d)' <=> Ending(d)
           /\ pc'[d] = pc[d] /\ restore'[d] = restore[d]
  BY DEF Others, Counted, Protected, Ending

LEMMA CallKeepsCore ==
    ASSUME LInv, NEW c \in Contexts, c = Running, Call(c)
    PROVE  CoreOK'
  <1>1. Others(c)
    BY CallLeavesOthers DEF LInv
  <1>2. Top' = Top /\ (\A i : At(i)' = At(i)) /\ (\A i : Upper(i)' = Upper(i)) /\ system' = system
    BY <1>1, StackStays DEF Others
  <1>3. c \in Upper(0) /\ c \in system
    BY CoreFacts DEF LInv, CoreOK
  <1>4. \A d \in Contexts : d # c => pc'[d] = pc[d]
    BY <1>1 DEF Others
  <1> QED  BY <1>2, <1>3, <1>4 DEF LInv, CoreOK, Contexts

\* What holds of the context that runs, of its calls and of those below.
LEMMA CallFacts ==
    ASSUME LInv, NEW c \in Contexts, c = Running, Call(c)
    PROVE  /\ Others(c) /\ inside' = inside
           /\ Acquires(c) \/ Enters(c) \/ Saves(c) \/ Works(c) \/ Ends(c) \/ Returns(c) \/ Exits(c)
           /\ Top \in Nat /\ Top \in 0 .. Top /\ At(Top) = c /\ Upper(Top) = {c}
           /\ Top' = Top /\ (\A i : At(i)' = At(i)) /\ (\A i : Upper(i)' = Upper(i))
           /\ \A i \in 0 .. Top : At(i) \in Contexts /\ c \in Upper(i) /\ (At(i) = c => i = Top)
           /\ depth \in Nat /\ (depth > 0 => \E d \in Contexts : Counted(d))
           /\ \A d \in Contexts : pc[d] \notin {"idle", "end", "exit"} => Counted(d)
           /\ \A d \in Contexts : Counted(d) => depth > 0
           /\ depth = 1 /\ Counted(c) => \A d \in Contexts : Counted(d) => d = c
  <1> USE DEF LInv
  <1>1. Others(c) /\ inside' = inside
    BY CallLeavesOthers
  <1>2. Top' = Top /\ (\A i : At(i)' = At(i)) /\ (\A i : Upper(i)' = Upper(i))
    BY <1>1, StackStays DEF Others
  <1>3. /\ Top \in Nat /\ At(Top) = c /\ Upper(Top) = {c}
        /\ \A i \in 0 .. Top : At(i) \in Contexts /\ c \in Upper(i)
    BY CoreFacts
  <1>4. Top \in 0 .. Top
    BY <1>3
  <1>5. \A i \in 0 .. Top : At(i) = c => i = Top
    BY <1>3, <1>4 DEF CoreOK
  <1>6. /\ depth \in Nat /\ (depth > 0 => \E d \in Contexts : Counted(d))
        /\ \A d \in Contexts : Counted(d) => depth > 0
        /\ depth = 1 /\ Counted(c) => \A d \in Contexts : Counted(d) => d = c
    BY DepthFacts
  <1>7. ASSUME NEW d \in Contexts, pc[d] \notin {"idle", "end", "exit"} PROVE Counted(d)
    <2>1. level[d] \in 0 .. Nesting
      BY DEF TypeOK
    <2>2. level[d] # 0
      BY <1>7 DEF LevelOK
    <2> QED  BY <1>7, <2>1, <2>2 DEF Counted
  <1> QED  BY <1>1, <1>2, <1>3, <1>4, <1>5, <1>6, <1>7, CallSteps

\* The last call that is counted is not about to mask the interrupts.
LEMMA LastMasks ==
    ASSUME LInv, NEW c \in Contexts, c = Running, Call(c), depth = 1, Counted(c), pc[c] # "enter"
    PROVE  masked
  <1>1. \A d \in Contexts : pc[d] = "enter" => d = c
    BY CallFacts
  <1> QED  BY <1>1 DEF LInv, CountedOK

\* Nothing is counted when the outermost call gives up the lock.
LEMMA ExitAtZero ==
    ASSUME LInv, NEW c \in Contexts, c = Running, Call(c), Exits(c)
    PROVE  depth = 0 /\ \A d \in Contexts : ~Counted(d)
  <1>1. Ending(c) /\ ~Counted(c)
    BY DEF Exits, Ending, Counted
  <1>2. \A d \in Contexts : Counted(d) => d = c
    BY <1>1, CallFacts DEF LInv, EndingOK
  <1> QED  BY <1>1, <1>2, CallFacts

LEMMA CallKeepsAccess ==
    ASSUME LInv, NEW c \in Contexts, c = Running, Call(c)
    PROVE  AccessIsProtected'
  <1>1. SUFFICES ASSUME NEW d \in Contexts, Protected(d)' PROVE masked'
    BY DEF AccessIsProtected, Protected
  <1>2. Protected(d) => masked
    BY DEF LInv, AccessIsProtected, Protected
  <1>3. d # c => Protected(d)
    BY <1>1, CallFacts, OthersStay
  <1>4. CASE Acquires(c) \/ Returns(c)
    BY <1>1, <1>2, <1>3, <1>4 DEF Acquires, Returns, Protected
  <1>5. CASE Enters(c)
    BY <1>5 DEF Enters
  <1>6. CASE Saves(c) \/ Ends(c) \/ Works(c)
    <2>1. masked' = masked
      BY <1>6 DEF Saves, Ends, Works
    <2>2. CASE d = c
      <3>1. Protected(c) \/ (depth = 1 /\ Counted(c) /\ pc[c] # "enter")
        BY <1>1, <1>6, <2>2, CallFacts DEF Saves, Ends, Works, Protected
      <3> QED  BY <1>2, <2>1, <2>2, <3>1, LastMasks
    <2> QED  BY <1>2, <1>3, <2>1, <2>2
  <1>7. CASE Exits(c)
    <2>1. d # c /\ Ending(c)
      BY <1>1, <1>7 DEF Exits, Protected, Ending
    <2>2. ~Counted(d)
      BY <1>7, ExitAtZero
    <2>3. Ending(d)
      BY <1>3, <2>1, <2>2, CallFacts DEF Protected, Ending
    <2> QED  BY <1>7, <2>1, <2>3 DEF Exits, LInv, SavedOK
  <1> QED  BY <1>4, <1>5, <1>6, <1>7, CallFacts

LEMMA CallKeepsInside ==
    ASSUME LInv, NEW c \in Contexts, c = Running, Call(c)
    PROVE  InsideOK'
  <1>1. inside # {} => masked'
    <2>1. inside # {} => masked
      BY DEF LInv, InsideOK
    <2>2. CASE Exits(c)
      <3>1. Ending(c)
        BY <2>2 DEF Exits, Ending
      <3> QED  BY <2>2, <3>1 DEF Exits, LInv, SavedOK
    <2>3. CASE ~Exits(c)
      BY <2>1, <2>3, CallFacts DEF Acquires, Enters, Saves, Works, Ends, Returns
    <2> QED  BY <2>2, <2>3
  <1>2. ASSUME NEW i \in 0 .. Top, At(i) \in inside
        PROVE  /\ \A d \in Contexts : Protected(d)' => d \in Upper(i)
               /\ \A d \in Contexts : Counted(d)' =>
                      d \in Upper(i) \/ \E h \in Contexts : pc'[h] = "enter" /\ h \notin Upper(i)
    <2>1. c \in Upper(i)
      BY CallFacts
    <2>2. ASSUME NEW d \in Contexts, Protected(d)' PROVE d \in Upper(i)
      BY <1>2, <2>1, <2>2, CallFacts, OthersStay DEF LInv, InsideOK
    <2>3. ASSUME NEW d \in Contexts, Counted(d)', d \notin Upper(i)
          PROVE  \E h \in Contexts : pc'[h] = "enter" /\ h \notin Upper(i)
      <3>1. Counted(d)
        BY <2>1, <2>3, CallFacts, OthersStay
      <3>2. PICK h \in Contexts : pc[h] = "enter" /\ h \notin Upper(i)
        BY <1>2, <2>3, <3>1 DEF LInv, InsideOK
      <3>3. pc'[h] = pc[h]
        BY <2>1, <3>2, CallFacts, OthersStay
      <3> QED  BY <3>2, <3>3
    <2> QED  BY <2>2, <2>3
  <1>3. inside' = inside /\ Top' = Top /\ (\A i : At(i)' = At(i)) /\ (\A i : Upper(i)' = Upper(i))
    BY CallFacts
  <1>4. inside \subseteq Upper(0) /\ \A d, e \in inside : d = e
    BY DEF LInv, InsideOK
  <1> QED  BY <1>1, <1>2, <1>3, <1>4 DEF InsideOK

LEMMA CallKeepsCounted ==
    ASSUME LInv, NEW c \in Contexts, c = Running, Call(c)
    PROVE  CountedOK'
  <1>1. SUFFICES ASSUME depth' > 0 PROVE masked' \/ \E h \in Contexts : pc'[h] = "enter"
    BY DEF CountedOK
  <1>2. depth \in Nat
    BY CallFacts
  <1>3. ASSUME depth > 0, masked' = masked, pc[c] # "enter"
        PROVE  masked' \/ \E h \in Contexts : pc'[h] = "enter"
    <2>1. ASSUME NEW h \in Contexts, pc[h] = "enter" PROVE pc'[h] = "enter"
      BY <1>3, <2>1, CallFacts, OthersStay
    <2> QED  BY <1>3, <2>1 DEF LInv, CountedOK
  <1>4. CASE Acquires(c)
    BY <1>2, <1>3, <1>4 DEF Acquires
  <1>5. CASE Enters(c)
    BY <1>5 DEF Enters
  <1>6. CASE Saves(c) \/ Works(c)
    BY <1>1, <1>3, <1>6 DEF Saves, Works
  <1>7. CASE Ends(c)
    BY <1>1, <1>7 DEF Ends
  <1>8. CASE Returns(c)
    BY <1>1, <1>2, <1>3, <1>8 DEF Returns
  <1>9. CASE Exits(c)
    BY <1>1, <1>9, ExitAtZero DEF Exits
  <1> QED  BY <1>4, <1>5, <1>6, <1>7, <1>8, <1>9, CallFacts

LEMMA CallKeepsEnding ==
    ASSUME LInv, NEW c \in Contexts, c = Running, Call(c)
    PROVE  EndingOK'
  <1>1. SUFFICES ASSUME NEW i \in 0 .. Top, Ending(At(i))', NEW d \in Contexts, Counted(d)'
                 PROVE  d \in Upper(i)
    BY CallFacts DEF EndingOK
  <1>2. At(i) \in Contexts /\ At(i)' = At(i) /\ c \in Upper(i)
    BY CallFacts
  <1>3. CASE At(i) # c
    <2>1. Ending(At(i))
      <3> DEFINE e == At(i)
      <3>1. e \in Contexts /\ e # c
        BY <1>2, <1>3
      <3>2. pc'[e] = pc[e]
        <4> HIDE DEF e
        <4> QED  BY <3>1, CallFacts, OthersStay
      <3> QED  BY <1>1, <1>2, <3>2 DEF Ending
    <2> QED  BY <1>1, <1>2, <2>1, CallFacts, OthersStay DEF LInv, EndingOK
  <1>4. CASE At(i) = c
    <2>1. pc'[c] \in {"end", "exit"}
      BY <1>1, <1>2, <1>4 DEF Ending
    <2>2. d # c
      BY <1>1, <2>1 DEF Counted
    <2>3. Counted(d)
      BY <1>1, <2>2, CallFacts, OthersStay
    <2>4. ~Ends(c)
      BY <2>2, <2>3, CallFacts DEF Ends
    <2>5. pc[c] = "end"
      BY <2>1, <2>4, CallFacts DEF Acquires, Enters, Saves, Works, Returns, Exits
    <2>6. Ending(At(i))
      BY <1>4, <2>5 DEF Ending
    <2> QED  BY <2>3, <2>6 DEF LInv, EndingOK
  <1> QED  BY <1>3, <1>4

LEMMA CallKeepsSaved ==
    ASSUME LInv, NEW c \in Contexts, c = Running, Call(c)
    PROVE  SavedOK'
  <1>1. Others(c) /\ inside' = inside /\ depth \in Nat
    BY CallFacts
  <1>2. ~Ends(c) => \A d \in Contexts : Ending(d)' => Ending(d)
    <2>1. ~Ends(c) /\ Ending(c)' => Ending(c)
      BY CallFacts DEF Ending, Acquires, Enters, Saves, Works, Returns, Exits
    <2> QED  BY <1>1, <2>1, OthersStay
  <1>3. ~Ends(c) /\ Guarded' => Guarded
    BY <1>1, <1>2 DEF Guarded
  <1>4. Guarded => masked
    BY DEF Guarded, Ending, LInv, InsideOK, AccessIsProtected
  <1>5. Ends(c) => /\ csState' = csState /\ Counted(c)
                   /\ \A d \in Contexts : pc[d] \notin {"enter", "save"}
    BY CallFacts DEF Ends
  <1>6. Ends(c) /\ Guarded => csState'
    BY <1>5 DEF Ends, LInv, SavedOK
  <1>7. Saves(c) /\ Guarded => csState'
    BY DEF Saves, LInv, SavedOK
  <1>8. ASSUME NEW d \in Contexts, pc'[d] = "save", Guarded' PROVE restore'[d]
    <2>1. CASE Enters(c) /\ d = c
      BY <1>3, <1>4, <1>8, <2>1 DEF Enters, Ends
    <2>2. CASE ~(Enters(c) /\ d = c)
      <3>1. d # c
        BY <1>8, <2>2, CallFacts DEF Acquires, Saves, Works, Ends, Returns, Exits
      <3>2. pc[d] = "save" /\ restore'[d] = restore[d]
        BY <1>1, <1>8, <3>1, OthersStay
      <3>3. ~Ends(c)
        BY <1>5, <3>2
      <3> QED  BY <1>3, <1>8, <3>2, <3>3 DEF LInv, SavedOK
    <2> QED  BY <2>1, <2>2
  <1>9. ASSUME Guarded', depth' > 0
        PROVE  csState' \/ \E h \in Contexts : pc'[h] \in {"enter", "save"}
    <2>1. ~Ends(c) /\ Guarded
      BY <1>3, <1>9 DEF Ends
    <2>2. ASSUME depth > 0, csState' = csState, pc[c] \notin {"enter", "save"}
          PROVE  csState' \/ \E h \in Contexts : pc'[h] \in {"enter", "save"}
      <3>1. ASSUME NEW h \in Contexts, pc[h] \in {"enter", "save"} PROVE pc'[h] = pc[h]
        BY <1>1, <2>2, <3>1, OthersStay
      <3> QED  BY <2>1, <2>2, <3>1 DEF LInv, SavedOK
    <2>3. CASE Acquires(c)
      BY <1>1, <2>2, <2>3 DEF Acquires
    <2>4. CASE Enters(c)
      BY <2>4 DEF Enters
    <2>5. CASE Saves(c)
      BY <1>7, <2>1, <2>5
    <2>6. CASE Works(c)
      BY <1>9, <2>2, <2>6 DEF Works
    <2>7. CASE Returns(c)
      BY <1>1, <1>9, <2>2, <2>7 DEF Returns
    <2>8. CASE Exits(c)
      BY <1>9, <2>8, ExitAtZero DEF Exits
    <2> QED  BY <2>1, <2>3, <2>4, <2>5, <2>6, <2>7, <2>8, CallFacts
  <1>10. ~Ends(c) /\ ~Saves(c) => csState' = csState
    BY CallFacts DEF Acquires, Enters, Works, Returns, Exits
  <1>11. ASSUME NEW d \in Contexts, Ending(d)', inside # {} PROVE csState'
    <2>1. Guarded
      BY <1>11 DEF Guarded
    <2>2. CASE Ends(c) \/ Saves(c)
      BY <1>6, <1>7, <2>1, <2>2
    <2>3. CASE ~Ends(c) /\ ~Saves(c)
      BY <1>2, <1>10, <1>11, <2>3 DEF LInv, SavedOK
    <2> QED  BY <2>2, <2>3
  <1>12. ASSUME NEW d \in Contexts, NEW e \in Contexts, Ending(d)', Ending(e)', d # e PROVE csState'
    <2>1. \E f \in {d, e} : f # c /\ f \in Contexts /\ Ending(f)'
      BY <1>12
    <2>2. Guarded
      BY <1>1, <2>1, OthersStay DEF Guarded
    <2>3. CASE Ends(c) \/ Saves(c)
      BY <1>6, <1>7, <2>2, <2>3
    <2>4. CASE ~Ends(c) /\ ~Saves(c)
      BY <1>2, <1>10, <1>12, <2>4 DEF LInv, SavedOK
    <2> QED  BY <2>3, <2>4
  <1> QED  BY <1>1, <1>8, <1>9, <1>11, <1>12 DEF SavedOK

LEMMA CallKeeps ==
    ASSUME LInv, NEW c \in Contexts, c = Running, Call(c)
    PROVE  LInv'
  <1>1. TypeOK' /\ LevelOK' /\ DepthOK'
    BY CallKeepsType, CallKeepsLevel, CallKeepsDepth DEF LInv
  <1> QED  BY <1>1, CallKeepsCore, CallKeepsAccess, CallKeepsInside, CallKeepsCounted,
              CallKeepsEnding, CallKeepsSaved DEF LInv

-----------------------------------------------------------------------------
(* Steps of the core *)

LEMMA LocalsStay ==
    ASSUME UNCHANGED <<shared, locals>>
    PROVE  /\ LevelOK' = LevelOK /\ DepthOK' = DepthOK
           /\ \A d : Counted(d)' = Counted(d) /\ Protected(d)' = Protected(d)
                     /\ Ending(d)' = Ending(d)
           /\ pc' = pc /\ restore' = restore /\ depth' = depth /\ csState' = csState
           /\ level' = level
  BY DEF shared, locals, LevelOK, DepthOK, CountedCalls, Counted, Protected, Ending

\* While the interrupts are enabled nothing is protected, nobody has a
\* critical section of its own, and who is counted is about to start one.
LEMMA UnmaskedFacts ==
    ASSUME LInv, ~masked
    PROVE  /\ inside = {}
           /\ \A d \in Contexts : ~Protected(d) /\ ~Ending(d) /\ pc[d] # "save"
           /\ depth > 0 => \E h \in Contexts : pc[h] = "enter"
           /\ \A d \in Contexts : Counted(d) => \E h \in Contexts : pc[h] = "enter"
  <1>1. inside = {}
    BY DEF LInv, InsideOK
  <1>2. \A d \in Contexts : ~Protected(d) /\ ~Ending(d) /\ pc[d] # "save"
    BY DEF LInv, AccessIsProtected, Protected, Ending
  <1>3. depth > 0 => \E h \in Contexts : pc[h] = "enter"
    BY DEF LInv, CountedOK
  <1>4. \A d \in Contexts : Counted(d) => depth > 0
    BY DepthFacts DEF LInv
  <1> QED  BY <1>1, <1>2, <1>3, <1>4

\* The same of an idle context that runs inside its own critical section.
LEMMA UnmaskFacts ==
    ASSUME LInv, Unmask(Running)
    PROVE  /\ \A d \in Contexts : ~Protected(d) /\ ~Ending(d) /\ pc[d] # "save"
           /\ \A d \in Contexts : Counted(d) => \E h \in Contexts : pc[h] = "enter"
           /\ depth > 0 => \E h \in Contexts : pc[h] = "enter"
  <1> DEFINE c == Running
  <1>1. c \in Contexts /\ Top \in 0 .. Top /\ At(Top) = c /\ Upper(Top) = {c}
    BY CoreFacts DEF LInv
  <1>2. pc[c] = "idle" /\ c \in inside
    BY DEF Unmask
  <1>3. ~Protected(c) /\ ~Counted(c)
    BY <1>1, <1>2 DEF Protected, Counted, LInv, LevelOK
  <1> HIDE DEF c
  <1>4. \A d \in Contexts : Protected(d) => d \in Upper(Top)
    BY <1>1, <1>2 DEF LInv, InsideOK
  <1>5. \A d \in Contexts : Counted(d) => d \in Upper(Top) \/ \E h \in Contexts : pc[h] = "enter"
    BY <1>1, <1>2 DEF LInv, InsideOK
  <1>6. \A d \in Contexts : ~Protected(d)
    BY <1>1, <1>3, <1>4
  <1>7. \A d \in Contexts : Counted(d) => \E h \in Contexts : pc[h] = "enter"
    BY <1>1, <1>3, <1>5
  <1>8. depth > 0 => \E h \in Contexts : pc[h] = "enter"
    BY <1>7, DepthFacts DEF LInv
  <1> QED  BY <1>6, <1>7, <1>8 DEF Protected, Ending

LEMMA MaskKeeps ==
    ASSUME LInv, Mask(Running)
    PROVE  LInv'
  <1> DEFINE c == Running
  <1>1. /\ c \in Contexts /\ Top \in 0 .. Top /\ At(Top) = c /\ Upper(Top) = {c} /\ c \in Upper(0)
        /\ \A i \in 0 .. Top : At(i) = c => i = Top
    <2>1. Top \in 0 .. Top /\ At(Top) = c /\ c \in Contexts /\ Upper(Top) = {c} /\ c \in Upper(0)
      BY CoreFacts DEF LInv
    <2> QED  BY <2>1 DEF LInv, CoreOK
  <1>2. /\ pc[c] = "idle" /\ ~masked /\ masked' = TRUE /\ inside' = inside \cup {c}
        /\ UNCHANGED <<shared, locals>> /\ UNCHANGED <<system, current, stack>>
    BY DEF Mask
  <1> HIDE DEF c
  <1>3. /\ inside' = {c}
        /\ \A d \in Contexts : ~Protected(d) /\ ~Ending(d) /\ pc[d] # "save"
        /\ depth > 0 => \E h \in Contexts : pc[h] = "enter"
        /\ \A d \in Contexts : Counted(d) => \E h \in Contexts : pc[h] = "enter"
    BY <1>2, UnmaskedFacts
  <1>4. Top' = Top /\ (\A i : At(i)' = At(i)) /\ (\A i : Upper(i)' = Upper(i))
    BY <1>2, StackStays
  <1>5. TypeOK' /\ CoreOK'
    <2>1. TypeOK'
      BY <1>1, <1>2, <1>3 DEF LInv, TypeOK, shared, locals
    <2>2. CoreOK'
      BY <1>2, <1>4, LocalsStay DEF LInv, CoreOK
    <2> QED  BY <2>1, <2>2
  <1>6. AccessIsProtected' /\ CountedOK'
    BY <1>2 DEF AccessIsProtected, CountedOK
  <1>7. EndingOK'
    BY <1>2, <1>3, <1>4, LocalsStay, CoreFacts DEF EndingOK, LInv
  <1>8. InsideOK'
    <2>1. ASSUME NEW i \in 0 .. Top, At(i) \in inside'
          PROVE  /\ \A d \in Contexts : Protected(d)' => d \in Upper(i)
                 /\ \A d \in Contexts : Counted(d)' =>
                        d \in Upper(i) \/ \E h \in Contexts : pc'[h] = "enter" /\ h \notin Upper(i)
      <3>1. Upper(i) = {c}
        BY <1>1, <1>3, <2>1
      <3> QED  BY <1>2, <1>3, <3>1, LocalsStay
    <2> QED  BY <1>1, <1>2, <1>3, <1>4, <2>1 DEF InsideOK
  <1>9. SavedOK'
    BY <1>2, <1>3, LocalsStay DEF SavedOK
  <1> QED  BY <1>2, <1>5, <1>6, <1>7, <1>8, <1>9, LocalsStay DEF LInv

LEMMA UnmaskKeeps ==
    ASSUME LInv, Unmask(Running)
    PROVE  LInv'
  <1>1. /\ masked' = FALSE /\ inside' = inside \ {Running} /\ Running \in inside
        /\ UNCHANGED <<shared, locals>> /\ UNCHANGED <<system, current, stack>>
    BY DEF Unmask
  <1>2. inside' = {}
    BY <1>1 DEF LInv, InsideOK
  <1>3. /\ \A d \in Contexts : ~Protected(d) /\ ~Ending(d) /\ pc[d] # "save"
        /\ depth > 0 => \E h \in Contexts : pc[h] = "enter"
    BY UnmaskFacts
  <1>4. Top' = Top /\ (\A i : At(i)' = At(i)) /\ (\A i : Upper(i)' = Upper(i))
    BY <1>1, StackStays
  <1>5. TypeOK' /\ CoreOK'
    <2>1. TypeOK'
      BY <1>1, <1>2 DEF LInv, TypeOK, shared, locals
    <2>2. CoreOK'
      BY <1>1, <1>4, LocalsStay DEF LInv, CoreOK
    <2> QED  BY <2>1, <2>2
  <1>6. AccessIsProtected'
    BY <1>1, <1>3, LocalsStay DEF AccessIsProtected, Protected
  <1>7. CountedOK'
    BY <1>1, <1>3, LocalsStay DEF CountedOK
  <1>8. EndingOK'
    BY <1>1, <1>3, <1>4, LocalsStay, CoreFacts DEF EndingOK, LInv
  <1>9. InsideOK'
    BY <1>2 DEF InsideOK
  <1>10. SavedOK'
    BY <1>1, <1>2, <1>3, LocalsStay DEF SavedOK, Guarded
  <1> QED  BY <1>1, <1>5, <1>6, <1>7, <1>8, <1>9, <1>10, LocalsStay DEF LInv

\* What an interrupt does to the stack.
LEMMA InterruptFacts ==
    ASSUME LInv, NEW h \in Handlers, Interrupt(h)
    PROVE  /\ h \in Contexts /\ pc[h] = "idle" /\ h \notin Upper(0) /\ h \in system
           /\ ~Protected(h) /\ ~Counted(h) /\ ~Ending(h)
           /\ Top \in Nat /\ Top' = Top + 1 /\ stack' \in Seq(Handlers)
           /\ \A i \in 0 .. Top : At(i)' = At(i) /\ At(i) \in Contexts
           /\ \A i \in 0 .. Top : Upper(i)' = Upper(i) \cup {h} /\ Upper(i) \subseteq Upper(0)
           /\ \A i : i = Top + 1 => At(i)' = h /\ Upper(i)' = {h}
  <1>1. /\ stack \in Seq(Handlers) /\ Top \in Nat /\ OnCore = Upper(0)
        /\ \A i \in 0 .. Top : At(i) \in Contexts
    BY CoreFacts DEF LInv, TypeOK
  <1>2. /\ h \in Contexts /\ h \in system /\ h \notin Upper(0)
        /\ stack' = Append(stack, h) /\ current' = current
    BY <1>1 DEF Interrupt, Contexts
  <1>3. pc[h] = "idle"
    BY <1>2 DEF LInv, CoreOK
  <1>4. ~Protected(h) /\ ~Counted(h) /\ ~Ending(h)
    BY <1>2, <1>3 DEF LInv, LevelOK, Protected, Counted, Ending
  <1>5. /\ stack' \in Seq(Handlers) /\ Len(stack') = Len(stack) + 1 /\ stack'[Len(stack) + 1] = h
        /\ \A i \in 1 .. Len(stack) : stack'[i] = stack[i]
    BY <1>1, <1>2, AppendProperties
  <1>6. Top' = Top + 1 /\ (\A i \in 0 .. Top : At(i)' = At(i)) /\ \A i : i = Top + 1 => At(i)' = h
    <2>1. Top' = Top + 1
      BY <1>5 DEF Top
    <2>2. ASSUME NEW i, i = Top + 1 PROVE At(i)' = h
      <3>1. i # 0 /\ i = Len(stack) + 1
        BY <1>1, <2>2 DEF Top
      <3> QED  BY <1>5, <3>1 DEF At
    <2>3. ASSUME NEW i \in 0 .. Top PROVE At(i)' = At(i)
      <3>1. CASE i = 0
        BY <1>2, <3>1 DEF At
      <3>2. CASE i # 0
        <4>1. i \in 1 .. Len(stack)
          BY <1>1, <3>2 DEF Top
        <4> QED  BY <1>5, <3>2, <4>1 DEF At
      <3> QED  BY <3>1, <3>2
    <2> QED  BY <2>1, <2>2, <2>3
  <1>7. ASSUME NEW i \in 0 .. Top
        PROVE  Upper(i)' = Upper(i) \cup {h} /\ Upper(i) \subseteq Upper(0)
    <2>1. Upper(i)' = {At(j)' : j \in i .. Top'}
      BY DEF Upper
    <2>2. i .. Top' = (i .. Top) \cup {Top + 1}
      BY <1>1, <1>6
    <2>3. Upper(i)' = {At(j)' : j \in i .. Top} \cup {h}
      BY <1>6, <2>1, <2>2
    <2>4. \A j \in i .. Top : At(j)' = At(j)
      BY <1>1, <1>6
    <2>5. {At(j)' : j \in i .. Top} = Upper(i)
      BY <2>4 DEF Upper
    <2>6. Upper(i) \subseteq Upper(0)
      BY <1>1 DEF Upper
    <2> QED  BY <1>6, <2>3, <2>5, <2>6
  <1>8. ASSUME NEW i, i = Top + 1 PROVE Upper(i)' = {h}
    <2>1. Upper(i)' = {At(j)' : j \in i .. Top'}
      BY DEF Upper
    <2>2. i .. Top' = {i}
      BY <1>1, <1>6, <1>8
    <2> QED  BY <1>6, <1>8, <2>1, <2>2
  <1> QED  BY <1>1, <1>2, <1>3, <1>4, <1>5, <1>6, <1>7, <1>8

LEMMA InterruptKeeps ==
    ASSUME LInv, NEW h \in Handlers, Interrupt(h)
    PROVE  LInv'
  <1>1. /\ UNCHANGED <<shared, locals>> /\ UNCHANGED <<system, masked, current, inside>>
    BY DEF Interrupt
  <1>2. TypeOK'
    BY <1>1, InterruptFacts DEF LInv, TypeOK, shared, locals
  <1>3. /\ h \in Contexts /\ pc[h] = "idle" /\ h \notin Upper(0) /\ h \in system
        /\ ~Protected(h) /\ ~Counted(h) /\ ~Ending(h)
        /\ Top \in Nat /\ Top' = Top + 1
        /\ \A i \in 0 .. Top : At(i)' = At(i)
        /\ \A i : i = Top + 1 => At(i)' = h
        /\ \A i \in 0 .. Top : Upper(i)' = Upper(i) \cup {h} /\ Upper(i) \subseteq Upper(0)
        /\ 0 \in 0 .. Top
        /\ \A i \in 0 .. Top' : i \in 0 .. Top \/ i = Top + 1
    <2>1. Top \in Nat /\ Top' = Top + 1
      BY InterruptFacts
    <2>2. 0 \in 0 .. Top /\ \A i \in 0 .. Top' : i \in 0 .. Top \/ i = Top + 1
      BY <2>1
    <2> QED  BY <2>1, <2>2, InterruptFacts
  <1>4. CoreOK'
    <2>1. \A i \in 0 .. Top : At(i) \in Upper(0) /\ i # Top + 1
      BY <1>3 DEF Upper
    <2>2. \A i, j \in 0 .. Top' : At(i)' = At(j)' => i = j
      <3>1. \A i, j \in 0 .. Top : At(i) = At(j) => i = j
        BY DEF LInv, CoreOK
      <3> QED  BY <1>3, <2>1, <3>1
    <2>3. \A i \in 0 .. Top' : At(i)' \in system'
      BY <1>1, <1>3 DEF LInv, CoreOK
    <2>4. \A g \in Handlers : g \notin Upper(0)' => pc'[g] = "idle"
      BY <1>1, <1>3, LocalsStay DEF LInv, CoreOK
    <2>5. \A c \in Contexts : c \notin system' => pc'[c] = "idle"
      BY <1>1, LocalsStay DEF LInv, CoreOK
    <2> QED  BY <2>2, <2>3, <2>4, <2>5 DEF CoreOK
  <1>5. AccessIsProtected' /\ CountedOK'
    BY <1>1, LocalsStay DEF LInv, AccessIsProtected, CountedOK
  <1>6. SavedOK'
    BY <1>1, LocalsStay DEF LInv, SavedOK, Guarded
  <1>7. EndingOK'
    <2>1. ASSUME NEW i \in 0 .. Top', Ending(At(i))', NEW d \in Contexts, Counted(d)'
          PROVE  d \in Upper(i)'
      <3>1. Counted(d)
        BY <1>1, <2>1, LocalsStay
      <3>2. i # Top + 1
        BY <1>1, <1>3, <2>1, LocalsStay DEF Ending
      <3>3. i \in 0 .. Top
        BY <1>3, <3>2
      <3>4. Ending(At(i))
        BY <1>1, <1>3, <2>1, <3>3, LocalsStay DEF Ending
      <3> QED  BY <1>3, <3>1, <3>3, <3>4 DEF LInv, EndingOK
    <2> QED  BY <2>1 DEF EndingOK
  <1>8. InsideOK'
    <2>1. /\ inside' # {} => masked'
          /\ \A c, d \in inside' : c = d
      BY <1>1, <1>3 DEF LInv, InsideOK
    <2>2. inside' \subseteq Upper(0)'
      BY <1>1, <1>3 DEF LInv, InsideOK
    <2>3. ASSUME NEW i \in 0 .. Top', At(i)' \in inside'
          PROVE  /\ \A d \in Contexts : Protected(d)' => d \in Upper(i)'
                 /\ \A d \in Contexts : Counted(d)' =>
                        d \in Upper(i)' \/ \E g \in Contexts : pc'[g] = "enter" /\ g \notin Upper(i)'
      <3>1. i # Top + 1
        BY <1>1, <1>3, <2>3 DEF LInv, InsideOK
      <3>2. i \in 0 .. Top /\ At(i) \in inside /\ Upper(i)' = Upper(i) \cup {h}
        BY <1>1, <1>3, <2>3, <3>1
      <3>3. \A d \in Contexts : Protected(d) => d \in Upper(i)
        BY <3>2 DEF LInv, InsideOK
      <3>4. \A d \in Contexts : Counted(d) =>
                d \in Upper(i) \/ \E g \in Contexts : pc[g] = "enter" /\ g \notin Upper(i)
        BY <3>2 DEF LInv, InsideOK
      <3>5. \A g \in Contexts : pc[g] = "enter" => g # h
        BY <1>3
      <3> QED  BY <1>1, <3>2, <3>3, <3>4, <3>5, LocalsStay
    <2> QED  BY <2>1, <2>2, <2>3 DEF InsideOK
  <1> QED  BY <1>1, <1>2, <1>4, <1>5, <1>6, <1>7, <1>8, LocalsStay DEF LInv

\* What the return of a handler does to the stack.
LEMMA ReturnFacts ==
    ASSUME LInv, NEW h \in Handlers, Return(h)
    PROVE  /\ h \in Contexts /\ pc[h] = "idle" /\ h \notin inside
           /\ ~Protected(h) /\ ~Counted(h) /\ ~Ending(h)
           /\ Top \in Nat /\ Top >= 1 /\ Top' = Top - 1 /\ stack' \in Seq(Handlers)
           /\ \A i \in 0 .. Top' : i \in 0 .. Top /\ At(i)' = At(i)
           /\ \A i \in 0 .. Top' : Upper(i) = Upper(i)' \cup {h}
  <1>1. /\ stack \in Seq(Handlers) /\ Top \in Nat /\ Running = At(Top)
        /\ (stack = <<>> <=> Top = 0) /\ current \in Threads
    BY CoreFacts DEF LInv, TypeOK
  <1>2. /\ h \in Contexts /\ h = Running /\ pc[h] = "idle" /\ h \notin inside
        /\ stack' = SubSeq(stack, 1, Len(stack) - 1) /\ current' = current
    BY DEF Return, Contexts
  <1>3. ~Protected(h) /\ ~Counted(h) /\ ~Ending(h)
    BY <1>2 DEF LInv, LevelOK, Protected, Counted, Ending
  <1>4. Top >= 1
    <2>1. Top # 0
      BY <1>1, <1>2, LoggerAssumption DEF At
    <2> QED  BY <1>1, <2>1
  <1>5. /\ stack' \in Seq(Handlers) /\ Len(stack') = Len(stack) - 1
        /\ \A i \in 1 .. Len(stack) - 1 : stack'[i] = stack[i]
    <2>1. Len(stack) \in Nat /\ Len(stack) >= 1
      BY <1>1, <1>4 DEF Top
    <2>2. /\ \A i \in 1 .. Len(stack) - 1 : stack[i] \in Handlers
          /\ Len(stack) - 1 \in Nat
      BY <1>1, <2>1, ElementOfSeq
    <2>3. SubSeq(stack, 1, Len(stack) - 1) = [i \in 1 .. Len(stack) - 1 |-> stack[i]]
      BY <1>1, <2>1
    <2>4. stack' = [i \in 1 .. Len(stack) - 1 |-> stack[i]]
      BY <1>2, <2>3
    <2> QED  BY <2>2, <2>4
  <1>6. Top' = Top - 1
    BY <1>5 DEF Top
  <1>7. \A i \in 0 .. Top' : i \in 0 .. Top
    BY <1>1, <1>6
  <1>8. ASSUME NEW i \in 0 .. Top' PROVE At(i)' = At(i)
    <2>1. CASE i = 0
      BY <1>2, <2>1 DEF At
    <2>2. CASE i # 0
      <3>1. i \in 1 .. Len(stack) - 1
        BY <1>1, <1>6, <2>2 DEF Top
      <3> QED  BY <1>5, <2>2, <3>1 DEF At
    <2> QED  BY <2>1, <2>2
  <1>9. ASSUME NEW i \in 0 .. Top' PROVE Upper(i) = Upper(i)' \cup {h}
    <2>1. Upper(i)' = {At(j)' : j \in i .. Top'}
      BY DEF Upper
    <2>2. i .. Top = (i .. Top') \cup {Top}
      BY <1>1, <1>4, <1>6
    <2>3. \A j \in i .. Top' : At(j)' = At(j)
      BY <1>1, <1>6, <1>8
    <2>4. Upper(i)' = {At(j) : j \in i .. Top'}
      BY <2>1, <2>3
    <2>5. Upper(i) = {At(j) : j \in i .. Top'} \cup {At(Top)}
      BY <2>2 DEF Upper
    <2> QED  BY <1>1, <1>2, <2>4, <2>5
  <1> QED  BY <1>1, <1>2, <1>3, <1>4, <1>5, <1>6, <1>7, <1>8, <1>9

LEMMA ReturnKeeps ==
    ASSUME LInv, NEW h \in Handlers, Return(h)
    PROVE  LInv'
  <1>1. /\ UNCHANGED <<shared, locals>> /\ UNCHANGED <<system, masked, current, inside>>
    BY DEF Return
  <1>2. TypeOK'
    BY <1>1, ReturnFacts DEF LInv, TypeOK, shared, locals
  <1>3. /\ h \in Contexts /\ pc[h] = "idle" /\ h \notin inside
        /\ ~Protected(h) /\ ~Counted(h) /\ ~Ending(h)
        /\ \A i \in 0 .. Top' : i \in 0 .. Top /\ At(i)' = At(i)
        /\ \A i \in 0 .. Top' : Upper(i) = Upper(i)' \cup {h}
        /\ 0 \in 0 .. Top'
    <2>1. Top \in Nat /\ Top >= 1 /\ Top' = Top - 1
      BY ReturnFacts
    <2>2. 0 \in 0 .. Top'
      BY <2>1
    <2> QED  BY <2>2, ReturnFacts
  <1>4. CoreOK'
    <2>1. \A i, j \in 0 .. Top' : At(i)' = At(j)' => i = j
      BY <1>3 DEF LInv, CoreOK
    <2>2. \A i \in 0 .. Top' : At(i)' \in system'
      BY <1>1, <1>3 DEF LInv, CoreOK
    <2>3. \A g \in Handlers : g \notin Upper(0)' => pc'[g] = "idle"
      BY <1>1, <1>3, LocalsStay DEF LInv, CoreOK
    <2>4. \A c \in Contexts : c \notin system' => pc'[c] = "idle"
      BY <1>1, LocalsStay DEF LInv, CoreOK
    <2> QED  BY <2>1, <2>2, <2>3, <2>4 DEF CoreOK
  <1>5. AccessIsProtected' /\ CountedOK'
    BY <1>1, LocalsStay DEF LInv, AccessIsProtected, CountedOK
  <1>6. SavedOK'
    BY <1>1, LocalsStay DEF LInv, SavedOK, Guarded
  <1>7. EndingOK'
    <2>1. ASSUME NEW i \in 0 .. Top', Ending(At(i))', NEW d \in Contexts, Counted(d)'
          PROVE  d \in Upper(i)'
      <3>1. Counted(d)
        BY <1>1, <2>1, LocalsStay
      <3>2. i \in 0 .. Top /\ Ending(At(i))
        BY <1>1, <1>3, <2>1, LocalsStay DEF Ending
      <3>3. d \in Upper(i) /\ d # h
        BY <1>3, <3>1, <3>2 DEF LInv, EndingOK
      <3> QED  BY <1>3, <3>3
    <2> QED  BY <2>1 DEF EndingOK
  <1>8. InsideOK'
    <2>1. /\ inside' # {} => masked'
          /\ inside' \subseteq Upper(0)'
          /\ \A c, d \in inside' : c = d
      BY <1>1, <1>3 DEF LInv, InsideOK
    <2>2. ASSUME NEW i \in 0 .. Top', At(i)' \in inside'
          PROVE  /\ \A d \in Contexts : Protected(d)' => d \in Upper(i)'
                 /\ \A d \in Contexts : Counted(d)' =>
                        d \in Upper(i)' \/ \E g \in Contexts : pc'[g] = "enter" /\ g \notin Upper(i)'
      <3>1. i \in 0 .. Top /\ At(i) \in inside /\ Upper(i) = Upper(i)' \cup {h}
        BY <1>1, <1>3, <2>2
      <3>2. \A d \in Contexts : Protected(d) => d \in Upper(i)
        BY <3>1 DEF LInv, InsideOK
      <3>3. \A d \in Contexts : Counted(d) =>
                d \in Upper(i) \/ \E g \in Contexts : pc[g] = "enter" /\ g \notin Upper(i)
        BY <3>1 DEF LInv, InsideOK
      <3>4. \A d \in Contexts : Protected(d) \/ Counted(d) => d # h
        BY <1>3
      <3> QED  BY <1>1, <3>1, <3>2, <3>3, <3>4, LocalsStay
    <2> QED  BY <2>1, <2>2 DEF InsideOK
  <1> QED  BY <1>1, <1>2, <1>4, <1>5, <1>6, <1>7, <1>8, LocalsStay DEF LInv

LEMMA SwitchKeeps ==
    ASSUME LInv, NEW t \in Threads, Switch(t)
    PROVE  LInv'
  <1>1. /\ UNCHANGED <<shared, locals>> /\ UNCHANGED <<system, masked, stack, inside>>
        /\ stack = <<>> /\ ~masked /\ t \in system /\ current' = t
    BY DEF Switch
  <1>2. TypeOK'
    BY <1>1 DEF LInv, TypeOK, shared, locals
  <1>3. /\ Top = 0 /\ Top' = 0 /\ At(0) = current /\ At(0)' = t
        /\ Upper(0) = {current} /\ Upper(0)' = {t}
    <2>1. Top = 0 /\ Top' = 0
      BY <1>1, CoreFacts DEF LInv, Top
    <2>2. At(0) = current /\ At(0)' = t
      BY <1>1 DEF At
    <2>3. Upper(0) = {At(0)}
      BY <2>1 DEF Upper
    <2>4. Upper(0)' = {At(0)'}
      BY <2>1 DEF Upper
    <2> QED  BY <2>1, <2>2, <2>3, <2>4
  <1>4. CoreOK'
    <2>1. \A g \in Handlers : g \notin Upper(0)
      BY <1>3, LoggerAssumption DEF LInv, TypeOK
    <2>2. \A g \in Handlers : pc'[g] = "idle"
      BY <1>1, <2>1, LocalsStay DEF LInv, CoreOK
    <2>3. \A c \in Contexts : c \notin system' => pc'[c] = "idle"
      BY <1>1, LocalsStay DEF LInv, CoreOK
    <2> QED  BY <1>1, <1>3, <2>2, <2>3 DEF CoreOK
  <1>5. AccessIsProtected' /\ CountedOK'
    BY <1>1, LocalsStay DEF LInv, AccessIsProtected, CountedOK
  <1>6. SavedOK'
    BY <1>1, LocalsStay DEF LInv, SavedOK, Guarded
  <1>7. EndingOK' /\ InsideOK'
    <2>1. inside' = {} /\ \A d \in Contexts : ~Ending(d)'
      BY <1>1, UnmaskedFacts, LocalsStay
    <2>2. EndingOK'
      <3>1. t \in Contexts
        BY DEF Contexts
      <3>2. \A i \in 0 .. Top' : i = 0
        BY <1>3
      <3>3. ~Ending(t)'
        BY <2>1, <3>1
      <3>4. \A i \in 0 .. Top' : ~Ending(At(i))'
        BY <1>3, <3>2, <3>3 DEF Ending
      <3> QED  BY <3>4 DEF EndingOK
    <2> QED  BY <2>1, <2>2 DEF InsideOK
  <1> QED  BY <1>1, <1>2, <1>4, <1>5, <1>6, <1>7, LocalsStay DEF LInv

LEMMA StutterKeeps ==
    ASSUME LInv, UNCHANGED vars
    PROVE  LInv'
  <1>1. UNCHANGED <<shared, locals>> /\ UNCHANGED <<system, masked, current, stack, inside>>
    BY DEF vars, core
  <1>2. Top' = Top /\ (\A i : At(i)' = At(i)) /\ (\A i : Upper(i)' = Upper(i))
    BY <1>1, StackStays
  <1>3. TypeOK'
    BY <1>1 DEF LInv, TypeOK, shared, locals
  <1>4. LevelOK' /\ DepthOK'
    BY <1>1, LocalsStay DEF LInv
  <1>5. CoreOK'
    BY <1>1, <1>2, LocalsStay DEF LInv, CoreOK
  <1>6. AccessIsProtected' /\ CountedOK' /\ SavedOK'
    BY <1>1, LocalsStay DEF LInv, AccessIsProtected, CountedOK, SavedOK, Guarded
  <1>7. EndingOK'
    BY <1>1, <1>2, LocalsStay DEF LInv, EndingOK, Ending
  <1>8. InsideOK'
    BY <1>1, <1>2, LocalsStay DEF LInv, InsideOK
  <1> QED  BY <1>3, <1>4, <1>5, <1>6, <1>7, <1>8 DEF LInv

LEMMA LoggerStep ==
    ASSUME LInv, [Next]_vars
    PROVE  LInv'
  <1>1. Running \in Contexts
    BY CoreFacts DEF LInv
  <1>2. CASE Step
    BY <1>1, <1>2, CallKeeps, MaskKeeps, UnmaskKeeps DEF Step
  <1>3. CASE \E h \in Handlers : Interrupt(h) \/ Return(h)
    BY <1>3, InterruptKeeps, ReturnKeeps
  <1>4. CASE \E t \in Threads : Switch(t)
    BY <1>4, SwitchKeeps
  <1>5. CASE UNCHANGED vars
    BY <1>5, StutterKeeps
  <1> QED  BY <1>2, <1>3, <1>4, <1>5 DEF Next

\* The state of every program, also with threads and NonMaskable handlers.
LEMMA LoggerInvariance == Spec => []LInv
  <1>1. Init => LInv
    BY LoggerInitially DEF SInv
  <1>2. LInv /\ [Next]_vars => LInv'
    BY LoggerStep
  <1> QED  BY <1>1, <1>2, PTL DEF Spec

\* The counter, the calls and the stack of handlers stay in their domains:
\* depth is never decremented below zero, which would wrap the AtomicUsize.
THEOREM LoggerTypes == Spec => []TypeOK
  <1>1. LInv => TypeOK
    BY DEF LInv
  <1> QED  BY <1>1, LoggerInvariance, PTL

\* "All mutable state access is protected by the critical section", with any
\* number of threads and handlers, maskable or not.
THEOREM ProtectedAccess == Spec => []AccessIsProtected
  <1>1. LInv => AccessIsProtected
    BY DEF LInv
  <1> QED  BY <1>1, LoggerInvariance, PTL

-----------------------------------------------------------------------------
(* Programs whose handlers can all be kept out *)

\* If depth counts more than this one call, it counts one of another context.
LEMMA AnotherIsCounted ==
    ASSUME LInv, NEW c \in Contexts, Counted(c), level[c] = 1, depth # 1
    PROVE  \E d \in Contexts \ {c} : Counted(d)
  <1> SUFFICES ASSUME \A d \in Contexts \ {c} : ~Counted(d) PROVE FALSE
    OBVIOUS
  <1>1. \A p \in Contexts \X (Nat \ {0}) : Counted(p[1]) /\ p[2] <= level[p[1]] <=> p = <<c, 1>>
    <2>1. SUFFICES ASSUME NEW p \in Contexts \X (Nat \ {0})
                   PROVE  Counted(p[1]) /\ p[2] <= level[p[1]] <=> p = <<c, 1>>
      OBVIOUS
    <2>2. p[1] \in Contexts /\ p[2] \in Nat \ {0} /\ p = <<p[1], p[2]>>
      OBVIOUS
    <2>3. CASE p[1] = c
      <3>1. p[2] <= level[c] <=> p[2] = 1
        BY <2>2
      <3> QED  BY <2>2, <2>3, <3>1
    <2>4. CASE p[1] # c
      BY <2>2, <2>4
    <2> QED  BY <2>3, <2>4
  <1>2. CountedCalls = {<<c, 1>>}
    BY <1>1 DEF CountedCalls
  <1> QED  BY <1>2, FS_Singleton DEF LInv, DepthOK

\* A call that gets the lock, or uses it, has no other call beside it.
LEMMA TakesAlone ==
    ASSUME LInv, NEW c \in Contexts, c = Running, Call(c), c \notin Owners, c \in Owners'
    PROVE  \A d \in Contexts : Counted(d) => d = c
  <1>1. pc[c] \in {"idle", "body", "flushed"} /\ pc'[c] \notin {"idle", "body", "flushed"}
    BY DEF Owners
  <1>2. \/ depth = 0
        \/ depth = 1 /\ pc[c] \in {"body", "flushed"}
    <2>1. depth \in Nat
      BY CallFacts
    <2>2. CASE Acquires(c)
      BY <1>1, <2>1, <2>2 DEF Acquires
    <2>3. CASE Enters(c) \/ Saves(c) \/ Returns(c) \/ Exits(c)
      BY <1>1, <2>3 DEF Enters, Saves, Returns, Exits
    <2>4. CASE Works(c) \/ Ends(c)
      BY <1>1, <2>4 DEF Works, Ends
    <2> QED  BY <2>2, <2>3, <2>4, CallFacts
  <1>3. CASE depth = 0
    BY <1>3, CallFacts
  <1>4. CASE depth = 1 /\ pc[c] \in {"body", "flushed"}
    <2>1. Counted(c)
      BY <1>4, CallFacts
    <2> QED  BY <1>4, <2>1, CallFacts
  <1> QED  BY <1>2, <1>3, <1>4

\* An owner is counted, or ends its frame.
LEMMA OwnerCounts ==
    ASSUME LInv, NEW d \in Owners
    PROVE  d \in Contexts /\ (Counted(d) \/ Protected(d))
  <1>1. d \in Contexts /\ pc[d] \notin {"idle", "body", "flushed"}
    BY DEF Owners
  <1>2. level[d] \in 0 .. Nesting /\ level[d] # 0
    BY <1>1 DEF LInv, TypeOK, LevelOK
  <1> QED  BY <1>1, <1>2 DEF Counted, Protected

LEMMA RunningStays ==
    ASSUME UNCHANGED <<current, stack>>
    PROVE  Running' = Running
  BY DEF Running

LEMMA CallKeepsOwner ==
    ASSUME LInv, OwnerRuns, InsideRuns, NEW c \in Contexts, c = Running, Call(c)
    PROVE  OwnerRuns' /\ InsideRuns'
  <1>1. Others(c) /\ inside' = inside
    BY CallFacts
  <1>2. Running' = Running
    BY <1>1, RunningStays DEF Others
  <1>3. ASSUME NEW d \in Contexts, Protected(d)' PROVE d = Running
    BY <1>1, <1>3, OthersStay DEF OwnerRuns
  <1> QED  BY <1>1, <1>2, <1>3 DEF OwnerRuns, InsideRuns

LEMMA CallKeepsDropped ==
    ASSUME LInv, OwnerRuns, CallsDropped, NEW c \in Contexts, c = Running, Call(c)
    PROVE  CallsDropped'
  <1>1. ASSUME NEW d \in Contexts, d # c, d \in Owners' PROVE d \in Owners
    BY <1>1, CallFacts, OthersStay DEF Owners
  <1>2. ASSUME NEW d \in Contexts, d # c, d \in Owners', c \in Owners' PROVE FALSE
    <2>1. d \in Owners
      BY <1>1, <1>2
    <2>2. c \notin Owners
      BY <1>2, <2>1 DEF CallsDropped
    <2>3. ~Counted(d)
      BY <1>2, <2>2, TakesAlone
    <2>4. ~Protected(d)
      BY <1>2 DEF OwnerRuns
    <2> QED  BY <2>1, <2>3, <2>4, OwnerCounts
  <1>3. ASSUME NEW d \in Owners', NEW e \in Owners' PROVE d = e
    <2>1. d \in Contexts /\ e \in Contexts
      BY <1>3 DEF Owners
    <2>2. CASE d = c \/ e = c
      BY <1>2, <1>3, <2>1, <2>2
    <2>3. CASE d # c /\ e # c
      BY <1>1, <1>3, <2>1, <2>3 DEF CallsDropped
    <2> QED  BY <2>2, <2>3
  <1> QED  BY <1>3 DEF CallsDropped

LEMMA CallKeepsAlone ==
    ASSUME LInv, Alone, NEW c \in Contexts, c = Running, Call(c)
    PROVE  Alone'
  <1>1. SUFFICES ASSUME NEW i \in 0 .. Top, At(i)' \in Owners', Unswitched(At(i))',
                        NEW d \in Contexts, Counted(d)'
                 PROVE  d \in Upper(i)
    BY CallFacts DEF Alone
  <1>2. At(i)' = At(i) /\ At(i) \in Contexts /\ c \in Upper(i)
    BY CallFacts
  <1>3. Unswitched(At(i))
    BY <1>1, <1>2, CallFacts DEF Unswitched, Others
  <1>4. CASE d = c
    BY <1>2, <1>4
  <1>5. CASE d # c
    <2>1. Counted(d)
      BY <1>1, <1>5, CallFacts, OthersStay
    <2>2. CASE At(i) \in Owners
      BY <1>3, <2>1, <2>2 DEF Alone
    <2>3. CASE At(i) \notin Owners
      <3> DEFINE e == At(i)
      <3>1. e \in Contexts /\ e \in Owners' /\ e \notin Owners
        BY <1>1, <1>2, <2>3
      <3> HIDE DEF e
      <3>2. e = c
        BY <3>1, CallFacts, OthersStay DEF Owners
      <3>3. d = c
        BY <2>1, <3>1, <3>2, TakesAlone
      <3> QED  BY <1>5, <3>3
    <2> QED  BY <2>2, <2>3
  <1> QED  BY <1>4, <1>5

LEMMA CallKeepsOut ==
    ASSUME LInv, KeptOut, NEW c \in Contexts, c = Running, Call(c)
    PROVE  KeptOut'
  <1>1. SUFFICES ASSUME NEW i \in 1 .. Top, NEW d \in Contexts \ Upper(i), Counted(d)'
                 PROVE  \E h \in Contexts \ Upper(i) : pc'[h] = "enter"
    BY CallFacts DEF KeptOut
  <1>2. c \in Upper(i)
    <2>1. i \in 0 .. Top
      BY CallFacts
    <2> QED  BY <2>1, CallFacts
  <1>3. Counted(d)
    BY <1>1, <1>2, CallFacts, OthersStay
  <1>4. PICK h \in Contexts \ Upper(i) : pc[h] = "enter"
    BY <1>3 DEF KeptOut
  <1>5. pc'[h] = pc[h]
    BY <1>2, <1>4, CallFacts, OthersStay
  <1> QED  BY <1>4, <1>5

LEMMA CallKeepsMask ==
    ASSUME LInv, Alone, MaskOK, NEW c \in Contexts, c = Running, Call(c)
    PROVE  MaskOK'
  <1>1. /\ Others(c) /\ inside' = inside /\ depth \in Nat /\ Running' = c
    BY CallFacts, RunningStays DEF Others
  <1>2. SUFFICES ASSUME masked', inside = {}, Unswitched(c)
                 PROVE  /\ pc'[c] \notin {"idle", "enter"}
                        /\ \A d \in Contexts : Counted(d)' => d = c
                        /\ IF pc'[c] = "save" THEN ~restore'[c] ELSE ~csState'
    <2>1. Unswitched(c)' <=> Unswitched(c)
      BY <1>1 DEF Unswitched, Others
    <2> QED  BY <1>1, <2>1 DEF MaskOK
  <1>3. ASSUME \A d \in Contexts : Counted(d) => d = c
        PROVE  \A d \in Contexts : Counted(d)' => d = c
    BY <1>1, <1>3, OthersStay
  <1>4. masked => /\ pc[c] \notin {"idle", "enter"}
                  /\ \A d \in Contexts : Counted(d) => d = c
                  /\ IF pc[c] = "save" THEN ~restore[c] ELSE ~csState
    BY <1>2 DEF MaskOK
  <1>5. CASE Enters(c)
    <2>1. ~masked
      BY <1>4, <1>5 DEF Enters
    <2>2. \A d \in Contexts : Counted(d) => d = c
      <3>1. At(Top) = c /\ Upper(Top) = {c} /\ Top \in 0 .. Top /\ c \in Owners
        BY <1>5, CallFacts DEF Enters, Owners
      <3> QED  BY <1>2, <3>1 DEF Alone
    <2> QED  BY <1>3, <1>5, <2>1, <2>2 DEF Enters
  <1>6. CASE Acquires(c)
    <2>1. masked /\ csState' = csState
      BY <1>2, <1>6 DEF Acquires
    <2>2. depth > 0
      BY <1>4, <1>6, <2>1, CallFacts DEF Acquires
    <2> QED  BY <1>3, <1>4, <1>6, <2>1, <2>2 DEF Acquires
  <1>7. CASE Saves(c)
    BY <1>2, <1>3, <1>4, <1>7 DEF Saves
  <1>8. CASE Works(c) \/ Ends(c)
    <2>1. /\ masked' = masked /\ csState' = csState /\ pc[c] # "save"
          /\ pc'[c] \notin {"idle", "enter", "save"}
      BY <1>8 DEF Works, Ends
    <2>2. ~csState /\ \A d \in Contexts : Counted(d) => d = c
      BY <1>2, <1>4, <2>1
    <2> QED  BY <1>3, <2>1, <2>2
  <1>9. CASE Returns(c)
    <2>1. masked /\ csState' = csState /\ Counted(c)
      BY <1>2, <1>9, CallFacts DEF Returns
    <2>2. level[c] > 1
      <3>1. level[c] # 1
        BY <1>4, <1>9, <2>1, AnotherIsCounted DEF Returns
      <3> QED  BY <2>1, <3>1 DEF Counted, LInv, TypeOK
    <2> QED  BY <1>3, <1>4, <1>9, <2>1, <2>2 DEF Returns
  <1>10. CASE Exits(c)
    <2>1. masked
      BY <1>10 DEF Exits, LInv, AccessIsProtected
    <2> QED  BY <1>2, <1>4, <1>10, <2>1 DEF Exits
  <1> QED  BY <1>5, <1>6, <1>7, <1>8, <1>9, <1>10, CallFacts

LEMMA CallKeepsM ==
    ASSUME LInv, MInv, NEW c \in Contexts, c = Running, Call(c)
    PROVE  MInv'
  BY CallKeepsOwner, CallKeepsDropped, CallKeepsAlone, CallKeepsOut, CallKeepsMask DEF MInv

\* A step of the core changes nothing of a call.
LEMMA OwnersStay ==
    ASSUME UNCHANGED <<shared, locals>>
    PROVE  Owners' = Owners /\ CallsDropped' = CallsDropped
  BY DEF locals, Owners, CallsDropped

\* A context's own critical section starts or ends, or nothing happens.
LEMMA PlaceKeepsM ==
    ASSUME LInv, MInv, UNCHANGED <<shared, locals>>, UNCHANGED <<system, current, stack>>,
           Mask(Running) \/ Unmask(Running) \/ UNCHANGED <<masked, inside>>
    PROVE  MInv'
  <1>1. /\ Top' = Top /\ (\A i : At(i)' = At(i)) /\ (\A i : Upper(i)' = Upper(i))
        /\ Running' = Running /\ \A d : Unswitched(d)' = Unswitched(d)
    BY StackStays, RunningStays DEF Unswitched
  <1>2. /\ \A d : Counted(d)' = Counted(d) /\ Protected(d)' = Protected(d)
        /\ pc' = pc /\ restore' = restore /\ csState' = csState
        /\ Owners' = Owners /\ CallsDropped' = CallsDropped
    BY LocalsStay, OwnersStay
  <1>3. OwnerRuns' /\ CallsDropped'
    BY <1>1, <1>2 DEF MInv, OwnerRuns
  <1>4. InsideRuns'
    <2>1. inside' \subseteq inside \cup {Running}
      BY DEF Mask, Unmask
    <2> QED  BY <1>1, <2>1 DEF MInv, InsideRuns
  <1>5. Alone'
    BY <1>1, <1>2 DEF MInv, Alone
  <1>6. KeptOut'
    BY <1>1, <1>2 DEF MInv, KeptOut
  <1>7. MaskOK'
    <2>1. CASE Mask(Running) \/ Unmask(Running)
      <3>1. ~masked' \/ inside' # {}
        BY <2>1 DEF Mask, Unmask
      <3> QED  BY <3>1 DEF MaskOK
    <2>2. CASE UNCHANGED <<masked, inside>>
      BY <1>1, <1>2, <2>2 DEF MInv, MaskOK
    <2> QED  BY <2>1, <2>2
  <1> QED  BY <1>3, <1>4, <1>5, <1>6, <1>7 DEF MInv

\* An interrupt that is taken finds the interrupts enabled.
LEMMA InterruptKeepsM ==
    ASSUME LInv, Maskable, MInv, NEW h \in Handlers, Interrupt(h)
    PROVE  MInv'
  <1>1. UNCHANGED <<shared, locals>> /\ UNCHANGED <<system, inside>> /\ ~masked /\ ~masked'
    BY DEF Interrupt, Maskable
  <1>2. /\ h \in Contexts /\ pc[h] = "idle" /\ ~Counted(h)
        /\ Top \in Nat /\ Top' = Top + 1
        /\ \A i \in 0 .. Top : At(i)' = At(i) /\ At(i) \in Contexts
        /\ \A i \in 0 .. Top : Upper(i)' = Upper(i) \cup {h}
        /\ \A i : i = Top + 1 => At(i)' = h /\ Upper(i)' = {h}
    BY InterruptFacts
  <1>3. /\ \A d : Counted(d)' = Counted(d) /\ Protected(d)' = Protected(d)
        /\ pc' = pc /\ Owners' = Owners /\ CallsDropped' = CallsDropped
    BY <1>1, LocalsStay, OwnersStay
  <1>4. /\ inside = {} /\ \A d \in Contexts : ~Protected(d)
        /\ \A d \in Contexts : Counted(d) => \E g \in Contexts : pc[g] = "enter"
    BY <1>1, UnmaskedFacts
  <1>5. OwnerRuns' /\ CallsDropped' /\ InsideRuns' /\ MaskOK'
    BY <1>1, <1>3, <1>4 DEF MInv, OwnerRuns, InsideRuns, MaskOK
  <1>6. Alone'
    <2>1. SUFFICES ASSUME NEW i \in 0 .. Top', At(i)' \in Owners', Unswitched(At(i))',
                          NEW d \in Contexts, Counted(d)'
                   PROVE  d \in Upper(i)'
      BY DEF Alone
    <2>2. i # Top + 1
      BY <1>2, <1>3, <2>1 DEF Owners
    <2>3. i \in 0 .. Top
      BY <1>2, <2>2
    <2>4. At(i) \in Owners /\ Unswitched(At(i)) /\ Counted(d)
      BY <1>1, <1>2, <1>3, <2>1, <2>3 DEF Unswitched
    <2>5. d \in Upper(i)
      BY <2>3, <2>4 DEF MInv, Alone
    <2> QED  BY <1>2, <2>3, <2>5
  <1>7. KeptOut'
    <2>1. SUFFICES ASSUME NEW i \in 1 .. Top', NEW d \in Contexts \ Upper(i)', Counted(d)'
                   PROVE  \E g \in Contexts \ Upper(i)' : pc'[g] = "enter"
      BY DEF KeptOut
    <2>2. CASE i = Top + 1
      <3>1. PICK g \in Contexts : pc[g] = "enter"
        BY <1>3, <1>4, <2>1
      <3>2. g # h /\ Upper(i)' = {h}
        BY <1>2, <2>2, <3>1
      <3> QED  BY <1>3, <3>1, <3>2
    <2>3. CASE i # Top + 1
      <3>1. i \in 1 .. Top /\ i \in 0 .. Top
        BY <1>2, <2>3
      <3>2. Upper(i)' = Upper(i) \cup {h}
        BY <1>2, <3>1
      <3>3. PICK g \in Contexts \ Upper(i) : pc[g] = "enter"
        BY <1>3, <2>1, <3>1, <3>2 DEF MInv, KeptOut
      <3>4. g # h
        BY <1>2, <3>3
      <3> QED  BY <1>3, <3>2, <3>3, <3>4
    <2> QED  BY <2>2, <2>3
  <1> QED  BY <1>5, <1>6, <1>7 DEF MInv

LEMMA ReturnKeepsM ==
    ASSUME LInv, MInv, NEW h \in Handlers, Return(h)
    PROVE  MInv'
  <1>1. UNCHANGED <<shared, locals>> /\ UNCHANGED <<system, masked, inside>> /\ h = Running
    BY DEF Return
  <1>2. /\ h \in Contexts /\ pc[h] = "idle" /\ h \notin inside
        /\ ~Protected(h) /\ ~Counted(h) /\ Top \in Nat /\ Top' = Top - 1
        /\ \A i \in 0 .. Top' : i \in 0 .. Top /\ At(i)' = At(i)
        /\ \A i \in 0 .. Top' : Upper(i) = Upper(i)' \cup {h}
    BY ReturnFacts
  <1>3. /\ \A d : Counted(d)' = Counted(d) /\ Protected(d)' = Protected(d)
        /\ pc' = pc /\ Owners' = Owners /\ CallsDropped' = CallsDropped
    BY <1>1, LocalsStay, OwnersStay
  <1>4. inside = {} /\ \A d \in Contexts : ~Protected(d)
    BY <1>1, <1>2 DEF MInv, InsideRuns, OwnerRuns
  <1>5. ~masked
    BY <1>1, <1>2, <1>4 DEF MInv, MaskOK, Unswitched
  <1>6. OwnerRuns' /\ CallsDropped' /\ InsideRuns' /\ MaskOK'
    BY <1>1, <1>3, <1>4, <1>5 DEF MInv, OwnerRuns, InsideRuns, MaskOK
  <1>7. Alone'
    <2>1. SUFFICES ASSUME NEW i \in 0 .. Top', At(i)' \in Owners', Unswitched(At(i))',
                          NEW d \in Contexts, Counted(d)'
                   PROVE  d \in Upper(i)'
      BY DEF Alone
    <2>2. i \in 0 .. Top /\ At(i) \in Owners /\ Unswitched(At(i)) /\ Counted(d)
      BY <1>1, <1>2, <1>3, <2>1 DEF Unswitched
    <2>3. d \in Upper(i) /\ d # h
      BY <1>2, <2>2 DEF MInv, Alone
    <2> QED  BY <1>2, <2>3
  <1>8. KeptOut'
    <2>1. SUFFICES ASSUME NEW i \in 1 .. Top', NEW d \in Contexts \ Upper(i)', Counted(d)'
                   PROVE  \E g \in Contexts \ Upper(i)' : pc'[g] = "enter"
      BY DEF KeptOut
    <2>2. i \in 0 .. Top' /\ i \in 1 .. Top
      BY <1>2
    <2>3. Upper(i) = Upper(i)' \cup {h} /\ Counted(d) /\ d # h
      BY <1>2, <1>3, <2>1, <2>2
    <2>4. PICK g \in Contexts \ Upper(i) : pc[g] = "enter"
      BY <2>1, <2>2, <2>3 DEF MInv, KeptOut
    <2> QED  BY <1>3, <2>3, <2>4
  <1> QED  BY <1>6, <1>7, <1>8 DEF MInv

\* Threads are switched only where there are two of them.
LEMMA SwitchKeepsM ==
    ASSUME LInv, MInv, NEW t \in Threads, Switch(t)
    PROVE  MInv'
  <1>1. /\ UNCHANGED <<shared, locals>> /\ UNCHANGED <<system, masked, stack, inside>>
        /\ stack = <<>> /\ ~masked /\ t \in system /\ t # current /\ current' = t
    BY DEF Switch
  <1>2. /\ \A d : Counted(d)' = Counted(d) /\ Protected(d)' = Protected(d)
        /\ pc' = pc /\ Owners' = Owners /\ CallsDropped' = CallsDropped
    BY <1>1, LocalsStay, OwnersStay
  <1>3. inside = {} /\ \A d \in Contexts : ~Protected(d)
    BY <1>1, UnmaskedFacts
  <1>4. OwnerRuns' /\ CallsDropped' /\ InsideRuns' /\ MaskOK'
    BY <1>1, <1>2, <1>3 DEF MInv, OwnerRuns, InsideRuns, MaskOK
  <1>5. Top = 0 /\ Top' = 0 /\ At(0) = current /\ At(0)' = t
    <2>1. Top = 0 /\ Top' = 0
      BY <1>1, CoreFacts DEF LInv, Top
    <2> QED  BY <1>1, <2>1 DEF At
  <1>6. ~Unswitched(t)'
    <2>1. current \in system /\ current \in Threads
      BY <1>5 DEF LInv, CoreOK, TypeOK
    <2>2. t \notin Handlers
      BY LoggerAssumption
    <2> QED  BY <1>1, <2>1, <2>2 DEF Unswitched
  <1>7. Alone'
    <2>1. \A i \in 0 .. Top' : At(i)' = t
      BY <1>5
    <2>2. \A i \in 0 .. Top' : ~Unswitched(At(i))'
      BY <1>6, <2>1 DEF Unswitched
    <2> QED  BY <2>2 DEF Alone
  <1>8. KeptOut'
    BY <1>5 DEF KeptOut
  <1> QED  BY <1>4, <1>7, <1>8 DEF MInv

LEMMA MaskableStep ==
    ASSUME LInv, Maskable, MInv, [Next]_vars
    PROVE  MInv'
  <1>1. Running \in Contexts
    BY CoreFacts DEF LInv
  <1>2. CASE Call(Running)
    BY <1>1, <1>2, CallKeepsM
  <1>3. CASE Mask(Running) \/ Unmask(Running)
    <2>1. UNCHANGED <<shared, locals>> /\ UNCHANGED <<system, current, stack>>
      BY <1>3 DEF Mask, Unmask
    <2> QED  BY <1>3, <2>1, PlaceKeepsM
  <1>4. CASE \E h \in Handlers : Interrupt(h) \/ Return(h)
    BY <1>4, InterruptKeepsM, ReturnKeepsM
  <1>5. CASE \E t \in Threads : Switch(t)
    BY <1>5, SwitchKeepsM
  <1>6. CASE UNCHANGED vars
    <2>1. /\ UNCHANGED <<shared, locals>> /\ UNCHANGED <<system, current, stack>>
          /\ UNCHANGED <<masked, inside>>
      BY <1>6 DEF vars, core
    <2> QED  BY <2>1, PlaceKeepsM
  <1> QED  BY <1>2, <1>3, <1>4, <1>5, <1>6 DEF Next, Step

LEMMA SystemStays ==
    ASSUME LInv, [Next]_vars
    PROVE  system' = system
  <1>1. Running \in Contexts
    BY CoreFacts DEF LInv
  <1>2. CASE Call(Running)
    BY <1>1, <1>2, CallLeavesOthers DEF LInv, Others
  <1>3. CASE ~Call(Running)
    BY <1>3 DEF Next, Step, Mask, Unmask, Interrupt, Return, Switch, vars, core
  <1> QED  BY <1>2, <1>3

LEMMA MaskableInvariance == Spec => []SInv
  <1>1. SInv /\ [Next]_vars => SInv'
    <2> SUFFICES ASSUME SInv, [Next]_vars PROVE SInv'
      OBVIOUS
    <2>1. LInv /\ LInv'
      BY LoggerStep DEF SInv
    <2>2. Maskable' = Maskable
      BY <2>1, SystemStays DEF Maskable
    <2> QED  BY <2>1, <2>2, MaskableStep DEF SInv
  <1> QED  BY <1>1, LoggerInitially, PTL DEF Spec

\* "Reentrant calls ... are detected and dropped": where every handler is one
\* that a critical section keeps out, no two calls work on the encoder, the
\* producer and RTT, whatever the threads, the priorities and the messages.
THEOREM ReentrantDropped == Spec => []ReentrantCallsDropped
  <1>1. SInv => ReentrantCallsDropped
    BY DEF SInv, MInv, ReentrantCallsDropped
  <1> QED  BY <1>1, MaskableInvariance, PTL

\* A message of such a handler, or of the only thread, is dropped in one case
\* only: it comes between fetch_add of another call and the start of its
\* critical section.
THEOREM DropWindow == Spec => []DroppedOnlyBeforeMask
  <1>1. ASSUME SInv PROVE DroppedOnlyBeforeMask
    <2>1. SUFFICES ASSUME Maskable, NEW c \in Contexts, Unswitched(c),
                          pc[c] = "body", level[c] = 1, depth > 1
                   PROVE  \E d \in Contexts \ {c} : pc[d] = "enter"
      BY DEF DroppedOnlyBeforeMask
    <2>2. LInv /\ KeptOut /\ Counted(c) /\ depth # 1
      BY <1>1, <2>1 DEF SInv, MInv, Counted
    <2>3. PICK d \in Contexts \ {c} : Counted(d)
      BY <2>1, <2>2, AnotherIsCounted
    <2>4. /\ Top \in Nat /\ 0 \in 0 .. Top /\ At(0) = current /\ current \in Threads
          /\ current \in system
      <3>1. Top \in Nat
        BY <2>2, CoreFacts DEF LInv
      <3>2. 0 \in 0 .. Top /\ At(0) = current
        BY <3>1 DEF At
      <3> QED  BY <2>2, <3>1, <3>2 DEF LInv, CoreOK, TypeOK
    <2>5. ASSUME NEW e \in Contexts, Counted(e), NEW i \in 1 .. Top, e \notin Upper(i)
          PROVE  \E h \in Contexts : pc[h] = "enter"
      BY <2>2, <2>5 DEF KeptOut
    <2>6. \A e \in Contexts : Counted(e) => pc[e] # "idle"
      BY <2>2 DEF Counted, LInv, LevelOK
    <2>7. PICK k \in 0 .. Top : At(k) = c
      <3>1. CASE c \in Handlers
        <4>1. c \in Upper(0)
          BY <2>1, <2>2, <3>1 DEF LInv, CoreOK
        <4> QED  BY <4>1 DEF Upper
      <3>2. CASE c \notin Handlers
        <4>1. current = c
          BY <2>1, <2>4, <3>2 DEF Unswitched
        <4> QED  BY <2>4, <4>1
      <3> QED  BY <3>1, <3>2
    <2>8. CASE d \notin Upper(k)
      <3>1. k # 0
        <4> SUFFICES ASSUME k = 0 PROVE FALSE
          OBVIOUS
        <4>1. d \notin Handlers /\ d \in system
          BY <2>2, <2>3, <2>6, <2>8 DEF LInv, CoreOK
        <4>2. c = current /\ c \notin Handlers
          BY <2>4, <2>7, LoggerAssumption
        <4> QED  BY <2>1, <2>3, <4>1, <4>2 DEF Unswitched, Contexts
      <3>2. k \in 1 .. Top
        BY <2>4, <3>1
      <3>3. \E h \in Contexts : pc[h] = "enter"
        BY <2>3, <2>5, <2>8, <3>2
      <3> QED  BY <2>1, <3>3
    <2>9. CASE d \in Upper(k)
      <3>1. PICK j \in k .. Top : At(j) = d
        BY <2>9 DEF Upper
      <3>2. j # k /\ k \in Nat
        BY <2>3, <2>7, <3>1
      <3>3. j \in 1 .. Top /\ \A i \in j .. Top : i \in 0 .. Top /\ i # k
        BY <2>4, <3>1, <3>2
      <3>4. c \notin Upper(j)
        BY <2>2, <2>7, <3>3 DEF Upper, LInv, CoreOK
      <3>5. \E h \in Contexts : pc[h] = "enter"
        BY <2>1, <2>2, <2>5, <3>3, <3>4
      <3> QED  BY <2>1, <3>5
    <2> QED  BY <2>8, <2>9
  <1> QED  BY <1>1, MaskableInvariance, PTL

\* The critical section is left as it was found: a handler, or the only
\* thread, that runs outside the calls that got the lock has the interrupts
\* masked exactly if it masked them itself, also on top of interrupted calls.
THEOREM MaskPutBack == Spec => []MaskRestored
  <1>1. ASSUME SInv PROVE MaskRestored
    <2>1. SUFFICES ASSUME Maskable, Unswitched(Running), pc[Running] \in {"idle", "enter"}
                   PROVE  inside = IF masked THEN {Running} ELSE {}
      BY DEF MaskRestored
    <2>2. InsideRuns /\ MaskOK /\ (inside # {} => masked)
      BY <1>1, <2>1 DEF SInv, MInv, LInv, InsideOK
    <2>3. masked => inside # {}
      BY <2>1, <2>2 DEF MaskOK
    <2> QED  BY <2>2, <2>3 DEF InsideRuns
  <1> QED  BY <1>1, MaskableInvariance, PTL

-----------------------------------------------------------------------------
(* Whole frames *)

\* The frame under way. `out` ends with a whole frame,
Last == out[Len(out)]
Closed == out = <<>> \/ Last[2] = FrameEnd

\* or with what c has written of its own: all but the writes that are left.
Written(c) ==
    /\ out # <<>> /\ Last[1] = c
    /\ left[c] > 0 => Last[2] = Writes - left[c]
    /\ left[c] = 0 => Last[2] \in {FrameStart, Writes}

\* c is the only context with a call that is counted.
Sole(c) == Counted(c) /\ \A d \in Contexts : Counted(d) => d = c

\* An owner is before, in or after its frame; who finds depth at 1 is in its
\* own, and would not be if a thread that is switched away from were counted.
InFrame(c) ==
    /\ pc[c] \in {"enter", "save", "start", "exit"} => Closed
    /\ pc[c] \in {"emit", "flush", "end"} => Written(c)
    /\ pc[c] \in {"body", "flushed"} /\ c = Running /\ Sole(c) => Written(c)

FrameOK ==
    /\ \A c \in Contexts : InFrame(c)
    /\ (\A c \in Contexts : ~Counted(c) /\ pc[c] # "end") => Closed

\* A call starts with all its writes left, and ends with none.
LeftOK ==
    \A c \in Contexts :
        /\ pc[c] \in {"enter", "save", "start"} => left[c] \in {0, Writes}
        /\ pc[c] \in {"flush", "flushed", "end"} => left[c] = 0

Shape ==
    /\ Len(out) = 1 => out[1][2] = FrameStart
    /\ Len(out) = 2 => Follows(out[2], out[1])

\* Only the start of a frame, a write and the end of the frame reach out.
LEMMA OutStays ==
    ASSUME NEW c \in Contexts, Call(c), pc[c] \notin {"start", "emit", "end"}
    PROVE  out' = out
  <1> USE DEF shared
  <1>1. CASE Acquire(c)
    BY <1>1 DEF Acquire, Begin
  <1>2. CASE EnterCS(c) \/ SaveState(c)
    BY <1>2 DEF EnterCS, SaveState
  <1>3. CASE SkipWrite(c) \/ CheckDepth(c)
    BY <1>3 DEF SkipWrite, CheckDepth
  <1>4. CASE BeginFlush(c) \/ EndFlush(c)
    BY <1>4 DEF BeginFlush, EndFlush
  <1>5. CASE Release(c)
    BY <1>5 DEF Release
  <1>6. CASE ExitCS(c)
    BY <1>6 DEF ExitCS, Exit
  <1>7. ~StartFrame(c) /\ ~EmitData(c) /\ ~EndFrame(c)
    BY DEF StartFrame, EmitData, EndFrame
  <1> QED  BY <1>1, <1>2, <1>3, <1>4, <1>5, <1>6, <1>7 DEF Call, Proceed

\* What is kept of the outputs when the encoder adds one.
LEMMA Encoded ==
    ASSUME TypeOK, NEW c \in Contexts, NEW part \in FrameStart .. FrameEnd, Encode(c, part)
    PROVE  /\ out' # <<>> /\ Last' = <<c, part>>
           /\ out = <<>> => Len(out') = 1
           /\ out # <<>> => Len(out') = 2 /\ out'[1] = Last /\ out'[2] = <<c, part>>
  <1> DEFINE S == Contexts \X (FrameStart .. FrameEnd)
             last == <<c, part>>
  <1>1. out \in Seq(S) /\ last \in S
    BY DEF TypeOK
  <1>2. out = <<>> => out' = <<last>>
    <2> HIDE DEF last
    <2>1. <<>> \o <<last>> = <<last>>
      OBVIOUS
    <2> QED  BY <2>1 DEF Encode, last
  <1>3. out # <<>> => out' = <<Last>> \o <<last>> /\ Last \in S
    <2>1. out # <<>> => Last \in S
      BY <1>1, EmptySeq, ElementOfSeq DEF Last
    <2> QED  BY <2>1 DEF Encode, Last
  <1> HIDE DEF S, last
  <1>4. CASE out = <<>>
    <2>1. out' = <<last>>
      BY <1>2, <1>4
    <2>2. Len(out') = 1 /\ out'[1] = last /\ out' # <<>>
      BY <2>1
    <2> QED  BY <1>4, <2>2 DEF Last, last
  <1>5. CASE out # <<>>
    <2>1. out' = <<Last>> \o <<last>> /\ <<Last>> \in Seq(S) /\ <<last>> \in Seq(S)
      BY <1>1, <1>3, <1>5
    <2>2. Len(out') = 2 /\ out'[1] = Last /\ out'[2] = last /\ out' # <<>>
      <3> HIDE DEF S
      <3> QED  BY <2>1, ConcatProperties
    <2>3. Last' = out'[Len(out')]
      BY DEF Last
    <2> QED  BY <1>5, <2>2, <2>3 DEF last
  <1> QED  BY <1>4, <1>5

LEMMA CallKeepsLeft ==
    ASSUME TypeOK, LevelOK, DepthOK, LeftOK, NEW c \in Contexts, Call(c)
    PROVE  LeftOK'
  <1> USE DEF Goto, Leave, Encode, LeftOK
  <1>1. /\ Writes \in Nat \ {0}
        /\ pc \in [Contexts -> {"idle", "enter", "save", "start", "body", "emit",
                               "flush", "flushed", "end", "exit"}]
        /\ left \in [Contexts -> 0 .. Writes] /\ level \in [Contexts -> 0 .. Nesting]
    BY LoggerAssumption DEF TypeOK
  <1>2. \A d \in Contexts : d # c => pc'[d] = pc[d] /\ left'[d] = left[d]
    BY CallLeavesOthers DEF Others
  <1>3. SUFFICES /\ pc'[c] \in {"enter", "save", "start"} => left'[c] \in {0, Writes}
                 /\ pc'[c] \in {"flush", "flushed", "end"} => left'[c] = 0
    BY <1>2
  <1>4. CASE Acquire(c)
    <2>1. pc'[c] = "body" \/ (pc'[c] = "enter" /\ ~(depth > 0))
      BY <1>1, <1>4 DEF Acquire
    <2>2. pc'[c] = "enter" => level[c] = 0
      <3>1. level[c] >= 1 /\ pc[c] = "body" => depth > 0
        BY DepthFacts DEF Counted
      <3> QED  BY <1>4, <2>1, <3>1 DEF Acquire, Begin
    <2>3. level[c] = 0 => left'[c] \in {0, Writes}
      BY <1>1, <1>4 DEF Acquire, Begin
    <2> QED  BY <2>1, <2>2, <2>3
  <1>5. CASE EnterCS(c) \/ SaveState(c) \/ EndFlush(c) \/ EndFrame(c)
    BY <1>1, <1>5 DEF EnterCS, SaveState, EndFlush, EndFrame
  <1>6. CASE StartFrame(c) \/ SkipWrite(c) \/ CheckDepth(c) \/ EmitData(c)
    <2>1. pc'[c] \in {"body", "emit"}
      BY <1>1, <1>6 DEF StartFrame, SkipWrite, CheckDepth, EmitData
    <2> QED  BY <2>1
  <1>7. CASE BeginFlush(c)
    BY <1>1, <1>7 DEF BeginFlush
  <1>8. CASE ExitCS(c)
    BY <1>1, <1>8 DEF ExitCS, Exit
  <1>9. CASE Release(c)
    <2>1. CASE depth = 1
      <3>1. ~(level[c] > 1)
        <4>1. level[c] > 1 => Counted(c)
          BY LoggerAssumption DEF TypeOK, LevelOK, Counted
        <4> QED  BY <2>1, <4>1, DepthFacts
      <3>2. pc'[c] = "end" /\ left'[c] = left[c] /\ left[c] = 0
        BY <1>1, <1>9, <2>1, <3>1 DEF Release
      <3> QED  BY <3>2
    <2>2. CASE depth # 1
      BY <1>1, <1>9, <2>2 DEF Release
    <2> QED  BY <2>1, <2>2
  <1> QED  BY <1>4, <1>5, <1>6, <1>7, <1>8, <1>9 DEF Call, Proceed

\* What the step of a call is at some of its places.
LEMMA StepAt ==
    ASSUME LevelOK, NEW c \in Contexts, Call(c)
    PROVE  /\ pc[c] = "start" => StartFrame(c)
           /\ pc[c] = "emit" => EmitData(c)
           /\ pc[c] = "end" => EndFrame(c)
           /\ pc[c] = "body" => \/ Acquire(c) \/ SkipWrite(c) \/ CheckDepth(c)
                                \/ BeginFlush(c) \/ Release(c)
           /\ pc[c] = "save" => SaveState(c)
           /\ pc[c] = "flush" => EndFlush(c)
           /\ pc[c] = "flushed" => Release(c)
           /\ pc[c] = "exit" => ExitCS(c)
  <1>1. Acquire(c) => pc[c] \in {"idle", "body"}
    BY DEF Acquire, Begin, LevelOK
  <1>2. /\ EnterCS(c) => pc[c] = "enter"
        /\ SaveState(c) => pc[c] = "save"
        /\ StartFrame(c) => pc[c] = "start"
        /\ SkipWrite(c) \/ CheckDepth(c) \/ BeginFlush(c) => pc[c] = "body"
        /\ EmitData(c) => pc[c] = "emit"
        /\ EndFlush(c) => pc[c] = "flush"
        /\ Release(c) => pc[c] \in {"body", "flushed"}
        /\ EndFrame(c) => pc[c] = "end"
        /\ ExitCS(c) => pc[c] = "exit"
    BY DEF EnterCS, SaveState, StartFrame, SkipWrite, CheckDepth, BeginFlush, EmitData,
           EndFlush, Release, EndFrame, ExitCS, Exit
  <1> QED  BY <1>1, <1>2 DEF Call, Proceed

\* The owner of the lock takes the frame one step further.
LEMMA OwnerWrites ==
    ASSUME LInv, LeftOK, Shape, NEW c \in Contexts, InFrame(c), Call(c),
           pc[c] \in {"start", "emit", "end"}
    PROVE  /\ Shape' /\ pc'[c] \in {"body", "exit"}
           /\ pc'[c] = "body" => Written(c)'
           /\ pc'[c] = "exit" => Closed'
  <1>1. /\ TypeOK /\ LevelOK /\ Writes \in Nat \ {0}
        /\ FrameStart = 0 /\ FrameEnd = Writes + 1
        /\ pc \in [Contexts -> {"idle", "enter", "save", "start", "body", "emit",
                               "flush", "flushed", "end", "exit"}]
        /\ left \in [Contexts -> 0 .. Writes]
    BY LoggerAssumption DEF LInv, TypeOK, FrameStart, FrameEnd
  <1>2. ASSUME NEW part \in FrameStart .. FrameEnd, Encode(c, part),
               out = <<>> => part = FrameStart,
               out # <<>> => Follows(<<c, part>>, Last)
        PROVE  Shape' /\ out' # <<>> /\ Last' = <<c, part>>
    <2>1. /\ out' # <<>> /\ Last' = <<c, part>>
          /\ out = <<>> => Len(out') = 1
          /\ out # <<>> => Len(out') = 2 /\ out'[1] = Last /\ out'[2] = <<c, part>>
      BY <1>1, <1>2, Encoded
    <2>2. CASE out = <<>>
      <3>1. Len(out') = 1 /\ out'[1] = <<c, FrameStart>>
        BY <1>2, <2>1, <2>2 DEF Last
      <3> QED  BY <2>1, <3>1 DEF Shape
    <2>3. CASE out # <<>>
      <3>1. Len(out') = 2 /\ Follows(out'[2], out'[1])
        BY <1>2, <2>1, <2>3
      <3> QED  BY <2>1, <3>1 DEF Shape
    <2> QED  BY <2>2, <2>3
  <1>3. CASE pc[c] = "start"
    <2>1. StartFrame(c)
      BY <1>1, <1>3, StepAt
    <2>2. Encode(c, FrameStart) /\ pc'[c] = "body" /\ left' = left
      BY <1>1, <2>1 DEF StartFrame, Goto
    <2>3. Closed /\ left[c] \in {0, Writes}
      BY <1>3 DEF InFrame, LeftOK
    <2>4. out # <<>> => Follows(<<c, FrameStart>>, Last)
      BY <2>3 DEF Closed, Follows
    <2>5. FrameStart \in FrameStart .. FrameEnd
      BY <1>1
    <2>6. Shape' /\ out' # <<>> /\ Last' = <<c, FrameStart>>
      BY <1>2, <2>2, <2>4, <2>5
    <2>7. Written(c)'
      <3>1. left'[c] > 0 => FrameStart = Writes - left'[c]
        BY <1>1, <2>2, <2>3
      <3> QED  BY <2>6, <3>1 DEF Written
    <2> QED  BY <2>2, <2>6, <2>7
  <1>4. CASE pc[c] = "emit"
    <2>1. EmitData(c) /\ Written(c) /\ left[c] > 0
      BY <1>1, <1>4, StepAt DEF InFrame, LevelOK
    <2>2. Encode(c, FrameEnd - left[c]) /\ pc'[c] = "body" /\ left'[c] = left[c] - 1
      BY <1>1, <2>1 DEF EmitData, Goto
    <2>3. left[c] \in 1 .. Writes
      BY <1>1, <2>1
    <2>4. PICK part : part = FrameEnd - left[c]
      OBVIOUS
    <2>5. /\ part \in FrameStart .. FrameEnd /\ part # FrameStart
          /\ part - 1 = Writes - left[c] /\ part = Writes - left'[c]
      BY <1>1, <2>2, <2>3, <2>4
    <2>6. out # <<>> /\ Last[1] = c /\ Last[2] = part - 1
      BY <2>1, <2>5 DEF Written
    <2>7. Shape' /\ out' # <<>> /\ Last' = <<c, part>>
      <3>1. Follows(<<c, part>>, Last)
        BY <2>5, <2>6 DEF Follows
      <3> QED  BY <1>2, <2>2, <2>4, <2>5, <2>6, <3>1
    <2>8. Written(c)'
      <3>1. left'[c] = 0 => part = Writes
        BY <1>1, <2>5
      <3> QED  BY <2>5, <2>7, <3>1 DEF Written
    <2> QED  BY <2>2, <2>7, <2>8
  <1>5. CASE pc[c] = "end"
    <2>1. EndFrame(c) /\ Written(c) /\ left[c] = 0
      BY <1>1, <1>5, StepAt DEF InFrame, LeftOK
    <2>2. Encode(c, FrameEnd) /\ pc'[c] = "exit"
      BY <1>1, <2>1 DEF EndFrame, Goto
    <2>3. out # <<>> /\ Last[1] = c /\ Last[2] \in {FrameStart, Writes}
      BY <2>1 DEF Written
    <2>4. FrameEnd \in FrameStart .. FrameEnd /\ FrameEnd # FrameStart /\ FrameEnd - 1 = Writes
      BY <1>1
    <2>5. Follows(<<c, FrameEnd>>, Last)
      BY <2>3, <2>4 DEF Follows
    <2>6. Shape' /\ out' # <<>> /\ Last' = <<c, FrameEnd>>
      BY <1>2, <2>2, <2>3, <2>4, <2>5
    <2> QED  BY <2>2, <2>6 DEF Closed
  <1> QED  BY <1>3, <1>4, <1>5

\* Any other step of the running context, which reaches no output, leaves its
\* frame as it is; the lock is taken between frames.
LEMMA RunnerStep ==
    ASSUME LInv, OwnerRuns, LeftOK, FrameOK, NEW c \in Contexts, c = Running, Call(c),
           pc[c] \notin {"start", "emit", "end"}, out' = out
    PROVE  InFrame(c)'
  <1> USE DEF Goto, Leave, shared
  <1>1. /\ TypeOK /\ LevelOK /\ InFrame(c) /\ Others(c)
        /\ pc \in [Contexts -> {"idle", "enter", "save", "start", "body", "emit",
                               "flush", "flushed", "end", "exit"}]
        /\ left \in [Contexts -> 0 .. Writes] /\ level \in [Contexts -> 0 .. Nesting]
    BY CallFacts DEF LInv, TypeOK, FrameOK
  <1>2. /\ Closed' <=> Closed
        /\ left'[c] = left[c] => (Written(c)' <=> Written(c))
    BY DEF Closed, Last, Written
  <1>3. \A d \in Contexts : d # c => (Counted(d)' <=> Counted(d))
    BY <1>1, OthersStay
  <1>4. Sole(c)' /\ Counted(c) => Sole(c)
    BY <1>3 DEF Sole
  <1>5. ASSUME NEW d \in Contexts \ {c}, Counted(d) PROVE ~Sole(c)'
    BY <1>3, <1>5 DEF Sole
  <1>6. depth = 1 /\ Counted(c) => Sole(c)
    BY CallFacts DEF Sole
  <1>7. Counted(c) /\ level[c] = 1 /\ depth # 1 => ~Sole(c)'
    BY <1>5, AnotherIsCounted
  <1>8. pc[c] \in {"body", "flushed"} => Counted(c) /\ level[c] \in Nat \ {0}
    BY <1>1 DEF Counted, LevelOK
  <1>9. pc[c] \in {"body", "flushed"} /\ Sole(c) => Written(c)
    BY <1>1 DEF InFrame
  <1>10. CASE pc[c] = "idle"
    <2>1. Acquires(c) /\ ~Counted(c)
      <3>1. Acquires(c)
        BY <1>10, CallFacts DEF Enters, Saves, Works, Ends, Returns, Exits
      <3>2. ~Counted(c)
        BY <1>1, <1>10 DEF LevelOK, Counted
      <3> QED  BY <3>1, <3>2
    <2>2. CASE depth > 0
      <3>1. PICK d \in Contexts : Counted(d)
        BY <2>2, CallFacts
      <3>2. ~Sole(c)'
        BY <1>5, <2>1, <3>1
      <3> QED  BY <2>1, <2>2, <3>2 DEF Acquires, InFrame
    <2>3. CASE ~(depth > 0)
      <3>1. \A d \in Contexts : ~Counted(d) /\ pc[d] # "end"
        <4>1. \A d \in Contexts : ~Counted(d)
          BY <2>3, CallFacts
        <4>2. \A d \in Contexts : pc[d] # "end"
          BY <1>10 DEF OwnerRuns, Protected
        <4> QED  BY <4>1, <4>2
      <3>2. Closed
        BY <3>1 DEF FrameOK
      <3> QED  BY <1>2, <2>1, <2>3, <3>2 DEF Acquires, InFrame
    <2> QED  BY <2>2, <2>3
  <1>11. CASE pc[c] = "body"
    <2>1. CASE Acquire(c)
      <3>1. level[c] # 0 /\ depth > 0
        BY <1>1, <1>8, <1>11, <2>1, CallFacts DEF Acquire, Begin, LevelOK
      <3>2. left'[c] = left[c] /\ pc'[c] = "body"
        BY <1>1, <2>1, <3>1 DEF Acquire, Begin
      <3> QED  BY <1>2, <1>4, <1>8, <1>9, <1>11, <3>2 DEF InFrame
    <2>2. CASE SkipWrite(c)
      <3>1. pc'[c] = "body" /\ ~Sole(c)'
        BY <1>1, <1>7, <1>8, <1>11, <2>2 DEF SkipWrite
      <3> QED  BY <3>1 DEF InFrame
    <2>3. CASE CheckDepth(c) \/ BeginFlush(c)
      <3>1. depth = 1 /\ left'[c] = left[c] /\ pc'[c] \in {"emit", "flush"}
        BY <1>1, <2>3 DEF CheckDepth, BeginFlush
      <3> QED  BY <1>2, <1>6, <1>8, <1>9, <1>11, <3>1 DEF InFrame
    <2>4. CASE Release(c) /\ depth = 1
      <3>1. left'[c] = left[c] /\ pc'[c] = "end"
        BY <1>1, <2>4 DEF Release
      <3> QED  BY <1>2, <1>6, <1>8, <1>9, <1>11, <2>4, <3>1 DEF InFrame
    <2>5. CASE Release(c) /\ depth # 1
      <3>1. left'[c] = left[c] /\ pc'[c] \in {"idle", "body"}
        BY <1>1, <2>5 DEF Release
      <3> QED  BY <1>2, <1>4, <1>8, <1>9, <1>11, <3>1 DEF InFrame
    <2> QED  BY <1>1, <1>11, <2>1, <2>2, <2>3, <2>4, <2>5, StepAt
  <1>12. CASE pc[c] = "flush"
    <2>1. EndFlush(c) /\ Written(c)
      BY <1>1, <1>12, StepAt DEF InFrame
    <2>2. left'[c] = left[c] /\ pc'[c] = "flushed"
      BY <1>1, <2>1 DEF EndFlush
    <2> QED  BY <1>2, <2>1, <2>2 DEF InFrame
  <1>13. CASE pc[c] = "flushed"
    <2>1. Release(c) /\ ~(level[c] > 1)
      BY <1>1, <1>13, StepAt DEF LevelOK
    <2>2. CASE depth = 1
      <3>1. left'[c] = left[c] /\ pc'[c] = "end"
        BY <1>1, <2>1, <2>2 DEF Release
      <3> QED  BY <1>2, <1>6, <1>8, <1>9, <1>13, <2>2, <3>1 DEF InFrame
    <2>3. CASE depth # 1
      <3>1. pc'[c] = "idle"
        BY <1>1, <2>1, <2>3 DEF Release
      <3> QED  BY <3>1 DEF InFrame
    <2> QED  BY <2>2, <2>3
  <1>14. CASE pc[c] \in {"enter", "save", "exit"}
    <2>1. Closed
      BY <1>1, <1>14 DEF InFrame
    <2>2. pc'[c] \in {"save", "start", "idle"}
      BY <1>14, CallFacts DEF Acquires, Enters, Saves, Works, Ends, Returns, Exits
    <2> QED  BY <1>2, <2>1, <2>2 DEF InFrame
  <1> QED  BY <1>1, <1>10, <1>11, <1>12, <1>13, <1>14

LEMMA CallKeepsFrame ==
    ASSUME LInv, MInv, LeftOK, Shape, FrameOK, NEW c \in Contexts, c = Running, Call(c)
    PROVE  Shape' /\ FrameOK'
  <1>1. /\ Others(c) /\ Running' = c /\ InFrame(c) /\ OwnerRuns
        /\ \A d \in Contexts : d # c => pc'[d] = pc[d] /\ left'[d] = left[d]
    BY CallFacts, RunningStays DEF Others, FrameOK, MInv
  <1>2. ASSUME pc[c] \in {"start", "emit", "end"}
        PROVE  Shape' /\ InFrame(c)'
    <2>1. /\ Shape' /\ pc'[c] \in {"body", "exit"}
          /\ pc'[c] = "body" => Written(c)'
          /\ pc'[c] = "exit" => Closed'
      BY <1>1, <1>2, OwnerWrites
    <2> QED  BY <2>1 DEF InFrame
  <1>3. pc[c] \notin {"start", "emit", "end"} => out' = out
    BY OutStays
  <1>4. ASSUME out' = out PROVE Shape' /\ (Closed' <=> Closed)
    BY <1>4 DEF Shape, Closed, Last
  <1>5. ASSUME NEW d \in Contexts, d # c PROVE InFrame(d)'
    <2>1. CASE d \in Owners
      <3>1. out' = out
        BY <1>3, <1>5, <2>1 DEF MInv, CallsDropped, Owners
      <3>2. (Closed' <=> Closed) /\ (Written(d)' <=> Written(d))
        BY <1>1, <1>5, <3>1 DEF Closed, Written, Last
      <3>3. InFrame(d)
        BY DEF FrameOK
      <3> QED  BY <1>1, <1>5, <3>2, <3>3 DEF InFrame
    <2>2. CASE d \notin Owners
      BY <1>1, <1>5, <2>2 DEF InFrame, Owners
    <2> QED  BY <2>1, <2>2
  <1>6. Shape' /\ InFrame(c)'
    BY <1>1, <1>2, <1>3, <1>4, RunnerStep
  <1>7. ASSUME \A d \in Contexts : ~Counted(d)' /\ pc'[d] # "end"
        PROVE  Closed'
    <2>1. ~Counted(c)' /\ pc'[c] # "end"
      BY <1>7
    <2>2. pc'[c] \in {"idle", "exit"}
      <3>1. LevelOK' /\ TypeOK'
        BY CallKeeps DEF LInv
      <3>2. level'[c] \in 0 .. Nesting /\ (level'[c] = 0 <=> pc'[c] = "idle")
        BY <3>1 DEF LevelOK, TypeOK
      <3> QED  BY <2>1, <3>2 DEF Counted
    <2>3. CASE pc'[c] = "exit"
      BY <1>6, <2>3 DEF InFrame
    <2>4. CASE pc'[c] = "idle"
      <3>1. Returns(c) \/ Exits(c)
        BY <2>4, CallFacts DEF Acquires, Enters, Saves, Works, Ends
      <3>2. ~Returns(c)
        <4> SUFFICES ASSUME Returns(c) PROVE FALSE
          OBVIOUS
        <4>1. Counted(c) /\ level[c] = 1 /\ depth # 1
          BY <2>4, CallFacts DEF Returns, LInv, TypeOK, Counted
        <4>2. PICK d \in Contexts \ {c} : Counted(d)
          BY <4>1, AnotherIsCounted
        <4>3. Counted(d)'
          BY <1>1, <4>2, OthersStay
        <4> QED  BY <1>7, <4>2, <4>3
      <3>3. pc[c] = "exit"
        BY <3>1, <3>2 DEF Exits
      <3> QED  BY <1>1, <1>3, <1>4, <3>3 DEF InFrame
    <2> QED  BY <2>2, <2>3, <2>4
  <1> QED  BY <1>5, <1>6, <1>7 DEF FrameOK

\* When the core goes to another context, none is the only one counted, if it
\* is past its critical section's start and not working on the state.
LEMMA NoneSole ==
    ASSUME LInv, Maskable, KeptOut, NEW c \in Contexts, pc[c] \in {"body", "flushed"}, Sole(c),
           \/ \E h \in Handlers : Interrupt(h) \/ Return(h)
           \/ \E t \in Threads : Switch(t)
    PROVE  FALSE
  <1>1. Counted(c)
    BY DEF Sole
  <1>2. ASSUME NEW g \in Contexts, pc[g] = "enter" PROVE FALSE
    <2>1. level[g] \in 0 .. Nesting /\ level[g] # 0
      BY <1>2 DEF LInv, TypeOK, LevelOK
    <2>2. Counted(g) /\ g # c
      BY <1>2, <2>1 DEF Counted
    <2> QED  BY <2>2 DEF Sole
  <1>3. CASE ~masked
    BY <1>1, <1>2, <1>3, UnmaskedFacts
  <1>4. ASSUME NEW h \in Handlers, Return(h) PROVE FALSE
    <2>1. h = Running /\ h # c
      BY <1>4 DEF Return
    <2>2. Top \in 1 .. Top /\ Upper(Top) = {h}
      <3>1. Top \in Nat /\ Top >= 1
        BY <1>4, ReturnFacts
      <3> QED  BY <2>1, <3>1, CoreFacts DEF LInv
    <2> QED  BY <1>1, <1>2, <2>1, <2>2 DEF KeptOut
  <1>5. ASSUME NEW h \in Handlers, Interrupt(h) PROVE ~masked
    BY <1>5 DEF Interrupt, Maskable
  <1>6. ASSUME NEW t \in Threads, Switch(t) PROVE ~masked
    BY <1>6 DEF Switch
  <1> QED  BY <1>3, <1>4, <1>5, <1>6

\* The calls and the outputs, with the frame under way.
FInv == SInv /\ LeftOK /\ (Maskable => Shape /\ FrameOK)

LEMMA FramesInitially == Init => FInv
  <1> SUFFICES ASSUME Init PROVE FInv
    OBVIOUS
  <1>1. SInv
    BY LoggerInitially
  <1>2. out = <<>> /\ Len(out) = 0 /\ \A c \in Contexts : pc[c] = "idle"
    BY DEF Init
  <1>3. LeftOK
    BY <1>2 DEF LeftOK
  <1>4. Shape /\ FrameOK
    BY <1>2 DEF Shape, FrameOK, InFrame, Closed
  <1> QED  BY <1>1, <1>3, <1>4 DEF FInv

LEMMA FramesStep ==
    ASSUME FInv, Maskable, [Next]_vars
    PROVE  Shape' /\ FrameOK'
  <1>1. LInv /\ MInv /\ KeptOut /\ LeftOK /\ Shape /\ FrameOK /\ Running \in Contexts
    BY CoreFacts DEF FInv, SInv, LInv, MInv
  <1>2. CASE Call(Running)
    BY <1>1, <1>2, CallKeepsFrame
  <1>3. CASE ~Call(Running)
    <2>1. UNCHANGED <<shared, locals>>
      BY <1>3 DEF Next, Step, Mask, Unmask, Interrupt, Return, Switch, vars
    <2>2. out' = out /\ pc' = pc /\ left' = left /\ level' = level
      BY <2>1 DEF shared, locals
    <2>3. /\ Shape' /\ (Closed' <=> Closed) /\ \A d : Written(d)' = Written(d)
          /\ \A d : Counted(d)' = Counted(d) /\ Sole(d)' = Sole(d)
      BY <1>1, <2>2 DEF Shape, Closed, Last, Written, Counted, Sole
    <2>4. ASSUME NEW c \in Contexts, pc[c] \in {"body", "flushed"}, c = Running', Sole(c)
          PROVE  Written(c)
      <3>1. CASE UNCHANGED <<current, stack>>
        BY <1>1, <2>4, <3>1, RunningStays DEF FrameOK, InFrame
      <3>2. CASE \/ \E h \in Handlers : Interrupt(h) \/ Return(h)
                 \/ \E t \in Threads : Switch(t)
        BY <1>1, <2>4, <3>2, NoneSole
      <3>3. CASE Mask(Running) \/ Unmask(Running) \/ UNCHANGED vars
        BY <3>1, <3>3 DEF Mask, Unmask, vars, core
      <3> QED  BY <1>3, <3>2, <3>3 DEF Next, Step
    <2>5. \A c \in Contexts : InFrame(c)'
      BY <1>1, <2>2, <2>3, <2>4 DEF InFrame, FrameOK
    <2>6. (\A c \in Contexts : ~Counted(c)' /\ pc'[c] # "end") => Closed'
      BY <1>1, <2>2, <2>3 DEF FrameOK
    <2> QED  BY <2>3, <2>5, <2>6 DEF FrameOK
  <1> QED  BY <1>2, <1>3

LEMMA LeftStep ==
    ASSUME FInv, [Next]_vars
    PROVE  LeftOK'
  <1>1. LInv /\ LeftOK /\ Running \in Contexts
    BY CoreFacts DEF FInv, SInv, LInv
  <1>2. CASE Call(Running)
    BY <1>1, <1>2, CallKeepsLeft DEF LInv
  <1>3. CASE ~Call(Running)
    <2>1. UNCHANGED locals
      BY <1>3 DEF Next, Step, Mask, Unmask, Interrupt, Return, Switch, vars
    <2> QED  BY <1>1, <2>1 DEF LeftOK, locals
  <1> QED  BY <1>2, <1>3

\* Whole frames reach the outputs, one after the other, none cut short, mixed
\* with another or missing a write: each acquire that gets the lock starts a
\* frame, its writes continue it and its release ends it, however many
\* handlers, interrupts and nested calls come in between.  With two threads a
\* frame may be left open, and then nothing follows it.
THEOREM FramesAreWhole == Spec => []WholeFrames
  <1>1. FInv /\ SInv' /\ [Next]_vars => FInv'
    <2> SUFFICES ASSUME FInv, SInv', [Next]_vars PROVE FInv'
      OBVIOUS
    <2>1. Maskable' = Maskable
      BY SystemStays DEF FInv, SInv, Maskable
    <2>2. LeftOK'
      BY LeftStep
    <2>3. Maskable => Shape' /\ FrameOK'
      BY FramesStep
    <2> QED  BY <2>1, <2>2, <2>3 DEF FInv
  <1>2. ASSUME FInv, Maskable, \A c \in Contexts : pc[c] = "idle" PROVE Closed
    <2>1. \A c \in Contexts : ~Counted(c) /\ pc[c] # "end"
      BY <1>2 DEF FInv, SInv, LInv, LevelOK, Counted
    <2> QED  BY <1>2, <2>1 DEF FInv, FrameOK
  <1>3. FInv => WholeFrames
    BY <1>2 DEF FInv, Shape, Closed, Last, WholeFrames
  <1> QED  BY <1>1, <1>3, FramesInitially, MaskableInvariance, PTL DEF Spec
=============================================================================
