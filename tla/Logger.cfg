\* One thread and two nested interrupt handlers, a program with two preempted
\* threads and a handler, and one with a non-maskable handler besides.
CONSTANTS
    main = main
    other = other
    low = low
    high = high
    nmi = nmi
    Threads = {main, other}
    Handlers = {low, high, nmi}
    NonMaskable = {nmi}
    Priority <- MCPriority
    Writes = 2
    Nesting = 2
    MaxCalls = 2
    Systems <- MCPrograms
SPECIFICATION Spec
\* The model stops once every context has logged its messages.
CHECK_DEADLOCK FALSE
INVARIANTS
    TypeOK ReentrantCallsDropped AccessIsProtected
    DroppedOnlyBeforeMask MaskRestored WholeFrames
PROPERTY InterruptsReenabled
