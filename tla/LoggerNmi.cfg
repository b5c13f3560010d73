\* A non-maskable handler that logs while the main thread does.
CONSTANTS
    main = main
    other = other
    low = low
    high = high
    nmi = nmi
    Threads = {main, other}
    Handlers = {low, high, nmi}
    NonMaskable = {nmi}
    Priority <- MCPriority
    Writes = 2
    Nesting = 2
    MaxCalls = 1
    Systems <- MCNmiOnly
SPECIFICATION Spec
INVARIANT CallsDropped
