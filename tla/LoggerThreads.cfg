\* Two threads that a scheduler switches between.
CONSTANTS
    main = main
    other = other
    low = low
    high = high
    nmi = nmi
    Threads = {main, other}
    Handlers = {low, high, nmi}
    NonMaskable = {nmi}
    Priority <- MCPriority
    Writes = 2
    Nesting = 2
    MaxCalls = 1
    Systems <- MCThreadsOnly
SPECIFICATION Spec
INVARIANT MaskAsBefore
