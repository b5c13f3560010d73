\* A ring of 4 slots whose grants are compared with the documentation of read.
CONSTANTS
    N = 4
    Bytes = {a, b}
    MaxData = 2
    Data <- MCData
SPECIFICATION SyncSpec
INVARIANT GrantStopsAtRingEnd
