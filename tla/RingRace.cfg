\* A ring of 4 slots whose second lap stores where the consumer has read.
CONSTANTS
    N = 4
    Bytes = {a, b}
    MaxData = 2
    Data <- MCData
SPECIFICATION SyncSpec
INVARIANT WritesOrdered
