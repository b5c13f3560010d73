\* A ring of 4 slots on all three kinds of RAM: a reset between any two stores.
CONSTANTS
    N = 4
    Bytes = {a, b}
    MaxData = 3
    Data <- MCData
    HeaderWords = {h1, h2}
    WordSize = 2
    Builds <- MCBuilds
SPECIFICATION Spec
INVARIANTS TypeOK CommittedData
PROPERTY ImplementsDurableLog
