\* A ring of 4 slots (3 bytes of capacity), data of up to 4 bytes: every write
\* length from "fits" to "is cut", every wrap position.
CONSTANTS
    N = 4
    Bytes = {a, b}
    MaxData = 4
    Data <- MCData
SPECIFICATION SyncSpec
INVARIANTS TypeOK OwnershipDisjoint StaleIsBehind ReadsOrdered
PROPERTY ImplementsQueue
