\* A buffer of 4 bytes that holds 3, data of up to 4 bytes; the host sets the
\* mode between calls.
CONSTANTS
    N = 4
    Bytes = {a, b}
    MaxData = 4
    Data <- MCData
    HaltInCall = FALSE
SPECIFICATION Spec
INVARIANT TypeOK
PROPERTIES ImplementsStream CallsAdvance CallsEnd
