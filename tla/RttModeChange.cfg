\* The host sets the mode of a target it halted at any point.
CONSTANTS
    N = 4
    Bytes = {a, b}
    MaxData = 4
    Data <- MCData
    HaltInCall = TRUE
SPECIFICATION Spec
PROPERTY NoWaitWithoutHost
