\* Two callers of init, three messages, one reset, a ring that overflows; and
\* the test suite on a ring that does not.
CONSTANTS
    Callers = {main, task}
    Capacities = {4, 9}
    Size = 3
    MaxLogs = 3
    MaxBoots = 2
    BenchCapacity = 9
    Lines = 2
    Rounds = 7
    Period = 3
SPECIFICATION BenchSpec
\* The model stops once the bounds are used up or the tests are done.
CHECK_DEADLOCK FALSE
INVARIANTS TypeOK OneConsumer CurrentRunKnown LossIsLimited TailsOnly TestsPass
PROPERTY FailedInitTouchesNothing
