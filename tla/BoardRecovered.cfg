\* A message logged between the start of the logger and the count.
CONSTANTS
    Callers = {main}
    Capacities = {4}
    Size = 3
    MaxLogs = 2
    MaxBoots = 2
SPECIFICATION Spec
\* The model stops once the bounds are used up.
CHECK_DEADLOCK FALSE
INVARIANT RecoveredIsOld
