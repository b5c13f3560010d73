\* Two loggers with three messages each, a ring of two bytes.
CONSTANTS
    Loggers = {low, high}
    Capacity = 2
    MaxCalls = 3
SPECIFICATION Spec
INVARIANTS TypeOK WakeupPending
PROPERTY DataIsRead
