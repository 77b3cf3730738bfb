CONSTANTS
    Requests = {q1}
    MaxFaults = 1
SPECIFICATION Spec
INVARIANTS RequestFailuresAreSpooled
CHECK_DEADLOCK FALSE
