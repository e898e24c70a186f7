SPECIFICATION Spec
CONSTANTS
    MaxEvents = 1
    MaxFaults = 1
    MaxRestarts = 1
INVARIANTS NoInventedFailure
CHECK_DEADLOCK FALSE
