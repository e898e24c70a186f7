SPECIFICATION FairSpec
CONSTANTS
    MaxEvents = 1
    MaxFaults = 2
    MaxRestarts = 1
INVARIANTS VerdictIsTrue
PROPERTIES RowFollowsWorkflow CancelIsDelivered
CHECK_DEADLOCK FALSE
