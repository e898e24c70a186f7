SPECIFICATION Spec
CONSTANTS
    MaxAttempts = 2
    MaxFaults = 1
    TargetFailureAt = {"EXECUTE"}
    DelegateFailures = {}
INVARIANT CancellationAudited
CHECK_DEADLOCK FALSE
