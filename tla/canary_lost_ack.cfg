SPECIFICATION Spec
CONSTANTS
    MaxAttempts = 2
    MaxFaults = 1
    TargetFailureAt = {"EXECUTE"}
    DelegateFailures = {}
INVARIANT StoredOutcomeIsUsed
CHECK_DEADLOCK FALSE
