\* A local run of every shape with its callers; a canary run with two faults.
SPECIFICATION MCSpec
CONSTANTS
    MaxStarters = 2
    Cancels = {k1}
    MaxTroubles = 1
    MaxEvents = 2
    Shapes = {"chat stream", "chat json", "endpoint", "suite"}
    MaxAttempts = 2
    MaxFaults = 2
    TargetFailureAt = {"PREFLIGHT"}
    DelegateFailures <- Refusals
INVARIANTS RowTellsOneStory LogTellsTheRow RecorderIsHeard PassIsEarned
INVARIANTS RowMatchesProjection JournalMatchesStore PublishedResultIsMeasured
PROPERTIES PromiseKept
CHECK_DEADLOCK FALSE
