\* A shutdown with every failure, a local run with its callers, a canary run.
SPECIFICATION MCSpec
CONSTANTS
    Requests = {r1}
    Recovered = {u}
    Closers = {c1, c2}
    Finalizer = finalizer
    MaxFailures = 3
    StoreMayFail = TRUE
    MaxStarters = 1
    Cancels = {k1}
    MaxTroubles = 1
    MaxEvents = 1
    Shapes = {"chat stream", "suite"}
    MaxAttempts = 2
    MaxFaults = 1
    TargetFailureAt = {"PREFLIGHT", "EXECUTE", "SCORE"}
    DelegateFailures = {}
INVARIANTS StoreOutlivesUsers
PROPERTIES ShutdownEnds LocalRunEnds RunCloses
CHECK_DEADLOCK FALSE
