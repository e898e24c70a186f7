\* Two calls of an evaluation at a time; a batch of two models, one at a time; two
\* deliveries of an activity whose renewals are made in time.
SPECIFICATION MCSpec
CONSTANTS
    ModelCount = 2
    SampleCount = 1
    Concurrency = 2
    Requests = {r1}
    MaxFaults = 1
    BatchSize = 2
    Cap = 1
    Workers = 3
    MaxMishaps = 1
    Deliveries = {d1, d2}
    MaxAttempts = 2
    Outcomes = {o1}
    Failures = {store_failure}
    StoreFailure = store_failure
    Input = input
    LeaseTicks = 2
    RenewTicks = 1
    Timely = TRUE
    NoToken = NoToken
    NoInput = NoInput
    NoAnswer = NoAnswer
INVARIANTS NoConcurrentPaidCalls
PROPERTIES EveryRunEnds BatchEnds BusyResolves
CHECK_DEADLOCK FALSE
