\* Two models of two items; a batch of three; three deliveries; three calls; two users; ten ticks.
SPECIFICATION MCSpec
CONSTANTS
    ModelCount = 2
    SampleCount = 2
    Concurrency = 1
    Requests = {r1, r2}
    MaxFaults = 1
    BatchSize = 3
    Cap = 2
    Workers = 2
    MaxMishaps = 1
    Deliveries = {d1, d2, d3}
    MaxAttempts = 2
    Outcomes = {o1, o2}
    Failures = {store_failure, run_failure}
    StoreFailure = store_failure
    Input = input
    LeaseTicks = 2
    RenewTicks = 1
    Timely = FALSE
    NoToken = NoToken
    NoInput = NoInput
    NoAnswer = NoAnswer
    Calls = {c1, c2, c3}
    MaxOutages = 1
    Users = {u1, u2}
    Documents = {t1, t2}
    MaxEdits = 2
    MaxUses = 2
    Applicants = {a1, a2}
    Drafts = {q1, q2}
    MaxVersions = 4
    MaxCalls = 2
    Window = 3
    Block = 3
    LastTick = 10
INVARIANTS PaidOnce BatchVerdictIsHonest OneOutcome EvidenceAgrees VerdictsAreHonest ArchivedSecretIsGone NoOrphans
INVARIANTS EditsBuildOnEachOther RunsKeepWhatTheyUsed FailuresReplayed SnapshotIsWhatStands LimitHolds
CHECK_DEADLOCK FALSE
