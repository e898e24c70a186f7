\* Two of each: schedulers, turns, sessions, drivers.
SPECIFICATION MCSpec
CONSTANTS
    Schedulers = {p, q}
    MaxSlots = 4
    MaxSlips = 1
    Thresholds <- ThresholdPairs
    Turns = {t1, t2}
    Keys = {k1}
    MaxRounds = 2
    MaxTrace = 2
    MaxLapses = 1
    MaxAffairs = 1
    Sessions = {s1, s2}
    IdleTime = 3
    AbsoluteTime = 4
    TouchTime = 2
    MaxClock = 4
    MaxPasswords = 3
    MaxTickets = 2
    Drivers = {d1, d2}
    MaxTries = 2
    MaxTroubles = 2
INVARIANTS StatusIsDeserved IncidentsTellStatus TurnsDoNotMix KeyStandsNowhere
INVARIANTS SessionsEndWithPassword UsedSessionsKeep DriversAgree
PROPERTIES OneRunAtATime DriversKeepPromise
CHECK_DEADLOCK FALSE
