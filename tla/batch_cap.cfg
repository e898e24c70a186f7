CONSTANTS BatchSize = 3  Cap = 2  Workers = 4  MaxMishaps = 0
SPECIFICATION BatchSpec
INVARIANTS AtMostCap
CHECK_DEADLOCK FALSE
