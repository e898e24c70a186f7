\* Three calls, and nothing fails: a profile is created and replaced twice.
SPECIFICATION ProfileSpec
CONSTANTS
    Calls = {c1, c2, c3}
    MaxOutages = 0
INVARIANT SecretFitsProfile
CHECK_DEADLOCK FALSE
