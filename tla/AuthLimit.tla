----------------------------- MODULE AuthLimit -----------------------------
(***************************************************************************)
(* The limit on logins and the like: one row of auth_rate_limits, for one  *)
(* bucket and subject (web/postgres_auth_store.py), consumed by every      *)
(* attempt (web/auth_service.py).  Windows follow one another: a window    *)
(* begins with the first attempt after the one before has run out, and the *)
(* block that an attempt too many brings on is not prolonged by others.    *)
(***************************************************************************)
EXTENDS Naturals, Sequences, FiniteSets

CONSTANTS
    MaxCalls, Window, Block,
    LastTick                    \* bound

ASSUME LimitAssumption ==
    /\ MaxCalls \in Nat \ {0} /\ Window \in Nat \ {0} /\ LastTick \in Nat
    /\ Block \in Nat /\ Block >= Window     \* so it is in every call of _rate_limit

VARIABLES
    now,
    limit,          \* attempts, window_started_at, blocked_until; 0 for NULL
    letIn,          \* when attempts were let in
    turnedAway      \* when the latest attempt was, if it was turned away; 0 if not

limitVars == << now, limit, letIn, turnedAway >>

LimitInit ==
    /\ now = 1 /\ letIn = << >> /\ turnedAway = 0
    /\ limit = [attempts |-> 0, started |-> 0, blocked |-> 0]

Passes == now < LastTick /\ now' = now + 1 /\ UNCHANGED << limit, letIn, turnedAway >>

Elapsed == limit.attempts = 0 \/ limit.started + Window <= now

\* Wrong: the attempt that is one too many is let in.
ConsumedLate ==
    [ attempts |-> IF Elapsed THEN 1 ELSE limit.attempts + 1,
      started  |-> IF Elapsed THEN now ELSE limit.started,
      blocked  |-> IF limit.blocked > now THEN limit.blocked
                   ELSE IF ~Elapsed /\ limit.attempts > MaxCalls THEN now + Block ELSE 0 ]

\* The row as consume_auth_rate_limit leaves it.  Every case looks at the row before.
Consumed ==
    [ attempts |-> IF Elapsed THEN 1 ELSE limit.attempts + 1,
      started  |-> IF Elapsed THEN now ELSE limit.started,
      blocked  |-> IF limit.blocked > now THEN limit.blocked
                   ELSE IF ~Elapsed /\ limit.attempts + 1 > MaxCalls THEN now + Block ELSE 0 ]

Attempt ==
    /\ limit.attempts < 2 * MaxCalls + 2                       \* bound
    /\ limit' = Consumed
    /\ IF limit'.blocked <= now
       THEN letIn' = Append(letIn, now) /\ turnedAway' = 0
       ELSE turnedAway' = now /\ UNCHANGED letIn
    /\ UNCHANGED now

LimitNext == Passes \/ Attempt

LimitSpec == LimitInit /\ [][LimitNext]_limitVars

----------------------------------------------------------------------------

\* Of any time as long as a window, at most two windows are part: it lets in no more than
\* twice as many attempts as a window.  And who waits for the length of a block after
\* being turned away is let in.
LimitHolds ==
    /\ \A m, n \in DOMAIN letIn : n - m >= 2 * MaxCalls => letIn[n] - letIn[m] >= Window
    /\ turnedAway # 0 /\ turnedAway + Block <= now => Consumed.blocked <= now
=============================================================================
