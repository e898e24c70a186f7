---------------------------- MODULE AuthSession ----------------------------
(***************************************************************************)
(* An account, its browser sessions and its one-time tickets               *)
(* (web/auth_service.py, web/postgres_auth_store.py).  A login checks the  *)
(* password, may hash it anew, and then opens the session, and a change of *)
(* the password checks the session and the password before it sets the     *)
(* new one, in transactions of their own; everything else is one           *)
(* transaction.  A password is a number: the n-th that the user has set.   *)
(***************************************************************************)
EXTENDS Naturals, Sequences, FiniteSets

CONSTANTS
    Sessions,       \* logins, and the sessions they open
    IdleTime, AbsoluteTime, TouchTime,
    MaxClock, MaxPasswords, MaxTickets

ASSUME AuthAssumption ==
    /\ TouchTime \in Nat \ {0} /\ IdleTime \in Nat \ 0..TouchTime /\ AbsoluteTime \in Nat
    /\ AbsoluteTime >= IdleTime
    /\ MaxClock \in Nat /\ MaxPasswords \in Nat /\ MaxTickets \in Nat

VARIABLES
    clock,
    account,        \* the row of users
    tickets,        \* auth_action_tokens, in the order they were issued
    sessions,       \* auth_sessions, with what each login has found
    changing,       \* the sessions by which the password is being changed
    overtaken       \* a password was set while a login was under way

authVars == << clock, account, tickets, sessions, changing, overtaken >>

AuthInit ==
    /\ clock = 0
    /\ account = [status |-> "none", password |-> 0, set |-> 0]
    /\ tickets = << >>
    /\ sessions = [s \in Sessions |-> [state |-> "none", password |-> 0, used |-> 0, seen |-> 0,
                                       idle |-> 0, absolute |-> 0]]
    /\ changing = {} /\ overtaken = FALSE

LesserOf(a, b) == IF a < b THEN a ELSE b

Live(s)  == sessions[s].state = "open"
Valid(s) == Live(s) /\ clock < sessions[s].idle /\ clock < sessions[s].absolute
UnderWay == \E s \in Sessions : sessions[s].state \in {"checking", "checked"}

Tick == clock < MaxClock /\ clock' = clock + 1 /\ UNCHANGED << account, tickets, sessions, changing, overtaken >>

----------------------------------------------------------------------------
(* Tickets: verify_email and reset_password.                               *)

\* The tickets of this purpose that are still good are spoilt, and one is issued.
Spoilt(purpose) ==
    [n \in DOMAIN tickets |->
        IF tickets[n].purpose = purpose THEN [tickets[n] EXCEPT !.good = FALSE] ELSE tickets[n]]

\* Bound: a ticket is good till the clock has moved on twice.
Issue(purpose) ==
    /\ Len(tickets) < MaxTickets
    /\ tickets' = Append(Spoilt(purpose),
                         [purpose |-> purpose, good |-> TRUE, expires |-> clock + 2])

Good(n, purpose) ==
    tickets[n].purpose = purpose /\ tickets[n].good /\ clock < tickets[n].expires

Register ==
    /\ account.status = "none"
    /\ account' = [status |-> "PENDING_VERIFICATION", password |-> 1, set |-> 1]
    /\ Issue("verify_email")
    /\ UNCHANGED << clock, sessions, changing, overtaken >>

VerifyEmail(n) ==
    /\ Good(n, "verify_email")
    /\ account' = [account EXCEPT !.status = "ACTIVE"]
    /\ tickets' = Spoilt("verify_email")
    /\ UNCHANGED << clock, sessions, changing, overtaken >>

ResendVerification ==
    /\ account.status = "PENDING_VERIFICATION" /\ Issue("verify_email")
    /\ UNCHANGED << clock, account, sessions, changing, overtaken >>

RequestReset ==
    /\ account.status # "none" /\ Issue("reset_password")
    /\ UNCHANGED << clock, account, sessions, changing, overtaken >>

----------------------------------------------------------------------------
(* Passwords.                                                              *)

\* A new password ends every session there is.
SetPassword ==
    /\ account.set < MaxPasswords
    /\ account' = [account EXCEPT !.password = account.set + 1, !.set = @ + 1]
    /\ sessions' = [s \in Sessions |->
           IF Live(s) THEN [sessions[s] EXCEPT !.state = "revoked"] ELSE sessions[s]]
    /\ overtaken' = (overtaken \/ UnderWay)

\* Wrong: a reset leaves the sessions open.
ResetsOnly(n) ==
    /\ Good(n, "reset_password") /\ account.set < MaxPasswords
    /\ account' = [account EXCEPT !.password = account.set + 1, !.set = @ + 1]
    /\ overtaken' = (overtaken \/ UnderWay)
    /\ tickets' = Spoilt("reset_password") /\ UNCHANGED << clock, sessions, changing >>

\* consume_password_reset.
ResetPassword(n) ==
    /\ Good(n, "reset_password") /\ SetPassword
    /\ tickets' = Spoilt("reset_password") /\ UNCHANGED << clock, changing >>

\* change_password: the request shows its session, and the password it knows is right.
BeginChange(s) ==
    /\ Valid(s) /\ changing' = changing \cup {s}
    /\ UNCHANGED << clock, account, tickets, sessions, overtaken >>

\* Then the new one is set, whatever became of the session and of the old one.
ChangePassword(s) ==
    /\ s \in changing /\ SetPassword
    /\ changing' = changing \ {s} /\ UNCHANGED << clock, tickets >>

----------------------------------------------------------------------------
(* Sessions.                                                               *)

With(s, changed) == sessions' = [sessions EXCEPT ![s] = changed]

\* login: the user types the password, and what the row has is compared with it.  The
\* times of the session are reckoned from here.
CheckPassword(s) ==
    /\ sessions[s].state = "none" /\ account.status # "none"
    /\ With(s, [sessions[s] EXCEPT !.state = "checking", !.password = account.password,
                                   !.used = clock, !.seen = clock, !.idle = clock + IdleTime,
                                   !.absolute = clock + AbsoluteTime])
    /\ UNCHANGED << clock, account, tickets, changing, overtaken >>

\* update_password_hash writes the password the user has typed, if the parameters of the
\* hash have changed; it does not look at what the row has by now.
Rehash(s) ==
    /\ sessions[s].state = "checking"
    /\ With(s, [sessions[s] EXCEPT !.state = "checked"])
    /\ \/ account' = [account EXCEPT !.password = sessions[s].password]
       \/ UNCHANGED account
    /\ UNCHANGED << clock, tickets, changing, overtaken >>

OpenSession(s) ==
    /\ sessions[s].state = "checked"
    /\ With(s, [sessions[s] EXCEPT !.state = "open"])
    /\ UNCHANGED << clock, account, tickets, changing, overtaken >>

\* Wrong: a session is seen, and its time moves on, only when it is close to its end.
ResolvesLate(s) ==
    /\ Live(s)
    /\ LET row == sessions[s]
       IN  IF row.idle <= clock \/ row.absolute <= clock
           THEN With(s, [row EXCEPT !.state = "revoked"])
           ELSE IF row.seen + IdleTime <= clock
                THEN With(s, [row EXCEPT !.used = clock, !.seen = clock,
                                         !.idle = LesserOf(clock + IdleTime, row.absolute)])
                ELSE With(s, [row EXCEPT !.used = clock])
    /\ UNCHANGED << clock, account, tickets, changing, overtaken >>

\* resolve_session, of every request with a cookie.  (resume_session then gives the page
\* a CSRF value of its own, which is not modelled.)
Resolve(s) ==
    /\ Live(s)
    /\ LET row == sessions[s]
       IN  IF row.idle <= clock \/ row.absolute <= clock
           THEN With(s, [row EXCEPT !.state = "revoked"])
           ELSE IF row.seen + TouchTime <= clock
                THEN With(s, [row EXCEPT !.used = clock, !.seen = clock,
                                         !.idle = LesserOf(clock + IdleTime, row.absolute)])
                ELSE With(s, [row EXCEPT !.used = clock])
    /\ UNCHANGED << clock, account, tickets, changing, overtaken >>

\* logout, and revoke_session by another of the user's sessions.
Revoke(s) ==
    /\ Live(s) /\ With(s, [sessions[s] EXCEPT !.state = "revoked"])
    /\ UNCHANGED << clock, account, tickets, changing, overtaken >>

LogoutAll ==
    /\ \E s \in Sessions : Live(s)
    /\ sessions' = [s \in Sessions |->
           IF Live(s) THEN [sessions[s] EXCEPT !.state = "revoked"] ELSE sessions[s]]
    /\ UNCHANGED << clock, account, tickets, changing, overtaken >>

AuthNext ==
    \/ Tick \/ Register \/ ResendVerification \/ RequestReset \/ LogoutAll
    \/ \E n \in DOMAIN tickets : VerifyEmail(n) \/ ResetPassword(n)
    \/ \E s \in Sessions :
           \/ CheckPassword(s) \/ Rehash(s) \/ OpenSession(s) \/ Resolve(s) \/ Revoke(s)
           \/ BeginChange(s) \/ ChangePassword(s)

AuthSpec == AuthInit /\ [][AuthNext]_authVars

----------------------------------------------------------------------------

\* A session outlives the password it was opened with only when a password was set while
\* a login was under way.
SessionsEndWithPassword ==
    \A s \in Sessions : Live(s) /\ ~overtaken => sessions[s].password = account.password

\* A session that is used keeps: its idle time does not run out before it has been left
\* alone for the idle time, less the interval in which it is not written, or before its
\* absolute time is over; nor does it ever last longer than that.
UsedSessionsKeep ==
    \A s \in Sessions : Live(s) =>
        /\ sessions[s].idle >= LesserOf(sessions[s].used + IdleTime - TouchTime + 1,
                                        sessions[s].absolute)
        /\ sessions[s].idle <= sessions[s].absolute
=============================================================================
