--------------------------- MODULE ServicesProofs ---------------------------
(***************************************************************************)
(* Proofs about the services that work on one resource at a time, for any  *)
(* number of sessions, turns, schedulers and failures: the sessions of a   *)
(* user, the turns of an agent session, the schedulers of a policy.        *)
(***************************************************************************)
EXTENDS AuthSession, AgentTurn, MonitorPolicy, FiniteSetTheorems, TLAPS

(***************************************************************************)
(* The sessions of a user.                                                 *)
(***************************************************************************)

AuthTypes ==
    /\ clock \in Nat
    /\ account \in [status : {"none", "PENDING_VERIFICATION", "ACTIVE"}, password : Nat, set : Nat]
    /\ sessions \in [Sessions -> [state : {"none", "checking", "checked", "open", "revoked"},
                                  password : Nat, used : Nat, seen : Nat, idle : Nat, absolute : Nat]]
    /\ overtaken \in BOOLEAN

\* What a login has found, and what it opened, is the account's password, unless one was
\* set meanwhile.
PasswordsFit ==
    /\ account.status = "none" => \A s \in Sessions : sessions[s].state = "none"
    /\ ~overtaken => \A s \in Sessions : sessions[s].state \in {"checking", "checked", "open"} =>
                         sessions[s].password = account.password

\* The idle time is reckoned from when the session was last written, which is not long
\* before it was last used.
TimesFit ==
    \A s \in Sessions : sessions[s].state \in {"checking", "checked", "open"} =>
        /\ sessions[s].seen <= sessions[s].used /\ sessions[s].used <= clock
        /\ sessions[s].used < sessions[s].seen + TouchTime
        /\ sessions[s].idle = LesserOf(sessions[s].seen + IdleTime, sessions[s].absolute)

AuthInv == AuthTypes /\ PasswordsFit /\ TimesFit

\* AuthInv holds before anybody registers.
LEMMA AuthStart == AuthInit => AuthInv
<1> SUFFICES ASSUME AuthInit PROVE AuthInv
  OBVIOUS
<1>1. AuthTypes
  BY DEF AuthInit, AuthTypes
<1>2. \A s \in Sessions : sessions[s].state = "none"
  BY DEF AuthInit
<1> QED BY <1>1, <1>2 DEF AuthInv, PasswordsFit, TimesFit

\* Every step keeps AuthInv.
LEMMA AuthStep == AuthInv /\ [AuthNext]_authVars => AuthInv'
<1> SUFFICES ASSUME AuthInv, [AuthNext]_authVars PROVE AuthInv'
  OBVIOUS
<1>0. AuthTypes /\ PasswordsFit /\ TimesFit
  BY DEF AuthInv
<1> DEFINE Row == [state : {"none", "checking", "checked", "open", "revoked"},
                   password : Nat, used : Nat, seen : Nat, idle : Nat, absolute : Nat]
\* Nothing of what AuthInv is about changes, or the clock only.
<1>1. ASSUME clock' \in Nat, clock' >= clock, UNCHANGED << sessions, overtaken >>, account'.password = account.password,
             account' \in [status : {"none", "PENDING_VERIFICATION", "ACTIVE"}, password : Nat, set : Nat],
             account'.status = "none" => account.status = "none"
      PROVE  AuthInv'
  BY <1>0, <1>1 DEF AuthInv, AuthTypes, PasswordsFit, TimesFit
\* One session changes: it is ended, or stays what it was with times that fit.
<1>2. ASSUME NEW s \in Sessions, NEW row \in Row, sessions' = [sessions EXCEPT ![s] = row],
             UNCHANGED << clock, account, overtaken >>, account.status # "none",
             row.state \in {"checking", "checked", "open"} =>
                 /\ ~overtaken => row.password = account.password
                 /\ row.seen <= row.used /\ row.used < row.seen + TouchTime /\ row.used <= clock
                 /\ row.idle = LesserOf(row.seen + IdleTime, row.absolute)
      PROVE  AuthInv'
  BY <1>0, <1>2 DEF AuthInv, AuthTypes, PasswordsFit, TimesFit
\* All open sessions are ended; no other changes.
<1>3. ASSUME sessions' = [s \in Sessions |->
                 IF Live(s) THEN [sessions[s] EXCEPT !.state = "revoked"] ELSE sessions[s]]
      PROVE  /\ sessions' \in [Sessions -> Row]
             /\ \A s \in Sessions : IF Live(s) THEN sessions'[s].state = "revoked" ELSE sessions'[s] = sessions[s]
  <2>1. ASSUME NEW s \in Sessions
        PROVE  /\ sessions'[s] \in Row
               /\ IF Live(s) THEN sessions'[s].state = "revoked" ELSE sessions'[s] = sessions[s]
    BY <1>0, <1>3 DEF AuthTypes
  <2> QED BY <1>3, <2>1
<1>4. ASSUME SetPassword, UNCHANGED clock PROVE AuthInv'
  <2>1. /\ account' = [account EXCEPT !.password = account.set + 1, !.set = @ + 1]
        /\ overtaken' = (overtaken \/ UnderWay)
        /\ sessions' \in [Sessions -> Row]
        /\ \A s \in Sessions : IF Live(s) THEN sessions'[s].state = "revoked" ELSE sessions'[s] = sessions[s]
    BY <1>3, <1>4 DEF SetPassword
  <2>2. account' \in [status : {"none", "PENDING_VERIFICATION", "ACTIVE"}, password : Nat, set : Nat]
        /\ account'.status = account.status
    <3>1. account \in [status : {"none", "PENDING_VERIFICATION", "ACTIVE"}, password : Nat, set : Nat]
          /\ account.set + 1 \in Nat
      BY <1>0 DEF AuthTypes
    <3> QED BY <2>1, <3>1
  <2>3. overtaken' \in BOOLEAN
    BY <1>0, <2>1 DEF AuthTypes, UnderWay
  <2>4. AuthTypes'
    BY <1>0, <1>4, <2>1, <2>2, <2>3 DEF AuthTypes
  <2>5. ~overtaken' => \A s \in Sessions : sessions'[s].state \notin {"checking", "checked", "open"}
    BY <2>1 DEF UnderWay, Live
  <2>6. PasswordsFit'
    BY <1>0, <2>1, <2>2, <2>5 DEF PasswordsFit, Live
  <2>7. TimesFit'
    BY <1>0, <1>4, <2>1 DEF TimesFit, Live
  <2> QED BY <2>4, <2>6, <2>7 DEF AuthInv
<1>5. CASE Tick
  BY <1>0, <1>1, <1>5 DEF Tick, AuthTypes
<1>6. CASE Register
  <2>1. account' = [status |-> "PENDING_VERIFICATION", password |-> 1, set |-> 1]
        /\ account.status = "none" /\ UNCHANGED << clock, sessions, overtaken >>
    BY <1>6 DEF Register
  <2> QED BY <1>0, <2>1 DEF AuthInv, AuthTypes, PasswordsFit, TimesFit
<1>7. ASSUME NEW n \in DOMAIN tickets, VerifyEmail(n) PROVE AuthInv'
  <2>1. account' = [account EXCEPT !.status = "ACTIVE"] /\ UNCHANGED << clock, sessions, overtaken >>
    BY <1>7 DEF VerifyEmail
  <2>2. account' \in [status : {"none", "PENDING_VERIFICATION", "ACTIVE"}, password : Nat, set : Nat]
        /\ account'.password = account.password /\ account'.status = "ACTIVE" /\ clock' \in Nat /\ clock' >= clock
    BY <1>0, <2>1 DEF AuthTypes
  <2> QED BY <1>1, <2>1, <2>2
<1>8. CASE ResendVerification \/ RequestReset
  BY <1>0, <1>1, <1>8 DEF ResendVerification, RequestReset, AuthTypes
<1>9. ASSUME NEW n \in DOMAIN tickets, ResetPassword(n) PROVE AuthInv'
  BY <1>4, <1>9 DEF ResetPassword
<1>10. ASSUME NEW s \in Sessions, ChangePassword(s) PROVE AuthInv'
  BY <1>4, <1>10 DEF ChangePassword
<1>11. ASSUME NEW s \in Sessions, CheckPassword(s) PROVE AuthInv'
  <2> DEFINE row == [sessions[s] EXCEPT !.state = "checking", !.password = account.password,
                                       !.used = clock, !.seen = clock, !.idle = clock + IdleTime,
                                       !.absolute = clock + AbsoluteTime]
  <2>1. sessions[s] \in Row /\ clock \in Nat /\ account.password \in Nat
        /\ clock + IdleTime \in Nat /\ clock + AbsoluteTime \in Nat
        /\ clock + IdleTime <= clock + AbsoluteTime /\ TouchTime \in Nat \ {0}
    BY <1>0, AuthAssumption DEF AuthTypes
  <2>2. /\ row \in Row /\ row.state = "checking" /\ row.password = account.password
        /\ row.used = clock /\ row.seen = clock /\ row.idle = clock + IdleTime
        /\ row.absolute = clock + AbsoluteTime
    BY <2>1
  <2>3. sessions' = [sessions EXCEPT ![s] = row] /\ UNCHANGED << clock, account, overtaken >>
        /\ account.status # "none"
    BY <1>11 DEF CheckPassword, With
  <2> HIDE DEF row
  <2>4. row.seen <= row.used /\ row.used < row.seen + TouchTime /\ row.used <= clock
        /\ row.idle = LesserOf(row.seen + IdleTime, row.absolute)
    BY <2>1, <2>2 DEF LesserOf
  <2> QED BY <1>2, <2>2, <2>3, <2>4
<1>12. ASSUME NEW s \in Sessions, NEW from \in {"checking", "checked", "open"},
              NEW to \in {"checked", "open", "revoked"}, sessions[s].state = from,
              sessions' = [sessions EXCEPT ![s] = [sessions[s] EXCEPT !.state = to]],
              UNCHANGED << clock, account, overtaken >>
       PROVE  AuthInv'
  <2> DEFINE row == [sessions[s] EXCEPT !.state = to]
  <2>1. sessions[s] \in Row /\ account.status # "none"
    BY <1>0, <1>12 DEF AuthTypes, PasswordsFit
  <2>2. /\ row \in Row /\ row.state = to /\ row.password = sessions[s].password
        /\ row.used = sessions[s].used /\ row.seen = sessions[s].seen /\ row.idle = sessions[s].idle
        /\ row.absolute = sessions[s].absolute
    BY <2>1
  <2>3. sessions' = [sessions EXCEPT ![s] = row]
    BY <1>12
  <2> HIDE DEF row
  <2>4. /\ ~overtaken => row.password = account.password
        /\ row.seen <= row.used /\ row.used < row.seen + TouchTime /\ row.used <= clock
        /\ row.idle = LesserOf(row.seen + IdleTime, row.absolute)
    BY <1>0, <1>12, <2>2 DEF PasswordsFit, TimesFit
  <2> QED BY <1>2, <1>12, <2>1, <2>2, <2>3, <2>4
<1>13. ASSUME NEW s \in Sessions, Rehash(s) PROVE AuthInv'
  <2>1. sessions' = [sessions EXCEPT ![s] = [sessions[s] EXCEPT !.state = "checked"]]
        /\ sessions[s].state = "checking" /\ UNCHANGED << clock, overtaken >>
    BY <1>13 DEF Rehash, With
  <2>2. CASE UNCHANGED account
    BY <1>12, <2>1, <2>2
  <2>3. CASE account' = [account EXCEPT !.password = sessions[s].password]
    <3>1. sessions[s] \in Row /\ account.status # "none"
      BY <1>0, <2>1 DEF AuthTypes, PasswordsFit
    <3>2. account' \in [status : {"none", "PENDING_VERIFICATION", "ACTIVE"}, password : Nat, set : Nat]
          /\ account'.status = account.status /\ account'.password = sessions[s].password
      BY <1>0, <2>3, <3>1 DEF AuthTypes
    <3>3. ~overtaken => sessions[s].password = account.password
      BY <1>0, <2>1 DEF PasswordsFit
    <3>4. sessions' \in [Sessions -> Row]
      BY <1>0, <2>1, <3>1 DEF AuthTypes
    <3>5. \A x \in Sessions :
             /\ sessions'[x].password = sessions[x].password /\ sessions'[x].used = sessions[x].used
             /\ sessions'[x].seen = sessions[x].seen /\ sessions'[x].idle = sessions[x].idle
             /\ sessions'[x].absolute = sessions[x].absolute
             /\ x # s => sessions'[x].state = sessions[x].state
      BY <1>0, <2>1, <3>1 DEF AuthTypes
    <3>6. AuthTypes'
      BY <1>0, <2>1, <3>2, <3>4 DEF AuthTypes
    <3>7. PasswordsFit'
      BY <1>0, <2>1, <3>1, <3>2, <3>3, <3>5 DEF PasswordsFit
    <3>8. TimesFit'
      BY <1>0, <2>1, <3>5 DEF TimesFit
    <3> QED BY <3>6, <3>7, <3>8 DEF AuthInv
  <2> QED BY <1>13, <2>2, <2>3 DEF Rehash
<1>14. ASSUME NEW s \in Sessions, OpenSession(s) \/ Revoke(s) PROVE AuthInv'
  <2>1. CASE OpenSession(s)
    BY <1>12, <2>1 DEF OpenSession, With
  <2>2. CASE Revoke(s)
    BY <1>12, <2>2 DEF Revoke, With, Live
  <2> QED BY <1>14, <2>1, <2>2
<1>15. ASSUME NEW s \in Sessions, Resolve(s) PROVE AuthInv'
  <2>1. /\ sessions[s] \in Row /\ account.status # "none" /\ sessions[s].state = "open"
        /\ UNCHANGED << clock, account, overtaken >> /\ clock \in Nat
        /\ TouchTime \in Nat \ {0} /\ clock + IdleTime \in Nat
    BY <1>0, <1>15, AuthAssumption DEF AuthTypes, PasswordsFit, Resolve, Live
  <2>2. CASE sessions' = [sessions EXCEPT ![s] = [sessions[s] EXCEPT !.state = "revoked"]]
    BY <1>12, <2>1, <2>2
  <2>3. CASE sessions' = [sessions EXCEPT ![s] = [sessions[s] EXCEPT
                 !.used = clock, !.seen = clock,
                 !.idle = LesserOf(clock + IdleTime, sessions[s].absolute)]]
    <3> DEFINE row == [sessions[s] EXCEPT !.used = clock, !.seen = clock,
                           !.idle = LesserOf(clock + IdleTime, sessions[s].absolute)]
    <3>1. LesserOf(clock + IdleTime, sessions[s].absolute) \in Nat
      BY <2>1 DEF LesserOf
    <3>2. /\ row \in Row /\ row.state = "open" /\ row.password = sessions[s].password
          /\ row.used = clock /\ row.seen = clock /\ row.absolute = sessions[s].absolute
          /\ row.idle = LesserOf(clock + IdleTime, sessions[s].absolute)
      BY <2>1, <3>1
    <3>3. sessions' = [sessions EXCEPT ![s] = row]
      BY <2>3
    <3> HIDE DEF row
    <3>4. /\ ~overtaken => row.password = account.password
          /\ row.seen <= row.used /\ row.used < row.seen + TouchTime /\ row.used <= clock
          /\ row.idle = LesserOf(row.seen + IdleTime, row.absolute)
      BY <1>0, <2>1, <3>2 DEF PasswordsFit
    <3> QED BY <1>2, <2>1, <3>2, <3>3, <3>4
  <2>4. CASE /\ sessions' = [sessions EXCEPT ![s] = [sessions[s] EXCEPT !.used = clock]]
             /\ ~(sessions[s].seen + TouchTime <= clock)
    <3> DEFINE row == [sessions[s] EXCEPT !.used = clock]
    <3>1. /\ row \in Row /\ row.state = "open" /\ row.password = sessions[s].password
          /\ row.used = clock /\ row.seen = sessions[s].seen /\ row.absolute = sessions[s].absolute
          /\ row.idle = sessions[s].idle
      BY <2>1
    <3>2. sessions' = [sessions EXCEPT ![s] = row]
      BY <2>4
    <3>3. sessions[s].seen <= clock
      BY <1>0, <2>1 DEF AuthTypes, TimesFit
    <3> HIDE DEF row
    <3>4. /\ ~overtaken => row.password = account.password
          /\ row.seen <= row.used /\ row.used < row.seen + TouchTime /\ row.used <= clock
          /\ row.idle = LesserOf(row.seen + IdleTime, row.absolute)
      BY <1>0, <2>1, <2>4, <3>1, <3>3 DEF PasswordsFit, TimesFit
    <3> QED BY <1>2, <2>1, <3>1, <3>2, <3>4
  <2> QED BY <1>15, <2>2, <2>3, <2>4 DEF Resolve, With
<1>16. CASE LogoutAll
  <2>1. /\ UNCHANGED << clock, account, overtaken >> /\ sessions' \in [Sessions -> Row]
        /\ \A s \in Sessions : IF Live(s) THEN sessions'[s].state = "revoked" ELSE sessions'[s] = sessions[s]
        /\ \E s \in Sessions : Live(s)
    BY <1>3, <1>16 DEF LogoutAll
  <2> QED BY <1>0, <2>1 DEF AuthInv, AuthTypes, PasswordsFit, TimesFit, Live
<1>17. CASE UNCHANGED authVars
  BY <1>0, <1>17 DEF authVars, AuthInv, AuthTypes, PasswordsFit, TimesFit
<1>18. ASSUME NEW s \in Sessions, BeginChange(s) PROVE AuthInv'
  BY <1>0, <1>18 DEF BeginChange, AuthInv, AuthTypes, PasswordsFit, TimesFit
<1> QED
  BY <1>5, <1>6, <1>7, <1>8, <1>9, <1>10, <1>11, <1>13, <1>14, <1>15, <1>16, <1>17, <1>18 DEF AuthNext

\* No session outlives the password it was opened with, unless one was set while a login
\* was under way.
THEOREM SessionsEnd == AuthSpec => []SessionsEndWithPassword
<1>1. AuthInv => SessionsEndWithPassword
  BY DEF AuthInv, PasswordsFit, SessionsEndWithPassword, Live
<1> QED BY AuthStart, AuthStep, <1>1, PTL DEF AuthSpec

\* A session that is used keeps, and none lasts longer than its absolute time.
THEOREM SessionsKeep == AuthSpec => []UsedSessionsKeep
<1>1. AuthInv => UsedSessionsKeep
  BY AuthAssumption DEF AuthInv, AuthTypes, TimesFit, UsedSessionsKeep, Live, LesserOf
<1> QED BY AuthStart, AuthStep, <1>1, PTL DEF AuthSpec

(***************************************************************************)
(* The turns of an agent session.                                          *)
(***************************************************************************)

Said  == [turn : Turns, role : {"user", "assistant"}, shows : SUBSET Keys]
Noted == [turn : Turns, event : {"LLM_STARTED", "LLM_FAILED", "LLM_COMPLETED",
                                 "TOOL_STARTED", "TOOL_COMPLETED"}]
Conversation == [state : {"none", "active", "archived", "purged"}, holder : Turns \cup {NoTurn},
                 live : BOOLEAN, shows : SUBSET Keys]
Course == [at : Screened \cup Over \cup {"new", "screening", "leaving"},
           key : Keys \cup {NoKey}, round : Nat]

AgentTypes ==
    /\ session \in Conversation
    /\ talk \in Seq(Said) /\ trace \in Seq(Noted)
    /\ turn \in [Turns -> Course]
    /\ lapses \in Nat

\* Entries of t are followed by entries of t only.
EndsWith(log, t) ==
    \A i, j \in DOMAIN log : i < j /\ log[i].turn = t => log[j].turn = t
Unheard(log, t) == \A i \in DOMAIN log : log[i].turn # t

\* The turns follow one another, the one that holds the session is the last, and one
\* that has not begun has written nothing.
LogFits(log) ==
    /\ OneAfterAnother(log)
    /\ \A t \in Turns : /\ session.holder = t => EndsWith(log, t)
                        /\ turn[t].at = "new" => Unheard(log, t)

\* A turn that holds the session has a lease that runs, as long as none ran out.
HolderLives ==
    /\ session.state = "none" => session.holder = NoTurn
    /\ session.live => session.holder \in Turns
    /\ lapses = 0 => \A t \in Turns :
           session.holder = t /\ turn[t].at \notin Over => session.live

AgentInv == AgentTypes /\ LogFits(talk) /\ LogFits(trace) /\ HolderLives /\ KeyStandsNowhere

\* AgentInv holds before there is a session.
LEMMA AgentStart == AgentInit => AgentInv
<1> SUFFICES ASSUME AgentInit PROVE AgentInv
  OBVIOUS
<1> USE AgentAssumption DEF AgentInit
<1>1. AgentTypes
  BY DEF AgentTypes, Conversation, Course, Screened
<1>2. LogFits(talk) /\ LogFits(trace)
  BY DEF LogFits, OneAfterAnother, EndsWith, Unheard
<1>3. HolderLives /\ KeyStandsNowhere
  BY DEF HolderLives, KeyStandsNowhere
<1> QED BY <1>1, <1>2, <1>3 DEF AgentInv

\* A log to which the holder appends still fits.
LEMMA LogGrows ==
    ASSUME NEW S, NEW log \in Seq(S), NEW x \in S, NEW t \in Turns, x.turn = t,
           OneAfterAnother(log), EndsWith(log, t)
    PROVE  /\ OneAfterAnother(Append(log, x)) /\ EndsWith(Append(log, x), t)
           /\ \A u \in Turns : u # t /\ Unheard(log, u) => Unheard(Append(log, x), u)
<1> DEFINE new == Append(log, x)
<1>1. /\ Len(new) = Len(log) + 1 /\ Len(log) \in Nat /\ DOMAIN new = 1..Len(new)
      /\ DOMAIN log = 1..Len(log) /\ new[Len(new)] = x
      /\ \A i \in 1..Len(log) : new[i] = log[i]
  OBVIOUS
<1> HIDE DEF new
<1>2. EndsWith(new, t)
  BY <1>1 DEF EndsWith
<1>3. OneAfterAnother(new)
  <2>1. SUFFICES ASSUME NEW i \in DOMAIN new, NEW j \in DOMAIN new, NEW k \in DOMAIN new,
                        i < j, j < k, new[i].turn = new[k].turn
                 PROVE new[j].turn = new[i].turn
    BY DEF OneAfterAnother
  <2>2. CASE k = Len(new)
    BY <1>1, <1>2, <2>1, <2>2 DEF EndsWith
  <2>3. CASE k # Len(new)
    <3>1. i \in DOMAIN log /\ j \in DOMAIN log /\ k \in DOMAIN log
      BY <1>1, <2>1, <2>3
    <3> QED BY <1>1, <2>1, <3>1 DEF OneAfterAnother
  <2> QED BY <2>2, <2>3
<1>4. ASSUME NEW u \in Turns, u # t, Unheard(log, u) PROVE Unheard(new, u)
  BY <1>1, <1>4 DEF Unheard
<1> QED BY <1>2, <1>3, <1>4 DEF new

\* The empty log fits, and one of which only other fields were changed.
LEMMA LogStays ==
    ASSUME NEW log, NEW new, new = << >> \/ (DOMAIN new = DOMAIN log /\ \A i \in DOMAIN log :
                                                new[i].turn = log[i].turn)
    PROVE  /\ OneAfterAnother(log) => OneAfterAnother(new)
           /\ \A t \in Turns : /\ EndsWith(log, t) => EndsWith(new, t)
                               /\ Unheard(log, t) => Unheard(new, t)
BY DEF OneAfterAnother, EndsWith, Unheard

\* Every step keeps AgentInv.
LEMMA AgentStep == AgentInv /\ [AgentNext]_agentVars => AgentInv'
<1> SUFFICES ASSUME AgentInv, [AgentNext]_agentVars PROVE AgentInv'
  OBVIOUS
<1>0. /\ AgentTypes /\ LogFits(talk) /\ LogFits(trace) /\ HolderLives /\ KeyStandsNowhere
      /\ NoTurn \notin Turns
  BY AgentAssumption DEF AgentInv
\* A step of no turn: the row changes, but no holder comes or is disturbed.
<1>1. ASSUME NEW row \in Conversation, session' = row, UNCHANGED << turn, talk, trace >>, lapses' \in Nat,
             lapses' = 0 => lapses = 0,
             row.holder = session.holder,
             row.state = "none" => session.state = "none",
             row.live => session.live,
             lapses' = 0 => \A t \in Turns : row.holder = t /\ turn[t].at \notin Over => row.live,
             row.shows = session.shows \/ ~session.live
      PROVE  AgentInv'
  <2>1. AgentTypes' /\ LogFits(talk)' /\ LogFits(trace)'
    BY <1>0, <1>1 DEF AgentTypes, LogFits
  <2>2. HolderLives'
    BY <1>0, <1>1 DEF HolderLives
  <2>3. KeyStandsNowhere'
    <3>1. ASSUME NEW t \in Turns, session.holder = t, turn[t].at \in Screened, lapses' = 0
          PROVE  turn[t].key \notin row.shows
      <4>1. session.live
        BY <1>0, <1>1, <3>1 DEF HolderLives, Screened, Writing, Over
      <4> QED BY <1>0, <1>1, <3>1, <4>1 DEF KeyStandsNowhere
    <3> QED BY <1>0, <1>1, <3>1 DEF KeyStandsNowhere
  <2> QED BY <2>1, <2>2, <2>3 DEF AgentInv
<1>2. session \in Conversation /\ lapses \in Nat
  BY <1>0 DEF AgentTypes
<1>3. CASE CreateSession
  <2>1. PICK shows \in SUBSET Keys : session' = [session EXCEPT !.state = "active", !.shows = shows]
    BY <1>3 DEF CreateSession
  <2> DEFINE row == [session EXCEPT !.state = "active", !.shows = shows]
  <2>2. /\ row \in Conversation /\ row.holder = session.holder /\ row.state = "active"
        /\ row.live = session.live
    BY <1>2 DEF Conversation
  <2>3. session' = row
    BY <2>1
  <2> HIDE DEF row
  <2>4. session.state = "none" /\ UNCHANGED << turn, talk, trace, lapses >>
    BY <1>3 DEF CreateSession, counts
  <2>5. session.holder \notin Turns /\ ~session.live
    BY <1>0, <2>4 DEF HolderLives
  <2> QED BY <1>1, <1>2, <2>2, <2>3, <2>4, <2>5
<1>4. CASE UpdateSession
  <2>1. PICK shows \in SUBSET Keys : session' = [session EXCEPT !.shows = shows]
    BY <1>4 DEF UpdateSession
  <2> DEFINE row == [session EXCEPT !.shows = shows]
  <2>2. /\ row \in Conversation /\ row.holder = session.holder /\ row.state = session.state
        /\ row.live = session.live
    BY <1>2 DEF Conversation
  <2>3. session' = row
    BY <2>1
  <2> HIDE DEF row
  <2>4. ~session.live /\ UNCHANGED << turn, talk, trace, lapses >>
    BY <1>4 DEF UpdateSession, Free
  <2>5. lapses = 0 => \A t \in Turns : row.holder = t /\ turn[t].at \notin Over => row.live
    BY <1>0, <2>2 DEF HolderLives
  <2> QED BY <1>1, <1>2, <2>2, <2>3, <2>4, <2>5
<1>5. CASE ArchiveSession \/ RestoreSession
  <2>1. PICK state \in {"active", "archived"} : session' = [session EXCEPT !.state = state]
    BY <1>5 DEF ArchiveSession, RestoreSession
  <2> DEFINE row == [session EXCEPT !.state = state]
  <2>2. /\ row \in Conversation /\ row.holder = session.holder /\ row.state # "none"
        /\ row.live = session.live /\ row.shows = session.shows
    BY <1>2 DEF Conversation
  <2>3. session' = row
    BY <2>1
  <2> HIDE DEF row
  <2>4. UNCHANGED << turn, talk, trace, lapses >>
    BY <1>5 DEF ArchiveSession, RestoreSession, counts
  <2>5. lapses = 0 => \A t \in Turns : row.holder = t /\ turn[t].at \notin Over => row.live
    BY <1>0, <2>2 DEF HolderLives
  <2> QED BY <1>1, <1>2, <2>2, <2>3, <2>4, <2>5
<1>6. CASE PurgeSession
  <2>1. /\ session' = [session EXCEPT !.state = "purged", !.holder = NoTurn, !.live = FALSE]
        /\ talk' = << >> /\ trace' = << >> /\ UNCHANGED << turn, lapses >>
    BY <1>6 DEF PurgeSession, counts
  <2>2. /\ session' \in Conversation /\ session'.holder = NoTurn /\ session'.live = FALSE
        /\ session'.state = "purged"
    BY <1>2, <2>1 DEF Conversation
  <2>3. AgentTypes' /\ HolderLives' /\ KeyStandsNowhere'
    BY <1>0, <2>1, <2>2 DEF AgentTypes, HolderLives, KeyStandsNowhere
  <2>4. LogFits(talk)' /\ LogFits(trace)'
    BY <2>1 DEF LogFits, OneAfterAnother, EndsWith, Unheard
  <2> QED BY <2>3, <2>4 DEF AgentInv
<1>7. CASE TargetChanges
  BY <1>0, <1>7 DEF TargetChanges, AgentInv, AgentTypes, LogFits, HolderLives, KeyStandsNowhere
<1>8. CASE LeaseLapses
  <2> DEFINE row == [session EXCEPT !.live = FALSE]
  <2>1. /\ row \in Conversation /\ row.holder = session.holder /\ row.state = session.state
        /\ row.live = FALSE /\ row.shows = session.shows
    BY <1>2 DEF Conversation
  <2>2. session' = row /\ UNCHANGED << turn, talk, trace >> /\ session.live
    BY <1>8 DEF LeaseLapses
  <2> HIDE DEF row
  <2>3. /\ lapses' \in Nat /\ (lapses' = 0 => lapses = 0)
        /\ lapses' = 0 => turn[session.holder].at \in Over
    BY <1>2, <1>8 DEF LeaseLapses
  <2> QED BY <1>1, <2>1, <2>2, <2>3
\* A step of turn t, which goes on from where it is: it writes nothing, or holds the
\* session and writes what does not show its key.
<1>9. ASSUME NEW t \in Turns, NEW course \in Course, turn' = [turn EXCEPT ![t] = course],
             UNCHANGED << session, lapses >>,
             turn[t].at \notin Over \cup {"new"}, course.at # "new", course.key = turn[t].key,
             course.at \in Screened => turn[t].at \in Screened,
             \/ UNCHANGED talk
             \/ session.holder = t /\ \E x \in Said :
                    x.turn = t /\ turn[t].key \notin x.shows /\ talk' = Append(talk, x),
             \/ UNCHANGED trace
             \/ session.holder = t /\ \E x \in Noted : x.turn = t /\ trace' = Append(trace, x)
      PROVE  AgentInv'
  <2>1. talk' \in Seq(Said) /\ trace' \in Seq(Noted) /\ turn' \in [Turns -> Course]
    <3>1. talk \in Seq(Said) /\ trace \in Seq(Noted) /\ turn \in [Turns -> Course]
      BY <1>0 DEF AgentTypes
    <3>2. talk' \in Seq(Said)
      <4>1. CASE UNCHANGED talk
        BY <3>1, <4>1
      <4>2. ASSUME NEW x \in Said, talk' = Append(talk, x) PROVE talk' \in Seq(Said)
        BY <3>1, <4>2
      <4> QED BY <1>9, <4>1, <4>2
    <3>3. trace' \in Seq(Noted)
      <4>1. CASE UNCHANGED trace
        BY <3>1, <4>1
      <4>2. ASSUME NEW x \in Noted, trace' = Append(trace, x) PROVE trace' \in Seq(Noted)
        BY <3>1, <4>2
      <4> QED BY <1>9, <4>1, <4>2
    <3> QED BY <1>9, <3>1, <3>2, <3>3
  <2>2. AgentTypes' /\ HolderLives'
    BY <1>0, <1>9, <2>1 DEF AgentTypes, HolderLives
  <2>3. \A u \in Turns : /\ u # t => turn'[u] = turn[u]
                        /\ turn'[u].at = "new" => u # t /\ turn[u].at = "new"
    BY <1>0, <1>9 DEF AgentTypes
  <2>4. LogFits(talk)'
    <3>1. CASE UNCHANGED talk
      BY <1>0, <1>9, <2>3, <3>1 DEF LogFits
    <3>2. ASSUME session.holder = t, NEW x \in Said, x.turn = t, talk' = Append(talk, x)
          PROVE  LogFits(talk)'
      <4>1. talk \in Seq(Said) /\ OneAfterAnother(talk) /\ EndsWith(talk, t)
        BY <1>0, <3>2 DEF AgentTypes, LogFits
      <4>2. /\ OneAfterAnother(talk') /\ EndsWith(talk', t)
            /\ \A u \in Turns : u # t /\ Unheard(talk, u) => Unheard(talk', u)
        BY <3>2, <4>1, LogGrows
      <4> QED BY <1>0, <1>9, <2>3, <3>2, <4>2 DEF LogFits
    <3> QED BY <1>9, <3>1, <3>2
  <2>5. LogFits(trace)'
    <3>1. CASE UNCHANGED trace
      BY <1>0, <1>9, <2>3, <3>1 DEF LogFits
    <3>2. ASSUME session.holder = t, NEW x \in Noted, x.turn = t, trace' = Append(trace, x)
          PROVE  LogFits(trace)'
      <4>1. trace \in Seq(Noted) /\ OneAfterAnother(trace) /\ EndsWith(trace, t)
        BY <1>0, <3>2 DEF AgentTypes, LogFits
      <4>2. /\ OneAfterAnother(trace') /\ EndsWith(trace', t)
            /\ \A u \in Turns : u # t /\ Unheard(trace, u) => Unheard(trace', u)
        BY <3>2, <4>1, LogGrows
      <4> QED BY <1>0, <1>9, <2>3, <3>2, <4>2 DEF LogFits
    <3> QED BY <1>9, <3>1, <3>2
  <2>6. KeyStandsNowhere'
    <3>1. SUFFICES ASSUME NEW u \in Turns, session.holder = u, turn'[u].at \in Screened
                   PROVE  /\ \A n \in DOMAIN talk' : turn'[u].key \notin talk'[n].shows
                          /\ lapses = 0 => turn'[u].key \notin session.shows
      BY <1>9 DEF KeyStandsNowhere
    <3>2. turn[u].at \in Screened /\ turn'[u].key = turn[u].key
      BY <1>0, <1>9, <2>3, <3>1 DEF AgentTypes
    <3>3. /\ \A n \in DOMAIN talk : turn[u].key \notin talk[n].shows
          /\ lapses = 0 => turn[u].key \notin session.shows
      BY <1>0, <3>1, <3>2 DEF KeyStandsNowhere
    <3>4. CASE UNCHANGED talk
      BY <3>2, <3>3, <3>4
    <3>5. ASSUME session.holder = t, NEW x \in Said, turn[t].key \notin x.shows,
                 talk' = Append(talk, x)
          PROVE  \A n \in DOMAIN talk' : turn'[u].key \notin talk'[n].shows
      <4>1. talk \in Seq(Said) /\ u = t
        BY <1>0, <3>1, <3>5 DEF AgentTypes
      <4>2. \A n \in DOMAIN talk' : talk'[n] = x \/ (n \in DOMAIN talk /\ talk'[n] = talk[n])
        BY <3>5, <4>1
      <4> QED BY <3>2, <3>3, <3>5, <4>1, <4>2
    <3> QED BY <1>9, <3>2, <3>3, <3>4, <3>5
  <2> QED BY <2>2, <2>4, <2>5, <2>6 DEF AgentInv
\* Where a turn may go, once it is screened.
<1>10. ASSUME NEW t \in Turns, NEW to, to \in Screened \cup {"failed", "answered", "dead", "leaving"},
              Enter(t, to)
       PROVE  \E course \in Course : /\ turn' = [turn EXCEPT ![t] = course]
                                     /\ course.at = to /\ course.key = turn[t].key
  <2> DEFINE course == [turn[t] EXCEPT !.at = to]
  <2>1. turn[t] \in Course
    BY <1>0 DEF AgentTypes
  <2>2. course \in Course /\ course.at = to /\ course.key = turn[t].key
    BY <1>10, <2>1 DEF Course, Over
  <2>3. turn' = [turn EXCEPT ![t] = course]
    BY <1>10 DEF Enter
  <2> HIDE DEF course
  <2> QED BY <2>2, <2>3
\* The step of a screened turn: it stays screened, or leaves.
<1>11. ASSUME NEW t \in Turns, turn[t].at \in Screened,
              NEW to \in Screened \cup {"leaving"}, Enter(t, to), UNCHANGED << session, lapses >>,
              \/ UNCHANGED talk
              \/ session.holder = t /\ \E x \in Said :
                     x.turn = t /\ turn[t].key \notin x.shows /\ talk' = Append(talk, x),
              \/ UNCHANGED trace
              \/ session.holder = t /\ \E x \in Noted : x.turn = t /\ trace' = Append(trace, x)
       PROVE  AgentInv'
  <2>1. turn[t].at \notin Over \cup {"new"} /\ to # "new"
    BY <1>11 DEF Screened, Writing, Over
  <2> QED BY <1>9, <1>10, <1>11, <2>1
\* What a turn writes.
<1>12. ASSUME NEW t \in Turns, NEW role \in {"user", "assistant"}, NEW to, Say(t, role, to)
       PROVE  /\ session.holder = t /\ Enter(t, to)
              /\ \E x \in Said : x.turn = t /\ turn[t].key \notin x.shows /\ talk' = Append(talk, x)
  <2>1. PICK shows \in SUBSET (Keys \ {turn[t].key}) :
          talk' = Append(talk, [turn |-> t, role |-> role, shows |-> shows])
    BY <1>12 DEF Say
  <2>2. [turn |-> t, role |-> role, shows |-> shows] \in Said
    BY DEF Said
  <2> QED BY <1>12, <2>1, <2>2 DEF Say, HoldsTurn
<1>13. ASSUME NEW t \in Turns, NEW event \in {"LLM_STARTED", "LLM_FAILED", "LLM_COMPLETED",
                                            "TOOL_STARTED", "TOOL_COMPLETED"}, NoteEvent(t, event)
       PROVE  session.holder = t /\ \E x \in Noted : x.turn = t /\ trace' = Append(trace, x)
  <2>1. [turn |-> t, event |-> event] \in Noted /\ trace' = Append(trace, [turn |-> t, event |-> event])
    BY <1>13 DEF NoteEvent, Noted
  <2> QED BY <1>13, <2>1 DEF NoteEvent, HoldsTurn
<1>14. ASSUME NEW t \in Turns, Ask(t) \/ TellAnswer(t) PROVE AgentInv'
  <2>1. CASE Ask(t)
    <3>1. /\ turn[t].at \in Screened /\ Say(t, "user", "starting")
          /\ UNCHANGED << session, trace, lapses >> /\ "starting" \in Screened
      BY <2>1 DEF Ask, Screened, Writing, counts
    <3> QED BY <1>11, <1>12, <3>1
  <2>2. CASE TellAnswer(t)
    <3>1. /\ turn[t].at \in Screened /\ Say(t, "assistant", "told")
          /\ UNCHANGED << session, trace, lapses >> /\ "told" \in Screened
      BY <2>2 DEF TellAnswer, Screened, Writing, counts
    <3> QED BY <1>11, <1>12, <3>1
  <2> QED BY <1>14, <2>1, <2>2
<1>15. ASSUME NEW t \in Turns, StartRound(t) PROVE AgentInv'
  <2> DEFINE course == [turn[t] EXCEPT !.at = "thinking", !.round = @ + 1]
  <2>1. turn[t] \in Course /\ turn[t].round + 1 \in Nat
    BY <1>0 DEF AgentTypes, Course
  <2>2. course \in Course /\ course.at = "thinking" /\ course.key = turn[t].key
    BY <2>1 DEF Course, Screened
  <2>3. turn' = [turn EXCEPT ![t] = course]
    BY <1>15 DEF StartRound
  <2> HIDE DEF course
  <2>4. /\ turn[t].at = "starting" /\ NoteEvent(t, "LLM_STARTED")
        /\ UNCHANGED << session, talk, lapses >>
    BY <1>15 DEF StartRound, counts
  <2>5. turn[t].at \in Screened /\ turn[t].at \notin Over \cup {"new"}
    BY <2>4 DEF Screened, Writing, Over
  <2> QED BY <1>9, <1>13, <2>2, <2>3, <2>4, <2>5
<1>16. ASSUME NEW t \in Turns, ModelReplies(t) PROVE AgentInv'
  <2>1. /\ turn[t].at \in Screened /\ UNCHANGED << session, talk, trace, lapses >>
        /\ \E to \in Screened \cup {"leaving"} : Enter(t, to)
    BY <1>16 DEF ModelReplies, Screened, Writing, counts
  <2> QED BY <1>11, <2>1
<1>17. ASSUME NEW t \in Turns, NoteFailure(t) \/ StartTool(t) \/ EndTool(t) \/ CloseRounds(t)
       PROVE  AgentInv'
  <2>1. /\ turn[t].at \in Screened /\ UNCHANGED << session, talk, lapses >>
        /\ \E event \in {"LLM_STARTED", "LLM_FAILED", "LLM_COMPLETED", "TOOL_STARTED", "TOOL_COMPLETED"} :
               NoteEvent(t, event)
        /\ \E to \in Screened \cup {"leaving"} : Enter(t, to)
    BY <1>17 DEF NoteFailure, StartTool, EndTool, CloseRounds, Screened, Writing, counts
  <2> QED BY <1>11, <1>13, <2>1
<1>18. ASSUME NEW t \in Turns, Refused(t) \/ CallFails(t) PROVE AgentInv'
  <2>1. /\ turn[t].at \in Screened \cup {"screening"} /\ Enter(t, "leaving")
        /\ UNCHANGED << session, talk, trace, lapses >>
    BY <1>18 DEF Refused, CallFails, GiveUp, Screened, counts
  <2>2. turn[t].at \notin Over \cup {"new"} /\ "leaving" \notin Screened
    BY <2>1 DEF Over, Screened, Writing
  <2> QED BY <1>9, <1>10, <2>1, <2>2
<1>19. ASSUME NEW t \in Turns, TurnDies(t) PROVE AgentInv'
  <2>1. /\ turn[t].at \notin Over \cup {"new"} /\ Enter(t, "dead")
        /\ UNCHANGED << session, talk, trace, lapses >>
    BY <1>19 DEF TurnDies
  <2>2. "dead" \notin Screened
    BY DEF Screened, Writing
  <2> QED BY <1>9, <1>10, <2>1, <2>2
<1>20. ASSUME NEW t \in Turns, RenewFails(t) PROVE AgentInv'
  BY <1>0, <1>20 DEF RenewFails, AgentInv, AgentTypes, LogFits, HolderLives, KeyStandsNowhere
<1>21. ASSUME NEW t \in Turns, RenewTurn(t) PROVE AgentInv'
  <2>1. CASE HoldsTurn(t)
    <3>1. session' = [session EXCEPT !.live = TRUE] /\ UNCHANGED << talk, trace, turn, lapses >>
          /\ session.holder = t /\ session.state = "active"
      BY <1>21, <2>1 DEF RenewTurn, HoldsTurn, counts
    <3>2. /\ session' \in Conversation /\ session'.holder = t /\ session'.state = "active"
          /\ session'.live = TRUE /\ session'.shows = session.shows
      BY <1>2, <3>1 DEF Conversation
    <3> QED BY <1>0, <3>1, <3>2 DEF AgentInv, AgentTypes, LogFits, HolderLives, KeyStandsNowhere
  <2>2. CASE ~HoldsTurn(t)
    <3>1. UNCHANGED << session, talk, trace, turn, lapses >>
      BY <1>21, <2>2 DEF RenewTurn, counts
    <3> QED BY <1>0, <3>1 DEF AgentInv, AgentTypes, LogFits, HolderLives, KeyStandsNowhere
  <2> QED BY <2>1, <2>2
<1>22. ASSUME NEW t \in Turns, Release(t) PROVE AgentInv'
  <2>1. turn[t].at \notin Over \cup {"new"} /\ UNCHANGED << talk, trace, lapses >>
        /\ "failed" \notin Screened /\ "answered" \notin Screened
    BY <1>22 DEF Release, Over, Screened, Writing
  <2>2. CASE UNCHANGED session
    <3>1. \E to \in {"failed", "answered"} : Enter(t, to)
      BY <1>22 DEF Release
    <3> QED BY <1>9, <1>10, <2>1, <2>2, <3>1
  <2>3. CASE session' = [session EXCEPT !.holder = NoTurn, !.live = FALSE]
    <3>1. \E to \in {"failed", "answered"} : Enter(t, to)
      BY <1>22 DEF Release
    <3>2. PICK course \in Course : turn' = [turn EXCEPT ![t] = course] /\ course.at \in {"failed", "answered"}
      BY <1>10, <3>1
    <3>3. /\ session' \in Conversation /\ session'.holder = NoTurn /\ session'.live = FALSE
          /\ session'.state = session.state
      BY <1>2, <2>3 DEF Conversation
    <3>4. AgentTypes'
      BY <1>0, <2>1, <3>2, <3>3 DEF AgentTypes
    <3>5. \A u \in Turns : turn'[u].at = "new" => turn[u].at = "new"
      BY <1>0, <3>2 DEF AgentTypes
    <3>6. LogFits(talk)' /\ LogFits(trace)'
      BY <1>0, <2>1, <3>3, <3>5 DEF LogFits
    <3>7. HolderLives' /\ KeyStandsNowhere'
      BY <1>0, <3>3 DEF HolderLives, KeyStandsNowhere
    <3> QED BY <3>4, <3>6, <3>7 DEF AgentInv
  <2> QED BY <1>22, <2>2, <2>3 DEF Release
<1>23. ASSUME NEW t \in Turns, ClaimTurn(t) PROVE AgentInv'
  <2>1. PICK k \in Keys \cup {NoKey} : turn' = [turn EXCEPT ![t].at = "screening", ![t].key = k]
    BY <1>23 DEF ClaimTurn
  <2>2. turn[t].at = "new" /\ session' = [session EXCEPT !.holder = t, !.live = TRUE]
        /\ session.state = "active" /\ UNCHANGED << talk, trace, lapses >>
    BY <1>23 DEF ClaimTurn, Free, counts
  <2>3. /\ turn' \in [Turns -> Course] /\ turn'[t].at = "screening"
        /\ \A u \in Turns : u # t => turn'[u] = turn[u]
    <3> DEFINE course == [turn[t] EXCEPT !.at = "screening", !.key = k]
    <3>1. turn[t] \in Course
      BY <1>0 DEF AgentTypes
    <3>2. course \in Course /\ course.at = "screening"
      BY <3>1 DEF Course
    <3>3. turn' = [turn EXCEPT ![t] = course]
      BY <2>1
    <3> HIDE DEF course
    <3> QED BY <1>0, <3>2, <3>3 DEF AgentTypes
  <2>4. /\ session' \in Conversation /\ session'.holder = t /\ session'.live = TRUE
        /\ session'.state = "active"
    BY <1>2, <2>2 DEF Conversation
  <2>5. AgentTypes'
    BY <1>0, <2>2, <2>3, <2>4 DEF AgentTypes
  <2>6. Unheard(talk, t) /\ Unheard(trace, t)
    BY <1>0, <2>2 DEF LogFits
  <2>7. LogFits(talk)' /\ LogFits(trace)'
    BY <1>0, <2>2, <2>3, <2>4, <2>6 DEF LogFits, EndsWith, Unheard
  <2>8. HolderLives'
    BY <1>0, <2>4 DEF HolderLives
  <2>9. KeyStandsNowhere'
    BY <2>3, <2>4 DEF KeyStandsNowhere, Screened, Writing
  <2> QED BY <2>5, <2>7, <2>8, <2>9 DEF AgentInv
<1>24. ASSUME NEW t \in Turns, Screen(t) PROVE AgentInv'
  <2> DEFINE k == turn[t].key
  <2>1. turn[t].at = "screening" /\ session.holder = t /\ UNCHANGED << trace, lapses >>
    BY <1>24 DEF Screen, counts
  <2>2. CASE k \in Shown
    <3>1. /\ session' = [session EXCEPT !.state = "archived", !.shows = @ \ {k}]
          /\ talk' = [n \in DOMAIN talk |-> [talk[n] EXCEPT !.shows = @ \ {k}]]
          /\ Enter(t, "leaving")
      BY <1>24, <2>2 DEF Screen
    <3>2. PICK course \in Course : turn' = [turn EXCEPT ![t] = course] /\ course.at = "leaving"
      BY <1>10, <3>1
    <3>3. /\ session' \in Conversation /\ session'.holder = t /\ session'.live = session.live
          /\ session'.state = "archived"
      BY <1>2, <2>1, <3>1 DEF Conversation
    <3>4. talk' \in Seq(Said) /\ DOMAIN talk' = DOMAIN talk
          /\ \A n \in DOMAIN talk : talk'[n].turn = talk[n].turn
      <4>1. talk \in Seq(Said)
        BY <1>0 DEF AgentTypes
      <4>2. /\ Len(talk) \in Nat /\ DOMAIN talk = 1..Len(talk)
            /\ \A n \in DOMAIN talk : talk[n] \in Said
        BY <4>1
      <4>3. \A n \in DOMAIN talk : /\ [talk[n] EXCEPT !.shows = @ \ {k}] \in Said
                                   /\ [talk[n] EXCEPT !.shows = @ \ {k}].turn = talk[n].turn
        BY <4>2 DEF Said
      <4> DEFINE row(n) == [talk[n] EXCEPT !.shows = @ \ {k}]
      <4>4. talk' = [n \in DOMAIN talk |-> row(n)]
        BY <3>1
      <4>5. \A n \in DOMAIN talk : row(n) \in Said /\ row(n).turn = talk[n].turn
        BY <4>3
      <4> HIDE DEF row
      <4>6. talk' \in [1..Len(talk) -> Said]
        BY <4>2, <4>4, <4>5
      <4>7. talk' \in Seq(Said)
        BY <4>2, <4>6
      <4> QED BY <4>2, <4>4, <4>5, <4>7
    <3>5. AgentTypes'
      BY <1>0, <2>1, <3>2, <3>3, <3>4 DEF AgentTypes
    <3>6. \A u \in Turns : (turn'[u].at = "new" => turn[u].at = "new") /\ (u # t => turn'[u] = turn[u])
      BY <1>0, <3>2 DEF AgentTypes
    <3>7. LogFits(talk)'
      <4>1. /\ OneAfterAnother(talk) => OneAfterAnother(talk')
            /\ \A u \in Turns : /\ EndsWith(talk, u) => EndsWith(talk', u)
                                /\ Unheard(talk, u) => Unheard(talk', u)
        BY <3>4, LogStays
      <4> QED BY <1>0, <2>1, <3>3, <3>6, <4>1 DEF LogFits
    <3>8. LogFits(trace)'
      BY <1>0, <2>1, <3>3, <3>6 DEF LogFits
    <3>9. HolderLives'
      BY <1>0, <2>1, <3>3 DEF HolderLives, Over
    <3>10. KeyStandsNowhere'
      BY <1>0, <2>1, <3>2, <3>3 DEF KeyStandsNowhere, Screened, Writing, AgentTypes
    <3> QED BY <3>5, <3>7, <3>8, <3>9, <3>10 DEF AgentInv
  <2>3. CASE k \notin Shown
    <3>1. UNCHANGED << session, talk >> /\ \E to \in {"asking", "leaving"} : Enter(t, to)
      BY <1>24, <2>3 DEF Screen
    <3>2. PICK course \in Course : turn' = [turn EXCEPT ![t] = course] /\ course.key = k
                                  /\ course.at \in {"asking", "leaving"}
      BY <1>10, <3>1 DEF Screened, Writing
    <3>3. AgentTypes'
      BY <1>0, <2>1, <3>1, <3>2 DEF AgentTypes
    <3>4. \A u \in Turns : (turn'[u].at = "new" => turn[u].at = "new") /\ (u # t => turn'[u] = turn[u])
      BY <1>0, <3>2 DEF AgentTypes
    <3>5. LogFits(talk)' /\ LogFits(trace)'
      BY <1>0, <2>1, <3>1, <3>4 DEF LogFits
    <3>6. HolderLives'
      BY <1>0, <2>1, <3>1, <3>2, <3>4 DEF HolderLives, Over, AgentTypes
    <3>7. k \notin session.shows /\ \A n \in DOMAIN talk : k \notin talk[n].shows
      BY <2>3 DEF Shown
    <3>8. KeyStandsNowhere'
      BY <1>0, <2>1, <3>1, <3>2, <3>7 DEF KeyStandsNowhere, AgentTypes
    <3> QED BY <3>3, <3>5, <3>6, <3>8 DEF AgentInv
  <2> QED BY <2>2, <2>3
<1>25. CASE UNCHANGED agentVars
  BY <1>0, <1>25 DEF agentVars, counts, AgentInv, AgentTypes, LogFits, HolderLives, KeyStandsNowhere
<1> QED
  BY <1>3, <1>4, <1>5, <1>6, <1>7, <1>8, <1>14, <1>15, <1>16, <1>17, <1>18, <1>19, <1>20, <1>21,
     <1>22, <1>23, <1>24, <1>25 DEF AgentNext, TurnStep

\* A turn that was overtaken writes nothing more: no two turns mix.
THEOREM TurnsStayApart == AgentSpec => []TurnsDoNotMix
<1>1. AgentInv => TurnsDoNotMix
  BY DEF AgentInv, LogFits, TurnsDoNotMix
<1> QED BY AgentStart, AgentStep, <1>1, PTL DEF AgentSpec

\* The key of the turn that holds the session stands in nothing the turn reads.
THEOREM KeysAreScreened == AgentSpec => []KeyStandsNowhere
<1>1. AgentInv => KeyStandsNowhere
  BY DEF AgentInv
<1> QED BY AgentStart, AgentStep, <1>1, PTL DEF AgentSpec

\* Whom a turn leaves the session to.  A lease outlasts its turn only when a call failed or
\* a process died, and nobody renews it then: it runs out, and the session is free again.
LeaseComesBack ==
    /\ \A t \in Turns : session.holder = t /\ turn[t].at \in Over => affairs > 0
    /\ \A t \in pulse : turn[t].at \notin Over

\* Heartbeats are those of turns that were begun and are not over, as every holder was begun.
BackInv ==
    /\ affairs \in Nat
    /\ pulse \subseteq {t \in Turns : turn[t].at \notin Over \cup {"new"}}
    /\ \A t \in Turns : session.holder = t => turn[t].at # "new"
    /\ LeaseComesBack

\* BackInv holds before there is a session.
LEMMA BackStart == AgentInit => BackInv
BY AgentAssumption DEF AgentInit, BackInv, LeaseComesBack, Over

\* A turn that goes on, holding what it held, keeps BackInv; one that ends must have said
\* so, or given the session back.
LEMMA TurnLive ==
    ASSUME AgentTypes, BackInv, NEW t \in Turns, NEW course \in Course,
           turn' = [turn EXCEPT ![t] = course], course.at # "new",
           pulse' \subseteq pulse, affairs' \in Nat, affairs' >= affairs,
           session'.holder \in {session.holder, NoTurn},
           course.at \in Over => t \notin pulse' /\ (affairs' > 0 \/ session'.holder # t)
    PROVE  BackInv'
<1> USE AgentAssumption
<1>1. turn'[t] = course /\ \A u \in Turns : u # t => turn'[u] = turn[u]
  BY DEF AgentTypes
<1>2. (pulse \subseteq {u \in Turns : turn[u].at \notin Over \cup {"new"}})'
  BY <1>1 DEF BackInv
<1>3. \A u \in Turns : session'.holder = u => turn'[u].at # "new"
  BY <1>1 DEF BackInv
<1>4. \A u \in Turns : session'.holder = u /\ turn'[u].at \in Over => affairs' > 0
  <2>1. SUFFICES ASSUME NEW u \in Turns, u # t, session'.holder = u, turn'[u].at \in Over
                 PROVE affairs' > 0
    BY <1>1
  <2>2. session.holder = u /\ turn[u].at \in Over
    BY <1>1, <2>1
  <2>3. affairs > 0 /\ affairs \in Nat
    BY <2>2 DEF BackInv, LeaseComesBack
  <2> QED BY <2>3
<1> QED BY <1>2, <1>3, <1>4 DEF BackInv, LeaseComesBack

\* Every step keeps BackInv.
LEMMA BackStep == AgentInv /\ BackInv /\ [AgentNext]_agentVars => BackInv'
<1> SUFFICES ASSUME AgentInv, BackInv, [AgentNext]_agentVars PROVE BackInv'
  OBVIOUS
<1> USE AgentAssumption
<1>0. AgentTypes /\ affairs \in Nat
  BY DEF AgentInv, BackInv
\* A step of no turn.
<1>1. ASSUME UNCHANGED turn, pulse' \subseteq pulse, affairs' \in Nat, affairs' >= affairs,
             session'.holder \in {session.holder, NoTurn}
      PROVE  BackInv'
  <2>1. \A u \in Turns : session'.holder = u => session.holder = u
    BY <1>1
  <2>2. affairs > 0 => affairs' > 0
    BY <1>0, <1>1
  <2>3. affairs' \in Nat /\ UNCHANGED turn /\ pulse' \subseteq pulse
    BY <1>1
  <2> QED BY <2>1, <2>2, <2>3 DEF BackInv, LeaseComesBack
<1>2. Affair => affairs' \in Nat /\ affairs' >= affairs /\ affairs' > 0
  BY <1>0 DEF Affair
<1>3. session \in Conversation
  BY <1>0 DEF AgentTypes
<1>4. CASE CreateSession
  BY <1>0, <1>1, <1>3, <1>4 DEF CreateSession, Conversation, counts
<1>5. CASE UpdateSession
  BY <1>1, <1>2, <1>3, <1>5 DEF UpdateSession, Conversation
<1>6. CASE ArchiveSession
  BY <1>1, <1>2, <1>3, <1>6 DEF ArchiveSession, Conversation
<1>7. CASE RestoreSession
  BY <1>0, <1>1, <1>3, <1>7 DEF RestoreSession, Conversation, counts
<1>8. CASE PurgeSession
  BY <1>0, <1>1, <1>3, <1>8 DEF PurgeSession, Conversation, counts
<1>9. CASE TargetChanges
  BY <1>0, <1>1, <1>2, <1>9 DEF TargetChanges
<1>10. CASE LeaseLapses
  BY <1>0, <1>1, <1>3, <1>10 DEF LeaseLapses, Conversation
<1>11. CASE UNCHANGED agentVars
  BY <1>0, <1>1, <1>11 DEF agentVars, counts
<1>12. ASSUME NEW t \in Turns, TurnStep(t) PROVE BackInv'
  <2>0. turn[t] \in Course
    BY <1>0 DEF AgentTypes
  \* The turn moves on to another place, and writes perhaps.
  <2>1. ASSUME NEW to \in Screened \cup {"screening", "leaving"}, Enter(t, to),
               UNCHANGED session, pulse' \subseteq pulse, UNCHANGED affairs \/ Affair
        PROVE  BackInv'
    <3> DEFINE course == [turn[t] EXCEPT !.at = to]
    <3>1. course \in Course /\ course.at = to
      BY <2>0, <2>1 DEF Course
    <3>2. turn' = [turn EXCEPT ![t] = course]
      BY <2>1 DEF Enter
    <3>3. to # "new" /\ to \notin Over
      BY <2>1 DEF Screened, Writing, Over
    <3>4. affairs' \in Nat /\ affairs' >= affairs
      BY <1>0, <1>2, <2>1
    <3> HIDE DEF course
    <3> QED BY <1>0, <2>1, <3>1, <3>2, <3>3, <3>4, TurnLive
  <2>2. CASE ClaimTurn(t)
    <3>1. PICK k \in Keys \cup {NoKey} : turn' = [turn EXCEPT ![t].at = "screening", ![t].key = k]
      BY <2>2 DEF ClaimTurn
    <3>2. turn'[t].at = "screening" /\ \A u \in Turns : u # t => turn'[u] = turn[u]
      BY <1>0, <2>0, <3>1 DEF AgentTypes, Course
    <3>3. session'.holder = t /\ pulse' = pulse \cup {t} /\ UNCHANGED affairs
      BY <1>3, <2>2 DEF ClaimTurn, Conversation, counts
    <3> QED BY <3>2, <3>3 DEF BackInv, LeaseComesBack, Over
  <2>3. CASE Screen(t)
    <3>1. PICK to \in {"leaving", "asking"} : Enter(t, to)
      BY <2>3 DEF Screen
    <3>2. session'.holder = session.holder /\ UNCHANGED << pulse, affairs >>
      BY <1>3, <2>3 DEF Screen, Conversation, counts
    <3> DEFINE course == [turn[t] EXCEPT !.at = to]
    <3>3. course \in Course /\ course.at = to
      BY <2>0 DEF Course, Screened, Writing
    <3>4. turn' = [turn EXCEPT ![t] = course]
      BY <3>1 DEF Enter
    <3>5. course.at # "new" /\ course.at \notin Over
      BY <3>3 DEF Over
    <3>6. /\ affairs' \in Nat /\ affairs' >= affairs /\ pulse' \subseteq pulse
          /\ session'.holder \in {session.holder, NoTurn}
      BY <1>0, <3>2
    <3> HIDE DEF course
    <3> QED BY <1>0, <3>3, <3>4, <3>5, <3>6, TurnLive
  <2>4. CASE StartRound(t)
    <3> DEFINE course == [turn[t] EXCEPT !.at = "thinking", !.round = @ + 1]
    <3>1. course \in Course /\ course.at = "thinking"
      <4>1. turn[t].round \in Nat /\ turn[t].round + 1 \in Nat
        BY <2>0 DEF Course
      <4> QED BY <2>0, <4>1 DEF Course, Screened
    <3>2. turn' = [turn EXCEPT ![t] = course]
      BY <2>4 DEF StartRound
    <3>3. UNCHANGED << session, pulse, affairs >>
      BY <2>4 DEF StartRound, counts
    <3>4. course.at # "new" /\ course.at \notin Over
      BY <3>1 DEF Over
    <3>5. /\ affairs' \in Nat /\ affairs' >= affairs /\ pulse' \subseteq pulse
          /\ session'.holder \in {session.holder, NoTurn}
      BY <1>0, <3>3
    <3> HIDE DEF course
    <3> QED BY <1>0, <3>1, <3>2, <3>4, <3>5, TurnLive
  <2>5. CASE Ask(t)
    BY <2>1, <2>5 DEF Ask, Say, counts, Screened, Writing
  <2>6. CASE TellAnswer(t)
    BY <2>1, <2>6 DEF TellAnswer, Say, counts, Screened, Writing
  <2>7. CASE ModelReplies(t)
    BY <2>1, <2>7 DEF ModelReplies, counts, Screened, Writing
  <2>8. CASE NoteFailure(t)
    BY <2>1, <2>8 DEF NoteFailure, counts
  <2>9. CASE StartTool(t)
    BY <2>1, <2>9 DEF StartTool, counts, Screened, Writing
  <2>10. CASE EndTool(t)
    BY <2>1, <2>10 DEF EndTool, counts, Screened, Writing
  <2>11. CASE CloseRounds(t)
    BY <2>1, <2>11 DEF CloseRounds, counts, Screened, Writing
  <2>12. CASE Refused(t) \/ CallFails(t)
    BY <2>1, <2>12 DEF Refused, CallFails, GiveUp, counts
  <2>13. CASE Release(t)
    <3>1. PICK to \in {"answered", "failed"} : Enter(t, to)
      BY <2>13 DEF Release
    <3>2. /\ session'.holder \in {session.holder, NoTurn} /\ pulse' = pulse \ {t}
          /\ affairs' \in Nat /\ affairs' >= affairs
          /\ affairs' > 0 \/ session'.holder # t
      <4>1. pulse' = pulse \ {t}
        BY <2>13 DEF Release
      <4>2. CASE /\ session' = IF session.holder # t THEN session
                               ELSE [session EXCEPT !.holder = NoTurn, !.live = FALSE]
                 /\ UNCHANGED affairs
        <5>1. session'.holder \in {session.holder, NoTurn} /\ session'.holder # t
          BY <1>3, <4>2 DEF Conversation
        <5> QED BY <1>0, <4>1, <4>2, <5>1
      <4>3. CASE Affair /\ UNCHANGED session
        BY <1>2, <4>1, <4>3
      <4> QED BY <2>13, <4>2, <4>3 DEF Release
    <3> DEFINE course == [turn[t] EXCEPT !.at = to]
    <3>3. course \in Course /\ course.at = to
      BY <2>0 DEF Course, Over
    <3>4. turn' = [turn EXCEPT ![t] = course]
      BY <3>1 DEF Enter
    <3> HIDE DEF course
    <3> QED BY <1>0, <3>2, <3>3, <3>4, TurnLive
  <2>14. CASE RenewTurn(t)
    BY <1>0, <1>1, <1>3, <2>14 DEF RenewTurn, Conversation, counts
  <2>15. CASE RenewFails(t)
    BY <1>1, <1>2, <2>15 DEF RenewFails
  <2>16. CASE TurnDies(t)
    <3> DEFINE course == [turn[t] EXCEPT !.at = "dead"]
    <3>1. course \in Course /\ course.at = "dead"
      BY <2>0 DEF Course, Over
    <3>2. turn' = [turn EXCEPT ![t] = course] /\ UNCHANGED session /\ pulse' = pulse \ {t}
      BY <2>16 DEF TurnDies, Enter
    <3>3. affairs' \in Nat /\ affairs' >= affairs /\ affairs' > 0
      BY <1>2, <2>16 DEF TurnDies
    <3> HIDE DEF course
    <3> QED BY <1>0, <3>1, <3>2, <3>3, TurnLive
  <2> QED BY <1>12, <2>2, <2>3, <2>4, <2>5, <2>6, <2>7, <2>8, <2>9, <2>10, <2>11, <2>12, <2>13,
             <2>14, <2>15, <2>16 DEF TurnStep
<1> QED BY <1>4, <1>5, <1>6, <1>7, <1>8, <1>9, <1>10, <1>11, <1>12 DEF AgentNext

\* A session is given back by its turn, unless a call fails or a process dies, and a lease
\* whose turn is over is not renewed.
THEOREM SessionsComeBack == AgentSpec => []LeaseComesBack
<1>1. BackInv => LeaseComesBack
  BY DEF BackInv
<1> QED BY AgentStart, AgentStep, BackStart, BackStep, <1>1, PTL DEF AgentSpec

(***************************************************************************)
(* The schedulers of a policy.                                             *)
(***************************************************************************)

Pairs     == (Nat \ {0}) \X (Nat \ {0})
PolicyRow == [state : {"none", "active", "archived", "purged"}, enabled : BOOLEAN, next : Nat,
              token : Nat, leased : BOOLEAN, last : Nat,
              thresholds : Pairs]
Duty      == [at : {"idle", "dispatching", "completing", "failing"}, slot : Nat, token : Nat]
Probe     == [state : {"none", "RUNNING", "ended"}, linked : BOOLEAN, observed : Nat]
Sample    == [run : Slots, is : Observations, stale : BOOLEAN]
Health    == [status : {"UNKNOWN", "UP", "DOWN", "DEGRADED"}, successes : Nat, failures : Nat,
              observed : Nat]

\* Types, and the slots that have been handed out.
MonitorTypes ==
    /\ policy \in PolicyRow /\ slots \in 0..MaxSlots
    /\ duty \in [Schedulers -> Duty] /\ probes \in [Slots -> Probe] /\ slips \in Nat
    /\ policy.next <= slots /\ policy.last <= slots
    /\ policy.next # 0 => policy.last < policy.next
    /\ \A s \in Schedulers : duty[s].at # "idle" => duty[s].slot \in 1..slots
    /\ \A k \in Slots : k > slots => probes[k].state = "none"

OnDuty(s) == duty[s].at # "idle"

\* The scheduler that works under the lease of the policy.
HasLease(s) == OnDuty(s) /\ policy.leased /\ policy.token = duty[s].token

\* The policy is leased while it is active.  A token is one scheduler's; who has that of
\* the policy finds its last run over, and its slot the one it leased.  A run that is
\* remembered was made, and is linked as long as there is the policy.
InOrder ==
    /\ policy.leased => Active
    /\ \A s \in Schedulers : OnDuty(s) => duty[s].token # 0
    /\ \A s \in Schedulers : OnDuty(s) /\ policy.token = duty[s].token => ~Running
    /\ \A s \in Schedulers : HasLease(s) => policy.next = duty[s].slot
    /\ \A s, r \in Schedulers : OnDuty(s) /\ OnDuty(r) /\ duty[s].token = duty[r].token => s = r
    /\ policy.last # 0 => probes[policy.last].state # "none"
    /\ \A s \in Schedulers : duty[s].at = "completing" => probes[duty[s].slot].state # "none"
    /\ policy.state # "purged" => \A k \in Slots : probes[k].state # "none" => probes[k].linked

\* A run that goes on, or that a scheduler may yet make.
Aims(s, k) == duty[s].at = "dispatching" /\ duty[s].slot = k
GoesOn(k)  == \/ probes[k].state = "RUNNING"
              \/ probes[k].state = "none" /\ \E s \in Schedulers : Aims(s, k)

\* The run of the lease, as long as nobody else can have made it.
IsDue(s, k) ==
    /\ HasLease(s) /\ duty[s].slot = k
    /\ \/ duty[s].at = "completing"
       \/ /\ duty[s].at = "dispatching" /\ probes[k].state = "none"
          /\ \A r \in Schedulers : Aims(r, k) => r = s

\* The others are strays, unless the policy remembers them: each was let loose by a mishap.
IsStray(k) == GoesOn(k) /\ k # policy.last /\ \A s \in Schedulers : ~IsDue(s, k)
Strays     == {k \in Slots : IsStray(k)}

MonitorInv == MonitorTypes /\ InOrder /\ Cardinality(Strays) <= slips

\* There is a token nobody remembers.
LEMMA FreshIsNew ==
    ASSUME MonitorTypes
    PROVE  /\ Fresh \in Nat /\ Fresh # 0 /\ Fresh # policy.token
           /\ \A s \in Schedulers : Fresh # duty[s].token
<1> DEFINE held == {duty[s].token : s \in Schedulers}
           n    == Cardinality(Schedulers)
<1>1. IsFiniteSet(held) /\ Cardinality(held) <= n /\ n \in Nat
  <2> DEFINE token == [s \in Schedulers |-> duty[s].token]
  <2>1. token \in Surjection(Schedulers, held)
    BY DEF Surjection
  <2> QED BY <2>1, FS_Surjection, FS_CardinalityType, MonitorAssumption
<1> HIDE DEF held
<1>2. IsFiniteSet(held \cup {policy.token}) /\ Cardinality(held \cup {policy.token}) <= n + 1
  <2>1. Cardinality(held) \in Nat
    BY <1>1, FS_CardinalityType
  <2>2. /\ IsFiniteSet(held \cup {policy.token})
        /\ Cardinality(held \cup {policy.token})
               = IF policy.token \in held THEN Cardinality(held) ELSE Cardinality(held) + 1
    BY <1>1, FS_AddElement
  <2> QED BY <1>1, <2>1, <2>2
<1>3. IsFiniteSet(1..(n + 2)) /\ Cardinality(1..(n + 2)) = n + 2
  BY <1>1, FS_Interval
<1>4. ~(1..(n + 2) \subseteq held \cup {policy.token})
  <2>1. CASE 1..(n + 2) \subseteq held \cup {policy.token}
    <3>1. Cardinality(1..(n + 2)) <= Cardinality(held \cup {policy.token})
      BY <1>2, <2>1, FS_Subset
    <3>2. Cardinality(held \cup {policy.token}) \in Nat
      BY <1>2, FS_CardinalityType
    <3> QED BY <1>1, <1>2, <1>3, <3>1, <3>2
  <2> QED BY <2>1
<1>5. \E t \in 1..(n + 2) : t # policy.token /\ \A s \in Schedulers : t # duty[s].token
  BY <1>4 DEF held
<1> QED BY <1>1, <1>5 DEF Fresh

\* What becomes of a policy whose row is changed by its owner.
LEMMA RowIsRescheduled ==
    ASSUME MonitorTypes, NEW changed \in PolicyRow, changed.last = policy.last,
           Reschedule(changed)
    PROVE  /\ policy' \in PolicyRow /\ policy'.last = policy.last
           /\ ~policy'.leased /\ policy'.token = 0 /\ policy'.state = changed.state
           /\ slots' \in 0..MaxSlots /\ slots' >= slots
           /\ policy'.next = 0 \/ (policy'.next = slots + 1 /\ slots' = slots + 1)
<1>1. slots \in 0..MaxSlots /\ MaxSlots \in Nat
  BY MonitorAssumption DEF MonitorTypes
<1>2. CASE changed.enabled
  <2> DEFINE row == [changed EXCEPT !.next = slots + 1, !.token = 0, !.leased = FALSE]
  <2>0. slots + 1 \in Nat
    BY <1>1
  <2>1. /\ row \in PolicyRow /\ row.last = changed.last /\ row.next = slots + 1
        /\ ~row.leased /\ row.token = 0 /\ row.state = changed.state
    BY <2>0 DEF PolicyRow
  <2>2. slots < MaxSlots /\ slots' = slots + 1 /\ policy' = row
    BY <1>2 DEF Reschedule, Later
  <2> QED BY <1>1, <2>1, <2>2
<1>3. CASE ~changed.enabled
  <2> DEFINE row == [changed EXCEPT !.next = 0, !.token = 0, !.leased = FALSE]
  <2>1. /\ row \in PolicyRow /\ row.last = changed.last /\ row.next = 0
        /\ ~row.leased /\ row.token = 0 /\ row.state = changed.state
    BY DEF PolicyRow
  <2>2. slots' = slots /\ policy' = row
    BY <1>3 DEF Reschedule
  <2> QED BY <1>1, <2>1, <2>2
<1> QED BY <1>2, <1>3

\* The policy moves on to its next slot when a scheduler has done with the current one.
LEMMA ScheduleSettles ==
    ASSUME MonitorTypes, NEW last \in 0..slots, Settle(last)
    PROVE  /\ ~policy'.leased /\ policy'.token = 0 /\ policy'.state = policy.state
           /\ policy' \in PolicyRow /\ policy'.next = slots + 1 /\ policy'.last = last
           /\ slots' = slots + 1 /\ slots + 1 \in Slots /\ probes[slots + 1].state = "none"
           /\ slots \in Nat
<1> DEFINE row == [policy EXCEPT !.next = slots + 1, !.last = last, !.token = 0, !.leased = FALSE]
<1>1. slots \in 0..MaxSlots /\ MaxSlots \in Nat /\ policy \in PolicyRow
  BY MonitorAssumption DEF MonitorTypes
<1>2. slots + 1 \in Nat /\ last \in Nat
  BY <1>1
<1>3. /\ row \in PolicyRow /\ row.next = slots + 1 /\ row.last = last
      /\ ~row.leased /\ row.token = 0 /\ row.state = policy.state
  BY <1>1, <1>2 DEF PolicyRow
<1>4. slots < MaxSlots /\ slots' = slots + 1 /\ policy' = row
  BY DEF Settle, Later
<1>5. slots + 1 \in Slots
  BY <1>1, <1>4 DEF Slots
<1>6. probes[slots + 1].state = "none"
  BY <1>1, <1>5 DEF MonitorTypes
<1> QED BY <1>1, <1>3, <1>4, <1>5, <1>6

\* A scheduler gets on with its duty, or lays it down.
LEMMA DutyMoves ==
    ASSUME MonitorTypes, NEW s \in Schedulers, NEW to \in {"idle", "completing", "failing"},
           \/ duty' = [duty EXCEPT ![s].at = to]
           \/ duty' = [duty EXCEPT ![s] = Idle] /\ to = "idle"
    PROVE  /\ duty' \in [Schedulers -> Duty] /\ duty'[s].at = to
           /\ \A r \in Schedulers : r # s => duty'[r] = duty[r]
           /\ to # "idle" => duty'[s].slot = duty[s].slot /\ duty'[s].token = duty[s].token
<1> DEFINE row == [duty[s] EXCEPT !.at = to]
<1>1. duty \in [Schedulers -> Duty] /\ duty[s] \in Duty
  BY DEF MonitorTypes
<1>2. row \in Duty /\ row.at = to /\ row.slot = duty[s].slot /\ row.token = duty[s].token
  BY <1>1 DEF Duty
<1>3. Idle \in Duty /\ Idle.at = "idle"
  BY DEF Idle, Duty
<1>4. CASE duty' = [duty EXCEPT ![s].at = to]
  <2>1. duty' = [duty EXCEPT ![s] = row]
    BY <1>4
  <2> HIDE DEF row
  <2> QED BY <1>1, <1>2, <2>1
<1>5. CASE duty' = [duty EXCEPT ![s] = Idle] /\ to = "idle"
  BY <1>1, <1>3, <1>5
<1> QED BY <1>4, <1>5

\* The strays are as many as the mishaps, when one is added at most with one of these.
LEMMA StraysCounted ==
    ASSUME MonitorInv, NEW x, slips' \in Nat,
           \/ slips' >= slips /\ \A k \in Slots : IsStray(k)' => IsStray(k)
           \/ slips' = slips + 1 /\ \A k \in Slots : IsStray(k)' => IsStray(k) \/ k = x
    PROVE  Cardinality(Strays)' <= slips'
<1>1. IsFiniteSet(Slots)
  BY MonitorAssumption, FS_Interval DEF Slots
<1>2. IsFiniteSet(Strays) /\ Cardinality(Strays) \in Nat /\ Cardinality(Strays) <= slips /\ slips \in Nat
  BY <1>1, FS_Subset, FS_CardinalityType DEF Strays, MonitorInv, MonitorTypes
<1>3. CASE slips' >= slips /\ \A k \in Slots : IsStray(k)' => IsStray(k)
  <2>1. Strays' \subseteq Strays
    BY <1>3 DEF Strays, Slots
  <2>2. Cardinality(Strays') \in Nat /\ Cardinality(Strays') <= Cardinality(Strays)
    BY <1>2, <2>1, FS_Subset, FS_CardinalityType
  <2> QED BY <1>2, <1>3, <2>2
<1>4. CASE slips' = slips + 1 /\ \A k \in Slots : IsStray(k)' => IsStray(k) \/ k = x
  <2>1. Strays' \subseteq Strays \cup {x}
    BY <1>4 DEF Strays, Slots
  <2>2. /\ IsFiniteSet(Strays \cup {x})
        /\ Cardinality(Strays \cup {x}) = IF x \in Strays THEN Cardinality(Strays)
                                         ELSE Cardinality(Strays) + 1
    BY <1>2, FS_AddElement
  <2>3. Cardinality(Strays') \in Nat /\ Cardinality(Strays') <= Cardinality(Strays \cup {x})
    BY <2>1, <2>2, FS_Subset, FS_CardinalityType
  <2> QED BY <1>2, <1>4, <2>2, <2>3
<1> QED BY <1>3, <1>4

\* A step of the owner, which nobody on duty sees.
LEMMA OwnerStep ==
    ASSUME MonitorInv, policy' \in PolicyRow, policy'.last = policy.last,
           ~policy'.leased, policy'.token = 0 \/ policy'.token = policy.token,
           \A s \in Schedulers : ~HasLease(s),
           slots' \in 0..MaxSlots, slots' >= slots,
           \/ policy'.next = 0
           \/ (policy'.next = slots + 1 /\ slots' = slots + 1)
           \/ policy'.next = policy.next,
           UNCHANGED << duty, slips >>,
           probes' \in [Slots -> Probe], \A k \in Slots : probes'[k].state = probes[k].state,
           policy'.state # "purged" =>
               policy.state # "purged" /\ \A k \in Slots : probes'[k].linked = probes[k].linked
    PROVE  MonitorInv'
<1>1. slots \in 0..MaxSlots /\ MaxSlots \in Nat /\ MonitorTypes /\ InOrder
  BY MonitorAssumption DEF MonitorInv, MonitorTypes
<1>2. policy.next \in Nat /\ policy.last \in Nat /\ policy'.next \in Nat
  BY <1>1 DEF MonitorTypes, PolicyRow
<1>3. MonitorTypes'
  <2>1. policy'.next <= slots' /\ policy'.last <= slots'
    BY <1>1, <1>2 DEF MonitorTypes
  <2>2. policy'.next # 0 => policy'.last < policy'.next
    BY <1>1, <1>2 DEF MonitorTypes
  <2>3. \A s \in Schedulers : duty'[s].at # "idle" => duty'[s].slot \in 1..slots'
    BY <1>1 DEF MonitorTypes
  <2>4. \A k \in Slots : k > slots' => probes'[k].state = "none"
    BY <1>1 DEF MonitorTypes, Slots
  <2>5. duty' \in [Schedulers -> Duty] /\ slips' \in Nat
    BY <1>1 DEF MonitorTypes
  <2> QED BY <2>1, <2>2, <2>3, <2>4, <2>5 DEF MonitorTypes
<1>4. \A s \in Schedulers : (OnDuty(s)' <=> OnDuty(s)) /\ ~HasLease(s)'
  BY DEF OnDuty, HasLease
<1>5. policy.last # 0 => policy.last \in Slots
  BY <1>1, <1>2 DEF MonitorTypes, Slots
<1>6. Running' <=> Running
  BY <1>5 DEF Running
<1>7. InOrder'
  <2>1. \A s \in Schedulers : OnDuty(s)' /\ policy'.token = duty'[s].token => ~Running'
    BY <1>1, <1>4, <1>6 DEF InOrder
  <2>2. policy'.last # 0 => probes'[policy'.last].state # "none"
    BY <1>1, <1>5 DEF InOrder
  <2>3. \A s \in Schedulers : duty'[s].at = "completing" => probes'[duty'[s].slot].state # "none"
    <3>1. \A s \in Schedulers : duty[s].at = "completing" => duty[s].slot \in Slots
      BY <1>1 DEF MonitorTypes, Slots
    <3> QED BY <1>1, <3>1 DEF InOrder
  <2>4. policy'.state # "purged" => \A k \in Slots : probes'[k].state # "none" => probes'[k].linked
    BY <1>1 DEF InOrder
  <2>5. \A s \in Schedulers : OnDuty(s)' => duty'[s].token # 0
    BY <1>1, <1>4 DEF InOrder
  <2>6. \A s, r \in Schedulers : OnDuty(s)' /\ OnDuty(r)' /\ duty'[s].token = duty'[r].token => s = r
    BY <1>1, <1>4 DEF InOrder
  <2> QED BY <1>4, <2>1, <2>2, <2>3, <2>4, <2>5, <2>6 DEF InOrder
<1>8. \A k \in Slots : IsStray(k)' => IsStray(k)
  <2>1. \A k \in Slots, s \in Schedulers : ~IsDue(s, k)
    BY DEF IsDue
  <2>2. \A k \in Slots : GoesOn(k)' => GoesOn(k)
    BY DEF GoesOn, Aims
  <2> QED BY <2>1, <2>2 DEF IsStray
<1>9. slips' = slips /\ slips \in Nat
  BY <1>1 DEF MonitorTypes
<1>10. Cardinality(Strays)' <= slips'
  BY <1>8, <1>9, StraysCounted
<1> QED BY <1>3, <1>7, <1>10 DEF MonitorInv

\* A step of one scheduler: what it leaves to the others.
LEMMA OneMoves ==
    ASSUME MonitorInv, NEW s \in Schedulers, duty' \in [Schedulers -> Duty],
           \A r \in Schedulers : r # s => duty'[r] = duty[r],
           duty'[s].at # "idle" => duty'[s].slot = duty[s].slot,
           duty'[s].at # "dispatching"
    PROVE  /\ \A r \in Schedulers, k \in Slots : Aims(r, k)' <=> Aims(r, k) /\ r # s
           /\ UNCHANGED << policy, probes >> =>
                  /\ \A k \in Slots : GoesOn(k)' => GoesOn(k)
                  /\ \A k \in Slots, r \in Schedulers : r # s /\ IsDue(r, k) => IsDue(r, k)'
                  /\ \A k \in Slots : k # duty[s].slot /\ IsStray(k)' => IsStray(k)
<1>1. \A r \in Schedulers, k \in Slots : Aims(r, k)' <=> Aims(r, k) /\ r # s
  BY DEF Aims
<1>2. ASSUME UNCHANGED << policy, probes >>
      PROVE  /\ \A k \in Slots : GoesOn(k)' => GoesOn(k)
             /\ \A k \in Slots, r \in Schedulers : r # s /\ IsDue(r, k) => IsDue(r, k)'
             /\ \A k \in Slots : k # duty[s].slot /\ IsStray(k)' => IsStray(k)
  <2>1. \A k \in Slots : GoesOn(k)' => GoesOn(k)
    BY <1>1, <1>2 DEF GoesOn
  <2>2. ASSUME NEW k \in Slots, NEW r \in Schedulers, r # s, IsDue(r, k) PROVE IsDue(r, k)'
    <3>1. HasLease(r)' /\ duty'[r] = duty[r]
      BY <1>2, <2>2 DEF IsDue, HasLease, OnDuty
    <3>2. \A q \in Schedulers : Aims(q, k)' => Aims(q, k)
      BY <1>1
    <3> QED BY <1>2, <2>2, <3>1, <3>2 DEF IsDue
  <2>3. ASSUME NEW k \in Slots, k # duty[s].slot, IsStray(k)' PROVE IsStray(k)
    <3>1. ~IsDue(s, k)
      BY <2>3 DEF IsDue
    <3>2. \A r \in Schedulers : ~IsDue(r, k)
      BY <2>2, <2>3, <3>1 DEF IsStray
    <3> QED BY <1>2, <2>1, <2>3, <3>2 DEF IsStray
  <2> QED BY <2>1, <2>2, <2>3
<1> QED BY <1>1, <1>2

\* The policy is claimed when nobody has its lease, and its last run is over.
LEMMA ClaimKeeps ==
    ASSUME MonitorInv, NEW s \in Schedulers, Claim(s)
    PROVE  MonitorInv'
<1> DEFINE row  == [policy EXCEPT !.token = Fresh, !.leased = TRUE]
           mine == [at |-> "dispatching", slot |-> policy.next, token |-> Fresh]
<1>1. /\ MonitorTypes /\ InOrder /\ Fresh \in Nat /\ Fresh # 0 /\ Fresh # policy.token
      /\ \A r \in Schedulers : Fresh # duty[r].token
  BY FreshIsNew DEF MonitorInv
<1>2. policy \in PolicyRow /\ slots \in 0..MaxSlots /\ MaxSlots \in Nat /\ policy.next \in 1..slots
  BY <1>1, MonitorAssumption DEF MonitorTypes, Claim, PolicyRow
<1>3. /\ row \in PolicyRow /\ row.next = policy.next /\ row.last = policy.last /\ row.leased
      /\ row.token = Fresh /\ row.state = policy.state
  BY <1>1, <1>2 DEF PolicyRow
<1>4. /\ mine \in Duty /\ mine.at = "dispatching" /\ mine.slot = policy.next /\ mine.token = Fresh
  BY <1>1, <1>2 DEF Duty
<1>5. /\ policy' = row /\ duty' = [duty EXCEPT ![s] = mine]
      /\ UNCHANGED << slots, probes, slips >>
      /\ Active /\ ~Running /\ ~policy.leased /\ duty[s] = Idle
  BY DEF Claim, findings
<1> HIDE DEF row, mine
<1>6. /\ duty' \in [Schedulers -> Duty] /\ duty'[s] = mine
      /\ \A r \in Schedulers : r # s => duty'[r] = duty[r]
  BY <1>1, <1>4, <1>5 DEF MonitorTypes
<1>7. MonitorTypes'
  <2>1. \A r \in Schedulers : duty'[r].at # "idle" => duty'[r].slot \in 1..slots'
    BY <1>1, <1>2, <1>4, <1>5, <1>6 DEF MonitorTypes
  <2> QED BY <1>1, <1>3, <1>5, <1>6, <2>1 DEF MonitorTypes
<1>8. Active' /\ ~Running' /\ policy'.leased
  BY <1>3, <1>5 DEF Active, Running
<1>9. \A r \in Schedulers : HasLease(r)' <=> r = s
  BY <1>1, <1>3, <1>4, <1>5, <1>6 DEF HasLease, OnDuty
<1>10. InOrder'
  <2>1. \A r \in Schedulers : OnDuty(r)' => duty'[r].token # 0
    BY <1>1, <1>4, <1>6 DEF InOrder, OnDuty
  <2>2. \A r \in Schedulers : HasLease(r)' => policy'.next = duty'[r].slot
    BY <1>3, <1>4, <1>5, <1>6, <1>9
  <2>3. \A r, q \in Schedulers : OnDuty(r)' /\ OnDuty(q)' /\ duty'[r].token = duty'[q].token => r = q
    BY <1>1, <1>4, <1>6 DEF InOrder, OnDuty
  <2>4. \A r \in Schedulers : duty'[r].at = "completing" => probes'[duty'[r].slot].state # "none"
    BY <1>1, <1>4, <1>5, <1>6 DEF InOrder
  <2>5. policy'.last # 0 => probes'[policy'.last].state # "none"
    BY <1>1, <1>3, <1>5 DEF InOrder
  <2>6. policy'.state # "purged" => \A k \in Slots : probes'[k].state # "none" => probes'[k].linked
    BY <1>1, <1>3, <1>5 DEF InOrder
  <2> QED BY <1>8, <2>1, <2>2, <2>3, <2>4, <2>5, <2>6 DEF InOrder
<1>11. ASSUME NEW k \in Slots, IsStray(k)' PROVE IsStray(k)
  <2>1. \A r \in Schedulers : ~IsDue(r, k)
    BY <1>5 DEF IsDue, HasLease
  <2>2. \A r \in Schedulers : Aims(r, k)' => Aims(r, k) \/ (r = s /\ k = policy.next)
    BY <1>4, <1>6 DEF Aims
  <2>3. k # policy.last /\ (\/ probes[k].state = "RUNNING"
                            \/ probes[k].state = "none" /\ \E r \in Schedulers : Aims(r, k)')
    BY <1>3, <1>5, <1>11 DEF IsStray, GoesOn
  <2>4. GoesOn(k)
    <3>1. CASE k = policy.next /\ probes[k].state = "none" /\ \A r \in Schedulers : ~Aims(r, k)
      <4>1. \A r \in Schedulers : Aims(r, k)' => r = s
        BY <2>2, <3>1
      <4>2. IsDue(s, k)'
        BY <1>4, <1>5, <1>6, <1>9, <3>1, <4>1 DEF IsDue
      <4> QED BY <1>11, <4>2 DEF IsStray
    <3> QED BY <2>2, <2>3, <3>1 DEF GoesOn
  <2> QED BY <2>1, <2>3, <2>4 DEF IsStray
<1>12. slips' = slips /\ slips \in Nat
  BY <1>1, <1>5 DEF MonitorTypes
<1>13. Cardinality(Strays)' <= slips'
  BY <1>11, <1>12, StraysCounted
<1> QED BY <1>7, <1>10, <1>13 DEF MonitorInv

\* The run of the slot is made where there was none.
LEMMA DispatchKeeps ==
    ASSUME MonitorInv, NEW s \in Schedulers, Dispatch(s)
    PROVE  MonitorInv'
<1>0. PICK k : k = duty[s].slot
  OBVIOUS
<1> DEFINE row == [probes[k] EXCEPT !.state = "RUNNING", !.linked = TRUE]
<1>1. MonitorTypes /\ InOrder /\ slots \in 0..MaxSlots /\ MaxSlots \in Nat /\ slips \in Nat
  BY MonitorAssumption DEF MonitorInv, MonitorTypes
<1>2. duty[s].at = "dispatching" /\ UNCHANGED << policy, slots >>
  BY DEF Dispatch, At, schedule
<1>3. k \in 1..slots /\ k \in Slots /\ probes[k] \in Probe
  BY <1>0, <1>1, <1>2 DEF MonitorTypes, Slots
<1>4. row \in Probe /\ row.state = "RUNNING" /\ row.linked
  BY <1>3 DEF Probe
<1>5. PICK to \in {"completing", "failing"} :
          /\ At(s, "dispatching", to)
          /\ \/ UNCHANGED probes /\ UNCHANGED slips /\ (to = "completing" => probes[k].state # "none")
             \/ /\ probes[k].state = "none" /\ probes' = [probes EXCEPT ![k] = row]
                /\ to = "completing" /\ UNCHANGED slips
             \/ /\ probes[k].state = "none" /\ probes' = [probes EXCEPT ![k] = row]
                /\ to = "failing" /\ Slip
  <2>1. CASE /\ At(s, "dispatching", "completing") /\ UNCHANGED slips
             /\ probes' = IF probes[k].state # "none" THEN probes
                          ELSE [probes EXCEPT ![k].state = "RUNNING", ![k].linked = TRUE]
    <3>1. CASE probes[k].state # "none"
      BY <2>1, <3>1
    <3>2. CASE probes[k].state = "none"
      <4>1. probes' = [probes EXCEPT ![k] = row]
        BY <2>1, <3>2
      <4> QED BY <2>1, <3>2, <4>1
    <3> QED BY <3>1, <3>2
  <2>2. CASE At(s, "dispatching", "failing") /\ UNCHANGED << probes, slips >>
    BY <2>2
  <2>3. CASE /\ At(s, "dispatching", "failing") /\ Slip /\ probes[k].state = "none"
             /\ probes' = [probes EXCEPT ![k].state = "RUNNING", ![k].linked = TRUE]
    <3>1. probes' = [probes EXCEPT ![k] = row]
      BY <2>3
    <3> QED BY <2>3, <3>1
  <2> QED BY <1>0, <2>1, <2>2, <2>3 DEF Dispatch
<1> HIDE DEF row
<1>6. /\ duty' \in [Schedulers -> Duty] /\ duty'[s].at = to
      /\ duty'[s].slot = k /\ duty'[s].token = duty[s].token
      /\ \A r \in Schedulers : r # s => duty'[r] = duty[r]
  BY <1>0, <1>1, <1>5, DutyMoves DEF At
<1>7. /\ probes' \in [Slots -> Probe] /\ (\A j \in Slots : j # k => probes'[j] = probes[j])
      /\ probes'[k] = probes[k] \/ (probes[k].state = "none" /\ probes'[k] = row)
  BY <1>1, <1>3, <1>4, <1>5 DEF MonitorTypes
<1>8. slips' \in Nat /\ (slips' = slips \/ slips' = slips + 1)
  BY <1>1, <1>5 DEF Slip
<1>9. MonitorTypes'
  <2>1. \A j \in Slots : j > slots' => probes'[j].state = "none"
    BY <1>1, <1>2, <1>3, <1>7 DEF MonitorTypes
  <2>2. \A r \in Schedulers : duty'[r].at # "idle" => duty'[r].slot \in 1..slots'
    BY <1>1, <1>2, <1>3, <1>6 DEF MonitorTypes
  <2> QED BY <1>1, <1>2, <1>6, <1>7, <1>8, <2>1, <2>2 DEF MonitorTypes
<1>10. \A r \in Schedulers : /\ OnDuty(r)' <=> OnDuty(r)
                             /\ duty'[r].slot = duty[r].slot /\ duty'[r].token = duty[r].token
  BY <1>0, <1>2, <1>5, <1>6 DEF OnDuty
<1>11. \A r \in Schedulers : HasLease(r)' <=> HasLease(r)
  BY <1>2, <1>10 DEF HasLease
<1>12. policy.last # 0 => policy.last \in Slots /\ probes'[policy.last] = probes[policy.last]
  <2>1. policy.last # 0 => policy.last \in Slots /\ probes[policy.last].state # "none"
    BY <1>1 DEF MonitorTypes, PolicyRow, Slots, InOrder
  <2> QED BY <1>7, <2>1
<1>13. InOrder'
  <2>1. Active' = Active /\ (Running' <=> Running)
    BY <1>2, <1>12 DEF Active, Running
  <2>2. \A j \in Slots : probes[j].state # "none" => probes'[j].state # "none"
    BY <1>7
  <2>3. \A r \in Schedulers : duty'[r].at = "completing" => probes'[duty'[r].slot].state # "none"
    <3>1. CASE to = "completing"
      <4>1. probes'[k].state # "none"
        BY <1>1, <1>3, <1>4, <1>5, <3>1 DEF MonitorTypes
      <4>2. \A r \in Schedulers : duty[r].at = "completing" => duty[r].slot \in Slots
        BY <1>1 DEF MonitorTypes, Slots
      <4> QED BY <1>1, <1>6, <2>2, <4>1, <4>2 DEF InOrder
    <3>2. CASE to = "failing"
      <4>2. \A r \in Schedulers : duty[r].at = "completing" => duty[r].slot \in Slots
        BY <1>1 DEF MonitorTypes, Slots
      <4> QED BY <1>1, <1>6, <2>2, <3>2, <4>2 DEF InOrder
    <3> QED BY <3>1, <3>2
  <2>4. policy'.state # "purged" => \A j \in Slots : probes'[j].state # "none" => probes'[j].linked
    BY <1>1, <1>2, <1>4, <1>7 DEF InOrder
  <2>5. policy'.leased => Active'
    BY <1>1, <1>2, <2>1 DEF InOrder
  <2>6. \A r \in Schedulers : OnDuty(r)' => duty'[r].token # 0
    BY <1>1, <1>10 DEF InOrder
  <2>7. \A r \in Schedulers : OnDuty(r)' /\ policy'.token = duty'[r].token => ~Running'
    BY <1>1, <1>2, <1>10, <2>1 DEF InOrder
  <2>8. \A r \in Schedulers : HasLease(r)' => policy'.next = duty'[r].slot
    BY <1>1, <1>2, <1>10, <1>11 DEF InOrder
  <2>9. \A r, q \in Schedulers : OnDuty(r)' /\ OnDuty(q)' /\ duty'[r].token = duty'[q].token => r = q
    BY <1>1, <1>10 DEF InOrder
  <2>10. policy'.last # 0 => probes'[policy'.last].state # "none"
    BY <1>1, <1>2, <1>12 DEF InOrder
  <2> QED BY <2>3, <2>4, <2>5, <2>6, <2>7, <2>8, <2>9, <2>10 DEF InOrder
\* Of the other slots nothing changes.
<1>14. /\ \A r \in Schedulers, j \in Slots : Aims(r, j)' <=> Aims(r, j) /\ r # s
       /\ Aims(s, k) /\ \A j \in Slots : Aims(s, j) => j = k
  BY <1>0, <1>2, <1>5, <1>6 DEF Aims
<1>15. ASSUME NEW j \in Slots, j # k, IsStray(j)' PROVE IsStray(j)
  <2>1. probes'[j] = probes[j] /\ j # policy.last
    BY <1>2, <1>7, <1>15 DEF IsStray
  <2>2. GoesOn(j)
    BY <1>14, <1>15, <2>1 DEF IsStray, GoesOn
  <2>3. ASSUME NEW r \in Schedulers, IsDue(r, j) PROVE FALSE
    <3>1. r # s
      BY <1>0, <1>15, <2>3 DEF IsDue
    <3>2. IsDue(r, j)'
      BY <1>6, <1>11, <1>14, <2>1, <2>3, <3>1 DEF IsDue
    <3> QED BY <1>15, <3>2 DEF IsStray
  <2> QED BY <2>1, <2>2, <2>3 DEF IsStray
\* The slot itself is not let loose but by a mishap.
<1>16. ASSUME UNCHANGED slips, IsStray(k)' PROVE IsStray(k)
  <2>1. k # policy.last
    BY <1>2, <1>16, <1>6 DEF IsStray
  <2>2. GoesOn(k)
    <3>1. CASE probes[k].state = "none"
      BY <1>3, <1>14, <3>1 DEF GoesOn
    <3>2. CASE probes[k].state # "none"
      BY <1>7, <1>16, <3>2 DEF IsStray, GoesOn
    <3> QED BY <3>1, <3>2
  <2>3. ASSUME NEW r \in Schedulers, r # s, IsDue(r, k) PROVE FALSE
    <3>1. duty[r].at = "completing"
      BY <1>14, <2>3 DEF IsDue
    <3>2. IsDue(r, k)'
      BY <1>6, <1>11, <2>3, <3>1 DEF IsDue
    <3> QED BY <1>16, <3>2 DEF IsStray
  <2>4. ASSUME IsDue(s, k) PROVE FALSE
    <3>1. HasLease(s)' /\ probes[k].state = "none" /\ \A r \in Schedulers : Aims(r, k) => r = s
      BY <1>2, <1>11, <2>4 DEF IsDue
    <3>2. CASE to = "completing"
      <4>1. IsDue(s, k)'
        BY <1>6, <3>1, <3>2 DEF IsDue
      <4> QED BY <1>16, <4>1 DEF IsStray
    <3>3. CASE to = "failing"
      <4>1. UNCHANGED probes
        BY <1>1, <1>5, <1>16, <3>3 DEF Slip
      <4>2. \A r \in Schedulers : ~Aims(r, k)'
        BY <1>3, <1>14, <3>1
      <4>3. ~GoesOn(k)'
        BY <1>6, <3>1, <4>1, <4>2 DEF GoesOn
      <4> QED BY <1>16, <4>3 DEF IsStray
    <3> QED BY <3>2, <3>3
  <2> QED BY <2>1, <2>2, <2>3, <2>4 DEF IsStray
<1>17. Cardinality(Strays)' <= slips'
  <2>1. CASE UNCHANGED slips
    <3>1. \A j \in Slots : IsStray(j)' => IsStray(j)
      BY <1>15, <1>16, <2>1
    <3> QED BY <1>8, <2>1, <3>1, StraysCounted
  <2>2. CASE slips' = slips + 1
    <3>1. \A j \in Slots : IsStray(j)' => IsStray(j) \/ j = k
      BY <1>15
    <3> QED BY <1>8, <2>2, <3>1, StraysCounted
  <2> QED BY <1>8, <2>1, <2>2
<1> QED BY <1>9, <1>13, <1>17 DEF MonitorInv

\* A scheduler that holds the policy moves it on; the others may only give up.
LEMMA CompleteKeeps ==
    ASSUME MonitorInv, NEW s \in Schedulers, CompleteDispatch(s)
    PROVE  MonitorInv'
<1>0. PICK k : k = duty[s].slot
  OBVIOUS
<1>1. /\ MonitorTypes /\ InOrder /\ slips \in Nat
      /\ duty[s].at = "completing" /\ OnDuty(s) /\ UNCHANGED probes
  BY DEF MonitorInv, MonitorTypes, CompleteDispatch, OnDuty
<1>2. slots \in Nat /\ slots \in 0..MaxSlots /\ k \in 1..slots /\ k \in Slots
  BY <1>0, <1>1, MonitorAssumption DEF MonitorTypes, Slots
<1>3. PICK to \in {"idle", "failing"} :
          /\ duty' = [duty EXCEPT ![s].at = to] \/ (duty' = [duty EXCEPT ![s] = Idle] /\ to = "idle")
          /\ \/ Holds(s) /\ Settle(k) /\ (UNCHANGED slips \/ Slip)
             \/ /\ UNCHANGED << policy, slots, slips >>
                /\ ~(Holds(s) /\ probes[k].linked)
             \/ UNCHANGED << policy, slots >> /\ Slip
  BY <1>0 DEF CompleteDispatch, At, schedule
<1>4. /\ duty' \in [Schedulers -> Duty] /\ duty'[s].at = to
      /\ \A r \in Schedulers : r # s => duty'[r] = duty[r]
      /\ to # "idle" => duty'[s].slot = k /\ duty'[s].token = duty[s].token
  BY <1>0, <1>1, <1>3, DutyMoves
<1>5. slips' \in Nat /\ (slips' = slips \/ slips' = slips + 1)
  BY <1>1, <1>3 DEF Slip
<1>6. \A r \in Schedulers : /\ OnDuty(r)' => OnDuty(r)
                            /\ OnDuty(r)' => duty'[r].token = duty[r].token
                            /\ duty'[r].at = "completing" => duty'[r] = duty[r]
  BY <1>1, <1>4 DEF OnDuty
<1>7. \A r, q \in Schedulers : OnDuty(r)' /\ OnDuty(q)' /\ duty'[r].token = duty'[q].token => r = q
  BY <1>1, <1>6 DEF InOrder
<1>8. /\ \A r \in Schedulers : OnDuty(r)' => duty'[r].token # 0
      /\ \A r \in Schedulers : duty'[r].at = "completing" => probes'[duty'[r].slot].state # "none"
  BY <1>1, <1>6 DEF InOrder
<1>9. CASE Holds(s) /\ Settle(k)
  <2>1. /\ policy' \in PolicyRow /\ policy'.next = slots + 1 /\ policy'.last = k
        /\ ~policy'.leased /\ policy'.token = 0 /\ policy'.state = policy.state
        /\ slots' = slots + 1 /\ slots + 1 \in Slots
    BY <1>1, <1>2, <1>9, ScheduleSettles
  <2>2. MonitorTypes'
    <3>1. \A r \in Schedulers : duty'[r].at # "idle" => duty'[r].slot \in 1..slots'
      BY <1>1, <1>2, <1>4, <2>1 DEF MonitorTypes
    <3>2. \A j \in Slots : j > slots' => probes'[j].state = "none"
      BY <1>1, <1>2, <2>1 DEF MonitorTypes, Slots
    <3>3. slots' \in 0..MaxSlots /\ policy'.next <= slots' /\ policy'.last <= slots'
          /\ policy'.last < policy'.next
      BY <1>2, <2>1, MonitorAssumption DEF Slots
    <3> QED BY <1>1, <1>4, <1>5, <2>1, <3>1, <3>2, <3>3 DEF MonitorTypes
  <2>3. InOrder'
    <3>1. \A r \in Schedulers : ~HasLease(r)' /\ ~(OnDuty(r)' /\ policy'.token = duty'[r].token)
      BY <1>8, <2>1 DEF HasLease
    <3>2. policy'.last # 0 => probes'[policy'.last].state # "none"
      BY <1>0, <1>1, <2>1 DEF InOrder
    <3>3. policy'.state # "purged" => \A j \in Slots : probes'[j].state # "none" => probes'[j].linked
      BY <1>1, <2>1 DEF InOrder
    <3> QED BY <1>7, <1>8, <2>1, <3>1, <3>2, <3>3 DEF InOrder
  <2>4. ASSUME NEW j \in Slots, IsStray(j)' PROVE IsStray(j)
    <3>1. GoesOn(j) /\ j # k
      <4>1. \A r \in Schedulers : Aims(r, j)' => Aims(r, j)
        BY <1>4 DEF Aims
      <4> QED BY <1>1, <2>1, <2>4, <4>1 DEF IsStray, GoesOn
    <3>2. j # policy.last
      <4>1. ~Running /\ 0 \notin Slots
        BY <1>1, <1>9 DEF InOrder, Holds, Slots
      <4>2. policy.last # 0 => probes[policy.last].state \notin {"RUNNING", "none"}
        BY <1>1, <4>1 DEF InOrder, Running
      <4> QED BY <3>1, <4>1, <4>2 DEF GoesOn
    <3>3. ASSUME NEW r \in Schedulers, IsDue(r, j) PROVE FALSE
      <4>1. r = s
        BY <1>1, <1>9, <3>3 DEF IsDue, HasLease, Holds, InOrder, OnDuty
      <4> QED BY <1>0, <3>1, <3>3, <4>1 DEF IsDue
    <3> QED BY <3>1, <3>2, <3>3 DEF IsStray
  <2>5. Cardinality(Strays)' <= slips'
    <3>1. slips' >= slips
      BY <1>1, <1>5
    <3> QED BY <1>5, <2>4, <3>1, StraysCounted
  <2> QED BY <2>2, <2>3, <2>5 DEF MonitorInv
<1>10. ASSUME UNCHANGED << policy, slots >> PROVE MonitorTypes' /\ InOrder'
  <2>1. MonitorTypes'
    <3>1. \A r \in Schedulers : duty'[r].at # "idle" => duty'[r].slot \in 1..slots'
      BY <1>1, <1>2, <1>4, <1>10 DEF MonitorTypes
    <3> QED BY <1>1, <1>4, <1>5, <1>10, <3>1 DEF MonitorTypes
  <2>2. InOrder'
    <3>1. Active' = Active /\ Running' = Running
      BY <1>1, <1>10 DEF Active, Running
    <3>2. \A r \in Schedulers : HasLease(r)' => HasLease(r) /\ duty'[r].slot = duty[r].slot
      BY <1>0, <1>4, <1>6, <1>10 DEF HasLease, OnDuty
    <3>3. \A r \in Schedulers : HasLease(r)' => policy'.next = duty'[r].slot
      BY <1>1, <1>10, <3>2 DEF InOrder
    <3>4. \A r \in Schedulers : OnDuty(r)' /\ policy'.token = duty'[r].token => ~Running'
      BY <1>1, <1>6, <1>10, <3>1 DEF InOrder
    <3>5. /\ policy'.leased => Active'
          /\ policy'.last # 0 => probes'[policy'.last].state # "none"
          /\ policy'.state # "purged" => \A j \in Slots : probes'[j].state # "none" => probes'[j].linked
      BY <1>1, <1>10, <3>1 DEF InOrder
    <3> QED BY <1>7, <1>8, <3>3, <3>4, <3>5 DEF InOrder
  <2> QED BY <2>1, <2>2
<1>11. UNCHANGED policy => \A j \in Slots : j # k /\ IsStray(j)' => IsStray(j)
  BY <1>0, <1>1, <1>4, OneMoves
<1>12. CASE UNCHANGED << policy, slots >> /\ Slip
  <2>1. slips' = slips + 1 /\ \A j \in Slots : IsStray(j)' => IsStray(j) \/ j = k
    BY <1>11, <1>12 DEF Slip
  <2>2. Cardinality(Strays)' <= slips'
    BY <1>5, <2>1, StraysCounted
  <2> QED BY <1>10, <1>12, <2>2 DEF MonitorInv
\* Who cannot complete its dispatch has not the lease any more.
<1>13. CASE UNCHANGED << policy, slots, slips >> /\ ~(Holds(s) /\ probes[k].linked)
  <2>1. ~HasLease(s)
    <3>1. CASE HasLease(s)
      <4>1. Active /\ policy.next = k /\ policy.token = duty[s].token
        BY <1>0, <1>1, <3>1 DEF HasLease, InOrder
      <4>2. probes[k].linked
        BY <1>0, <1>1, <1>2, <4>1 DEF InOrder, Active
      <4> QED BY <1>0, <1>13, <4>1, <4>2 DEF Holds, Active
    <3> QED BY <3>1
  <2>2. ASSUME IsStray(k)' PROVE IsStray(k)
    <3>1. /\ \A r \in Schedulers : r # s /\ IsDue(r, k) => IsDue(r, k)'
          /\ GoesOn(k)' => GoesOn(k)
      BY <1>0, <1>1, <1>2, <1>4, <1>13, OneMoves
    <3>2. ~IsDue(s, k)
      BY <2>1 DEF IsDue
    <3> QED BY <1>13, <2>2, <3>1, <3>2 DEF IsStray
  <2>3. \A j \in Slots : IsStray(j)' => IsStray(j)
    BY <1>11, <1>13, <2>2
  <2>4. Cardinality(Strays)' <= slips'
    BY <1>1, <1>5, <1>13, <2>3, StraysCounted
  <2> QED BY <1>10, <1>13, <2>4 DEF MonitorInv
<1> QED BY <1>3, <1>9, <1>12, <1>13

\* A scheduler that lays its duty down leaves nothing behind, but for a mishap.
LEMMA DutyEnds ==
    ASSUME MonitorInv, NEW s \in Schedulers, duty' = [duty EXCEPT ![s] = Idle],
           UNCHANGED probes, slips' \in Nat,
           \/ duty[s].at = "failing" /\ slips' >= slips
           \/ slips' = slips + 1,
           \/ UNCHANGED schedule
           \/ Holds(s) /\ Settle(policy.last) /\ duty[s].at = "failing"
    PROVE  MonitorInv'
<1>0. PICK k : k = duty[s].slot
  OBVIOUS
<1>1. /\ MonitorTypes /\ InOrder /\ slots \in Nat /\ slots \in 0..MaxSlots
      /\ policy \in PolicyRow /\ policy.last \in 0..slots
  BY MonitorAssumption DEF MonitorInv, MonitorTypes, PolicyRow
<1>2. /\ duty' \in [Schedulers -> Duty] /\ duty'[s].at = "idle"
      /\ \A r \in Schedulers : r # s => duty'[r] = duty[r]
  BY <1>1, DutyMoves
<1>3. \A r \in Schedulers : OnDuty(r)' => r # s /\ OnDuty(r) /\ duty'[r] = duty[r]
  BY <1>2 DEF OnDuty
<1>4. /\ \A r, q \in Schedulers : OnDuty(r)' /\ OnDuty(q)' /\ duty'[r].token = duty'[q].token => r = q
      /\ \A r \in Schedulers : OnDuty(r)' => duty'[r].token # 0
      /\ \A r \in Schedulers : duty'[r].at = "completing" => probes'[duty'[r].slot].state # "none"
  BY <1>1, <1>3 DEF InOrder, OnDuty
<1>5. CASE Holds(s) /\ Settle(policy.last) /\ duty[s].at = "failing"
  <2>1. /\ policy' \in PolicyRow /\ policy'.next = slots + 1 /\ policy'.last = policy.last
        /\ ~policy'.leased /\ policy'.token = 0 /\ policy'.state = policy.state
        /\ slots' = slots + 1 /\ slots + 1 \in Slots
    BY <1>1, <1>5, ScheduleSettles
  <2>2. MonitorTypes'
    <3>1. \A r \in Schedulers : duty'[r].at # "idle" => duty'[r].slot \in 1..slots'
      BY <1>1, <1>2, <2>1 DEF MonitorTypes
    <3>2. \A j \in Slots : j > slots' => probes'[j].state = "none"
      BY <1>1, <2>1 DEF MonitorTypes, Slots
    <3>3. slots' \in 0..MaxSlots /\ policy'.next <= slots' /\ policy'.last <= slots'
          /\ policy'.last < policy'.next
      BY <1>1, <2>1, MonitorAssumption DEF Slots
    <3> QED BY <1>1, <1>2, <2>1, <3>1, <3>2, <3>3 DEF MonitorTypes
  <2>3. InOrder'
    <3>1. \A r \in Schedulers : ~HasLease(r)' /\ ~(OnDuty(r)' /\ policy'.token = duty'[r].token)
      BY <1>4, <2>1 DEF HasLease
    <3>2. policy'.last # 0 => probes'[policy'.last].state # "none"
      BY <1>1, <2>1 DEF InOrder
    <3>3. policy'.state # "purged" => \A j \in Slots : probes'[j].state # "none" => probes'[j].linked
      BY <1>1, <2>1 DEF InOrder
    <3> QED BY <1>4, <2>1, <3>1, <3>2, <3>3 DEF InOrder
  <2>4. ASSUME NEW j \in Slots, IsStray(j)' PROVE IsStray(j)
    <3>1. GoesOn(j) /\ j # policy.last
      <4>1. \A r \in Schedulers : Aims(r, j)' => Aims(r, j)
        BY <1>2 DEF Aims
      <4> QED BY <2>1, <2>4, <4>1 DEF IsStray, GoesOn
    <3>2. ASSUME NEW r \in Schedulers, IsDue(r, j) PROVE FALSE
      <4>1. r = s
        BY <1>1, <1>5, <3>2 DEF IsDue, HasLease, Holds, InOrder, OnDuty
      <4> QED BY <1>5, <3>2, <4>1 DEF IsDue
    <3> QED BY <3>1, <3>2 DEF IsStray
  <2>5. Cardinality(Strays)' <= slips'
    <3>1. slips' >= slips
      BY <1>1 DEF MonitorTypes
    <3> QED BY <2>4, <3>1, StraysCounted
  <2> QED BY <2>2, <2>3, <2>5 DEF MonitorInv
<1>6. CASE UNCHANGED schedule
  <2>1. UNCHANGED << policy, slots >>
    BY <1>6 DEF schedule
  <2>2. MonitorTypes'
    <3>1. \A r \in Schedulers : duty'[r].at # "idle" => duty'[r].slot \in 1..slots'
      BY <1>1, <1>2, <2>1 DEF MonitorTypes
    <3> QED BY <1>1, <1>2, <2>1, <3>1 DEF MonitorTypes
  <2>3. InOrder'
    <3>1. Active' = Active /\ Running' = Running
      BY <2>1 DEF Active, Running
    <3>2. \A r \in Schedulers : HasLease(r)' => HasLease(r) /\ duty'[r] = duty[r]
      BY <1>3, <2>1 DEF HasLease
    <3>3. \A r \in Schedulers : HasLease(r)' => policy'.next = duty'[r].slot
      BY <1>1, <2>1, <3>2 DEF InOrder
    <3>4. \A r \in Schedulers : OnDuty(r)' /\ policy'.token = duty'[r].token => ~Running'
      BY <1>1, <1>3, <2>1, <3>1 DEF InOrder
    <3>5. /\ policy'.leased => Active'
          /\ policy'.last # 0 => probes'[policy'.last].state # "none"
          /\ policy'.state # "purged" => \A j \in Slots : probes'[j].state # "none" => probes'[j].linked
      BY <1>1, <2>1, <3>1 DEF InOrder
    <3> QED BY <1>4, <3>3, <3>4, <3>5 DEF InOrder
  <2>4. /\ \A j \in Slots : j # k /\ IsStray(j)' => IsStray(j)
        /\ \A j \in Slots : GoesOn(j)' => GoesOn(j)
        /\ \A j \in Slots, r \in Schedulers : r # s /\ IsDue(r, j) => IsDue(r, j)'
    BY <1>0, <1>2, <2>1, OneMoves
  <2>5. CASE slips' = slips + 1
    <3>1. \A j \in Slots : IsStray(j)' => IsStray(j) \/ j = k
      BY <2>4
    <3>2. Cardinality(Strays)' <= slips'
      BY <2>5, <3>1, StraysCounted
    <3> QED BY <2>2, <2>3, <3>2 DEF MonitorInv
  <2>6. CASE duty[s].at = "failing" /\ slips' >= slips
    <3>1. \A j \in Slots : ~IsDue(s, j)
      BY <2>6 DEF IsDue
    <3>2. \A j \in Slots : IsStray(j)' => IsStray(j)
      BY <2>1, <2>4, <3>1 DEF IsStray
    <3>3. Cardinality(Strays)' <= slips'
      BY <2>6, <3>2, StraysCounted
    <3> QED BY <2>2, <2>3, <3>3 DEF MonitorInv
  <2> QED BY <2>5, <2>6
<1> QED BY <1>5, <1>6

\* Every step keeps the schedule in order.
LEMMA MonitorStep == MonitorInv /\ [MonitorNext]_monitorVars => MonitorInv'
<1> SUFFICES ASSUME MonitorInv, [MonitorNext]_monitorVars PROVE MonitorInv'
  OBVIOUS
<1>1. /\ MonitorTypes /\ InOrder /\ policy \in PolicyRow /\ probes \in [Slots -> Probe]
      /\ slots \in 0..MaxSlots /\ MaxSlots \in Nat /\ slips \in Nat
  BY MonitorAssumption DEF MonitorInv, MonitorTypes
<1>2. ~policy.leased \/ ~Active => ~policy.leased /\ \A s \in Schedulers : ~HasLease(s)
  BY <1>1 DEF InOrder, HasLease
<1>3. CASE CreatePolicy
  <2>1. PICK on \in BOOLEAN, t \in Thresholds :
            Reschedule([policy EXCEPT !.state = "active", !.enabled = on, !.thresholds = t])
    BY <1>3 DEF CreatePolicy
  <2> DEFINE row == [policy EXCEPT !.state = "active", !.enabled = on, !.thresholds = t]
  <2>2. row \in PolicyRow /\ row.last = policy.last /\ row.state = "active"
    <3>1. t \in Pairs
      BY MonitorAssumption DEF Pairs
    <3> QED BY <1>1, <3>1 DEF PolicyRow
  <2>3. Reschedule(row)
    BY <2>1
  <2> HIDE DEF row
  <2>4. policy.state = "none" /\ ~Active /\ UNCHANGED << duty, probes, slips >>
    BY <1>3 DEF CreatePolicy, Active
  <2> QED BY <1>1, <1>2, <2>2, <2>3, <2>4, RowIsRescheduled, OwnerStep
<1>4. CASE UpdatePolicy
  <2>1. PICK on \in BOOLEAN : Reschedule([policy EXCEPT !.enabled = on])
    BY <1>4 DEF UpdatePolicy
  <2> DEFINE row == [policy EXCEPT !.enabled = on]
  <2>2. row \in PolicyRow /\ row.last = policy.last /\ row.state = policy.state
    BY <1>1 DEF PolicyRow
  <2>3. Reschedule(row)
    BY <2>1
  <2> HIDE DEF row
  <2>4. ~policy.leased /\ UNCHANGED << duty, probes, slips >>
    BY <1>4 DEF UpdatePolicy
  <2> QED BY <1>1, <1>2, <2>2, <2>3, <2>4, RowIsRescheduled, OwnerStep
<1>5. CASE ArchivePolicy
  <2> DEFINE row == [policy EXCEPT !.state = "archived", !.enabled = FALSE]
  <2>2. row \in PolicyRow /\ row.last = policy.last /\ row.state = "archived"
    BY <1>1 DEF PolicyRow
  <2>3. Reschedule(row)
    BY <1>5 DEF ArchivePolicy
  <2> HIDE DEF row
  <2>4. Active /\ ~policy.leased /\ UNCHANGED << duty, probes, slips >>
    BY <1>5 DEF ArchivePolicy
  <2> QED BY <1>1, <1>2, <2>2, <2>3, <2>4, RowIsRescheduled, OwnerStep DEF Active
<1>6. CASE RestorePolicy
  <2> DEFINE row == [policy EXCEPT !.state = "active"]
  <2>1. /\ row \in PolicyRow /\ row.last = policy.last /\ row.next = policy.next
        /\ row.token = policy.token /\ row.leased = policy.leased
    BY <1>1 DEF PolicyRow
  <2>2. policy' = row /\ policy.state = "archived" /\ ~Active /\ UNCHANGED << slots, duty, probes, slips >>
    BY <1>6 DEF RestorePolicy, Active
  <2> HIDE DEF row
  <2> QED BY <1>1, <1>2, <2>1, <2>2, OwnerStep
<1>7. CASE PurgePolicy
  <2> DEFINE row == [policy EXCEPT !.state = "purged"]
             unlinked(k) == [probes[k] EXCEPT !.linked = FALSE]
  <2>1. /\ row \in PolicyRow /\ row.last = policy.last /\ row.next = policy.next
        /\ row.token = policy.token /\ row.leased = policy.leased /\ row.state = "purged"
    BY <1>1 DEF PolicyRow
  <2>2. \A k \in Slots : unlinked(k) \in Probe /\ unlinked(k).state = probes[k].state
    BY <1>1 DEF Probe
  <2>3. /\ policy' = row /\ probes' = [k \in Slots |-> unlinked(k)]
        /\ ~Active /\ UNCHANGED << slots, duty, slips >>
    BY <1>7 DEF PurgePolicy, Active
  <2> HIDE DEF row, unlinked
  <2>4. probes' \in [Slots -> Probe] /\ \A k \in Slots : probes'[k].state = probes[k].state
    BY <2>2, <2>3
  <2> QED BY <1>1, <1>2, <2>1, <2>3, <2>4, OwnerStep
<1>8. CASE RequestRun
  <2> DEFINE row == [policy EXCEPT !.next = slots + 1]
  <2>1. slots + 1 \in Nat
    BY <1>1
  <2>2. /\ row \in PolicyRow /\ row.last = policy.last /\ row.next = slots + 1
        /\ row.token = policy.token /\ row.leased = policy.leased /\ row.state = policy.state
    BY <1>1, <2>1 DEF PolicyRow
  <2>3. /\ policy' = row /\ slots < MaxSlots /\ slots' = slots + 1 /\ ~policy.leased
        /\ UNCHANGED << duty, probes, slips >>
    BY <1>8 DEF RequestRun, Later
  <2> HIDE DEF row
  <2>4. slots' \in 0..MaxSlots /\ slots' >= slots
    BY <1>1, <2>3
  <2> QED BY <1>1, <1>2, <2>2, <2>3, <2>4, OwnerStep
\* Whoever is on duty loses the lease: a mishap.
<1>9. CASE LeaseRunsOut
  <2> DEFINE row == [policy EXCEPT !.leased = FALSE]
  <2>1. /\ row \in PolicyRow /\ row.last = policy.last /\ row.next = policy.next
        /\ row.token = policy.token /\ ~row.leased /\ row.state = policy.state
    BY <1>1 DEF PolicyRow
  <2>2. policy' = row /\ UNCHANGED << slots, duty, probes >>
    BY <1>9 DEF LeaseRunsOut
  <2> HIDE DEF row
  <2>3. CASE \E s \in Schedulers : duty[s].token = policy.token
    <3>1. slips' \in Nat /\ slips' = slips + 1
      BY <1>1, <1>9, <2>3 DEF LeaseRunsOut, Slip
    <3>2. MonitorTypes'
      BY <1>1, <2>1, <2>2, <3>1 DEF MonitorTypes
    <3>3. InOrder'
      <4>1. Running' = Running /\ \A s \in Schedulers : (OnDuty(s)' <=> OnDuty(s)) /\ ~HasLease(s)'
        BY <2>1, <2>2 DEF Running, OnDuty, HasLease
      <4> QED BY <1>1, <2>1, <2>2, <4>1 DEF InOrder
    <3>4. PICK k : k = policy.next
      OBVIOUS
    <3>5. ASSUME NEW j \in Slots, IsStray(j)', j # k PROVE IsStray(j)
      <4>1. \A s \in Schedulers : ~IsDue(s, j)
        BY <1>1, <3>4, <3>5 DEF IsDue, InOrder
      <4>2. GoesOn(j) /\ j # policy.last
        BY <2>1, <2>2, <3>5 DEF IsStray, GoesOn, Aims
      <4> QED BY <4>1, <4>2 DEF IsStray
    <3>6. Cardinality(Strays)' <= slips'
      BY <3>1, <3>5, StraysCounted
    <3> QED BY <3>2, <3>3, <3>6 DEF MonitorInv
  <2>4. CASE ~\E s \in Schedulers : duty[s].token = policy.token
    <3>1. UNCHANGED slips
      BY <1>9, <2>4 DEF LeaseRunsOut
    <3>2. \A s \in Schedulers : ~HasLease(s)
      BY <2>4 DEF HasLease
    <3> QED BY <1>1, <2>1, <2>2, <3>1, <3>2, OwnerStep
  <2> QED BY <2>3, <2>4
<1>10. ASSUME NEW s \in Schedulers, Claim(s) PROVE MonitorInv'
  BY <1>10, ClaimKeeps
<1>11. ASSUME NEW s \in Schedulers, Dispatch(s) PROVE MonitorInv'
  BY <1>11, DispatchKeeps
<1>12. ASSUME NEW s \in Schedulers, CompleteDispatch(s) PROVE MonitorInv'
  BY <1>12, CompleteKeeps
<1>13. ASSUME NEW s \in Schedulers, FailDispatch(s) PROVE MonitorInv'
  <2>1. /\ duty' = [duty EXCEPT ![s] = Idle] /\ duty[s].at = "failing"
        /\ slips' \in Nat /\ slips' >= slips /\ UNCHANGED probes
        /\ UNCHANGED schedule \/ (Holds(s) /\ Settle(policy.last))
    BY <1>1, <1>13 DEF FailDispatch, Slip, schedule
  <2> QED BY <2>1, DutyEnds
<1>14. ASSUME NEW s \in Schedulers, SchedulerDies(s) PROVE MonitorInv'
  <2>1. /\ duty' = [duty EXCEPT ![s] = Idle] /\ slips' \in Nat /\ slips' = slips + 1
        /\ UNCHANGED << schedule, probes >>
    BY <1>1, <1>14 DEF SchedulerDies, Slip
  <2> QED BY <2>1, DutyEnds
<1>15. ASSUME NEW k \in Slots, ProbeEnds(k) PROVE MonitorInv'
  <2> DEFINE ended == {j \in Slots : probes[j].state = "ended"}
             row   == [probes[k] EXCEPT !.state = "ended", !.observed = 1 + Cardinality(ended)]
  <2>1. Cardinality(ended) \in Nat
    <3>1. IsFiniteSet(Slots)
      BY <1>1, FS_Interval DEF Slots
    <3> QED BY <3>1, FS_Subset, FS_CardinalityType
  <2>2. row \in Probe /\ row.state = "ended" /\ row.linked = probes[k].linked
    <3> HIDE DEF ended
    <3>1. 1 + Cardinality(ended) \in Nat /\ probes[k] \in Probe
      BY <1>1, <2>1
    <3> QED BY <3>1 DEF Probe
  <2>3. /\ probes' = [probes EXCEPT ![k] = row] /\ probes[k].state = "RUNNING"
        /\ UNCHANGED << policy, slots, duty, slips >>
    BY <1>15 DEF ProbeEnds, schedule
  <2> HIDE DEF row
  <2>4. /\ probes' \in [Slots -> Probe]
        /\ \A j \in Slots :
               /\ probes'[j].linked = probes[j].linked
               /\ \/ probes'[j].state = probes[j].state
                  \/ (probes[j].state = "RUNNING" /\ probes'[j].state = "ended")
    <3>1. probes' \in [Slots -> Probe] /\ probes'[k] = row
      BY <1>1, <2>2, <2>3
    <3>2. \A j \in Slots : j # k => probes'[j] = probes[j]
      BY <1>1, <2>3
    <3>3. ASSUME NEW j \in Slots
          PROVE  /\ probes'[j].linked = probes[j].linked
                 /\ \/ probes'[j].state = probes[j].state
                    \/ (probes[j].state = "RUNNING" /\ probes'[j].state = "ended")
      <4>1. CASE j = k
        BY <2>2, <2>3, <3>1, <4>1
      <4>2. CASE j # k
        BY <3>2, <4>2
      <4> QED BY <4>1, <4>2
    <3> QED BY <3>1, <3>3
  <2>5. MonitorTypes'
    BY <1>1, <2>3, <2>4 DEF MonitorTypes
  <2>6. InOrder'
    <3>1. policy.last # 0 => policy.last \in Slots
      BY <1>1 DEF MonitorTypes, PolicyRow, Slots
    <3>2. (Running' => Running) /\ Active' = Active
      BY <2>3, <2>4, <3>1 DEF Running, Active
    <3>3. \A s \in Schedulers : duty[s].at = "completing" => duty[s].slot \in Slots
      BY <1>1 DEF MonitorTypes, Slots
    <3>4. \A s \in Schedulers : (OnDuty(s)' <=> OnDuty(s)) /\ (HasLease(s)' <=> HasLease(s))
      BY <2>3 DEF OnDuty, HasLease
    <3>5. \A s \in Schedulers : duty'[s].at = "completing" => probes'[duty'[s].slot].state # "none"
      BY <1>1, <2>3, <2>4, <3>3 DEF InOrder
    <3>6. policy'.last # 0 => probes'[policy'.last].state # "none"
      BY <1>1, <2>3, <2>4, <3>1 DEF InOrder
    <3>7. policy'.state # "purged" => \A j \in Slots : probes'[j].state # "none" => probes'[j].linked
      BY <1>1, <2>3, <2>4 DEF InOrder
    <3> QED BY <1>1, <2>3, <3>2, <3>4, <3>5, <3>6, <3>7 DEF InOrder
  <2>7. ASSUME NEW j \in Slots, IsStray(j)' PROVE IsStray(j)
    <3>1. probes'[j].state = probes[j].state
      BY <2>4, <2>7 DEF IsStray, GoesOn
    <3>2. \A s \in Schedulers : (HasLease(s)' <=> HasLease(s)) /\ (Aims(s, j)' <=> Aims(s, j))
      BY <2>3 DEF OnDuty, HasLease, Aims
    <3>3. GoesOn(j) /\ j # policy.last
      BY <2>3, <2>7, <3>1, <3>2 DEF IsStray, GoesOn
    <3>4. \A s \in Schedulers : IsDue(s, j) => IsDue(s, j)'
      BY <2>3, <3>1, <3>2 DEF IsDue
    <3> QED BY <2>7, <3>3, <3>4 DEF IsStray
  <2>8. slips' = slips /\ Cardinality(Strays)' <= slips'
    BY <1>1, <2>3, <2>7, StraysCounted
  <2> QED BY <2>5, <2>6, <2>8 DEF MonitorInv
<1>16. CASE UNCHANGED << policy, slots, duty, probes, slips >>
  <2>1. MonitorTypes'
    BY <1>1, <1>16 DEF MonitorTypes
  <2>2. InOrder'
    BY <1>1, <1>16 DEF InOrder, HasLease, OnDuty, Active, Running
  <2>3. Strays' = Strays
    BY <1>16 DEF Strays, IsStray, GoesOn, IsDue, Aims, HasLease, OnDuty
  <2> QED BY <1>16, <2>1, <2>2, <2>3 DEF MonitorInv
<1>17. ASSUME NEW k \in Slots, RecordMonitorRun(k) PROVE MonitorInv'
  BY <1>16, <1>17 DEF RecordMonitorRun, schedule
<1>18. CASE UNCHANGED monitorVars
  BY <1>16, <1>18 DEF monitorVars, schedule
<1> QED BY <1>3, <1>4, <1>5, <1>6, <1>7, <1>8, <1>9, <1>10, <1>11, <1>12, <1>13, <1>14, <1>15,
           <1>17, <1>18 DEF MonitorNext

\* The schedule is in order from the start.
LEMMA MonitorStart == MonitorInit => MonitorInv
<1> SUFFICES ASSUME MonitorInit PROVE MonitorInv
  OBVIOUS
<1>1. policy \in PolicyRow /\ policy.next = 0 /\ policy.last = 0
  <2>1. << 1, 1 >> \in Pairs
    BY DEF Pairs
  <2> QED BY <2>1 DEF MonitorInit, PolicyRow
<1>2. duty \in [Schedulers -> Duty] /\ \A s \in Schedulers : duty[s].at = "idle"
  BY DEF MonitorInit, Idle, Duty
<1>3. probes \in [Slots -> Probe] /\ \A k \in Slots : probes[k].state = "none"
  BY DEF MonitorInit, Probe
<1>4. slots = 0 /\ slips = 0 /\ slots \in 0..MaxSlots
  BY MonitorAssumption DEF MonitorInit
<1>5. MonitorTypes
  BY <1>1, <1>2, <1>3, <1>4 DEF MonitorTypes
<1>6. InOrder
  BY <1>1, <1>2, <1>3 DEF MonitorInit, InOrder, HasLease, OnDuty
<1>7. Cardinality(Strays) <= slips
  <2>1. Strays = {}
    BY <1>2, <1>3 DEF Strays, IsStray, GoesOn, Aims
  <2> QED BY <1>4, <2>1, FS_EmptySet
<1> QED BY <1>5, <1>6, <1>7 DEF MonitorInv

\* A policy is set only forward, to runs after its last.
LEMMA LastMovesOn ==
    ASSUME MonitorInv, [MonitorNext]_monitorVars
    PROVE  policy'.last >= policy.last
<1>1. /\ MonitorTypes /\ policy \in PolicyRow /\ slots \in Nat
      /\ policy.last \in 0..slots /\ policy.last \in Nat
  BY MonitorAssumption DEF MonitorInv, MonitorTypes, PolicyRow
<1>2. ASSUME NEW row \in PolicyRow, row.last = policy.last, Reschedule(row)
      PROVE  policy'.last = policy.last
  BY <1>1, <1>2, RowIsRescheduled
<1>3. CASE CreatePolicy
  <2>1. PICK on \in BOOLEAN, t \in Thresholds :
            Reschedule([policy EXCEPT !.state = "active", !.enabled = on, !.thresholds = t])
    BY <1>3 DEF CreatePolicy
  <2> DEFINE row == [policy EXCEPT !.state = "active", !.enabled = on, !.thresholds = t]
  <2>2. row \in PolicyRow /\ row.last = policy.last
    <3>1. t \in Pairs
      BY MonitorAssumption DEF Pairs
    <3> QED BY <1>1, <3>1 DEF PolicyRow
  <2>3. Reschedule(row)
    BY <2>1
  <2> HIDE DEF row
  <2> QED BY <1>1, <1>2, <2>2, <2>3
<1>4. CASE UpdatePolicy
  <2>1. PICK on \in BOOLEAN : Reschedule([policy EXCEPT !.enabled = on])
    BY <1>4 DEF UpdatePolicy
  <2> DEFINE row == [policy EXCEPT !.enabled = on]
  <2>2. row \in PolicyRow /\ row.last = policy.last
    BY <1>1 DEF PolicyRow
  <2>3. Reschedule(row)
    BY <2>1
  <2> HIDE DEF row
  <2> QED BY <1>1, <1>2, <2>2, <2>3
<1>5. CASE ArchivePolicy
  <2> DEFINE row == [policy EXCEPT !.state = "archived", !.enabled = FALSE]
  <2>1. row \in PolicyRow /\ row.last = policy.last
    BY <1>1 DEF PolicyRow
  <2>2. Reschedule(row)
    BY <1>5 DEF ArchivePolicy
  <2> HIDE DEF row
  <2> QED BY <1>1, <1>2, <2>1, <2>2
<1>6. CASE RestorePolicy \/ PurgePolicy \/ RequestRun \/ LeaseRunsOut
  BY <1>1, <1>6 DEF RestorePolicy, PurgePolicy, RequestRun, LeaseRunsOut, PolicyRow
<1>7. ASSUME NEW s \in Schedulers, Claim(s) \/ Dispatch(s) \/ SchedulerDies(s)
      PROVE  policy'.last >= policy.last
  <2>1. CASE Claim(s)
    BY <1>1, <2>1 DEF Claim, PolicyRow
  <2>2. CASE Dispatch(s) \/ SchedulerDies(s)
    <3>1. UNCHANGED policy
      BY <2>2 DEF Dispatch, SchedulerDies, schedule
    <3> QED BY <1>1, <3>1
  <2> QED BY <1>7, <2>1, <2>2
\* Whoever completes its dispatch has the slot that is next.
<1>8. ASSUME NEW s \in Schedulers, CompleteDispatch(s) PROVE policy'.last >= policy.last
  <2>1. duty[s].slot \in 1..slots
    BY <1>1, <1>8 DEF CompleteDispatch, MonitorTypes
  <2>2. CASE Holds(s) /\ Settle(duty[s].slot)
    <3>1. policy'.last = duty[s].slot
      BY <1>1, <2>1, <2>2, ScheduleSettles
    <3>2. policy.last < duty[s].slot
      BY <1>1, <2>1, <2>2 DEF Holds, MonitorTypes
    <3> QED BY <1>1, <2>1, <3>1, <3>2
  <2>3. CASE UNCHANGED schedule
    BY <1>1, <2>3 DEF schedule
  <2> QED BY <1>8, <2>2, <2>3 DEF CompleteDispatch
<1>9. ASSUME NEW s \in Schedulers, FailDispatch(s) PROVE policy'.last >= policy.last
  <2>1. CASE Settle(policy.last)
    BY <1>1, <2>1, ScheduleSettles
  <2>2. CASE UNCHANGED schedule
    BY <1>1, <2>2 DEF schedule
  <2> QED BY <1>9, <2>1, <2>2 DEF FailDispatch
<1>10. CASE \E k \in Slots : ProbeEnds(k) \/ RecordMonitorRun(k)
  BY <1>1, <1>10 DEF ProbeEnds, RecordMonitorRun, schedule
<1>11. CASE UNCHANGED monitorVars
  BY <1>1, <1>11 DEF monitorVars, schedule
<1> QED BY <1>1, <1>2, <1>3, <1>4, <1>5, <1>6, <1>7, <1>8, <1>9, <1>10, <1>11 DEF MonitorNext

\* A policy has one run at a time, and at most one more for each call that failed, each
\* scheduler that died and each lease that ran out under one; a scheduler that was
\* overtaken does not set it back.
THEOREM PolicyRunsOnce == MonitorSpec => OneRunAtATime
<1> DEFINE running == {k \in Slots : probes[k].state = "RUNNING"}
<1>1. MonitorInv => FewAtWork
  <2> SUFFICES ASSUME MonitorInv PROVE FewAtWork
    OBVIOUS
  <2>1. MonitorTypes /\ InOrder /\ Cardinality(Strays) <= slips /\ slips \in Nat /\ 0 \notin Slots
    BY DEF MonitorInv, MonitorTypes, Slots
  <2>2. IsFiniteSet(Slots)
    BY MonitorAssumption, FS_Interval DEF Slots
  <2>3. IsFiniteSet(Strays) /\ Cardinality(Strays) \in Nat
    BY <2>2, FS_Subset, FS_CardinalityType DEF Strays
  <2>4. \E x : running \subseteq Strays \cup {x}
    <3>1. CASE Running
      <4>1. \A s \in Schedulers : ~HasLease(s)
        BY <2>1, <3>1 DEF InOrder, HasLease
      <4>2. running \subseteq Strays \cup {policy.last}
        BY <4>1 DEF Strays, IsStray, GoesOn, IsDue
      <4> QED BY <4>2
    <3>2. CASE ~Running
      <4>1. \A k \in running : k # policy.last
        BY <2>1, <3>2 DEF Running
      <4>2. \A k \in running, s \in Schedulers : IsDue(s, k) => k = policy.next
        BY <2>1 DEF IsDue, InOrder
      <4>3. running \subseteq Strays \cup {policy.next}
        BY <4>1, <4>2 DEF Strays, IsStray, GoesOn
      <4> QED BY <4>3
    <3> QED BY <3>1, <3>2
  <2>5. PICK x : running \subseteq Strays \cup {x}
    BY <2>4
  <2>6. /\ IsFiniteSet(Strays \cup {x})
        /\ Cardinality(Strays \cup {x}) = IF x \in Strays THEN Cardinality(Strays)
                                         ELSE Cardinality(Strays) + 1
    BY <2>3, FS_AddElement
  <2>7. Cardinality(running) <= Cardinality(Strays \cup {x}) /\ Cardinality(running) \in Nat
    BY <2>5, <2>6, FS_Subset, FS_CardinalityType
  <2> QED BY <2>1, <2>3, <2>6, <2>7 DEF FewAtWork
<1>2. MonitorInv /\ [MonitorNext]_monitorVars => [MovesOn]_monitorVars
  BY LastMovesOn DEF MovesOn
<1>3. MonitorSpec => []FewAtWork
  BY <1>1, MonitorStart, MonitorStep, PTL DEF MonitorSpec
<1>4. MonitorSpec => [][MovesOn]_monitorVars
  BY <1>2, MonitorStart, MonitorStep, PTL DEF MonitorSpec
<1> QED BY <1>3, <1>4, PTL DEF OneRunAtATime

Statuses == {"UNKNOWN", "UP", "DOWN", "DEGRADED"}
Reports  == {"DOWN", "DEGRADED", "RECOVERED"}

\* The incidents so far tell the status.
Tells(told, status) ==
    /\ \A n \in DOMAIN told : n > 1 => told[n] # told[n - 1]
    /\ LET last == IF told = << >> THEN "none" ELSE told[Len(told)]
       IN  /\ status \in {"DOWN", "DEGRADED"} => last = status
           /\ status = "UP" => last \in {"none", "RECOVERED"}
           /\ status = "UNKNOWN" => last = "none"

\* A sample is of a run that has ended, and no later than the health says if it counted.
HealthInv ==
    /\ MonitorTypes
    /\ samples \in Seq(Sample) /\ health \in Health /\ incidents \in Seq(Reports)
    /\ \A n \in DOMAIN samples :
           /\ probes[samples[n].run].state = "ended"
           /\ ~samples[n].stale => probes[samples[n].run].observed <= health.observed
    /\ IncidentsTellStatus

\* A status that was known stays known.
LEMMA TransitionKnows ==
    ASSUME NEW was \in Health, NEW is \in Observations, NEW thresholds
    PROVE  /\ Transition(was, is, thresholds) \in Health
           /\ Transition(was, is, thresholds).status = "UNKNOWN" => was.status = "UNKNOWN"
<1> DEFINE failures  == IF is = "FAIL" THEN was.failures + 1 ELSE 0
           successes == IF is = "PASS" THEN was.successes + 1 ELSE 0
           status    == IF is = "WARN" THEN "DEGRADED"
                        ELSE IF is = "FAIL"
                             THEN IF failures >= thresholds[1] THEN "DOWN" ELSE was.status
                        ELSE IF successes >= thresholds[2] THEN "UP" ELSE was.status
           row == [was EXCEPT !.status = status, !.successes = successes, !.failures = failures]
<1>1. /\ failures \in Nat /\ successes \in Nat /\ status \in Statuses
      /\ status = "UNKNOWN" => was.status = "UNKNOWN"
  BY DEF Health, Statuses
<1>2. Transition(was, is, thresholds) = IF is = "UNKNOWN" THEN was ELSE row
  BY DEF Transition
<1> HIDE DEF failures, successes, status
<1>3. row \in Health /\ row.status = status
  BY <1>1 DEF Health, Statuses
<1> QED BY <1>1, <1>2, <1>3

\* The incident of a transition is told next.
LEMMA TellsOn ==
    ASSUME NEW told \in Seq(Reports), NEW was \in Statuses, NEW is \in Statuses,
           Tells(told, was), is = "UNKNOWN" => was = "UNKNOWN"
    PROVE  told \o Incident(was, is) \in Seq(Reports) /\ Tells(told \o Incident(was, is), is)
<1> DEFINE last == IF told = << >> THEN "none" ELSE told[Len(told)]
<1>1. CASE is = was \/ is = "UNKNOWN"
  <2>1. told \o Incident(was, is) = told /\ is = was
    BY <1>1 DEF Incident
  <2> QED BY <2>1
<1>2. CASE is = "UP" /\ was = "UNKNOWN"
  <2>1. told \o Incident(was, is) = told
    BY <1>2 DEF Incident
  <2>2. told = << >>
    <3>1. last = "none"
      BY <1>2 DEF Tells
    <3>2. CASE told # << >>
      <4>1. last \in Reports
        BY <3>2
      <4> QED BY <3>1, <4>1 DEF Reports
    <3> QED BY <3>2
  <2> QED BY <1>2, <2>1, <2>2 DEF Tells
<1>3. CASE is # was /\ is # "UNKNOWN" /\ ~(is = "UP" /\ was = "UNKNOWN")
  <2> DEFINE new == IF is = "UP" THEN "RECOVERED" ELSE is
  <2>1. Incident(was, is) = << new >> /\ new \in Reports
    BY <1>3 DEF Incident, Reports, Statuses
  <2>2. told # << >> => told[Len(told)] # new
    <3>1. /\ was \in {"DOWN", "DEGRADED"} => last = was
          /\ was = "UP" => last \in {"none", "RECOVERED"}
          /\ was = "UNKNOWN" => last = "none"
      BY DEF Tells
    <3>2. told # << >> => last \in Reports
      OBVIOUS
    <3> QED BY <1>3, <3>1, <3>2 DEF Reports, Statuses
  <2> HIDE DEF new
  <2> DEFINE all == told \o << new >>
  <2>3. /\ all \in Seq(Reports) /\ Len(all) = Len(told) + 1 /\ DOMAIN all = 1..(Len(told) + 1)
        /\ all[Len(told) + 1] = new /\ Len(told) \in Nat
        /\ \A n \in 1..Len(told) : all[n] = told[n]
    BY <2>1
  <2> HIDE DEF all
  <2>4. \A n \in DOMAIN all : n > 1 => all[n] # all[n - 1]
    <3> SUFFICES ASSUME NEW n \in DOMAIN all, n > 1 PROVE all[n] # all[n - 1]
      OBVIOUS
    <3>1. CASE n = Len(told) + 1
      <4>1. told # << >> /\ n - 1 = Len(told) /\ Len(told) \in 1..Len(told)
        BY <2>3, <3>1
      <4> QED BY <2>2, <2>3, <3>1, <4>1
    <3>2. CASE n # Len(told) + 1
      <4>1. n \in 1..Len(told) /\ n - 1 \in 1..Len(told) /\ DOMAIN told = 1..Len(told)
        BY <2>3, <3>2
      <4>2. told[n] # told[n - 1]
        BY <4>1 DEF Tells
      <4> QED BY <2>3, <4>1, <4>2
    <3> QED BY <3>1, <3>2
  <2>5. all # << >> /\ all[Len(all)] = new
    BY <2>3
  <2>6. Tells(all, is)
    BY <1>3, <2>4, <2>5 DEF Tells, new, Statuses
  <2> QED BY <2>1, <2>3, <2>6 DEF all
<1> QED BY <1>1, <1>2, <1>3

\* A run is taken into account once it has ended, in order.
LEMMA RecordKeeps ==
    ASSUME HealthInv, MonitorTypes', NEW k \in Slots, RecordMonitorRun(k)
    PROVE  HealthInv'
<1>1. PICK is \in Observations :
          LET stale == probes[k].observed <= health.observed
              new   == Transition(health, is, policy.thresholds)
          IN  /\ samples' = Append(samples, [run |-> k, is |-> is, stale |-> stale])
              /\ IF stale
                 THEN UNCHANGED << health, incidents >>
                 ELSE /\ health' = [new EXCEPT !.observed = probes[k].observed]
                      /\ incidents' = incidents \o Incident(health.status, new.status)
  BY DEF RecordMonitorRun
<1> DEFINE stale == probes[k].observed <= health.observed
           new   == Transition(health, is, policy.thresholds)
           x     == [run |-> k, is |-> is, stale |-> stale]
           row   == [new EXCEPT !.observed = probes[k].observed]
<1>2. /\ samples \in Seq(Sample) /\ health \in Health /\ incidents \in Seq(Reports)
      /\ probes[k] \in Probe /\ probes[k].state = "ended" /\ UNCHANGED probes
  BY DEF HealthInv, MonitorTypes, RecordMonitorRun
<1>3. x \in Sample /\ x.run = k /\ x.stale = stale
  BY <1>1 DEF Sample
<1>4. new \in Health /\ (new.status = "UNKNOWN" => health.status = "UNKNOWN")
  BY <1>1, <1>2, TransitionKnows
<1>5. health.observed \in Nat /\ probes[k].observed \in Nat /\ health.status \in Statuses
  BY <1>2 DEF Health, Probe, Statuses
<1> HIDE DEF new
<1>6. row \in Health /\ row.status = new.status /\ row.observed = probes[k].observed
  BY <1>4, <1>5 DEF Health
<1>7. /\ samples' = Append(samples, x)
      /\ IF stale THEN UNCHANGED << health, incidents >>
         ELSE health' = row /\ incidents' = incidents \o Incident(health.status, new.status)
  BY <1>1 DEF new
<1> HIDE DEF x, row
<1>8. /\ samples' \in Seq(Sample) /\ Len(samples) \in Nat
      /\ DOMAIN samples' = 1..(Len(samples) + 1) /\ DOMAIN samples = 1..Len(samples)
      /\ samples'[Len(samples) + 1] = x
      /\ \A n \in DOMAIN samples : samples'[n] = samples[n]
  BY <1>2, <1>3, <1>7
<1>9. health' \in Health /\ health'.observed >= health.observed
      /\ health'.observed >= probes[k].observed
      /\ health'.observed \in Nat
  BY <1>2, <1>5, <1>6, <1>7 DEF Health
<1>10. incidents' \in Seq(Reports) /\ Tells(incidents', health'.status)
  <2>1. Tells(incidents, health.status)
    BY DEF HealthInv, IncidentsTellStatus, Tells
  <2>2. new.status \in Statuses
    BY <1>4 DEF Health, Statuses
  <2>3. CASE stale
    BY <1>2, <1>7, <2>1, <2>3
  <2>4. CASE ~stale
    BY <1>2, <1>4, <1>5, <1>6, <1>7, <2>1, <2>2, <2>4, TellsOn
  <2> QED BY <2>3, <2>4
<1>11. \A n \in DOMAIN samples' :
           /\ probes'[samples'[n].run].state = "ended"
           /\ ~samples'[n].stale => probes'[samples'[n].run].observed <= health'.observed
  <2> SUFFICES ASSUME NEW n \in DOMAIN samples'
               PROVE  /\ probes[samples'[n].run].state = "ended"
                      /\ ~samples'[n].stale => probes[samples'[n].run].observed <= health'.observed
    BY <1>2
  <2>1. CASE n = Len(samples) + 1
    <3>1. samples'[n].run = k
      BY <1>3, <1>8, <2>1
    <3>2. probes[k].observed <= health'.observed
      BY <1>5, <1>9
    <3> QED BY <1>2, <3>1, <3>2
  <2>2. CASE n # Len(samples) + 1
    <3>1. n \in DOMAIN samples /\ samples[n] \in Sample /\ samples'[n] = samples[n]
      BY <1>2, <1>8, <2>2
    <3>2. probes[samples[n].run] \in Probe
      BY <3>1 DEF Sample, HealthInv, MonitorTypes
    <3>3. probes[samples[n].run].observed \in Nat
      BY <3>2 DEF Probe
    <3>4. /\ probes[samples[n].run].state = "ended"
          /\ ~samples[n].stale => probes[samples[n].run].observed <= health.observed
      BY <3>1 DEF HealthInv
    <3> QED BY <1>5, <1>9, <3>1, <3>3, <3>4
  <2> QED BY <2>1, <2>2
<1>12. \A m, n \in DOMAIN samples' :
           m < n /\ ~samples'[m].stale /\ ~samples'[n].stale =>
               probes'[samples'[m].run].observed < probes'[samples'[n].run].observed
  <2> SUFFICES ASSUME NEW m \in DOMAIN samples', NEW n \in DOMAIN samples', m < n,
                      ~samples'[m].stale, ~samples'[n].stale
               PROVE  probes[samples'[m].run].observed < probes[samples'[n].run].observed
    BY <1>2
  <2>1. m \in DOMAIN samples /\ samples'[m] = samples[m] /\ samples[m] \in Sample
    BY <1>2, <1>8
  <2>2. CASE n = Len(samples) + 1
    <3>1. probes[samples[m].run] \in Probe
      BY <2>1 DEF Sample, HealthInv, MonitorTypes
    <3>2. probes[samples[m].run].observed \in Nat
      BY <3>1 DEF Probe
    <3>3. probes[samples[m].run].observed <= health.observed
      BY <2>1 DEF HealthInv
    <3>4. ~(probes[k].observed <= health.observed) /\ samples'[n].run = k
      BY <1>3, <1>8, <2>2
    <3> QED BY <1>5, <2>1, <3>2, <3>3, <3>4
  <2>3. CASE n # Len(samples) + 1
    <3>1. n \in DOMAIN samples /\ samples'[n] = samples[n]
      BY <1>8, <2>3
    <3> QED BY <2>1, <3>1 DEF HealthInv, IncidentsTellStatus
  <2> QED BY <2>2, <2>3
<1>13. IncidentsTellStatus'
  BY <1>10, <1>12 DEF IncidentsTellStatus, Tells
<1> QED BY <1>8, <1>9, <1>10, <1>11, <1>13 DEF HealthInv

\* What a step that records nothing leaves as it is.
LEMMA HealthStep ==
    ASSUME HealthInv, MonitorTypes', [MonitorNext]_monitorVars
    PROVE  HealthInv'
<1>1. ASSUME UNCHANGED findings,
             \A k \in Slots : probes[k].state = "ended" =>
                 probes'[k].state = "ended" /\ probes'[k].observed = probes[k].observed
      PROVE  HealthInv'
  <2>1. \A n \in DOMAIN samples : samples[n].run \in Slots
    <3>1. samples \in Seq(Sample)
      BY DEF HealthInv
    <3>2. \A n \in DOMAIN samples : samples[n] \in Sample
      BY <3>1
    <3> QED BY <3>2 DEF Sample
  <2>2. UNCHANGED << samples, health, incidents >>
    BY <1>1 DEF findings
  <2>3. \A n \in DOMAIN samples : probes'[samples[n].run].state = "ended"
            /\ probes'[samples[n].run].observed = probes[samples[n].run].observed
    BY <1>1, <2>1 DEF HealthInv
  <2>4. IncidentsTellStatus'
    BY <2>2, <2>3 DEF HealthInv, IncidentsTellStatus
  <2> QED BY <2>2, <2>3, <2>4 DEF HealthInv
<1>2. CASE UNCHANGED << findings, probes >>
  BY <1>1, <1>2
<1>3. CASE CreatePolicy \/ UpdatePolicy \/ ArchivePolicy \/ RestorePolicy \/ RequestRun \/ LeaseRunsOut
  BY <1>2, <1>3 DEF CreatePolicy, UpdatePolicy, ArchivePolicy, RestorePolicy, RequestRun, LeaseRunsOut
<1>4. CASE PurgePolicy
  <2>1. samples' = << >> /\ health' = NoHealth /\ incidents' = << >>
    BY <1>4 DEF PurgePolicy
  <2>2. health' \in Health /\ health'.status = "UNKNOWN"
    BY <2>1 DEF NoHealth, Health
  <2>3. IncidentsTellStatus'
    BY <2>1, <2>2 DEF IncidentsTellStatus
  <2> QED BY <2>1, <2>2, <2>3 DEF HealthInv
<1>5. ASSUME NEW s \in Schedulers, Claim(s) \/ CompleteDispatch(s) \/ FailDispatch(s) \/ SchedulerDies(s)
      PROVE  HealthInv'
  BY <1>2, <1>5 DEF Claim, CompleteDispatch, FailDispatch, SchedulerDies
<1>6. ASSUME NEW s \in Schedulers, Dispatch(s) PROVE HealthInv'
  <2>1. probes \in [Slots -> Probe] /\ UNCHANGED findings
    BY <1>6 DEF HealthInv, MonitorTypes, Dispatch
  <2>2. \/ UNCHANGED probes
        \/ /\ probes[duty[s].slot].state = "none"
           /\ probes' = [probes EXCEPT ![duty[s].slot].state = "RUNNING", ![duty[s].slot].linked = TRUE]
    BY <1>6 DEF Dispatch
  <2>3. \A k \in Slots : probes[k].state = "ended" => probes'[k] = probes[k]
    BY <2>1, <2>2
  <2> QED BY <1>1, <2>1, <2>3
<1>7. ASSUME NEW k \in Slots, ProbeEnds(k) PROVE HealthInv'
  <2>1. probes \in [Slots -> Probe] /\ UNCHANGED findings
    BY <1>7 DEF HealthInv, MonitorTypes, ProbeEnds
  <2>2. \A j \in Slots : j # k => probes'[j] = probes[j]
    BY <1>7, <2>1 DEF ProbeEnds
  <2>3. probes[k].state = "RUNNING"
    BY <1>7 DEF ProbeEnds
  <2> QED BY <1>1, <2>1, <2>2, <2>3
<1>8. ASSUME NEW k \in Slots, RecordMonitorRun(k) PROVE HealthInv'
  BY <1>8, RecordKeeps
<1>9. CASE UNCHANGED monitorVars
  BY <1>2, <1>9 DEF monitorVars
<1> QED BY <1>3, <1>4, <1>5, <1>6, <1>7, <1>8, <1>9 DEF MonitorNext

\* Before the first sample.
LEMMA HealthStart == MonitorInit => HealthInv
<1> SUFFICES ASSUME MonitorInit PROVE HealthInv
  OBVIOUS
<1>1. samples = << >> /\ health = NoHealth /\ incidents = << >> /\ MonitorTypes
  BY MonitorStart DEF MonitorInit, MonitorInv
<1>2. health \in Health /\ health.status = "UNKNOWN"
  BY <1>1 DEF NoHealth, Health
<1>3. IncidentsTellStatus
  BY <1>1, <1>2 DEF IncidentsTellStatus
<1> QED BY <1>1, <1>2, <1>3 DEF HealthInv

\* However late the runs of a policy are taken into account, what counts is in order,
\* and the incidents tell the status.
THEOREM IncidentsAreTold == MonitorSpec => []IncidentsTellStatus
<1>1. MonitorInit => HealthInv
  BY HealthStart
<1>2. HealthInv /\ MonitorInv /\ [MonitorNext]_monitorVars => HealthInv' /\ MonitorInv'
  BY MonitorStep, HealthStep DEF MonitorInv
<1>3. HealthInv => IncidentsTellStatus
  BY DEF HealthInv
<1> QED BY <1>1, <1>2, <1>3, MonitorStart, PTL DEF MonitorSpec

(***************************************************************************)
(* What the samples of a policy make of its status.                        *)
(***************************************************************************)

\* Counted, InARow, Streaks and StatusIsDeserved, for any samples.
Counts(q)            == {n \in DOMAIN q : ~q[n].stale /\ q[n].is # "UNKNOWN"}
RowIn(q, x, n)       == {m \in Counts(q) : m <= n /\ \A k \in Counts(q) : k \in m..n => q[k].is = x}
StreaksIn(q, x, many) == {n \in Counts(q) : Cardinality(RowIn(q, x, n)) >= many}

Latest(ends, all) == \E n \in ends : \A m \in all : m <= n

Verdict(down, warn, up) ==
    LET all == down \cup warn \cup up
    IN  IF Latest(down, all) THEN "DOWN"
        ELSE IF Latest(warn, all) THEN "DEGRADED"
        ELSE IF Latest(up, all) THEN "UP" ELSE "UNKNOWN"

Deserved(q, t) ==
    Verdict(StreaksIn(q, "FAIL", t[1]), StreaksIn(q, "WARN", 1), StreaksIn(q, "PASS", t[2]))

\* What the counters of a monitor say of its samples.
Tallied(q, h) ==
    /\ h.failures = Cardinality(RowIn(q, "FAIL", Len(q)))
    /\ h.successes = Cardinality(RowIn(q, "PASS", Len(q)))

DeservedInv ==
    /\ policy.state = "none" => slots = 0 /\ samples = << >>
    /\ Tallied(samples, health)
    /\ health.status = Deserved(samples, policy.thresholds)

\* The definitions say the same of the samples that there are.
LEMMA DeservedIsDeserved ==
    health.status = Deserved(samples, policy.thresholds) <=> StatusIsDeserved
<1>1. Counted = Counts(samples)
  BY DEF Counted, Counts
<1>2. \A x, n : InARow(x, n) = RowIn(samples, x, n)
  BY <1>1 DEF InARow, RowIn
<1>3. \A x, many : Streaks(x, many) = StreaksIn(samples, x, many)
  BY <1>1, <1>2 DEF Streaks, StreaksIn
<1> QED
  BY <1>3 DEF StatusIsDeserved, Deserved, Verdict, Latest

\* Rows are finite.
LEMMA RowIsFinite ==
    ASSUME NEW q \in Seq(Sample), NEW x, NEW n
    PROVE  IsFiniteSet(RowIn(q, x, n)) /\ Cardinality(RowIn(q, x, n)) \in Nat
           /\ RowIn(q, x, n) \subseteq 1..Len(q)
<1>1. RowIn(q, x, n) \subseteq 1..Len(q)
  BY DEF RowIn, Counts
<1>2. IsFiniteSet(1..Len(q))
  BY FS_Interval
<1> QED
  BY <1>1, <1>2, FS_Subset, FS_CardinalityType

\* A sample that does not count makes no difference.
LEMMA SkippedSample ==
    ASSUME NEW q \in Seq(Sample), NEW y \in Sample, y.stale \/ y.is = "UNKNOWN", NEW x
    PROVE  /\ RowIn(Append(q, y), x, Len(Append(q, y))) = RowIn(q, x, Len(q))
           /\ \A many : StreaksIn(Append(q, y), x, many) = StreaksIn(q, x, many)
<1> DEFINE r == Append(q, y)
<1>1. /\ Len(q) \in Nat /\ Len(r) = Len(q) + 1
      /\ DOMAIN r = 1..(Len(q) + 1) /\ DOMAIN q = 1..Len(q)
      /\ r[Len(q) + 1] = y /\ \A n \in 1..Len(q) : r[n] = q[n]
  OBVIOUS
<1> HIDE DEF r
<1>2. Counts(r) = Counts(q)
  <2>1. \A n \in 1..(Len(q) + 1) : n = Len(q) + 1 \/ n \in 1..Len(q)
    BY <1>1
  <2> QED
    BY <1>1, <2>1 DEF Counts
<1>3. \A k \in Counts(q) : k \in 1..Len(q) /\ r[k] = q[k]
  BY <1>1 DEF Counts
<1>4. \A n : RowIn(r, x, n) = RowIn(q, x, n)
  BY <1>2, <1>3 DEF RowIn
<1>5. RowIn(q, x, Len(r)) = RowIn(q, x, Len(q))
  <2>1. \A k \in Counts(q) : k <= Len(r) /\ k <= Len(q)
    BY <1>1, <1>3
  <2>2. \A m, k \in Counts(q) : k \in m..Len(r) <=> k \in m..Len(q)
    BY <1>1, <1>3
  <2> QED
    BY <2>1, <2>2 DEF RowIn
<1>6. \A many : StreaksIn(r, x, many) = StreaksIn(q, x, many)
  BY <1>2, <1>4 DEF StreaksIn
<1> QED
  BY <1>4, <1>5, <1>6 DEF r

\* A sample that counts goes on with the row of its kind and ends the others.
LEMMA TakenSample ==
    ASSUME NEW q \in Seq(Sample), NEW y \in Sample, ~y.stale, y.is # "UNKNOWN", NEW x
    PROVE  LET n == Len(q) + 1
               r == Append(q, y)
           IN  /\ Cardinality(RowIn(r, x, Len(r))) =
                      IF y.is = x THEN Cardinality(RowIn(q, x, Len(q))) + 1 ELSE 0
               /\ \A many \in Nat \ {0} : StreaksIn(r, x, many) =
                      StreaksIn(q, x, many) \cup
                      (IF y.is = x /\ Cardinality(RowIn(q, x, Len(q))) + 1 >= many THEN {n} ELSE {})
<1> DEFINE r == Append(q, y)
           n == Len(q) + 1
<1>1. /\ Len(q) \in Nat /\ Len(r) = n
      /\ DOMAIN r = 1..n /\ DOMAIN q = 1..Len(q)
      /\ r[n] = y /\ \A i \in 1..Len(q) : r[i] = q[i]
  OBVIOUS
<1>n. n \in Nat /\ n > Len(q) /\ n \notin 1..Len(q) /\ 1..n = 1..Len(q) \cup {n}
  BY <1>1
<1> HIDE DEF r, n
<1>2. Counts(r) = Counts(q) \cup {n}
  <2>1. \A i \in 1..n : i \in Counts(r) <=> ~r[i].stale /\ r[i].is # "UNKNOWN"
    BY <1>1 DEF Counts
  <2>2. n \in Counts(r)
    BY <1>1, <1>n, <2>1
  <2>3. \A i \in 1..Len(q) : i \in Counts(r) <=> i \in Counts(q)
    BY <1>1, <1>n, <2>1 DEF Counts
  <2>4. Counts(r) \subseteq 1..n /\ Counts(q) \subseteq 1..Len(q)
    BY <1>1 DEF Counts
  <2> QED
    BY <1>n, <2>2, <2>3, <2>4
<1>3. \A k \in Counts(q) : k \in 1..Len(q) /\ r[k] = q[k] /\ k # n
  BY <1>1, <1>n DEF Counts
<1>4. \A i \in Counts(q) : RowIn(r, x, i) = RowIn(q, x, i)
  <2> SUFFICES ASSUME NEW i \in Counts(q) PROVE RowIn(r, x, i) = RowIn(q, x, i)
    OBVIOUS
  <2>1. i \in Nat /\ i < n
    BY <1>3, <1>n, <1>1
  <2>2. \A m \in Counts(r) : m <= i <=> m \in Counts(q) /\ m <= i
    BY <1>2, <1>3, <2>1, <1>n
  <2>3. \A m \in Counts(q), k \in Counts(r) : k \in m..i <=> k \in Counts(q) /\ k \in m..i
    BY <1>2, <1>3, <2>1, <1>n
  <2>4. \A m : (m \in Counts(r) /\ m <= i) <=> (m \in Counts(q) /\ m <= i)
    BY <1>2, <2>2
  <2>5. \A m \in Counts(q) : (\A k \in Counts(r) : k \in m..i => r[k].is = x)
                         <=> (\A k \in Counts(q) : k \in m..i => q[k].is = x)
    BY <1>2, <1>3, <2>3
  <2> QED
    BY <2>4, <2>5 DEF RowIn
<1>5. CASE y.is = x
  <2>1. RowIn(r, x, n) = RowIn(q, x, Len(q)) \cup {n}
    <3>1. n \in RowIn(r, x, n)
      <4>1. \A k \in Counts(r) : k \in n..n => k = n
        BY <1>n
      <4> QED
        BY <1>1, <1>2, <1>5, <1>n, <4>1 DEF RowIn
    <3>2. ASSUME NEW m \in Counts(q)
          PROVE  m \in RowIn(r, x, n) <=> m \in RowIn(q, x, Len(q))
      <4>1. m \in 1..Len(q) /\ m <= n /\ m <= Len(q)
        BY <1>1, <1>3, <1>n
      <4>2. \A k \in Counts(q) : k \in m..n <=> k \in m..Len(q)
        BY <1>1, <1>3, <1>n, <4>1
      <4>3. (\A k \in Counts(r) : k \in m..n => r[k].is = x)
            <=> (\A k \in Counts(q) : k \in m..Len(q) => q[k].is = x)
        BY <1>1, <1>2, <1>3, <1>5, <4>2
      <4> QED
        BY <1>2, <4>1, <4>3 DEF RowIn
    <3>3. RowIn(r, x, n) \subseteq Counts(q) \cup {n} /\ RowIn(q, x, Len(q)) \subseteq Counts(q)
      BY <1>2 DEF RowIn
    <3> QED
      BY <3>1, <3>2, <3>3
  <2>2. n \notin RowIn(q, x, Len(q)) /\ IsFiniteSet(RowIn(q, x, Len(q)))
    BY <1>n, RowIsFinite
  <2>3. Cardinality(RowIn(r, x, n)) = Cardinality(RowIn(q, x, Len(q))) + 1
    BY <2>1, <2>2, FS_AddElement
  <2>4. \A many : StreaksIn(r, x, many) =
            StreaksIn(q, x, many) \cup
            (IF Cardinality(RowIn(q, x, Len(q))) + 1 >= many THEN {n} ELSE {})
    BY <1>2, <1>3, <1>4, <2>3 DEF StreaksIn
  <2> QED
    BY <1>1, <1>5, <2>3, <2>4 DEF r, n
<1>6. CASE y.is # x
  <2>1. RowIn(r, x, n) = {}
    <3>1. \A m \in Counts(r) : n \in m..n
      BY <1>1, <1>2, <1>3, <1>n
    <3> QED
      BY <1>1, <1>2, <1>6, <3>1 DEF RowIn
  <2>2. Cardinality(RowIn(r, x, n)) = 0
    BY <2>1, FS_EmptySet
  <2>3. \A many \in Nat \ {0} : StreaksIn(r, x, many) = StreaksIn(q, x, many)
    <3> SUFFICES ASSUME NEW many \in Nat \ {0} PROVE StreaksIn(r, x, many) = StreaksIn(q, x, many)
      OBVIOUS
    <3>1. ~(Cardinality(RowIn(r, x, n)) >= many)
      BY <2>2
    <3> QED
      BY <1>2, <1>3, <1>4, <3>1 DEF StreaksIn
  <2> QED
    BY <1>1, <1>6, <2>2, <2>3 DEF r, n
<1> QED
  BY <1>5, <1>6

\* The verdict after one more place, which is later than all the others: the
\* place tells it.
LEMMA LatestIsDown ==
    ASSUME NEW a, NEW b, NEW c, NEW n \in Nat,
           \A m \in a \cup b \cup c : m \in Nat /\ m < n
    PROVE  Verdict(a \cup {n}, b, c) = "DOWN"
<1>1. \A m \in a \cup b \cup c : m <= n /\ ~(n <= m)
  OBVIOUS
<1>2. Latest(a \cup {n}, (a \cup {n}) \cup b \cup c)
  BY <1>1 DEF Latest
<1> QED
  BY <1>2 DEF Verdict

\* So does a warning.
LEMMA LatestIsDegraded ==
    ASSUME NEW a, NEW b, NEW c, NEW n \in Nat,
           \A m \in a \cup b \cup c : m \in Nat /\ m < n
    PROVE  Verdict(a, b \cup {n}, c) = "DEGRADED"
<1>1. \A m \in a \cup b \cup c : m <= n /\ ~(n <= m)
  OBVIOUS
<1>2. Latest(b \cup {n}, a \cup (b \cup {n}) \cup c)
  BY <1>1 DEF Latest
<1>3. ~Latest(a, a \cup (b \cup {n}) \cup c)
  BY <1>1 DEF Latest
<1> QED
  BY <1>2, <1>3 DEF Verdict

\* So does a recovery.
LEMMA LatestIsUp ==
    ASSUME NEW a, NEW b, NEW c, NEW n \in Nat,
           \A m \in a \cup b \cup c : m \in Nat /\ m < n
    PROVE  Verdict(a, b, c \cup {n}) = "UP"
<1>1. \A m \in a \cup b \cup c : m <= n /\ ~(n <= m)
  OBVIOUS
<1>2. Latest(c \cup {n}, a \cup b \cup (c \cup {n}))
  BY <1>1 DEF Latest
<1>3. ~Latest(a, a \cup b \cup (c \cup {n})) /\ ~Latest(b, a \cup b \cup (c \cup {n}))
  BY <1>1 DEF Latest
<1> QED
  BY <1>2, <1>3 DEF Verdict

\* transition_state counts and judges as the samples do.
LEMMA TransitionDeserves ==
    ASSUME NEW q \in Seq(Sample), NEW y \in Sample, ~y.stale, NEW t \in Pairs,
           NEW h \in Health, Tallied(q, h), h.status = Deserved(q, t)
    PROVE  /\ Tallied(Append(q, y), Transition(h, y.is, t))
           /\ Transition(h, y.is, t).status = Deserved(Append(q, y), t)
<1> DEFINE r == Append(q, y)
           new == Transition(h, y.is, t)
           f == Cardinality(RowIn(q, "FAIL", Len(q)))
           p == Cardinality(RowIn(q, "PASS", Len(q)))
           n == Len(q) + 1
<1>t. t[1] \in Nat \ {0} /\ t[2] \in Nat \ {0} /\ 1 \in Nat \ {0}
  BY DEF Pairs
<1>h. h.failures = f /\ h.successes = p /\ f \in Nat /\ p \in Nat
  BY DEF Tallied, Health
<1>1. CASE y.is = "UNKNOWN"
  <2>1. new = h
    BY <1>1 DEF Transition
  <2>2. \A x : /\ RowIn(r, x, Len(r)) = RowIn(q, x, Len(q))
               /\ \A many : StreaksIn(r, x, many) = StreaksIn(q, x, many)
    BY <1>1, SkippedSample
  <2> HIDE DEF r, new
  <2>3. Tallied(r, new) /\ new.status = Deserved(r, t)
    BY <2>1, <2>2 DEF Tallied, Deserved
  <2> QED
    BY <2>3 DEF r, new
<1>2. CASE y.is # "UNKNOWN"
  <2> DEFINE status == IF y.is = "WARN" THEN "DEGRADED"
                       ELSE IF y.is = "FAIL" THEN IF f + 1 >= t[1] THEN "DOWN" ELSE h.status
                       ELSE IF y.is = "PASS" /\ p + 1 >= t[2] THEN "UP" ELSE h.status
  <2>0. y.is \in {"PASS", "WARN", "FAIL"}
    BY <1>2 DEF Sample, Observations
  <2>1. /\ new.failures = IF y.is = "FAIL" THEN f + 1 ELSE 0
        /\ new.successes = IF y.is = "PASS" THEN p + 1 ELSE 0
        /\ new.status = status
    <3> DEFINE failures  == IF y.is = "FAIL" THEN h.failures + 1 ELSE 0
               successes == IF y.is = "PASS" THEN h.successes + 1 ELSE 0
               judged == IF y.is = "WARN" THEN "DEGRADED"
                         ELSE IF y.is = "FAIL"
                              THEN IF failures >= t[1] THEN "DOWN" ELSE h.status
                         ELSE IF successes >= t[2] THEN "UP" ELSE h.status
    <3>1. new = [h EXCEPT !.status = judged, !.successes = successes, !.failures = failures]
      BY <1>2 DEF Transition
    <3>2. judged = status
      <4>1. CASE y.is = "PASS"
        BY <4>1, <1>h
      <4>2. CASE y.is = "FAIL"
        BY <4>2, <1>h
      <4>3. CASE y.is = "WARN"
        BY <4>3
      <4> QED
        BY <2>0, <4>1, <4>2, <4>3
    <3>3. /\ failures = IF y.is = "FAIL" THEN f + 1 ELSE 0
          /\ successes = IF y.is = "PASS" THEN p + 1 ELSE 0
      BY <1>h
    <3> HIDE DEF judged, failures, successes, status, new, f, p
    <3>4. new.status = judged /\ new.successes = successes /\ new.failures = failures
      BY <3>1 DEF Health
    <3> QED
      BY <3>2, <3>3, <3>4
  <2>2. \A x : Cardinality(RowIn(r, x, Len(r))) =
            IF y.is = x THEN Cardinality(RowIn(q, x, Len(q))) + 1 ELSE 0
    BY <1>2, TakenSample
  <2>3. \A x : \A many \in Nat \ {0} : StreaksIn(r, x, many) =
            StreaksIn(q, x, many) \cup
            (IF y.is = x /\ Cardinality(RowIn(q, x, Len(q))) + 1 >= many THEN {n} ELSE {})
    BY <1>2, TakenSample
  <2>4. Tallied(r, new)
    <3>1. new.failures = Cardinality(RowIn(r, "FAIL", Len(r)))
      BY <2>1, <2>2
    <3>2. new.successes = Cardinality(RowIn(r, "PASS", Len(r)))
      BY <2>1, <2>2
    <3> QED
      BY <3>1, <3>2 DEF Tallied
  <2> DEFINE down == StreaksIn(q, "FAIL", t[1])
             warn == StreaksIn(q, "WARN", 1)
             up   == StreaksIn(q, "PASS", t[2])
  <2>5. /\ down \in SUBSET (1..Len(q)) /\ warn \in SUBSET (1..Len(q)) /\ up \in SUBSET (1..Len(q))
        /\ Len(q) \in Nat
    BY DEF StreaksIn, Counts
  <2>6. /\ StreaksIn(r, "FAIL", t[1]) = IF y.is = "FAIL" /\ f + 1 >= t[1] THEN down \cup {n} ELSE down
        /\ StreaksIn(r, "PASS", t[2]) = IF y.is = "PASS" /\ p + 1 >= t[2] THEN up \cup {n} ELSE up
    <3>1. \A many \in Nat \ {0} : StreaksIn(r, "FAIL", many) = StreaksIn(q, "FAIL", many) \cup
              (IF y.is = "FAIL" /\ f + 1 >= many THEN {n} ELSE {})
      BY <2>3
    <3>2. \A many \in Nat \ {0} : StreaksIn(r, "PASS", many) = StreaksIn(q, "PASS", many) \cup
              (IF y.is = "PASS" /\ p + 1 >= many THEN {n} ELSE {})
      BY <2>3
    <3> HIDE DEF r, f, p, n
    <3>3. StreaksIn(r, "FAIL", t[1]) = down \cup (IF y.is = "FAIL" /\ f + 1 >= t[1] THEN {n} ELSE {})
      BY <1>t, <3>1
    <3>4. StreaksIn(r, "PASS", t[2]) = up \cup (IF y.is = "PASS" /\ p + 1 >= t[2] THEN {n} ELSE {})
      BY <1>t, <3>2
    <3> HIDE DEF down, up
    <3> QED
      BY <3>3, <3>4
  <2>7. StreaksIn(r, "WARN", 1) = IF y.is = "WARN" THEN warn \cup {n} ELSE warn
    <3>1. Cardinality(RowIn(q, "WARN", Len(q))) + 1 >= 1
      BY RowIsFinite
    <3> QED
      BY <1>t, <2>3, <3>1
  <2>8. /\ Verdict(down \cup {n}, warn, up) = "DOWN"
        /\ Verdict(down, warn \cup {n}, up) = "DEGRADED"
        /\ Verdict(down, warn, up \cup {n}) = "UP"
        /\ Verdict(down, warn, up) = h.status
    <3>1. Verdict(down, warn, up) = h.status
      BY DEF Deserved
    <3> HIDE DEF down, warn, up
    <3>2. n \in Nat /\ \A m \in down \cup warn \cup up : m \in Nat /\ m < n
      BY <2>5
    <3> HIDE DEF n
    <3>3. Verdict(down \cup {n}, warn, up) = "DOWN"
      BY <3>2, LatestIsDown
    <3>4. Verdict(down, warn \cup {n}, up) = "DEGRADED"
      BY <3>2, LatestIsDegraded
    <3>5. Verdict(down, warn, up \cup {n}) = "UP"
      BY <3>2, LatestIsUp
    <3> QED
      BY <3>1, <3>3, <3>4, <3>5
  <2> DEFINE many == f + 1 >= t[1]
             enough == p + 1 >= t[2]
  <2>9. /\ many \in BOOLEAN /\ enough \in BOOLEAN
        /\ StreaksIn(r, "FAIL", t[1]) = IF y.is = "FAIL" /\ many THEN down \cup {n} ELSE down
        /\ StreaksIn(r, "PASS", t[2]) = IF y.is = "PASS" /\ enough THEN up \cup {n} ELSE up
        /\ new.status = IF y.is = "WARN" THEN "DEGRADED"
                        ELSE IF y.is = "FAIL" THEN IF many THEN "DOWN" ELSE h.status
                        ELSE IF y.is = "PASS" /\ enough THEN "UP" ELSE h.status
    BY <2>1, <2>6
  <2> HIDE DEF many, enough, down, warn, up, r, new, f, p, n, status
  <2>10. new.status = Deserved(r, t)
    <3>1. CASE y.is = "FAIL"
      BY <3>1, <2>7, <2>8, <2>9 DEF Deserved
    <3>2. CASE y.is = "WARN"
      BY <3>2, <2>7, <2>8, <2>9 DEF Deserved
    <3>3. CASE y.is = "PASS"
      BY <3>3, <2>7, <2>8, <2>9 DEF Deserved
    <3> QED
      BY <2>0, <3>1, <3>2, <3>3
  <2> QED
    BY <2>4, <2>10 DEF r, new
<1> QED
  BY <1>1, <1>2

\* A run that is taken into account, or comes too late for it.
LEMMA RecordDeserves ==
    ASSUME HealthInv, DeservedInv, NEW k \in Slots, RecordMonitorRun(k)
    PROVE  DeservedInv'
<1>1. PICK is \in Observations :
          LET stale == probes[k].observed <= health.observed
              new   == Transition(health, is, policy.thresholds)
          IN  /\ samples' = Append(samples, [run |-> k, is |-> is, stale |-> stale])
              /\ IF stale
                 THEN UNCHANGED << health, incidents >>
                 ELSE /\ health' = [new EXCEPT !.observed = probes[k].observed]
                      /\ incidents' = incidents \o Incident(health.status, new.status)
  BY DEF RecordMonitorRun
<1> DEFINE stale == probes[k].observed <= health.observed
           new   == Transition(health, is, policy.thresholds)
           y     == [run |-> k, is |-> is, stale |-> stale]
           t     == policy.thresholds
<1>2. /\ samples \in Seq(Sample) /\ health \in Health /\ probes[k].state = "ended"
      /\ policy \in PolicyRow /\ slots \in 0..MaxSlots /\ UNCHANGED << policy, slots >>
      /\ probes \in [Slots -> Probe] /\ \A j \in Slots : j > slots => probes[j].state = "none"
  BY DEF HealthInv, MonitorTypes, RecordMonitorRun, schedule
<1>3. y \in Sample /\ y.is = is /\ y.stale = stale /\ t \in Pairs
  BY <1>1, <1>2 DEF Sample, PolicyRow
<1>4. policy.state # "none"
  <2>1. k > 0 /\ k \in Nat
    BY DEF Slots
  <2>2. slots # 0
    BY <1>2, <2>1
  <2> QED
    BY <2>2 DEF DeservedInv
<1>5. Tallied(samples, health) /\ health.status = Deserved(samples, t)
  BY DEF DeservedInv
<1>6. new \in Health
  BY <1>1, <1>2, TransitionKnows
<1>7. /\ samples' = Append(samples, y)
      /\ stale => health' = health
      /\ ~stale => health' = [new EXCEPT !.observed = probes[k].observed]
  BY <1>1
<1>8. CASE stale
  <2>1. \A x : /\ RowIn(samples', x, Len(samples')) = RowIn(samples, x, Len(samples))
               /\ \A many : StreaksIn(samples', x, many) = StreaksIn(samples, x, many)
    <3> HIDE DEF y, stale
    <3>1. y.stale
      BY <1>3, <1>8
    <3>2. samples \in Seq(Sample) /\ y \in Sample /\ samples' = Append(samples, y)
      BY <1>2, <1>3, <1>7
    <3> QED
      BY <3>1, <3>2, SkippedSample
  <2>2. health' = health
    BY <1>7, <1>8
  <2> HIDE DEF stale, new, y
  <2>3. Tallied(samples', health') /\ health'.status = Deserved(samples', t)
    BY <1>5, <2>1, <2>2 DEF Tallied, Deserved
  <2> QED
    BY <1>2, <1>4, <2>3 DEF DeservedInv
<1>9. CASE ~stale
  <2>1. Tallied(samples', new) /\ new.status = Deserved(samples', t)
    <3>1. new = Transition(health, y.is, t)
      BY <1>3
    <3> HIDE DEF y, stale, new, t
    <3>2. ~y.stale
      BY <1>3, <1>9
    <3>3. /\ samples \in Seq(Sample) /\ y \in Sample /\ samples' = Append(samples, y)
          /\ health \in Health /\ t \in Pairs
      BY <1>2, <1>3, <1>7
    <3> QED
      BY <1>5, <3>1, <3>2, <3>3, TransitionDeserves
  <2>2. ~stale /\ health' = [new EXCEPT !.observed = probes[k].observed]
    BY <1>7, <1>9
  <2> HIDE DEF stale, new, y
  <2>3. health'.failures = new.failures /\ health'.successes = new.successes
        /\ health'.status = new.status
    BY <1>6, <2>2 DEF Health
  <2>4. Tallied(samples', health') /\ health'.status = Deserved(samples', t)
    BY <2>1, <2>3 DEF Tallied
  <2> QED
    BY <1>2, <1>4, <2>4 DEF DeservedInv
<1> QED
  BY <1>8, <1>9

\* A policy without samples.
LEMMA NothingObserved ==
    ASSUME NEW t \in Pairs
    PROVE  Tallied(<< >>, NoHealth) /\ NoHealth.status = Deserved(<< >>, t)
<1>1. Counts(<< >>) = {}
  BY DEF Counts
<1>2. \A x, n : RowIn(<< >>, x, n) = {}
  BY <1>1 DEF RowIn
<1>3. \A x, many : StreaksIn(<< >>, x, many) = {}
  BY <1>1 DEF StreaksIn
<1>4. NoHealth.failures = 0 /\ NoHealth.successes = 0 /\ NoHealth.status = "UNKNOWN"
  BY DEF NoHealth
<1>5. Tallied(<< >>, NoHealth)
  BY <1>2, <1>4, FS_EmptySet DEF Tallied
<1>6. Deserved(<< >>, t) = "UNKNOWN"
  BY <1>3 DEF Deserved, Verdict, Latest
<1> QED
  BY <1>4, <1>5, <1>6

\* The thresholds of a policy stand before its first sample; what is purged has none.
LEMMA DeservedStep ==
    ASSUME HealthInv, MonitorTypes', DeservedInv, [MonitorNext]_monitorVars
    PROVE  DeservedInv'
<1>t. policy \in PolicyRow /\ policy' \in PolicyRow /\ policy'.thresholds \in Pairs
  BY DEF HealthInv, MonitorTypes, PolicyRow
<1>1. ASSUME UNCHANGED << samples, health >>,
             policy'.thresholds = policy.thresholds, policy'.state # "none"
      PROVE  DeservedInv'
  BY <1>1 DEF DeservedInv
<1>2. ASSUME UNCHANGED << samples, health, schedule >> PROVE DeservedInv'
  BY <1>2 DEF DeservedInv, schedule
<1>3. CASE CreatePolicy
  <2>1. UNCHANGED << samples, health >> /\ policy.state = "none"
    BY <1>3 DEF CreatePolicy, findings
  <2>2. PICK on \in BOOLEAN, pair \in Thresholds :
            Reschedule([policy EXCEPT !.state = "active", !.enabled = on, !.thresholds = pair])
    BY <1>3 DEF CreatePolicy
  <2>3. policy'.state = "active"
    BY <1>t, <2>2 DEF Reschedule, PolicyRow
  <2>4. samples = << >> /\ Tallied(samples, health)
    BY <2>1 DEF DeservedInv
  <2>5. \A t \in Pairs : Deserved(<< >>, t) = "UNKNOWN"
    BY NothingObserved DEF NoHealth
  <2>6. policy.thresholds \in Pairs
    BY <1>t DEF PolicyRow
  <2>7. health.status = "UNKNOWN"
    BY <2>4, <2>5, <2>6 DEF DeservedInv
  <2>8. health'.status = Deserved(samples', policy'.thresholds)
    BY <1>t, <2>1, <2>4, <2>5, <2>7
  <2> QED
    BY <2>1, <2>3, <2>4, <2>8 DEF DeservedInv
<1>4. CASE UpdatePolicy
  <2>1. PICK on \in BOOLEAN : Reschedule([policy EXCEPT !.enabled = on])
    BY <1>4 DEF UpdatePolicy
  <2>2. policy'.thresholds = policy.thresholds /\ policy'.state = policy.state
    BY <1>t, <2>1 DEF Reschedule, PolicyRow
  <2> QED
    BY <1>1, <1>4, <2>2 DEF UpdatePolicy, findings, Active
<1>5. CASE ArchivePolicy
  <2>1. policy'.thresholds = policy.thresholds /\ policy'.state = "archived"
    BY <1>5, <1>t DEF ArchivePolicy, Reschedule, PolicyRow
  <2> QED
    BY <1>1, <1>5, <2>1 DEF ArchivePolicy, findings
<1>6. CASE RestorePolicy \/ RequestRun \/ LeaseRunsOut
  <2>1. policy'.thresholds = policy.thresholds /\ UNCHANGED << samples, health >>
    BY <1>6, <1>t DEF RestorePolicy, RequestRun, LeaseRunsOut, PolicyRow, findings
  <2>2. CASE RestorePolicy \/ RequestRun
    <3>1. policy'.state # "none"
      BY <2>2, <1>t DEF RestorePolicy, RequestRun, PolicyRow, Active
    <3> QED
      BY <1>1, <2>1, <3>1
  <2>3. CASE LeaseRunsOut
    <3>1. policy'.state = policy.state /\ UNCHANGED slots
      BY <2>3, <1>t DEF LeaseRunsOut, PolicyRow
    <3> QED
      BY <2>1, <3>1 DEF DeservedInv
  <2> QED
    BY <1>6, <2>2, <2>3
<1>7. CASE PurgePolicy
  <2>1. /\ samples' = << >> /\ health' = NoHealth /\ policy'.state = "purged"
    BY <1>7, <1>t DEF PurgePolicy, PolicyRow
  <2> QED
    BY <1>t, <2>1, NothingObserved DEF DeservedInv
<1>8. ASSUME NEW s \in Schedulers, Claim(s) PROVE DeservedInv'
  <2>1. policy'.thresholds = policy.thresholds /\ policy'.state = "active"
    BY <1>8, <1>t DEF Claim, PolicyRow, Active
  <2> QED
    BY <1>1, <1>8, <2>1 DEF Claim, findings
<1>9. ASSUME NEW s \in Schedulers, Dispatch(s) \/ SchedulerDies(s) PROVE DeservedInv'
  BY <1>2, <1>9 DEF Dispatch, SchedulerDies, findings
<1>10. ASSUME NEW s \in Schedulers, CompleteDispatch(s) \/ FailDispatch(s) PROVE DeservedInv'
  <2>1. UNCHANGED << samples, health >>
    BY <1>10 DEF CompleteDispatch, FailDispatch, findings
  <2>2. UNCHANGED schedule \/ \E last \in {duty[s].slot, policy.last} : Settle(last)
    BY <1>10 DEF CompleteDispatch, FailDispatch
  <2>3. CASE UNCHANGED schedule
    BY <1>2, <2>1, <2>3
  <2>4. CASE ~UNCHANGED schedule
    <3>1. Holds(s) \/ UNCHANGED schedule
      BY <1>10 DEF CompleteDispatch, FailDispatch
    <3>2. PICK last \in {duty[s].slot, policy.last} : Settle(last)
      BY <2>2, <2>4
    <3>3. policy'.thresholds = policy.thresholds /\ policy'.state = policy.state
      BY <1>t, <3>2 DEF Settle, PolicyRow
    <3>4. policy.state # "none"
      <4>1. duty[s].at # "idle"
        BY <1>10 DEF CompleteDispatch, FailDispatch
      <4>2. duty[s].slot \in 1..slots
        BY <1>10, <4>1 DEF HealthInv, MonitorTypes
      <4>3. slots # 0
        BY <4>2
      <4> QED
        BY <4>3 DEF DeservedInv
    <3> QED
      BY <1>1, <2>1, <3>3, <3>4
  <2> QED
    BY <2>3, <2>4
<1>11. ASSUME NEW k \in Slots, ProbeEnds(k) PROVE DeservedInv'
  BY <1>2, <1>11 DEF ProbeEnds, findings
<1>12. ASSUME NEW k \in Slots, RecordMonitorRun(k) PROVE DeservedInv'
  BY <1>12, RecordDeserves
<1>13. CASE UNCHANGED monitorVars
  BY <1>2, <1>13 DEF monitorVars, findings
<1> QED
  BY <1>3, <1>4, <1>5, <1>6, <1>7, <1>8, <1>9, <1>10, <1>11, <1>12, <1>13 DEF MonitorNext

\* The status of a monitor is what its samples in order make it, for any
\* thresholds and any number of runs recorded in any order: the counters of
\* transition_state never part from the rows they count.
THEOREM StatusDeserved == MonitorSpec => []StatusIsDeserved
<1>1. MonitorInit => HealthInv /\ DeservedInv
  <2> SUFFICES ASSUME MonitorInit PROVE HealthInv /\ DeservedInv
    OBVIOUS
  <2>1. HealthInv
    BY HealthStart
  <2>2. /\ samples = << >> /\ health = NoHealth /\ slots = 0
        /\ policy.thresholds = << 1, 1 >>
    BY DEF MonitorInit
  <2>3. policy.thresholds \in Pairs
    BY <2>2 DEF Pairs
  <2>4. DeservedInv
    BY <2>2, <2>3, NothingObserved DEF DeservedInv
  <2> QED
    BY <2>1, <2>4
<1>2. HealthInv /\ DeservedInv /\ MonitorInv /\ [MonitorNext]_monitorVars
      => HealthInv' /\ DeservedInv' /\ MonitorInv'
  BY MonitorStep, HealthStep, DeservedStep DEF MonitorInv
<1>3. DeservedInv => StatusIsDeserved
  BY DeservedIsDeserved DEF DeservedInv
<1> QED
  BY <1>1, <1>2, <1>3, MonitorStart, PTL DEF MonitorSpec
=============================================================================
