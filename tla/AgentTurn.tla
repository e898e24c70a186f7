----------------------------- MODULE AgentTurn -----------------------------
(***************************************************************************)
(* The diagnostic agent: a session with its messages and its trace of      *)
(* events (web/postgres_control_store.py), and the turns that answer in it *)
(* (agent/service.py).  A turn holds the session by a lease: a token that  *)
(* every write must show, and a time that a heartbeat moves on.            *)
(*                                                                         *)
(* Of a text it matters only which of the users' keys stand in it.  What a *)
(* turn writes is redacted of the key it was given, and of no other.  The  *)
(* tools only read; a call is a tool that is used or one that is not       *)
(* allowed, and both leave the same two events.                            *)
(***************************************************************************)
EXTENDS Naturals, Sequences, FiniteSets

CONSTANTS
    Turns,          \* calls of respond
    Keys,
    MaxRounds,      \* iterations of a turn: four in the code
    MaxTrace,       \* no tool is called when a turn has so many events
    MaxLapses,      \* leases that run out under a turn
    MaxAffairs      \* edits and archivings, calls that fail, processes that die

NoTurn == "no turn"
NoKey  == "no key"

ASSUME AgentAssumption ==
    /\ NoTurn \notin Turns
    /\ MaxRounds \in Nat \ {0} /\ MaxTrace \in Nat
    /\ MaxLapses \in Nat /\ MaxAffairs \in Nat

VARIABLES
    session,        \* the row of agent_sessions
    target,         \* the target of the session: "active" or "archived"
    talk,           \* agent_messages
    trace,          \* agent_events
    turn,           \* what each turn is about
    pulse,          \* the turns whose heartbeat renews the lease
    lapses, affairs

counts    == << lapses, affairs >>
agentVars == << session, target, talk, trace, turn, pulse, counts >>

Over   == {"answered", "failed", "dead"}

AgentInit ==
    /\ session = [state |-> "none", holder |-> NoTurn, live |-> FALSE,
                  shows |-> {}]
    /\ target = "active" /\ talk = << >> /\ trace = << >>
    /\ turn = [t \in Turns |-> [at |-> "new", key |-> NoKey, round |-> 0]]
    /\ pulse = {} /\ lapses = 0 /\ affairs = 0

Affair == affairs < MaxAffairs /\ affairs' = affairs + 1

----------------------------------------------------------------------------
(* The session and its users.                                              *)

\* An active session nobody holds, or whose lease has run out.
Free == session.state = "active" /\ ~session.live

CreateSession ==
    /\ session.state = "none" /\ target = "active"
    /\ \E shows \in SUBSET Keys : session' =
           [session EXCEPT !.state = "active", !.shows = shows]
    /\ UNCHANGED << target, talk, trace, turn, pulse, counts >>

\* update_session with the version the row has: a stale edit changes nothing.
UpdateSession ==
    /\ Free /\ Affair
    /\ \E shows \in SUBSET Keys : session' =
           [session EXCEPT !.shows = shows]
    /\ UNCHANGED << target, talk, trace, turn, pulse, lapses >>

\* The token stays with the row.
ArchiveSession ==
    /\ Free /\ Affair
    /\ session' = [session EXCEPT !.state = "archived"]
    /\ UNCHANGED << target, talk, trace, turn, pulse, lapses >>

RestoreSession ==
    /\ session.state = "archived" /\ target = "active"
    /\ session' = [session EXCEPT !.state = "active"]
    /\ UNCHANGED << target, talk, trace, turn, pulse, counts >>

\* Messages and events go with the session.
PurgeSession ==
    /\ session.state = "archived"
    /\ session' = [session EXCEPT !.state = "purged", !.holder = NoTurn, !.live = FALSE]
    /\ talk' = << >> /\ trace' = << >>
    /\ UNCHANGED << target, turn, pulse, counts >>

TargetChanges ==
    /\ \/ target = "active" /\ target' = "archived" /\ Affair
       \/ target = "archived" /\ target' = "active" /\ UNCHANGED affairs
    /\ UNCHANGED << session, talk, trace, turn, pulse, lapses >>

----------------------------------------------------------------------------
(* A turn.                                                                 *)

HoldsTurn(t) == session.state = "active" /\ session.holder = t

Enter(t, to) == turn' = [turn EXCEPT ![t].at = to]

\* A write is refused, or the call fails: the turn ends, and gives the lease back.
GiveUp(t) == Enter(t, "leaving") /\ UNCHANGED << session, talk, trace, pulse >>

\* claim_agent_turn; the heartbeat starts.
ClaimTurn(t) ==
    /\ turn[t].at = "new" /\ Free
    /\ session' = [session EXCEPT !.holder = t, !.live = TRUE]
    /\ pulse' = pulse \cup {t}
    /\ \E k \in Keys \cup {NoKey} :
           turn' = [turn EXCEPT ![t].at = "screening", ![t].key = k]
    /\ UNCHANGED << target, talk, trace, counts >>

Shown == session.shows \cup UNION {talk[n].shows : n \in DOMAIN talk}

\* Wrong: only the session is scanned, not what was said in it.
ScansRow(t) ==
    /\ turn[t].at = "screening" /\ session.state # "purged" /\ session.holder = t
    /\ LET k == turn[t].key
       IN  IF k \in session.shows
           THEN /\ session' = [session EXCEPT !.state = "archived", !.shows = @ \ {k}]
                /\ talk' = [n \in DOMAIN talk |-> [talk[n] EXCEPT !.shows = @ \ {k}]]
                /\ Enter(t, "leaving")
           ELSE Enter(t, IF target = "active" THEN "asking" ELSE "leaving")
                /\ UNCHANGED << session, talk >>
    /\ UNCHANGED << target, trace, pulse, counts >>

\* quarantine_agent_session_credential: a key that stands somewhere in the session is
\* struck out everywhere, and the session is archived.
Screen(t) ==
    /\ turn[t].at = "screening" /\ session.state # "purged" /\ session.holder = t
    /\ LET k == turn[t].key
       IN  IF k \in Shown
           THEN /\ session' = [session EXCEPT !.state = "archived", !.shows = @ \ {k}]
                /\ talk' = [n \in DOMAIN talk |-> [talk[n] EXCEPT !.shows = @ \ {k}]]
                /\ Enter(t, "leaving")
           ELSE Enter(t, IF target = "active" THEN "asking" ELSE "leaving")
                /\ UNCHANGED << session, talk >>
    /\ UNCHANGED << target, trace, pulse, counts >>

\* Wrong: a message is taken from any turn.
SaysAnyway(t, role, to) ==
    /\ session.state = "active"
    /\ \E shows \in SUBSET (Keys \ {turn[t].key}) :
           talk' = Append(talk, [turn |-> t, role |-> role, shows |-> shows])
    /\ Enter(t, to)

\* append_agent_message.
Say(t, role, to) ==
    /\ HoldsTurn(t)
    /\ \E shows \in SUBSET (Keys \ {turn[t].key}) :
           talk' = Append(talk, [turn |-> t, role |-> role, shows |-> shows])
    /\ Enter(t, to)

Ask(t) ==
    /\ turn[t].at = "asking" /\ Say(t, "user", "starting")
    /\ UNCHANGED << session, target, trace, pulse, counts >>

TellAnswer(t) ==
    /\ turn[t].at = "answering" /\ Say(t, "assistant", "told")
    /\ UNCHANGED << session, target, trace, pulse, counts >>

\* append_agent_event.
NoteEvent(t, event) == HoldsTurn(t) /\ trace' = Append(trace, [turn |-> t, event |-> event])

\* LLM_STARTED, with which a round begins.
StartRound(t) ==
    /\ turn[t].at = "starting" /\ NoteEvent(t, "LLM_STARTED")
    /\ turn' = [turn EXCEPT ![t].at = "thinking", ![t].round = @ + 1]
    /\ UNCHANGED << session, target, talk, pulse, counts >>

\* Bound.
CanCall(t) == Cardinality({n \in DOMAIN trace : trace[n].turn = t}) < MaxTrace

\* The model answers, asks for a tool, or fails; or its reply is none, and the turn ends.
ModelReplies(t) ==
    /\ turn[t].at = "thinking"
    /\ \/ \E to \in {"closing", "failing", "leaving"} : Enter(t, to)
       \/ CanCall(t) /\ Enter(t, "calling")
    /\ UNCHANGED << session, target, talk, trace, pulse, counts >>

NoteFailure(t) ==
    /\ turn[t].at = "failing" /\ NoteEvent(t, "LLM_FAILED") /\ Enter(t, "leaving")
    /\ UNCHANGED << session, target, talk, pulse, counts >>

StartTool(t) ==
    /\ turn[t].at = "calling" /\ NoteEvent(t, "TOOL_STARTED") /\ Enter(t, "using")
    /\ UNCHANGED << session, target, talk, pulse, counts >>

\* TOOL_COMPLETED, also of a tool that is not allowed or fails.  There may be more
\* calls; after the last round the turn closes without asking the model again.
EndTool(t) ==
    /\ turn[t].at = "using" /\ NoteEvent(t, "TOOL_COMPLETED")
    /\ \/ CanCall(t) /\ Enter(t, "calling")
       \/ Enter(t, IF turn[t].round < MaxRounds THEN "starting" ELSE "closing")
    /\ UNCHANGED << session, target, talk, pulse, counts >>

\* LLM_COMPLETED.
CloseRounds(t) ==
    /\ turn[t].at = "closing" /\ NoteEvent(t, "LLM_COMPLETED") /\ Enter(t, "answering")
    /\ UNCHANGED << session, target, talk, pulse, counts >>

Writing == {"asking", "starting", "failing", "calling", "using", "closing", "answering"}

\* A write is refused because the session is archived or purged or the token another's;
\* or the turn itself: the session is archived, a cloud wants a key, the text is empty.
Refused(t) ==
    /\ \/ turn[t].at \in Writing /\ ~HoldsTurn(t)
       \/ turn[t].at = "screening"
    /\ GiveUp(t) /\ UNCHANGED << target, counts >>

CallFails(t) ==
    /\ turn[t].at \in Writing \cup {"screening"} /\ Affair
    /\ GiveUp(t) /\ UNCHANGED << target, lapses >>

\* release_agent_turn.  When it fails the turn fails, and the lease must run out.
Release(t) ==
    /\ turn[t].at \in {"leaving", "told"}
    /\ pulse' = pulse \ {t}
    /\ \/ /\ session' = IF session.holder # t THEN session
                        ELSE [session EXCEPT !.holder = NoTurn, !.live = FALSE]
          /\ Enter(t, IF turn[t].at = "told" THEN "answered" ELSE "failed")
          /\ UNCHANGED affairs
       \/ Enter(t, "failed") /\ Affair /\ UNCHANGED session
    /\ UNCHANGED << target, talk, trace, lapses >>

\* renew_agent_turn does not look at the clock.  The heartbeat stops when it is refused.
RenewTurn(t) ==
    /\ t \in pulse
    /\ IF HoldsTurn(t)
       THEN session' = [session EXCEPT !.live = TRUE] /\ UNCHANGED pulse
       ELSE pulse' = pulse \ {t} /\ UNCHANGED session
    /\ UNCHANGED << target, talk, trace, turn, counts >>

RenewFails(t) ==
    /\ t \in pulse /\ pulse' = pulse \ {t} /\ Affair
    /\ UNCHANGED << session, target, talk, trace, turn, lapses >>

TurnDies(t) ==
    /\ turn[t].at \notin Over \cup {"new"} /\ Affair
    /\ Enter(t, "dead") /\ pulse' = pulse \ {t}
    /\ UNCHANGED << session, target, talk, trace, lapses >>

LeaseLapses ==
    /\ session.live /\ session' = [session EXCEPT !.live = FALSE]
    /\ IF turn[session.holder].at \in Over THEN UNCHANGED lapses
       ELSE lapses < MaxLapses /\ lapses' = lapses + 1
    /\ UNCHANGED << target, talk, trace, turn, pulse, affairs >>

TurnStep(t) ==
    \/ ClaimTurn(t) \/ Screen(t) \/ Ask(t) \/ StartRound(t) \/ ModelReplies(t) \/ NoteFailure(t)
    \/ StartTool(t) \/ EndTool(t) \/ CloseRounds(t) \/ TellAnswer(t) \/ Refused(t)
    \/ CallFails(t) \/ Release(t) \/ RenewTurn(t) \/ RenewFails(t) \/ TurnDies(t)

AgentNext ==
    \/ CreateSession \/ UpdateSession \/ ArchiveSession \/ RestoreSession \/ PurgeSession
    \/ TargetChanges \/ LeaseLapses
    \/ \E t \in Turns : TurnStep(t)

AgentSpec == AgentInit /\ [][AgentNext]_agentVars

----------------------------------------------------------------------------

OneAfterAnother(log) ==
    \A i, j, k \in DOMAIN log :
        i < j /\ j < k /\ log[i].turn = log[k].turn => log[j].turn = log[i].turn

\* Two turns never mix in one session, in what was said or in the trace: a turn that was
\* overtaken, because it stood still while its lease ran out, writes nothing more.
TurnsDoNotMix == OneAfterAnother(talk) /\ OneAfterAnother(trace)

Screened == Writing \cup {"thinking", "told"}

\* The key of the turn that holds the session stands in nothing the turn reads: in no
\* message, whoever wrote it, and, unless the lease ran out, in no field of the session.
KeyStandsNowhere ==
    \A t \in Turns : session.holder = t /\ turn[t].at \in Screened =>
        /\ \A n \in DOMAIN talk : turn[t].key \notin talk[n].shows
        /\ lapses = 0 => turn[t].key \notin session.shows

=============================================================================
