---------------------------- MODULE ProbeEngine ----------------------------
(***************************************************************************)
(* One probe of a target (probe.py): OpenAIChatProbe, streaming or not, and *)
(* OpenAIEndpointProbe.  It sends one request and reads the answer; while  *)
(* it does, it emits the component steps it passes (_ProbeProgress).       *)
(*                                                                         *)
(* A stream is read in blocks of events.  After the block that holds       *)
(* [DONE] nothing more is read, so only an event behind [DONE] in the same *)
(* block is noticed.  Error classes are told apart as far as               *)
(* _failure_step_for_result does: the transport's, PROTOCOL and UNKNOWN.   *)
(***************************************************************************)
EXTENDS ComponentFlow, Sequences

CONSTANT MaxEvents          \* _MAX_SSE_EVENTS

ASSUME ProbeAssumption == MaxEvents \in Nat

VARIABLES
    probe,          \* the probe in progress
    emitted         \* the steps it has reported

engine == << probe, emitted >>

Kinds   == {"chat stream", "chat json", "endpoint"}
Classes == {"TRANSPORT", "PROTOCOL", "UNKNOWN"}
Events  == {"text", "done"}      \* one without text changes nothing but their number

\* What an execution yields: finish() of NormalizedRunResult and its measurement.
Result(status, classes) ==
    [status |-> status, classes |-> classes, failed |-> {}, streamReason |-> FALSE]

NoProbe == [ kind |-> "none", active |-> 0, at |-> "idle", ok |-> FALSE, done |-> FALSE,
             text |-> FALSE, seen |-> << >>, result |-> Result("UNKNOWN", {}) ]

ProbeInit == probe = NoProbe /\ emitted = << >>

\* A probe that has returned, or whose process is gone, leaves nothing behind.
Forget == probe' = NoProbe /\ emitted' = << >>

Report(i, to) == [step |-> i, to |-> to]

StartProbe(kind) ==
    /\ probe.at = "idle"
    /\ probe' = [probe EXCEPT !.kind = kind, !.at = "running", !.active = Fixture]
    /\ emitted' = << Report(Fixture, "RUNNING") >>

\* The active step has passed and the next begins.
NextStep == << Report(probe.active, "PASS"), Report(probe.active + 1, "RUNNING") >>

\* The request is built, sent, and answered with status 200.
Proceed ==
    /\ probe.at = "running" /\ probe.active \in {Fixture, Dispatch, Transport}
    /\ probe' = [probe EXCEPT !.active = @ + 1, !.ok = probe.active = Transport]
    /\ emitted' = emitted \o NextStep

FailsWith(class) ==
    /\ probe' = [probe EXCEPT !.active = 0, !.at = "judged", !.result = Result("FAIL", {class})]
    /\ emitted' = Append(emitted, Report(probe.active, "FAIL"))

\* An answer with another status (classify_http_error).
Refused ==
    /\ probe.at = "running" /\ probe.active = Transport
    /\ \E class \in {"TRANSPORT", "PROTOCOL"} : FailsWith(class)

\* Whatever raises in the step in progress: a timeout, a broken connection, a
\* malformed answer, an error of the probe itself.
Break ==
    /\ probe.at = "running"
    /\ \E class \in Classes : FailsWith(class)

\* Wrong: what follows [DONE] is read as if it came before.
ReadsOn(e) ==
    /\ probe.kind = "chat stream" /\ probe.at = "running" /\ probe.active = Response
    /\ IF Len(probe.seen) = MaxEvents
       THEN FailsWith("PROTOCOL")
       ELSE /\ probe' = [probe EXCEPT !.seen = Append(@, e), !.done = @ \/ e = "done",
                                      !.text = @ \/ e = "text"]
            /\ UNCHANGED emitted

\* _consume_event, for an event that parses.  One behind [DONE], or one too many,
\* raises; the step in progress fails.
StreamEvent(e) ==
    /\ probe.kind = "chat stream" /\ probe.at = "running" /\ probe.active = Response
    /\ IF probe.done \/ Len(probe.seen) = MaxEvents
       THEN FailsWith("PROTOCOL")
       ELSE /\ probe' = [probe EXCEPT !.seen = Append(@, e), !.done = e = "done",
                                      !.text = @ \/ e = "text"]
            /\ UNCHANGED emitted

\* The stream, or the block that holds [DONE], has ended.
StreamEnds ==
    /\ probe.kind = "chat stream" /\ probe.at = "running" /\ probe.active = Response
    /\ IF probe.done
       THEN /\ probe' = [probe EXCEPT !.active = 0, !.at = "answered"]
            /\ emitted' = Append(emitted, Report(Response, "PASS"))
       ELSE FailsWith("PROTOCOL")

\* _consume_json.
JsonAnswer ==
    /\ probe.kind = "chat json" /\ probe.at = "running" /\ probe.active = Response
    /\ \E text \in BOOLEAN :
           probe' = [probe EXCEPT !.active = 0, !.at = "answered", !.text = text]
    /\ emitted' = Append(emitted, Report(Response, "PASS"))

\* The consumer of an endpoint has found the structure it needs: _begin_quality_assert.
EndpointAnswer ==
    /\ probe.kind = "endpoint" /\ probe.at = "running" /\ probe.active = Response
    /\ probe' = [probe EXCEPT !.active = Quality]
    /\ emitted' = emitted \o NextStep

\* It has checked the content, and the run is judged.
EndpointVerdict ==
    /\ probe.kind = "endpoint" /\ probe.at = "running" /\ probe.active = Quality
    /\ probe' = [probe EXCEPT !.active = 0, !.at = "judged", !.result = Result("PASS", {})]
    /\ emitted' = Append(emitted, Report(Quality, "PASS"))

\* Wrong: the verdict on a step that was not started.
VerdictOnly ==
    /\ probe.at = "answered"
    /\ \E expected \in BOOLEAN :
           LET verdict == IF probe.ok /\ probe.text /\ expected THEN "PASS" ELSE "FAIL"
           IN  /\ probe' = [probe EXCEPT !.at = "judged", !.result = Result(verdict, {})]
               /\ emitted' = Append(emitted, Report(Quality, verdict))

\* Chat: the text is there, and is the one that was asked for.
ChatVerdict ==
    /\ probe.at = "answered"
    /\ \E expected \in BOOLEAN :
           LET verdict == IF probe.ok /\ probe.text /\ expected THEN "PASS" ELSE "FAIL"
           IN  /\ probe' = [probe EXCEPT !.at = "judged", !.result = Result(verdict, {})]
               /\ emitted' = emitted \o << Report(Quality, "RUNNING"), Report(Quality, verdict) >>

\* The probe returns its one result to invoke_native_probe.
ProbeReturns ==
    /\ probe.at = "judged"
    /\ probe' = [probe EXCEPT !.at = "returned"]
    /\ UNCHANGED emitted

ProbeStep ==
    \/ Proceed \/ Refused \/ Break \/ StreamEnds \/ JsonAnswer
    \/ EndpointAnswer \/ EndpointVerdict \/ ChatVerdict \/ ProbeReturns
    \/ \E e \in Events : StreamEvent(e)

----------------------------------------------------------------------------
(* A probe passes only a complete answer: status 200, text, every step     *)
(* passed, and, of a stream, nothing read behind its one [DONE].           *)
PassIsEarned ==
    probe.result.status = "PASS" =>
        /\ probe.ok
        /\ \A i \in Fixture..Quality : Report(i, "PASS") \in {emitted[k] : k \in DOMAIN emitted}
        /\ probe.kind # "endpoint" => probe.text
        /\ probe.kind = "chat stream" =>
               \A k \in DOMAIN probe.seen : probe.seen[k] = "done" <=> k = Len(probe.seen)
=============================================================================
