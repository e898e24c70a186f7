--------------------------- MODULE MonitorPolicy ---------------------------
(***************************************************************************)
(* Continuous monitoring: a policy whose runs are due again and again      *)
(* (web/postgres_control_store.py), the schedulers that claim it and start *)
(* a run (monitoring/scheduler.py), and what the runs make of the state of *)
(* the monitor (monitoring/state.py).                                      *)
(*                                                                         *)
(* Time is next_run_at only: it takes the values 1, 2, ... in the order in *)
(* which they are set, for each is later than the ones before; a policy is *)
(* due whenever a scheduler finds it so.  The key of a run is made of      *)
(* next_run_at, which therefore names the run.  Retention is not modelled. *)
(***************************************************************************)
EXTENDS Naturals, Sequences, FiniteSets

CONSTANTS
    Schedulers,
    MaxSlots,       \* how often next_run_at is set
    MaxSlips,       \* calls that fail, schedulers that die, leases that run out
    Thresholds      \* of failures and recoveries

ASSUME MonitorAssumption ==
    /\ MaxSlots \in Nat /\ MaxSlips \in Nat /\ IsFiniteSet(Schedulers)
    /\ Thresholds \subseteq (Nat \ {0}) \X (Nat \ {0})

VARIABLES
    policy,         \* the row of monitor_policies
    slots,          \* the latest next_run_at that was set
    duty,           \* what each scheduler is about
    probes,         \* the run of each slot
    samples,        \* monitor_samples, in the order they were inserted
    health,         \* monitor_states
    incidents,      \* monitor_incident_events: their types
    slips

schedule == << policy, slots >>
findings == << samples, health, incidents >>
monitorVars == << schedule, duty, probes, findings, slips >>

Slots        == 1..MaxSlots
Observations == {"PASS", "WARN", "FAIL", "UNKNOWN"}
Idle         == [at |-> "idle", slot |-> 0, token |-> 0]
NoHealth     == [status |-> "UNKNOWN", successes |-> 0, failures |-> 0, observed |-> 0]

MonitorInit ==
    /\ policy = [ state |-> "none", enabled |-> FALSE, next |-> 0, token |-> 0,
                  leased |-> FALSE, last |-> 0, thresholds |-> << 1, 1 >> ]
    /\ slots = 0
    /\ duty = [s \in Schedulers |-> Idle]
    /\ probes = [k \in Slots |-> [state |-> "none", linked |-> FALSE, observed |-> 0]]
    /\ samples = << >> /\ health = NoHealth /\ incidents = << >>
    /\ slips = 0

Slip == slips < MaxSlips /\ slips' = slips + 1

----------------------------------------------------------------------------
(* transition_state.                                                       *)

\* Wrong: a failure is counted whatever came before it.
CountsAllFailures(was, is, thresholds) ==
    LET failures  == IF is = "FAIL" THEN was.failures + 1 ELSE was.failures
        successes == IF is = "PASS" THEN was.successes + 1 ELSE 0
        status    == IF is = "WARN" THEN "DEGRADED"
                     ELSE IF is = "FAIL"
                          THEN IF failures >= thresholds[1] THEN "DOWN" ELSE was.status
                     ELSE IF successes >= thresholds[2] THEN "UP" ELSE was.status
    IN  IF is = "UNKNOWN" THEN was
        ELSE [was EXCEPT !.status = status, !.successes = successes, !.failures = failures]

Transition(was, is, thresholds) ==
    LET failures  == IF is = "FAIL" THEN was.failures + 1 ELSE 0
        successes == IF is = "PASS" THEN was.successes + 1 ELSE 0
        status    == IF is = "WARN" THEN "DEGRADED"
                     ELSE IF is = "FAIL"
                          THEN IF failures >= thresholds[1] THEN "DOWN" ELSE was.status
                     ELSE IF successes >= thresholds[2] THEN "UP" ELSE was.status
    IN  IF is = "UNKNOWN" THEN was
        ELSE [was EXCEPT !.status = status, !.successes = successes, !.failures = failures]

\* The incident a transition opens or closes.
Incident(was, is) ==
    IF is = was \/ is = "UNKNOWN" \/ (is = "UP" /\ was = "UNKNOWN") THEN << >>
    ELSE << IF is = "UP" THEN "RECOVERED" ELSE is >>

----------------------------------------------------------------------------
(* The policy and its users.                                               *)

\* _next_schedule, _schedule_offset or now: later than every next_run_at before.
Later == slots < MaxSlots /\ slots' = slots + 1

Active  == policy.state = "active"
Running == policy.last # 0 /\ probes[policy.last].state = "RUNNING"

Reschedule(changed) ==
    IF changed.enabled
    THEN Later /\ policy' = [changed EXCEPT !.next = slots + 1, !.token = 0, !.leased = FALSE]
    ELSE policy' = [changed EXCEPT !.next = 0, !.token = 0, !.leased = FALSE] /\ UNCHANGED slots

CreatePolicy ==
    /\ policy.state = "none"
    /\ \E on \in BOOLEAN, t \in Thresholds :
           Reschedule([policy EXCEPT !.state = "active", !.enabled = on, !.thresholds = t])
    /\ UNCHANGED << duty, probes, findings, slips >>

\* A new interval, enabled or disabled; refused while a lease is held.
\* Bound: the thresholds stay.
UpdatePolicy ==
    /\ Active /\ ~policy.leased
    /\ \E on \in BOOLEAN : Reschedule([policy EXCEPT !.enabled = on])
    /\ UNCHANGED << duty, probes, findings, slips >>

ArchivePolicy ==
    /\ Active /\ ~policy.leased
    /\ Reschedule([policy EXCEPT !.state = "archived", !.enabled = FALSE])
    /\ UNCHANGED << duty, probes, findings, slips >>

RestorePolicy ==
    /\ policy.state = "archived"
    /\ policy' = [policy EXCEPT !.state = "active"]
    /\ UNCHANGED << slots, duty, probes, findings, slips >>

\* Its runs are unlinked; what was found is deleted with it.
PurgePolicy ==
    /\ policy.state = "archived"
    /\ policy' = [policy EXCEPT !.state = "purged"]
    /\ probes' = [k \in Slots |-> [probes[k] EXCEPT !.linked = FALSE]]
    /\ samples' = << >> /\ health' = NoHealth /\ incidents' = << >>
    /\ UNCHANGED << slots, duty, slips >>

\* request_monitor_policy_run: due now.  A token left behind is not cleared.
RequestRun ==
    /\ Active /\ policy.enabled /\ ~policy.leased /\ ~Running
    /\ Later /\ policy' = [policy EXCEPT !.next = slots + 1]
    /\ UNCHANGED << duty, probes, findings, slips >>

----------------------------------------------------------------------------
(* Schedulers.                                                             *)

\* A token nobody remembers.
Fresh == CHOOSE t \in 1..(Cardinality(Schedulers) + 2) :
             t # policy.token /\ \A s \in Schedulers : t # duty[s].token

\* claim_due_monitor_policies.
Claim(s) ==
    /\ duty[s] = Idle
    /\ Active /\ policy.enabled /\ policy.next # 0 /\ ~policy.leased /\ ~Running
    /\ policy' = [policy EXCEPT !.token = Fresh, !.leased = TRUE]
    /\ duty' = [duty EXCEPT ![s] = [at |-> "dispatching", slot |-> policy.next, token |-> Fresh]]
    /\ UNCHANGED << slots, probes, findings, slips >>

At(s, from, to) == duty[s].at = from /\ duty' = [duty EXCEPT ![s].at = to]

\* start_run with the key of the slot: the run is made, or was made before.  It may
\* raise, before there is a run or after; a policy that is gone cannot be referred to.
Dispatch(s) ==
    LET k == duty[s].slot
    IN  /\ \/ /\ policy.state # "purged" /\ At(s, "dispatching", "completing")
              /\ probes' = IF probes[k].state # "none" THEN probes
                           ELSE [probes EXCEPT ![k].state = "RUNNING", ![k].linked = TRUE]
              /\ UNCHANGED slips
           \/ At(s, "dispatching", "failing") /\ UNCHANGED << probes, slips >>
           \/ /\ policy.state # "purged" /\ At(s, "dispatching", "failing")
              /\ probes[k].state = "none"
              /\ probes' = [probes EXCEPT ![k].state = "RUNNING", ![k].linked = TRUE]
              /\ Slip
        /\ UNCHANGED << schedule, findings >>

\* Wrong: whoever comes to finish its dispatch finishes it.
HoldsAnyway(s) == policy.state # "purged"

\* _finish_monitor_policy_dispatch does not look at the clock: a lease that has run
\* out is good as long as nobody has taken the policy over, or changed next_run_at.
Holds(s) ==
    policy.state # "purged" /\ policy.token = duty[s].token /\ policy.next = duty[s].slot

Settle(last) ==
    Later /\ policy' = [policy EXCEPT !.next = slots + 1, !.last = last,
                                      !.token = 0, !.leased = FALSE]

CompleteDispatch(s) ==
    /\ duty[s].at = "completing"
    /\ \/ /\ Holds(s) /\ probes[duty[s].slot].linked
          /\ Settle(duty[s].slot)
          /\ \/ duty' = [duty EXCEPT ![s] = Idle] /\ UNCHANGED slips
             \/ At(s, "completing", "failing") /\ Slip           \* the answer is lost
       \/ /\ ~(Holds(s) /\ probes[duty[s].slot].linked)
          /\ At(s, "completing", "failing") /\ UNCHANGED << schedule, slips >>
       \/ At(s, "completing", "failing") /\ Slip /\ UNCHANGED schedule
    /\ UNCHANGED << probes, findings >>

\* When this is refused, or fails, the scheduler ends its pass.
FailDispatch(s) ==
    /\ duty[s].at = "failing" /\ duty' = [duty EXCEPT ![s] = Idle]
    /\ \/ Holds(s) /\ Settle(policy.last) /\ UNCHANGED slips
       \/ ~Holds(s) /\ UNCHANGED << schedule, slips >>
       \/ Holds(s) /\ Slip /\ UNCHANGED schedule
    /\ UNCHANGED << probes, findings >>

SchedulerDies(s) ==
    /\ duty[s] # Idle /\ Slip
    /\ duty' = [duty EXCEPT ![s] = Idle]
    /\ UNCHANGED << schedule, probes, findings >>

LeaseRunsOut ==
    /\ policy.leased
    /\ policy' = [policy EXCEPT !.leased = FALSE]
    /\ IF \E s \in Schedulers : duty[s].token = policy.token THEN Slip ELSE UNCHANGED slips
    /\ UNCHANGED << slots, duty, probes, findings >>

----------------------------------------------------------------------------
(* Runs, and what is made of them.                                         *)

\* observed is finished_at: runs are numbered in the order they end.
ProbeEnds(k) ==
    /\ probes[k].state = "RUNNING"
    /\ probes' = [probes EXCEPT ![k].state = "ended",
           ![k].observed = 1 + Cardinality({j \in Slots : probes[j].state = "ended"})]
    /\ UNCHANGED << schedule, duty, findings, slips >>

\* Wrong: a run that ended before the last one known counts like any other.
RecordsLate(k) ==
    /\ probes[k].state = "ended" /\ probes[k].linked
    /\ \A n \in DOMAIN samples : samples[n].run # k
    /\ \E is \in Observations :
           LET new == Transition(health, is, policy.thresholds)
           IN  /\ health' = [new EXCEPT !.observed = probes[k].observed]
               /\ incidents' = incidents \o Incident(health.status, new.status)
               /\ samples' = Append(samples, [run |-> k, is |-> is, stale |-> FALSE])
    /\ UNCHANGED << schedule, duty, probes, slips >>

\* record_monitor_run; of a run that has a sample it changes nothing.  What the run
\* found is chosen here: nothing reads it before.
RecordMonitorRun(k) ==
    /\ probes[k].state = "ended" /\ probes[k].linked
    /\ \A n \in DOMAIN samples : samples[n].run # k
    /\ \E is \in Observations :
           LET stale == probes[k].observed <= health.observed
               new   == Transition(health, is, policy.thresholds)
           IN  /\ samples' = Append(samples, [run |-> k, is |-> is, stale |-> stale])
               /\ IF stale
                  THEN UNCHANGED << health, incidents >>
                  ELSE /\ health' = [new EXCEPT !.observed = probes[k].observed]
                       /\ incidents' = incidents \o Incident(health.status, new.status)
    /\ UNCHANGED << schedule, duty, probes, slips >>

MonitorNext ==
    \/ CreatePolicy \/ UpdatePolicy \/ ArchivePolicy \/ RestorePolicy \/ PurgePolicy
    \/ RequestRun \/ LeaseRunsOut
    \/ \E s \in Schedulers :
           Claim(s) \/ Dispatch(s) \/ CompleteDispatch(s) \/ FailDispatch(s) \/ SchedulerDies(s)
    \/ \E k \in Slots : ProbeEnds(k) \/ RecordMonitorRun(k)

MonitorSpec == MonitorInit /\ [][MonitorNext]_monitorVars

----------------------------------------------------------------------------

\* The samples that count: taken in order, and telling something.
Counted == {n \in DOMAIN samples : ~samples[n].stale /\ samples[n].is # "UNKNOWN"}

\* What was observed in a row up to the n-th sample, as long as it is x.
InARow(x, n) == {m \in Counted : m <= n /\ \A k \in Counted : k \in m..n => samples[k].is = x}

\* The samples at which so many x in a row had been seen.
Streaks(x, many) == {n \in Counted : Cardinality(InARow(x, n)) >= many}

\* The status is what the samples in order make it, by the definition and not by the
\* counters: whichever came last of so many failures in a row, one warning, and so
\* many passes in a row.
StatusIsDeserved ==
    LET down == Streaks("FAIL", policy.thresholds[1])
        warn == Streaks("WARN", 1)
        up   == Streaks("PASS", policy.thresholds[2])
        Latest(ends) == \E n \in ends : \A m \in down \cup warn \cup up : m <= n
    IN  health.status = IF Latest(down) THEN "DOWN"
                        ELSE IF Latest(warn) THEN "DEGRADED"
                        ELSE IF Latest(up) THEN "UP" ELSE "UNKNOWN"

\* The samples that count are in the order in which their runs ended, and the incidents
\* tell the status: no incident is reported twice in a row, what is wrong was reported
\* last, and a monitor that is UP again has RECOVERED.
IncidentsTellStatus ==
    /\ \A m, n \in DOMAIN samples :
           m < n /\ ~samples[m].stale /\ ~samples[n].stale =>
               probes[samples[m].run].observed < probes[samples[n].run].observed
    /\ \A n \in DOMAIN incidents : n > 1 => incidents[n] # incidents[n - 1]
    /\ LET last == IF incidents = << >> THEN "none" ELSE incidents[Len(incidents)]
       IN  /\ health.status \in {"DOWN", "DEGRADED"} => last = health.status
           /\ health.status = "UP" => last \in {"none", "RECOVERED"}
           /\ health.status = "UNKNOWN" => last = "none"

FewAtWork == Cardinality({k \in Slots : probes[k].state = "RUNNING"}) <= 1 + slips
MovesOn   == policy'.last >= policy.last

\* A policy has at most one run at a time, but for one more for every call that failed,
\* scheduler that died and lease that ran out under one; and a scheduler that was overtaken
\* does not set the policy back to a run before its last.
OneRunAtATime == []FewAtWork /\ [][MovesOn]_monitorVars

=============================================================================
