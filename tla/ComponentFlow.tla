--------------------------- MODULE ComponentFlow ---------------------------
(***************************************************************************)
(* The workflow of a component run (probe_components.py): seven steps that *)
(* a user watches, from the binding of the target to the sealing of the    *)
(* evidence.  Everything here is a pure function of the workflow document; *)
(* LocalRun says who calls what, and when.                                 *)
(*                                                                         *)
(* The source raises ValueError where an operator Can... below is false.   *)
(***************************************************************************)
EXTENDS Naturals

FlowSteps   == 1..7
Fixture == 2    Dispatch == 3    Transport == 4    Response == 5    Quality == 6
Seal    == 7                                \* evidence_seal; 1 is target_binding
Execution == FlowSteps \ {Seal}

StepStatuses == {"PENDING", "RUNNING", "PASS", "FAIL", "SKIPPED"}
Open         == {"PENDING", "RUNNING"}
FlowCodes    == {"EXECUTION_ERROR", "EVIDENCE_PERSISTENCE_ERROR", "LOCAL_DISPATCH_ERROR"}

\* create_component_run: the binding has been checked before the run exists.
CreatedFlow == [ steps  |-> [i \in FlowSteps |-> IF i = 1 THEN "PASS" ELSE "PENDING"],
                 cur    |-> 0, status |-> "RUNNING", code |-> "NONE" ]

----------------------------------------------------------------------------
(* advance_component_run, for an event e = [step, to].                     *)

CanStart(flow, i) ==
    /\ flow.steps[i] = "PENDING" /\ flow.cur = 0
    /\ \A j \in 1..(i - 1) :
           flow.steps[j] \in IF i = Seal THEN {"PASS", "FAIL", "SKIPPED"} ELSE {"PASS"}

CanAdvance(flow, e) ==
    /\ flow.status = "RUNNING"
    /\ IF e.to = "RUNNING" THEN CanStart(flow, e.step)
       ELSE e.to \in {"PASS", "FAIL"} /\ flow.steps[e.step] = "RUNNING"

\* Wrong: the steps after a failed one stay PENDING.
AdvanceOnly(flow, e) ==
    [flow EXCEPT !.steps[e.step] = e.to, !.cur = IF e.to = "RUNNING" THEN e.step ELSE 0]

Advance(flow, e) ==
    [flow EXCEPT
       !.cur   = IF e.to = "RUNNING" THEN e.step ELSE 0,
       !.steps = [i \in FlowSteps |->
          IF i = e.step THEN e.to
          ELSE IF e.to = "FAIL" /\ i > e.step /\ i # Seal /\ flow.steps[i] = "PENDING"
               THEN "SKIPPED" ELSE flow.steps[i]]]

----------------------------------------------------------------------------
(* The result of an execution: its status, and what _failure_step_for_result *)
(* looks at (error classes, failed dimensions, reason codes).              *)

FailureStep(result) ==
    IF "PROTOCOL" \in result.classes THEN Response
    ELSE IF "TRANSPORT" \in result.classes THEN Transport
    ELSE IF "protocol" \in result.failed THEN Response
    ELSE IF result.failed \cap {"availability", "performance"} # {} THEN Transport
    ELSE IF result.streamReason THEN Response
    ELSE Quality

FailedStep(flow) == \E i \in Execution : flow.steps[i] = "FAIL"

CanSettle(flow, result) ==
    /\ result.status \in {"PASS", "WARN", "FAIL"}
    /\ FailedStep(flow) => result.status = "FAIL"

\* _settle_execution_steps: what the steps that were not reported have become.
Settle(flow, result) ==
    LET at == FailureStep(result)
        settled(i) ==
            IF i = Seal \/ (result.status = "FAIL" /\ FailedStep(flow)) THEN flow.steps[i]
            ELSE IF result.status = "FAIL" /\ i = at THEN "FAIL"
            ELSE IF flow.steps[i] \notin Open THEN flow.steps[i]
            ELSE IF result.status = "FAIL" /\ i > at THEN "SKIPPED" ELSE "PASS"
    IN  [flow EXCEPT !.steps = [i \in FlowSteps |-> settled(i)], !.cur = 0]

CanBegin(flow, result) ==
    /\ flow.status = "RUNNING" /\ CanSettle(flow, result)
    /\ flow.steps[Seal] \in Open

\* begin_component_evidence.
BeginEvidence(flow, result) ==
    LET settled == Settle(flow, result)
    IN  IF flow.steps[Seal] = "RUNNING" THEN settled
        ELSE [settled EXCEPT !.steps[Seal] = "RUNNING", !.cur = Seal]

\* finalize_component_run.
FinalFlow(flow, result) ==
    [BeginEvidence(flow, result) EXCEPT
       !.steps[Seal] = "PASS", !.status = result.status, !.cur = 0, !.code = "NONE"]

\* fail_component_run: the step in progress has failed, or else the next one.
FailedFlow(flow, code) ==
    LET pending == {i \in FlowSteps : flow.steps[i] = "PENDING"}
        at == IF flow.cur # 0 THEN flow.cur
              ELSE IF pending = {} THEN Seal
              ELSE CHOOSE i \in pending : \A j \in pending : i <= j
    IN  [ steps  |-> [i \in FlowSteps |->
                        IF i = at THEN "FAIL"
                        ELSE IF i > at /\ flow.steps[i] \in Open THEN "SKIPPED"
                        ELSE flow.steps[i]],
          cur    |-> 0, status |-> "FAIL", code |-> code ]

----------------------------------------------------------------------------
(* What a reader of the workflow relies on.                                *)

\* At most one step runs, and it is the current one; the steps before it are
\* over; nothing is left open in a workflow that is.
Coherent(flow) ==
    /\ \A i \in FlowSteps : flow.steps[i] = "RUNNING" => flow.cur = i
    /\ flow.cur # 0 => /\ flow.steps[flow.cur] = "RUNNING"
                       /\ \A j \in 1..(flow.cur - 1) : flow.steps[j] \notin Open
    /\ flow.status # "RUNNING" => \A i \in FlowSteps : flow.steps[i] \notin Open
    /\ flow.status \in {"PASS", "WARN"} => \A i \in FlowSteps : flow.steps[i] = "PASS"
    /\ flow.status = "FAIL" => \E i \in FlowSteps : flow.steps[i] = "FAIL"
    /\ \A i, j \in Execution : flow.steps[i] = "FAIL" /\ flow.steps[j] = "FAIL" => i = j
=============================================================================
