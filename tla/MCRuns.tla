-------------------------------- MODULE MCRuns --------------------------------
(* A run, whoever executes it, for TLC: the control process itself, or       *)
(* Temporal.  A behaviour is one of one of them; the other stays in its      *)
(* initial state.  A run whose target failed PREFLIGHT goes wrong once, any  *)
(* other as often as MaxFaults says.                                         *)
EXTENDS LocalRun, MCTemporalCanary

VARIABLE part

MCInit == LocalInit /\ Init /\ part \in {"local run", "canary"}

\* A second request for the run is answered before a probe is handed over; before a
\* suite, or behind its end, at any time.
OneCaller == shape' \in Kinds => missed' = 0

Skipped == proj.next = Len(proj.completed) + 2

MCNext ==
    /\ \/ part = "local run" /\ LocalNext /\ OneCaller /\ UNCHANGED vars
       \/ part = "canary" /\ Next /\ UNCHANGED localVars /\ (Skipped' => faults' < 2)
    /\ UNCHANGED part

MCSpec == MCInit /\ [][MCNext]_<< part, localVars, vars >>
=============================================================================
