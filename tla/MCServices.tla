----------------------------- MODULE MCServices -----------------------------
(* What works on one resource of the control plane at a time, for TLC: the   *)
(* schedulers of a monitor policy, the turns of an agent session, the        *)
(* sessions of a user, the drivers of a local canary run.  A behaviour is    *)
(* one of one of them; the others stay in their initial states.              *)
EXTENDS MonitorPolicy, AgentTurn, AuthSession, LocalCanary

VARIABLE part

Parts == {"monitor", "agent", "sessions", "canary"}
ThresholdPairs == { << 1, 2 >>, << 2, 1 >> }

MCInit == MonitorInit /\ AgentInit /\ AuthInit /\ LocalInit /\ part \in Parts

MCNext ==
    /\ \/ part = "monitor" /\ MonitorNext /\ UNCHANGED << agentVars, authVars, localVars >>
       \/ part = "agent" /\ AgentNext /\ UNCHANGED << monitorVars, authVars, localVars >>
       \/ part = "sessions" /\ AuthNext /\ UNCHANGED << monitorVars, agentVars, localVars >>
       \/ part = "canary" /\ LocalNext /\ UNCHANGED << monitorVars, agentVars, authVars >>
    /\ UNCHANGED part

MCSpec == MCInit /\ [][MCNext]_<< part, monitorVars, agentVars, authVars, localVars >>
=============================================================================
