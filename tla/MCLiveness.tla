----------------------------- MODULE MCLiveness -----------------------------
(***************************************************************************)
(* The liveness questions of BuildRunner in one run: two small instances of *)
(* it over the same variables; `scenario` says which a behaviour is of.     *)
(* "serve": two builds of a project that disables concurrent builds and     *)
(* triggers itself, two slots, graceful shutdowns.  "stop": two builds that *)
(* compete for one slot, and stop requests on both.                         *)
(***************************************************************************)
EXTENDS BuildRunner

CONSTANTS b1, b2, app

TwoBuilds == {b1, b2}
OneProject == {app}
AllApp == [b \in TwoBuilds |-> app]
ItsOwn == [p \in OneProject |-> app]

VARIABLE scenario

Stop == INSTANCE BuildRunner WITH
    Slots <- 1, DisableConcurrent <- FALSE, Disturbances <- {"cancel"}

liveVars == <<vars, scenario>>

LiveInit == scenario \in {"serve", "stop"} /\ RunnerInit

LiveNext ==
    /\ UNCHANGED scenario
    /\ \/ scenario = "serve" /\ RunnerNext
       \/ scenario = "stop" /\ Stop!RunnerNext

\* RunnerFairness in each scenario.
LiveFairness ==
    /\ WF_liveVars(UNCHANGED scenario /\ ListPendingBuilds)
    /\ WF_liveVars(UNCHANGED scenario /\ server = "draining" /\ Exit)
    /\ WF_liveVars(UNCHANGED scenario /\ Restart)
    /\ \A b \in Builds :
        /\ WF_liveVars(UNCHANGED scenario /\ CreateBuildQueueItem(b))
        /\ WF_liveVars(UNCHANGED scenario /\ StopStep(b))
        /\ WF_liveVars(UNCHANGED scenario /\ IF scenario = "serve" THEN DispatchStep(b) ELSE Stop!DispatchStep(b))
        /\ WF_liveVars(UNCHANGED scenario /\ IF scenario = "serve" THEN RunStep(b) ELSE Stop!RunStep(b))

LiveSpec == LiveInit /\ [][LiveNext]_liveVars /\ LiveFairness
=============================================================================
