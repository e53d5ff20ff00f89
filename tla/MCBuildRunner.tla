---------------------------- MODULE MCBuildRunner ----------------------------
(***************************************************************************)
(* Small instances of BuildRunner, two of them in one run; `scenario` says *)
(* which a behaviour is of.  "stopped": stop requests, crashes and         *)
(* shutdowns.  "timed": timeouts instead of stop requests.                 *)
(***************************************************************************)
EXTENDS BuildRunner, TLC

CONSTANTS b1, b2, app

OneProject == {app}
TwoBuilds == {b1, b2}
AllApp == [b \in Builds |-> app]
NoDownstream == [p \in Projects |-> NoProject]
MCSymmetry == Permutations(Builds)

NoTimeouts == {"cancel", "crash", "shutdown"}
OnlyCrash == {"crash"}
CancelAndCrash == {"cancel", "crash"}
Nothing == {}

VARIABLE scenario

Timed == INSTANCE BuildRunner WITH Disturbances <- {"timeout", "crash", "shutdown"}

scenarioVars == <<vars, scenario>>

Init == scenario \in {"stopped", "timed"} /\ RunnerInit

Next ==
    /\ UNCHANGED scenario
    /\ \/ scenario = "stopped" /\ RunnerNext
       \/ scenario = "timed" /\ Timed!RunnerNext

Spec == Init /\ [][Next]_scenarioVars

\* The first instance alone, for a run of its own.
StoppedSpec == Init /\ scenario = "stopped" /\ [][Next]_scenarioVars
=============================================================================
