----------------------------- MODULE MCExecution -----------------------------
(***************************************************************************)
(* Small instances of the modules about the execution of one build and the *)
(* log it leaves, in one run: `part` says which of them a behaviour is of, *)
(* and the variables of the others stay as they are.  RemoteBuild has      *)
(* three instances: one build that is stopped, on a network that fails     *)
(* (alone), one that times out, on a worker that may be deleted (timed),   *)
(* and two that compete for a worker (shared).                             *)
(***************************************************************************)
EXTENDS ProcessTree, RemoteBuild, BuildLog, WSHub

CONSTANTS w1, b1, b2, c1, c2

\* The labels of the worker.
LinuxWorker == [w \in {w1} |-> {"linux"}]

VARIABLE part

OneBuild == part \in {"alone", "timed"}

Shared == INSTANCE RemoteBuild WITH
    RemoteBuilds <- {b1, b2}, Artifacts <- 0, RemoteFaults <- {"partition"}

Timed == INSTANCE RemoteBuild WITH RemoteFaults <- {"delete", "timeout", "workerCrash", "crash", "shutdown"}

vars == <<processVars, remoteVars, logVars, hubVars, part>>

Init ==
    /\ part \in {"process", "alone", "timed", "shared", "log", "hub"}
    /\ ProcessInit /\ LogInit /\ HubInit
    /\ IF part = "shared" THEN Shared!RemoteInit ELSE RemoteInit

Next ==
    /\ UNCHANGED part
    /\ \/ part = "process" /\ ProcessNext /\ UNCHANGED <<remoteVars, logVars, hubVars>>
       \/ part = "alone" /\ RemoteNext /\ UNCHANGED <<processVars, logVars, hubVars>>
       \/ part = "timed" /\ Timed!RemoteNext /\ UNCHANGED <<processVars, logVars, hubVars>>
       \/ part = "shared" /\ Shared!RemoteNext /\ UNCHANGED <<processVars, logVars, hubVars>>
       \/ part = "log" /\ LogNext /\ UNCHANGED <<processVars, remoteVars, hubVars>>
       \/ part = "hub" /\ HubNext /\ UNCHANGED <<processVars, remoteVars, logVars>>

\* The fairness each module states, in its own part.  What ProcessFairness and
\* HubFairness speak of is never enabled elsewhere.
Fairness ==
    /\ ProcessFairness
    /\ WF_remoteVars(OneBuild /\ RunStep(b1))
    /\ WF_remoteVars(OneBuild /\ ExecutionStep(b1))
    /\ WF_logVars(part = "log" /\ FireTimer)
    /\ WF_logVars(part = "log" /\ RunCallback)
    /\ SF_logVars(part = "log" /\ RunCallback /\ batch' = Accepted(batch))
    /\ WF_logVars(part = "log" /\ (FlushTail \/ FinishLoggedBuild \/ AnnounceStatus))
    /\ HubFairness

Spec == Init /\ [][Next]_vars /\ Fairness

\* A remote build ends on both sides: as a success only when all of it arrived, and
\* otherwise without leaving an execution behind or a row that says running.
RemoteBuildsSettle ==
    /\ [][OneBuild => SuccessIsComplete]_vars
    /\ OneBuild => NoOrphanedExecution
    /\ OneBuild => RemoteBuildEnds
=============================================================================
