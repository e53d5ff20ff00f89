------------------------------ MODULE ServiceWatch ------------------------------
(***************************************************************************)
(* WatchService: the step of a deployment that watches the process it      *)
(* started until the process exits, a newer deployment takes over, or its  *)
(* build is cancelled.  Monitors of several deployments share three files  *)
(* of the target directory: the PID, the owner and the handover.           *)
(*                                                                         *)
(* A deployment writes the handover file, replaces the process and writes  *)
(* its PID in a shell step, which is not code of the repository.           *)
(***************************************************************************)
EXTENDS Naturals, FiniteSets

CONSTANTS
    Deployments,       \* also the PIDs of the processes they start
    StopOnCancel,      \* stop_service_on_cancel
    MaxServiceCrashes  \* bound

VARIABLES
    service,      \* per PID: not started, up, or what ended it
    pidFile, ownerFile, handoverFile,
    monitor,      \* per deployment: where it is, whom it watches, how it ended
    superseded,   \* history: deployments after whose request another one asked for a handover
    serviceCrashes

watchVars == <<service, pidFile, ownerFile, handoverFile, monitor, superseded, serviceCrashes>>

\* A file that is not there, or has no PID, which is positive.
Missing == 0

ASSUME WatchAssumption == Missing \notin Deployments

Causes == {"user", "shutdown"}

WatchInit ==
    /\ service = [p \in Deployments |-> "none"]
    /\ pidFile = Missing /\ ownerFile = Missing /\ handoverFile = Missing
    /\ monitor = [d \in Deployments |-> [step |-> "ready", pid |-> Missing, cause |-> "none", result |-> "none"]]
    /\ superseded = {}
    /\ serviceCrashes = 0

Up(p) == p # Missing /\ service[p] = "up"
To2(d, step) == monitor' = [monitor EXCEPT ![d].step = step]
Result(d, step, result) == monitor' = [monitor EXCEPT ![d].step = step, ![d].result = result]

(***************************************************************************)
(* The deployment, external.                                               *)
(***************************************************************************)
RequestHandover(d) ==
    /\ monitor[d].step = "ready"
    /\ To2(d, "requested")
    /\ handoverFile' = d
    /\ superseded' = Deployments \ {d}
    /\ UNCHANGED <<service, pidFile, ownerFile, serviceCrashes>>

ReplaceService(d) ==
    /\ monitor[d].step = "requested"
    /\ To2(d, "deployed")
    /\ service' = [p \in Deployments |-> IF p = d THEN "up" ELSE IF p = pidFile /\ Up(p) THEN "replaced" ELSE service[p]]
    /\ pidFile' = d
    /\ UNCHANGED <<ownerFile, handoverFile, superseded, serviceCrashes>>

DeploymentFails(d) ==
    /\ monitor[d].step = "requested"
    /\ Result(d, "ended", "failed")
    /\ UNCHANGED <<service, pidFile, ownerFile, handoverFile, superseded, serviceCrashes>>

ServiceCrashesNow(p) ==
    /\ Up(p) /\ serviceCrashes < MaxServiceCrashes
    /\ serviceCrashes' = serviceCrashes + 1
    /\ service' = [service EXCEPT ![p] = "crashed"]
    /\ UNCHANGED <<pidFile, ownerFile, handoverFile, monitor, superseded>>

(***************************************************************************)
(* WatchService                                                            *)
(***************************************************************************)
ReadServicePID(d) ==
    /\ monitor[d].step = "deployed"
    /\ monitor' = [monitor EXCEPT ![d].pid = pidFile, ![d].step = "check"]
    /\ UNCHANGED <<service, pidFile, ownerFile, handoverFile, superseded, serviceCrashes>>

ServiceProcessRunning(d) ==
    /\ monitor[d].step = "check"
    /\ IF Up(monitor[d].pid) THEN To2(d, "claim") ELSE Result(d, "ended", "failed")
    /\ UNCHANGED <<service, pidFile, ownerFile, handoverFile, superseded, serviceCrashes>>

Claim(d) ==
    /\ monitor[d].step = "claim"
    /\ To2(d, "watching")
    /\ ownerFile' = d
    /\ UNCHANGED <<service, pidFile, handoverFile, superseded, serviceCrashes>>

\* Mutant of HandoverRequested: any request will do.
HandoverRequestedByAny(d) == handoverFile # Missing

\* The request of the deployment itself is still in the file.
HandoverRequested(d) == handoverFile \notin {Missing, d}

CheckProcess(d) ==
    /\ monitor[d].step = "watching" /\ ~ Up(monitor[d].pid)
    /\ Result(d, "release", IF HandoverRequested(d) THEN "success" ELSE "failed")
    /\ UNCHANGED <<service, pidFile, ownerFile, handoverFile, superseded, serviceCrashes>>

\* A shutdown of the controller only ends the observation.
StopsService(cause) == StopOnCancel /\ cause # "shutdown"

BuildCancelled(d, cause) ==
    /\ monitor[d].step = "watching"
    /\ monitor' = [monitor EXCEPT ![d].cause = cause, ![d].step = IF StopsService(cause) THEN "stopping" ELSE "release",
                                  ![d].result = "cancelled"]
    /\ UNCHANGED <<service, pidFile, ownerFile, handoverFile, superseded, serviceCrashes>>

\* SIGTERM, then up to the shutdown timeout.
TerminateServiceProcess(d) ==
    /\ monitor[d].step = "stopping"
    /\ \/ /\ service' = IF Up(monitor[d].pid) THEN [service EXCEPT ![monitor[d].pid] = "terminated"] ELSE service
          /\ To2(d, "release")
       \/ /\ Up(monitor[d].pid)
          /\ Result(d, "release", "failed")
          /\ UNCHANGED service
    /\ UNCHANGED <<pidFile, ownerFile, handoverFile, superseded, serviceCrashes>>

\* release reads the owner ...
ReadOwner(d) ==
    /\ monitor[d].step = "release"
    /\ To2(d, IF ownerFile = d THEN "remove" ELSE "ended")
    /\ UNCHANGED <<service, pidFile, ownerFile, handoverFile, superseded, serviceCrashes>>

\* ... and removes the file, whatever it has become.
RemoveOwner(d) ==
    /\ monitor[d].step = "remove"
    /\ To2(d, "ended")
    /\ ownerFile' = Missing
    /\ UNCHANGED <<service, pidFile, handoverFile, superseded, serviceCrashes>>

WatchNext ==
    \E d \in Deployments :
        \/ RequestHandover(d) \/ ReplaceService(d) \/ DeploymentFails(d) \/ ServiceCrashesNow(d)
        \/ ReadServicePID(d) \/ ServiceProcessRunning(d) \/ Claim(d) \/ CheckProcess(d)
        \/ (\E cause \in Causes : BuildCancelled(d, cause))
        \/ TerminateServiceProcess(d) \/ ReadOwner(d) \/ RemoveOwner(d)

WatchSpec == WatchInit /\ [][WatchNext]_watchVars

(***************************************************************************)
(* Properties.                                                             *)
(***************************************************************************)

\* "The retiring monitor succeeds only when a newer deployment explicitly
\* requested it; an unexpected service exit remains a failed build", also when
\* the handover file still holds what earlier deployments wrote.
UnexpectedExitFails == \A d \in DOMAIN monitor : monitor[d].result = "success" => d \in superseded

\* A monitor ends no process but the one it watches, and only when a user
\* cancelled its build: never a newer deployment's, never at a shutdown.
OnlyCancelTerminates ==
    \A p \in DOMAIN service : service[p] = "terminated" =>
        \E d \in DOMAIN monitor : monitor[d].pid = p /\ monitor[d].cause = "user"

\* A watched service ends as its monitor reports it, and for no other reason.
MonitorsAreHonest ==
    /\ UnexpectedExitFails
    /\ OnlyCancelTerminates
=============================================================================
