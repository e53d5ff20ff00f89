-------------------------- MODULE OperationsProofs --------------------------
(***************************************************************************)
(* Proofs about the operation of an installation: the servers that the     *)
(* command line and the service manager start and stop, the monitors of    *)
(* deployed services, the download of a release, its installation, and the *)
(* log of a service that is followed; for any number of commands,          *)
(* processes, deployments, parts, updates, files and characters.           *)
(***************************************************************************)
EXTENDS ServerControl, ServiceWatch, ReleaseCatalog, SystemUpdate, LogFollower, FiniteSetTheorems, SequenceTheorems,
        WellFoundedInduction, TLAPS

-----------------------------------------------------------------------------
(***************************************************************************)
(* ServerControl.  Whoever has the port is alone, since main listens before *)
(* it serves and stops its builds before it lets the port go.  A stop that *)
(* nobody started after has taken the service down, and every process that *)
(* is still alive is one it waits for.                                     *)
(***************************************************************************)
PortIsExclusive == \A p, q \in Processes : HoldsPort(p) /\ HoldsPort(q) => p = q

ServiceIsRegistered == unit => registered

Stopping(c) == command[c].kind = "stop" /\ ~ started[c] /\ command[c].step \in {"signal", "await", "stopped"}

StopHolds ==
    \A c \in Commands :
        /\ command[c].step = "stopped" => command[c].kind = "stop"
        /\ Stopping(c) =>
              /\ ~ unit
              /\ command[c].step = "await" => AliveProcesses \subseteq command[c].waits
              /\ command[c].step = "stopped" => AliveProcesses = {}

Positions == {"none", "booting", "listening", "serving", "draining", "closing", "gone"}
Steps == {"ready", "service", "signal", "await", "port", "spawn", "health", "failed", "stopped", "started"}

ServerTypeOK ==
    /\ proc \in [Processes -> [at : Positions, managed : BOOLEAN]]
    /\ registered \in BOOLEAN
    /\ unit \in BOOLEAN
    /\ command \in [Commands -> [kind : {"none", "start", "stop"}, step : Steps, waits : SUBSET Processes]]
    /\ started \in [Commands -> BOOLEAN]

ServerInv == ServerTypeOK /\ PortIsExclusive /\ ServiceIsRegistered /\ StopHolds

\* What a step of one process does: it is no new process, and it gets the port only
\* when nobody has it.
ProcessMoves(p) ==
    /\ proc' \in [Processes -> [at : Positions, managed : BOOLEAN]]
    /\ \A q \in Processes \ {p} : proc'[q] = proc[q]
    /\ Alive(p)
    /\ proc'[p].at \in {"listening", "serving", "draining"} =>
          HoldsPort(p) \/ \A q \in Processes : ~ HoldsPort(q)
    /\ UNCHANGED <<registered, unit, command, started>>

LEMMA ProcessStepMoves ==
  ASSUME ServerTypeOK, NEW p \in Processes,
         Listen(p) \/ StartQueue(p) \/ StopBuilds(p) \/ Exit(p) \/ Killed(p)
  PROVE  ProcessMoves(p)
<1>1. CASE Listen(p)
  BY <1>1 DEF Listen, Listens, To, ServerTypeOK, ProcessMoves, Alive, HoldsPort, Positions
<1>2. CASE StartQueue(p)
  BY <1>2 DEF StartQueue, To, ServerTypeOK, ProcessMoves, Alive, HoldsPort, Positions
<1>3. CASE StopBuilds(p) \/ Exit(p) \/ Killed(p)
  BY <1>3 DEF StopBuilds, Exit, Killed, To, ServerTypeOK, ProcessMoves, Alive, HoldsPort, Positions
<1>4. QED
  BY <1>1, <1>2, <1>3

LEMMA ProcessMovesInv ==
  ASSUME ServerInv, NEW p \in Processes, ProcessMoves(p)
  PROVE  ServerInv'
<1> USE DEF ServerInv
<1>1. ServerTypeOK' /\ ServiceIsRegistered'
  BY DEF ProcessMoves, ServerTypeOK, ServiceIsRegistered
<1>2. PortIsExclusive'
  BY DEF ProcessMoves, PortIsExclusive, HoldsPort
<1>3. AliveProcesses' \subseteq AliveProcesses
  BY DEF ProcessMoves, AliveProcesses, Alive
<1>4. StopHolds'
  BY <1>3 DEF ProcessMoves, StopHolds, Stopping
<1>5. QED
  BY <1>1, <1>2, <1>4

\* A process that is made boots, and has no port yet.
LEMMA NewProcess ==
  ASSUME ServerTypeOK, PortIsExclusive, NEW m \in BOOLEAN, NEW n,
         proc' = [proc EXCEPT ![n] = [at |-> "booting", managed |-> m]]
  PROVE  /\ proc' \in [Processes -> [at : Positions, managed : BOOLEAN]]
         /\ PortIsExclusive'
<1>1. \A q \in Processes : HoldsPort(q)' => HoldsPort(q)
  BY DEF HoldsPort, ServerTypeOK
<1>2. QED
  BY <1>1 DEF ServerTypeOK, PortIsExclusive, Positions

\* Ending processes takes nothing away that the invariant needs.
LEMMA ProcessesEnd ==
  ASSUME PortIsExclusive,
         \A q \in Processes : (HoldsPort(q)' => HoldsPort(q)) /\ (Alive(q)' => Alive(q))
  PROVE  PortIsExclusive' /\ AliveProcesses' \subseteq AliveProcesses
BY DEF PortIsExclusive, AliveProcesses

LEMMA CommandStepInv ==
  ASSUME ServerInv, NEW c \in Commands,
         \/ \E kind \in {"start", "stop"} : Begin(c, kind)
         \/ StopAutostartService(c) \/ SignalProcesses(c) \/ AwaitProcesses(c)
         \/ WaitForPort(c) \/ AwaitHealth(c)
  PROVE  ServerInv'
<1> USE DEF ServerInv, Goes
<1>1. CASE \E kind \in {"start", "stop"} : Begin(c, kind)
  <2>1. PICK kind \in {"start", "stop"} : Begin(c, kind)
    BY <1>1
  <2>2. ServerTypeOK' /\ PortIsExclusive' /\ ServiceIsRegistered' /\ AliveProcesses' = AliveProcesses
    BY <2>1 DEF Begin, ServerTypeOK, PortIsExclusive, HoldsPort, ServiceIsRegistered, AliveProcesses,
                Alive, Steps
  <2>3. StopHolds'
    BY <2>1, <2>2 DEF Begin, ServerTypeOK, StopHolds, Stopping
  <2>4. QED
    BY <2>2, <2>3
<1>2. CASE StopAutostartService(c)
  <2>a. \/ UNCHANGED <<proc, unit>>
        \/ /\ unit' = FALSE
           /\ proc' = [p \in Processes |->
                          IF Alive(p) /\ proc[p].managed THEN [proc[p] EXCEPT !.at = "gone"] ELSE proc[p]]
    BY <1>2 DEF StopAutostartService, ServiceStops
  <2>b. /\ proc' \in [Processes -> [at : Positions, managed : BOOLEAN]]
        /\ \A q \in Processes : (HoldsPort(q)' => HoldsPort(q)) /\ (Alive(q)' => Alive(q))
    BY <2>a DEF ServerTypeOK, HoldsPort, Alive, Positions
  <2>c. command' \in [Commands -> [kind : {"none", "start", "stop"}, step : Steps, waits : SUBSET Processes]]
    BY <1>2 DEF StopAutostartService, ServerTypeOK, Steps
  <2>1. ServerTypeOK' /\ PortIsExclusive' /\ AliveProcesses' \subseteq AliveProcesses
    BY <1>2, <2>a, <2>b, <2>c, ProcessesEnd DEF StopAutostartService, ServerTypeOK
  <2>2. ~ unit' /\ (ServiceIsRegistered)'
    BY <1>2 DEF StopAutostartService, ServiceStops, ServiceIsRegistered
  <2>3. StopHolds'
    BY <1>2, <2>1, <2>2 DEF StopAutostartService, ServerTypeOK, StopHolds, Stopping
  <2>4. QED
    BY <2>1, <2>2, <2>3
<1>3. CASE SignalProcesses(c)
  <2>a. \A q \in Processes : proc'[q].at = proc[q].at \/ proc'[q].at = Terminated(q)
    BY <1>3 DEF SignalProcesses, ServerTypeOK
  <2>b. /\ proc' \in [Processes -> [at : Positions, managed : BOOLEAN]]
        /\ \A q \in Processes : (HoldsPort(q)' => HoldsPort(q)) /\ (Alive(q)' => Alive(q))
    <3>1. \A q \in Processes : Terminated(q) \in Positions
      BY DEF Terminated, ServerTypeOK, Positions
    <3>2. proc' \in [Processes -> [at : Positions, managed : BOOLEAN]]
      BY <1>3, <3>1 DEF SignalProcesses, ServerTypeOK
    <3>3. \A q \in Processes : (HoldsPort(q)' => HoldsPort(q)) /\ (Alive(q)' => Alive(q))
      BY <2>a DEF Terminated, HoldsPort, Alive
    <3>4. QED
      BY <3>2, <3>3
  <2>c. command' \in [Commands -> [kind : {"none", "start", "stop"}, step : Steps, waits : SUBSET Processes]]
    <3>1. PICK q : q = [command[c] EXCEPT !.step = "await", !.waits = AliveProcesses]
      OBVIOUS
    <3>2. command[c] \in [kind : {"none", "start", "stop"}, step : Steps, waits : SUBSET Processes]
      BY DEF ServerTypeOK
    <3>3. q \in [kind : {"none", "start", "stop"}, step : Steps, waits : SUBSET Processes]
      BY <3>1, <3>2 DEF AliveProcesses, Steps
    <3>4. command' = [command EXCEPT ![c] = q]
      BY <1>3, <3>1 DEF SignalProcesses, Matching
    <3> QED BY <3>3, <3>4 DEF ServerTypeOK
  <2>1. ServerTypeOK' /\ PortIsExclusive' /\ AliveProcesses' \subseteq AliveProcesses
    BY <1>3, <2>b, <2>c, ProcessesEnd DEF SignalProcesses, ServerTypeOK
  <2>2. command'[c].waits = AliveProcesses
    BY <1>3 DEF SignalProcesses, Matching, ServerTypeOK
  <2>3. StopHolds'
    BY <1>3, <2>1, <2>2 DEF SignalProcesses, ServerTypeOK, StopHolds, Stopping
  <2>4. QED
    BY <1>3, <2>1, <2>3 DEF SignalProcesses, ServiceIsRegistered
<1>4. CASE AwaitProcesses(c)
  <2>1. ServerTypeOK' /\ PortIsExclusive' /\ ServiceIsRegistered' /\ AliveProcesses' = AliveProcesses
    BY <1>4 DEF AwaitProcesses, ServerTypeOK, PortIsExclusive, HoldsPort, ServiceIsRegistered,
                AliveProcesses, Alive, Steps
  <2>2. StopHolds'
    BY <1>4, <2>1 DEF AwaitProcesses, ServerTypeOK, StopHolds, Stopping
  <2>3. QED
    BY <2>1, <2>2
<1>5. CASE WaitForPort(c) \/ AwaitHealth(c)
  <2>1. ServerTypeOK' /\ PortIsExclusive' /\ ServiceIsRegistered' /\ AliveProcesses' = AliveProcesses
    BY <1>5 DEF WaitForPort, AwaitHealth, ServerTypeOK, PortIsExclusive, HoldsPort,
                ServiceIsRegistered, AliveProcesses, Alive, Steps
  <2>2. StopHolds'
    BY <1>5, <2>1 DEF WaitForPort, AwaitHealth, ServerTypeOK, StopHolds, Stopping
  <2>3. QED
    BY <2>1, <2>2
<1>6. QED
  BY <1>1, <1>2, <1>3, <1>4, <1>5

\* A start overtakes every stop; the service manager only restarts a service that no
\* stop took down.
LEMMA SpawnInv ==
  ASSUME ServerInv, Respawn \/ \E c \in Commands : Spawn(c)
  PROVE  ServerInv'
<1> USE DEF ServerInv, Goes
<1>1. CASE Respawn
  <2>1. ServerTypeOK' /\ PortIsExclusive'
    BY <1>1, NewProcess DEF Respawn, ServerTypeOK
  <2>2. \A c \in Commands : ~ Stopping(c)
    BY <1>1 DEF Respawn, StopHolds
  <2>3. QED
    BY <1>1, <2>1, <2>2 DEF Respawn, ServiceIsRegistered, StopHolds, Stopping
<1>2. CASE \E c \in Commands : Spawn(c)
  <2>1. PICK c \in Commands : Spawn(c)
    BY <1>2
  <2>2. \/ UNCHANGED proc
        \/ \E m \in BOOLEAN : proc' = [proc EXCEPT ![NextProcess] = [at |-> "booting", managed |-> m]]
    BY <2>1 DEF Spawn
  <2>3. proc' \in [Processes -> [at : Positions, managed : BOOLEAN]] /\ PortIsExclusive'
    BY <2>2, NewProcess DEF ServerTypeOK, PortIsExclusive, HoldsPort
  <2>a. started' \in [Commands -> BOOLEAN]
    BY <2>1, Zenon DEF Spawn
  <2>b. command' \in [Commands -> [kind : {"none", "start", "stop"}, step : Steps, waits : SUBSET Processes]]
    <3>1. PICK q : q = [command[c] EXCEPT !.step = "health"]
      OBVIOUS
    <3>2. command[c] \in [kind : {"none", "start", "stop"}, step : Steps, waits : SUBSET Processes]
      BY DEF ServerTypeOK
    <3>3. q \in [kind : {"none", "start", "stop"}, step : Steps, waits : SUBSET Processes]
      BY <3>1, <3>2 DEF Steps
    <3>4. command' = [command EXCEPT ![c] = q]
      BY <2>1, <3>1 DEF Spawn, Goes
    <3> QED BY <3>3, <3>4 DEF ServerTypeOK
  <2>c. unit' \in BOOLEAN /\ registered' = registered /\ (unit' => registered)
    BY <2>1 DEF Spawn, ServerTypeOK, ServiceIsRegistered
  <2>4. ServerTypeOK' /\ ServiceIsRegistered'
    BY <2>3, <2>a, <2>b, <2>c DEF ServerTypeOK, ServiceIsRegistered
  <2>5. \A d \in Commands : command'[d].kind = command[d].kind /\ ~ Stopping(d)'
    <3>1. \A d \in Commands : command'[d].kind = command[d].kind
      BY <2>1 DEF Spawn, ServerTypeOK
    <3>2. \A d \in Commands : command[d].kind = "stop" => started'[d]
      BY <2>1, Zenon DEF Spawn
    <3>3. QED
      BY <3>1, <3>2 DEF Stopping
  <2>6. \A d \in Commands : command'[d].step = "stopped" => command[d].step = "stopped"
    BY <2>1 DEF Spawn, ServerTypeOK
  <2>7. StopHolds'
    BY <2>5, <2>6 DEF StopHolds
  <2>8. QED
    BY <2>3, <2>4, <2>7
<1>3. QED
  BY <1>1, <1>2

LEMMA ServerInvInductive ==
  ASSUME ServerInv, [ServerNext]_controlVars
  PROVE  ServerInv'
<1>1. CASE UNCHANGED controlVars
  BY <1>1 DEF controlVars, ServerInv, ServerTypeOK, PortIsExclusive, HoldsPort, ServiceIsRegistered,
              StopHolds, Stopping, AliveProcesses, Alive
<1>2. ASSUME NEW p \in Processes,
             Listen(p) \/ StartQueue(p) \/ StopBuilds(p) \/ Exit(p) \/ Killed(p)
      PROVE  ServerInv'
  BY <1>2, ProcessStepMoves, ProcessMovesInv DEF ServerInv
<1>3. QED
  BY <1>1, <1>2, CommandStepInv, SpawnInv DEF ServerNext

\* However commands, restarts of the service and slow shutdowns overlap, no two servers
\* run builds (main in cmd/buildworld listens before it starts the queue), and a stop that
\* answered "stopped" has left none alive, unless a start came in between.
THEOREM ServersAreExclusiveHolds == ServerSpec => []ServersAreExclusive
<1>1. ServerInit => ServerInv
  <2> SUFFICES ASSUME ServerInit
               PROVE  ServerInv
    OBVIOUS
  <2>1. ServerTypeOK
    BY DEF ServerInit, ServerTypeOK, Fresh, NotRun, Positions, Steps
  <2>2. PortIsExclusive /\ ServiceIsRegistered
    BY DEF ServerInit, PortIsExclusive, HoldsPort, ServiceIsRegistered, Fresh
  <2>3. StopHolds
    BY DEF ServerInit, StopHolds, Stopping, NotRun
  <2>4. QED
    BY <2>1, <2>2, <2>3 DEF ServerInv
<1>2. ServerInv => ServersAreExclusive
  <2> SUFFICES ASSUME ServerInv
               PROVE  ServersAreExclusive
    OBVIOUS
  <2> DEFINE busy == {p \in DOMAIN proc : RunsBuilds(p)}
  <2>1. busy = {} \/ \E p \in busy : busy = {p}
    BY DEF ServerInv, ServerTypeOK, PortIsExclusive, HoldsPort, RunsBuilds
  <2>2. Cardinality(busy) <= 1
    BY <2>1, FS_EmptySet, FS_Singleton
  <2>3. StopIsFinal
    BY DEF ServerInv, ServerTypeOK, StopHolds, Stopping, StopIsFinal
  <2>4. QED
    BY <2>2, <2>3 DEF ServersAreExclusive, OneServerRunsBuilds
<1>3. QED
  BY <1>1, <1>2, ServerInvInductive, PTL DEF ServerSpec

-----------------------------------------------------------------------------
(***************************************************************************)
(* ServiceWatch.  The handover file names the deployment that asked last,  *)
(* so that every other one is superseded; a monitor that stops its service *)
(* belongs to a build that a user cancelled.                               *)
(***************************************************************************)
MonitorSteps == {"ready", "requested", "deployed", "check", "claim", "watching", "stopping", "release", "remove", "ended"}

WatchTypeOK ==
    /\ monitor \in [Deployments -> [step : MonitorSteps, pid : Deployments \cup {Missing},
                                    cause : Causes \cup {"none"},
                                    result : {"none", "failed", "success", "cancelled"}]]
    /\ service \in [Deployments -> {"none", "up", "replaced", "crashed", "terminated"}]
    /\ pidFile \in Deployments \cup {Missing}
    /\ superseded \subseteq Deployments

LastRequestSupersedes == handoverFile # Missing => superseded = Deployments \ {handoverFile}

SuccessIsSuperseded ==
    \A d \in Deployments : monitor[d].result = "success" => d \in superseded /\ monitor[d].step # "ready"

CancelledSteps ==
    \A d \in Deployments :
        /\ monitor[d].cause = "user" => monitor[d].step \in {"stopping", "release", "remove", "ended"}
        /\ monitor[d].step = "stopping" => monitor[d].cause = "user"

TerminatedByUser ==
    \A p \in Deployments : service[p] = "terminated" =>
        \E d \in Deployments : monitor[d].pid = p /\ monitor[d].cause = "user"

WatchInv == WatchTypeOK /\ LastRequestSupersedes /\ SuccessIsSuperseded /\ CancelledSteps /\ TerminatedByUser

\* A step of one monitor that leaves the services, the handover and whom a cancelled
\* build watched as they are.
MonitorMoves(d) ==
    /\ UNCHANGED <<service, handoverFile, superseded>>
    /\ monitor[d].step # "ready"
    /\ \A e \in Deployments \ {d} : monitor'[e] = monitor[e]
    /\ monitor[d].cause = "user" => monitor'[d].pid = monitor[d].pid /\ monitor'[d].cause = "user"
    /\ monitor'[d].step # "ready"
    /\ monitor'[d].result = "success" => monitor[d].result = "success" \/ d \in superseded
    /\ monitor'[d].cause = "user" => monitor'[d].step \in {"stopping", "release", "remove", "ended"}
    /\ monitor'[d].step = "stopping" => monitor'[d].cause = "user"

LEMMA MonitorMovesInv ==
  ASSUME WatchInv, NEW d \in Deployments, MonitorMoves(d), WatchTypeOK'
  PROVE  WatchInv'
<1> USE DEF WatchInv, MonitorMoves
<1>1. LastRequestSupersedes'
  BY DEF LastRequestSupersedes
<1>2. SuccessIsSuperseded'
  BY DEF SuccessIsSuperseded
<1>3. CancelledSteps'
  BY DEF CancelledSteps
<1>4. TerminatedByUser'
  BY DEF TerminatedByUser
<1>5. QED
  BY <1>1, <1>2, <1>3, <1>4

LEMMA MonitorStepMoves ==
  ASSUME WatchInv, NEW d \in Deployments,
         \/ DeploymentFails(d) \/ ReadServicePID(d) \/ ServiceProcessRunning(d) \/ Claim(d)
         \/ CheckProcess(d) \/ (\E cause \in Causes : BuildCancelled(d, cause))
         \/ ReadOwner(d) \/ RemoveOwner(d)
  PROVE  MonitorMoves(d) /\ WatchTypeOK'
<1> USE DEF WatchInv, WatchTypeOK, CancelledSteps, MonitorMoves, MonitorSteps, Causes, To2, Result
<1>1. CASE DeploymentFails(d) \/ Claim(d) \/ ReadOwner(d) \/ RemoveOwner(d)
  BY <1>1 DEF DeploymentFails, Claim, ReadOwner, RemoveOwner
<1>2. CASE ReadServicePID(d)
  BY <1>2 DEF ReadServicePID
<1>3. CASE ServiceProcessRunning(d)
  BY <1>3 DEF ServiceProcessRunning
<1>4. CASE CheckProcess(d)
  <2>1. HandoverRequested(d) => d \in superseded
    BY DEF HandoverRequested, LastRequestSupersedes
  <2>2. ASSUME NEW result \in {"failed", "success"}, Result(d, "release", result),
               result = "success" => d \in superseded
        PROVE  MonitorMoves(d) /\ WatchTypeOK'
    <3>1. monitor' \in [Deployments -> [step : MonitorSteps, pid : Deployments \cup {Missing},
                                        cause : Causes \cup {"none"},
                                        result : {"none", "failed", "success", "cancelled"}]]
      <4> DEFINE M == [step : MonitorSteps, pid : Deployments \cup {Missing}, cause : Causes \cup {"none"},
                       result : {"none", "failed", "success", "cancelled"}]
      <4>1. [monitor[d] EXCEPT !.step = "release", !.result = result] \in M
        OBVIOUS
      <4>2. monitor' = [monitor EXCEPT ![d] = [monitor[d] EXCEPT !.step = "release", !.result = result]]
        BY <2>2
      <4>3. QED
        BY <4>1, <4>2
    <3>2. QED
      BY <1>4, <2>2, <3>1 DEF CheckProcess
  <2>3. \E result \in {"failed", "success"} :
           Result(d, "release", result) /\ (result = "success" => d \in superseded)
    BY <1>4, <2>1 DEF CheckProcess
  <2>4. QED
    BY <2>2, <2>3
<1>5. CASE \E cause \in Causes : BuildCancelled(d, cause)
  BY <1>5 DEF BuildCancelled, StopsService
<1>6. QED
  BY <1>1, <1>2, <1>3, <1>4, <1>5

LEMMA ServiceStepInv ==
  ASSUME WatchInv, NEW d \in Deployments,
         RequestHandover(d) \/ ReplaceService(d) \/ ServiceCrashesNow(d) \/ TerminateServiceProcess(d)
  PROVE  WatchInv'
<1> USE WatchAssumption
<1> USE DEF WatchInv, WatchTypeOK, MonitorSteps, Causes, To2, Result
<1>1. CASE RequestHandover(d)
  <2>1. WatchTypeOK' /\ LastRequestSupersedes'
    BY <1>1 DEF RequestHandover, LastRequestSupersedes
  <2>2. SuccessIsSuperseded'
    BY <1>1 DEF RequestHandover, SuccessIsSuperseded
  <2>3. CancelledSteps' /\ TerminatedByUser'
    BY <1>1 DEF RequestHandover, CancelledSteps, TerminatedByUser
  <2>4. QED
    BY <2>1, <2>2, <2>3
<1>2. CASE ReplaceService(d)
  <2>1. WatchTypeOK' /\ LastRequestSupersedes'
    BY <1>2 DEF ReplaceService, LastRequestSupersedes
  <2>2. SuccessIsSuperseded' /\ CancelledSteps'
    BY <1>2 DEF ReplaceService, SuccessIsSuperseded, CancelledSteps
  <2>3. \A p \in Deployments : service'[p] = "terminated" => service[p] = "terminated"
    BY <1>2 DEF ReplaceService
  <2>4. \A e \in Deployments : monitor'[e].pid = monitor[e].pid /\ monitor'[e].cause = monitor[e].cause
    BY <1>2 DEF ReplaceService
  <2>5. TerminatedByUser'
    BY <2>3, <2>4 DEF TerminatedByUser
  <2>6. QED
    BY <2>1, <2>2, <2>5
<1>3. CASE ServiceCrashesNow(d)
  BY <1>3 DEF ServiceCrashesNow, LastRequestSupersedes, SuccessIsSuperseded, CancelledSteps, TerminatedByUser
<1>4. CASE TerminateServiceProcess(d)
  <2>1. /\ monitor[d].cause = "user"
        /\ \A e \in Deployments : monitor'[e].pid = monitor[e].pid /\ monitor'[e].cause = monitor[e].cause
    BY <1>4 DEF TerminateServiceProcess, CancelledSteps
  <2>2. WatchTypeOK' /\ LastRequestSupersedes'
    BY <1>4 DEF TerminateServiceProcess, Up, LastRequestSupersedes
  <2>3. SuccessIsSuperseded' /\ CancelledSteps'
    BY <1>4 DEF TerminateServiceProcess, SuccessIsSuperseded, CancelledSteps
  <2>4. \A p \in Deployments : service'[p] = "terminated" => service[p] = "terminated" \/ p = monitor[d].pid
    BY <1>4 DEF TerminateServiceProcess
  <2>5. TerminatedByUser'
    BY <2>1, <2>4 DEF TerminatedByUser
  <2>6. QED
    BY <2>2, <2>3, <2>5
<1>5. QED
  BY <1>1, <1>2, <1>3, <1>4

\* However deployments, crashes of a service and cancelled builds overlap, a monitor
\* (WatchService in internal/engine) reports success only when a newer deployment asked
\* for the handover after its own, and a service is only ever terminated by the monitor
\* that watches it, for a build that a user cancelled.
THEOREM MonitorsAreHonestHolds == WatchSpec => []MonitorsAreHonest
<1>1. WatchInit => WatchInv
  BY WatchAssumption DEF WatchInit, WatchInv, WatchTypeOK, LastRequestSupersedes, SuccessIsSuperseded,
     CancelledSteps, TerminatedByUser, MonitorSteps
<1>2. WatchInv /\ [WatchNext]_watchVars => WatchInv'
  <2> SUFFICES ASSUME WatchInv, [WatchNext]_watchVars
               PROVE  WatchInv'
    OBVIOUS
  <2>1. CASE UNCHANGED watchVars
    BY <2>1 DEF watchVars, WatchInv, WatchTypeOK, LastRequestSupersedes, SuccessIsSuperseded,
                CancelledSteps, TerminatedByUser
  <2>2. QED
    BY <2>1, MonitorStepMoves, MonitorMovesInv, ServiceStepInv DEF WatchNext
<1>3. WatchInv => MonitorsAreHonest
  BY DEF WatchInv, WatchTypeOK, SuccessIsSuperseded, TerminatedByUser, MonitorsAreHonest,
         UnexpectedExitFails, OnlyCancelTerminates
<1>4. QED
  BY <1>1, <1>2, <1>3, PTL DEF WatchSpec

-----------------------------------------------------------------------------
(***************************************************************************)
(* ReleaseCatalog.  Parts are downloaded only with an archive to compare   *)
(* them with, and every way out of the download removes the file.          *)
(***************************************************************************)
CatalogInv ==
    /\ DOMAIN fetch = {"step", "parts", "got"}
    /\ fetch.step \in {"check", "checksums", "parts", "bundle", "started", "refused"}
    /\ manifest \in Manifests
    /\ fetch.step \notin {"parts", "bundle"} => temporary = NoFile
    /\ fetch.step \in {"parts", "bundle", "started"} => manifest.archive # <<>>
    /\ fetch.step \in {"bundle", "started"} => fetch.got = manifest.archive

\* Whatever the release lists, and whatever a mirror or a transfer delivers, the updater
\* gets the archive that the manifest of checksums describes, and the temporary file is
\* gone when the request ends (internal/update).
THEOREM DownloadIsTheArchiveHolds == CatalogSpec => []DownloadIsTheArchive
<1>1. CatalogInit => CatalogInv
  BY DEF CatalogInit, CatalogInv
<1>2. CatalogInv /\ [CatalogNext]_catalogVars => CatalogInv'
  <2> SUFFICES ASSUME CatalogInv, [CatalogNext]_catalogVars
               PROVE  CatalogInv'
    OBVIOUS
  <2>1. CASE Check
    BY <2>1 DEF Check, CatalogInv
  <2>2. CASE DownloadChecksums
    BY <2>2 DEF DownloadChecksums, CatalogInv
  <2>3. ASSUME NEW a \in Arrivals, DownloadPart(a)
        PROVE  CatalogInv'
    BY <2>3 DEF DownloadPart, Cleaned, CatalogInv
  <2>4. CASE Assemble
    BY <2>4 DEF Assemble, AssembledMatches, Cleaned, CatalogInv
  <2>5. CASE HandOver
    BY <2>5 DEF HandOver, CatalogInv
  <2>6. CASE UNCHANGED catalogVars
    BY <2>6 DEF catalogVars, CatalogInv
  <2>7. QED
    BY <2>1, <2>2, <2>3, <2>4, <2>5, <2>6 DEF CatalogNext
<1>3. CatalogInv => DownloadIsTheArchive
  BY CatalogAssumption DEF CatalogInv, DownloadIsTheArchive, BundleIsTheArchive, TemporaryIsRemoved
<1>4. QED
  BY <1>1, <1>2, <1>3, PTL DEF CatalogSpec

-----------------------------------------------------------------------------
(***************************************************************************)
(* SystemUpdate.  Whoever acts holds the lock, so one update at a time says *)
(* where the installations are and what the status may claim.              *)
(***************************************************************************)
UpdateSteps == Staging \cup Helping \cup {"refused", "done", "killed"}

UpdateRecord ==
    [version : Versions, bundle : Bundles, step : UpdateSteps, from : Nat,
     rotated : BOOLEAN, activated : BOOLEAN, wasRunning : BOOLEAN, failed : BOOLEAN]

Acting(q) == q.step \in Staging \cup Helping

\* Whoever acts holds the lock, and that lock is not taken over.
LockInv ==
    /\ update \in Seq(UpdateRecord)
    /\ install \in Nat /\ previous \in Nat
    /\ \A u \in Active : lock = u
    /\ lockOld = TRUE => lock \notin Active

\* Where the installations are while an update acts.
Stands(q) ==
    /\ q.step \in {"staging", "staged", "verify"} => install = q.from
    /\ q.step \in {"pause", "rotate", "move"} => install = q.from /\ q.from # None
    /\ q.step \in {"activate", "start", "health", "stopNew", "removeNew", "putBack"} =>
           previous = q.from /\ q.from # None /\ q.rotated = TRUE
    /\ q.step \in {"activate", "putBack"} => install = None
    /\ q.step \in {"start", "health", "stopNew", "removeNew"} =>
           q.activated = TRUE /\ ("activate" \notin Faulty => install = q.version)

\* The old server is gone before the new one starts, if it can be paused.
ServerStands(q) ==
    /\ q.step = "pause" => q.wasRunning = TRUE \/ server = None
    /\ q.step \in {"rotate", "move", "activate", "start"} => server = None
    /\ q.step = "health" => server \in {None, install}

PlaceInv ==
    /\ NothingIsLost
    /\ \A u \in Active : Stands(update[u]) /\ ("pause" \notin Faulty => ServerStands(update[u]))

\* Whoever answers is the new server, or the installation is the new one.
Stoppable == "pause" \notin Faulty \/ "activate" \notin Faulty

Told(state) == state \in {"succeeded", "rolled_back"}

\* What was said last stays true, since whoever changes anything has said something else.
TruthInv ==
    status.of # None =>
        /\ status.of \in DOMAIN update
        /\ Told(status.state) =>
            /\ \A u \in Active : update[u].step = "staging"
            /\ Stoppable /\ status.state = "succeeded" /\ update[status.of].version # update[status.of].from => install = update[status.of].version
            /\ status.state = "rolled_back" => install = update[status.of].from

UpdateInv == LockInv /\ PlaceInv /\ TruthInv

LEMMA RecordWritten ==
  ASSUME NEW u \in DOMAIN update, update \in Seq(UpdateRecord), NEW q \in UpdateRecord,
         update' = [update EXCEPT ![u] = q]
  PROVE  /\ update' \in Seq(UpdateRecord) /\ DOMAIN update' = DOMAIN update /\ update'[u] = q
         /\ \A v \in DOMAIN update : v # u => update'[v] = update[v]
OBVIOUS

\* A step of an update that keeps the lock, or gives it up at its end.
LEMMA LockKeeps ==
  ASSUME LockInv, NEW u \in Active, NEW q \in UpdateRecord, update' = [update EXCEPT ![u] = q],
         lockOld' = lockOld, install' \in Nat, previous' \in Nat,
         \/ Acting(q) /\ lock' = lock
         \/ ~Acting(q) /\ lock' = None
  PROVE  /\ LockInv' /\ Active' \subseteq {u} /\ (~Acting(q) => Active' = {})
         /\ update'[u] = q /\ DOMAIN update' = DOMAIN update
<1>1. /\ update \in Seq(UpdateRecord) /\ u \in DOMAIN update /\ Acting(update[u]) /\ lock = u
      /\ \A v \in DOMAIN update : Acting(update[v]) => v = u
  BY DEF LockInv, Active, Acting
<1>2. /\ update' \in Seq(UpdateRecord) /\ DOMAIN update' = DOMAIN update /\ update'[u] = q
      /\ \A v \in DOMAIN update : v # u => update'[v] = update[v]
  BY <1>1, RecordWritten
<1>3. \A v \in Active' : v = u /\ Acting(q)
  BY <1>1, <1>2 DEF Active, Acting
<1>4. lockOld # TRUE
  BY <1>1 DEF LockInv
<1> QED BY <1>1, <1>2, <1>3, <1>4 DEF LockInv

\* ... and says where it stands.
LEMMA StepKeeps ==
  ASSUME UpdateInv, NEW u \in Active, NEW q \in UpdateRecord, update' = [update EXCEPT ![u] = q],
         lockOld' = lockOld, install' \in Nat, previous' \in Nat,
         \/ Acting(q) /\ lock' = lock
         \/ ~Acting(q) /\ lock' = None,
         q.version = update[u].version, q.from = update[u].from,
         NothingIsLost',
         Acting(q) => Stands(q)' /\ ("pause" \notin Faulty => ServerStands(q)'),
         \/ status' = status /\ (update[u].step = "staging" => install' = install /\ ~Acting(q))
         \/ /\ status'.of = u
            /\ Told(status'.state) => ~Acting(q)
            /\ Stoppable /\ status'.state = "succeeded" /\ q.version # q.from => install' = q.version
            /\ status'.state = "rolled_back" => install' = q.from
  PROVE  UpdateInv'
<1>1. /\ LockInv' /\ Active' \subseteq {u} /\ (~Acting(q) => Active' = {})
      /\ update'[u] = q /\ DOMAIN update' = DOMAIN update /\ u \in DOMAIN update
  BY LockKeeps DEF UpdateInv, Active
<1>2. PlaceInv'
  BY <1>1 DEF PlaceInv, Active, Acting
<1>3. CASE status'.of = u /\ (Told(status'.state) => ~Acting(q))
           /\ (Stoppable /\ status'.state = "succeeded" /\ q.version # q.from => install' = q.version)
           /\ (status'.state = "rolled_back" => install' = q.from)
  <2>1. TruthInv'
    BY <1>1, <1>3 DEF TruthInv
  <2> QED BY <1>1, <1>2, <2>1 DEF UpdateInv
<1>4. CASE status' = status /\ (update[u].step = "staging" => install' = install /\ ~Acting(q))
  <2>1. CASE status.of # None /\ Told(status.state)
    <3>1. update[u].step = "staging"
      BY <2>1 DEF UpdateInv, TruthInv
    <3>2. Active' = {} /\ install' = install
      BY <1>1, <1>4, <3>1
    <3>3. /\ update'[status.of].version = update[status.of].version
          /\ update'[status.of].from = update[status.of].from
      BY <1>1, <2>1 DEF UpdateInv, TruthInv, LockInv
    <3>4. TruthInv'
      BY <1>1, <1>4, <2>1, <3>2, <3>3 DEF UpdateInv, TruthInv
    <3> QED BY <1>1, <1>2, <3>4 DEF UpdateInv
  <2>2. CASE ~(status.of # None /\ Told(status.state))
    <3>1. TruthInv'
      BY <1>1, <1>4, <2>2 DEF UpdateInv, TruthInv
    <3> QED BY <1>1, <1>2, <3>1 DEF UpdateInv
  <2> QED BY <2>1, <2>2
<1> QED BY <1>3, <1>4

LEMMA RecordStep ==
  ASSUME NEW u \in DOMAIN update, update \in Seq(UpdateRecord), NEW step \in UpdateSteps, update' = At(u, step)
  PROVE  \E q \in UpdateRecord :
           /\ update' = [update EXCEPT ![u] = q]
           /\ q.step = step /\ q.version = update[u].version /\ q.from = update[u].from
           /\ q.rotated = update[u].rotated /\ q.activated = update[u].activated /\ q.wasRunning = update[u].wasRunning
           /\ q.failed = update[u].failed
<1>1. update[u] \in UpdateRecord
  OBVIOUS
<1>2. PICK q : q = [update[u] EXCEPT !.step = step]
  OBVIOUS
<1>3. /\ q \in UpdateRecord
      /\ q.step = step /\ q.version = update[u].version /\ q.from = update[u].from
      /\ q.rotated = update[u].rotated /\ q.activated = update[u].activated /\ q.wasRunning = update[u].wasRunning
      /\ q.failed = update[u].failed
  BY <1>1, <1>2 DEF UpdateRecord
<1>4. update' = [update EXCEPT ![u] = q]
  BY <1>2 DEF At
<1> QED BY <1>3, <1>4

LEMMA ActingUpdate ==
  ASSUME LockInv, NEW u \in DOMAIN update, Acting(update[u])
  PROVE  u \in Active /\ update[u] \in UpdateRecord /\ lock = u /\ lockOld # TRUE
<1>1. u \in Active
  BY DEF Active, Acting
<1>2. update[u] \in UpdateRecord
  BY DEF LockInv
<1> QED BY <1>1, <1>2 DEF LockInv

\* Every step of the server or the helper writes one record, and keeps the lock until its end.
StepIsWritten(u, q) ==
    /\ update' = [update EXCEPT ![u] = q]
    /\ lockOld' = lockOld
    /\ install' \in Nat /\ previous' \in Nat
    /\ \/ Acting(q) /\ lock' = lock
       \/ ~Acting(q) /\ lock' = None
    /\ q.version = update[u].version /\ q.from = update[u].from

LEMMA StageKeeps ==
  ASSUME LockInv, NEW u \in DOMAIN update, StageBundle(u)
  PROVE  \E q \in UpdateRecord : StepIsWritten(u, q) /\ (PlaceInv /\ TruthInv => UpdateInv')
<1>1. update \in Seq(UpdateRecord) /\ update[u].step = "staging"
  BY DEF StageBundle, Helper, LockInv
<1>2. u \in Active /\ update[u] \in UpdateRecord
  BY <1>1, ActingUpdate DEF Acting, Staging
<1>3. CASE update[u].bundle = "invalid"
  <2>1. PICK q \in UpdateRecord : update' = [update EXCEPT ![u] = q] /\ q.step = "refused" /\ q.version = update[u].version /\ q.from = update[u].from
    BY <1>1, <1>3, RecordStep DEF StageBundle, UpdateSteps
  <2>2. StepIsWritten(u, q) /\ ~Acting(q) /\ status' = status /\ install' = install /\ previous' = previous
    BY <1>3, <2>1 DEF StageBundle, StepIsWritten, Acting, Staging, Helping, LockInv
  <2>3. PlaceInv => NothingIsLost'
    BY <2>2 DEF PlaceInv, NothingIsLost
  <2>4. PlaceInv /\ TruthInv => UpdateInv'
    BY <1>1, <1>2, <2>2, <2>3, StepKeeps DEF UpdateInv, StepIsWritten
  <2> QED BY <2>2, <2>4
<1>4. CASE update[u].bundle # "invalid"
  <2>1. PICK q \in UpdateRecord : update' = [update EXCEPT ![u] = q] /\ q.step = "staged" /\ q.version = update[u].version /\ q.from = update[u].from
    BY <1>1, <1>4, RecordStep DEF StageBundle, UpdateSteps, Staging
  <2>2. StepIsWritten(u, q) /\ Acting(q) /\ status'.of = u /\ ~Told(status'.state) /\ install' = install /\ previous' = previous
    BY <1>4, <2>1 DEF StageBundle, StepIsWritten, Acting, Staging, Helping, LockInv, Told
  <2>3. PlaceInv => NothingIsLost' /\ Stands(q)' /\ ServerStands(q)'
    BY <1>1, <1>2, <2>1, <2>2 DEF PlaceInv, NothingIsLost, Stands, ServerStands
  <2>4. PlaceInv /\ TruthInv => UpdateInv'
    BY <1>2, <2>2, <2>3, StepKeeps DEF UpdateInv, StepIsWritten, Told
  <2> QED BY <2>2, <2>4
<1> QED BY <1>3, <1>4

LEMMA LaunchKeeps ==
  ASSUME LockInv, NEW u \in DOMAIN update, Launch(u)
  PROVE  \E q \in UpdateRecord : StepIsWritten(u, q) /\ (PlaceInv /\ TruthInv => UpdateInv')
<1>1. update \in Seq(UpdateRecord) /\ update[u].step = "staged"
  BY DEF Launch, Helper, LockInv
<1>2. u \in Active /\ update[u] \in UpdateRecord
  BY <1>1, ActingUpdate DEF Acting, Staging
<1>3. CASE update' = At(u, "verify") /\ lock' = lock /\ status' = status
  <2>1. PICK q \in UpdateRecord : update' = [update EXCEPT ![u] = q] /\ q.step = "verify" /\ q.version = update[u].version /\ q.from = update[u].from
    BY <1>1, <1>3, RecordStep DEF UpdateSteps, Helping
  <2>2. StepIsWritten(u, q) /\ Acting(q) /\ install' = install /\ previous' = previous
    BY <1>3, <2>1 DEF Launch, StepIsWritten, Acting, Staging, Helping, LockInv
  <2>3. PlaceInv => NothingIsLost' /\ Stands(q)' /\ ServerStands(q)'
    BY <1>1, <1>2, <2>1, <2>2 DEF PlaceInv, NothingIsLost, Stands, ServerStands
  <2>4. PlaceInv /\ TruthInv => UpdateInv'
    BY <1>1, <1>2, <1>3, <2>2, <2>3, StepKeeps DEF UpdateInv, StepIsWritten
  <2> QED BY <2>2, <2>4
<1>4. CASE update' = At(u, "refused") /\ lock' = None /\ status' = [state |-> "failed", of |-> u]
  <2>1. PICK q \in UpdateRecord : update' = [update EXCEPT ![u] = q] /\ q.step = "refused" /\ q.version = update[u].version /\ q.from = update[u].from
    BY <1>1, <1>4, RecordStep DEF UpdateSteps
  <2>2. StepIsWritten(u, q) /\ ~Acting(q) /\ status'.of = u /\ ~Told(status'.state) /\ install' = install /\ previous' = previous
    BY <1>4, <2>1 DEF Launch, StepIsWritten, Acting, Staging, Helping, LockInv, Told
  <2>3. PlaceInv => NothingIsLost'
    BY <2>2 DEF PlaceInv, NothingIsLost
  <2>4. PlaceInv /\ TruthInv => UpdateInv'
    BY <1>2, <2>2, <2>3, StepKeeps DEF UpdateInv, StepIsWritten, Told
  <2> QED BY <2>2, <2>4
<1> QED BY <1>3, <1>4 DEF Launch

\* The end of a helper, with what it says.
LEMMA FinishKeeps ==
  ASSUME LockInv, NEW u \in DOMAIN update, Acting(update[u]), NEW state, Finish(u, state),
         lockOld' = lockOld, install' \in Nat, previous' \in Nat
  PROVE  \E q \in UpdateRecord :
           /\ StepIsWritten(u, q)
           /\ PlaceInv /\ TruthInv /\ NothingIsLost'
              /\ (Stoppable /\ state = "succeeded" /\ update[u].version # update[u].from => install' = update[u].version)
              /\ (state = "rolled_back" => install' = update[u].from)
              => UpdateInv'
<1>1. update \in Seq(UpdateRecord) /\ u \in Active
  BY ActingUpdate DEF LockInv
<1>2. PICK q \in UpdateRecord : update' = [update EXCEPT ![u] = q] /\ q.step = "done" /\ q.version = update[u].version /\ q.from = update[u].from
  BY <1>1, RecordStep DEF Finish, UpdateSteps
<1>3. StepIsWritten(u, q) /\ ~Acting(q) /\ status'.of = u /\ status'.state = state
  BY <1>2 DEF Finish, StepIsWritten, Acting, Staging, Helping
<1>4. ASSUME PlaceInv, TruthInv, NothingIsLost',
             Stoppable /\ state = "succeeded" /\ update[u].version # update[u].from => install' = update[u].version,
             state = "rolled_back" => install' = update[u].from
      PROVE  UpdateInv'
  <2>1. /\ Stoppable /\ status'.state = "succeeded" /\ q.version # q.from => install' = q.version
        /\ status'.state = "rolled_back" => install' = q.from
    BY <1>2, <1>3, <1>4
  <2>2. UpdateInv
    BY <1>4 DEF UpdateInv
  <2>3. /\ update' = [update EXCEPT ![u] = q] /\ lockOld' = lockOld /\ install' \in Nat /\ previous' \in Nat
        /\ ~Acting(q) /\ lock' = None
    BY <1>2, <1>3 DEF Finish, StepIsWritten
  <2> QED BY <1>1, <1>2, <1>3, <1>4, <2>1, <2>2, <2>3, StepKeeps
<1> QED BY <1>3, <1>4

LEMMA VerifyKeeps ==
  ASSUME LockInv, NEW u \in DOMAIN update, VerifyStaged(u)
  PROVE  \E q \in UpdateRecord : StepIsWritten(u, q) /\ (PlaceInv /\ TruthInv => UpdateInv')
<1>1. update \in Seq(UpdateRecord) /\ update[u].step = "verify" /\ Acting(update[u])
  BY DEF VerifyStaged, Helper, LockInv, Acting, Helping
<1>2. u \in Active /\ update[u] \in UpdateRecord
  BY <1>1, ActingUpdate
<1>3. lockOld' = lockOld /\ install' = install /\ previous' = previous /\ server' = server /\ install' \in Nat /\ previous' \in Nat
  BY DEF VerifyStaged, LockInv
<1>4. CASE install # None /\ update' = [update EXCEPT ![u] = [@ EXCEPT !.step = "pause", !.wasRunning = server # None]]
           /\ lock' = lock /\ status' = status
  <2>1. PICK r : r = (server # None)
    OBVIOUS
  <2>2. PICK q : q = [update[u] EXCEPT !.step = "pause", !.wasRunning = r]
    OBVIOUS
  <2>3. r \in BOOLEAN
    BY <2>1
  <2>4. q \in UpdateRecord
    BY <1>2, <2>2, <2>3 DEF UpdateRecord, UpdateSteps, Helping
  <2>5. q.step = "pause" /\ q.version = update[u].version /\ q.from = update[u].from /\ q.wasRunning = r
    BY <1>2, <2>2 DEF UpdateRecord
  <2>6. update' = [update EXCEPT ![u] = q]
    BY <1>4, <2>1, <2>2
  <2>7. StepIsWritten(u, q) /\ Acting(q)
    BY <1>3, <1>4, <2>5, <2>6 DEF StepIsWritten, Acting, Helping
  <2>8. PlaceInv => NothingIsLost' /\ Stands(q)'
    BY <1>1, <1>2, <1>3, <1>4, <2>5 DEF PlaceInv, NothingIsLost, Stands
  <2>9. ServerStands(q)'
    BY <1>3, <2>1, <2>5 DEF ServerStands
  <2>10. PlaceInv /\ TruthInv => UpdateInv'
    BY <1>1, <1>2, <1>4, <2>4, <2>7, <2>8, <2>9, StepKeeps DEF UpdateInv, StepIsWritten
  <2> QED BY <2>4, <2>7, <2>10
<1>5. CASE Finish(u, "failed")
  <2>1. PICK q \in UpdateRecord : StepIsWritten(u, q) /\ (PlaceInv /\ TruthInv /\ NothingIsLost' => UpdateInv')
    BY <1>1, <1>3, <1>5, FinishKeeps
  <2>2. PlaceInv => NothingIsLost'
    BY <1>3 DEF PlaceInv, NothingIsLost
  <2> QED BY <2>1, <2>2
<1> QED BY <1>4, <1>5 DEF VerifyStaged

LEMMA PauseKeeps ==
  ASSUME LockInv, NEW u \in DOMAIN update, Pause(u)
  PROVE  \E q \in UpdateRecord : StepIsWritten(u, q) /\ (PlaceInv /\ TruthInv => UpdateInv')
<1>1. update \in Seq(UpdateRecord) /\ update[u].step = "pause"
  BY DEF Pause, Helper, LockInv
<1>2. u \in Active /\ update[u] \in UpdateRecord
  BY <1>1, ActingUpdate DEF Acting, Helping
<1>3. PICK q \in UpdateRecord : update' = [update EXCEPT ![u] = q] /\ q.step = "rotate" /\ q.version = update[u].version /\ q.from = update[u].from
  BY <1>1, RecordStep DEF Pause, UpdateSteps, Helping
<1>4. StepIsWritten(u, q) /\ Acting(q) /\ install' = install /\ previous' = previous /\ status'.of = u /\ ~Told(status'.state)
  BY <1>3 DEF Pause, StepIsWritten, Acting, Helping, LockInv, Told
<1>5. PlaceInv => NothingIsLost' /\ Stands(q)'
  BY <1>1, <1>2, <1>3, <1>4 DEF PlaceInv, NothingIsLost, Stands
<1>6. PlaceInv /\ "pause" \notin Faulty => ServerStands(q)'
  <2>1. CASE Works /\ server' = IF update[u].wasRunning THEN None ELSE server
    BY <1>1, <1>2, <1>3, <2>1 DEF PlaceInv, ServerStands
  <2>2. CASE Fails("pause")
    BY <2>2 DEF Fails
  <2> QED BY <2>1, <2>2 DEF Pause
<1>7. PlaceInv /\ TruthInv => UpdateInv'
  BY <1>2, <1>4, <1>5, <1>6, StepKeeps DEF UpdateInv, StepIsWritten, Told
<1> QED BY <1>4, <1>7

LEMMA RemovePreviousKeeps ==
  ASSUME LockInv, NEW u \in DOMAIN update, RemovePrevious(u)
  PROVE  \E q \in UpdateRecord : StepIsWritten(u, q) /\ (PlaceInv /\ TruthInv => UpdateInv')
<1>1. update \in Seq(UpdateRecord) /\ update[u].step = "rotate"
  BY DEF RemovePrevious, Helper, LockInv
<1>2. u \in Active /\ update[u] \in UpdateRecord
  BY <1>1, ActingUpdate DEF Acting, Helping
<1>3. PICK q \in UpdateRecord : update' = [update EXCEPT ![u] = q] /\ q.step = "move" /\ q.version = update[u].version /\ q.from = update[u].from
  BY <1>1, RecordStep DEF RemovePrevious, UpdateSteps, Helping
<1>4. StepIsWritten(u, q) /\ Acting(q) /\ install' = install /\ previous' = None /\ status' = status /\ server' = server
  BY <1>3 DEF RemovePrevious, StepIsWritten, Acting, Helping, LockInv, None
<1>5. PlaceInv => NothingIsLost' /\ Stands(q)' /\ ("pause" \notin Faulty => ServerStands(q)')
  BY <1>1, <1>2, <1>3, <1>4 DEF PlaceInv, NothingIsLost, Stands, ServerStands
<1>7. PlaceInv /\ TruthInv => UpdateInv'
  BY <1>1, <1>2, <1>4, <1>5, StepKeeps DEF UpdateInv, StepIsWritten
<1> QED BY <1>4, <1>7

LEMMA RotateKeeps ==
  ASSUME LockInv, NEW u \in DOMAIN update, Rotate(u)
  PROVE  \E q \in UpdateRecord :
           StepIsWritten(u, q) /\ ("rotate" \notin Faulty /\ PlaceInv /\ TruthInv => UpdateInv')
<1>1. update \in Seq(UpdateRecord) /\ update[u].step = "move"
  BY DEF Rotate, Helper, LockInv
<1>2. u \in Active /\ update[u] \in UpdateRecord
  BY <1>1, ActingUpdate DEF Acting, Helping
<1>3. PICK q : q = [update[u] EXCEPT !.step = "activate", !.rotated = TRUE]
  OBVIOUS
<1>4. /\ q \in UpdateRecord /\ q.step = "activate" /\ q.rotated = TRUE
      /\ q.version = update[u].version /\ q.from = update[u].from
  BY <1>2, <1>3 DEF UpdateRecord, UpdateSteps, Helping
<1>5. /\ update' = [update EXCEPT ![u] = q] /\ lock' = lock /\ lockOld' = lockOld /\ status' = status /\ server' = server
      /\ \/ install' = None /\ previous' = install
         \/ "rotate" \in Faulty /\ install' = install /\ previous' = previous
  <2>1. Moved.install = None /\ Moved.previous = install
    BY DEF Moved
  <2>2. update' = [update EXCEPT ![u] = q]
    BY <1>3 DEF Rotate
  <2> QED BY <2>1, <2>2 DEF Rotate, Fails
<1>6. StepIsWritten(u, q) /\ Acting(q)
  BY <1>4, <1>5 DEF StepIsWritten, Acting, Helping, LockInv, None
<1>7. "rotate" \notin Faulty /\ PlaceInv => NothingIsLost' /\ Stands(q)' /\ ("pause" \notin Faulty => ServerStands(q)')
  BY <1>1, <1>2, <1>4, <1>5 DEF PlaceInv, NothingIsLost, Stands, ServerStands
<1>8. "rotate" \notin Faulty /\ PlaceInv /\ TruthInv => UpdateInv'
  BY <1>1, <1>2, <1>4, <1>5, <1>6, <1>7, StepKeeps DEF UpdateInv, StepIsWritten
<1> QED BY <1>4, <1>6, <1>8

LEMMA ActivateKeeps ==
  ASSUME LockInv, NEW u \in DOMAIN update, Activate(u)
  PROVE  \E q \in UpdateRecord : StepIsWritten(u, q) /\ (PlaceInv /\ TruthInv => UpdateInv')
<1>1. update \in Seq(UpdateRecord) /\ update[u].step = "activate"
  BY DEF Activate, Helper, LockInv
<1>2. u \in Active /\ update[u] \in UpdateRecord
  BY <1>1, ActingUpdate DEF Acting, Helping
<1>3. PICK q : q = [update[u] EXCEPT !.step = "start", !.activated = TRUE]
  OBVIOUS
<1>4. /\ q \in UpdateRecord /\ q.step = "start" /\ q.activated = TRUE /\ q.rotated = update[u].rotated
      /\ q.version = update[u].version /\ q.from = update[u].from
  BY <1>2, <1>3 DEF UpdateRecord, UpdateSteps, Helping
<1>5. /\ update' = [update EXCEPT ![u] = q] /\ lock' = lock /\ lockOld' = lockOld /\ status' = status /\ server' = server
      /\ previous' = previous
      /\ \/ install' = IF install = None THEN update[u].version ELSE install
         \/ "activate" \in Faulty /\ install' = install
  BY <1>3 DEF Activate, Fails
<1>6. update[u].version \in Nat
  BY <1>2, UpdateAssumption DEF UpdateRecord
<1>7. StepIsWritten(u, q) /\ Acting(q)
  BY <1>4, <1>5, <1>6 DEF StepIsWritten, Acting, Helping, LockInv
<1>8. PlaceInv => NothingIsLost' /\ Stands(q)' /\ ("pause" \notin Faulty => ServerStands(q)')
  BY <1>1, <1>2, <1>4, <1>5 DEF PlaceInv, NothingIsLost, Stands, ServerStands
<1>9. PlaceInv /\ TruthInv => UpdateInv'
  BY <1>1, <1>2, <1>4, <1>5, <1>7, <1>8, StepKeeps DEF UpdateInv, StepIsWritten
<1> QED BY <1>4, <1>7, <1>9

LEMMA StartKeeps ==
  ASSUME LockInv, NEW u \in DOMAIN update, StartNew(u)
  PROVE  \E q \in UpdateRecord : StepIsWritten(u, q) /\ (PlaceInv /\ TruthInv => UpdateInv')
<1>1. update \in Seq(UpdateRecord) /\ update[u].step = "start"
  BY DEF StartNew, Helper, LockInv
<1>2. u \in Active /\ update[u] \in UpdateRecord
  BY <1>1, ActingUpdate DEF Acting, Helping
<1>3. PICK q \in UpdateRecord :
        /\ update' = [update EXCEPT ![u] = q] /\ q.step = "health" /\ q.version = update[u].version /\ q.from = update[u].from
        /\ q.rotated = update[u].rotated /\ q.activated = update[u].activated
  BY <1>1, RecordStep DEF StartNew, UpdateSteps, Helping
<1>4. StepIsWritten(u, q) /\ Acting(q) /\ install' = install /\ previous' = previous /\ status' = status
  BY <1>3 DEF StartNew, StepIsWritten, Acting, Helping, LockInv
<1>5. server' \in {server, None, install}
  BY DEF StartNew, Runs
<1>6. PlaceInv => NothingIsLost' /\ Stands(q)' /\ ("pause" \notin Faulty => ServerStands(q)')
  BY <1>1, <1>2, <1>3, <1>4, <1>5 DEF PlaceInv, NothingIsLost, Stands, ServerStands
<1>7. PlaceInv /\ TruthInv => UpdateInv'
  BY <1>1, <1>2, <1>4, <1>6, StepKeeps DEF UpdateInv, StepIsWritten
<1> QED BY <1>4, <1>7

LEMMA HealthKeeps ==
  ASSUME LockInv, NEW u \in DOMAIN update, CheckHealth(u)
  PROVE  \E q \in UpdateRecord : StepIsWritten(u, q) /\ (PlaceInv /\ TruthInv => UpdateInv')
<1>1. update \in Seq(UpdateRecord) /\ update[u].step = "health" /\ Acting(update[u])
  BY DEF CheckHealth, Helper, LockInv, Acting, Helping
<1>2. u \in Active /\ update[u] \in UpdateRecord
  BY <1>1, ActingUpdate
<1>3. /\ lockOld' = lockOld /\ install' = install /\ previous' = previous /\ server' = server
      /\ install' \in Nat /\ previous' \in Nat
  BY DEF CheckHealth, LockInv
<1>4. PlaceInv => NothingIsLost'
  BY <1>3 DEF PlaceInv, NothingIsLost
<1>5. CASE Ready(u) /\ Finish(u, "succeeded")
  <2>1. PICK q \in UpdateRecord :
          /\ StepIsWritten(u, q)
          /\ PlaceInv /\ TruthInv /\ NothingIsLost'
             /\ (Stoppable /\ update[u].version # update[u].from => install' = update[u].version)
             => UpdateInv'
    BY <1>1, <1>3, <1>5, FinishKeeps
  <2>2. update[u].version # None
    BY <1>2, UpdateAssumption DEF UpdateRecord, None
  <2>3. PlaceInv /\ Stoppable => install' = update[u].version
    <3>1. CASE "activate" \notin Faulty
      BY <1>1, <1>2, <1>3, <3>1 DEF PlaceInv, Stands
    <3>2. CASE "pause" \notin Faulty
      BY <1>1, <1>2, <1>3, <1>5, <2>2, <3>2 DEF PlaceInv, ServerStands, Ready
    <3> QED BY <3>1, <3>2 DEF Stoppable
  <2> QED BY <1>4, <2>1, <2>3
<1>6. CASE update' = At(u, "stopNew") /\ lock' = lock /\ status' = status
  <2>1. PICK q \in UpdateRecord :
          /\ update' = [update EXCEPT ![u] = q] /\ q.step = "stopNew" /\ q.version = update[u].version /\ q.from = update[u].from
          /\ q.rotated = update[u].rotated /\ q.activated = update[u].activated
    BY <1>1, <1>6, RecordStep DEF UpdateSteps, Helping
  <2>2. StepIsWritten(u, q) /\ Acting(q)
    BY <1>3, <1>6, <2>1 DEF StepIsWritten, Acting, Helping
  <2>3. PlaceInv => Stands(q)' /\ ServerStands(q)'
    BY <1>1, <1>2, <1>3, <2>1 DEF PlaceInv, Stands, ServerStands
  <2>4. PlaceInv /\ TruthInv => UpdateInv'
    BY <1>1, <1>2, <1>4, <1>6, <2>2, <2>3, StepKeeps DEF UpdateInv, StepIsWritten
  <2> QED BY <2>2, <2>4
<1> QED BY <1>5, <1>6 DEF CheckHealth

LEMMA StopKeeps ==
  ASSUME LockInv, NEW u \in DOMAIN update, StopNew(u)
  PROVE  \E q \in UpdateRecord : StepIsWritten(u, q) /\ (PlaceInv /\ TruthInv => UpdateInv')
<1>1. update \in Seq(UpdateRecord) /\ update[u].step = "stopNew"
  BY DEF StopNew, Helper, LockInv
<1>2. u \in Active /\ update[u] \in UpdateRecord
  BY <1>1, ActingUpdate DEF Acting, Helping
<1>3. \E q \in UpdateRecord :
        /\ update' = [update EXCEPT ![u] = q] /\ q.step = "removeNew" /\ q.version = update[u].version /\ q.from = update[u].from
        /\ q.rotated = update[u].rotated /\ q.activated = update[u].activated
  <2>1. CASE update' = At(u, "removeNew")
    BY <1>1, <2>1, RecordStep DEF UpdateSteps, Helping
  <2>2. CASE update' = [update EXCEPT ![u] = [@ EXCEPT !.step = "removeNew", !.failed = TRUE]]
    <3>1. PICK q : q = [update[u] EXCEPT !.step = "removeNew", !.failed = TRUE]
      OBVIOUS
    <3>2. /\ q \in UpdateRecord /\ q.step = "removeNew" /\ q.version = update[u].version /\ q.from = update[u].from
          /\ q.rotated = update[u].rotated /\ q.activated = update[u].activated
      BY <1>2, <3>1 DEF UpdateRecord, UpdateSteps, Helping
    <3>3. update' = [update EXCEPT ![u] = q]
      BY <2>2, <3>1
    <3> QED BY <3>2, <3>3
  <2> QED BY <2>1, <2>2 DEF StopNew
<1>4. PICK q \in UpdateRecord :
        /\ update' = [update EXCEPT ![u] = q] /\ q.step = "removeNew" /\ q.version = update[u].version /\ q.from = update[u].from
        /\ q.rotated = update[u].rotated /\ q.activated = update[u].activated
  BY <1>3
<1>5. StepIsWritten(u, q) /\ Acting(q) /\ install' = install /\ previous' = previous /\ status' = status
  BY <1>4 DEF StopNew, StepIsWritten, Acting, Helping, LockInv
<1>6. PlaceInv => NothingIsLost' /\ Stands(q)' /\ ServerStands(q)'
  BY <1>1, <1>2, <1>4, <1>5 DEF PlaceInv, NothingIsLost, Stands, ServerStands
<1>7. PlaceInv /\ TruthInv => UpdateInv'
  BY <1>1, <1>2, <1>5, <1>6, StepKeeps DEF UpdateInv, StepIsWritten
<1> QED BY <1>5, <1>7

LEMMA RemoveNewKeeps ==
  ASSUME LockInv, NEW u \in DOMAIN update, RemoveNew(u)
  PROVE  \E q \in UpdateRecord : StepIsWritten(u, q) /\ (PlaceInv /\ TruthInv => UpdateInv')
<1>1. update \in Seq(UpdateRecord) /\ update[u].step = "removeNew"
  BY DEF RemoveNew, Helper, LockInv
<1>2. u \in Active /\ update[u] \in UpdateRecord
  BY <1>1, ActingUpdate DEF Acting, Helping
<1>3. PICK q \in UpdateRecord :
        /\ update' = [update EXCEPT ![u] = q] /\ q.step = "putBack" /\ q.version = update[u].version /\ q.from = update[u].from
        /\ q.rotated = update[u].rotated
  BY <1>1, RecordStep DEF RemoveNew, UpdateSteps, Helping
<1>4. install' \in {None, install} /\ previous' = previous /\ status' = status
  BY DEF RemoveNew
<1>5. StepIsWritten(u, q) /\ Acting(q)
  BY <1>3, <1>4 DEF RemoveNew, StepIsWritten, Acting, Helping, LockInv, None
<1>6. PlaceInv => NothingIsLost' /\ Stands(q)' /\ ServerStands(q)'
  <2>1. PlaceInv => install' = None /\ previous = update[u].from /\ previous # None /\ update[u].rotated = TRUE
    BY <1>1, <1>2 DEF RemoveNew, PlaceInv, Stands
  <2> QED BY <1>3, <1>4, <2>1 DEF NothingIsLost, Stands, ServerStands
<1>7. PlaceInv /\ TruthInv => UpdateInv'
  BY <1>1, <1>2, <1>4, <1>5, <1>6, StepKeeps DEF UpdateInv, StepIsWritten
<1> QED BY <1>5, <1>7

LEMMA PutBackKeeps ==
  ASSUME LockInv, NEW u \in DOMAIN update, PutBack(u)
  PROVE  \E q \in UpdateRecord : StepIsWritten(u, q) /\ (PlaceInv /\ TruthInv => UpdateInv')
<1>1. update \in Seq(UpdateRecord) /\ update[u].step = "putBack" /\ Acting(update[u])
  BY DEF PutBack, Helper, LockInv, Acting, Helping
<1>2. u \in Active
  BY <1>1, ActingUpdate
<1>3. PICK state \in {"failed", "rolled_back"} : Finish(u, state)
  BY DEF PutBack
<1>4. lockOld' = lockOld /\ install' \in Nat /\ previous' \in Nat
  BY DEF PutBack, LockInv, None
<1>5. PlaceInv => NothingIsLost' /\ install' = update[u].from
  <2>1. PlaceInv => previous = update[u].from /\ previous # None /\ PutsBack(u)
    BY <1>1, <1>2 DEF PlaceInv, Stands, PutsBack
  <2>2. PutsBack(u) => install' = previous
    BY DEF PutBack
  <2> QED BY <2>1, <2>2 DEF NothingIsLost
<1>6. PICK q \in UpdateRecord :
        /\ StepIsWritten(u, q)
        /\ PlaceInv /\ TruthInv /\ NothingIsLost' /\ install' = update[u].from => UpdateInv'
  BY <1>1, <1>3, <1>4, FinishKeeps
<1> QED BY <1>5, <1>6

\* A request: nobody acts, whoever had the lock.
LEMMA AcquireKeeps ==
  ASSUME LockInv, NEW v \in Versions, NEW b \in Bundles, AcquireLock(v, b)
  PROVE  LockInv' /\ (PlaceInv /\ TruthInv => UpdateInv')
<1>1. PICK q : q = NewUpdate(v, b)
  OBVIOUS
<1>2. /\ q \in UpdateRecord /\ q.step = "staging" /\ q.from = install /\ Acting(q)
  BY <1>1 DEF NewUpdate, UpdateRecord, UpdateSteps, Staging, LockInv, Acting
<1>3. /\ update \in Seq(UpdateRecord) /\ update' = Append(update, q) /\ lock' = Len(update) + 1 /\ lockOld' = FALSE
      /\ install' = install /\ previous' = previous /\ server' = server /\ status' = status
  BY <1>1 DEF AcquireLock, LockInv
<1>4. /\ update' \in Seq(UpdateRecord) /\ DOMAIN update' = DOMAIN update \cup {Len(update) + 1}
      /\ update'[Len(update) + 1] = q
      /\ \A u \in DOMAIN update : update'[u] = update[u]
      /\ Len(update) + 1 \notin DOMAIN update
  BY <1>2, <1>3
<1>5. Active = {}
  <2>1. CASE lock = None
    <3>1. None \notin DOMAIN update
      BY <1>3 DEF None
    <3> QED BY <2>1, <3>1 DEF LockInv, Active
  <2>2. CASE lockOld = TRUE
    BY <2>2 DEF LockInv
  <2>3. lock = None \/ lockOld = TRUE
    BY DEF AcquireLock, MayLock
  <2> QED BY <2>1, <2>2, <2>3
<1>6. Active' = {Len(update) + 1}
  BY <1>2, <1>4, <1>5 DEF Active, Acting
<1>7. LockInv'
  BY <1>3, <1>4, <1>6 DEF LockInv
<1>8. PlaceInv => PlaceInv'
  BY <1>2, <1>3, <1>4, <1>6 DEF PlaceInv, NothingIsLost, Stands, ServerStands
<1>9. TruthInv => TruthInv'
  BY <1>2, <1>3, <1>4, <1>6 DEF TruthInv
<1> QED BY <1>7, <1>8, <1>9 DEF UpdateInv

LEMMA StepsKeep ==
  ASSUME LockInv, NEW u \in DOMAIN update, Step(u)
  PROVE  \E q \in UpdateRecord :
           StepIsWritten(u, q) /\ ("rotate" \notin Faulty /\ PlaceInv /\ TruthInv => UpdateInv')
<1>1. CASE StageBundle(u)
  BY <1>1, StageKeeps
<1>2. CASE Launch(u)
  BY <1>2, LaunchKeeps
<1>3. CASE VerifyStaged(u)
  BY <1>3, VerifyKeeps
<1>4. CASE Pause(u)
  BY <1>4, PauseKeeps
<1>5. CASE RemovePrevious(u)
  BY <1>5, RemovePreviousKeeps
<1>6. CASE Rotate(u)
  BY <1>6, RotateKeeps
<1>7. CASE Activate(u)
  BY <1>7, ActivateKeeps
<1>8. CASE StartNew(u)
  BY <1>8, StartKeeps
<1>9. CASE CheckHealth(u)
  BY <1>9, HealthKeeps
<1>10. CASE StopNew(u)
  BY <1>10, StopKeeps
<1>11. CASE RemoveNew(u)
  BY <1>11, RemoveNewKeeps
<1>12. CASE PutBack(u)
  BY <1>12, PutBackKeeps
<1> QED BY <1>1, <1>2, <1>3, <1>4, <1>5, <1>6, <1>7, <1>8, <1>9, <1>10, <1>11, <1>12 DEF Step

LEMMA OnlyActiveStep ==
  ASSUME NEW u \in DOMAIN update, Step(u)
  PROVE  u \in Active
<1>1. update[u].step \in Staging \cup Helping
  BY DEF Step, StageBundle, Launch, VerifyStaged, Pause, RemovePrevious, Rotate, Activate, StartNew, CheckHealth,
         StopNew, RemoveNew, PutBack, Helper, Staging, Helping
<1> QED BY <1>1 DEF Active

\* Updates that are killed no longer act; nothing else of them changes.
LEMMA EndedUpdates ==
  ASSUME LockInv, NEW steps, update' = EndedIn(steps)
  PROVE  /\ update' \in Seq(UpdateRecord) /\ DOMAIN update' = DOMAIN update
         /\ \A u \in DOMAIN update : update'[u].version = update[u].version /\ update'[u].from = update[u].from
         /\ \A u \in Active' : u \in Active /\ update'[u] = update[u] /\ update[u].step \notin steps
<1>1. update \in Seq(UpdateRecord)
  BY DEF LockInv
<1>2. ASSUME NEW u \in DOMAIN update
      PROVE  /\ update'[u] \in UpdateRecord
             /\ update'[u].version = update[u].version /\ update'[u].from = update[u].from
             /\ update[u].step \in steps => update'[u].step = "killed"
             /\ update[u].step \notin steps => update'[u] = update[u]
  <2>1. update[u] \in UpdateRecord
    BY <1>1
  <2>2. PICK q : q = [update[u] EXCEPT !.step = "killed"]
    OBVIOUS
  <2>3. q \in UpdateRecord /\ q.step = "killed" /\ q.version = update[u].version /\ q.from = update[u].from
    BY <2>1, <2>2 DEF UpdateRecord, UpdateSteps
  <2>4. update'[u] = IF update[u].step \in steps THEN q ELSE update[u]
    BY <2>2 DEF EndedIn
  <2> QED BY <2>1, <2>3, <2>4
<1>3. DOMAIN update' = DOMAIN update /\ DOMAIN update = 1..Len(update) /\ Len(update) \in Nat
  BY <1>1 DEF EndedIn
<1>4. update' = [u \in 1..Len(update) |-> update'[u]]
  BY <1>3 DEF EndedIn
<1>5. update' \in Seq(UpdateRecord)
  BY <1>2, <1>3, <1>4
<1>6. ASSUME NEW u \in Active'
      PROVE  u \in Active /\ update'[u] = update[u] /\ update[u].step \notin steps
  <2>1. u \in DOMAIN update /\ update'[u].step \in Staging \cup Helping
    BY <1>3 DEF Active
  <2>2. update'[u].step # "killed"
    BY <2>1 DEF Staging, Helping
  <2> QED BY <1>2, <2>1, <2>2 DEF Active
<1> QED BY <1>2, <1>3, <1>5, <1>6

LEMMA PowerCutKeeps ==
  ASSUME LockInv, PowerCut
  PROVE  LockInv' /\ (PlaceInv /\ TruthInv => UpdateInv')
<1>1. /\ update' = EndedIn(Staging \cup Helping)
      /\ install' = install /\ previous' = previous /\ lock' = lock /\ lockOld' = lockOld /\ status' = status
  BY DEF PowerCut
<1>2. /\ update' \in Seq(UpdateRecord) /\ DOMAIN update' = DOMAIN update
      /\ \A u \in DOMAIN update : update'[u].version = update[u].version /\ update'[u].from = update[u].from
  BY <1>1, EndedUpdates
<1>3. \A u \in Active' : u \in Active /\ update[u].step \notin Staging \cup Helping
  BY <1>1, EndedUpdates
<1>4. Active' = {}
  BY <1>3 DEF Active
<1>5. LockInv'
  BY <1>1, <1>2, <1>4 DEF LockInv
<1>6. PlaceInv => PlaceInv'
  BY <1>1, <1>4 DEF PlaceInv, NothingIsLost
<1>7. TruthInv => TruthInv'
  BY <1>1, <1>2, <1>4 DEF TruthInv
<1> QED BY <1>5, <1>6, <1>7 DEF UpdateInv

LEMMA ServerCrashKeeps ==
  ASSUME LockInv, ServerCrash
  PROVE  LockInv' /\ (PlaceInv /\ TruthInv => UpdateInv')
<1>1. /\ update' = EndedIn(Staging) /\ server' = None
      /\ install' = install /\ previous' = previous /\ lock' = lock /\ lockOld' = lockOld /\ status' = status
  BY DEF ServerCrash
<1>2. /\ update' \in Seq(UpdateRecord) /\ DOMAIN update' = DOMAIN update
      /\ \A u \in DOMAIN update : update'[u].version = update[u].version /\ update'[u].from = update[u].from
      /\ \A u \in Active' : u \in Active /\ update'[u] = update[u]
  BY <1>1, EndedUpdates
<1>3. LockInv'
  BY <1>1, <1>2 DEF LockInv
<1>4. PlaceInv => PlaceInv'
  BY <1>1, <1>2 DEF PlaceInv, NothingIsLost, Stands, ServerStands
<1>5. TruthInv => TruthInv'
  BY <1>1, <1>2 DEF TruthInv
<1> QED BY <1>3, <1>4, <1>5 DEF UpdateInv

LEMMA IdleKeeps ==
  ASSUME LockInv, StartServer \/ HourPasses \/ UNCHANGED updateVars
  PROVE  LockInv' /\ (PlaceInv /\ TruthInv => UpdateInv')
<1>1. /\ update' = update /\ install' = install /\ previous' = previous /\ lock' = lock /\ status' = status
      /\ Active' = Active
      /\ Active = {} \/ server' = server
      /\ lockOld' = lockOld \/ lock \notin Active
  BY DEF StartServer, HourPasses, updateVars, Active
<1>2. LockInv'
  BY <1>1 DEF LockInv
<1>3. PlaceInv => PlaceInv'
  BY <1>1 DEF PlaceInv, NothingIsLost, Stands, ServerStands
<1>4. TruthInv => TruthInv'
  BY <1>1 DEF TruthInv
<1> QED BY <1>2, <1>3, <1>4 DEF UpdateInv

LEMMA UpdateStarts ==
  ASSUME UpdateInit
  PROVE  UpdateInv
<1>1. update = <<>> /\ Active = {}
  BY DEF UpdateInit, Active
<1>2. LockInv
  BY <1>1 DEF UpdateInit, LockInv, Shipped, None
<1>3. PlaceInv
  BY <1>1 DEF UpdateInit, PlaceInv, NothingIsLost, Shipped, None
<1>4. TruthInv
  BY DEF UpdateInit, TruthInv
<1> QED BY <1>2, <1>3, <1>4 DEF UpdateInv

LEMMA UpdateKeeps ==
  ASSUME LockInv, [UpdateNext]_updateVars
  PROVE  LockInv' /\ ("rotate" \notin Faulty /\ PlaceInv /\ TruthInv => UpdateInv')
<1>1. CASE ApplySystemUpdate \/ ApplyLatestSystemUpdate
  BY <1>1, AcquireKeeps DEF ApplySystemUpdate, ApplyLatestSystemUpdate
<1>2. ASSUME NEW u \in DOMAIN update, Step(u)
      PROVE  LockInv' /\ ("rotate" \notin Faulty /\ PlaceInv /\ TruthInv => UpdateInv')
  <2>1. PICK q \in UpdateRecord :
          StepIsWritten(u, q) /\ ("rotate" \notin Faulty /\ PlaceInv /\ TruthInv => UpdateInv')
    BY <1>2, StepsKeep
  <2>2. LockInv'
    BY <1>2, <2>1, OnlyActiveStep, LockKeeps DEF StepIsWritten
  <2> QED BY <2>1, <2>2
<1>3. CASE PowerCut
  BY <1>3, PowerCutKeeps
<1>4. CASE ServerCrash
  BY <1>4, ServerCrashKeeps
<1>5. CASE StartServer \/ HourPasses \/ UNCHANGED updateVars
  BY <1>5, IdleKeeps
<1> QED BY <1>1, <1>2, <1>3, <1>4, <1>5 DEF UpdateNext

\* Only one update is staged or applied at a time, over crashes and stale locks, whatever fails:
\* update.lock belongs to whoever acts (acquireLock, and the trap of apply-update.sh).
THEOREM OneUpdateAtATimeHolds == UpdateSpec => []OneUpdateAtATime
<1>1. UpdateInit => LockInv
  BY UpdateStarts DEF UpdateInv
<1>2. LockInv /\ [UpdateNext]_updateVars => LockInv'
  BY UpdateKeeps
<1>3. LockInv => OneUpdateAtATime
  <2>1. ASSUME LockInv
        PROVE  Cardinality(Active) <= 1
    <3>1. CASE Active = {}
      BY <3>1, FS_EmptySet
    <3>2. CASE Active # {}
      <4>1. Active = {lock}
        BY <2>1, <3>2 DEF LockInv
      <4>2. Cardinality({lock}) = 1
        BY FS_Singleton
      <4> QED BY <4>1, <4>2
    <3> QED BY <3>1, <3>2
  <2> QED BY <2>1 DEF OneUpdateAtATime
<1> QED BY <1>1, <1>2, <1>3, PTL DEF UpdateSpec

\* Wherever the helper or the machine stops, one of the two directories holds an installation,
\* unless the installation cannot be moved away ("mv" of apply_update).
THEOREM NothingIsLostHolds ==
  ASSUME "rotate" \notin Faulty
  PROVE  UpdateSpec => []NothingIsLost
<1>1. UpdateInit => UpdateInv
  BY UpdateStarts
<1>2. UpdateInv /\ [UpdateNext]_updateVars => UpdateInv'
  BY UpdateKeeps DEF UpdateInv
<1>3. UpdateInv => NothingIsLost
  BY DEF UpdateInv, PlaceInv
<1> QED BY <1>1, <1>2, <1>3, PTL DEF UpdateSpec

\* The status tells the truth of the last update, when pausing or activating does not fail.
THEOREM StatusIsTruthfulHolds ==
  ASSUME "rotate" \notin Faulty, "pause" \notin Faulty \/ "activate" \notin Faulty
  PROVE  UpdateSpec => []StatusIsTruthful
<1>1. UpdateInit => UpdateInv
  BY UpdateStarts
<1>2. UpdateInv /\ [UpdateNext]_updateVars => UpdateInv'
  BY UpdateKeeps DEF UpdateInv
<1>3. UpdateInv => StatusIsTruthful
  BY DEF UpdateInv, TruthInv, Told, Stoppable, StatusIsTruthful
<1> QED BY <1>1, <1>2, <1>3, PTL DEF UpdateSpec

-----------------------------------------------------------------------------
(***************************************************************************)
(* LogFollower.  What was given and what is pending are the characters of  *)
(* what was read, through flattening, which respects concatenation.        *)
(***************************************************************************)
\* Least elements, and induction as a statement about sets.
LEMMA LeastNatural ==
  ASSUME NEW S \in SUBSET Nat, S # {}
  PROVE  \E m \in S : \A n \in S : m <= n
<1>1. \A n, m \in Nat : n < m => <<n, m>> \in OpToRel(<, Nat)
  <2> TAKE n, m \in Nat
  <2> HAVE n < m
  <2>1. <<n, m>> \in Nat \X Nat /\ <<n, m>>[1] < <<n, m>>[2]
    OBVIOUS
  <2> QED BY <2>1, Zenon DEF OpToRel
<1>2. PICK m \in S : \A n \in S : <<n, m>> \notin OpToRel(<, Nat)
  BY NatLessThanWellFounded, WFMin
<1>3. \A n \in S : ~(n < m)
  BY <1>1, <1>2, Zenon
<1>4. \A a, b \in Nat : ~(a < b) => b <= a
  OBVIOUS
<1> QED BY <1>2, <1>3, <1>4, Zenon

LEMMA Upwards ==
  ASSUME NEW S, \A n \in Nat : (\A m \in 0 .. n - 1 : m \in S) => n \in S
  PROVE  \A n \in Nat : n \in S
<1>1. SUFFICES ASSUME Nat \ S # {} PROVE FALSE
  OBVIOUS
<1>2. PICK m \in Nat \ S : \A n \in Nat \ S : m <= n
  BY <1>1, LeastNatural
<1>3. \A k \in 0 .. m - 1 : k \in S
  BY <1>2
<1> QED BY <1>2, <1>3

\* Concatenation by a name of its own, to regroup it.
Joined(a, b) == a \o b

LEMMA JoinedIsAssociative ==
  ASSUME NEW T, NEW first \in Seq(T), NEW second \in Seq(T), NEW third \in Seq(T)
  PROVE  Joined(Joined(first, second), third) = Joined(first, Joined(second, third))
<1>1. (first \o second) \o third = first \o (second \o third)
  BY ConcatAssociative
<1> QED BY <1>1, Zenon DEF Joined

\* The flattened beginnings of a sequence of sequences.
AreFlat(g, s) == g[0] = <<>> /\ \A i \in 1..Len(s) : g[i] = g[i - 1] \o s[i]

LEMMA FlattenSeqIs ==
  ASSUME NEW T, NEW s \in Seq(Seq(T))
  PROVE  \E g : /\ AreFlat(g, s) /\ g[Len(s)] = FlattenSeq(s)
                /\ \A i \in 0..Len(s) : g[i] \in Seq(T)
<1> DEFINE n == Len(s)
           F(g, m) == [i \in 1..m |-> IF i = 1 THEN s[i] ELSE g[i - 1] \o s[i]]
           S == {m \in Nat : \E g : g = F(g, m)}
<1>0. n \in Nat /\ \A i \in 1..n : s[i] \in Seq(T)
  OBVIOUS
<1>1. ASSUME NEW m \in Nat, \A k \in 0 .. m - 1 : k \in S PROVE m \in S
  <2>1. PICK g : m # 0 => g = F(g, m - 1)
    <3>1. CASE m = 0
      BY <3>1
    <3>2. CASE m # 0
      <4>1. m - 1 \in 0 .. m - 1
        BY <3>2
      <4> QED BY <1>1, <4>1
    <3> QED BY <3>1, <3>2
  <2>2. PICK h : h = [i \in 1..m |-> IF i = m THEN (IF m = 1 THEN s[m] ELSE g[m - 1] \o s[m]) ELSE g[i]]
    OBVIOUS
  <2>3. \A i \in 1 .. m - 1 : i \in 1..m /\ i # m
    OBVIOUS
  <2>4. \A i \in 1 .. m - 1 : h[i] = g[i]
    BY <2>2, <2>3, Zenon
  <2>5. ASSUME NEW i \in 1..m PROVE h[i] = IF i = 1 THEN s[i] ELSE h[i - 1] \o s[i]
    <3>1. i = 1 \/ i - 1 \in 1 .. m - 1
      OBVIOUS
    <3>2. CASE i = m
      BY <2>2, <2>4, <3>1, <3>2, Zenon
    <3>3. CASE i # m
      <4>1. i \in 1 .. m - 1 /\ m # 0
        BY <3>3
      <4>2. g[i] = IF i = 1 THEN s[i] ELSE g[i - 1] \o s[i]
        BY <2>1, <4>1, Zenon
      <4> QED BY <2>4, <3>1, <4>1, <4>2, Zenon
    <3> QED BY <3>2, <3>3
  <2>6. h = [i \in 1..m |-> h[i]]
    BY <2>2, Zenon
  <2>7. h = F(h, m)
    BY <2>5, <2>6, Zenon
  <2> QED BY <2>7
<1> HIDE DEF S
<1>2. n \in S
  BY <1>0, <1>1, Upwards
<1>3. PICK flat : flat = CHOOSE g : g = F(g, n)
  OBVIOUS
<1>4. flat = F(flat, n)
  BY <1>2, <1>3, Zenon DEF S
<1>5. \A i \in 1..n : flat[i] = IF i = 1 THEN s[i] ELSE flat[i - 1] \o s[i]
  BY <1>4, Zenon
<1>6. FlattenSeq(s) = IF n = 0 THEN s ELSE flat[n]
  <2>1. FlattenSeq(s) = IF n = 0 THEN s ELSE (CHOOSE g : g = F(g, n))[n]
    BY DEF FlattenSeq
  <2> QED BY <1>3, <2>1, Zenon
<1> HIDE DEF F
<1>7. PICK g : g = [i \in 0..n |-> IF i = 0 THEN <<>> ELSE flat[i]]
  OBVIOUS
<1> DEFINE Flat(i) == g[i] \in Seq(T) /\ (i # 0 => g[i] = g[i - 1] \o s[i])
           R == {i \in Nat : i <= n => Flat(i)}
<1> HIDE DEF Flat
<1>8. g[0] = <<>> /\ <<>> \in Seq(T)
  BY <1>0, <1>7
<1>9. ASSUME NEW m \in Nat, \A k \in 0 .. m - 1 : k \in R PROVE m \in R
  <2>1. CASE m = 0
    <3>1. Flat(m)
      BY <1>8, <2>1 DEF Flat
    <3> QED BY <3>1
  <2>2. CASE m # 0 /\ m <= n
    <3>1. m - 1 \in 0 .. m - 1 /\ m - 1 \in 0..n /\ m \in 1..n /\ m \in 0..n /\ m - 1 <= n
      BY <1>0, <2>2
    <3>2. Flat(m - 1)
      BY <1>9, <3>1
    <3>3. g[m - 1] \in Seq(T) /\ s[m] \in Seq(T)
      BY <1>0, <3>1, <3>2, Zenon DEF Flat
    <3>4. g[m] = flat[m] /\ (m # 1 => g[m - 1] = flat[m - 1])
      BY <1>7, <3>1
    <3>5. g[m] = g[m - 1] \o s[m]
      <4>1. CASE m = 1
        <5>1. g[m - 1] = <<>> /\ g[m] = s[m]
          BY <1>5, <1>8, <3>1, <3>4, <4>1
        <5> QED BY <3>3, <5>1, ConcatEmptySeq
      <4>2. CASE m # 1
        BY <1>5, <3>1, <3>4, <4>2, Zenon
      <4> QED BY <4>1, <4>2
    <3>6. g[m - 1] \o s[m] \in Seq(T)
      BY <3>3, ConcatProperties
    <3>7. Flat(m)
      BY <3>5, <3>6, Zenon DEF Flat
    <3> QED BY <3>7
  <2>3. CASE ~(m <= n)
    BY <2>3
  <2> QED BY <2>1, <2>2, <2>3
<1>10. \A i \in Nat : i <= n => Flat(i)
  <2>1. \A i \in Nat : i \in R
    <3> HIDE DEF R
    <3> QED BY <1>9, Upwards
  <2> QED BY <2>1
<1>11. AreFlat(g, s)
  <2>1. ASSUME NEW i \in 1..n PROVE g[i] = g[i - 1] \o s[i]
    <3>1. i \in Nat /\ i # 0 /\ i <= n
      BY <1>0
    <3> QED BY <1>10, <3>1, Zenon DEF Flat
  <2> QED BY <1>8, <2>1 DEF AreFlat
<1>12. g[n] = FlattenSeq(s)
  <2>1. CASE n = 0
    BY <1>6, <1>8, <2>1
  <2>2. CASE n # 0
    BY <1>0, <1>6, <1>7, <2>2
  <2> QED BY <2>1, <2>2
<1>13. \A i \in 0..n : g[i] \in Seq(T)
  <2>1. \A i \in 0..n : i \in Nat /\ i <= n
    BY <1>0
  <2> QED BY <1>10, <2>1, Zenon DEF Flat
<1> QED BY <1>11, <1>12, <1>13

LEMMA FlattenSeqOfConcat ==
  ASSUME NEW T, NEW a \in Seq(Seq(T)), NEW b \in Seq(Seq(T))
  PROVE  FlattenSeq(a \o b) = FlattenSeq(a) \o FlattenSeq(b)
<1>1. PICK c \in Seq(Seq(T)) : /\ c = a \o b /\ Len(c) = Len(a) + Len(b)
                               /\ \A i \in 1..Len(c) : c[i] = IF i <= Len(a) THEN a[i] ELSE b[i - Len(a)]
  <2>1. /\ a \o b \in Seq(Seq(T)) /\ Len(a \o b) = Len(a) + Len(b)
        /\ \A i \in 1 .. Len(a) + Len(b) : (a \o b)[i] = IF i <= Len(a) THEN a[i] ELSE b[i - Len(a)]
    BY ConcatProperties
  <2> QED BY <2>1, Zenon
<1>2. PICK ga : /\ AreFlat(ga, a) /\ ga[Len(a)] = FlattenSeq(a)
                /\ \A i \in 0..Len(a) : ga[i] \in Seq(T)
  BY FlattenSeqIs
<1>3. PICK gb : /\ AreFlat(gb, b) /\ gb[Len(b)] = FlattenSeq(b)
                /\ \A i \in 0..Len(b) : gb[i] \in Seq(T)
  BY FlattenSeqIs
<1>4. PICK gc : /\ AreFlat(gc, c) /\ gc[Len(c)] = FlattenSeq(c)
                /\ \A i \in 0..Len(c) : gc[i] \in Seq(T)
  BY FlattenSeqIs
<1>5. Len(a) \in Nat /\ Len(b) \in Nat
  OBVIOUS
<1> DEFINE S == {i \in Nat : i <= Len(a) => gc[i] = ga[i]}
           R == {i \in Nat : i <= Len(b) => gc[Len(a) + i] = ga[Len(a)] \o gb[i]}
<1>6. ASSUME NEW m \in Nat, \A k \in 0 .. m - 1 : k \in S PROVE m \in S
  <2>1. CASE m = 0
    BY <1>2, <1>4, <2>1 DEF AreFlat
  <2>2. CASE m # 0 /\ m <= Len(a)
    <3>1. m - 1 \in 0 .. m - 1 /\ m \in 1..Len(a) /\ m \in 1..Len(c) /\ m - 1 <= Len(a)
      BY <1>1, <1>5, <2>2
    <3>2. gc[m - 1] = ga[m - 1] /\ c[m] = a[m]
      BY <1>1, <1>6, <2>2, <3>1
    <3> QED BY <1>2, <1>4, <3>1, <3>2, Zenon DEF AreFlat
  <2>3. CASE ~(m <= Len(a))
    BY <2>3
  <2> QED BY <2>1, <2>2, <2>3
<1>7. \A i \in Nat : i \in S
  <2> HIDE DEF S
  <2> QED BY <1>6, Upwards
<1>8. ASSUME NEW m \in Nat, \A k \in 0 .. m - 1 : k \in R PROVE m \in R
  <2>1. CASE m = 0
    <3>1. gc[Len(a)] = ga[Len(a)] /\ Len(a) + m = Len(a)
      BY <1>5, <1>7, <2>1
    <3>2. gb[m] = <<>> /\ ga[Len(a)] \in Seq(T)
      BY <1>2, <1>3, <1>5, <2>1 DEF AreFlat
    <3>3. ga[Len(a)] \o <<>> = ga[Len(a)]
      BY <3>2, ConcatEmptySeq
    <3> QED BY <3>1, <3>2, <3>3
  <2>2. CASE m # 0 /\ m <= Len(b)
    <3>1. /\ m - 1 \in 0 .. m - 1 /\ m \in 1..Len(b) /\ Len(a) + m \in 1..Len(c) /\ m - 1 <= Len(b)
          /\ (Len(a) + m) - 1 = Len(a) + (m - 1) /\ (Len(a) + m) - Len(a) = m /\ ~(Len(a) + m <= Len(a))
          /\ m - 1 \in 0..Len(b) /\ Len(a) \in 0..Len(a)
      BY <1>1, <1>5, <2>2
    <3>2. gc[(Len(a) + m) - 1] = ga[Len(a)] \o gb[m - 1]
      BY <1>8, <2>2, <3>1
    <3>3. c[Len(a) + m] = b[m]
      BY <1>1, <3>1
    <3>10. gc[Len(a) + m] = gc[(Len(a) + m) - 1] \o c[Len(a) + m]
      <4>1. \A i \in 1..Len(c) : gc[i] = gc[i - 1] \o c[i]
        BY <1>4, Zenon DEF AreFlat
      <4>2. PICK j \in 1..Len(c) : j = Len(a) + m
        BY <3>1, Zenon
      <4>3. gc[j] = gc[j - 1] \o c[j]
        BY <4>1
      <4> QED BY <4>2, <4>3, Zenon
    <3>4. gc[Len(a) + m] = (ga[Len(a)] \o gb[m - 1]) \o b[m]
      BY <3>2, <3>3, <3>10, Zenon
    <3>5. ga[Len(a)] \in Seq(T) /\ gb[m - 1] \in Seq(T) /\ b[m] \in Seq(T)
      BY <1>2, <1>3, <3>1, ElementOfSeq
    <3>6. PICK x, y, z : x = ga[Len(a)] /\ y = gb[m - 1] /\ z = b[m]
      OBVIOUS
    <3>8. x \in Seq(T) /\ y \in Seq(T) /\ z \in Seq(T)
      BY <3>5, <3>6
    <3>9. (x \o y) \o z = x \o (y \o z)
      <4>1. Joined(Joined(x, y), z) = Joined(x, Joined(y, z))
        BY <3>8, JoinedIsAssociative
      <4> QED BY <4>1, Zenon DEF Joined
    <3>7. gb[m] = gb[m - 1] \o b[m]
      BY <1>3, <3>1, Zenon DEF AreFlat
    <3> QED BY <3>4, <3>6, <3>7, <3>9
  <2>3. CASE ~(m <= Len(b))
    BY <2>3
  <2> QED BY <2>1, <2>2, <2>3
<1>9. \A i \in Nat : i \in R
  <2> HIDE DEF R
  <2> QED BY <1>8, Upwards
<1>10. gc[Len(c)] = ga[Len(a)] \o gb[Len(b)]
  <2>1. Len(b) \in R
    BY <1>5, <1>9
  <2>2. Len(b) <= Len(b) /\ Len(c) = Len(a) + Len(b)
    BY <1>1, <1>5
  <2>3. gc[Len(a) + Len(b)] = ga[Len(a)] \o gb[Len(b)]
    BY <2>1, <2>2, Zenon
  <2> QED BY <2>2, <2>3, Zenon
<1> QED BY <1>1, <1>2, <1>3, <1>4, <1>10

LEMMA FlattenSeqOfOne ==
  ASSUME NEW T, NEW x \in Seq(T)
  PROVE  FlattenSeq(<<x>>) = x /\ FlattenSeq(<<>>) = <<>>
<1>1. ASSUME NEW s \in Seq(Seq(T)), s = <<x>> PROVE FlattenSeq(s) = x
  <2>1. Len(s) = 1 /\ s[1] = x /\ 1 \in 1..Len(s) /\ 1 - 1 = 0
    BY <1>1
  <2>2. PICK g : AreFlat(g, s) /\ g[1] = FlattenSeq(s)
    BY <2>1, FlattenSeqIs
  <2>3. g[1] = <<>> \o x
    BY <2>1, <2>2, Zenon DEF AreFlat
  <2> QED BY <2>2, <2>3, ConcatEmptySeq
<1>2. ASSUME NEW s \in Seq(Seq(T)), s = <<>> PROVE FlattenSeq(s) = <<>>
  <2>1. Len(s) = 0
    BY <1>2
  <2>2. PICK g : AreFlat(g, s) /\ g[0] = FlattenSeq(s)
    BY <2>1, FlattenSeqIs
  <2> QED BY <2>2 DEF AreFlat
<1>3. <<x>> \in Seq(Seq(T)) /\ <<>> \in Seq(Seq(T))
  OBVIOUS
<1> QED BY <1>1, <1>2, <1>3

-----------------------------------------------------------------------------
\* Characters of a text, one by one.
PerCharacter(text) == [i \in DOMAIN text |-> IF text[i] = NewLine THEN <<>> ELSE <<text[i]>>]

NoNewLine(text) == \A i \in DOMAIN text : text[i] # NewLine

\* Neighbours were written one after the other.
Steady(text) ==
    \A i \in 1 .. Len(text) - 1 :
        text[i] # NewLine /\ text[i + 1] # NewLine => text[i + 1] = text[i] + 1

Connected(line) == \A i \in 1 .. Len(line) - 1 : line[i + 1] = line[i] + 1

AllConnected(lines) == \A k \in 1..Len(lines) : Connected(lines[k])

LEMMA PerCharacterIs ==
  ASSUME NEW text \in Seq(Nat)
  PROVE  /\ PerCharacter(text) \in Seq(Seq(Nat)) /\ Len(PerCharacter(text)) = Len(text)
         /\ \A i \in 1..Len(text) : PerCharacter(text)[i] = IF text[i] = NewLine THEN <<>> ELSE <<text[i]>>
         /\ Characters(text) = FlattenSeq(PerCharacter(text))
<1>1. DOMAIN text = 1..Len(text) /\ Len(text) \in Nat /\ \A i \in 1..Len(text) : text[i] \in Nat
  OBVIOUS
<1>2. \A x \in Nat : <<x>> \in Seq(Nat) /\ <<>> \in Seq(Nat)
  OBVIOUS
<1>3. PICK c : c = [i \in 1..Len(text) |-> IF text[i] = NewLine THEN <<>> ELSE <<text[i]>>]
  OBVIOUS
<1>4. c \in [1..Len(text) -> Seq(Nat)]
  BY <1>1, <1>2, <1>3, Zenon
<1>5. c \in Seq(Seq(Nat)) /\ Len(c) = Len(text)
  BY <1>1, <1>4
<1>6. \A i \in 1..Len(text) : c[i] = IF text[i] = NewLine THEN <<>> ELSE <<text[i]>>
  BY <1>3, Zenon
<1>7. PerCharacter(text) = c
  BY <1>1, <1>3, Zenon DEF PerCharacter
<1>8. Characters(text) = FlattenSeq(PerCharacter(text))
  BY Zenon DEF Characters, PerCharacter
<1> QED BY <1>5, <1>6, <1>7, <1>8, Zenon

LEMMA CharactersAreFlat ==
  ASSUME NEW text \in Seq(Nat)
  PROVE  \E g : /\ g[0] = <<>> /\ g[Len(text)] = Characters(text)
                /\ \A i \in 0..Len(text) : g[i] \in Seq(Nat)
                /\ \A i \in 1..Len(text) : g[i] = IF text[i] = NewLine THEN g[i - 1] ELSE Append(g[i - 1], text[i])
<1>1. PICK c \in Seq(Seq(Nat)) : c = PerCharacter(text)
  BY PerCharacterIs
<1>2. /\ Len(c) = Len(text) /\ Characters(text) = FlattenSeq(c)
      /\ \A i \in 1..Len(text) : c[i] = IF text[i] = NewLine THEN <<>> ELSE <<text[i]>>
  BY <1>1, PerCharacterIs, Zenon
<1>3. PICK g : /\ AreFlat(g, c) /\ g[Len(c)] = FlattenSeq(c)
               /\ \A i \in 0..Len(c) : g[i] \in Seq(Nat)
  BY FlattenSeqIs
<1>4. ASSUME NEW i \in 1..Len(text) PROVE g[i] = IF text[i] = NewLine THEN g[i - 1] ELSE Append(g[i - 1], text[i])
  <2>1. i - 1 \in 0..Len(c) /\ text[i] \in Nat
    BY <1>2
  <2>2. g[i] = g[i - 1] \o c[i] /\ g[i - 1] \in Seq(Nat)
    BY <1>2, <1>3, <2>1, Zenon DEF AreFlat
  <2>3. \A s \in Seq(Nat), x \in Nat : s \o <<>> = s /\ s \o <<x>> = Append(s, x)
    OBVIOUS
  <2> QED BY <1>2, <2>1, <2>2, <2>3, Zenon
<1>5. g[0] = <<>>
  BY <1>3, Zenon DEF AreFlat
<1> QED BY <1>2, <1>3, <1>4, <1>5, Zenon

LEMMA CharactersTyped ==
  ASSUME NEW text \in Seq(Nat)
  PROVE  Characters(text) \in Seq(Nat)
<1>1. Len(text) \in 0..Len(text)
  OBVIOUS
<1> QED BY <1>1, CharactersAreFlat, Zenon

LEMMA CharactersOfConcat ==
  ASSUME NEW a \in Seq(Nat), NEW b \in Seq(Nat)
  PROVE  Characters(a \o b) = Characters(a) \o Characters(b)
<1>1. PICK c : c = a \o b
  OBVIOUS
<1>2. /\ c \in Seq(Nat) /\ Len(c) = Len(a) + Len(b)
      /\ \A i \in 1 .. Len(a) + Len(b) : c[i] = IF i <= Len(a) THEN a[i] ELSE b[i - Len(a)]
  BY <1>1, ConcatProperties
<1>3. PICK x, y, z : x = PerCharacter(a) /\ y = PerCharacter(b) /\ z = PerCharacter(c)
  OBVIOUS
<1>4. /\ x \in Seq(Seq(Nat)) /\ Len(x) = Len(a) /\ Characters(a) = FlattenSeq(x)
      /\ \A i \in 1..Len(a) : x[i] = IF a[i] = NewLine THEN <<>> ELSE <<a[i]>>
  BY <1>3, PerCharacterIs, Zenon
<1>5. /\ y \in Seq(Seq(Nat)) /\ Len(y) = Len(b) /\ Characters(b) = FlattenSeq(y)
      /\ \A i \in 1..Len(b) : y[i] = IF b[i] = NewLine THEN <<>> ELSE <<b[i]>>
  BY <1>3, PerCharacterIs, Zenon
<1>6. /\ z \in Seq(Seq(Nat)) /\ Len(z) = Len(c) /\ Characters(c) = FlattenSeq(z)
      /\ \A i \in 1..Len(c) : z[i] = IF c[i] = NewLine THEN <<>> ELSE <<c[i]>>
  BY <1>2, <1>3, PerCharacterIs, Zenon
<1>7. PICK w : w = x \o y
  OBVIOUS
<1>8. /\ w \in Seq(Seq(Nat)) /\ Len(w) = Len(x) + Len(y)
      /\ \A i \in 1 .. Len(x) + Len(y) : w[i] = IF i <= Len(x) THEN x[i] ELSE y[i - Len(x)]
  <2>1. /\ x \o y \in Seq(Seq(Nat)) /\ Len(x \o y) = Len(x) + Len(y)
        /\ \A i \in 1 .. Len(x) + Len(y) : (x \o y)[i] = IF i <= Len(x) THEN x[i] ELSE y[i - Len(x)]
    BY <1>4, <1>5, ConcatProperties
  <2> QED BY <1>7, <2>1, Zenon
<1>9. ASSUME NEW i \in 1..Len(c) PROVE w[i] = z[i]
  <2>1. /\ i \in 1 .. Len(a) + Len(b) /\ i \in 1 .. Len(x) + Len(y) /\ Len(x) = Len(a)
        /\ (i <= Len(a) => i \in 1..Len(a)) /\ (~(i <= Len(a)) => i - Len(a) \in 1..Len(b))
    BY <1>2, <1>4, <1>5
  <2>2. CASE i <= Len(a)
    <3>1. c[i] = a[i] /\ w[i] = x[i] /\ x[i] = IF a[i] = NewLine THEN <<>> ELSE <<a[i]>>
      BY <1>2, <1>4, <1>8, <2>1, <2>2, Zenon
    <3> QED BY <1>6, <3>1, Zenon
  <2>3. CASE ~(i <= Len(a))
    <3>1. PICK j \in 1..Len(b) : j = i - Len(a)
      BY <2>1, <2>3
    <3>2. c[i] = b[j] /\ w[i] = y[j]
      BY <1>2, <1>8, <2>1, <2>3, <3>1, Zenon
    <3>3. y[j] = IF b[j] = NewLine THEN <<>> ELSE <<b[j]>>
      BY <1>5
    <3> QED BY <1>6, <3>2, <3>3, Zenon
  <2> QED BY <2>2, <2>3
<1>10. w = z
  BY <1>2, <1>4, <1>5, <1>6, <1>8, <1>9, SeqEqual
<1>11. FlattenSeq(x \o y) = FlattenSeq(x) \o FlattenSeq(y)
  BY <1>4, <1>5, FlattenSeqOfConcat
<1> QED BY <1>1, <1>4, <1>5, <1>6, <1>7, <1>10, <1>11, Zenon

LEMMA CharactersOfLine ==
  ASSUME NEW text \in Seq(Nat), NoNewLine(text)
  PROVE  Characters(text) = text
<1>1. PICK g : /\ g[0] = <<>> /\ g[Len(text)] = Characters(text)
               /\ \A i \in 0..Len(text) : g[i] \in Seq(Nat)
               /\ \A i \in 1..Len(text) : g[i] = IF text[i] = NewLine THEN g[i - 1] ELSE Append(g[i - 1], text[i])
  BY CharactersAreFlat
<1>2. Len(text) \in Nat /\ \A i \in 1..Len(text) : text[i] \in Nat /\ text[i] # NewLine
  BY DEF NoNewLine
<1> DEFINE Same(i) == Len(g[i]) = i /\ \A j \in 1..i : g[i][j] = text[j]
           S == {i \in Nat : i <= Len(text) => Same(i)}
<1> HIDE DEF Same
<1>3. ASSUME NEW m \in Nat, \A k \in 0 .. m - 1 : k \in S PROVE m \in S
  <2>1. CASE m = 0
    <3>1. Same(m)
      BY <1>1, <2>1 DEF Same
    <3> QED BY <3>1
  <2>2. CASE m # 0 /\ m <= Len(text)
    <3>1. m - 1 \in 0 .. m - 1 /\ m - 1 <= Len(text) /\ m \in 1..Len(text) /\ m - 1 \in 0..Len(text) /\ m - 1 \in Nat
      BY <1>2, <2>2
    <3>2. Same(m - 1)
      BY <1>3, <3>1
    <3>3. PICK before \in Seq(Nat), x \in Nat : before = g[m - 1] /\ x = text[m]
      BY <1>1, <1>2, <3>1, Zenon
    <3>4. g[m] = Append(before, x)
      BY <1>1, <1>2, <3>1, <3>3, Zenon
    <3>5. Len(before) = m - 1 /\ \A j \in 1 .. m - 1 : before[j] = text[j]
      BY <3>2, <3>3, Zenon DEF Same
    <3>6. Len(g[m]) = m /\ \A j \in 1..m : g[m][j] = text[j]
      BY <3>1, <3>3, <3>4, <3>5
    <3>7. Same(m)
      BY <3>6, Zenon DEF Same
    <3> QED BY <3>7
  <2>3. CASE ~(m <= Len(text))
    BY <2>3
  <2> QED BY <2>1, <2>2, <2>3
<1>4. Same(Len(text))
  <2>1. Len(text) \in S
    <3> HIDE DEF S
    <3> QED BY <1>2, <1>3, Upwards
  <2> QED BY <1>2, <2>1
<1>5. PICK t \in Seq(Nat) : t = g[Len(text)]
  BY <1>1, <1>2
<1>6. Len(t) = Len(text) /\ \A j \in 1..Len(text) : t[j] = text[j]
  BY <1>4, <1>5, Zenon DEF Same
<1>7. t = text
  BY <1>6, SeqEqual
<1> QED BY <1>1, <1>5, <1>7, Zenon

\* Taken is its recursion.
AfterCharacter(text, g, i) ==
    IF i = 0 THEN [lines |-> <<>>, rest |-> <<>>]
    ELSE IF text[i] = NewLine THEN [lines |-> Append(g[i - 1].lines, g[i - 1].rest), rest |-> <<>>]
    ELSE [g[i - 1] EXCEPT !.rest = Append(@, text[i])]

LEMMA TakenIs ==
  ASSUME NEW text \in Seq(Nat)
  PROVE  \A i \in 0..Len(text) : Taken(text)[i] = AfterCharacter(text, Taken(text), i)
<1> DEFINE n == Len(text)
           S == {m \in Nat : \E g : g = [i \in 0..m |-> AfterCharacter(text, g, i)]}
<1>1. \A g, h, i : i = 0 \/ g[i - 1] = h[i - 1] => AfterCharacter(text, g, i) = AfterCharacter(text, h, i)
  BY Zenon DEF AfterCharacter
<1>2. ASSUME NEW m \in Nat, \A i \in 0 .. m - 1 : i \in S PROVE m \in S
  <2>1. PICK g : m # 0 => g = [i \in 0 .. m - 1 |-> AfterCharacter(text, g, i)]
    <3>1. CASE m = 0
      BY <3>1
    <3>2. CASE m # 0
      <4>1. m - 1 \in 0 .. m - 1
        BY <3>2
      <4> QED BY <1>2, <4>1
    <3> QED BY <3>1, <3>2
  <2>2. PICK h : h = [i \in 0..m |-> IF i = m THEN AfterCharacter(text, g, m) ELSE g[i]]
    OBVIOUS
  <2>3. \A i \in 0 .. m - 1 : i \in 0..m /\ i # m
    OBVIOUS
  <2>4. \A i \in 0 .. m - 1 : g[i] = h[i]
    BY <2>2, <2>3, Zenon
  <2>5. ASSUME NEW i \in 0..m PROVE h[i] = AfterCharacter(text, h, i)
    <3>1. i = 0 \/ i - 1 \in 0 .. m - 1
      OBVIOUS
    <3>2. AfterCharacter(text, g, i) = AfterCharacter(text, h, i)
      BY <1>1, <2>4, <3>1, Zenon
    <3>3. CASE i = m
      BY <2>2, <3>2, <3>3, Zenon
    <3>4. CASE i # m
      <4>1. i \in 0 .. m - 1 /\ m # 0
        BY <3>4
      <4>2. g[i] = AfterCharacter(text, g, i)
        BY <2>1, <4>1, Zenon
      <4> QED BY <2>4, <3>2, <4>1, <4>2, Zenon
    <3> QED BY <3>3, <3>4
  <2>6. h = [i \in 0..m |-> h[i]]
    BY <2>2, Zenon
  <2>7. h = [i \in 0..m |-> AfterCharacter(text, h, i)]
    BY <2>5, <2>6, Zenon
  <2> QED BY <2>7
<1>3. n \in S
  <2> HIDE DEF S
  <2>1. n \in Nat
    OBVIOUS
  <2> QED BY <1>2, <2>1, Upwards
<1>4. PICK g : g = [i \in 0..n |-> AfterCharacter(text, g, i)]
  BY <1>3
<1>5. Taken(text) = CHOOSE f : f = [i \in 0..n |-> AfterCharacter(text, f, i)]
  BY Zenon DEF Taken, AfterCharacter
<1>6. Taken(text) = [i \in 0..n |-> AfterCharacter(text, Taken(text), i)]
  BY <1>4, <1>5, Zenon
<1> QED BY <1>6, Zenon

\* Where the lines of a text are taken from when k of its characters are seen.
IsSplit(text, k, flat, a) ==
    /\ a \in [lines : Seq(Seq(Nat)), rest : Seq(Nat)]
    /\ Len(a.rest) <= k
    /\ \A j \in 1..Len(a.rest) : a.rest[j] # NewLine /\ a.rest[j] = text[(k - Len(a.rest)) + j]
    /\ FlattenSeq(a.lines) \o a.rest = flat
    /\ Steady(text) => AllConnected(a.lines)

LEMMA FlattenSeqTyped ==
  ASSUME NEW s \in Seq(Seq(Nat))
  PROVE  FlattenSeq(s) \in Seq(Nat)
<1>1. Len(s) \in 0..Len(s)
  OBVIOUS
<1> QED BY <1>1, FlattenSeqIs, Zenon

LEMMA FlattenSeqOfAppend ==
  ASSUME NEW s \in Seq(Seq(Nat)), NEW x \in Seq(Nat)
  PROVE  FlattenSeq(Append(s, x)) = FlattenSeq(s) \o x
<1>1. PICK y : y = <<x>>
  OBVIOUS
<1>2. y \in Seq(Seq(Nat)) /\ s \o y = Append(s, x)
  BY <1>1
<1>3. FlattenSeq(s \o y) = FlattenSeq(s) \o FlattenSeq(y)
  BY <1>2, FlattenSeqOfConcat
<1>4. FlattenSeq(y) = x
  BY <1>1, FlattenSeqOfOne
<1> QED BY <1>2, <1>3, <1>4, Zenon

LEMMA RestIsConnected ==
  ASSUME NEW text \in Seq(Nat), NEW k \in 0..Len(text), NEW flat, NEW a,
         IsSplit(text, k, flat, a), Steady(text)
  PROVE  Connected(a.rest)
<1>1. PICK r \in Seq(Nat) : r = a.rest
  BY DEF IsSplit
<1>2. Len(r) <= k /\ \A j \in 1..Len(r) : r[j] # NewLine /\ r[j] = text[(k - Len(r)) + j]
  BY <1>1, Zenon DEF IsSplit
<1>3. \A i \in 1 .. Len(text) - 1 : text[i] # NewLine /\ text[i + 1] # NewLine => text[i + 1] = text[i] + 1
  BY DEF Steady
<1>4. ASSUME NEW j \in 1 .. Len(r) - 1 PROVE r[j + 1] = r[j] + 1
  <2>1. PICK i \in 1 .. Len(text) - 1 : i = (k - Len(r)) + j
    <3>1. Len(text) \in Nat /\ Len(r) \in Nat /\ Len(r) <= k
      BY <1>2
    <3>2. (k - Len(r)) + j \in 1 .. Len(text) - 1
      BY <3>1
    <3> QED BY <3>2
  <2>2. j \in 1..Len(r) /\ j + 1 \in 1..Len(r) /\ (k - Len(r)) + (j + 1) = i + 1
    BY <1>2, <2>1
  <2>3. r[j] # NewLine /\ r[j] = text[i] /\ r[j + 1] # NewLine /\ r[j + 1] = text[i + 1]
    BY <1>2, <2>1, <2>2, Zenon
  <2> QED BY <1>3, <2>3, Zenon
<1> QED BY <1>1, <1>4, Zenon DEF Connected

LEMMA SplitAtNewLine ==
  ASSUME NEW text \in Seq(Nat), NEW k \in 1..Len(text), NEW flat, NEW a,
         IsSplit(text, k - 1, flat, a)
  PROVE  IsSplit(text, k, flat, [lines |-> Append(a.lines, a.rest), rest |-> <<>>])
<1>1. PICK l \in Seq(Seq(Nat)), r \in Seq(Nat) : l = a.lines /\ r = a.rest
  BY DEF IsSplit
<1>2. PICK m : m = Append(l, r)
  OBVIOUS
<1>3. /\ m \in Seq(Seq(Nat)) /\ Len(m) = Len(l) + 1
      /\ \A i \in 1..Len(l) : m[i] = l[i]
      /\ m[Len(l) + 1] = r
  BY <1>2
<1>4. FlattenSeq(m) = flat /\ flat \in Seq(Nat)
  <2>1. FlattenSeq(l) \in Seq(Nat)
    BY FlattenSeqTyped
  <2>2. FlattenSeq(m) = FlattenSeq(l) \o r
    BY <1>2, FlattenSeqOfAppend
  <2>3. flat = FlattenSeq(l) \o r
    BY <1>1, Zenon DEF IsSplit
  <2> QED BY <2>1, <2>2, <2>3
<1>5. ASSUME Steady(text) PROVE AllConnected(m)
  <2>1. k - 1 \in 0..Len(text)
    OBVIOUS
  <2>2. Connected(r)
    BY <1>1, <1>5, <2>1, RestIsConnected
  <2>3. \A i \in 1..Len(l) : Connected(l[i])
    BY <1>1, <1>5, Zenon DEF IsSplit, AllConnected
  <2>4. \A i \in 1..Len(m) : i \in 1..Len(l) \/ i = Len(l) + 1
    BY <1>3
  <2> QED BY <1>3, <2>2, <2>3, <2>4, Zenon DEF AllConnected
<1>6. PICK b : b = [lines |-> m, rest |-> <<>>]
  OBVIOUS
<1>7. b.lines = m /\ b.rest = <<>> /\ b \in [lines : Seq(Seq(Nat)), rest : Seq(Nat)]
  BY <1>3, <1>6
<1>8. Len(b.rest) = 0 /\ \A j \in 1..Len(b.rest) : FALSE
  BY <1>7
<1>9. FlattenSeq(b.lines) \o b.rest = flat
  <2>1. flat \o <<>> = flat
    BY <1>4
  <2> QED BY <1>4, <1>7, <2>1, Zenon
<1>10. 0 <= k
  OBVIOUS
<1>11. IsSplit(text, k, flat, b)
  BY <1>5, <1>7, <1>8, <1>9, <1>10, Zenon DEF IsSplit
<1> QED BY <1>1, <1>2, <1>6, <1>11, Zenon

LEMMA ConcatOfAppend ==
  ASSUME NEW f \in Seq(Nat), NEW r \in Seq(Nat), NEW x \in Nat
  PROVE  Joined(f, Append(r, x)) = Append(Joined(f, r), x)
<1>1. PICK y : y = <<x>>
  OBVIOUS
<1>2. y \in Seq(Nat) /\ \A h \in Seq(Nat) : Append(h, x) = h \o y
  BY <1>1
<1>3. Joined(Joined(f, r), y) = Joined(f, Joined(r, y))
  <2>1. y \in Seq(Nat)
    BY <1>2
  <2> QED BY <2>1, JoinedIsAssociative
<1>4. f \o r \in Seq(Nat)
  BY ConcatProperties
<1> QED BY <1>2, <1>3, <1>4, Zenon DEF Joined

LEMMA SplitAtCharacter ==
  ASSUME NEW text \in Seq(Nat), NEW k \in 1..Len(text), NEW flat, NEW a,
         IsSplit(text, k - 1, flat, a), text[k] # NewLine
  PROVE  IsSplit(text, k, Append(flat, text[k]), [a EXCEPT !.rest = Append(@, text[k])])
<1>1. PICK l \in Seq(Seq(Nat)), r \in Seq(Nat) : l = a.lines /\ r = a.rest
  BY DEF IsSplit
<1>2. PICK x \in Nat : x = text[k]
  OBVIOUS
<1>12. PICK s : s = Append(r, x)
  OBVIOUS
<1>3. /\ s \in Seq(Nat) /\ Len(s) = Len(r) + 1
      /\ \A i \in 1..Len(r) : s[i] = r[i]
      /\ s[Len(r) + 1] = x
  BY <1>12
<1>4. PICK b : b = [a EXCEPT !.rest = Append(@, x)]
  OBVIOUS
<1>5. b.lines = l /\ b.rest = s /\ b \in [lines : Seq(Seq(Nat)), rest : Seq(Nat)]
  <2>1. a \in [lines : Seq(Seq(Nat)), rest : Seq(Nat)]
    BY DEF IsSplit
  <2> QED BY <1>1, <1>3, <1>4, <1>12, <2>1
<1>6. Len(r) <= k - 1 /\ \A j \in 1..Len(r) : r[j] # NewLine /\ r[j] = text[((k - 1) - Len(r)) + j]
  BY <1>1, Zenon DEF IsSplit
<1>7. Len(s) <= k
  BY <1>3, <1>6
<1>8. ASSUME NEW j \in 1..Len(s) PROVE s[j] # NewLine /\ s[j] = text[(k - Len(s)) + j]
  <2>1. CASE j = Len(s)
    <3>1. (k - Len(s)) + j = k /\ j = Len(r) + 1
      BY <1>3, <1>6, <2>1
    <3> QED BY <1>2, <1>3, <3>1, Zenon
  <2>2. CASE j # Len(s)
    <3>1. j \in 1..Len(r) /\ (k - Len(s)) + j = ((k - 1) - Len(r)) + j
      BY <1>3, <1>6, <2>2
    <3> QED BY <1>3, <1>6, <3>1, Zenon
  <2> QED BY <2>1, <2>2
<1>9. FlattenSeq(l) \o s = Append(flat, x)
  <2>1. PICK f \in Seq(Nat) : f = FlattenSeq(l)
    BY FlattenSeqTyped
  <2>2. flat = f \o r
    BY <1>1, <2>1, Zenon DEF IsSplit
  <2>3. f \o Append(r, x) = Append(f \o r, x)
    <3>1. Joined(f, Append(r, x)) = Append(Joined(f, r), x)
      BY ConcatOfAppend
    <3> QED BY <3>1, Zenon DEF Joined
  <2> QED BY <1>12, <2>1, <2>2, <2>3, Zenon
<1>10. Steady(text) => AllConnected(l)
  BY <1>1, Zenon DEF IsSplit
<1>11. IsSplit(text, k, Append(flat, x), b)
  BY <1>5, <1>7, <1>8, <1>9, <1>10, Zenon DEF IsSplit
<1> QED BY <1>2, <1>4, <1>11, Zenon

\* What Lines says of a text.
LEMMA LinesAre ==
  ASSUME NEW text \in Seq(Nat)
  PROVE  IsSplit(text, Len(text), Characters(text), Lines(text))
<1>1. PICK g : /\ g[0] = <<>> /\ g[Len(text)] = Characters(text)
               /\ \A i \in 0..Len(text) : g[i] \in Seq(Nat)
               /\ \A i \in 1..Len(text) : g[i] = IF text[i] = NewLine THEN g[i - 1] ELSE Append(g[i - 1], text[i])
  BY CharactersAreFlat
<1>2. PICK f : f = Taken(text)
  OBVIOUS
<1>3. \A i \in 0..Len(text) : f[i] = AfterCharacter(text, f, i)
  BY <1>2, TakenIs
<1>4. Len(text) \in Nat
  OBVIOUS
<1> DEFINE S == {m \in Nat : m <= Len(text) => IsSplit(text, m, g[m], f[m])}
<1>5. ASSUME NEW m \in Nat, \A k \in 0 .. m - 1 : k \in S PROVE m \in S
  <2>1. CASE m = 0
    <3>1. f[0] = [lines |-> <<>>, rest |-> <<>>]
      <4>1. 0 \in 0..Len(text)
        BY <1>4
      <4> QED BY <1>3, <4>1, Zenon DEF AfterCharacter
    <3>2. PICK b : b = [lines |-> <<>>, rest |-> <<>>]
      OBVIOUS
    <3>3. /\ b \in [lines : Seq(Seq(Nat)), rest : Seq(Nat)] /\ b.lines = <<>> /\ b.rest = <<>>
          /\ Len(b.rest) = 0 /\ Len(b.lines) = 0 /\ (\A j \in 1..Len(b.rest) : FALSE) /\ \A j \in 1..Len(b.lines) : FALSE
      BY <3>2
    <3>4. FlattenSeq(b.lines) \o b.rest = <<>>
      <4>1. <<>> \in Seq(Nat) /\ <<>> \o <<>> = <<>>
        OBVIOUS
      <4>2. FlattenSeq(<<>>) = <<>>
        BY <4>1, FlattenSeqOfOne
      <4> QED BY <3>3, <4>1, <4>2, Zenon
    <3>5. 0 <= 0
      OBVIOUS
    <3>6. IsSplit(text, 0, <<>>, b)
      BY <3>3, <3>4, <3>5, Zenon DEF IsSplit, AllConnected
    <3>7. IsSplit(text, m, g[m], f[m])
      BY <1>1, <2>1, <3>1, <3>2, <3>6, Zenon
    <3> QED BY <3>7
  <2>2. CASE m # 0 /\ m <= Len(text)
    <3>1. m - 1 \in 0 .. m - 1 /\ m - 1 <= Len(text) /\ m \in 1..Len(text) /\ m - 1 \in 0..Len(text) /\ m \in 0..Len(text)
      BY <1>4, <2>2
    <3>2. IsSplit(text, m - 1, g[m - 1], f[m - 1])
      BY <1>5, <3>1
    <3>3. PICK a, flat : a = f[m - 1] /\ flat = g[m - 1]
      OBVIOUS
    <3>4. IsSplit(text, m - 1, flat, a)
      BY <3>2, <3>3, Zenon
    <3>5. CASE text[m] = NewLine
      <4>1. f[m] = [lines |-> Append(a.lines, a.rest), rest |-> <<>>] /\ g[m] = flat
        BY <1>1, <1>3, <2>2, <3>1, <3>3, <3>5, Zenon DEF AfterCharacter
      <4>2. IsSplit(text, m, flat, [lines |-> Append(a.lines, a.rest), rest |-> <<>>])
        BY <3>1, <3>4, SplitAtNewLine
      <4>3. IsSplit(text, m, g[m], f[m])
        BY <4>1, <4>2, Zenon
      <4> QED BY <4>3
    <3>6. CASE text[m] # NewLine
      <4>1. f[m] = [a EXCEPT !.rest = Append(@, text[m])] /\ g[m] = Append(flat, text[m])
        BY <1>1, <1>3, <2>2, <3>1, <3>3, <3>6, Zenon DEF AfterCharacter
      <4>2. IsSplit(text, m, Append(flat, text[m]), [a EXCEPT !.rest = Append(@, text[m])])
        BY <3>1, <3>4, <3>6, SplitAtCharacter
      <4>3. IsSplit(text, m, g[m], f[m])
        BY <4>1, <4>2, Zenon
      <4> QED BY <4>3
    <3> QED BY <3>5, <3>6
  <2>3. CASE ~(m <= Len(text))
    BY <2>3
  <2> QED BY <2>1, <2>2, <2>3
<1>6. Len(text) \in S
  <2> HIDE DEF S
  <2> QED BY <1>4, <1>5, Upwards
<1>7. IsSplit(text, Len(text), g[Len(text)], f[Len(text)])
  BY <1>4, <1>6
<1> QED BY <1>1, <1>2, <1>7, Zenon DEF Lines

-----------------------------------------------------------------------------
\* Complete lines, then pieces of PartialLimit characters, then what is left.
LEMMA Multiples ==
  ASSUME NEW p \in Nat \ {0}, NEW n \in Nat, NEW k \in 1..n
  PROVE  /\ (k - 1) * p \in Nat /\ k * p \in Nat /\ n * p \in Nat
         /\ k * p = (k - 1) * p + p /\ k * p <= n * p
<1>1. (n - k) * p \in Nat /\ n - k \in Nat
  OBVIOUS
<1>2. n * p = k * p + (n - k) * p
  OBVIOUS
<1>3. (k - 1) * p \in Nat /\ k * p = (k - 1) * p + p
  OBVIOUS
<1> QED BY <1>1, <1>2, <1>3

LEMMA Quotient ==
  ASSUME NEW p \in Nat \ {0}, NEW n \in Nat
  PROVE  n \div p \in Nat /\ (n \div p) * p \in Nat /\ (n \div p) * p <= n
OBVIOUS

LEMMA SubSeqIs ==
  ASSUME NEW T, NEW s \in Seq(T), NEW x \in Nat, NEW y \in Nat, x <= y, y <= Len(s)
  PROVE  /\ SubSeq(s, x + 1, y) \in Seq(T) /\ Len(SubSeq(s, x + 1, y)) = y - x
         /\ \A j \in 1 .. y - x : SubSeq(s, x + 1, y)[j] = s[x + j]
<1>1. \A i \in x + 1 .. y : s[i] \in T
  OBVIOUS
<1>2. PICK m \in Int : m = x + 1
  OBVIOUS
<1>3. /\ SubSeq(s, m, y) \in Seq(T)
      /\ Len(SubSeq(s, m, y)) = IF m <= y THEN y - m + 1 ELSE 0
      /\ \A i \in 1 .. y - m + 1 : SubSeq(s, m, y)[i] = s[m + i - 1]
  BY <1>1, <1>2, SubSeqProperties
<1>4. /\ (IF m <= y THEN y - m + 1 ELSE 0) = y - x
      /\ y - m + 1 = y - x
      /\ \A i \in 1 .. y - x : m + i - 1 = x + i
  BY <1>2
<1> QED BY <1>2, <1>3, <1>4, Zenon

Pieces(line, n) == [k \in 1..n |-> SubSeq(line, (k - 1) * PartialLimit + 1, k * PartialLimit)]

LEMMA PiecesAre ==
  ASSUME NEW line \in Seq(Nat), NEW n \in Nat, n * PartialLimit <= Len(line)
  PROVE  /\ Pieces(line, n) \in Seq(Seq(Nat)) /\ Len(Pieces(line, n)) = n
         /\ FlattenSeq(Pieces(line, n)) = SubSeq(line, 1, n * PartialLimit)
         /\ Connected(line) => AllConnected(Pieces(line, n))
<1> DEFINE P == PartialLimit
<1>0. P \in Nat \ {0} /\ Len(line) \in Nat
  BY FollowAssumption
<1>1. P \in Nat \ {0} /\ Len(line) \in Nat /\ n * P <= Len(line) /\ \A i \in 1..Len(line) : line[i] \in Nat
  BY FollowAssumption
<1>2. \A k \in 1..n : /\ (k - 1) * P \in Nat /\ k * P \in Nat /\ n * P \in Nat
                      /\ k * P = (k - 1) * P + P /\ k * P <= n * P
  BY <1>1, Multiples
<1>3. \A k \in 1..n : /\ SubSeq(line, (k - 1) * P + 1, k * P) \in Seq(Nat)
                      /\ Len(SubSeq(line, (k - 1) * P + 1, k * P)) = P
                      /\ \A j \in 1..P : SubSeq(line, (k - 1) * P + 1, k * P)[j] = line[(k - 1) * P + j]
  <2> TAKE k \in 1..n
  <2>1. PICK x \in Nat, y \in Nat : x = (k - 1) * P /\ y = k * P /\ y = x + P /\ y <= Len(line)
    BY <1>1, <1>2
  <2> HIDE DEF P
  <2>5. y <= Len(line)
    BY <2>1
  <2>3. x <= y /\ y - x = P
    BY <1>0, <2>1
  <2>4. /\ SubSeq(line, x + 1, y) \in Seq(Nat) /\ Len(SubSeq(line, x + 1, y)) = y - x
        /\ \A j \in 1 .. y - x : SubSeq(line, x + 1, y)[j] = line[x + j]
    BY <2>3, <2>5, SubSeqIs
  <2>2. /\ SubSeq(line, x + 1, y) \in Seq(Nat) /\ Len(SubSeq(line, x + 1, y)) = P
        /\ \A j \in 1..P : SubSeq(line, x + 1, y)[j] = line[x + j]
    BY <2>3, <2>4, Zenon
  <2> QED BY <2>1, <2>2, Zenon
<1>4. PICK c : c = Pieces(line, n)
  OBVIOUS
<1>5. c = [k \in 1..n |-> SubSeq(line, (k - 1) * P + 1, k * P)]
  BY <1>4 DEF Pieces
<1> HIDE DEF P
<1>6. c \in [1..n -> Seq(Nat)]
  BY <1>3, <1>5, Zenon
<1>7. c \in Seq(Seq(Nat)) /\ Len(c) = n
  BY <1>6
<1>8. \A k \in 1..n : c[k] = SubSeq(line, (k - 1) * P + 1, k * P)
  BY <1>5, Zenon
<1>9. PICK g : /\ AreFlat(g, c) /\ g[Len(c)] = FlattenSeq(c)
               /\ \A i \in 0..Len(c) : g[i] \in Seq(Nat)
  BY <1>7, FlattenSeqIs
<1> DEFINE S == {m \in Nat : m <= n => g[m] = SubSeq(line, 1, m * P)}
<1>10. ASSUME NEW m \in Nat, \A k \in 0 .. m - 1 : k \in S PROVE m \in S
  <2>1. CASE m = 0
    <3>1. m * P = 0
      BY <1>1, <2>1
    <3>2. SubSeq(line, 1, 0) = <<>>
      BY SubSeqEmpty
    <3>3. g[m] = <<>>
      BY <1>9, <2>1, Zenon DEF AreFlat
    <3> QED BY <3>1, <3>2, <3>3
  <2>2. CASE m # 0 /\ m <= n
    <3>1. m - 1 \in 0 .. m - 1 /\ m - 1 <= n /\ m \in 1..n
      BY <2>2
    <3>2. g[m - 1] = SubSeq(line, 1, (m - 1) * P)
      BY <1>10, <3>1
    <3>3. g[m] = g[m - 1] \o c[m]
      BY <1>7, <1>9, <3>1, Zenon DEF AreFlat
    <3>4. PICK x \in Nat, y \in Nat : x = (m - 1) * P /\ y = m * P /\ y = x + P /\ y <= Len(line)
      <4>1. PICK x \in Nat, y \in Nat, all \in Nat :
               x = (m - 1) * P /\ y = m * P /\ all = n * P /\ y = x + P /\ y <= all
        BY <1>2, <3>1, Zenon
      <4>2. all <= Len(line)
        BY <1>1, <4>1, Zenon
      <4>3. y <= Len(line)
        BY <1>0, <4>1, <4>2
      <4> QED BY <4>1, <4>3, Zenon
    <3>5. /\ 1 \in 1 .. Len(line) + 1 /\ x \in 1 - 1 .. Len(line) /\ y \in x .. Len(line)
      BY <1>1, <3>4
    <3>6. SubSeq(line, 1, x) \o SubSeq(line, x + 1, y) = SubSeq(line, 1, y)
      BY <3>5, ConcatAdjacentSubSeq
    <3>7. g[m] = SubSeq(line, 1, m * P)
      BY <1>8, <3>1, <3>2, <3>3, <3>4, <3>6, Zenon
    <3> QED BY <3>7
  <2>3. CASE ~(m <= n)
    BY <2>3
  <2> QED BY <2>1, <2>2, <2>3
<1>11. g[n] = SubSeq(line, 1, n * P)
  <2>1. n \in S
    <3> HIDE DEF S
    <3> QED BY <1>10, Upwards
  <2> QED BY <2>1
<1>12. FlattenSeq(c) = SubSeq(line, 1, n * P)
  BY <1>7, <1>9, <1>11, Zenon
<1>13. ASSUME Connected(line) PROVE AllConnected(c)
  <2>1. ASSUME NEW k \in 1..n PROVE Connected(c[k])
    <3>1. PICK x \in Nat, y \in Nat : x = (k - 1) * P /\ y = k * P /\ y = x + P /\ y <= Len(line)
      <4>1. PICK x \in Nat, y \in Nat, all \in Nat :
               x = (k - 1) * P /\ y = k * P /\ all = n * P /\ y = x + P /\ y <= all
        BY <1>2, Zenon
      <4>2. all <= Len(line)
        BY <1>1, <4>1, Zenon
      <4>3. y <= Len(line)
        BY <1>0, <4>1, <4>2
      <4> QED BY <4>1, <4>3, Zenon
    <3>2. Len(c[k]) = P /\ \A j \in 1..P : c[k][j] = line[x + j]
      BY <1>3, <1>8, <3>1, Zenon
    <3>3. ASSUME NEW j \in 1 .. P - 1 PROVE c[k][j + 1] = c[k][j] + 1
      <4>1. j \in 1..P /\ j + 1 \in 1..P /\ x + j \in 1 .. Len(line) - 1 /\ (x + j) + 1 = x + (j + 1)
        BY <1>0, <3>1
      <4>2. line[(x + j) + 1] = line[x + j] + 1
        BY <1>13, <4>1, Zenon DEF Connected
      <4> QED BY <3>2, <4>1, <4>2, Zenon
    <3> QED BY <3>2, <3>3, Zenon DEF Connected
  <2> QED BY <1>7, <2>1, Zenon DEF AllConnected
<1> QED BY <1>4, <1>7, <1>12, <1>13 DEF P

LEMMA FlattenSeqAndRest ==
  ASSUME NEW l \in Seq(Seq(Nat)), NEW c \in Seq(Seq(Nat)), NEW s \in Seq(Nat)
  PROVE  FlattenSeq(l \o c) \o s = FlattenSeq(l) \o (FlattenSeq(c) \o s)
<1>1. FlattenSeq(l \o c) = FlattenSeq(l) \o FlattenSeq(c)
  BY FlattenSeqOfConcat
<1>2. FlattenSeq(l) \in Seq(Nat) /\ FlattenSeq(c) \in Seq(Nat)
  BY FlattenSeqTyped
<1>3. Joined(Joined(FlattenSeq(l), FlattenSeq(c)), s) = Joined(FlattenSeq(l), Joined(FlattenSeq(c), s))
  BY <1>2, JoinedIsAssociative
<1> QED BY <1>1, <1>3, Zenon DEF Joined

IsConsumed(text, lines, rest) ==
    /\ lines \in Seq(Seq(Nat)) /\ rest \in Seq(Nat)
    /\ FlattenSeq(lines) \o rest = Characters(text)
    /\ Len(rest) <= Len(text)
    /\ \A j \in 1..Len(rest) : rest[j] # NewLine /\ rest[j] = text[(Len(text) - Len(rest)) + j]
    /\ Steady(text) => AllConnected(lines) /\ Connected(rest)

LEMMA ConsumeIs ==
  ASSUME NEW text \in Seq(Nat), NEW got, got = Consume(text)
  PROVE  IsConsumed(text, got.lines, got.rest)
<1>1. PICK a : a = Lines(text)
  OBVIOUS
<1>2. IsSplit(text, Len(text), Characters(text), a)
  BY <1>1, LinesAre
<1>3. PICK l \in Seq(Seq(Nat)), r \in Seq(Nat) : l = a.lines /\ r = a.rest
  BY <1>2 DEF IsSplit
<1>4. /\ Len(r) <= Len(text) /\ FlattenSeq(l) \o r = Characters(text)
      /\ \A j \in 1..Len(r) : r[j] # NewLine /\ r[j] = text[(Len(text) - Len(r)) + j]
      /\ Steady(text) => AllConnected(l)
  BY <1>2, <1>3, Zenon DEF IsSplit
<1>5. Steady(text) => Connected(r)
  <2>1. Len(text) \in 0..Len(text)
    OBVIOUS
  <2> QED BY <1>2, <1>3, <2>1, RestIsConnected
<1>6. Len(r) \in Nat /\ Len(text) \in Nat /\ \A i \in 1..Len(r) : r[i] \in Nat
  OBVIOUS
<1>7. PICK n : n = Len(r) \div PartialLimit
  OBVIOUS
<1>8. PICK q \in Nat : q = n * PartialLimit /\ n \in Nat /\ q <= Len(r)
  BY <1>6, <1>7, Quotient, FollowAssumption
<1>19. q \in Nat /\ q <= Len(r)
  BY <1>8
<1>9. PICK c, s : c = Pieces(r, n) /\ s = SubSeq(r, q + 1, Len(r))
  OBVIOUS
<1>10. /\ c \in Seq(Seq(Nat)) /\ FlattenSeq(c) = SubSeq(r, 1, q)
       /\ Connected(r) => AllConnected(c)
  BY <1>8, <1>9, PiecesAre, Zenon
<1>11. /\ s \in Seq(Nat) /\ Len(s) = Len(r) - q
       /\ \A j \in 1 .. Len(r) - q : s[j] = r[q + j]
  <2>1. /\ SubSeq(r, q + 1, Len(r)) \in Seq(Nat) /\ Len(SubSeq(r, q + 1, Len(r))) = Len(r) - q
        /\ \A j \in 1 .. Len(r) - q : SubSeq(r, q + 1, Len(r))[j] = r[q + j]
    BY <1>6, <1>19, SubSeqIs
  <2> QED BY <1>9, <2>1, Zenon
<1>12. got.lines = l \o c /\ got.rest = s
  BY <1>1, <1>3, <1>7, <1>8, <1>9 DEF Consume, Pieces
<1>13. PICK m : m = l \o c
  OBVIOUS
<1>14. /\ m \in Seq(Seq(Nat)) /\ Len(m) = Len(l) + Len(c)
       /\ \A i \in 1 .. Len(l) + Len(c) : m[i] = IF i <= Len(l) THEN l[i] ELSE c[i - Len(l)]
  <2>1. /\ l \o c \in Seq(Seq(Nat)) /\ Len(l \o c) = Len(l) + Len(c)
        /\ \A i \in 1 .. Len(l) + Len(c) : (l \o c)[i] = IF i <= Len(l) THEN l[i] ELSE c[i - Len(l)]
    BY <1>10, ConcatProperties
  <2> QED BY <1>13, <2>1, Zenon
<1>15. FlattenSeq(m) \o s = Characters(text)
  <2>1. FlattenSeq(l \o c) \o s = FlattenSeq(l) \o (FlattenSeq(c) \o s)
    BY <1>10, <1>11, FlattenSeqAndRest
  <2>5. 1 \in 1 .. Len(r) + 1 /\ q \in 1 - 1 .. Len(r) /\ Len(r) \in q .. Len(r)
    BY <1>6, <1>8
  <2>6. SubSeq(r, 1, q) \o SubSeq(r, q + 1, Len(r)) = SubSeq(r, 1, Len(r))
    BY <2>5, ConcatAdjacentSubSeq
  <2>7. SubSeq(r, 1, Len(r)) = r
    BY SubSeqFull
  <2>8. FlattenSeq(c) \o s = r
    BY <1>9, <1>10, <2>6, <2>7, Zenon
  <2> QED BY <1>4, <1>13, <2>1, <2>8, Zenon
<1>16. ASSUME NEW j \in 1..Len(s) PROVE s[j] # NewLine /\ s[j] = text[(Len(text) - Len(s)) + j]
  <2>1. PICK i \in 1..Len(r) : i = q + j
    <3>1. q + j \in 1..Len(r)
      BY <1>6, <1>11, <1>19
    <3> QED BY <3>1
  <2>2. s[j] = r[i] /\ (Len(text) - Len(s)) + j = (Len(text) - Len(r)) + i
    BY <1>6, <1>11, <1>19, <2>1
  <2> QED BY <1>4, <2>2, Zenon
<1>17. Len(s) <= Len(text)
  BY <1>4, <1>6, <1>11, <1>19
<1>18. ASSUME Steady(text) PROVE AllConnected(m) /\ Connected(s)
  <2>1. Connected(r) /\ AllConnected(l) /\ AllConnected(c)
    BY <1>4, <1>5, <1>10, <1>18
  <2>2. ASSUME NEW i \in 1..Len(m) PROVE Connected(m[i])
    <3>1. /\ Len(l) \in Nat /\ Len(c) \in Nat /\ i \in 1 .. Len(l) + Len(c)
          /\ (i <= Len(l) => i \in 1..Len(l)) /\ (~(i <= Len(l)) => i - Len(l) \in 1..Len(c))
      BY <1>10, <1>14
    <3> QED BY <1>14, <2>1, <3>1, Zenon DEF AllConnected
  <2>3. ASSUME NEW j \in 1 .. Len(s) - 1 PROVE s[j + 1] = s[j] + 1
    <3>1. q + j \in 1 .. Len(r) - 1 /\ (q + j) + 1 = q + (j + 1) /\ j \in 1 .. Len(r) - q /\ j + 1 \in 1 .. Len(r) - q
      BY <1>6, <1>11, <1>19
    <3>2. r[(q + j) + 1] = r[q + j] + 1
      BY <2>1, <3>1, Zenon DEF Connected
    <3> QED BY <1>11, <3>1, <3>2, Zenon
  <2> QED BY <2>2, <2>3, Zenon DEF Connected, AllConnected
<1>20. IsConsumed(text, m, s)
  BY <1>11, <1>14, <1>15, <1>16, <1>17, <1>18, Zenon DEF IsConsumed
<1> QED BY <1>12, <1>13, <1>20, Zenon

-----------------------------------------------------------------------------
\* The smaller and the larger of two, and the largest position of a text.
LEMMA MinOfTwo ==
  ASSUME NEW a \in Nat, NEW b \in Nat
  PROVE  Min({a, b}) \in Nat /\ Min({a, b}) <= a /\ Min({a, b}) <= b /\ (Min({a, b}) = a \/ Min({a, b}) = b)
<1>1. \E x \in {a, b} : \A y \in {a, b} : x <= y
  OBVIOUS
<1>2. Min({a, b}) \in {a, b} /\ \A y \in {a, b} : Min({a, b}) <= y
  BY <1>1 DEF Min
<1> QED BY <1>2

LEMMA MaxOfTwo ==
  ASSUME NEW a \in Nat, NEW b \in Nat
  PROVE  Max({a, b}) = IF a <= b THEN b ELSE a
<1>1. \E x \in {a, b} : \A y \in {a, b} : x >= y
  OBVIOUS
<1>2. Max({a, b}) \in {a, b} /\ \A y \in {a, b} : Max({a, b}) >= y
  BY <1>1 DEF Max
<1> QED BY <1>2

LEMMA MaxOfSome ==
  ASSUME NEW n \in Nat, NEW S \in SUBSET (1..n), S # {}
  PROVE  Max(S) \in S
<1>1. PICK x \in {k \in Nat : n - k \in S} : \A k \in {k \in Nat : n - k \in S} : x <= k
  <2>1. {k \in Nat : n - k \in S} # {}
    <3>1. PICK s \in S : TRUE
      OBVIOUS
    <3>2. n - s \in Nat /\ n - (n - s) = s
      OBVIOUS
    <3> QED BY <3>2
  <2> QED BY <2>1, LeastNatural
<1>2. \A y \in S : n - x >= y
  <2> TAKE y \in S
  <2>1. n - y \in Nat /\ n - (n - y) = y
    OBVIOUS
  <2> QED BY <1>1, <2>1
<1>3. \E s \in S : \A y \in S : s >= y
  BY <1>1, <1>2
<1> QED BY <1>3 DEF Max

LEMMA TailTyped ==
  ASSUME NEW text \in Seq(Nat)
  PROVE  Tail10(text) \in Seq(Seq(Nat))
<1> DEFINE S == {i \in DOMAIN text : text[i] # NewLine}
<1>1. PICK end \in 0..Len(text) : end = IF \E i \in DOMAIN text : text[i] # NewLine THEN Max(S) ELSE 0
  <2>1. Len(text) \in Nat /\ DOMAIN text = 1..Len(text)
    OBVIOUS
  <2>2. S # {} => Max(S) \in 1..Len(text)
    BY <2>1, MaxOfSome
  <2>3. (\E i \in DOMAIN text : text[i] # NewLine) <=> S # {}
    BY Zenon
  <2> HIDE DEF S
  <2>4. PICK some : some = \E i \in DOMAIN text : text[i] # NewLine
    OBVIOUS
  <2>5. (IF some THEN Max(S) ELSE 0) \in 0..Len(text)
    BY <2>1, <2>2, <2>3, <2>4
  <2> QED BY <2>4, <2>5, Zenon
<1> HIDE DEF S
<1>2. PICK t : t = SubSeq(text, 1, end)
  OBVIOUS
<1>3. t \in Seq(Nat)
  <2>1. \A i \in 1..end : text[i] \in Nat
    BY <1>1
  <2> QED BY <1>1, <1>2, <2>1, SubSeqProperties
<1>4. PICK a, lines : a = Lines(t) /\ lines = Append(a.lines, a.rest)
  OBVIOUS
<1>5. lines \in Seq(Seq(Nat))
  <2>1. PICK l \in Seq(Seq(Nat)), r \in Seq(Nat) : l = a.lines /\ r = a.rest
    BY <1>3, <1>4, LinesAre DEF IsSplit
  <2> QED BY <1>4, <2>1
<1>6. PICK l \in Nat, m \in Nat : l = Len(lines) /\ m = Min({InitialLines, Len(lines)}) /\ m <= l
  <2>1. Len(lines) \in Nat /\ InitialLines \in Nat
    BY <1>5, FollowAssumption
  <2> QED BY <2>1, MinOfTwo
<1>7. LastOf(lines, InitialLines) = SubSeq(lines, l - m + 1, l)
  BY <1>6, Zenon DEF LastOf
<1>8. SubSeq(lines, l - m + 1, l) \in Seq(Seq(Nat))
  <2>1. PICK x \in Nat : x = l - m
    BY <1>6
  <2>2. x <= l /\ l <= Len(lines)
    BY <1>6, <2>1
  <2>3. SubSeq(lines, x + 1, l) \in Seq(Seq(Nat))
    BY <1>5, <2>2, SubSeqIs
  <2> QED BY <2>1, <2>3
<1>9. Tail10(text) = IF end = 0 THEN <<>> ELSE LastOf(Append(Lines(t).lines, Lines(t).rest), InitialLines)
  BY <1>1, <1>2, Zenon DEF Tail10, S
<1>10. <<>> \in Seq(Seq(Nat))
  OBVIOUS
<1> QED BY <1>4, <1>7, <1>8, <1>9, <1>10, Zenon

SameUpTo(s, t, y) == \A i \in 1..y : s[i] = t[i]

LEMMA SameSubSeq ==
  ASSUME NEW s \in Seq(Nat), NEW t \in Seq(Nat), NEW x \in Nat, NEW y \in Nat,
         y <= Len(s), y <= Len(t), SameUpTo(s, t, y)
  PROVE  SubSeq(s, x + 1, y) = SubSeq(t, x + 1, y)
<1>1. CASE x <= y
  <2>1. PICK a, b : a = SubSeq(s, x + 1, y) /\ b = SubSeq(t, x + 1, y)
    OBVIOUS
  <2>2. /\ a \in Seq(Nat) /\ Len(a) = y - x /\ \A j \in 1 .. y - x : a[j] = s[x + j]
    BY <1>1, <2>1, SubSeqIs
  <2>3. /\ b \in Seq(Nat) /\ Len(b) = y - x /\ \A j \in 1 .. y - x : b[j] = t[x + j]
    BY <1>1, <2>1, SubSeqIs
  <2>4. ASSUME NEW j \in 1 .. y - x PROVE x + j \in 1..y
    OBVIOUS
  <2>5. \A j \in 1..Len(a) : a[j] = b[j]
    BY <2>2, <2>3, <2>4, Zenon DEF SameUpTo
  <2>6. Len(a) = Len(b)
    BY <2>2, <2>3, Zenon
  <2> QED BY <2>1, <2>2, <2>3, <2>5, <2>6, SeqEqual
<1>2. CASE ~(x <= y)
  <2>1. y < x + 1 /\ x + 1 \in Int
    BY <1>2
  <2>2. SubSeq(s, x + 1, y) = <<>> /\ SubSeq(t, x + 1, y) = <<>>
    BY <2>1, SubSeqEmpty
  <2> QED BY <2>2
<1> QED BY <1>1, <1>2

-----------------------------------------------------------------------------
(***************************************************************************)
(* The invariant.  Characters of a file were numbered one after the other, *)
(* and what is pending are the last ones that were read.                   *)
(***************************************************************************)
FollowTypes ==
    /\ written \in Nat
    /\ file \in [Inodes -> Seq(Nat)]
    /\ path \in Inodes \cup {NoLog}
    /\ opened \in Inodes \cup {NoLog}
    /\ follower \in [inode : Inodes \cup {NoLog}, offset : Nat, pending : Seq(Nat), stale : BOOLEAN, attached : BOOLEAN]
    /\ mark \in [offset : Nat, lines : Nat]
    /\ out \in Seq(Seq(Nat))
    /\ cut \in {"no", "cut", "missed"}

Numbered(text) ==
    \A p, q \in DOMAIN text : text[p] # NewLine /\ text[q] # NewLine => text[p] + q = text[q] + p

EndsWith(text, n) ==
    \A p \in DOMAIN text : text[p] # NewLine => text[p] + Len(text) = n + p

FilesAreNumbered ==
    /\ \A i \in Inodes : Numbered(file[i])
    /\ path # NoLog => EndsWith(file[path], written)

Attachment ==
    /\ ~ follower.attached => follower = Detached /\ opened = NoLog /\ cut = "no" /\ out = <<>>
    /\ follower.attached => follower.inode \in Inodes
    /\ opened # NoLog => follower.attached /\ opened = follower.inode
    /\ mark.lines <= Len(out)

\* The last characters before a place of a text.
IsEndAt(line, text, o) ==
    /\ Len(line) <= o /\ o <= Len(text)
    /\ \A k \in 1..Len(line) : line[k] = text[(o - Len(line)) + k]

PendingIsRead ==
    /\ \A k \in 1..Len(follower.pending) : follower.pending[k] # NewLine
    /\ cut # "missed" => Connected(follower.pending)
    /\ follower.attached /\ cut = "no" =>
          mark.offset <= follower.offset /\ IsEndAt(follower.pending, file[follower.inode], follower.offset)

FollowInv == FollowTypes /\ FilesAreNumbered /\ Attachment /\ PendingIsRead /\ FollowsEveryByte /\ LinesAreNotMixed

\* The two properties, of values.
IsGiven(text, f, m, given) ==
    Characters(SubSeq(text, m.offset + 1, f.offset))
        = FlattenSeq(SubSeq(given, m.lines + 1, Len(given))) \o f.pending

ConnectedFrom(given, m) == \A k \in m.lines + 1 .. Len(given) : Connected(given[k])

LEMMA PropertiesAre ==
  /\ FollowsEveryByte <=> (follower.attached /\ cut = "no" => IsGiven(file[follower.inode], follower, mark, out))
  /\ LinesAreNotMixed <=> (cut # "missed" => ConnectedFrom(out, mark))
BY Zenon DEF FollowsEveryByte, LinesAreNotMixed, IsGiven, ConnectedFrom, Connected

LEMMA EmptyText ==
  /\ Characters(<<>>) = <<>> /\ Numbered(<<>>) /\ \A n : EndsWith(<<>>, n)
  /\ Connected(<<>>) /\ Len(<<>>) = 0 /\ FlattenSeq(<<>>) = <<>> /\ <<>> \o <<>> = <<>>
<1>1. <<>> \in Seq(Nat) /\ DOMAIN <<>> = {} /\ Len(<<>>) = 0 /\ <<>> \o <<>> = <<>>
  OBVIOUS
<1>2. Characters(<<>>) = <<>>
  BY <1>1, CharactersOfLine, Zenon DEF NoNewLine
<1>3. Connected(<<>>)
  BY <1>1 DEF Connected
<1>4. FlattenSeq(<<>>) = <<>>
  BY <1>1, FlattenSeqOfOne
<1>5. \A p \in {} : FALSE
  OBVIOUS
<1> QED BY <1>1, <1>2, <1>3, <1>4, <1>5, Zenon DEF Numbered, EndsWith

LEMMA NothingIsGiven ==
  ASSUME NEW text, NEW given \in Seq(Seq(Nat)), NEW f, NEW m,
         f.offset \in Nat, m.offset = f.offset, m.lines = Len(given), f.pending = <<>>
  PROVE  IsGiven(text, f, m, given) /\ ConnectedFrom(given, m)
<1>1. Len(given) \in Nat
  OBVIOUS
<1>2. SubSeq(text, m.offset + 1, f.offset) = <<>>
  <2>1. f.offset + 1 \in Int /\ f.offset \in Int /\ f.offset < f.offset + 1
    OBVIOUS
  <2> QED BY <2>1, SubSeqEmpty
<1>3. SubSeq(given, m.lines + 1, Len(given)) = <<>>
  <2>1. Len(given) + 1 \in Int /\ Len(given) \in Int /\ Len(given) < Len(given) + 1
    BY <1>1
  <2> QED BY <2>1, SubSeqEmpty
<1>4. \A k \in m.lines + 1 .. Len(given) : FALSE
  BY <1>1
<1> QED BY <1>2, <1>3, <1>4, EmptyText, Zenon DEF IsGiven, ConnectedFrom

LEMMA FollowInitially == FollowInit => FollowInv
<1> SUFFICES ASSUME FollowInit PROVE FollowInv
  OBVIOUS
<1>1. /\ file = [i \in Inodes |-> <<>>] /\ path \in Inodes \cup {NoLog} /\ written = 0
      /\ follower = Detached /\ opened = NoLog /\ out = <<>> /\ mark = [offset |-> 0, lines |-> 0] /\ cut = "no"
  BY DEF FollowInit
<1>2. /\ follower.inode = NoLog /\ follower.offset = 0 /\ follower.pending = <<>> /\ follower.attached = FALSE
      /\ follower.stale = FALSE /\ mark.offset = 0 /\ mark.lines = 0
      /\ follower \in [inode : Inodes \cup {NoLog}, offset : Nat, pending : Seq(Nat), stale : BOOLEAN, attached : BOOLEAN]
  BY <1>1 DEF Detached
<1>3. FollowTypes
  BY <1>1, <1>2 DEF FollowTypes
<1>4. FilesAreNumbered
  <2>1. \A i \in Inodes : file[i] = <<>>
    BY <1>1
  <2>2. path # NoLog => path \in Inodes
    BY <1>1
  <2> QED BY <2>1, <2>2, EmptyText, Zenon DEF FilesAreNumbered
<1>5. Attachment
  BY <1>1, <1>2 DEF Attachment
<1>6. PendingIsRead
  BY <1>2, EmptyText DEF PendingIsRead
<1>7. FollowsEveryByte
  BY <1>2 DEF FollowsEveryByte
<1>8. LinesAreNotMixed
  <2>1. out \in Seq(Seq(Nat)) /\ mark.lines = Len(out)
    BY <1>1, <1>2
  <2>2. \A k \in mark.lines + 1 .. Len(out) : FALSE
    BY <2>1
  <2> QED BY <2>2, Zenon DEF LinesAreNotMixed
<1> QED BY <1>3, <1>4, <1>5, <1>6, <1>7, <1>8 DEF FollowInv

-----------------------------------------------------------------------------
\* What the service does leaves the read part of the followed file as it is, or cuts.
LEMMA ServiceKeeps ==
  ASSUME FollowInv,
         written' \in Nat, file' \in [Inodes -> Seq(Nat)], path' \in Inodes \cup {NoLog},
         FilesAreNumbered',
         follower' = follower, opened' = opened, out' = out, mark' = mark,
         cut' = cut \/ (cut' = "cut" /\ cut = "no" /\ follower.offset > 0),
         follower.attached /\ cut' = "no" /\ follower.offset <= Len(file[follower.inode]) =>
             /\ follower.offset <= Len(file'[follower.inode])
             /\ \A p \in 1..follower.offset : file[follower.inode][p] = file'[follower.inode][p]
  PROVE  FollowInv'
<1>1. FollowTypes /\ Attachment /\ PendingIsRead /\ FollowsEveryByte /\ LinesAreNotMixed
  BY DEF FollowInv
<1>2. /\ follower.offset \in Nat /\ follower.pending \in Seq(Nat) /\ mark.offset \in Nat /\ mark.lines \in Nat
      /\ follower.attached \in BOOLEAN
  BY <1>1 DEF FollowTypes
<1>3. FollowTypes'
  BY <1>1 DEF FollowTypes
<1>4. ~ follower.attached => cut' = cut
  BY <1>1 DEF Attachment, Detached
<1>5. Attachment'
  BY <1>1, <1>4 DEF Attachment
<1>6. ASSUME follower.attached, cut' = "no"
      PROVE  /\ cut = "no" /\ mark.offset <= follower.offset
             /\ IsEndAt(follower.pending, file'[follower.inode], follower.offset)
             /\ IsGiven(file'[follower.inode], follower, mark, out)
  <2>1. cut = "no"
    BY <1>6
  <2>2. PICK i \in Inodes : i = follower.inode
    BY <1>1, <1>6 DEF Attachment
  <2>3. PICK s \in Seq(Nat), t \in Seq(Nat) : s = file[i] /\ t = file'[i]
    BY <1>1 DEF FollowTypes
  <2>4. mark.offset <= follower.offset /\ IsEndAt(follower.pending, s, follower.offset)
    BY <1>1, <1>6, <2>1, <2>2, <2>3, Zenon DEF PendingIsRead
  <2>5. follower.offset <= Len(s)
    BY <2>4, Zenon DEF IsEndAt
  <2>6. follower.offset <= Len(t) /\ \A p \in 1..follower.offset : s[p] = t[p]
    BY <1>6, <2>2, <2>3, <2>5, Zenon
  <2>7. SubSeq(s, mark.offset + 1, follower.offset) = SubSeq(t, mark.offset + 1, follower.offset)
    <3>1. SameUpTo(s, t, follower.offset) /\ follower.offset <= Len(t)
      BY <2>6, Zenon DEF SameUpTo
    <3>2. PICK x \in Nat, y \in Nat : x = mark.offset /\ y = follower.offset
      BY <1>2
    <3>3. SameUpTo(s, t, y) /\ y <= Len(s) /\ y <= Len(t)
      BY <2>5, <3>1, <3>2, Zenon
    <3>4. SubSeq(s, x + 1, y) = SubSeq(t, x + 1, y)
      BY <3>3, SameSubSeq
    <3> QED BY <3>2, <3>4, Zenon
  <2>8. IsGiven(s, follower, mark, out)
    BY <1>1, <1>6, <2>1, <2>2, <2>3, PropertiesAre, Zenon
  <2>9. IsGiven(t, follower, mark, out)
    BY <2>7, <2>8, Zenon DEF IsGiven
  <2>10. IsEndAt(follower.pending, t, follower.offset)
    <3>1. ASSUME NEW k \in 1..Len(follower.pending) PROVE (follower.offset - Len(follower.pending)) + k \in 1..follower.offset
      <4>1. Len(follower.pending) \in Nat /\ Len(follower.pending) <= follower.offset
        BY <1>2, <2>4 DEF IsEndAt
      <4>2. PICK l \in Nat, o \in Nat : l = Len(follower.pending) /\ o = follower.offset /\ l <= o
        BY <1>2, <4>1
      <4>3. ASSUME l <= o PROVE \A j \in 1..l : (o - l) + j \in 1..o
        BY <4>3
      <4> QED BY <4>2, <4>3, Zenon
    <3> QED BY <2>4, <2>6, <3>1, Zenon DEF IsEndAt
  <2> QED BY <2>1, <2>2, <2>3, <2>4, <2>9, <2>10, Zenon
<1>7. cut' # "missed" => cut # "missed"
  OBVIOUS
<1>8. PendingIsRead'
  BY <1>1, <1>6, <1>7, Zenon DEF PendingIsRead
<1>9. FollowsEveryByte' /\ LinesAreNotMixed'
  <2>1. /\ FollowsEveryByte' <=> (follower'.attached /\ cut' = "no" => IsGiven(file'[follower'.inode], follower', mark', out'))
        /\ LinesAreNotMixed' <=> (cut' # "missed" => ConnectedFrom(out', mark'))
    BY PropertiesAre, Zenon DEF FollowsEveryByte, LinesAreNotMixed, IsGiven, ConnectedFrom, Connected
  <2>2. cut' # "missed" => ConnectedFrom(out, mark)
    BY <1>1, <1>7, PropertiesAre, Zenon
  <2> QED BY <1>6, <2>1, <2>2, Zenon
<1> QED BY <1>3, <1>5, <1>8, <1>9 DEF FollowInv

LEMMA AppendKeeps ==
  ASSUME NEW text \in Seq(Nat), NEW n \in Nat, NEW v \in {NewLine, n + 1}, Numbered(text), EndsWith(text, n)
  PROVE  Numbered(Append(text, v)) /\ EndsWith(Append(text, v), n + 1)
<1>1. PICK t : t = Append(text, v)
  OBVIOUS
<1>2. PICK l \in Nat : l = Len(text)
  OBVIOUS
<1>3. v \in Nat /\ NewLine \in Nat
  BY DEF NewLine
<1>4. /\ t \in Seq(Nat) /\ Len(t) = l + 1 /\ DOMAIN t = 1 .. l + 1 /\ DOMAIN text = 1..l
      /\ t[l + 1] = v
      /\ \A p \in 1..l : t[p] = text[p]
  BY <1>1, <1>2, <1>3
<1>5. ASSUME NEW p \in 1 .. l + 1, t[p] # NewLine PROVE t[p] + (l + 1) = (n + 1) + p
  <2>1. CASE p = l + 1
    <3>1. t[p] = n + 1
      BY <1>4, <1>5, <2>1, Zenon
    <3> QED BY <2>1, <3>1
  <2>2. CASE p # l + 1
    <3>1. p \in 1..l
      BY <2>2
    <3>2. PICK x \in Nat : x = text[p] /\ t[p] = x
      BY <1>4, <3>1
    <3>3. x + l = n + p
      BY <1>2, <1>4, <1>5, <3>1, <3>2, Zenon DEF EndsWith
    <3>4. x + (l + 1) = (n + 1) + p
      BY <3>1, <3>3
    <3> QED BY <3>2, <3>4, Zenon
  <2> QED BY <2>1, <2>2
<1>6. EndsWith(t, n + 1)
  BY <1>4, <1>5, Zenon DEF EndsWith
<1>7. ASSUME NEW p \in 1 .. l + 1, NEW q \in 1 .. l + 1, t[p] # NewLine, t[q] # NewLine PROVE t[p] + q = t[q] + p
  <2>1. t[p] + (l + 1) = (n + 1) + p /\ t[q] + (l + 1) = (n + 1) + q
    BY <1>5, <1>7
  <2>2. PICK x \in Nat, y \in Nat : x = t[p] /\ y = t[q]
    BY <1>4
  <2>3. x + (l + 1) = (n + 1) + p /\ y + (l + 1) = (n + 1) + q
    BY <2>1, <2>2, Zenon
  <2>4. x + q = y + p
    BY <2>3
  <2> QED BY <2>2, <2>4, Zenon
<1>8. Numbered(t)
  BY <1>4, <1>7, Zenon DEF Numbered
<1> QED BY <1>1, <1>6, <1>8, Zenon

LEMMA WriteLogKeeps ==
  ASSUME FollowInv, WriteLog
  PROVE  FollowInv'
<1>1. PICK b \in {NewLine, 1} : Append1(path, b)
  BY DEF WriteLog
<1>2. PICK v : v = IF b = NewLine THEN NewLine ELSE written + 1
  OBVIOUS
<1>3. /\ written' = written + 1 /\ file' = [file EXCEPT ![path] = Append(@, v)] /\ path' = path
      /\ follower' = follower /\ opened' = opened /\ out' = out /\ mark' = mark /\ cut' = cut
  BY <1>1, <1>2 DEF Append1
<1>4. written \in Nat /\ file \in [Inodes -> Seq(Nat)] /\ path \in Inodes /\ follower.offset \in Nat
  BY DEF WriteLog, FollowInv, FollowTypes
<1>5. v \in {NewLine, written + 1} /\ v \in Nat
  BY <1>2, <1>4 DEF NewLine
<1>6. /\ file' \in [Inodes -> Seq(Nat)]
      /\ file'[path] = Append(file[path], v)
      /\ \A i \in Inodes : i # path => file'[i] = file[i]
  BY <1>3, <1>4, <1>5
<1>7. FilesAreNumbered'
  <2>1. (\A i \in Inodes : Numbered(file[i])) /\ EndsWith(file[path], written)
    BY DEF FollowInv, FilesAreNumbered, WriteLog
  <2>2. Numbered(Append(file[path], v)) /\ EndsWith(Append(file[path], v), written + 1)
    BY <1>4, <1>5, <2>1, AppendKeeps
  <2> QED BY <1>3, <1>6, <2>1, <2>2, Zenon DEF FilesAreNumbered
<1>8. ASSUME NEW i \in Inodes, follower.offset <= Len(file[i])
      PROVE  /\ follower.offset <= Len(file'[i])
             /\ \A p \in 1..follower.offset : file[i][p] = file'[i][p]
  <2>1. PICK s \in Seq(Nat) : s = file[i]
    BY <1>4
  <2>2. file'[i] = s \/ file'[i] = Append(s, v)
    BY <1>6, <2>1
  <2>3. PICK t : t = Append(s, v)
    OBVIOUS
  <2>4. Len(t) = Len(s) + 1 /\ \A p \in 1..Len(s) : t[p] = s[p]
    BY <1>5, <2>3
  <2>5. follower.offset <= Len(t) /\ \A p \in 1..follower.offset : s[p] = t[p]
    BY <1>4, <1>8, <2>1, <2>4
  <2> QED BY <1>8, <2>1, <2>2, <2>3, <2>5, Zenon
<1>9. follower.attached => follower.inode \in Inodes
  BY DEF FollowInv, Attachment
<1> QED BY <1>3, <1>4, <1>6, <1>7, <1>8, <1>9, ServiceKeeps

LEMMA EmptiedKeeps ==
  ASSUME FollowInv, NEW i \in Inodes,
         file' = [file EXCEPT ![i] = <<>>], path' = i, written' = written, Lost(i),
         follower' = follower, opened' = opened, out' = out, mark' = mark
  PROVE  FollowInv'
<1>1. written \in Nat /\ file \in [Inodes -> Seq(Nat)] /\ follower.offset \in Nat /\ cut \in {"no", "cut", "missed"}
  BY DEF FollowInv, FollowTypes
<1>2. /\ file' \in [Inodes -> Seq(Nat)] /\ file'[i] = <<>>
      /\ \A j \in Inodes : j # i => file'[j] = file[j]
  BY <1>1
<1>3. FilesAreNumbered'
  <2>1. \A j \in Inodes : Numbered(file[j])
    BY DEF FollowInv, FilesAreNumbered
  <2> QED BY <1>2, <2>1, EmptyText, Zenon DEF FilesAreNumbered
<1>4. cut' = IF i = follower.inode /\ follower.offset > 0 /\ cut = "no" THEN "cut" ELSE cut
  BY DEF Lost
<1>5. ASSUME follower.attached, cut' = "no", follower.offset <= Len(file[follower.inode])
      PROVE  /\ follower.offset <= Len(file'[follower.inode])
             /\ \A p \in 1..follower.offset : file[follower.inode][p] = file'[follower.inode][p]
  <2>1. follower.inode \in Inodes
    BY <1>5 DEF FollowInv, Attachment
  <2>2. CASE follower.inode = i
    <3>1. follower.offset = 0
      BY <1>1, <1>4, <1>5, <2>2
    <3>2. Len(file'[follower.inode]) = 0
      BY <1>2, <2>2, EmptyText, Zenon
    <3> QED BY <3>1, <3>2
  <2>3. CASE follower.inode # i
    BY <1>2, <1>5, <2>1, <2>3, Zenon
  <2> QED BY <2>2, <2>3
<1> QED BY <1>1, <1>2, <1>3, <1>4, <1>5, ServiceKeeps

LEMMA ServiceStepKeeps ==
  ASSUME FollowInv, Service
  PROVE  FollowInv'
<1>1. CASE WriteLog
  BY <1>1, WriteLogKeeps
<1>2. CASE TruncateLog
  <2>1. path \in Inodes
    BY <1>2 DEF TruncateLog, FollowInv, FollowTypes
  <2> QED BY <1>2, <2>1, EmptiedKeeps, Zenon DEF TruncateLog
<1>3. ASSUME NEW deleted \in BOOLEAN, MoveLog(deleted) PROVE FollowInv'
  <2>1. /\ path' = NoLog /\ file' = file /\ written' = written /\ follower' = follower /\ opened' = opened
        /\ out' = out /\ mark' = mark /\ cut' = cut
    BY <1>3 DEF MoveLog
  <2>2. written' \in Nat /\ file' \in [Inodes -> Seq(Nat)] /\ path' \in Inodes \cup {NoLog}
    BY <2>1 DEF FollowInv, FollowTypes
  <2>3. FilesAreNumbered'
    BY <2>1, Zenon DEF FollowInv, FilesAreNumbered
  <2> QED BY <2>1, <2>2, <2>3, ServiceKeeps
<1>4. CASE CreateLog
  <2>1. PICK i \in Inodes \ (linked \cup {opened}) :
           path' = i /\ linked' = linked \cup {i} /\ file' = [file EXCEPT ![i] = <<>>] /\ Lost(i)
    BY <1>4 DEF CreateLog
  <2>2. i \in Inodes
    OBVIOUS
  <2>3. written' = written /\ follower' = follower /\ opened' = opened /\ out' = out /\ mark' = mark
    BY <1>4 DEF CreateLog
  <2> QED BY <2>1, <2>2, <2>3, EmptiedKeeps, Zenon
<1> QED BY <1>1, <1>2, <1>3, <1>4, Zenon DEF Service

-----------------------------------------------------------------------------
\* What forward does: a file is read from where it begins or from where it was left.
LEMMA StaleKeeps ==
  ASSUME FollowInv, PendingGetsStale
  PROVE  FollowInv'
<1>1. /\ follower' = [follower EXCEPT !.stale = TRUE]
      /\ opened' = opened /\ out' = out /\ mark' = mark /\ cut' = cut
      /\ file' = file /\ linked' = linked /\ path' = path /\ written' = written
      /\ follower.pending # <<>>
  BY DEF PendingGetsStale, serviceSide
<1>2. FollowTypes /\ FilesAreNumbered /\ Attachment /\ PendingIsRead /\ FollowsEveryByte /\ LinesAreNotMixed
  BY DEF FollowInv
<1>3. follower \in [inode : Inodes \cup {NoLog}, offset : Nat, pending : Seq(Nat), stale : BOOLEAN, attached : BOOLEAN]
  BY <1>2 DEF FollowTypes
<1>4. /\ follower'.inode = follower.inode /\ follower'.offset = follower.offset /\ follower'.pending = follower.pending
      /\ follower'.attached = follower.attached
      /\ follower' \in [inode : Inodes \cup {NoLog}, offset : Nat, pending : Seq(Nat), stale : BOOLEAN, attached : BOOLEAN]
  BY <1>1, <1>3
<1>5. FollowTypes' /\ FilesAreNumbered'
  BY <1>1, <1>2, <1>4 DEF FollowTypes, FilesAreNumbered
<1>6. follower.attached
  BY <1>1, <1>2 DEF Attachment, Detached
<1>7. Attachment'
  BY <1>1, <1>2, <1>4, <1>6 DEF Attachment
<1>8. PendingIsRead'
  BY <1>1, <1>2, <1>4, Zenon DEF PendingIsRead
<1>9. FollowsEveryByte' /\ LinesAreNotMixed'
  BY <1>1, <1>2, <1>4, Zenon DEF FollowsEveryByte, LinesAreNotMixed
<1> QED BY <1>5, <1>7, <1>8, <1>9 DEF FollowInv

\* A file that is followed from now on.
LEMMA BeginningKeeps ==
  ASSUME FollowTypes, FilesAreNumbered,
         NEW i \in Inodes, opened' \in {NoLog, i},
         file' = file, path' = path, written' = written,
         follower' \in [inode : Inodes \cup {NoLog}, offset : Nat, pending : Seq(Nat), stale : BOOLEAN, attached : BOOLEAN],
         follower'.inode = i, follower'.pending = <<>>, follower'.attached, follower'.offset <= Len(file[i]),
         mark' = [offset |-> follower'.offset, lines |-> Len(out')],
         out' \in Seq(Seq(Nat)), cut' = "no"
  PROVE  FollowInv'
<1>1. follower'.offset \in Nat /\ Len(out') \in Nat
  OBVIOUS
<1>2. mark' \in [offset : Nat, lines : Nat] /\ mark'.offset = follower'.offset /\ mark'.lines = Len(out')
  BY <1>1
<1>3. FollowTypes'
  <2>1. opened' \in Inodes \cup {NoLog}
    OBVIOUS
  <2> QED BY <1>2, <2>1 DEF FollowTypes
<1>4. FilesAreNumbered'
  BY Zenon DEF FilesAreNumbered
<1>5. Attachment'
  BY <1>1, <1>2 DEF Attachment
<1>6. PendingIsRead'
  <2>1. (\A k \in 1..Len(<<>>) : FALSE) /\ 0 <= follower'.offset /\ follower'.offset <= follower'.offset
    BY <1>1
  <2>2. IsEndAt(<<>>, file[i], follower'.offset)
    BY <2>1, EmptyText, Zenon DEF IsEndAt
  <2> QED BY <1>2, <2>1, <2>2, EmptyText, Zenon DEF PendingIsRead
<1>7. FollowsEveryByte' /\ LinesAreNotMixed'
  <2>1. /\ FollowsEveryByte' <=> (follower'.attached /\ cut' = "no" => IsGiven(file'[follower'.inode], follower', mark', out'))
        /\ LinesAreNotMixed' <=> (cut' # "missed" => ConnectedFrom(out', mark'))
    BY Zenon DEF FollowsEveryByte, LinesAreNotMixed, IsGiven, ConnectedFrom, Connected
  <2>2. PICK given, f, m : given = out' /\ f = follower' /\ m = mark'
    OBVIOUS
  <2>3. IsGiven(file[i], f, m, given) /\ ConnectedFrom(given, m)
    BY <1>1, <1>2, <2>2, NothingIsGiven
  <2> QED BY <2>1, <2>2, <2>3, Zenon
<1> QED BY <1>3, <1>4, <1>5, <1>6, <1>7 DEF FollowInv

LEMMA AttachKeeps ==
  ASSUME FollowInv, Attach
  PROVE  FollowInv'
<1>1. FollowTypes /\ FilesAreNumbered
  BY DEF FollowInv
<1>2. file \in [Inodes -> Seq(Nat)] /\ path \in Inodes /\ out \in Seq(Seq(Nat))
  BY <1>1 DEF FollowTypes, Attach
<1>3. PICK text \in Seq(Nat) : text = file[path]
  BY <1>2
<1>4. /\ follower' = [Detached EXCEPT !.inode = path, !.offset = Len(text), !.attached = TRUE]
      /\ out' = out \o Tail10(text) /\ mark' = [offset |-> Len(text), lines |-> Len(out')] /\ cut' = "no"
      /\ opened' = NoLog /\ file' = file /\ path' = path /\ written' = written
  BY <1>3 DEF Attach, serviceSide
<1>5. out' \in Seq(Seq(Nat))
  <2>1. PICK lines \in Seq(Seq(Nat)) : lines = Tail10(text)
    BY TailTyped
  <2>2. out \o lines \in Seq(Seq(Nat))
    BY <1>2, <2>1, ConcatProperties
  <2> QED BY <1>4, <2>1, <2>2, Zenon
<1>6. /\ follower'.inode = path /\ follower'.pending = <<>> /\ follower'.attached /\ follower'.offset = Len(text)
      /\ follower' \in [inode : Inodes \cup {NoLog}, offset : Nat, pending : Seq(Nat), stale : BOOLEAN, attached : BOOLEAN]
  <2>1. Len(text) \in Nat /\ <<>> \in Seq(Nat) /\ TRUE \in BOOLEAN /\ FALSE \in BOOLEAN
    OBVIOUS
  <2>2. follower' = [inode |-> path, offset |-> Len(text), pending |-> <<>>, stale |-> FALSE, attached |-> TRUE]
    BY <1>4 DEF Detached
  <2>3. follower'.attached = TRUE
    BY <2>2
  <2>4. /\ follower'.inode = path /\ follower'.pending = <<>> /\ follower'.offset = Len(text)
        /\ follower' \in [inode : Inodes \cup {NoLog}, offset : Nat, pending : Seq(Nat), stale : BOOLEAN, attached : BOOLEAN]
    BY <1>2, <2>1, <2>2
  <2> QED BY <2>3, <2>4, Zenon
<1>7. opened' \in {NoLog, path} /\ Len(text) <= Len(text) /\ mark' = [offset |-> follower'.offset, lines |-> Len(out')]
  BY <1>4, <1>6
<1> QED BY <1>1, <1>2, <1>3, <1>4, <1>5, <1>6, <1>7, BeginningKeeps

LEMMA OpenLogKeeps ==
  ASSUME FollowInv, OpenLog
  PROVE  FollowInv'
<1>1. FollowTypes /\ FilesAreNumbered /\ Attachment /\ PendingIsRead /\ FollowsEveryByte /\ LinesAreNotMixed
  BY DEF FollowInv
<1>2. /\ follower \in [inode : Inodes \cup {NoLog}, offset : Nat, pending : Seq(Nat), stale : BOOLEAN, attached : BOOLEAN]
      /\ file \in [Inodes -> Seq(Nat)] /\ path \in Inodes /\ out \in Seq(Seq(Nat)) /\ follower.attached
  BY <1>1 DEF FollowTypes, OpenLog
<1>3. opened' = path /\ out' = out /\ file' = file /\ path' = path /\ written' = written
  BY DEF OpenLog, serviceSide
<1>4. CASE path # follower.inode \/ Truncated(Len(file[path]))
  <2>1. /\ follower' = [ResetTo(0) EXCEPT !.inode = path] /\ mark' = [offset |-> 0, lines |-> Len(out)] /\ cut' = "no"
    BY <1>4, Zenon DEF OpenLog
  <2>2. /\ follower'.inode = path /\ follower'.pending = <<>> /\ follower'.attached /\ follower'.offset = 0
        /\ follower' \in [inode : Inodes \cup {NoLog}, offset : Nat, pending : Seq(Nat), stale : BOOLEAN, attached : BOOLEAN]
    <3>1. <<>> \in Seq(Nat) /\ FALSE \in BOOLEAN /\ 0 \in Nat
      OBVIOUS
    <3>2. follower'.attached = follower.attached
      BY <1>2, <2>1 DEF ResetTo
    <3>3. /\ follower'.inode = path /\ follower'.pending = <<>> /\ follower'.offset = 0
          /\ follower' \in [inode : Inodes \cup {NoLog}, offset : Nat, pending : Seq(Nat), stale : BOOLEAN, attached : BOOLEAN]
      BY <1>2, <2>1, <3>1 DEF ResetTo
    <3> QED BY <1>2, <3>2, <3>3, Zenon
  <2>3. 0 <= Len(file[path]) /\ opened' \in {NoLog, path} /\ mark' = [offset |-> follower'.offset, lines |-> Len(out')]
    BY <1>2, <1>3, <2>1, <2>2
  <2> QED BY <1>1, <1>2, <1>3, <2>1, <2>2, <2>3, BeginningKeeps
<1>5. CASE ~(path # follower.inode \/ Truncated(Len(file[path])))
  <2>1. follower' = follower /\ mark' = mark /\ cut' = IF cut = "cut" THEN "missed" ELSE cut
    BY <1>5, Zenon DEF OpenLog
  <2>2. (cut' = "no" => cut = "no") /\ (cut' # "missed" => cut # "missed") /\ cut' \in {"no", "cut", "missed"}
    BY <1>1, <2>1 DEF FollowTypes
  <2>3. FollowTypes'
    BY <1>1, <1>2, <1>3, <2>1, <2>2 DEF FollowTypes
  <2>4. FilesAreNumbered'
    BY <1>1, <1>3, Zenon DEF FilesAreNumbered
  <2>5. Attachment'
    BY <1>1, <1>2, <1>3, <1>5, <2>1 DEF Attachment
  <2>6. PendingIsRead'
    BY <1>1, <1>3, <2>1, <2>2, Zenon DEF PendingIsRead
  <2>7. FollowsEveryByte' /\ LinesAreNotMixed'
    BY <1>1, <1>3, <2>1, <2>2, Zenon DEF FollowsEveryByte, LinesAreNotMixed
  <2> QED BY <2>3, <2>4, <2>5, <2>6, <2>7 DEF FollowInv
<1> QED BY <1>4, <1>5

-----------------------------------------------------------------------------
\* One more read of the same file.
LEMMA MoreGiven ==
  ASSUME NEW given \in Seq(Seq(Nat)), NEW lines \in Seq(Seq(Nat)), NEW m, m.lines \in Nat, m.lines <= Len(given)
  PROVE  /\ given \o lines \in Seq(Seq(Nat)) /\ m.lines <= Len(given \o lines)
         /\ FlattenSeq(SubSeq(given \o lines, m.lines + 1, Len(given \o lines)))
                = FlattenSeq(SubSeq(given, m.lines + 1, Len(given))) \o FlattenSeq(lines)
         /\ ConnectedFrom(given, m) /\ AllConnected(lines) => ConnectedFrom(given \o lines, m)
<1>1. PICK all : all = given \o lines
  OBVIOUS
<1>2. PICK x \in Nat, y \in Nat, z \in Nat : x = m.lines /\ y = Len(given) /\ z = Len(lines)
  OBVIOUS
<1>3. /\ all \in Seq(Seq(Nat)) /\ Len(all) = y + z
      /\ \A i \in 1 .. y + z : all[i] = IF i <= y THEN given[i] ELSE lines[i - y]
  <2>1. /\ given \o lines \in Seq(Seq(Nat)) /\ Len(given \o lines) = Len(given) + Len(lines)
        /\ \A i \in 1 .. Len(given) + Len(lines) :
              (given \o lines)[i] = IF i <= Len(given) THEN given[i] ELSE lines[i - Len(given)]
    BY ConcatProperties
  <2> QED BY <1>1, <1>2, <2>1, Zenon
<1>4. x <= y /\ y <= y + z /\ x <= y + z
  BY <1>2
<1>5. PICK a : a = SubSeq(given, x + 1, y)
  OBVIOUS
<1>6. PICK b : b = SubSeq(all, x + 1, y + z)
  OBVIOUS
<1>7. a \in Seq(Seq(Nat)) /\ Len(a) = y - x /\ \A j \in 1 .. y - x : a[j] = given[x + j]
  <2>1. y <= Len(given)
    BY <1>2
  <2>2. /\ SubSeq(given, x + 1, y) \in Seq(Seq(Nat)) /\ Len(SubSeq(given, x + 1, y)) = y - x
        /\ \A j \in 1 .. y - x : SubSeq(given, x + 1, y)[j] = given[x + j]
    BY <1>4, <2>1, SubSeqIs
  <2> QED BY <1>5, <2>2, Zenon
<1>8. b \in Seq(Seq(Nat)) /\ Len(b) = (y + z) - x /\ \A j \in 1 .. (y + z) - x : b[j] = all[x + j]
  <2>1. PICK u \in Nat : u = y + z
    OBVIOUS
  <2>4. all \in Seq(Seq(Nat))
    BY <1>3
  <2>2. u <= Len(all) /\ x <= u
    BY <1>3, <1>4, <2>1
  <2>3. /\ SubSeq(all, x + 1, u) \in Seq(Seq(Nat)) /\ Len(SubSeq(all, x + 1, u)) = u - x
        /\ \A j \in 1 .. u - x : SubSeq(all, x + 1, u)[j] = all[x + j]
    BY <2>2, <2>4, SubSeqIs
  <2> QED BY <1>6, <2>1, <2>3, Zenon
<1>9. PICK c : c = a \o lines
  OBVIOUS
<1>10. /\ c \in Seq(Seq(Nat)) /\ Len(c) = (y - x) + z
       /\ \A j \in 1 .. (y - x) + z : c[j] = IF j <= y - x THEN a[j] ELSE lines[j - (y - x)]
  <2>1. /\ a \o lines \in Seq(Seq(Nat)) /\ Len(a \o lines) = Len(a) + Len(lines)
        /\ \A j \in 1 .. Len(a) + Len(lines) :
              (a \o lines)[j] = IF j <= Len(a) THEN a[j] ELSE lines[j - Len(a)]
    BY <1>7, ConcatProperties
  <2> QED BY <1>2, <1>7, <1>9, <2>1, Zenon
<1>11. (y + z) - x = (y - x) + z
  OBVIOUS
<1>12. ASSUME NEW j \in 1 .. (y - x) + z PROVE b[j] = c[j]
  <2>1. x + j \in 1 .. y + z /\ b[j] = all[x + j]
    BY <1>8, <1>11
  <2>2. CASE j <= y - x
    <3>1. x + j <= y /\ j \in 1 .. y - x
      BY <2>2
    <3> QED BY <1>3, <1>7, <1>10, <2>1, <2>2, <3>1, Zenon
  <2>3. CASE ~(j <= y - x)
    <3>1. ~(x + j <= y) /\ (x + j) - y = j - (y - x)
      BY <2>3
    <3> QED BY <1>3, <1>10, <2>1, <2>3, <3>1, Zenon
  <2> QED BY <2>2, <2>3
<1>13. b = c
  <2>1. Len(b) = Len(c) /\ \A j \in 1..Len(b) : b[j] = c[j]
    BY <1>8, <1>10, <1>11, <1>12, Zenon
  <2> QED BY <1>8, <1>10, <2>1, SeqEqual
<1>14. FlattenSeq(b) = FlattenSeq(a) \o FlattenSeq(lines)
  <2>1. FlattenSeq(a \o lines) = FlattenSeq(a) \o FlattenSeq(lines)
    BY <1>7, FlattenSeqOfConcat
  <2> QED BY <1>9, <1>13, <2>1, Zenon
<1>15. ASSUME ConnectedFrom(given, m), AllConnected(lines), NEW k \in x + 1 .. y + z PROVE Connected(all[k])
  <2>1. k \in 1 .. y + z
    OBVIOUS
  <2>2. CASE k <= y
    <3>1. k \in x + 1 .. y
      BY <2>2
    <3> QED BY <1>2, <1>3, <1>15, <2>1, <2>2, <3>1, Zenon DEF ConnectedFrom
  <2>3. CASE ~(k <= y)
    <3>1. k - y \in 1..z
      BY <2>3
    <3> QED BY <1>2, <1>3, <1>15, <2>1, <2>3, <3>1, Zenon DEF AllConnected
  <2> QED BY <2>2, <2>3
<1>16. ConnectedFrom(given, m) /\ AllConnected(lines) => ConnectedFrom(all, m)
  BY <1>2, <1>3, <1>15, Zenon DEF ConnectedFrom
<1> QED BY <1>1, <1>2, <1>3, <1>4, <1>5, <1>6, <1>14, <1>16, Zenon

LEMMA NumberedIsSteady ==
  ASSUME NEW text \in Seq(Nat), Numbered(text), NEW i \in 1 .. Len(text) - 1,
         text[i] # NewLine, text[i + 1] # NewLine
  PROVE  text[i + 1] = text[i] + 1
<1>1. i \in DOMAIN text /\ i + 1 \in DOMAIN text
  OBVIOUS
<1>2. text[i + 1] + i = text[i] + (i + 1)
  BY <1>1, Zenon DEF Numbered
<1>3. PICK x \in Nat, y \in Nat : x = text[i] /\ y = text[i + 1]
  BY <1>1
<1>4. y + i = x + (i + 1)
  BY <1>2, <1>3, Zenon
<1>5. y = x + 1
  BY <1>4
<1> QED BY <1>3, <1>5, Zenon

\* What is pending and what is read after it are a part of the file.
IsPart(text, f, pending, o, end) ==
    /\ text \in Seq(Nat) /\ Len(text) = Len(pending) + (end - o) /\ Len(text) <= end
    /\ \A k \in 1..Len(text) : text[k] = f[(o - Len(pending)) + k]
    /\ Steady(text)

LEMMA ReadIsPart ==
  ASSUME NEW f \in Seq(Nat), NEW pending \in Seq(Nat), NEW o \in Nat, NEW e \in Nat, o <= e, e <= Len(f),
         Numbered(f), IsEndAt(pending, f, o),
         NEW text, text = pending \o SubSeq(f, o + 1, e)
  PROVE  IsPart(text, f, pending, o, e)
<1>1. PICK c : c = SubSeq(f, o + 1, e)
  OBVIOUS
<1>2. c \in Seq(Nat) /\ Len(c) = e - o /\ \A j \in 1 .. e - o : c[j] = f[o + j]
  <2>1. /\ SubSeq(f, o + 1, e) \in Seq(Nat) /\ Len(SubSeq(f, o + 1, e)) = e - o
        /\ \A j \in 1 .. e - o : SubSeq(f, o + 1, e)[j] = f[o + j]
    BY SubSeqIs
  <2> QED BY <1>1, <2>1, Zenon
<1>3. PICK l \in Nat, x \in Nat : l = Len(pending) /\ l <= o /\ x = o - l
  BY DEF IsEndAt
<1>4. \A k \in 1..l : pending[k] = f[x + k]
  BY <1>3, Zenon DEF IsEndAt
<1>5. /\ text \in Seq(Nat) /\ Len(text) = l + (e - o)
      /\ \A k \in 1 .. l + (e - o) : text[k] = IF k <= l THEN pending[k] ELSE c[k - l]
  <2>1. /\ pending \o c \in Seq(Nat) /\ Len(pending \o c) = Len(pending) + Len(c)
        /\ \A k \in 1 .. Len(pending) + Len(c) : (pending \o c)[k] = IF k <= Len(pending) THEN pending[k] ELSE c[k - Len(pending)]
    <3>1. c \in Seq(Nat)
      BY <1>2
    <3> QED BY <3>1, ConcatProperties
  <2> QED BY <1>1, <1>2, <1>3, <2>1, Zenon
<1>6. ASSUME NEW k \in 1 .. l + (e - o) PROVE text[k] = f[x + k]
  <2>1. CASE k <= l
    <3>1. k \in 1..l
      BY <2>1
    <3> QED BY <1>4, <1>5, <2>1, <3>1, Zenon
  <2>2. CASE ~(k <= l)
    <3>1. k - l \in 1 .. e - o /\ o + (k - l) = x + k
      BY <1>3, <2>2
    <3> QED BY <1>2, <1>5, <2>2, <3>1, Zenon
  <2> QED BY <2>1, <2>2
<1>7. ASSUME NEW i \in 1 .. Len(text) - 1, text[i] # NewLine, text[i + 1] # NewLine PROVE text[i + 1] = text[i] + 1
  <2>1. /\ i \in 1 .. l + (e - o) /\ i + 1 \in 1 .. l + (e - o)
        /\ x + i \in 1 .. Len(f) - 1 /\ x + (i + 1) = (x + i) + 1
    BY <1>3, <1>5
  <2>2. text[i] = f[x + i] /\ text[i + 1] = f[(x + i) + 1]
    BY <1>6, <2>1, Zenon
  <2>3. PICK j \in 1 .. Len(f) - 1 : j = x + i
    BY <2>1
  <2>4. f[j] # NewLine /\ f[j + 1] # NewLine
    BY <1>7, <2>2, <2>3, Zenon
  <2>5. f[j + 1] = f[j] + 1
    BY <2>4, NumberedIsSteady
  <2> QED BY <2>2, <2>3, <2>5, Zenon
<1>8. Steady(text)
  BY <1>7, Zenon DEF Steady
<1>9. Len(text) <= e
  BY <1>3, <1>5
<1> QED BY <1>3, <1>5, <1>6, <1>8, <1>9, Zenon DEF IsPart

\* What Consume leaves are the last characters again.
LEMMA RestIsEnd ==
  ASSUME NEW f \in Seq(Nat), NEW o \in Nat, NEW e \in Nat, o <= e, e <= Len(f),
         NEW l \in Nat, l <= o, NEW text \in Seq(Nat), NEW rest \in Seq(Nat),
         Len(text) = l + (e - o), \A k \in 1..Len(text) : text[k] = f[(o - l) + k],
         Len(rest) <= Len(text), \A j \in 1..Len(rest) : rest[j] = text[(Len(text) - Len(rest)) + j]
  PROVE  IsEndAt(rest, f, e)
<1>1. PICK n \in Nat, r \in Nat : n = Len(text) /\ r = Len(rest)
  <2>1. Len(text) \in Nat /\ Len(rest) \in Nat
    BY LenProperties
  <2> QED BY <2>1, Zenon
<1>2. n = l + (e - o) /\ r <= n /\ r <= e
  BY <1>1
<1>3. ASSUME NEW j \in 1..r PROVE rest[j] = f[(e - r) + j]
  <2>1. (n - r) + j \in 1..n /\ (o - l) + ((n - r) + j) = (e - r) + j
    BY <1>2
  <2>2. rest[j] = text[(n - r) + j] /\ text[(n - r) + j] = f[(o - l) + ((n - r) + j)]
    BY <1>1, <2>1, Zenon
  <2> QED BY <2>1, <2>2, Zenon
<1> QED BY <1>1, <1>2, <1>3, Zenon DEF IsEndAt

LEMMA SameRegrouped ==
  ASSUME NEW a, NEW b, NEW c, NEW d, NEW e,
         a \in Seq(Nat), b \in Seq(Nat), c \in Seq(Nat), d \in Seq(Nat), e \in Seq(Nat),
         Joined(b, c) = Joined(d, e)
  PROVE  Joined(Joined(a, b), c) = Joined(Joined(a, d), e)
<1>1. Joined(Joined(a, b), c) = Joined(a, Joined(b, c))
  BY JoinedIsAssociative
<1>2. Joined(Joined(a, d), e) = Joined(a, Joined(d, e))
  BY JoinedIsAssociative
<1> QED BY <1>1, <1>2, Zenon

IsGivenUpTo(text, x, o, given, n, rest) ==
    Characters(SubSeq(text, x + 1, o)) = FlattenSeq(SubSeq(given, n + 1, Len(given))) \o rest

LEMMA MoreIsGiven ==
  ASSUME NEW f \in Seq(Nat), NEW x \in Nat, NEW o \in Nat, NEW e \in Nat, x <= o, o <= e, e <= Len(f),
         NEW given \in Seq(Seq(Nat)), NEW n \in Nat, n <= Len(given),
         NEW p \in Seq(Nat), NoNewLine(p), IsGivenUpTo(f, x, o, given, n, p),
         NEW lines \in Seq(Seq(Nat)), NEW rest \in Seq(Nat),
         FlattenSeq(lines) \o rest = Characters(p \o SubSeq(f, o + 1, e))
  PROVE  IsGivenUpTo(f, x, e, given \o lines, n, rest)
<1>2. x + 1 \in 1 .. Len(f) + 1 /\ o \in (x + 1) - 1 .. Len(f) /\ e \in o .. Len(f)
  <2>1. PICK size \in Nat : size = Len(f)
    BY LenProperties
  <2>2. x <= o /\ o <= e /\ e <= size
    BY <2>1, Zenon
  <2>3. x + 1 \in 1 .. size + 1 /\ o \in (x + 1) - 1 .. size /\ e \in o .. size
    BY <2>2
  <2> QED BY <2>1, <2>3, Zenon
<1>3. SubSeq(f, x + 1, o) \o SubSeq(f, o + 1, e) = SubSeq(f, x + 1, e)
  BY <1>2, ConcatAdjacentSubSeq
<1>4. PICK a, c : a = SubSeq(f, x + 1, o) /\ c = SubSeq(f, o + 1, e)
  OBVIOUS
<1>5. a \in Seq(Nat) /\ c \in Seq(Nat)
  <2>1. x <= o /\ o <= Len(f)
    OBVIOUS
  <2>2. SubSeq(f, x + 1, o) \in Seq(Nat) /\ SubSeq(f, o + 1, e) \in Seq(Nat)
    BY <2>1, SubSeqIs
  <2> QED BY <1>4, <2>2, Zenon
<1>8. PICK s : s = SubSeq(given, n + 1, Len(given))
  OBVIOUS
<1>9. s \in Seq(Seq(Nat))
  <2>1. Len(given) \in Nat /\ Len(given) <= Len(given)
    OBVIOUS
  <2>2. SubSeq(given, n + 1, Len(given)) \in Seq(Seq(Nat))
    BY <2>1, SubSeqIs
  <2> QED BY <1>8, <2>2, Zenon
<1>10. Characters(a) = FlattenSeq(s) \o p
  BY <1>4, <1>8, Zenon DEF IsGivenUpTo
<1>11. Characters(a \o c) = Characters(a) \o Characters(c)
  BY <1>5, CharactersOfConcat
<1>12. p \o Characters(c) = FlattenSeq(lines) \o rest
  <2>1. Characters(p \o c) = Characters(p) \o Characters(c)
    BY <1>5, CharactersOfConcat
  <2>2. Characters(p) = p
    BY CharactersOfLine
  <2> QED BY <1>4, <2>1, <2>2, Zenon
<1>13. FlattenSeq(SubSeq(given \o lines, n + 1, Len(given \o lines))) = FlattenSeq(s) \o FlattenSeq(lines)
  <2>1. PICK m : m = [lines |-> n]
    OBVIOUS
  <2>2. m.lines = n
    BY <2>1
  <2> QED BY <1>8, <2>2, MoreGiven, Zenon
<1>14. (FlattenSeq(s) \o p) \o Characters(c) = (FlattenSeq(s) \o FlattenSeq(lines)) \o rest
  <2>1. PICK u, v, w : u = FlattenSeq(s) /\ v = FlattenSeq(lines) /\ w = Characters(c)
    OBVIOUS
  <2>2. u \in Seq(Nat) /\ v \in Seq(Nat) /\ w \in Seq(Nat)
    BY <1>5, <1>9, <2>1, FlattenSeqTyped, CharactersTyped, Zenon
  <2>3. p \o w = v \o rest
    BY <1>12, <2>1, Zenon
  <2>4. Joined(p, w) = Joined(v, rest)
    BY <2>3, Zenon DEF Joined
  <2>5. p \in Seq(Nat) /\ rest \in Seq(Nat)
    OBVIOUS
  <2>6. Joined(Joined(u, p), w) = Joined(Joined(u, v), rest)
    BY <2>2, <2>4, <2>5, SameRegrouped
  <2>7. (u \o p) \o w = (u \o v) \o rest
    BY <2>6, Zenon DEF Joined
  <2> QED BY <2>1, <2>7, Zenon
<1> QED BY <1>3, <1>4, <1>10, <1>11, <1>13, <1>14, Zenon DEF IsGivenUpTo

LEMMA ReadLogKeeps ==
  ASSUME FollowInv, ReadLog
  PROVE  FollowInv'
<1>1. FollowTypes /\ FilesAreNumbered /\ Attachment /\ PendingIsRead /\ FollowsEveryByte /\ LinesAreNotMixed
  BY DEF FollowInv
<1>2. /\ follower \in [inode : Inodes \cup {NoLog}, offset : Nat, pending : Seq(Nat), stale : BOOLEAN, attached : BOOLEAN]
      /\ file \in [Inodes -> Seq(Nat)] /\ out \in Seq(Seq(Nat)) /\ opened \in Inodes
      /\ mark \in [offset : Nat, lines : Nat] /\ cut \in {"no", "cut", "missed"}
  BY <1>1 DEF FollowTypes, ReadLog
<1>3. opened = follower.inode /\ follower.attached /\ mark.lines <= Len(out)
  BY <1>1 DEF Attachment, ReadLog
<1>4. PICK f \in Seq(Nat) : f = file[opened]
  BY <1>2
<1>5. PICK o \in Nat, size \in Nat, end \in Nat :
         /\ o = follower.offset /\ size = Len(f) /\ end = Min({size, o + ReadLimit})
         /\ end <= size /\ (o <= size => o <= end)
  <2>1. PICK o \in Nat, size \in Nat, limit \in Nat : o = follower.offset /\ size = Len(f) /\ limit = o + ReadLimit /\ o <= limit
    BY <1>2, FollowAssumption
  <2>2. /\ Min({size, limit}) \in Nat /\ Min({size, limit}) <= size
        /\ (Min({size, limit}) = size \/ Min({size, limit}) = limit)
    BY MinOfTwo
  <2> QED BY <2>1, <2>2
<1>6. PICK p \in Seq(Nat) : p = follower.pending
  BY <1>2
<1>7. PICK chunk : chunk = SubSeq(f, o + 1, end)
  OBVIOUS
<1>8. chunk \in Seq(Nat) /\ (~(o <= end) => chunk = <<>>)
  <2>1. CASE o <= end
    <3>1. SubSeq(f, o + 1, end) \in Seq(Nat)
      BY <1>5, <2>1, SubSeqIs
    <3> QED BY <1>7, <2>1, <3>1, Zenon
  <2>2. CASE ~(o <= end)
    <3>1. end < o + 1 /\ o + 1 \in Int
      BY <2>2
    <3>2. SubSeq(f, o + 1, end) = <<>> /\ <<>> \in Seq(Nat)
      BY <3>1, SubSeqEmpty
    <3> QED BY <1>7, <3>2, Zenon
  <2> QED BY <2>1, <2>2
<1>9. PICK text : text = p \o chunk
  OBVIOUS
<1>10. text \in Seq(Nat)
  BY <1>8, <1>9, ConcatProperties
<1>11. PICK got : got = Consume(text)
  OBVIOUS
<1>38. IsConsumed(text, got.lines, got.rest)
  BY <1>10, <1>11, ConsumeIs
<1>12. PICK lines \in Seq(Seq(Nat)), rest \in Seq(Nat) : lines = got.lines /\ rest = got.rest
  BY <1>38, Zenon DEF IsConsumed
<1>13. /\ FlattenSeq(lines) \o rest = Characters(text) /\ Len(rest) <= Len(text)
       /\ \A j \in 1..Len(rest) : rest[j] # NewLine /\ rest[j] = text[(Len(text) - Len(rest)) + j]
       /\ Steady(text) => AllConnected(lines) /\ Connected(rest)
  BY <1>12, <1>38, Zenon DEF IsConsumed
<1>14. PICK stale \in BOOLEAN : stale = (follower.stale /\ lines = <<>> /\ rest # <<>>)
  OBVIOUS
<1>15. PICK last : last = IF stale THEN <<rest>> ELSE <<>>
  OBVIOUS
<1>16. PICK pending : pending = IF stale THEN <<>> ELSE rest
  OBVIOUS
<1>17. /\ opened' = NoLog /\ mark' = mark
       /\ file' = file /\ linked' = linked /\ path' = path /\ written' = written
       /\ follower' = [follower EXCEPT !.offset = Max({@, end}), !.stale = FALSE, !.pending = pending]
       /\ out' = (out \o lines) \o last
       /\ cut' = IF cut = "cut" /\ chunk # <<>> THEN "missed" ELSE cut
  <2>1. opened' = NoLog /\ UNCHANGED <<mark, serviceSide>>
    BY Zenon DEF ReadLog
  <2>2. /\ follower' = [follower EXCEPT !.offset = Max({@, end}), !.stale = FALSE,
                                        !.pending = IF follower.stale /\ got.lines = <<>> /\ got.rest # <<>> THEN Flushed(got.rest) ELSE got.rest]
        /\ out' = (out \o got.lines) \o (IF follower.stale /\ got.lines = <<>> /\ got.rest # <<>> THEN <<got.rest>> ELSE <<>>)
        /\ cut' = IF cut = "cut" /\ chunk # <<>> THEN "missed" ELSE cut
    BY <1>4, <1>5, <1>6, <1>7, <1>9, <1>11, Zenon DEF ReadLog
  <2> QED BY <1>12, <1>14, <1>15, <1>16, <2>1, <2>2, Zenon DEF serviceSide, Flushed
<1>18. PICK e \in Nat : e = Max({o, end}) /\ e = IF o <= end THEN end ELSE o
  BY MaxOfTwo
<1>19. pending \in Seq(Nat) /\ \A k \in 1..Len(pending) : pending[k] # NewLine
  <2>1. <<>> \in Seq(Nat) /\ \A k \in 1..Len(<<>>) : FALSE
    OBVIOUS
  <2> QED BY <1>13, <1>16, <2>1, Zenon
<1>20. last \in Seq(Seq(Nat))
  <2>1. <<rest>> \in Seq(Seq(Nat)) /\ <<>> \in Seq(Seq(Nat))
    OBVIOUS
  <2> QED BY <1>15, <2>1, Zenon
<1>21. /\ follower'.inode = opened /\ follower'.offset = e /\ follower'.pending = pending
       /\ follower' \in [inode : Inodes \cup {NoLog}, offset : Nat, pending : Seq(Nat), stale : BOOLEAN, attached : BOOLEAN]
  BY <1>2, <1>3, <1>5, <1>17, <1>18, <1>19
<1>22. follower'.attached
  <2>1. follower'.attached = follower.attached
    BY <1>2, <1>17
  <2> QED BY <1>3, <2>1, Zenon
<1>23. PICK m : m = mark
  OBVIOUS
<1>24. m.offset \in Nat /\ m.lines \in Nat
  BY <1>2, <1>23
<1>25. PICK now, then : now = out \o lines /\ then = (out \o lines) \o last
  OBVIOUS
<1>26. /\ now \in Seq(Seq(Nat)) /\ m.lines <= Len(now)
       /\ FlattenSeq(SubSeq(now, m.lines + 1, Len(now))) = FlattenSeq(SubSeq(out, m.lines + 1, Len(out))) \o FlattenSeq(lines)
       /\ ConnectedFrom(out, m) /\ AllConnected(lines) => ConnectedFrom(now, m)
  BY <1>2, <1>3, <1>23, <1>24, <1>25, MoreGiven, Zenon
<1>27. /\ then \in Seq(Seq(Nat)) /\ m.lines <= Len(then)
       /\ FlattenSeq(SubSeq(then, m.lines + 1, Len(then))) = FlattenSeq(SubSeq(now, m.lines + 1, Len(now))) \o FlattenSeq(last)
       /\ ConnectedFrom(now, m) /\ AllConnected(last) => ConnectedFrom(then, m)
  BY <1>20, <1>24, <1>25, <1>26, MoreGiven, Zenon
<1>28. cut' \in {"no", "cut", "missed"} /\ (cut' = "no" => cut = "no") /\ (cut' = "cut" => cut = "cut" /\ chunk = <<>>)
  BY <1>2, <1>17
<1>29. FollowTypes'
  BY <1>1, <1>2, <1>17, <1>21, <1>25, <1>27, <1>28 DEF FollowTypes
<1>30. FilesAreNumbered'
  BY <1>1, <1>17, Zenon DEF FilesAreNumbered
<1>31. Attachment'
  <2>1. opened' = NoLog /\ follower'.inode \in Inodes /\ mark'.lines <= Len(out')
    BY <1>2, <1>17, <1>21, <1>23, <1>25, <1>27, Zenon
  <2> QED BY <1>22, <2>1, Zenon DEF Attachment
<1>32. ASSUME cut = "no" PROVE /\ m.offset <= o /\ o <= end /\ end <= Len(f) /\ e = end /\ IsEndAt(p, f, o)
  <2>1. m.offset <= o /\ IsEndAt(p, f, o)
    BY <1>1, <1>3, <1>4, <1>5, <1>6, <1>23, <1>32, Zenon DEF PendingIsRead
  <2>2. o <= Len(f)
    BY <2>1, Zenon DEF IsEndAt
  <2> QED BY <1>5, <1>18, <2>1, <2>2
<1>33. cut' # "missed" => Steady(text) /\ cut # "missed"
  <2>1. CASE cut' = "no"
    <3>1. Numbered(f) /\ cut = "no"
      BY <1>1, <1>2, <1>4, <1>28, <2>1, Zenon DEF FilesAreNumbered
    <3>2. Steady(text)
      <4>1. text = p \o SubSeq(f, o + 1, end)
        BY <1>7, <1>9, Zenon
      <4>2. o <= end /\ end <= Len(f) /\ IsEndAt(p, f, o)
        BY <1>32, <3>1
      <4>3. IsPart(text, f, p, o, end)
        BY <3>1, <4>1, <4>2, ReadIsPart
      <4> QED BY <4>3, Zenon DEF IsPart
    <3> QED BY <3>1, <3>2
  <2>2. CASE cut' = "cut"
    <3>1. chunk = <<>> /\ cut = "cut"
      BY <1>28, <2>2
    <3>2. text = p
      BY <1>9, <3>1
    <3>3. Connected(p)
      BY <1>1, <1>6, <3>1 DEF PendingIsRead
    <3> QED BY <3>1, <3>2, <3>3, Zenon DEF Steady, Connected
  <2> QED BY <1>28, <2>1, <2>2
<1>34. ASSUME cut' = "no" PROVE m.offset <= e /\ IsEndAt(pending, f, e)
  <2>1. m.offset <= o /\ o <= end /\ end <= Len(f) /\ e = end /\ IsEndAt(p, f, o)
    BY <1>28, <1>32, <1>34
  <2>2. m.offset <= e /\ e <= Len(f)
    BY <1>24, <2>1
  <2>3. CASE stale
    <3>1. pending = <<>> /\ Len(<<>>) = 0 /\ (\A k \in 1..Len(<<>>) : FALSE) /\ 0 <= e
      BY <1>16, <2>3
    <3> QED BY <2>2, <3>1, Zenon DEF IsEndAt
  <2>4. CASE ~ stale
    <3>1. Numbered(f)
      BY <1>1, <1>2, <1>4, Zenon DEF FilesAreNumbered
    <3>2. /\ text \in Seq(Nat) /\ Len(text) = Len(p) + (end - o) /\ Len(text) <= end
          /\ \A k \in 1..Len(text) : text[k] = f[(o - Len(p)) + k]
          /\ Steady(text)
      <4>1. text = p \o SubSeq(f, o + 1, end)
        BY <1>7, <1>9, Zenon
      <4>2. o <= end /\ end <= Len(f) /\ IsEndAt(p, f, o)
        BY <2>1
      <4>3. IsPart(text, f, p, o, end)
        BY <3>1, <4>1, <4>2, ReadIsPart
      <4> QED BY <4>3, Zenon DEF IsPart
    <3>3. Len(p) \in Nat /\ Len(p) <= o
      BY <2>1 DEF IsEndAt
    <3>4. \A j \in 1..Len(rest) : rest[j] = text[(Len(text) - Len(rest)) + j]
      BY <1>13, Zenon
    <3>5. IsEndAt(rest, f, end)
      BY <1>10, <1>13, <2>1, <3>2, <3>3, <3>4, RestIsEnd, Zenon
    <3> QED BY <1>16, <2>1, <2>2, <2>4, <3>5, Zenon
  <2> QED BY <2>3, <2>4
<1>35. PendingIsRead'
  <2>1. cut' # "missed" => Connected(pending)
    BY <1>13, <1>16, <1>33, EmptyText, Zenon
  <2> QED BY <1>4, <1>17, <1>19, <1>21, <1>23, <1>34, <2>1, Zenon DEF PendingIsRead
<1>36. LinesAreNotMixed'
  <2>1. ASSUME cut' # "missed" PROVE ConnectedFrom(then, m)
    <3>1. ConnectedFrom(out, m)
      BY <1>1, <1>23, <1>33, <2>1, PropertiesAre, Zenon
    <3>2. AllConnected(lines) /\ Connected(rest)
      BY <1>13, <1>33, <2>1, Zenon
    <3>3. AllConnected(last)
      <4>1. PICK one : one = <<rest>>
        OBVIOUS
      <4>2. (\A k \in 1..Len(one) : one[k] = rest) /\ \A k \in 1..Len(<<>>) : FALSE
        BY <4>1
      <4> QED BY <1>15, <3>2, <4>1, <4>2, Zenon DEF AllConnected
    <3> QED BY <1>26, <1>27, <3>1, <3>2, <3>3, Zenon
  <2>2. out' = then /\ mark' = m
    BY <1>17, <1>23, <1>25, Zenon
  <2> QED BY <2>1, <2>2, Zenon DEF LinesAreNotMixed, ConnectedFrom, Connected
<1>37. FollowsEveryByte'
  <2>1. ASSUME cut' = "no" PROVE Characters(SubSeq(f, m.offset + 1, e)) = FlattenSeq(SubSeq(then, m.lines + 1, Len(then))) \o pending
    <3>1. m.offset <= o /\ o <= end /\ end <= Len(f) /\ e = end /\ cut = "no"
      BY <1>28, <1>32, <2>1
    <3>2. IsGiven(f, follower, m, out)
      BY <1>1, <1>3, <1>4, <1>23, <3>1, PropertiesAre, Zenon
    <3>3. NoNewLine(p)
      <4>1. \A k \in 1..Len(p) : p[k] # NewLine
        BY <1>1, <1>6, Zenon DEF PendingIsRead
      <4> QED BY <4>1 DEF NoNewLine
    <3>4. IsGivenUpTo(f, m.offset, o, out, m.lines, p)
      BY <1>5, <1>6, <3>2, Zenon DEF IsGiven, IsGivenUpTo
    <3>5. PICK x \in Nat, n \in Nat, given \in Seq(Seq(Nat)) : x = m.offset /\ n = m.lines /\ given = out
      BY <1>2, <1>24
    <3>6. /\ FlattenSeq(lines) \o rest = Characters(p \o SubSeq(f, o + 1, end))
          /\ x <= o /\ o <= end /\ end <= Len(f) /\ n <= Len(given) /\ IsGivenUpTo(f, x, o, given, n, p)
      BY <1>3, <1>7, <1>9, <1>13, <1>23, <3>1, <3>4, <3>5, Zenon
    <3>11. IsGivenUpTo(f, x, end, given \o lines, n, rest)
      BY <3>3, <3>6, MoreIsGiven
    <3>7. Characters(SubSeq(f, m.offset + 1, end)) = FlattenSeq(SubSeq(now, m.lines + 1, Len(now))) \o rest
      BY <1>25, <3>5, <3>11, Zenon DEF IsGivenUpTo
    <3>8. PICK s : s = FlattenSeq(SubSeq(now, m.lines + 1, Len(now)))
      OBVIOUS
    <3>9. s \in Seq(Nat)
      <4>1. Len(now) \in Nat /\ Len(now) <= Len(now)
        BY <1>26
      <4>2. SubSeq(now, m.lines + 1, Len(now)) \in Seq(Seq(Nat))
        BY <1>24, <1>26, <4>1, SubSeqIs
      <4> QED BY <3>8, <4>2, FlattenSeqTyped, Zenon
    <3>10. s \o rest = (s \o FlattenSeq(last)) \o pending
      <4>1. CASE stale
        <5>1. FlattenSeq(<<rest>>) = rest
          BY FlattenSeqOfOne
        <5>2. FlattenSeq(last) = rest /\ pending = <<>>
          BY <1>15, <1>16, <4>1, <5>1, Zenon
        <5>3. s \o rest \in Seq(Nat)
          BY <3>9, ConcatProperties
        <5>4. (s \o rest) \o <<>> = s \o rest
          BY <5>3, ConcatEmptySeq
        <5> QED BY <5>2, <5>4, Zenon
      <4>2. CASE ~ stale
        <5>1. FlattenSeq(last) = <<>> /\ pending = rest
          BY <1>15, <1>16, <4>2, EmptyText, Zenon
        <5>2. s \o <<>> = s
          BY <3>9, ConcatEmptySeq
        <5> QED BY <5>1, <5>2, Zenon
      <4> QED BY <4>1, <4>2
    <3> QED BY <1>27, <3>1, <3>7, <3>8, <3>10, Zenon
  <2>2. out' = then /\ mark' = m /\ file'[follower'.inode] = f /\ follower'.offset = e /\ follower'.pending = pending
    BY <1>4, <1>17, <1>21, <1>23, <1>25, Zenon
  <2> QED BY <2>1, <2>2, Zenon DEF FollowsEveryByte
<1> QED BY <1>29, <1>30, <1>31, <1>35, <1>36, <1>37 DEF FollowInv

LEMMA FollowInvInductive ==
  ASSUME FollowInv, [FollowNext]_followVars
  PROVE  FollowInv'
<1>1. CASE Attach
  BY <1>1, AttachKeeps
<1>2. CASE OpenLog
  BY <1>2, OpenLogKeeps
<1>3. CASE ReadLog
  BY <1>3, ReadLogKeeps
<1>4. CASE PendingGetsStale
  BY <1>4, StaleKeeps
<1>5. CASE Service
  BY <1>5, ServiceStepKeeps
<1>6. CASE UNCHANGED followVars
  BY <1>6, Zenon DEF followVars, FollowInv, FollowTypes, FilesAreNumbered, Attachment, PendingIsRead, FollowsEveryByte,
     LinesAreNotMixed
<1> QED BY <1>1, <1>2, <1>3, <1>4, <1>5, <1>6 DEF FollowNext, Forward

\* What the monitor reads of a log is given byte by byte and line by line,
\* whatever the service does to the file between two reads.
THEOREM LogIsFollowedSafely == FollowSpec => []FollowsEveryByte /\ []LinesAreNotMixed
<1>1. FollowInv => FollowsEveryByte /\ LinesAreNotMixed
  BY DEF FollowInv
<1> QED BY <1>1, FollowInitially, FollowInvInductive, PTL DEF FollowSpec
=============================================================================
