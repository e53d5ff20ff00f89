----------------------------- MODULE ServerControl -----------------------------
(***************************************************************************)
(* The command line's start, stop, pause and restart, the service manager, *)
(* and the server processes they make and end.  Commands share nothing     *)
(* but the process list, the port and the service; a server takes the port *)
(* before it touches a build, and gives it back after its builds stopped.  *)
(***************************************************************************)
EXTENDS Naturals, FiniteSets

CONSTANTS
    Commands,     \* invocations of the command line
    Processes,    \* server processes there may be, in the order they are made
    MaxKills      \* bound: crashes of a server

VARIABLES
    proc,         \* per process: where main is, and whether the service manager runs it
    registered,   \* the server is registered with the service manager
    unit,         \* the service is wanted up
    command,      \* per invocation: what it is, where it is, whom it waits for
    started,      \* history: commands that spawned since a stop began
    kills

controlVars == <<proc, registered, unit, command, started, kills>>

Fresh == [at |-> "none", managed |-> FALSE]
NotRun == [kind |-> "none", step |-> "ready", waits |-> {}]
Alive(p) == proc[p].at \notin {"none", "gone"}
AliveProcesses == {p \in Processes : Alive(p)}

\* main listens, then starts the queue; stopServerServices ends the builds, then the listener.
HoldsPort(p) == proc[p].at \in {"listening", "serving", "draining"}
RunsBuilds(p) == proc[p].at \in {"serving", "draining"}
Healthy == \E p \in Processes : proc[p].at = "serving"

ServerInit ==
    /\ proc = [p \in Processes |-> Fresh]
    /\ registered \in BOOLEAN
    /\ unit = FALSE
    /\ command = [c \in Commands |-> NotRun]
    /\ started = [c \in Commands |-> FALSE]
    /\ kills = 0

To(p, at) == proc' = [proc EXCEPT ![p].at = at]
Goes(c, step) == command' = [command EXCEPT ![c].step = step]

NextProcess == CHOOSE p \in Processes : proc[p].at = "none" /\ \A q \in Processes : proc[q].at = "none" => p <= q
CanSpawn == \E p \in Processes : proc[p].at = "none"

(***************************************************************************)
(* A server process.                                                       *)
(***************************************************************************)
\* Mutant of Listens: the queue is started before the port is asked for.
ListensLater(p) == To(p, "serving")

Listens(p) == To(p, IF \E q \in Processes : HoldsPort(q) THEN "gone" ELSE "listening")

Listen(p) ==
    /\ proc[p].at = "booting"
    /\ Listens(p)
    /\ UNCHANGED <<registered, unit, command, started, kills>>

StartQueue(p) ==
    /\ proc[p].at = "listening"
    /\ To(p, "serving")
    /\ UNCHANGED <<registered, unit, command, started, kills>>

\* Until main asks for signals one ends it at once.
Terminated(p) == CASE proc[p].at \in {"booting", "listening"} -> "gone"
                   [] proc[p].at = "serving" -> "draining"
                   [] OTHER -> proc[p].at

\* Builds and the port, then connections, then deferred calls.
StopBuilds(p) ==
    /\ proc[p].at = "draining"
    /\ To(p, "closing")
    /\ UNCHANGED <<registered, unit, command, started, kills>>

Exit(p) ==
    /\ proc[p].at = "closing"
    /\ To(p, "gone")
    /\ UNCHANGED <<registered, unit, command, started, kills>>

Killed(p) ==
    /\ kills < MaxKills /\ Alive(p)
    /\ kills' = kills + 1
    /\ To(p, "gone")
    /\ UNCHANGED <<registered, unit, command, started>>

\* KeepAlive, Restart=on-failure: a service that is up has a process.
Respawn ==
    /\ unit /\ CanSpawn
    /\ ~ \E p \in Processes : Alive(p) /\ proc[p].managed
    /\ proc' = [proc EXCEPT ![NextProcess] = [at |-> "booting", managed |-> TRUE]]
    /\ UNCHANGED <<registered, unit, command, started, kills>>

(***************************************************************************)
(* A command.                                                              *)
(***************************************************************************)
Begin(c, kind) ==
    /\ command[c] = NotRun
    /\ command' = [command EXCEPT ![c] = [kind |-> kind, step |-> "service", waits |-> {}]]
    /\ UNCHANGED <<proc, registered, unit, started, kills>>

\* systemctl stop and launchctl bootout wait for the process they end.
ServiceStops ==
    /\ unit' = FALSE
    /\ proc' = [p \in Processes |-> IF Alive(p) /\ proc[p].managed THEN [proc[p] EXCEPT !.at = "gone"] ELSE proc[p]]

StopAutostartService(c) ==
    /\ command[c].step = "service"
    /\ IF registered THEN ServiceStops ELSE UNCHANGED <<proc, unit>>
    /\ Goes(c, "signal")
    /\ UNCHANGED <<registered, started, kills>>

\* Every process with the server's name, the recorded one first.
Matching == AliveProcesses

SignalProcesses(c) ==
    /\ command[c].step = "signal"
    /\ command' = [command EXCEPT ![c].step = "await", ![c].waits = Matching]
    /\ proc' = [p \in Processes |-> IF p \in Matching THEN [proc[p] EXCEPT !.at = Terminated(p)] ELSE proc[p]]
    /\ UNCHANGED <<registered, unit, started, kills>>

\* Up to 25 seconds, longer than a server takes to shut down.
AwaitProcesses(c) ==
    /\ command[c].step = "await"
    /\ command[c].waits \cap AliveProcesses = {}
    /\ Goes(c, IF Healthy THEN "failed" ELSE IF command[c].kind = "stop" THEN "stopped" ELSE "port")
    /\ UNCHANGED <<proc, registered, unit, started, kills>>

WaitForPort(c) ==
    /\ command[c].step = "port"
    /\ Goes(c, IF \E p \in Processes : HoldsPort(p) THEN "failed" ELSE "spawn")
    /\ UNCHANGED <<proc, registered, unit, started, kills>>

\* The service is started, or a process of its own without one.
Spawn(c) ==
    /\ command[c].step = "spawn"
    /\ started' = [d \in Commands |-> started[d] \/ command[d].kind = "stop"]
    /\ IF registered
       THEN /\ unit' = TRUE
            /\ proc' = IF CanSpawn /\ ~ \E p \in Processes : Alive(p) /\ proc[p].managed
                       THEN [proc EXCEPT ![NextProcess] = [at |-> "booting", managed |-> TRUE]] ELSE proc
       ELSE /\ CanSpawn
            /\ proc' = [proc EXCEPT ![NextProcess] = [at |-> "booting", managed |-> FALSE]]
            /\ UNCHANGED unit
    /\ Goes(c, "health")
    /\ UNCHANGED <<registered, kills>>

AwaitHealth(c) ==
    /\ command[c].step = "health"
    /\ \/ Healthy /\ Goes(c, "started")
       \/ ~ Healthy /\ Goes(c, "failed")
    /\ UNCHANGED <<proc, registered, unit, started, kills>>

ServerNext ==
    \/ \E p \in Processes : Listen(p) \/ StartQueue(p) \/ StopBuilds(p) \/ Exit(p) \/ Killed(p)
    \/ Respawn
    \/ \E c \in Commands :
        \/ \E kind \in {"start", "stop"} : Begin(c, kind)
        \/ StopAutostartService(c) \/ SignalProcesses(c) \/ AwaitProcesses(c)
        \/ WaitForPort(c) \/ Spawn(c) \/ AwaitHealth(c)

ServerSpec == ServerInit /\ [][ServerNext]_controlVars

(***************************************************************************)
(* Properties.                                                             *)
(***************************************************************************)

\* Two servers never work on the builds of one database, however commands,
\* restarts of the service and slow shutdowns overlap: recovery and dispatch
\* only run in the process that has the port.
OneServerRunsBuilds == Cardinality({p \in DOMAIN proc : RunsBuilds(p)}) <= 1

\* A stop that answered "stopped" leaves no server behind, and the service
\* manager brings none back, unless a start came in between.
StopIsFinal == \A c \in DOMAIN command : command[c].step = "stopped" /\ ~ started[c] => AliveProcesses = {}

\* Of the commands that start and stop servers, the last one that answered is right, and
\* no two servers ever share a database.
ServersAreExclusive ==
    /\ OneServerRunsBuilds
    /\ StopIsFinal
=============================================================================
