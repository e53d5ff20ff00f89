----------------------------- MODULE RemoteBuild -----------------------------
(***************************************************************************)
(* Builds whose pipeline asks for an agent: the workers table and its      *)
(* leases (internal/store/sqlite.go), the dispatch of a build to a worker  *)
(* and the reception of its stream (internal/engine/runner.go), and the    *)
(* daemon and the gRPC endpoint of the worker (internal/worker).           *)
(*                                                                         *)
(* A gRPC stream delivers in order; it ends when the handler returns and   *)
(* breaks when either side goes away.  Output lines change nothing here    *)
(* and are left out of it.  remote stands for the row of a build and for   *)
(* its queue item, whose separate writes are BuildRunner's subject.        *)
(***************************************************************************)
EXTENDS Naturals, Sequences, FiniteSets

CONSTANTS
    Workers,             \* registrations: each start of a daemon gets a new id
    RemoteBuilds,
    Labels,              \* the labels and the pool of each registration
    Requirements,        \* agent_requirements of the pipeline
    MaxConcurrentBuilds, \* max_concurrent_builds of every worker
    Artifacts,           \* number of files the artifact patterns match
    NoWorker,
    RemoteFaults         \* which of "partition", "workerCrash", "crash", "shutdown",
                         \* "stop" and "delete" may happen

ASSUME RemoteAssumption ==
    /\ IsFiniteSet(Workers) /\ IsFiniteSet(RemoteBuilds)
    /\ NoWorker \notin Workers
    /\ MaxConcurrentBuilds \in Nat \ {0}
    /\ Artifacts \in Nat
    /\ RemoteFaults \subseteq
          {"partition", "workerCrash", "crash", "shutdown", "stop", "timeout", "delete"}

VARIABLES
    worker,      \* the rows of the workers table
    daemon,      \* the processes behind them: "none", "up", "cutOff", "stopping", "down"
    controller,  \* "up", "draining" or "down"
    remote,      \* status of each build
    step,        \* where the run of a build stands, "none" without one
    stopped,     \* cause of a cancelled run: "no", "user", "timeout" or "shutdown"
    candidates,  \* what the run read of the online workers and has not tried
    lease,       \* the worker whose lease the run will release
    stream,      \* responses on their way to the controller
    execution,   \* where ExecuteBuild stands on the worker
    received,    \* completed, unfinished and saved artifacts of the run
    \* history, not part of the program
    wiped,       \* workers whose count was reset while a build held a lease
    leaked       \* leases a crash of the controller left in the count

rowVars == <<worker, daemon>>
dispatchVars == <<controller, remote, step, stopped, candidates, lease, received>>
streamVars == <<stream, execution>>
remoteVars == <<rowVars, dispatchVars, streamVars, wiped, leaked>>

NoRow == [status |-> "absent", heartbeat |-> "never", active |-> 0]
NothingReceived == [completed |-> FALSE, pending |-> FALSE, saved |-> 0]
Idle == [at |-> "none", on |-> NoWorker, outcome |-> "ok", sent |-> 0]

RemoteInit ==
    /\ worker = [w \in Workers |-> NoRow]
    /\ daemon = [w \in Workers |-> "none"]
    /\ controller = "up"
    /\ remote = [b \in RemoteBuilds |-> "pending"]
    /\ step = [b \in RemoteBuilds |-> "none"]
    /\ stopped = [b \in RemoteBuilds |-> "no"]
    /\ candidates = [b \in RemoteBuilds |-> {}]
    /\ lease = [b \in RemoteBuilds |-> NoWorker]
    /\ stream = [b \in RemoteBuilds |-> <<>>]
    /\ execution = [b \in RemoteBuilds |-> Idle]
    /\ received = [b \in RemoteBuilds |-> NothingReceived]
    /\ wiped = {}
    /\ leaked = [w \in Workers |-> 0]

Leases(w) == {b \in DOMAIN lease : lease[b] = w}
Executing(w) == {b \in RemoteBuilds : execution[b].on = w /\ execution[b].at # "none"}
Goes(b, next) == step' = [step EXCEPT ![b] = next]

(***************************************************************************)
(* The daemon: registration, heartbeats, loss of the network, its end.     *)
(***************************************************************************)
\* registerAgent and CreateWorker: an id of its own, so the INSERT succeeds.
RegisterWorker(w) ==
    /\ controller # "down"
    /\ daemon[w] = "none"
    /\ daemon' = [daemon EXCEPT ![w] = "up"]
    /\ worker' = [worker EXCEPT ![w] = [NoRow EXCEPT !.status = "online"]]
    /\ UNCHANGED <<dispatchVars, streamVars, wiped, leaked>>

\* UpdateWorkerHeartbeat ignores its activeBuilds argument.
Heartbeat(w) ==
    /\ controller # "down"
    /\ daemon[w] = "up"
    /\ worker[w].status # "absent"
    /\ worker' = [worker EXCEPT ![w].heartbeat = "fresh", ![w].status = "online"]
    /\ worker' # worker
    /\ UNCHANGED <<daemon, dispatchVars, streamVars, wiped, leaked>>

\* Thirty seconds without a heartbeat, which arrive every ten.
HeartbeatExpires(w) ==
    /\ worker[w].heartbeat = "fresh"
    /\ daemon[w] # "up" \/ controller = "down"
    /\ worker' = [worker EXCEPT ![w].heartbeat = "stale"]
    /\ UNCHANGED <<daemon, dispatchVars, streamVars, wiped, leaked>>

\* The API cannot be reached for a while; established streams live on.
CutOff(w) ==
    /\ "partition" \in RemoteFaults
    /\ \/ daemon[w] = "up" /\ daemon' = [daemon EXCEPT ![w] = "cutOff"]
       \/ daemon[w] = "cutOff" /\ daemon' = [daemon EXCEPT ![w] = "up"]
    /\ UNCHANGED <<worker, dispatchVars, streamVars, wiped, leaked>>

\* GracefulStop refuses new streams and waits for those that run.
StopDaemon(w) ==
    /\ "stop" \in RemoteFaults
    /\ \/ daemon[w] \in {"up", "cutOff"} /\ daemon' = [daemon EXCEPT ![w] = "stopping"]
       \/ /\ daemon[w] = "stopping" /\ Executing(w) = {}
          /\ daemon' = [daemon EXCEPT ![w] = "down"]
    /\ UNCHANGED <<worker, dispatchVars, streamVars, wiped, leaked>>

CrashDaemon(w) ==
    /\ "workerCrash" \in RemoteFaults
    /\ daemon[w] \in {"up", "cutOff", "stopping"}
    /\ daemon' = [daemon EXCEPT ![w] = "down"]
    /\ execution' = [b \in RemoteBuilds |-> IF b \in Executing(w) THEN Idle ELSE execution[b]]
    /\ UNCHANGED <<worker, dispatchVars, stream, wiped, leaked>>

DeleteWorker(w) ==
    /\ "delete" \in RemoteFaults
    /\ controller # "down"
    /\ worker[w].status # "absent"
    /\ worker' = [worker EXCEPT ![w] = NoRow]
    /\ UNCHANGED <<daemon, dispatchVars, streamVars, wiped, leaked>>

(***************************************************************************)
(* The leases.                                                             *)
(***************************************************************************)
\* A row whose last heartbeat is too old; one that never had any is left alone.
Lost(row) == [row EXCEPT !.status = "offline", !.active = 0]

IsStale(w) == worker[w].heartbeat = "stale"

\* listAgents, matchAgent and selectRemoteWorker all begin with it.
MarkOfflineWorkers ==
    /\ worker' = [w \in Workers |-> IF IsStale(w) THEN Lost(worker[w]) ELSE worker[w]]
    /\ wiped' = wiped \cup {w \in Workers : IsStale(w) /\ Leases(w) # {}}
    /\ leaked' = [w \in Workers |-> IF IsStale(w) THEN 0 ELSE leaked[w]]

ListAgents ==
    /\ controller # "down"
    /\ MarkOfflineWorkers
    /\ worker' # worker
    /\ UNCHANGED <<daemon, dispatchVars, streamVars>>

\* The condition of TryAcquireWorker's UPDATE.
HasRoom(w) == worker[w].status = "online" /\ worker[w].active < MaxConcurrentBuilds

\* The condition selectRemoteWorker puts on a row it has read.
WorkerMatchesRequirements(w) == Requirements \subseteq Labels[w]

\* Mutant of ReleaseWorker: the lease is not returned.
ReleaseNothing(b) == lease' = [lease EXCEPT ![b] = NoWorker] /\ UNCHANGED worker

ReleaseWorker(b) ==
    /\ lease' = [lease EXCEPT ![b] = NoWorker]
    /\ worker' = IF lease[b] = NoWorker THEN worker
                 ELSE [worker EXCEPT ![lease[b]].active = IF @ > 0 THEN @ - 1 ELSE 0]

(***************************************************************************)
(* run() of a build with agent requirements, up to the lease.              *)
(***************************************************************************)
\* The dispatcher launches a pending build again and again.
LaunchRemote(b) ==
    /\ controller = "up"
    /\ remote[b] = "pending" /\ step[b] = "none"
    /\ Goes(b, "offline")
    /\ stopped' = [stopped EXCEPT ![b] = "no"]
    /\ received' = [received EXCEPT ![b] = NothingReceived]
    /\ UNCHANGED <<rowVars, controller, remote, candidates, lease, streamVars, wiped, leaked>>

SelectRemoteWorker(b) ==
    /\ step[b] = "offline"
    /\ MarkOfflineWorkers
    /\ Goes(b, "list")
    /\ UNCHANGED <<daemon, controller, remote, stopped, candidates, lease, received, streamVars>>

ListOnlineWorkers(b) ==
    /\ step[b] = "list"
    /\ candidates' = [candidates EXCEPT ![b] =
           {w \in Workers : WorkerMatchesRequirements(w) /\ HasRoom(w)}]
    /\ Goes(b, "acquire")
    /\ UNCHANGED <<rowVars, controller, remote, stopped, lease, received, streamVars, wiped, leaked>>

\* One candidate after the other, starting at the cursor of the pool.
TryAcquireWorker(b) ==
    /\ step[b] = "acquire"
    /\ \E w \in candidates[b] :
          /\ candidates' = [candidates EXCEPT ![b] = @ \ {w}]
          /\ IF HasRoom(w)
             THEN /\ worker' = [worker EXCEPT ![w].active = @ + 1]
                  /\ lease' = [lease EXCEPT ![b] = w]
                  /\ Goes(b, "dispatch")
             ELSE UNCHANGED <<worker, lease, step>>
    /\ UNCHANGED <<daemon, controller, remote, stopped, received, streamVars, wiped, leaked>>

\* Nobody has room: the build stays pending until the next launch.
WaitForWorker(b) ==
    /\ step[b] = "acquire" /\ candidates[b] = {}
    /\ Goes(b, "none")
    /\ UNCHANGED <<rowVars, controller, remote, stopped, candidates, lease, received, streamVars, wiped, leaked>>

(***************************************************************************)
(* runRemote.                                                              *)
(***************************************************************************)
\* A missing dispatch token or plugin manifest fails the build; otherwise
\* StartBuild marks it running.
DispatchRemote(b) ==
    /\ step[b] = "dispatch"
    /\ candidates' = [candidates EXCEPT ![b] = {}]
    /\ \/ Goes(b, "fail") /\ UNCHANGED remote
       \/ Goes(b, "connect") /\ remote' = [remote EXCEPT ![b] = "running"]
    /\ UNCHANGED <<rowVars, controller, stopped, lease, received, streamVars, wiped, leaked>>

\* Dialling, resolving the pipeline source and opening the stream, which a daemon
\* that does not answer or rejects the credential refuses.  An execution that an
\* earlier run of the build left behind ends on its own and is not looked at twice.
ConnectRemote(b) ==
    /\ step[b] = "connect"
    /\ \/ Goes(b, "fail") /\ UNCHANGED streamVars
       \/ /\ daemon[lease[b]] \in {"up", "cutOff"} /\ stopped[b] = "no"
          /\ execution[b].at = "none"
          /\ execution' = [execution EXCEPT ![b] = [Idle EXCEPT !.at = "prepare", !.on = lease[b]]]
          /\ stream' = [stream EXCEPT ![b] = <<>>]
          /\ Goes(b, "receive")
    /\ UNCHANGED <<rowVars, controller, remote, stopped, candidates, lease, received, wiped, leaked>>

\* The worker is gone or the context of the run is done.
StreamBroken(b) ==
    /\ execution[b].at # "ended"
    /\ execution[b].at = "none" \/ stopped[b] # "no"

\* CancelBuild for every cancelled context, a shutdown's included; fail for an
\* expired one and for any other error.
ReceiveError(b) ==
    /\ step[b] = "receive"
    /\ StreamBroken(b)
    /\ Goes(b, IF stopped[b] \in {"user", "shutdown"} THEN "cancel" ELSE "fail")
    /\ UNCHANGED <<rowVars, controller, remote, stopped, candidates, lease, received, streamVars, wiped, leaked>>

\* Chunks collect in memory until the final one, which carries the checksum.
ReceiveMessage(b) ==
    /\ step[b] = "receive"
    /\ stream[b] # <<>>
    /\ LET message == Head(stream[b])
       IN  /\ received' = [received EXCEPT ![b] =
                  [completed |-> @.completed \/ message = "success",
                   pending |-> IF message = "chunk" THEN TRUE ELSE IF message = "final" THEN FALSE ELSE @.pending,
                   saved |-> IF message = "final" THEN @.saved + 1 ELSE @.saved]]
           /\ IF message \in {"failed", "postFailed"} THEN Goes(b, "fail") ELSE UNCHANGED step
    /\ stream' = [stream EXCEPT ![b] = Tail(@)]
    /\ UNCHANGED <<rowVars, controller, remote, stopped, candidates, lease, execution, wiped, leaked>>

\* No storage, a transfer limit or a failed Save.
RejectArtifact(b) ==
    /\ step[b] = "receive"
    /\ stream[b] # <<>> /\ Head(stream[b]) \in {"chunk", "final"}
    /\ Goes(b, "fail")
    /\ UNCHANGED <<rowVars, controller, remote, stopped, candidates, lease, received, streamVars, wiped, leaked>>

ReceiveEnd(b) ==
    /\ step[b] = "receive"
    /\ stream[b] = <<>> /\ execution[b].at = "ended"
    /\ Goes(b, IF received[b].completed /\ ~received[b].pending THEN "succeed" ELSE "fail")
    /\ execution' = [execution EXCEPT ![b] = Idle]
    /\ UNCHANGED <<rowVars, controller, remote, stopped, candidates, lease, received, stream, wiped, leaked>>

\* fail() writes nothing once the controller shuts down.
FinalStatus(b) ==
    IF step[b] = "fail" THEN (IF controller = "draining" THEN remote[b] ELSE "failed")
    ELSE IF step[b] = "cancel" THEN "cancelled" ELSE "success"

\* FinishBuild, or CancelBuild, which leaves a finished row alone.
FinishRemote(b) ==
    /\ step[b] \in {"succeed", "cancel", "fail"}
    /\ remote' = [remote EXCEPT ![b] = FinalStatus(b)]
    /\ Goes(b, "release")
    /\ UNCHANGED <<rowVars, controller, stopped, candidates, lease, received, streamVars, wiped, leaked>>

\* The deferred calls: the connection is closed, the lease returned.
LeaveRemote(b) ==
    /\ step[b] = "release"
    /\ ReleaseWorker(b)
    /\ Goes(b, "none")
    /\ stream' = [stream EXCEPT ![b] = <<>>]
    /\ UNCHANGED <<daemon, controller, remote, stopped, candidates, received, execution, wiped, leaked>>

(***************************************************************************)
(* ExecuteBuild on the worker.                                             *)
(***************************************************************************)
\* stream.Context() is done: the run left, was stopped or died.
Cancelled(b) == step[b] # "receive" \/ stopped[b] # "no"

Sends(b, message, next) ==
    /\ stream' = [stream EXCEPT ![b] = Append(@, message)]
    /\ execution' = [execution EXCEPT ![b] = next]

\* Protocol, pipeline, plugins, directories and checkout; an error either goes to
\* the controller as a failed response or breaks the stream.
PrepareExecution(b) ==
    /\ execution[b].at = "prepare" /\ ~Cancelled(b)
    /\ \/ execution' = [execution EXCEPT ![b].at = "stages"] /\ UNCHANGED stream
       \/ Sends(b, "failed", [execution[b] EXCEPT !.at = "ended", !.outcome = "failed"])
       \/ execution' = [execution EXCEPT ![b] = Idle] /\ UNCHANGED stream
    /\ UNCHANGED <<rowVars, dispatchVars, wiped, leaked>>

\* The stages succeed, some of them fail, or a condition cannot be evaluated.
ExecuteStages(b) ==
    /\ execution[b].at = "stages" /\ ~Cancelled(b)
    /\ \/ \E outcome \in {"ok", "failed"} :
             execution' = [execution EXCEPT ![b].at = "post", ![b].outcome = outcome]
          /\ UNCHANGED stream
       \/ Sends(b, "failed", [execution[b] EXCEPT !.at = "ended", !.outcome = "failed"])
    /\ UNCHANGED <<rowVars, dispatchVars, wiped, leaked>>

\* runPost has a context of its own; a failing step sends the status "failed".
RunPost(b) ==
    /\ execution[b].at = "post"
    /\ LET next == [execution[b] EXCEPT !.at = "report"]
       IN  (execution' = [execution EXCEPT ![b] = next] /\ UNCHANGED stream)
           \/ Sends(b, "postFailed", next)
    /\ UNCHANGED <<rowVars, dispatchVars, wiped, leaked>>

\* streamArtifacts: the chunks of a file, then its checksum.  Reading may fail.
StreamArtifact(b) ==
    /\ execution[b].at = "report" /\ execution[b].outcome = "ok" /\ ~Cancelled(b)
    /\ execution[b].sent < 2 * Artifacts
    /\ \/ Sends(b, IF execution[b].sent % 2 = 0 THEN "chunk" ELSE "final",
                [execution[b] EXCEPT !.sent = @ + 1])
       \/ Sends(b, "failed", [execution[b] EXCEPT !.at = "ended"])
    /\ UNCHANGED <<rowVars, dispatchVars, wiped, leaked>>

\* Mutant of ArtifactsSent: an artifact that cannot be read is left out, as the
\* local runner does.
ArtifactsSentOrNot(b) == TRUE

ArtifactsSent(b) == execution[b].sent = 2 * Artifacts

EndExecution(b) ==
    /\ execution[b].at = "report" /\ ~Cancelled(b)
    /\ execution[b].outcome = "failed" \/ ArtifactsSent(b)
    /\ Sends(b, IF execution[b].outcome = "ok" THEN "success" ELSE "failed",
             [execution[b] EXCEPT !.at = "ended"])
    /\ UNCHANGED <<rowVars, dispatchVars, wiped, leaked>>

\* A cancelled context kills the steps and fails every further Send; nobody is
\* left to read the end of a finished handler.
AbandonExecution(b) ==
    /\ execution[b].at \in {"prepare", "stages", "report", "ended"} /\ Cancelled(b)
    /\ execution' = [execution EXCEPT ![b] = Idle]
    /\ UNCHANGED <<rowVars, dispatchVars, stream, wiped, leaked>>

(***************************************************************************)
(* The controller stops a run, shuts down, crashes and starts again.       *)
(***************************************************************************)
\* Stop, or the build timeout, which covers what follows the selection.
StopRun(b) ==
    /\ controller = "up" /\ step[b] # "none" /\ stopped[b] = "no"
    /\ \/ "stop" \in RemoteFaults /\ stopped' = [stopped EXCEPT ![b] = "user"]
       \/ "timeout" \in RemoteFaults /\ stopped' = [stopped EXCEPT ![b] = "timeout"]
    /\ UNCHANGED <<rowVars, controller, remote, step, candidates, lease, received, streamVars, wiped, leaked>>

ShutdownController ==
    /\ "shutdown" \in RemoteFaults
    /\ controller = "up"
    /\ controller' = "draining"
    /\ stopped' = [b \in RemoteBuilds |->
                      IF step[b] # "none" /\ stopped[b] = "no" THEN "shutdown" ELSE stopped[b]]
    /\ UNCHANGED <<rowVars, remote, step, candidates, lease, received, streamVars, wiped, leaked>>

\* The process ends: every run is gone, every connection closed, and no lease is
\* returned.
CrashController ==
    /\ \/ "crash" \in RemoteFaults /\ controller = "up"
       \/ controller = "draining" /\ \A b \in RemoteBuilds : step[b] = "none"
    /\ controller' = "down"
    /\ leaked' = [w \in Workers |-> leaked[w] + (IF worker[w].status = "absent" THEN 0
                                                 ELSE Cardinality(Leases(w)))]
    /\ step' = [b \in RemoteBuilds |-> "none"]
    /\ stream' = [b \in RemoteBuilds |-> <<>>]
    /\ candidates' = [b \in RemoteBuilds |-> {}]
    /\ lease' = [b \in RemoteBuilds |-> NoWorker]
    /\ UNCHANGED <<rowVars, remote, stopped, received, execution, wiped>>

\* RecoverInterruptedBuilds knows builds and items, not workers.
RestartController ==
    /\ controller = "down"
    /\ controller' = "up"
    /\ remote' = [b \in RemoteBuilds |-> IF remote[b] = "running" THEN "pending" ELSE remote[b]]
    /\ UNCHANGED <<rowVars, step, stopped, candidates, lease, received, streamVars, wiped, leaked>>

-----------------------------------------------------------------------------
RunStep(b) ==
    \/ SelectRemoteWorker(b) \/ ListOnlineWorkers(b) \/ TryAcquireWorker(b) \/ WaitForWorker(b)
    \/ DispatchRemote(b) \/ ConnectRemote(b) \/ ReceiveError(b) \/ ReceiveMessage(b)
    \/ RejectArtifact(b) \/ ReceiveEnd(b) \/ FinishRemote(b) \/ LeaveRemote(b)

ExecutionStep(b) ==
    \/ PrepareExecution(b) \/ ExecuteStages(b) \/ RunPost(b) \/ StreamArtifact(b)
    \/ EndExecution(b) \/ AbandonExecution(b)

RemoteNext ==
    \/ \E w \in Workers :
          \/ RegisterWorker(w) \/ Heartbeat(w) \/ HeartbeatExpires(w) \/ CutOff(w)
          \/ StopDaemon(w) \/ CrashDaemon(w) \/ DeleteWorker(w)
    \/ ListAgents
    \/ \E b \in RemoteBuilds : LaunchRemote(b) \/ RunStep(b) \/ ExecutionStep(b) \/ StopRun(b)
    \/ ShutdownController \/ CrashController \/ RestartController

RemoteSpec == RemoteInit /\ [][RemoteNext]_remoteVars

\* Goroutines run and steps end; nothing is assumed about workers and faults.
RemoteFairness ==
    \A b \in RemoteBuilds : WF_remoteVars(RunStep(b)) /\ WF_remoteVars(ExecutionStep(b))

-----------------------------------------------------------------------------
(***************************************************************************)
(* Properties                                                              *)
(***************************************************************************)
RemoteTypeOK ==
    /\ \A w \in Workers : worker[w].active \in 0..MaxConcurrentBuilds
    /\ \A b \in DOMAIN remote :
          /\ remote[b] \in {"pending", "running", "success", "failed", "cancelled"}
          /\ Len(stream[b]) <= 2 * Artifacts + 3

\* The count of a worker never exceeds the leases that exist or were lost in a
\* crash, and equals them until a missing heartbeat resets it under a running
\* build: no path through runRemote keeps or returns a lease twice.
LeaseAccounting ==
    \A w \in Workers :
        LET held == Cardinality(Leases(w)) + leaked[w]
        IN  /\ worker[w].active <= held
            /\ worker[w].status # "absent" /\ w \notin wiped => worker[w].active = held

\* The counts are right, on rows that are what they should be.
LeasesAreCounted == RemoteTypeOK /\ LeaseAccounting

\* A build succeeds only after its worker ran every stage successfully and the
\* controller saved every artifact, whatever is lost or refused on the way.
SuccessIsComplete ==
    \A b \in RemoteBuilds :
        step[b] # "succeed" /\ step'[b] = "succeed" =>
            /\ execution[b].outcome = "ok"
            /\ received[b].saved = Artifacts /\ ~received[b].pending

\* Nothing is executed for ever on behalf of a run that is gone: after a stop, a
\* failure, a shutdown or a crash of the controller the execution on the worker
\* ends.
NoOrphanedExecution ==
    \A b \in RemoteBuilds :
        execution[b].at # "none" /\ step[b] # "receive"
            ~> execution[b].at = "none" \/ step[b] = "receive"

\* A remote build that was started leaves the state running, or the controller is
\* down.
RemoteBuildEnds ==
    \A b \in RemoteBuilds : remote[b] = "running" ~> remote[b] # "running" \/ controller # "up"
=============================================================================
