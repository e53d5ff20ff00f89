----------------------------- MODULE BuildRunner -----------------------------
(***************************************************************************)
(* The life of a build on a local executor: the builds and                 *)
(* build_queue_items tables, the dispatcher, one run() goroutine per       *)
(* launched build, the stop request of the API, the automatic retry, the   *)
(* finish triggers, graceful shutdown, crash and recovery.                 *)
(*                                                                         *)
(* SQLite is opened with one connection, so each statement (or             *)
(* transaction) of internal/store is one atomic step; everything between   *)
(* two statements interleaves with all other goroutines.  The slot         *)
(* semaphore appears as the set of slot owners and the launch budget as    *)
(* the number of registered runs: ExecutionSlots and QueueDispatcher show  *)
(* that the counters and the scan amount to this.                          *)
(***************************************************************************)
EXTENDS Naturals, FiniteSets

CONSTANTS
    Builds,            \* row identifiers, used or not yet used
    Projects,
    ProjectOf,         \* the project each row will belong to
    Downstream,        \* the project a finish trigger starts, or NoProject
    NoBuild, NoProject,
    Slots,             \* the smaller of the global and the local limit
    RetryLimit,
    DisableConcurrent, \* disableConcurrentBuilds() of every pipeline
    AbortPrevious,     \* its abortPrevious option
    Disturbances       \* which of "cancel", "timeout", "crash", "shutdown" may happen

ASSUME RunnerAssumption ==
    /\ IsFiniteSet(Builds)
    /\ NoBuild \notin Builds
    /\ NoProject \notin Projects
    /\ ProjectOf \in [Builds -> Projects]
    /\ Downstream \in [Projects -> Projects \cup {NoProject}]
    /\ Slots \in Nat \ {0}
    /\ RetryLimit \in 0..2
    /\ DisableConcurrent \in BOOLEAN
    /\ AbortPrevious \in BOOLEAN
    /\ Disturbances \subseteq {"cancel", "timeout", "crash", "shutdown"}

VARIABLES
    \* the database, which survives a crash
    status,      \* builds.status, "absent" before the row exists
    queue,       \* build_queue_items.status, "none" before the item exists
    approval,    \* build_approvals.status of the latest record, or "none"
    held,        \* builds with approval_required and no approved_by
    retriedFrom,
    waitsOn,     \* wait_dependency_on
    \* the server process
    server,      \* "up", "draining" (shuttingDown is set) or "down"
    listed,      \* what the dispatcher's current scan read of each pending row
    pc,          \* where the run goroutine of a build stands, "none" without one
    ctx,         \* why the context of the run is done, "live" while it is not
    slots,       \* builds whose run owns an execution slot
    stopping,    \* progress of the stop request on a build
    \* history, not part of the program
    userStopped  \* builds for which a stop request was accepted

dbVars == <<status, queue, approval, held, retriedFrom, waitsOn>>
runVars == <<pc, ctx, slots>>
serverVars == <<server, listed, stopping, userStopped>>
vars == <<dbVars, runVars, serverVars>>

Terminal == {"success", "failed", "cancelled", "rejected"}
Active == {"pending", "running", "pending_approval"}
Statuses == {"absent"} \cup Active \cup Terminal
QueueStatuses == {"none", "queued", "running", "pending_approval"} \cup Terminal
ApprovalStatuses == {"none", "pending", "approved", "rejected", "cancelled"}

\* Before the row is marked running, and from there to the end of the run.
Preparing == {"load", "acquire", "recheck", "defer", "start"}
Executing == {"mark", "setup", "work", "collect", "collectFailed", "succeed",
              "cancelStore", "fail", "finish"}
Reporting == {"succeedQueue", "triggers", "cancelQueue", "failQueue", "retry", "leave"}
RunSteps == {"none"} \cup Preparing \cup Executing \cup Reporting

RunnerTypeOK ==
    /\ status \in [Builds -> Statuses]
    /\ queue \in [Builds -> QueueStatuses]
    /\ approval \in [Builds -> ApprovalStatuses]
    /\ held \subseteq Builds
    /\ retriedFrom \in [Builds -> Builds \cup {NoBuild}]
    /\ waitsOn \in [Builds -> Builds \cup {NoBuild}]
    /\ server \in {"up", "draining", "down"}
    /\ listed \in [Builds -> {"no", "free", "held"}]
    /\ pc \in [Builds -> RunSteps]
    /\ ctx \in [Builds -> {"live", "cancelled", "shutdown", "expired"}]
    /\ slots \subseteq Builds
    /\ stopping \in [Builds -> {"no", "queue", "approval", "signal"}]
    /\ userStopped \subseteq Builds

RunnerInit ==
    /\ status = [b \in Builds |-> "absent"]
    /\ queue = [b \in Builds |-> "none"]
    /\ approval = [b \in Builds |-> "none"]
    /\ held = {}
    /\ retriedFrom = [b \in Builds |-> NoBuild]
    /\ waitsOn = [b \in Builds |-> NoBuild]
    /\ server = "up"
    /\ listed = [b \in Builds |-> "no"]
    /\ pc = [b \in Builds |-> "none"]
    /\ ctx = [b \in Builds |-> "live"]
    /\ slots = {}
    /\ stopping = [b \in Builds |-> "no"]
    /\ userStopped = {}

(***************************************************************************)
(* Operators on the state.                                                 *)
(***************************************************************************)
Registered == {b \in Builds : pc[b] # "none"}
Running == {b \in Builds : status[b] = "running"}
Fresh(p) == {b \in Builds : status[b] = "absent" /\ ProjectOf[b] = p}

\* The number of automatic or manual retries behind a build.
Depth[b \in Builds] ==
    IF retriedFrom[b] = NoBuild THEN 0 ELSE 1 + Depth[retriedFrom[b]]

DependencyMet(b) == waitsOn[b] # NoBuild => status[waitsOn[b]] = "success"

\* Mutant of RunningPeers: builds that only wait in the queue count as well.
UnfinishedPeers(b) ==
    {o \in Builds \ {b} : ProjectOf[o] = ProjectOf[b] /\ status[o] \in {"pending", "running"}}

\* Others of the same project that are marked running.
RunningPeers(b) == {o \in Running \ {b} : ProjectOf[o] = ProjectOf[b]}

SetStatus(b, s) == status' = [status EXCEPT ![b] = s]

\* UpdateBuildQueueItemStatusByBuildID changes nothing when there is no item.
SetQueue(b, s) == queue' = [queue EXCEPT ![b] = IF @ = "none" THEN "none" ELSE s]

Goto(b, step) == pc' = [pc EXCEPT ![b] = step]

\* A context keeps its first cause.
CancelContexts(set, cause) ==
    ctx' = [b \in Builds |-> IF b \in set \cap Registered /\ ctx[b] = "live" THEN cause ELSE ctx[b]]

(***************************************************************************)
(* Triggers: CreateBuild, and later Enqueue (the dispatcher and run()      *)
(* create a missing item as well).                                         *)
(***************************************************************************)
CreateBuild(b) ==
    /\ server # "down"
    /\ status[b] = "absent"
    /\ SetStatus(b, "pending")
    /\ UNCHANGED <<queue, approval, held, retriedFrom, waitsOn, runVars, serverVars>>

CreateBuildQueueItem(b) ==
    /\ server # "down"
    /\ status[b] # "absent"
    /\ queue[b] = "none"
    /\ queue' = [queue EXCEPT ![b] = "queued"]
    /\ UNCHANGED <<status, approval, held, retriedFrom, waitsOn, runVars, serverVars>>

(***************************************************************************)
(* dispatchPending.                                                        *)
(***************************************************************************)
ListPendingBuilds ==
    /\ server = "up"
    /\ \A b \in Builds : listed[b] = "no"
    /\ listed' = [b \in Builds |-> IF status[b] # "pending" THEN "no"
                                   ELSE IF b \in held THEN "held" ELSE "free"]
    /\ listed' # listed
    /\ UNCHANGED <<dbVars, runVars, server, stopping, userStopped>>

Unlist(b) == listed' = [listed EXCEPT ![b] = "no"]

\* No budget left, or still running, or the dependency has not succeeded.
SkipBuild(b) ==
    /\ listed[b] # "no"
    /\ \/ Cardinality(Registered) >= Slots
       \/ b \in Registered
       \/ listed[b] = "free" /\ ~DependencyMet(b)
    /\ Unlist(b)
    /\ UNCHANGED <<dbVars, runVars, server, stopping, userStopped>>

\* Run registers nothing once the server is shutting down.
LaunchBuild(b) ==
    /\ server = "up"
    /\ listed[b] = "free"
    /\ b \notin Registered
    /\ Cardinality(Registered) < Slots
    /\ queue[b] # "none"
    /\ DependencyMet(b)
    /\ Goto(b, "load")
    /\ Unlist(b)
    /\ UNCHANGED <<dbVars, ctx, slots, server, stopping, userStopped>>

(***************************************************************************)
(* run(), before the build is marked running.                              *)
(***************************************************************************)
\* GetBuild, GetProject, the approval hold, the dependency and the pipeline
\* configuration; an invalid configuration or release target fails the build.
LoadBuild(b) ==
    /\ pc[b] = "load"
    /\ \/ /\ b \in held
          /\ SetQueue(b, "pending_approval")
          /\ Goto(b, "leave")
       \/ /\ b \notin held
          /\ \/ ~DependencyMet(b) /\ Goto(b, "leave")
             \/ DependencyMet(b) /\ (Goto(b, "acquire") \/ Goto(b, "fail"))
          /\ UNCHANGED queue
    /\ UNCHANGED <<status, approval, held, retriedFrom, waitsOn, ctx, slots, serverVars>>

AcquireSlot(b) ==
    /\ pc[b] = "acquire"
    /\ Cardinality(slots) < Slots
    /\ slots' = slots \cup {b}
    /\ Goto(b, "recheck")
    /\ UNCHANGED <<dbVars, ctx, serverVars>>

\* Mutant of StillPending: the row is not read again after the wait for a slot.
StillPendingUnchecked(b) == TRUE

StillPending(b) == status[b] = "pending"

RecheckBuild(b) ==
    /\ pc[b] = "recheck"
    /\ Goto(b, IF ~StillPending(b) THEN "leave" ELSE IF DisableConcurrent THEN "defer" ELSE "start")
    /\ UNCHANGED <<dbVars, ctx, slots, serverVars>>

\* deferForProjectConcurrency: the build gives way to a running one of its
\* project, which with abortPrevious is stopped.
DeferForProjectConcurrency(b) ==
    /\ pc[b] = "defer"
    /\ IF RunningPeers(b) = {}
       THEN Goto(b, "start") /\ UNCHANGED ctx
       ELSE /\ Goto(b, "leave")
            /\ IF AbortPrevious
               THEN \E other \in RunningPeers(b) : CancelContexts({other}, "cancelled")
               ELSE UNCHANGED ctx
    /\ UNCHANGED <<dbVars, slots, serverVars>>

\* Workspace preparation, then StartBuild, an UPDATE without a condition.
StartBuild(b) ==
    /\ pc[b] = "start"
    /\ \/ Goto(b, "fail") /\ UNCHANGED status
       \/ Goto(b, "mark") /\ SetStatus(b, "running")
    /\ UNCHANGED <<queue, approval, held, retriedFrom, waitsOn, ctx, slots, serverVars>>

MarkQueueItemRunning(b) ==
    /\ pc[b] = "mark"
    /\ SetQueue(b, "running")
    /\ Goto(b, "setup")
    /\ UNCHANGED <<status, approval, held, retriedFrom, waitsOn, ctx, slots, serverVars>>

(***************************************************************************)
(* run(), executing.                                                       *)
(***************************************************************************)
\* The build timeout covers everything after the concurrency check; a long-running
\* pipeline has none.
TimeoutBuild(b) ==
    /\ "timeout" \in Disturbances
    /\ pc[b] \in {"start", "mark", "setup", "work", "collect", "collectFailed"}
    /\ ctx[b] = "live"
    /\ ctx' = [ctx EXCEPT ![b] = "expired"]
    /\ UNCHANGED <<dbVars, pc, slots, serverVars>>

\* The SCM checkout and the build.before hook run under the context and any
\* error of theirs fails the build, a cancelled context included.
SetupBuild(b) ==
    /\ pc[b] = "setup"
    /\ Goto(b, "work") \/ Goto(b, "fail")
    /\ UNCHANGED <<dbVars, ctx, slots, serverVars>>

\* Mutant of RunStages: a cancelled run returns like one that is shut down.
RunStagesCancelLeaves(b) ==
    /\ pc[b] = "work"
    /\ \/ ctx[b] = "live" /\ (Goto(b, "collect") \/ Goto(b, "collectFailed") \/ Goto(b, "fail"))
       \/ ctx[b] \in {"cancelled", "shutdown"} /\ Goto(b, "leave")
       \/ ctx[b] = "expired" /\ Goto(b, "fail")
    /\ UNCHANGED <<dbVars, ctx, slots, serverVars>>

\* The stages end well, end with recorded failures (fail-fast is off), fail, or
\* are cut short; completedStepError never lets a step succeed in a dead context.
RunStages(b) ==
    /\ pc[b] = "work"
    /\ \/ ctx[b] = "live" /\ (Goto(b, "collect") \/ Goto(b, "collectFailed") \/ Goto(b, "fail"))
       \/ ctx[b] = "cancelled" /\ Goto(b, "cancelStore")
       \/ ctx[b] = "shutdown" /\ Goto(b, "leave")
       \/ ctx[b] = "expired" /\ Goto(b, "fail")
    /\ UNCHANGED <<dbVars, ctx, slots, serverVars>>

\* Artifacts and post steps, with the checks for a shutdown around them.
CollectResults(b) ==
    /\ \/ pc[b] = "collect" /\ Goto(b, IF ctx[b] = "shutdown" THEN "leave" ELSE "succeed")
       \/ pc[b] = "collectFailed" /\ Goto(b, IF ctx[b] = "shutdown" THEN "leave" ELSE "fail")
    /\ UNCHANGED <<dbVars, ctx, slots, serverVars>>

\* A step stopped by the user: CancelBuild, conditional on a live status.
CancelInterrupted(b) ==
    /\ pc[b] = "cancelStore"
    /\ IF status[b] \in Active THEN SetStatus(b, "cancelled") ELSE UNCHANGED status
    /\ Goto(b, "cancelQueue")
    /\ UNCHANGED <<queue, approval, held, retriedFrom, waitsOn, ctx, slots, serverVars>>

CancelInterruptedItem(b) ==
    /\ pc[b] = "cancelQueue"
    /\ SetQueue(b, "cancelled")
    /\ Goto(b, "leave")
    /\ UNCHANGED <<status, approval, held, retriedFrom, waitsOn, ctx, slots, serverVars>>

(***************************************************************************)
(* run(), success.                                                         *)
(***************************************************************************)
FinishSuccess(b) ==
    /\ pc[b] = "succeed"
    /\ SetStatus(b, "success")
    /\ Goto(b, "succeedQueue")
    /\ UNCHANGED <<queue, approval, held, retriedFrom, waitsOn, ctx, slots, serverVars>>

FinishSuccessItem(b) ==
    /\ pc[b] = "succeedQueue"
    /\ SetQueue(b, "success")
    /\ Goto(b, "triggers")
    /\ UNCHANGED <<status, approval, held, retriedFrom, waitsOn, ctx, slots, serverVars>>

\* Mutant of FiresTriggers: nothing new is started once the server shuts down.
FiresTriggersUnlessDraining(b) == status[b] = "success" /\ server = "up"

\* HandleBuildFinish reads the row again; CollectResults was the last look at the
\* shutdown flag.
FiresTriggers(b) == status[b] = "success"

\* HandleBuildFinish: a build of the downstream project that waits on this one.
FireFinishTriggers(b) ==
    /\ pc[b] = "triggers"
    /\ LET target == Downstream[ProjectOf[b]]
           fresh == IF target = NoProject THEN {} ELSE Fresh(target)
       IN  IF FiresTriggers(b) /\ fresh # {}
           THEN \E n \in fresh :
                   /\ SetStatus(n, "pending")
                   /\ waitsOn' = [waitsOn EXCEPT ![n] = b]
           ELSE UNCHANGED <<status, waitsOn>>
    /\ Goto(b, "leave")
    /\ UNCHANGED <<queue, approval, held, retriedFrom, ctx, slots, serverVars>>

(***************************************************************************)
(* fail() and scheduleAutomaticRetry.                                      *)
(***************************************************************************)
\* A run that fails while the server shuts down leaves its row to the recovery.
FailBuild(b) ==
    /\ pc[b] = "fail"
    /\ Goto(b, IF server = "draining" THEN "leave" ELSE "finish")
    /\ UNCHANGED <<dbVars, ctx, slots, serverVars>>

FinishFailed(b) ==
    /\ pc[b] = "finish"
    /\ SetStatus(b, "failed")
    /\ Goto(b, "failQueue")
    /\ UNCHANGED <<queue, approval, held, retriedFrom, waitsOn, ctx, slots, serverVars>>

FinishFailedItem(b) ==
    /\ pc[b] = "failQueue"
    /\ SetQueue(b, "failed")
    /\ Goto(b, "retry")
    /\ UNCHANGED <<status, approval, held, retriedFrom, waitsOn, ctx, slots, serverVars>>

RetryAllowed(b) == RetryLimit > 0 /\ Depth[b] < RetryLimit

\* RetryBuild copies the row; nobody asks for an approval of the copy.
ScheduleAutomaticRetry(b) ==
    /\ pc[b] = "retry"
    /\ LET fresh == Fresh(ProjectOf[b])
       IN  IF RetryAllowed(b) /\ fresh # {}
           THEN \E n \in fresh :
                   /\ SetStatus(n, "pending")
                   /\ retriedFrom' = [retriedFrom EXCEPT ![n] = b]
           ELSE UNCHANGED <<status, retriedFrom>>
    /\ Goto(b, "leave")
    /\ UNCHANGED <<queue, approval, held, waitsOn, ctx, slots, serverVars>>

\* The deferred calls: release the slot, clean the workspace, deregister.
LeaveRun(b) ==
    /\ pc[b] = "leave"
    /\ Goto(b, "none")
    /\ ctx' = [ctx EXCEPT ![b] = "live"]
    /\ slots' = slots \ {b}
    /\ UNCHANGED <<dbVars, serverVars>>

RunStep(b) ==
    \/ LoadBuild(b) \/ AcquireSlot(b) \/ RecheckBuild(b) \/ DeferForProjectConcurrency(b)
    \/ StartBuild(b) \/ MarkQueueItemRunning(b) \/ SetupBuild(b) \/ RunStages(b)
    \/ CollectResults(b) \/ CancelInterrupted(b) \/ CancelInterruptedItem(b)
    \/ FinishSuccess(b) \/ FinishSuccessItem(b) \/ FireFinishTriggers(b)
    \/ FailBuild(b) \/ FinishFailed(b) \/ FinishFailedItem(b) \/ ScheduleAutomaticRetry(b)
    \/ LeaveRun(b)

(***************************************************************************)
(* stopBuild: CancelBuild, the queue item, the approval, then Runner.Stop. *)
(***************************************************************************)
StopRequest(b) ==
    /\ "cancel" \in Disturbances
    /\ server # "down"
    /\ stopping[b] = "no"
    /\ status[b] \in Active
    /\ SetStatus(b, "cancelled")
    /\ stopping' = [stopping EXCEPT ![b] = "queue"]
    /\ userStopped' = userStopped \cup {b}
    /\ UNCHANGED <<queue, approval, held, retriedFrom, waitsOn, runVars, server, listed>>

StopQueueItem(b) ==
    /\ stopping[b] = "queue"
    /\ SetQueue(b, "cancelled")
    /\ stopping' = [stopping EXCEPT ![b] = "approval"]
    /\ UNCHANGED <<status, approval, held, retriedFrom, waitsOn, runVars, server, listed, userStopped>>

CancelPendingApproval(b) ==
    /\ stopping[b] = "approval"
    /\ approval' = [approval EXCEPT ![b] = IF @ = "pending" THEN "cancelled" ELSE @]
    /\ stopping' = [stopping EXCEPT ![b] = "signal"]
    /\ UNCHANGED <<status, queue, held, retriedFrom, waitsOn, runVars, server, listed, userStopped>>

StopRun(b) ==
    /\ stopping[b] = "signal"
    /\ CancelContexts({b}, "cancelled")
    /\ stopping' = [stopping EXCEPT ![b] = "no"]
    /\ UNCHANGED <<dbVars, pc, slots, server, listed, userStopped>>

StopStep(b) == StopQueueItem(b) \/ CancelPendingApproval(b) \/ StopRun(b)

(***************************************************************************)
(* Shutdown, crash and restart.                                            *)
(***************************************************************************)
Shutdown ==
    /\ "shutdown" \in Disturbances
    /\ server = "up"
    /\ server' = "draining"
    /\ CancelContexts(Builds, "shutdown")
    /\ UNCHANGED <<dbVars, pc, slots, listed, stopping, userStopped>>

\* The process ends: after a shutdown once every run has left, or by a crash (or
\* the shutdown deadline) at any moment.  Everything in memory is gone.
Exit ==
    /\ \/ server = "draining" /\ Registered = {}
       \/ server # "down" /\ "crash" \in Disturbances
    /\ server' = "down"
    /\ listed' = [b \in Builds |-> "no"]
    /\ pc' = [b \in Builds |-> "none"]
    /\ ctx' = [b \in Builds |-> "live"]
    /\ slots' = {}
    /\ stopping' = [b \in Builds |-> "no"]
    /\ UNCHANGED <<dbVars, userStopped>>

\* Mutant of Interrupted: recovery also picks up what failed.
InterruptedOrFailed == {b \in Builds : status[b] \in {"running", "failed"}}

\* What RecoverInterruptedBuilds selects.
Interrupted == Running

\* The row becomes pending and its item, if it has one, queued.
RequeuedItem(b) == IF queue[b] = "none" THEN "none" ELSE "queued"

\* StartQueue on the next start; one transaction for all interrupted builds.
Restart ==
    /\ server = "down"
    /\ server' = "up"
    /\ status' = [b \in Builds |-> IF b \in Interrupted THEN "pending" ELSE status[b]]
    /\ queue' = [b \in Builds |-> IF b \in Interrupted THEN RequeuedItem(b) ELSE queue[b]]
    /\ UNCHANGED <<approval, held, retriedFrom, waitsOn, runVars, listed, stopping, userStopped>>

\* A listed build that is held is ApprovalFlow's: there is none without approvals.
DispatchStep(b) == SkipBuild(b) \/ LaunchBuild(b)

\* Everything that happens to existing builds while the server is there.
BuildStep ==
    \/ ListPendingBuilds
    \/ \E b \in Builds :
        \/ CreateBuildQueueItem(b) \/ DispatchStep(b)
        \/ RunStep(b) \/ TimeoutBuild(b)
        \/ StopRequest(b) \/ StopStep(b)

RunnerNext ==
    \/ \E b \in Builds : CreateBuild(b)
    \/ BuildStep
    \/ Shutdown \/ Exit \/ Restart

RunnerSpec == RunnerInit /\ [][RunnerNext]_vars

(***************************************************************************)
(* Fairness: the goroutines and request handlers keep running, a pipeline  *)
(* ends, the dispatcher ticks every two seconds and a stopped service is   *)
(* started again.  Nobody has to trigger, stop or time out anything.       *)
(***************************************************************************)
RunnerFairness ==
    /\ WF_vars(ListPendingBuilds)
    /\ WF_vars(server = "draining" /\ Exit)
    /\ WF_vars(Restart)
    /\ \A b \in Builds : /\ WF_vars(CreateBuildQueueItem(b))
                         /\ WF_vars(DispatchStep(b))
                         /\ WF_vars(RunStep(b))
                         /\ WF_vars(StopStep(b))

FairRunnerSpec == RunnerSpec /\ RunnerFairness

-----------------------------------------------------------------------------
(***************************************************************************)
(* Properties                                                              *)
(***************************************************************************)

\* While the server is up, every build marked running has a live run that owns a
\* slot and has not finished: no early return, cancellation, failed shutdown or
\* restart leaves a build running that nothing will ever finish.
RunningIsOwned ==
    server = "up" => \A b \in Running : pc[b] \in Executing /\ b \in slots

\* The result of a build is written down and no run is left that could still
\* change it (a run that has not passed the re-check yet cannot).
Settled(b) ==
    /\ status[b] \in Terminal
    /\ listed[b] # "free"
    /\ pc[b] \in {"none", "acquire", "recheck"} \cup Reporting

\* A settled result is final.  Neither a late handler nor a scan with a stale
\* list, a retry of it, a crash or the recovery ever changes it again.
SettledIsFinal ==
    [][\A b \in Builds : Settled(b) => Settled(b)' /\ status'[b] = status[b]]_vars

\* The runs that may still write a result: they passed the re-check, or fail.
Claimed == {"defer", "start"} \cup Executing

Live == {b \in Builds : pc[b] \in Claimed}

Lifecycle == INSTANCE BuildLifecycle WITH live <- Live

\* The runner implements the life cycle of a build: nobody but its claimed run, a
\* stop request while it is active or the recovery writes its result, and a run lets
\* go of a build marked running only with a result or because the server goes down.
ImplementsLifecycle == Lifecycle!LifecycleSpec

\* A build that was retried stays failed: it is never requeued by the recovery or
\* executed again from a stale list while its retry does the same work.
RetriedStaysFailed ==
    \A b \in Builds : retriedFrom[b] # NoBuild => status[retriedFrom[b]] = "failed"

\* Every success starts a build of the downstream project, unless the rows of the
\* model are used up; a run never ends between the two.
SuccessFiresTrigger ==
    \A b \in {o \in Builds : Downstream[ProjectOf[o]] # NoProject} :
        status[b] = "success"
            ~> \/ \E n \in Builds : waitsOn[n] = b
               \/ Fresh(Downstream[ProjectOf[b]]) = {}

\* No build of a project starts while another one of the project is marked
\* running, when its pipeline disables concurrent builds.
NoConcurrentBuilds ==
    DisableConcurrent => \A b \in Running : RunningPeers(b) = {}

\* Nothing is under way for the build: no run, no stop request, no scan.
Quiet(b) == server = "up" /\ pc[b] = "none" /\ stopping[b] = "no" /\ listed[b] = "no"

\* When nothing is under way no queue item shows a finished build as running,
\* although the run and a stop request write the two tables in any order.
NoRunningItemLeft ==
    \A b \in Builds : Quiet(b) /\ status[b] \in Terminal => queue[b] # "running"

\* A build and its visible queue item never disagree after a restart: when nothing
\* is under way the item of a finished build is finished too.
QueueItemAgrees ==
    \A b \in Builds : Quiet(b) /\ status[b] \in Terminal => queue[b] \in Terminal \cup {"none"}

\* A restart requeues only builds that were running, never one that the user
\* had stopped.
RestartSparesCancelled ==
    [][server = "down" /\ server' = "up" => \A b \in userStopped : status'[b] # "pending"]_vars

\* Once the server stays up, every pending build that needs no approval leaves
\* "pending": deferring to each other never keeps the builds of a project waiting.
\* Only a build whose dependency did not succeed in the end may wait.
PendingIsServed ==
    <>[](server = "up") =>
        \A b \in Builds : status[b] = "pending" /\ b \notin held
                            ~> status[b] # "pending" \/ ~DependencyMet(b)

\* An accepted stop request takes effect: the run ends and the result settles.
StopSettles == \A b \in Builds : b \in userStopped ~> Settled(b)
=============================================================================
