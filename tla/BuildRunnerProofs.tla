------------------------- MODULE BuildRunnerProofs -------------------------
(***************************************************************************)
(* Proofs about the life of a build, for every set of builds and projects, *)
(* every pipeline option and every disturbance.  What BuildStep does is    *)
(* proved in lemmas of its own, apart from creation, shutdown, exit and    *)
(* restart, so that a specification that adds steps can use them.          *)
(***************************************************************************)
EXTENDS BuildRunner, TLAPS

\* The sets of values, to be expanded together.
USE DEF Active, Terminal

-----------------------------------------------------------------------------
(***************************************************************************)
(* Type correctness.                                                       *)
(***************************************************************************)
LEMMA SetStatusType ==
  ASSUME RunnerTypeOK, NEW b \in Builds, NEW s \in Statuses, SetStatus(b, s)
  PROVE  status' \in [Builds -> Statuses]
BY DEF SetStatus, RunnerTypeOK

LEMMA SetQueueType ==
  ASSUME RunnerTypeOK, NEW b \in Builds, NEW s \in QueueStatuses, SetQueue(b, s)
  PROVE  queue' \in [Builds -> QueueStatuses]
<1>1. "none" \in QueueStatuses
  BY DEF QueueStatuses
<1>2. QED
  BY <1>1 DEF SetQueue, RunnerTypeOK

LEMMA GotoType ==
  ASSUME RunnerTypeOK, NEW b \in Builds, NEW step \in RunSteps, Goto(b, step)
  PROVE  pc' \in [Builds -> RunSteps]
BY DEF Goto, RunnerTypeOK

LEMMA CancelContextsType ==
  ASSUME RunnerTypeOK, NEW set, NEW cause \in {"cancelled", "shutdown"},
         CancelContexts(set, cause)
  PROVE  ctx' \in [Builds -> {"live", "cancelled", "shutdown", "expired"}]
BY DEF CancelContexts, RunnerTypeOK

\* What SetStatus, SetQueue and Goto are called with.
LEMMA Values ==
  /\ {"pending", "running", "cancelled", "success", "failed"} \subseteq Statuses
  /\ {"queued", "running", "pending_approval", "cancelled", "success", "failed"} \subseteq QueueStatuses
  /\ {"none", "load", "acquire", "recheck", "defer", "start", "mark", "setup", "work", "collect",
      "collectFailed", "succeed", "cancelStore", "fail", "finish", "succeedQueue", "triggers",
      "cancelQueue", "failQueue", "retry", "leave"} \subseteq RunSteps
BY DEF Statuses, QueueStatuses, RunSteps, Preparing, Executing, Reporting

\* A step of a run keeps the types.
LEMMA RunStepType ==
  ASSUME RunnerTypeOK, NEW b \in Builds, RunStep(b)
  PROVE  RunnerTypeOK'
<1> USE DEF dbVars, runVars, serverVars
<1> USE Values
<1>1. CASE LoadBuild(b)
  <2>1. pc' \in [Builds -> RunSteps]
    BY <1>1, GotoType DEF LoadBuild
  <2>2. queue' \in [Builds -> QueueStatuses]
    BY <1>1, SetQueueType DEF LoadBuild, RunnerTypeOK
  <2>3. QED
    BY <1>1, <2>1, <2>2 DEF LoadBuild, RunnerTypeOK
<1>2. CASE AcquireSlot(b)
  BY <1>2, GotoType DEF AcquireSlot, RunnerTypeOK
<1>3. CASE RecheckBuild(b)
  <2>1. pc' \in [Builds -> RunSteps]
    BY <1>3, GotoType DEF RecheckBuild
  <2>2. QED
    BY <1>3, <2>1 DEF RecheckBuild, RunnerTypeOK
<1>4. CASE DeferForProjectConcurrency(b)
  <2>1. pc' \in [Builds -> RunSteps]
    BY <1>4, GotoType DEF DeferForProjectConcurrency
  <2>2. ctx' \in [Builds -> {"live", "cancelled", "shutdown", "expired"}]
    BY <1>4, CancelContextsType DEF DeferForProjectConcurrency, RunnerTypeOK
  <2>3. QED
    BY <1>4, <2>1, <2>2 DEF DeferForProjectConcurrency, RunnerTypeOK
<1>5. CASE StartBuild(b)
  <2>1. pc' \in [Builds -> RunSteps]
    BY <1>5, GotoType DEF StartBuild
  <2>2. status' \in [Builds -> Statuses]
    BY <1>5, SetStatusType DEF StartBuild, RunnerTypeOK
  <2>3. QED
    BY <1>5, <2>1, <2>2 DEF StartBuild, RunnerTypeOK
<1>6. CASE SetupBuild(b) \/ RunStages(b) \/ CollectResults(b) \/ FailBuild(b)
  <2>1. pc' \in [Builds -> RunSteps]
    BY <1>6, GotoType DEF SetupBuild, RunStages, CollectResults, FailBuild
  <2>2. QED
    BY <1>6, <2>1 DEF SetupBuild, RunStages, CollectResults, FailBuild, RunnerTypeOK
<1>7. CASE MarkQueueItemRunning(b) \/ CancelInterruptedItem(b) \/ FinishSuccessItem(b)
           \/ FinishFailedItem(b)
  <2>1. pc' \in [Builds -> RunSteps]
    BY <1>7, GotoType DEF MarkQueueItemRunning, CancelInterruptedItem, FinishSuccessItem,
                          FinishFailedItem
  <2>2. queue' \in [Builds -> QueueStatuses]
    BY <1>7, SetQueueType DEF MarkQueueItemRunning, CancelInterruptedItem, FinishSuccessItem,
                              FinishFailedItem
  <2>3. QED
    BY <1>7, <2>1, <2>2 DEF MarkQueueItemRunning, CancelInterruptedItem, FinishSuccessItem,
                            FinishFailedItem, RunnerTypeOK
<1>8. CASE CancelInterrupted(b) \/ FinishSuccess(b) \/ FinishFailed(b)
  <2>1. pc' \in [Builds -> RunSteps]
    BY <1>8, GotoType DEF CancelInterrupted, FinishSuccess, FinishFailed
  <2>2. status' \in [Builds -> Statuses]
    BY <1>8, SetStatusType DEF CancelInterrupted, FinishSuccess, FinishFailed, RunnerTypeOK
  <2>3. QED
    BY <1>8, <2>1, <2>2 DEF CancelInterrupted, FinishSuccess, FinishFailed, RunnerTypeOK
<1>9. CASE FireFinishTriggers(b)
  <2>1. pc' \in [Builds -> RunSteps]
    BY <1>9, GotoType DEF FireFinishTriggers
  <2>2. \/ UNCHANGED <<status, waitsOn>>
        \/ \E n \in Builds : SetStatus(n, "pending") /\ waitsOn' = [waitsOn EXCEPT ![n] = b]
    BY <1>9 DEF FireFinishTriggers, Fresh
  <2>3. status' \in [Builds -> Statuses] /\ waitsOn' \in [Builds -> Builds \cup {NoBuild}]
    BY <2>2, SetStatusType DEF RunnerTypeOK
  <2>4. QED
    BY <1>9, <2>1, <2>3 DEF FireFinishTriggers, RunnerTypeOK
<1>10. CASE ScheduleAutomaticRetry(b)
  <2>1. pc' \in [Builds -> RunSteps]
    BY <1>10, GotoType DEF ScheduleAutomaticRetry
  <2>2. \/ UNCHANGED <<status, retriedFrom>>
        \/ \E n \in Builds : SetStatus(n, "pending") /\ retriedFrom' = [retriedFrom EXCEPT ![n] = b]
    BY <1>10 DEF ScheduleAutomaticRetry, Fresh
  <2>3. status' \in [Builds -> Statuses] /\ retriedFrom' \in [Builds -> Builds \cup {NoBuild}]
    BY <2>2, SetStatusType DEF RunnerTypeOK
  <2>4. QED
    BY <1>10, <2>1, <2>3 DEF ScheduleAutomaticRetry, RunnerTypeOK
<1>11. CASE LeaveRun(b)
  <2>1. pc' \in [Builds -> RunSteps]
    BY <1>11, GotoType DEF LeaveRun
  <2>2. QED
    BY <1>11, <2>1 DEF LeaveRun, RunnerTypeOK
<1>12. QED
  BY <1>1, <1>2, <1>3, <1>4, <1>5, <1>6, <1>7, <1>8, <1>9, <1>10, <1>11 DEF RunStep

\* So does everything else that happens to existing builds.
LEMMA BuildStepType ==
  ASSUME RunnerTypeOK, BuildStep
  PROVE  RunnerTypeOK'
<1> USE Values DEF dbVars, runVars, serverVars
<1>1. CASE ListPendingBuilds
  BY <1>1 DEF ListPendingBuilds, RunnerTypeOK
<1>2. ASSUME NEW b \in Builds, CreateBuildQueueItem(b)
      PROVE  RunnerTypeOK'
  BY <1>2 DEF CreateBuildQueueItem, RunnerTypeOK
<1>3. ASSUME NEW b \in Builds, DispatchStep(b)
      PROVE  RunnerTypeOK'
  <2>1. CASE SkipBuild(b)
    BY <2>1 DEF SkipBuild, Unlist, RunnerTypeOK
  <2>2. CASE LaunchBuild(b)
    <3>1. pc' \in [Builds -> RunSteps]
      BY <2>2, GotoType DEF LaunchBuild
    <3>2. QED
      BY <2>2, <3>1 DEF LaunchBuild, Unlist, RunnerTypeOK
  <2>3. QED
    BY <1>3, <2>1, <2>2 DEF DispatchStep
<1>4. ASSUME NEW b \in Builds, TimeoutBuild(b)
      PROVE  RunnerTypeOK'
  BY <1>4 DEF TimeoutBuild, RunnerTypeOK
<1>5. ASSUME NEW b \in Builds, StopRequest(b) \/ StopStep(b)
      PROVE  RunnerTypeOK'
  <2>1. CASE StopRequest(b)
    <3>1. status' \in [Builds -> Statuses]
      BY <2>1, SetStatusType DEF StopRequest
    <3>2. QED
      BY <2>1, <3>1 DEF StopRequest, RunnerTypeOK
  <2>2. CASE StopQueueItem(b)
    <3>1. queue' \in [Builds -> QueueStatuses]
      BY <2>2, SetQueueType DEF StopQueueItem
    <3>2. QED
      BY <2>2, <3>1 DEF StopQueueItem, RunnerTypeOK
  <2>3. CASE CancelPendingApproval(b)
    BY <2>3 DEF CancelPendingApproval, ApprovalStatuses, RunnerTypeOK
  <2>4. CASE StopRun(b)
    <3>1. ctx' \in [Builds -> {"live", "cancelled", "shutdown", "expired"}]
      BY <2>4, CancelContextsType DEF StopRun
    <3>2. QED
      BY <2>4, <3>1 DEF StopRun, RunnerTypeOK
  <2>5. QED
    BY <1>5, <2>1, <2>2, <2>3, <2>4 DEF StopStep
<1>6. QED
  BY <1>1, <1>2, <1>3, <1>4, <1>5, RunStepType DEF BuildStep

\* Creation, shutdown, the end of the process and the recovery.
LEMMA ServerStepType ==
  ASSUME RunnerTypeOK, (\E b \in Builds : CreateBuild(b)) \/ Shutdown \/ Exit \/ Restart
  PROVE  RunnerTypeOK'
<1> USE Values DEF dbVars, runVars, serverVars
<1>1. ASSUME NEW b \in Builds, CreateBuild(b)
      PROVE  RunnerTypeOK'
  <2>1. status' \in [Builds -> Statuses]
    BY <1>1, SetStatusType DEF CreateBuild
  <2>2. QED
    BY <1>1, <2>1 DEF CreateBuild, RunnerTypeOK
<1>2. CASE Shutdown
  <2>1. ctx' \in [Builds -> {"live", "cancelled", "shutdown", "expired"}]
    BY <1>2, CancelContextsType DEF Shutdown
  <2>2. QED
    BY <1>2, <2>1 DEF Shutdown, RunnerTypeOK
<1>3. CASE Exit
  BY <1>3 DEF Exit, RunnerTypeOK
<1>4. CASE Restart
  <2>1. status' \in [Builds -> Statuses]
    BY <1>4 DEF Restart, RunnerTypeOK
  <2>2. queue' \in [Builds -> QueueStatuses]
    BY <1>4, "none" \in QueueStatuses DEF Restart, RequeuedItem, QueueStatuses, RunnerTypeOK
  <2>3. QED
    BY <1>4, <2>1, <2>2 DEF Restart, RunnerTypeOK
<1>5. QED
  BY <1>1, <1>2, <1>3, <1>4

LEMMA TypeStep == RunnerTypeOK /\ [RunnerNext]_vars => RunnerTypeOK'
<1> SUFFICES ASSUME RunnerTypeOK, [RunnerNext]_vars
             PROVE  RunnerTypeOK'
  OBVIOUS
<1>1. CASE RunnerNext
  BY <1>1, BuildStepType, ServerStepType DEF RunnerNext
<1>2. CASE UNCHANGED vars
  BY <1>2 DEF vars, dbVars, runVars, serverVars, RunnerTypeOK
<1>3. QED
  BY <1>1, <1>2

\* The rows, the queue items, the runs, the scan and the requests keep their types,
\* under every disturbance.
THEOREM RunnerTypeCorrect == RunnerSpec => []RunnerTypeOK
<1>1. RunnerInit => RunnerTypeOK
  BY DEF RunnerInit, RunnerTypeOK, Statuses, QueueStatuses, ApprovalStatuses, RunSteps
<1>2. QED
  BY <1>1, TypeStep, PTL DEF RunnerSpec

-----------------------------------------------------------------------------
(***************************************************************************)
(* RunningIsOwned is not inductive: a run may only leave a row "running"   *)
(* behind when its context was cut by a shutdown, and may only mark it     *)
(* when it owns a slot.                                                    *)
(***************************************************************************)
\* A run that got past the wait for a slot, and has not started, owns one.
WaitedForSlot == \A b \in Builds : pc[b] \in {"recheck", "defer", "start"} => b \in slots

\* The shutdown cause is seen in no process that is not shutting down.
ShutdownIsDraining == \A b \in Builds : ctx[b] = "shutdown" => server = "draining"

Ownership == RunningIsOwned /\ WaitedForSlot /\ ShutdownIsDraining

\* A step of a run keeps the ownership: it is the only one to mark a row running, and
\* when the server is up it writes a result before it leaves.
LEMMA RunStepOwnership ==
  ASSUME RunnerTypeOK, Ownership, NEW b \in Builds, RunStep(b)
  PROVE  Ownership'
<1> USE DEF Ownership, RunningIsOwned, WaitedForSlot, ShutdownIsDraining, Running, RunnerTypeOK,
            Executing, SetStatus, Goto, dbVars, runVars, serverVars
<1>1. CASE LoadBuild(b)
  BY <1>1 DEF LoadBuild
<1>2. CASE AcquireSlot(b)
  BY <1>2 DEF AcquireSlot
<1>3. CASE RecheckBuild(b)
  BY <1>3 DEF RecheckBuild
<1>4. CASE DeferForProjectConcurrency(b)
  <2>1. \A o \in Builds : ctx'[o] = "shutdown" => ctx[o] = "shutdown"
    BY <1>4 DEF DeferForProjectConcurrency, CancelContexts
  <2>2. QED
    BY <1>4, <2>1 DEF DeferForProjectConcurrency
<1>5. CASE StartBuild(b)
  BY <1>5 DEF StartBuild
<1>6. CASE SetupBuild(b) \/ MarkQueueItemRunning(b)
  BY <1>6 DEF SetupBuild, MarkQueueItemRunning
<1>7. CASE RunStages(b)
  BY <1>7 DEF RunStages
<1>8. CASE CollectResults(b)
  BY <1>8 DEF CollectResults
<1>9. CASE CancelInterrupted(b)
  BY <1>9 DEF CancelInterrupted
<1>10. CASE CancelInterruptedItem(b) \/ FinishSuccessItem(b) \/ FinishFailedItem(b)
  BY <1>10 DEF CancelInterruptedItem, FinishSuccessItem, FinishFailedItem
<1>11. CASE FinishSuccess(b) \/ FinishFailed(b)
  BY <1>11 DEF FinishSuccess, FinishFailed
<1>12. CASE FireFinishTriggers(b)
  <2>1. Running' \subseteq Running
    BY <1>12 DEF FireFinishTriggers
  <2>2. QED
    BY <1>12, <2>1 DEF FireFinishTriggers
<1>13. CASE FailBuild(b)
  BY <1>13 DEF FailBuild
<1>14. CASE ScheduleAutomaticRetry(b)
  <2>1. Running' \subseteq Running
    BY <1>14 DEF ScheduleAutomaticRetry
  <2>2. QED
    BY <1>14, <2>1 DEF ScheduleAutomaticRetry
<1>15. CASE LeaveRun(b)
  BY <1>15 DEF LeaveRun
<1>16. QED
  BY <1>1, <1>2, <1>3, <1>4, <1>5, <1>6, <1>7, <1>8, <1>9, <1>10, <1>11, <1>12, <1>13, <1>14,
     <1>15 DEF RunStep

\* Dispatching, timeouts and stop requests keep it: none of them ends a run.
LEMMA BuildStepOwnership ==
  ASSUME RunnerTypeOK, Ownership, BuildStep
  PROVE  Ownership'
<1> USE DEF Ownership, RunningIsOwned, WaitedForSlot, ShutdownIsDraining, Running, RunnerTypeOK,
            Executing, SetStatus, Goto, dbVars, runVars, serverVars
<1>1. CASE ListPendingBuilds
  BY <1>1 DEF ListPendingBuilds
<1>2. ASSUME NEW b \in Builds, CreateBuildQueueItem(b) \/ SkipBuild(b)
      PROVE  Ownership'
  BY <1>2 DEF CreateBuildQueueItem, SkipBuild
<1>3. ASSUME NEW b \in Builds, LaunchBuild(b)
      PROVE  Ownership'
  <2>1. b \notin Running
    BY <1>3 DEF LaunchBuild, Registered
  <2>2. QED
    BY <1>3, <2>1 DEF LaunchBuild
<1>4. ASSUME NEW b \in Builds, TimeoutBuild(b)
      PROVE  Ownership'
  BY <1>4 DEF TimeoutBuild
<1>5. ASSUME NEW b \in Builds, StopRequest(b)
      PROVE  Ownership'
  <2>1. Running' \subseteq Running
    BY <1>5 DEF StopRequest
  <2>2. QED
    BY <1>5, <2>1 DEF StopRequest
<1>6. ASSUME NEW b \in Builds, StopQueueItem(b) \/ CancelPendingApproval(b)
      PROVE  Ownership'
  BY <1>6 DEF StopQueueItem, CancelPendingApproval
<1>7. ASSUME NEW b \in Builds, StopRun(b)
      PROVE  Ownership'
  <2>1. \A o \in Builds : ctx'[o] = "shutdown" => ctx[o] = "shutdown"
    BY <1>7 DEF StopRun, CancelContexts
  <2>2. QED
    BY <1>7, <2>1 DEF StopRun
<1>8. QED
  BY <1>1, <1>2, <1>3, <1>4, <1>5, <1>6, <1>7, RunStepOwnership
     DEF BuildStep, DispatchStep, StopStep

\* The recovery leaves no row running before the first run of the new process.
LEMMA ServerStepOwnership ==
  ASSUME RunnerTypeOK, Ownership, (\E b \in Builds : CreateBuild(b)) \/ Shutdown \/ Exit \/ Restart
  PROVE  Ownership'
<1> USE DEF Ownership, RunningIsOwned, WaitedForSlot, ShutdownIsDraining, Running, RunnerTypeOK,
            Executing, SetStatus, Goto, dbVars, runVars, serverVars
<1>1. ASSUME NEW b \in Builds, CreateBuild(b)
      PROVE  Ownership'
  <2>1. Running' \subseteq Running
    BY <1>1 DEF CreateBuild
  <2>2. QED
    BY <1>1, <2>1 DEF CreateBuild
<1>2. CASE Shutdown
  BY <1>2 DEF Shutdown
<1>3. CASE Exit
  BY <1>3 DEF Exit
<1>4. CASE Restart
  <2>1. Running' = {}
    BY <1>4 DEF Restart, Interrupted
  <2>2. QED
    BY <1>4, <2>1 DEF Restart
<1>5. QED
  BY <1>1, <1>2, <1>3, <1>4

LEMMA OwnershipStep == RunnerTypeOK /\ Ownership /\ [RunnerNext]_vars => Ownership'
<1> SUFFICES ASSUME RunnerTypeOK, Ownership, [RunnerNext]_vars
             PROVE  Ownership'
  OBVIOUS
<1>1. CASE RunnerNext
  BY <1>1, BuildStepOwnership, ServerStepOwnership DEF RunnerNext
<1>2. CASE UNCHANGED vars
  BY <1>2 DEF vars, dbVars, runVars, serverVars, Ownership, RunningIsOwned, WaitedForSlot,
              ShutdownIsDraining, Running
<1>3. QED
  BY <1>1, <1>2

LEMMA OwnershipHolds == RunnerSpec => []Ownership
<1>1. RunnerInit => Ownership
  BY DEF RunnerInit, Ownership, RunningIsOwned, WaitedForSlot, ShutdownIsDraining, Running
<1>2. QED
  BY <1>1, OwnershipStep, RunnerTypeCorrect, PTL DEF RunnerSpec

\* While the server is up no build is marked running without a live run that owns a
\* slot: no early return, cancellation, timeout, shutdown, crash or recovery leaves
\* a build running for ever.
THEOREM RunningIsOwnedHolds == RunnerSpec => []RunningIsOwned
<1>1. Ownership => RunningIsOwned
  BY DEF Ownership
<1>2. QED
  BY <1>1, OwnershipHolds, PTL

-----------------------------------------------------------------------------
(***************************************************************************)
(* A settled result is final.  The type invariant is all it takes: the     *)
(* places where a run may stand, and the stale list, are in Settled.       *)
(***************************************************************************)
\* The statuses of existing rows that a step of a run of another build may not touch.
LEMMA RunStepSettled ==
  ASSUME RunnerTypeOK, NEW b \in Builds, Settled(b), NEW r \in Builds, RunStep(r)
  PROVE  Settled(b)' /\ status'[b] = status[b]
<1> USE DEF Settled, RunnerTypeOK, Reporting, SetStatus, Goto, dbVars, runVars, serverVars
<1>1. CASE LoadBuild(r)
  BY <1>1 DEF LoadBuild
<1>2. CASE AcquireSlot(r)
  BY <1>2 DEF AcquireSlot
<1>3. CASE RecheckBuild(r)
  BY <1>3 DEF RecheckBuild, StillPending
<1>4. CASE DeferForProjectConcurrency(r)
  BY <1>4 DEF DeferForProjectConcurrency
<1>5. CASE StartBuild(r) \/ MarkQueueItemRunning(r) \/ SetupBuild(r)
  BY <1>5 DEF StartBuild, MarkQueueItemRunning, SetupBuild
<1>6. CASE RunStages(r) \/ CollectResults(r)
  BY <1>6 DEF RunStages, CollectResults
<1>7. CASE CancelInterrupted(r) \/ FinishSuccess(r) \/ FinishFailed(r)
  BY <1>7 DEF CancelInterrupted, FinishSuccess, FinishFailed
<1>8. CASE CancelInterruptedItem(r) \/ FinishSuccessItem(r) \/ FinishFailedItem(r) \/ FailBuild(r)
  BY <1>8 DEF CancelInterruptedItem, FinishSuccessItem, FinishFailedItem, FailBuild
<1>9. CASE FireFinishTriggers(r)
  <2>1. \A n \in Fresh(Downstream[ProjectOf[r]]) : n # b
    BY DEF Fresh
  <2>2. QED
    BY <1>9, <2>1 DEF FireFinishTriggers
<1>10. CASE ScheduleAutomaticRetry(r)
  <2>1. \A n \in Fresh(ProjectOf[r]) : n # b
    BY DEF Fresh
  <2>2. QED
    BY <1>10, <2>1 DEF ScheduleAutomaticRetry
<1>11. CASE LeaveRun(r)
  BY <1>11 DEF LeaveRun
<1>12. QED
  BY <1>1, <1>2, <1>3, <1>4, <1>5, <1>6, <1>7, <1>8, <1>9, <1>10, <1>11 DEF RunStep

\* Once a build has its result, and neither a run that passed the re-check nor the
\* dispatcher's list can still reach it, no handler, retry, crash or recovery changes it.
THEOREM SettledIsFinalHolds == RunnerSpec => SettledIsFinal
<1>1. ASSUME RunnerTypeOK, RunnerNext, NEW b \in Builds, Settled(b)
      PROVE  Settled(b)' /\ status'[b] = status[b]
  <2> USE <1>1 DEF Settled, RunnerTypeOK, Reporting, SetStatus, Goto, dbVars, runVars, serverVars
  <2>1. ASSUME NEW o \in Builds, CreateBuild(o) \/ StopRequest(o)
        PROVE  Settled(b)' /\ status'[b] = status[b]
    BY <2>1 DEF CreateBuild, StopRequest
  <2>2. CASE ListPendingBuilds
    BY <2>2 DEF ListPendingBuilds
  <2>3. ASSUME NEW o \in Builds, CreateBuildQueueItem(o) \/ SkipBuild(o) \/ LaunchBuild(o)
        PROVE  Settled(b)' /\ status'[b] = status[b]
    BY <2>3 DEF CreateBuildQueueItem, SkipBuild, LaunchBuild, Unlist
  <2>4. ASSUME NEW o \in Builds, TimeoutBuild(o) \/ StopStep(o)
        PROVE  Settled(b)' /\ status'[b] = status[b]
    BY <2>4 DEF TimeoutBuild, StopStep, StopQueueItem, CancelPendingApproval, StopRun
  <2>5. CASE Shutdown
    BY <2>5 DEF Shutdown
  <2>6. CASE Exit
    BY <2>6 DEF Exit
  <2>7. CASE Restart
    BY <2>7 DEF Restart, Interrupted, Running
  <2>8. QED
    BY <2>1, <2>2, <2>3, <2>4, <2>5, <2>6, <2>7, RunStepSettled
       DEF RunnerNext, BuildStep, DispatchStep
<1>2. RunnerTypeOK /\ [RunnerNext]_vars
        => [\A b \in Builds : Settled(b) => Settled(b)' /\ status'[b] = status[b]]_vars
  BY <1>1
<1>3. QED
  BY <1>2, RunnerTypeCorrect, PTL DEF RunnerSpec, SettledIsFinal

-----------------------------------------------------------------------------
(***************************************************************************)
(* A retried build stays failed.  The strengthening says where the run of  *)
(* a failed build may stand: a stale list can launch it again, but such a  *)
(* run ends at the re-check or fails once more.                            *)
(***************************************************************************)
FailedRunIsHarmless ==
    /\ \A b \in Builds : status[b] = "failed" =>
         pc[b] \in {"none", "load", "acquire", "recheck", "fail", "finish", "failQueue", "retry", "leave"}
    /\ \A b \in Builds : pc[b] \in {"failQueue", "retry"} => status[b] = "failed"

Retries == RetriedStaysFailed /\ FailedRunIsHarmless

LEMMA RunStepRetries ==
  ASSUME RunnerTypeOK, Retries, NEW r \in Builds, RunStep(r)
  PROVE  Retries'
<1> USE RunnerAssumption
    DEF Retries, RetriedStaysFailed, FailedRunIsHarmless, RunnerTypeOK, SetStatus, Goto, dbVars,
        runVars, serverVars
<1>1. CASE LoadBuild(r)
  BY <1>1 DEF LoadBuild
<1>2. CASE AcquireSlot(r) \/ RecheckBuild(r)
  BY <1>2 DEF AcquireSlot, RecheckBuild, StillPending
<1>3. CASE DeferForProjectConcurrency(r)
  BY <1>3 DEF DeferForProjectConcurrency
<1>4. CASE StartBuild(r) \/ MarkQueueItemRunning(r) \/ SetupBuild(r)
  BY <1>4 DEF StartBuild, MarkQueueItemRunning, SetupBuild
<1>5. CASE RunStages(r) \/ CollectResults(r)
  BY <1>5 DEF RunStages, CollectResults
<1>6. CASE CancelInterrupted(r) \/ FinishSuccess(r) \/ FinishFailed(r)
  BY <1>6 DEF CancelInterrupted, FinishSuccess, FinishFailed
<1>7. CASE CancelInterruptedItem(r) \/ FinishSuccessItem(r) \/ FinishFailedItem(r) \/ FailBuild(r)
  BY <1>7 DEF CancelInterruptedItem, FinishSuccessItem, FinishFailedItem, FailBuild
<1>8. CASE FireFinishTriggers(r)
  <2>1. \A n \in Fresh(Downstream[ProjectOf[r]]) : n \in Builds /\ status[n] = "absent"
    BY DEF Fresh
  <2>2. \A o \in Builds : status'[o] = status[o] \/ (status[o] = "absent" /\ status'[o] = "pending")
    BY <1>8, <2>1 DEF FireFinishTriggers
  <2>3. QED
    BY <1>8, <2>2 DEF FireFinishTriggers
<1>9. CASE ScheduleAutomaticRetry(r)
  <2>1. \A n \in Fresh(ProjectOf[r]) : n \in Builds /\ status[n] = "absent"
    BY DEF Fresh
  <2>2. \A o \in Builds : status'[o] = status[o] \/ (status[o] = "absent" /\ status'[o] = "pending")
    BY <1>9, <2>1 DEF ScheduleAutomaticRetry
  <2>3. \A o \in Builds : retriedFrom'[o] = retriedFrom[o] \/ retriedFrom'[o] = r
    BY <1>9, <2>1 DEF ScheduleAutomaticRetry
  <2>4. QED
    BY <1>9, <2>2, <2>3 DEF ScheduleAutomaticRetry
<1>10. CASE LeaveRun(r)
  BY <1>10 DEF LeaveRun
<1>11. QED
  BY <1>1, <1>2, <1>3, <1>4, <1>5, <1>6, <1>7, <1>8, <1>9, <1>10 DEF RunStep

\* A build that was retried keeps the status "failed" for ever: the recovery does not
\* requeue it and no launch from a stale list executes it while its retry runs.
THEOREM RetriedStaysFailedHolds == RunnerSpec => []RetriedStaysFailed
<1>1. RunnerInit => Retries
  BY DEF RunnerInit, Retries, RetriedStaysFailed, FailedRunIsHarmless
<1>2. RunnerTypeOK /\ Retries /\ [RunnerNext]_vars => Retries'
  <2> SUFFICES ASSUME RunnerTypeOK, Retries, [RunnerNext]_vars
               PROVE  Retries'
    OBVIOUS
  <2> USE RunnerAssumption
      DEF Retries, RetriedStaysFailed, FailedRunIsHarmless, RunnerTypeOK, SetStatus, Goto,
          dbVars, runVars, serverVars
  <2>1. ASSUME NEW o \in Builds, CreateBuild(o) \/ StopRequest(o)
        PROVE  Retries'
    BY <2>1 DEF CreateBuild, StopRequest
  <2>2. CASE ListPendingBuilds
    BY <2>2 DEF ListPendingBuilds
  <2>3. ASSUME NEW o \in Builds, CreateBuildQueueItem(o) \/ SkipBuild(o) \/ LaunchBuild(o)
        PROVE  Retries'
    BY <2>3 DEF CreateBuildQueueItem, SkipBuild, LaunchBuild
  <2>4. ASSUME NEW o \in Builds, TimeoutBuild(o) \/ StopStep(o)
        PROVE  Retries'
    BY <2>4 DEF TimeoutBuild, StopStep, StopQueueItem, CancelPendingApproval, StopRun
  <2>5. CASE Shutdown
    BY <2>5 DEF Shutdown
  <2>6. CASE Exit
    BY <2>6 DEF Exit
  <2>7. CASE Restart
    BY <2>7 DEF Restart, Interrupted, Running
  <2>8. CASE UNCHANGED vars
    BY <2>8 DEF vars
  <2>9. QED
    BY <2>1, <2>2, <2>3, <2>4, <2>5, <2>6, <2>7, <2>8, RunStepRetries
       DEF RunnerNext, BuildStep, DispatchStep
<1>3. Retries => RetriedStaysFailed
  BY DEF Retries
<1>4. QED
  BY <1>1, <1>2, <1>3, RunnerTypeCorrect, PTL DEF RunnerSpec

-----------------------------------------------------------------------------
(***************************************************************************)
(* The refinement of BuildLifecycle.  It rests on the ownership (a run lets *)
(* go of a running build only in a shutdown) and on the fact that runs and *)
(* scans concern existing rows.                                            *)
(***************************************************************************)
ConcernsRows == \A b \in Builds : status[b] = "absent" => pc[b] = "none" /\ listed[b] = "no"

LEMMA ConcernsRowsStep ==
  ASSUME RunnerTypeOK, ConcernsRows, [RunnerNext]_vars
  PROVE  ConcernsRows'
<1> USE DEF ConcernsRows, RunnerTypeOK, SetStatus, Goto, Unlist, dbVars, runVars, serverVars
<1>1. ASSUME NEW b \in Builds, RunStep(b)
      PROVE  ConcernsRows'
  <2>1. status[b] # "absent"
    BY <1>1 DEF RunStep, LoadBuild, AcquireSlot, RecheckBuild, DeferForProjectConcurrency, StartBuild,
                MarkQueueItemRunning, SetupBuild, RunStages, CollectResults, CancelInterrupted,
                CancelInterruptedItem, FinishSuccess, FinishSuccessItem, FireFinishTriggers, FailBuild,
                FinishFailed, FinishFailedItem, ScheduleAutomaticRetry, LeaveRun
  <2>2. \A o \in Builds : status'[o] = "absent" => status[o] = "absent"
    BY <1>1, <2>1
    DEF RunStep, LoadBuild, AcquireSlot, RecheckBuild, DeferForProjectConcurrency, StartBuild,
        MarkQueueItemRunning, SetupBuild, RunStages, CollectResults, CancelInterrupted,
        CancelInterruptedItem, FinishSuccess, FinishSuccessItem, FireFinishTriggers, FailBuild,
        FinishFailed, FinishFailedItem, ScheduleAutomaticRetry, LeaveRun
  <2>3. (\A o \in Builds \ {b} : pc'[o] = pc[o]) /\ listed' = listed
    BY <1>1
    DEF RunStep, LoadBuild, AcquireSlot, RecheckBuild, DeferForProjectConcurrency, StartBuild,
        MarkQueueItemRunning, SetupBuild, RunStages, CollectResults, CancelInterrupted,
        CancelInterruptedItem, FinishSuccess, FinishSuccessItem, FireFinishTriggers, FailBuild,
        FinishFailed, FinishFailedItem, ScheduleAutomaticRetry, LeaveRun
  <2>4. QED
    BY <2>1, <2>2, <2>3
<1>2. ASSUME NEW b \in Builds, CreateBuild(b) \/ CreateBuildQueueItem(b) \/ TimeoutBuild(b) \/ StopRequest(b)
      PROVE  ConcernsRows'
  BY <1>2 DEF CreateBuild, CreateBuildQueueItem, TimeoutBuild, StopRequest
<1>3. CASE ListPendingBuilds
  BY <1>3 DEF ListPendingBuilds
<1>4. ASSUME NEW b \in Builds, DispatchStep(b) \/ StopStep(b)
      PROVE  ConcernsRows'
  BY <1>4 DEF DispatchStep, SkipBuild, LaunchBuild, StopStep, StopQueueItem, CancelPendingApproval, StopRun
<1>5. CASE Shutdown \/ Exit \/ UNCHANGED vars
  BY <1>5 DEF Shutdown, Exit, vars
<1>6. CASE Restart
  BY <1>6 DEF Restart
<1>7. QED
  BY <1>1, <1>2, <1>3, <1>4, <1>5, <1>6 DEF RunnerNext, BuildStep

\* Every step of a run is a step of the life cycle of its build, or the creation of
\* another one, or none.
LEMMA RunStepLifecycle ==
  ASSUME RunnerTypeOK, Ownership, ConcernsRows, NEW b \in Builds, RunStep(b)
  PROVE  Lifecycle!LifecycleNext \/ (status' = status /\ Live' = Live /\ server' = server)
<1> USE DEF RunnerTypeOK, Live, Claimed, Executing, SetStatus, Goto, dbVars, runVars, serverVars,
            Lifecycle!Becomes
<1> DEFINE Kept == status' = status /\ Live' = Live /\ server' = server
<1>1. CASE LoadBuild(b)
  <2>1. status' = status /\ server' = server /\ status[b] # "absent"
    BY <1>1 DEF LoadBuild, ConcernsRows
  <2>2. CASE pc' = [pc EXCEPT ![b] = "fail"]
    <3>1. b \notin Live /\ Live' = Live \cup {b}
      BY <1>1, <2>2 DEF LoadBuild
    <3>2. Lifecycle!Claim(b)
      BY <2>1, <3>1 DEF Lifecycle!Claim
    <3>3. QED
      BY <3>2 DEF Lifecycle!LifecycleNext
  <2>3. CASE pc' # [pc EXCEPT ![b] = "fail"]
    BY <1>1, <2>1, <2>3 DEF LoadBuild
  <2>4. QED
    BY <2>2, <2>3
<1>2. CASE AcquireSlot(b)
  BY <1>2 DEF AcquireSlot
<1>3. CASE RecheckBuild(b)
  <2>1. CASE StillPending(b)
    <3>1. b \notin Live /\ Live' = Live \cup {b} /\ status[b] = "pending"
      BY <1>3, <2>1 DEF RecheckBuild, StillPending
    <3>2. Lifecycle!Claim(b)
      BY <1>3, <3>1 DEF RecheckBuild, Lifecycle!Claim
    <3>3. QED
      BY <3>2 DEF Lifecycle!LifecycleNext
  <2>2. CASE ~StillPending(b)
    BY <1>3, <2>2 DEF RecheckBuild
  <2>3. QED
    BY <2>1, <2>2
<1>4. ASSUME pc[b] \in Claimed, pc' = [pc EXCEPT ![b] = "leave"],
             UNCHANGED <<status, server>>, server = "up" => status[b] # "running"
      PROVE  Lifecycle!LifecycleNext
  <2>1. b \in Live /\ Live' = Live \ {b}
    BY <1>4
  <2>2. Lifecycle!LetGo(b)
    BY <1>4, <2>1 DEF Lifecycle!LetGo
  <2>3. QED
    BY <1>4, <2>1, <2>2 DEF Lifecycle!LifecycleNext
<1>5. CASE DeferForProjectConcurrency(b)
  <2>1. CASE RunningPeers(b) = {}
    BY <1>5, <2>1 DEF DeferForProjectConcurrency
  <2>2. CASE RunningPeers(b) # {}
    <3>1. server = "up" => status[b] # "running"
      BY <1>5 DEF DeferForProjectConcurrency, Ownership, RunningIsOwned, Running
    <3>2. QED
      BY <1>4, <1>5, <2>2, <3>1 DEF DeferForProjectConcurrency
  <2>3. QED
    BY <2>1, <2>2
<1>6. CASE StartBuild(b)
  <2>1. CASE UNCHANGED status
    BY <1>6, <2>1 DEF StartBuild
  <2>2. CASE SetStatus(b, "running")
    <3>1. b \in Live /\ Lifecycle!Begin(b)
      BY <1>6, <2>2 DEF StartBuild, Lifecycle!Begin
    <3>2. QED
      BY <3>1 DEF Lifecycle!LifecycleNext
  <2>3. QED
    BY <1>6, <2>1, <2>2 DEF StartBuild
<1>7. CASE MarkQueueItemRunning(b) \/ SetupBuild(b)
  BY <1>7 DEF MarkQueueItemRunning, SetupBuild
<1>8. CASE RunStages(b)
  <2>1. CASE ctx[b] = "shutdown"
    <3>1. server # "up"
      BY <2>1 DEF Ownership, ShutdownIsDraining
    <3>2. QED
      BY <1>4, <1>8, <2>1, <3>1 DEF RunStages
  <2>2. CASE ctx[b] # "shutdown"
    BY <1>8, <2>2 DEF RunStages
  <2>3. QED
    BY <2>1, <2>2
<1>9. CASE CollectResults(b)
  <2>1. CASE ctx[b] = "shutdown"
    <3>1. server # "up"
      BY <2>1 DEF Ownership, ShutdownIsDraining
    <3>2. QED
      BY <1>4, <1>9, <2>1, <3>1 DEF CollectResults
  <2>2. CASE ctx[b] # "shutdown"
    BY <1>9, <2>2 DEF CollectResults
  <2>3. QED
    BY <2>1, <2>2
<1>10. ASSUME NEW result \in {"success", "failed", "cancelled"}, pc[b] \in Claimed,
              NEW step \in {"cancelQueue", "succeedQueue", "failQueue"},
              SetStatus(b, result), Goto(b, step), UNCHANGED server
       PROVE  Lifecycle!LifecycleNext
  <2>1. b \in Live /\ Live' = Live \ {b}
    BY <1>10
  <2>2. Lifecycle!Finish(b, result)
    BY <1>10, <2>1 DEF Lifecycle!Finish
  <2>3. QED
    BY <1>10, <2>1, <2>2 DEF Lifecycle!LifecycleNext
<1>11. CASE CancelInterrupted(b)
  <2>1. CASE status[b] \in Active
    BY <1>10, <1>11, <2>1 DEF CancelInterrupted
  <2>2. CASE status[b] \notin Active
    <3>1. b \in Live /\ Live' = Live \ {b} /\ status' = status /\ server' = server
      BY <1>11, <2>2 DEF CancelInterrupted
    <3>2. Lifecycle!LetGo(b)
      BY <2>2, <3>1 DEF Active, Lifecycle!LetGo
    <3>3. QED
      BY <3>1, <3>2 DEF Lifecycle!LifecycleNext
  <2>3. QED
    BY <2>1, <2>2
<1>12. CASE FinishSuccess(b) \/ FinishFailed(b)
  BY <1>10, <1>12 DEF FinishSuccess, FinishFailed
<1>13. CASE CancelInterruptedItem(b) \/ FinishSuccessItem(b) \/ FinishFailedItem(b)
  BY <1>13 DEF CancelInterruptedItem, FinishSuccessItem, FinishFailedItem
<1>14. ASSUME NEW n \in Builds, status[n] = "absent", SetStatus(n, "pending"),
              pc[b] \in {"triggers", "retry"}, Goto(b, "leave"), UNCHANGED server
       PROVE  Lifecycle!LifecycleNext
  <2>1. Live' = Live
    BY <1>14
  <2>2. Lifecycle!Create(n)
    BY <1>14, <2>1 DEF Lifecycle!Create
  <2>3. QED
    BY <2>2 DEF Lifecycle!LifecycleNext
<1>15. CASE FireFinishTriggers(b)
  <2>1. CASE UNCHANGED status
    BY <1>15, <2>1 DEF FireFinishTriggers
  <2>2. CASE \E n \in Builds : status[n] = "absent" /\ SetStatus(n, "pending")
    BY <1>14, <1>15, <2>2 DEF FireFinishTriggers
  <2>3. QED
    BY <1>15, <2>1, <2>2 DEF FireFinishTriggers, Fresh
<1>16. CASE FailBuild(b)
  <2>1. CASE server = "draining"
    BY <1>4, <1>16, <2>1 DEF FailBuild
  <2>2. CASE server # "draining"
    BY <1>16, <2>2 DEF FailBuild
  <2>3. QED
    BY <2>1, <2>2
<1>17. CASE ScheduleAutomaticRetry(b)
  <2>1. CASE UNCHANGED status
    BY <1>17, <2>1 DEF ScheduleAutomaticRetry
  <2>2. CASE \E n \in Builds : status[n] = "absent" /\ SetStatus(n, "pending")
    BY <1>14, <1>17, <2>2 DEF ScheduleAutomaticRetry
  <2>3. QED
    BY <1>17, <2>1, <2>2 DEF ScheduleAutomaticRetry, Fresh
<1>18. CASE LeaveRun(b)
  BY <1>18 DEF LeaveRun
<1>19. QED
  BY <1>1, <1>2, <1>3, <1>5, <1>6, <1>7, <1>8, <1>9, <1>11, <1>12, <1>13, <1>15, <1>16, <1>17,
     <1>18 DEF RunStep

\* The runner implements the life cycle of a build.
THEOREM ImplementsLifecycleHolds == RunnerSpec => ImplementsLifecycle
<1>1. RunnerInit => Lifecycle!LifecycleInit /\ ConcernsRows
  BY DEF RunnerInit, Lifecycle!LifecycleInit, ConcernsRows, Live, Claimed, Executing
<1>2. RunnerSpec => []ConcernsRows
  BY <1>1, ConcernsRowsStep, RunnerTypeCorrect, PTL DEF RunnerSpec
<1>3. RunnerTypeOK /\ Ownership /\ ConcernsRows /\ [RunnerNext]_vars
      => [Lifecycle!LifecycleNext]_(Lifecycle!lifecycleVars)
  <2> SUFFICES ASSUME RunnerTypeOK, Ownership, ConcernsRows, [RunnerNext]_vars
               PROVE  Lifecycle!LifecycleNext \/ (status' = status /\ Live' = Live /\ server' = server)
    BY DEF Lifecycle!lifecycleVars
  <2> USE DEF RunnerTypeOK, Live, Claimed, Executing, SetStatus, Goto, dbVars, runVars, serverVars,
              Lifecycle!Becomes
  <2>1. ASSUME NEW b \in Builds, CreateBuild(b)
        PROVE  Lifecycle!LifecycleNext
    <3>1. Lifecycle!Create(b)
      BY <2>1 DEF CreateBuild, Lifecycle!Create
    <3>2. QED
      BY <3>1 DEF Lifecycle!LifecycleNext
  <2>2. ASSUME NEW b \in Builds, StopRequest(b)
        PROVE  Lifecycle!LifecycleNext
    <3>1. Lifecycle!Stop(b)
      BY <2>2 DEF StopRequest, Active, Lifecycle!Stop
    <3>2. QED
      BY <3>1 DEF Lifecycle!LifecycleNext
  <2>3. ASSUME NEW b \in Builds, CreateBuildQueueItem(b) \/ DispatchStep(b) \/ TimeoutBuild(b) \/ StopStep(b)
        PROVE  status' = status /\ Live' = Live /\ server' = server
    BY <2>3 DEF CreateBuildQueueItem, DispatchStep, SkipBuild, LaunchBuild, Registered, TimeoutBuild,
                StopStep, StopQueueItem, CancelPendingApproval, StopRun
  <2>4. CASE ListPendingBuilds
    BY <2>4 DEF ListPendingBuilds
  <2>5. CASE Shutdown
    <3>1. Lifecycle!Drain
      BY <2>5 DEF Shutdown, Lifecycle!Drain
    <3>2. QED
      BY <3>1 DEF Lifecycle!LifecycleNext
  <2>6. CASE Exit
    <3>1. Lifecycle!Die
      BY <2>6 DEF Exit, Lifecycle!Die
    <3>2. QED
      BY <3>1 DEF Lifecycle!LifecycleNext
  <2>7. CASE Restart
    <3>1. Lifecycle!Recover
      BY <2>7 DEF Restart, Interrupted, Running, Lifecycle!Recover
    <3>2. QED
      BY <3>1 DEF Lifecycle!LifecycleNext
  <2>8. CASE UNCHANGED vars
    BY <2>8 DEF vars
  <2>9. QED
    BY <2>1, <2>2, <2>3, <2>4, <2>5, <2>6, <2>7, <2>8, RunStepLifecycle DEF RunnerNext, BuildStep
<1>4. QED
  BY <1>1, <1>2, <1>3, RunnerTypeCorrect, OwnershipHolds, PTL
  DEF RunnerSpec, ImplementsLifecycle, Lifecycle!LifecycleSpec

-----------------------------------------------------------------------------
(***************************************************************************)
(* A queue item shown as running has a run that is going to change it.     *)
(* That needs a server that stays up: a crash, or the end of a shutdown    *)
(* while a stop request is half done, leaves such an item behind.          *)
(***************************************************************************)
AfterMark == {"setup", "work", "collect", "collectFailed", "succeed", "cancelStore", "fail", "finish",
              "succeedQueue", "cancelQueue", "failQueue"}

RunningItemsAreOwned ==
    /\ server = "up"
    /\ \A b \in Builds : ctx[b] # "shutdown"
    /\ \A b \in Builds : queue[b] = "running" => pc[b] \in AfterMark

LEMMA RunningItemsStep ==
  ASSUME Disturbances \subseteq {"cancel", "timeout"},
         RunnerTypeOK, RunningItemsAreOwned, [RunnerNext]_vars
  PROVE  RunningItemsAreOwned'
<1> USE DEF RunningItemsAreOwned, AfterMark, RunnerTypeOK, SetQueue, Goto, dbVars, runVars, serverVars
<1>1. ASSUME NEW b \in Builds, RunStep(b)
      PROVE  RunningItemsAreOwned'
  <2>1. CASE LoadBuild(b)
    BY <2>1 DEF LoadBuild
  <2>2. CASE AcquireSlot(b) \/ RecheckBuild(b) \/ StartBuild(b) \/ MarkQueueItemRunning(b) \/ SetupBuild(b)
    BY <2>2 DEF AcquireSlot, RecheckBuild, StartBuild, MarkQueueItemRunning, SetupBuild
  <2>3. CASE DeferForProjectConcurrency(b)
    <3>1. \A o \in Builds : ctx'[o] # "shutdown"
      BY <2>3 DEF DeferForProjectConcurrency, CancelContexts
    <3>2. QED
      BY <2>3, <3>1 DEF DeferForProjectConcurrency
  <2>4. CASE RunStages(b) \/ CollectResults(b) \/ CancelInterrupted(b) \/ FinishSuccess(b) \/ FailBuild(b)
             \/ FinishFailed(b)
    BY <2>4 DEF RunStages, CollectResults, CancelInterrupted, FinishSuccess, FailBuild, FinishFailed
  <2>5. CASE CancelInterruptedItem(b) \/ FinishSuccessItem(b) \/ FinishFailedItem(b)
    BY <2>5 DEF CancelInterruptedItem, FinishSuccessItem, FinishFailedItem
  <2>6. CASE FireFinishTriggers(b) \/ ScheduleAutomaticRetry(b)
    BY <2>6 DEF FireFinishTriggers, ScheduleAutomaticRetry
  <2>7. CASE LeaveRun(b)
    BY <2>7 DEF LeaveRun
  <2>8. QED
    BY <1>1, <2>1, <2>2, <2>3, <2>4, <2>5, <2>6, <2>7 DEF RunStep
<1>2. ASSUME NEW b \in Builds,
             CreateBuild(b) \/ CreateBuildQueueItem(b) \/ DispatchStep(b) \/ TimeoutBuild(b) \/ StopRequest(b)
      PROVE  RunningItemsAreOwned'
  BY <1>2 DEF CreateBuild, CreateBuildQueueItem, DispatchStep, SkipBuild, LaunchBuild, Registered,
              TimeoutBuild, StopRequest
<1>3. ASSUME NEW b \in Builds, StopStep(b)
      PROVE  RunningItemsAreOwned'
  BY <1>3 DEF StopStep, StopQueueItem, CancelPendingApproval, StopRun, CancelContexts
<1>4. CASE ListPendingBuilds
  BY <1>4 DEF ListPendingBuilds
<1>5. ~Shutdown /\ ~Exit /\ ~Restart
  BY DEF Shutdown, Exit, Restart
<1>6. CASE UNCHANGED vars
  BY <1>6 DEF vars
<1>7. QED
  BY <1>1, <1>2, <1>3, <1>4, <1>5, <1>6 DEF RunnerNext, BuildStep

\* On a server that stays up, no queue item shows a finished build as running once
\* nothing is under way, whatever runs and stop requests do to the two tables.
THEOREM NoRunningItemLeftHolds ==
  ASSUME Disturbances \subseteq {"cancel", "timeout"}
  PROVE  RunnerSpec => []NoRunningItemLeft
<1>1. RunnerInit => RunningItemsAreOwned
  BY DEF RunnerInit, RunningItemsAreOwned
<1>2. RunningItemsAreOwned => NoRunningItemLeft
  BY DEF RunningItemsAreOwned, AfterMark, NoRunningItemLeft, Quiet
<1>3. QED
  BY <1>1, <1>2, RunningItemsStep, RunnerTypeCorrect, PTL DEF RunnerSpec
=============================================================================
