------------------------- MODULE ApprovalFlowProofs -------------------------
(***************************************************************************)
(* Proofs about approvals, for every set of builds, projects and           *)
(* resolvers and under every disturbance.  The steps of the runner keep    *)
(* their types by the lemmas of BuildRunnerProofs.                         *)
(***************************************************************************)
EXTENDS ApprovalFlow, BuildRunnerProofs

-----------------------------------------------------------------------------
(***************************************************************************)
(* Type correctness.                                                       *)
(***************************************************************************)
\* More values that SetStatus, SetQueue and RequestGoto are called with.
LEMMA ApprovalValues ==
  /\ {"pending_approval", "rejected", "absent"} \subseteq Statuses
  /\ {"none", "rejected"} \subseteq QueueStatuses
  /\ {"none", "pending", "approved", "rejected", "cancelled"} \subseteq ApprovalStatuses
  /\ {"none", "config", "read", "requirePending", "require", "hold", "record", "dropHold",
      "dropStatus", "giveUp", "enqueue", "markItem"} \subseteq RequestSteps
BY DEF Statuses, Active, Terminal, QueueStatuses, ApprovalStatuses, RequestSteps

LEMMA RequestGotoType ==
  ASSUME ApprovalTypeOK, NEW b \in Builds, NEW step \in RequestSteps, RequestGoto(b, step)
  PROVE  request' \in [Builds -> RequestSteps]
BY DEF ApprovalTypeOK, RequestGoto

\* Creating a build and asking for its approval keep the types.
LEMMA RequestType ==
  ASSUME ApprovalTypeOK, NEW b \in Builds, TriggerBuild(b) \/ StartupBuild(b) \/ RequestStep(b)
  PROVE  ApprovalTypeOK'
<1> USE Values, ApprovalValues DEF ApprovalTypeOK, vars, dbVars, runVars, serverVars, history
<1>1. CASE TriggerBuild(b)
  <2>1. request' \in [Builds -> RequestSteps]
    BY <1>1, RequestGotoType DEF TriggerBuild
  <2>2. RunnerTypeOK'
    BY <1>1, ServerStepType DEF TriggerBuild
  <2>3. QED
    BY <1>1, <2>1, <2>2 DEF TriggerBuild
<1>2. CASE StartupBuild(b)
  <2>1. request' \in [Builds -> RequestSteps]
    BY <1>2, RequestGotoType DEF StartupBuild
  <2>2. status' \in [Builds -> Statuses] /\ held' \subseteq Builds
    BY <1>2, SetStatusType DEF StartupBuild, StartupHold, RunnerTypeOK
  <2>3. QED
    BY <1>2, <2>1, <2>2 DEF StartupBuild, RunnerTypeOK
<1>3. CASE LoadApprovalConfig(b) \/ ReadForApproval(b) \/ EnqueueRequested(b)
  <2>1. request' \in [Builds -> RequestSteps]
    BY <1>3, RequestGotoType DEF LoadApprovalConfig, ReadForApproval, EnqueueRequested
  <2>2. QED
    BY <1>3, <2>1 DEF LoadApprovalConfig, ReadForApproval, EnqueueRequested, RunnerTypeOK
<1>4. CASE RequireApproval(b) \/ DropHold(b)
  <2>1. request' \in [Builds -> RequestSteps]
    BY <1>4, RequestGotoType DEF RequireApproval, DropHold
  <2>2. QED
    BY <1>4, <2>1 DEF RequireApproval, DropHold, RunnerTypeOK
<1>5. CASE HoldBuild(b) \/ DropStatus(b) \/ GiveUpRequest(b)
  <2>1. request' \in [Builds -> RequestSteps]
    BY <1>5, RequestGotoType DEF HoldBuild, DropStatus, GiveUpRequest
  <2>2. status' \in [Builds -> Statuses]
    BY <1>5, SetStatusType DEF HoldBuild, DropStatus, GiveUpRequest
  <2>3. QED
    BY <1>5, <2>1, <2>2 DEF HoldBuild, DropStatus, GiveUpRequest, RunnerTypeOK
<1>6. CASE RecordApproval(b)
  <2>1. request' \in [Builds -> RequestSteps]
    BY <1>6, RequestGotoType DEF RecordApproval
  <2>2. approval' \in [Builds -> ApprovalStatuses]
    BY <1>6 DEF RecordApproval, RunnerTypeOK
  <2>3. QED
    BY <1>6, <2>1, <2>2 DEF RecordApproval, RunnerTypeOK
<1>7. CASE MarkItemHeld(b)
  <2>1. request' \in [Builds -> RequestSteps]
    BY <1>7, RequestGotoType DEF MarkItemHeld
  <2>2. queue' \in [Builds -> QueueStatuses]
    BY <1>7, SetQueueType DEF MarkItemHeld
  <2>3. QED
    BY <1>7, <2>1, <2>2 DEF MarkItemHeld, RunnerTypeOK
<1>8. QED
  BY <1>1, <1>2, <1>3, <1>4, <1>5, <1>6, <1>7 DEF RequestStep

\* What resolution holds: a resolver with a build is at one of the four steps.
LEMMA ResolverType ==
  ASSUME ApprovalTypeOK, NEW u \in Resolvers, resolution[u].at # "idle"
  PROVE  /\ resolution[u].build \in Builds
         /\ resolution[u].verdict \in {"approved", "rejected"}
BY DEF ApprovalTypeOK, Resolutions, Verdicts, Idle

LEMMA ResolveGotoType ==
  ASSUME ApprovalTypeOK, NEW u \in Resolvers, resolution[u].at # "idle",
         NEW step \in {"record", "approve", "status", "item"}, ResolveGoto(u, step)
  PROVE  resolution' \in [Resolvers -> Resolutions]
BY DEF ApprovalTypeOK, Resolutions, Verdicts, Idle, ResolveGoto

\* So does resolving it.
LEMMA ResolveType ==
  ASSUME ApprovalTypeOK, NEW u \in Resolvers,
         (\E b \in Builds, v \in Verdicts : AuthorizeResolution(u, b, v)) \/ ResolveStep(u)
  PROVE  ApprovalTypeOK'
<1> USE Values, ApprovalValues DEF ApprovalTypeOK, vars, dbVars, runVars, serverVars, history
<1>1. ASSUME NEW b \in Builds, NEW v \in Verdicts, AuthorizeResolution(u, b, v)
      PROVE  ApprovalTypeOK'
  <2>1. resolution' \in [Resolvers -> Resolutions]
    BY <1>1 DEF AuthorizeResolution, Resolutions
  <2>2. QED
    BY <1>1, <2>1 DEF AuthorizeResolution, RunnerTypeOK
<1>2. CASE UpdateBuildApproval(u)
  <2>1. resolution' \in [Resolvers -> Resolutions]
    BY <1>2, ResolveGotoType DEF UpdateBuildApproval
  <2>2. approval' \in [Builds -> ApprovalStatuses] /\ granted' \subseteq Builds
    BY <1>2, ResolverType DEF UpdateBuildApproval, RunnerTypeOK
  <2>3. QED
    BY <1>2, <2>1, <2>2 DEF UpdateBuildApproval, RunnerTypeOK
<1>3. CASE SetBuildApproved(u)
  <2>1. resolution' \in [Resolvers -> Resolutions]
    BY <1>3, ResolveGotoType DEF SetBuildApproved
  <2>2. QED
    BY <1>3, <2>1 DEF SetBuildApproved, RunnerTypeOK
<1>4. CASE SetVerdictStatus(u)
  <2>1. resolution' \in [Resolvers -> Resolutions]
    BY <1>4, ResolveGotoType DEF SetVerdictStatus
  <2>2. status' \in [Builds -> Statuses]
    BY <1>4, ResolverType, SetStatusType DEF SetVerdictStatus, VerdictApplies
  <2>3. QED
    BY <1>4, <2>1, <2>2 DEF SetVerdictStatus, RunnerTypeOK
<1>5. CASE SetVerdictItem(u)
  <2>1. resolution' \in [Resolvers -> Resolutions]
    BY <1>5 DEF SetVerdictItem, Resolutions
  <2>2. queue' \in [Builds -> QueueStatuses]
    BY <1>5, ResolverType, SetQueueType DEF SetVerdictItem
  <2>3. QED
    BY <1>5, <2>1, <2>2 DEF SetVerdictItem, RunnerTypeOK
<1>6. QED
  BY <1>1, <1>2, <1>3, <1>4, <1>5 DEF ResolveStep

LEMMA ApprovalTypeStep == ApprovalTypeOK /\ [ApprovalNext]_flowVars => ApprovalTypeOK'
<1> SUFFICES ASSUME ApprovalTypeOK, [ApprovalNext]_flowVars
             PROVE  ApprovalTypeOK'
  OBVIOUS
<1> USE DEF ApprovalTypeOK, approvalVars, history
<1>1. CASE BuildStep /\ UNCHANGED approvalVars
  BY <1>1, BuildStepType
<1>2. CASE (Shutdown \/ Restart) /\ UNCHANGED approvalVars
  BY <1>2, ServerStepType
<1>3. CASE ExitServer
  <2>1. RunnerTypeOK'
    BY <1>3, ServerStepType DEF ExitServer
  <2>2. QED
    BY <1>3, <2>1, ApprovalValues DEF ExitServer, Resolutions
<1>4. ASSUME NEW b \in Builds, HoldForApproval(b)
      PROVE  ApprovalTypeOK'
  <2>1. queue' \in [Builds -> QueueStatuses]
    BY <1>4, SetQueueType, Values DEF HoldForApproval
  <2>2. QED
    BY <1>4, <2>1 DEF HoldForApproval, Unlist, RunnerTypeOK, runVars
<1>5. CASE UNCHANGED flowVars
  BY <1>5 DEF flowVars, vars, dbVars, runVars, serverVars, RunnerTypeOK
<1>6. QED
  BY <1>1, <1>2, <1>3, <1>4, <1>5, RequestType, ResolveType DEF ApprovalNext

\* Rows, runs, requests and resolutions keep their types.
THEOREM ApprovalTypeCorrect == ApprovalSpec => []ApprovalTypeOK
<1>1. ApprovalInit => ApprovalTypeOK
  BY DEF ApprovalInit, ApprovalTypeOK, RunnerInit, RunnerTypeOK, Statuses, QueueStatuses,
         ApprovalStatuses, RunSteps, RequestSteps, Resolutions
<1>2. QED
  BY <1>1, ApprovalTypeStep, PTL DEF ApprovalSpec

-----------------------------------------------------------------------------
(***************************************************************************)
(* A startup build waits for its approval.  The strengthening: such a      *)
(* build is held from its insert until a record of it was approved or      *)
(* could not be written, so its run, if the dispatcher launches one at     *)
(* all, ends at the first check of the row.  An unused row has no run and  *)
(* is on no list.                                                          *)
(***************************************************************************)
FreshIsIdle ==
    \A b \in Builds : status[b] = "absent" => pc[b] = "none" /\ listed[b] = "no" /\ b \notin startup

\* A resolver clears the hold only after the approved record was written.
ClearsAfterGrant ==
    \A u \in Resolvers : resolution[u].at = "approve" => resolution[u].build \in granted

\* A request rolls back only what could not be recorded.
RollsBackUnrecorded == \A b \in Builds : request[b] \in {"dropHold", "dropStatus"} => b \in unrecorded

HeldUntilGranted ==
    \A b \in startup :
        NeedsApproval(b) /\ b \notin granted \cup unrecorded => b \in held /\ pc[b] \in {"none", "load", "leave"}

StartupHeld == FreshIsIdle /\ ClearsAfterGrant /\ RollsBackUnrecorded /\ HeldUntilGranted

\* A step of a run: a held run only leaves.
LEMMA RunStepStartup ==
  ASSUME ApprovalTypeOK, StartupHeld, NEW r \in Builds, RunStep(r), UNCHANGED approvalVars
  PROVE  StartupHeld'
<1> USE DEF ApprovalTypeOK, RunnerTypeOK, StartupHeld, FreshIsIdle, ClearsAfterGrant, RollsBackUnrecorded,
            HeldUntilGranted, NeedsApproval, SetStatus, Goto, dbVars, runVars, serverVars,
            approvalVars, history
<1>1. CASE LoadBuild(r)
  BY <1>1 DEF LoadBuild
<1>2. CASE AcquireSlot(r) \/ RecheckBuild(r)
  BY <1>2 DEF AcquireSlot, RecheckBuild
<1>3. CASE DeferForProjectConcurrency(r)
  BY <1>3 DEF DeferForProjectConcurrency
<1>4. CASE StartBuild(r) \/ MarkQueueItemRunning(r) \/ SetupBuild(r)
  BY <1>4 DEF StartBuild, MarkQueueItemRunning, SetupBuild
<1>5. CASE RunStages(r) \/ CollectResults(r)
  BY <1>5 DEF RunStages, CollectResults
<1>6. CASE CancelInterrupted(r) \/ FinishSuccess(r) \/ FinishFailed(r)
  BY <1>6 DEF CancelInterrupted, FinishSuccess, FinishFailed
<1>7. CASE CancelInterruptedItem(r) \/ FinishSuccessItem(r) \/ FinishFailedItem(r) \/ FailBuild(r)
  BY <1>7 DEF CancelInterruptedItem, FinishSuccessItem, FinishFailedItem, FailBuild
<1>8. CASE FireFinishTriggers(r)
  <2>1. \A o \in Builds : status'[o] = "absent" => status[o] = "absent"
    BY <1>8 DEF FireFinishTriggers
  <2>2. QED
    BY <1>8, <2>1 DEF FireFinishTriggers
<1>9. CASE ScheduleAutomaticRetry(r)
  <2>1. \A o \in Builds : status'[o] = "absent" => status[o] = "absent"
    BY <1>9 DEF ScheduleAutomaticRetry
  <2>2. QED
    BY <1>9, <2>1 DEF ScheduleAutomaticRetry
<1>10. CASE LeaveRun(r)
  BY <1>10 DEF LeaveRun
<1>11. QED
  BY <1>1, <1>2, <1>3, <1>4, <1>5, <1>6, <1>7, <1>8, <1>9, <1>10 DEF RunStep

\* The rest of the runner and of the server.
LEMMA ServerStartup ==
  ASSUME ApprovalTypeOK, StartupHeld,
         \/ BuildStep /\ UNCHANGED approvalVars
         \/ (Shutdown \/ Restart) /\ UNCHANGED approvalVars
         \/ ExitServer
  PROVE  StartupHeld'
<1> USE DEF ApprovalTypeOK, RunnerTypeOK, StartupHeld, FreshIsIdle, ClearsAfterGrant, RollsBackUnrecorded,
            HeldUntilGranted, NeedsApproval, SetStatus, Goto, dbVars, runVars, serverVars,
            approvalVars, history
<1>1. CASE ListPendingBuilds /\ UNCHANGED approvalVars
  BY <1>1 DEF ListPendingBuilds
<1>2. ASSUME NEW o \in Builds, CreateBuildQueueItem(o) \/ SkipBuild(o) \/ LaunchBuild(o),
             UNCHANGED approvalVars
      PROVE  StartupHeld'
  BY <1>2 DEF CreateBuildQueueItem, SkipBuild, LaunchBuild, Unlist
<1>3. ASSUME NEW o \in Builds, TimeoutBuild(o) \/ StopRequest(o) \/ StopStep(o),
             UNCHANGED approvalVars
      PROVE  StartupHeld'
  BY <1>3 DEF TimeoutBuild, StopRequest, StopStep, StopQueueItem, CancelPendingApproval, StopRun
<1>4. CASE Shutdown /\ UNCHANGED approvalVars
  BY <1>4 DEF Shutdown
<1>5. CASE Restart /\ UNCHANGED approvalVars
  BY <1>5 DEF Restart, Interrupted, Running
<1>6. CASE ExitServer
  BY <1>6 DEF ExitServer, Exit, Idle
<1>7. QED
  BY <1>1, <1>2, <1>3, <1>4, <1>5, <1>6, RunStepStartup DEF BuildStep, DispatchStep

\* Requests clear no hold but that of a build whose record could not be written.
LEMMA RequestStartup ==
  ASSUME ApprovalTypeOK, StartupHeld, NEW b \in Builds,
         TriggerBuild(b) \/ StartupBuild(b) \/ RequestStep(b) \/ HoldForApproval(b)
  PROVE  StartupHeld'
<1> USE DEF ApprovalTypeOK, RunnerTypeOK, StartupHeld, FreshIsIdle, ClearsAfterGrant, RollsBackUnrecorded,
            HeldUntilGranted, NeedsApproval, SetStatus, RequestGoto, vars, dbVars, runVars,
            serverVars, approvalVars, history
<1>1. CASE TriggerBuild(b)
  BY <1>1 DEF TriggerBuild, CreateBuild
<1>2. CASE StartupBuild(b)
  BY <1>2 DEF StartupBuild, StartupHold
<1>3. CASE LoadApprovalConfig(b) \/ ReadForApproval(b) \/ EnqueueRequested(b)
  BY <1>3 DEF LoadApprovalConfig, ReadForApproval, EnqueueRequested
<1>4. CASE RequireApproval(b) \/ HoldBuild(b) \/ RecordApproval(b)
  BY <1>4 DEF RequireApproval, HoldBuild, RecordApproval
<1>5. CASE DropHold(b) \/ DropStatus(b) \/ GiveUpRequest(b) \/ MarkItemHeld(b)
  BY <1>5 DEF DropHold, DropStatus, GiveUpRequest, MarkItemHeld
<1>6. CASE HoldForApproval(b)
  BY <1>6 DEF HoldForApproval, Unlist
<1>7. QED
  BY <1>1, <1>2, <1>3, <1>4, <1>5, <1>6 DEF RequestStep

\* The only statement that clears a hold follows an approved record.
LEMMA ResolveStartup ==
  ASSUME ApprovalTypeOK, StartupHeld, NEW u \in Resolvers,
         (\E b \in Builds, v \in Verdicts : AuthorizeResolution(u, b, v)) \/ ResolveStep(u)
  PROVE  StartupHeld'
<1> USE DEF ApprovalTypeOK, RunnerTypeOK, StartupHeld, FreshIsIdle, ClearsAfterGrant, RollsBackUnrecorded,
            HeldUntilGranted, NeedsApproval, SetStatus, ResolveGoto, vars, dbVars, runVars,
            serverVars, history
<1>1. ASSUME NEW b \in Builds, NEW v \in Verdicts, AuthorizeResolution(u, b, v)
      PROVE  StartupHeld'
  BY <1>1 DEF AuthorizeResolution
<1>2. CASE UpdateBuildApproval(u)
  <2>1. \A w \in Resolvers : resolution'[w].build = resolution[w].build
    BY <1>2 DEF UpdateBuildApproval, Resolutions, Idle
  <2>2. \A w \in Resolvers : w # u => resolution'[w] = resolution[w]
    BY <1>2 DEF UpdateBuildApproval
  <2>3. resolution'[u].at = "approve" => resolution[u].verdict = "approved"
    BY <1>2 DEF UpdateBuildApproval, Resolutions, Idle
  <2>4. granted \subseteq granted'
        /\ (resolution[u].verdict = "approved" => resolution[u].build \in granted')
    BY <1>2 DEF UpdateBuildApproval
  <2>5. ClearsAfterGrant'
    BY <2>1, <2>2, <2>3, <2>4
  <2>6. QED
    BY <1>2, <2>4, <2>5 DEF UpdateBuildApproval
<1>3. CASE SetBuildApproved(u)
  <2>1. ClearsAfterGrant'
    BY <1>3 DEF SetBuildApproved, Resolutions, Idle
  <2>2. QED
    BY <1>3, <2>1 DEF SetBuildApproved
<1>4. CASE SetVerdictStatus(u)
  <2>1. ClearsAfterGrant'
    BY <1>4 DEF SetVerdictStatus, Resolutions, Idle
  <2>2. QED
    BY <1>4, <2>1 DEF SetVerdictStatus, VerdictApplies
<1>5. CASE SetVerdictItem(u)
  <2>1. ClearsAfterGrant'
    BY <1>5 DEF SetVerdictItem, Idle
  <2>2. QED
    BY <1>5, <2>1 DEF SetVerdictItem
<1>6. QED
  BY <1>1, <1>2, <1>3, <1>4, <1>5 DEF ResolveStep

\* A startup build of a gated project executes only after a record of it was approved:
\* whatever the dispatcher, stop requests, shutdowns, crashes, recoveries and any number
\* of resolvers do, or after the record could not be written.
THEOREM StartupNeedsApprovalHolds == ApprovalSpec => []StartupNeedsApproval
<1>1. ApprovalInit => StartupHeld
  BY DEF ApprovalInit, RunnerInit, StartupHeld, FreshIsIdle, ClearsAfterGrant, RollsBackUnrecorded,
         HeldUntilGranted, Idle
<1>2. ApprovalTypeOK /\ StartupHeld /\ [ApprovalNext]_flowVars => StartupHeld'
  <2> SUFFICES ASSUME ApprovalTypeOK, StartupHeld, [ApprovalNext]_flowVars
               PROVE  StartupHeld'
    OBVIOUS
  <2>1. CASE ApprovalNext
    BY <2>1, ServerStartup, RequestStartup, ResolveStartup DEF ApprovalNext
  <2>2. CASE UNCHANGED flowVars
    BY <2>2 DEF flowVars, vars, dbVars, runVars, serverVars, approvalVars, history, StartupHeld,
                FreshIsIdle, ClearsAfterGrant, RollsBackUnrecorded, HeldUntilGranted, NeedsApproval
  <2>3. QED
    BY <2>1, <2>2
<1>3. StartupHeld => StartupNeedsApproval
  BY DEF StartupHeld, HeldUntilGranted, StartupNeedsApproval, Executing
<1>4. QED
  BY <1>1, <1>2, <1>3, ApprovalTypeCorrect, PTL DEF ApprovalSpec
=============================================================================
