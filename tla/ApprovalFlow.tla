----------------------------- MODULE ApprovalFlow -----------------------------
(***************************************************************************)
(* Approvals on top of BuildRunner.  A project whose pipeline asks for an  *)
(* approval is gated: the trigger handler creates the build and then calls *)
(* RequestApproval, a series of statements that the dispatcher interleaves *)
(* with; a startup build is inserted with its hold in one statement.       *)
(* Resolvers approve or reject, each a series of statements after one      *)
(* check that the approval is still pending.                               *)
(***************************************************************************)
EXTENDS BuildRunner

CONSTANTS
    Gated,          \* projects whose pipeline requires an approval
    Resolvers,      \* users who may resolve approvals
    RecordMayFail   \* whether inserting the approval record may fail

\* triggerProjectBuild requests approvals as well; it is not composed here.
ASSUME ApprovalAssumption ==
    /\ Gated \subseteq Projects
    /\ RecordMayFail \in BOOLEAN
    /\ \A p \in Projects : Downstream[p] \notin Gated

VARIABLES
    request,     \* progress of RequestApproval and Enqueue for each build
    resolution,  \* the request each resolver is serving
    startup,     \* history: the builds created by startStartupBuilds
    granted,     \* history: the builds with a record that was approved
    unrecorded   \* history: the builds whose record could not be inserted

history == <<startup, granted, unrecorded>>
approvalVars == <<request, resolution, history>>
flowVars == <<vars, approvalVars>>

RequestSteps == {"none", "config", "read", "requirePending", "require", "hold", "record",
                 "dropHold", "dropStatus", "giveUp", "enqueue", "markItem"}
Idle == [build |-> NoBuild, verdict |-> "none", at |-> "idle"]
Verdicts == {"approved", "rejected"}
Resolutions ==
    [build : Builds, verdict : Verdicts, at : {"record", "approve", "status", "item"}] \cup {Idle}

ApprovalTypeOK ==
    /\ RunnerTypeOK
    /\ request \in [Builds -> RequestSteps]
    /\ resolution \in [Resolvers -> Resolutions]
    /\ startup \subseteq Builds
    /\ granted \subseteq Builds
    /\ unrecorded \subseteq Builds

ApprovalInit ==
    /\ RunnerInit
    /\ request = [b \in Builds |-> "none"]
    /\ resolution = [u \in Resolvers |-> Idle]
    /\ startup = {}
    /\ granted = {}
    /\ unrecorded = {}

NeedsApproval(b) == ProjectOf[b] \in Gated

RequestGoto(b, step) == request' = [request EXCEPT ![b] = step]

(***************************************************************************)
(* Triggers.                                                               *)
(***************************************************************************)
\* triggerBuild and its siblings: the row is "pending" before the request.
TriggerBuild(b) ==
    /\ CreateBuild(b)
    /\ RequestGoto(b, IF NeedsApproval(b) THEN "config" ELSE "none")
    /\ UNCHANGED <<resolution, history>>

\* requestBuildApproval loads the pipeline to see whether it asks for an approval;
\* when that fails the handler answers with an error and leaves the row as it is.
LoadApprovalConfig(b) ==
    /\ request[b] = "config"
    /\ RequestGoto(b, "read") \/ RequestGoto(b, "none")
    /\ UNCHANGED <<vars, resolution, history>>

\* Mutant of StartupHold: the row is inserted like that of any other trigger.
StartupHoldLater(b) == SetStatus(b, "pending") /\ UNCHANGED held

\* Status and approval_required of the inserted row.
StartupHold(b) ==
    IF NeedsApproval(b)
    THEN SetStatus(b, "pending_approval") /\ held' = held \cup {b}
    ELSE SetStatus(b, "pending") /\ UNCHANGED held

\* CreateStartupBuild checks in the same transaction that the project has no work.
StartupBuild(b) ==
    /\ server = "up"
    /\ status[b] = "absent"
    /\ \A o \in Builds : ProjectOf[o] = ProjectOf[b] => status[o] \notin Active
    /\ StartupHold(b)
    /\ RequestGoto(b, IF NeedsApproval(b) THEN "read" ELSE "none")
    /\ startup' = startup \cup {b}
    /\ UNCHANGED <<queue, approval, retriedFrom, waitsOn, runVars, serverVars, resolution, granted, unrecorded>>

(***************************************************************************)
(* RequestApproval.                                                        *)
(***************************************************************************)
\* GetBuild, GetBuildApprovalByBuild and GetUser; a deleted requester ends it.
ReadForApproval(b) ==
    /\ request[b] = "read"
    /\ \/ RequestGoto(b, IF approval[b] = "pending" THEN "enqueue"
                         ELSE IF status[b] = "pending" THEN "requirePending" ELSE "require")
       \/ b \notin startup /\ approval[b] # "pending" /\ RequestGoto(b, "giveUp")
    /\ UNCHANGED <<vars, resolution, history>>

RequireApproval(b) ==
    /\ request[b] \in {"requirePending", "require"}
    /\ held' = held \cup {b}
    /\ RequestGoto(b, IF request[b] = "requirePending" THEN "hold" ELSE "record")
    /\ UNCHANGED <<status, queue, approval, retriedFrom, waitsOn, runVars, serverVars, resolution, history>>

\* An UPDATE without a condition, on the strength of the status read before.
HoldBuild(b) ==
    /\ request[b] = "hold"
    /\ SetStatus(b, "pending_approval")
    /\ RequestGoto(b, "record")
    /\ UNCHANGED <<queue, approval, held, retriedFrom, waitsOn, runVars, serverVars, resolution, history>>

RecordApproval(b) ==
    /\ request[b] = "record"
    /\ \/ /\ approval' = [approval EXCEPT ![b] = "pending"]
          /\ RequestGoto(b, "enqueue")
          /\ UNCHANGED unrecorded
       \/ /\ RecordMayFail
          /\ RequestGoto(b, "dropHold")
          /\ unrecorded' = unrecorded \cup {b}
          /\ UNCHANGED approval
    /\ UNCHANGED <<status, queue, held, retriedFrom, waitsOn, runVars, serverVars, resolution, startup, granted>>

\* The roll-back when the record cannot be inserted, two statements.
DropHold(b) ==
    /\ request[b] = "dropHold"
    /\ held' = held \ {b}
    /\ RequestGoto(b, "dropStatus")
    /\ UNCHANGED <<status, queue, approval, retriedFrom, waitsOn, runVars, serverVars, resolution, history>>

DropStatus(b) ==
    /\ request[b] = "dropStatus"
    /\ SetStatus(b, "pending")
    /\ RequestGoto(b, "giveUp")
    /\ UNCHANGED <<queue, approval, held, retriedFrom, waitsOn, runVars, serverVars, resolution, history>>

\* The caller fails the build of a request that returned an error.
GiveUpRequest(b) ==
    /\ request[b] = "giveUp"
    /\ SetStatus(b, "failed")
    /\ RequestGoto(b, "none")
    /\ UNCHANGED <<queue, approval, held, retriedFrom, waitsOn, runVars, serverVars, resolution, history>>

\* Enqueue reads the row before it touches the queue item.
EnqueueRequested(b) ==
    /\ request[b] = "enqueue"
    /\ RequestGoto(b, IF b \in held THEN "markItem" ELSE "none")
    /\ UNCHANGED <<vars, resolution, history>>

MarkItemHeld(b) ==
    /\ request[b] = "markItem"
    /\ queue[b] # "none"
    /\ SetQueue(b, "pending_approval")
    /\ RequestGoto(b, "none")
    /\ UNCHANGED <<status, approval, held, retriedFrom, waitsOn, runVars, serverVars, resolution, history>>

RequestStep(b) ==
    \/ LoadApprovalConfig(b) \/ ReadForApproval(b) \/ RequireApproval(b) \/ HoldBuild(b) \/ RecordApproval(b)
    \/ DropHold(b) \/ DropStatus(b) \/ GiveUpRequest(b)
    \/ EnqueueRequested(b) \/ MarkItemHeld(b)

(***************************************************************************)
(* Approve and Reject.                                                     *)
(***************************************************************************)
ResolveGoto(u, step) == resolution' = [resolution EXCEPT ![u].at = step]

\* authorizeResolution, the only look at the status of the approval.
AuthorizeResolution(u, b, verdict) ==
    /\ server # "down"
    /\ resolution[u] = Idle
    /\ approval[b] = "pending"
    /\ resolution' = [resolution EXCEPT ![u] = [build |-> b, verdict |-> verdict, at |-> "record"]]
    /\ UNCHANGED <<vars, request, history>>

UpdateBuildApproval(u) ==
    LET b == resolution[u].build
    IN  /\ resolution[u].at = "record"
        /\ approval' = [approval EXCEPT ![b] = resolution[u].verdict]
        /\ granted' = IF resolution[u].verdict = "approved" THEN granted \cup {b} ELSE granted
        /\ ResolveGoto(u, IF resolution[u].verdict = "approved" THEN "approve" ELSE "status")
        /\ UNCHANGED <<status, queue, held, retriedFrom, waitsOn, runVars, serverVars, request, startup, unrecorded>>

SetBuildApproved(u) ==
    /\ resolution[u].at = "approve"
    /\ held' = held \ {resolution[u].build}
    /\ ResolveGoto(u, "status")
    /\ UNCHANGED <<status, queue, approval, retriedFrom, waitsOn, runVars, serverVars, request, history>>

\* Mutant of VerdictApplies: an UPDATE that looks for the status of a plain build.
VerdictAppliesIfPending(b) == status[b] = "pending"

\* UpdateBuildStatus has no condition.
VerdictApplies(b) == TRUE

SetVerdictStatus(u) ==
    LET b == resolution[u].build
    IN  /\ resolution[u].at = "status"
        /\ IF VerdictApplies(b)
           THEN SetStatus(b, IF resolution[u].verdict = "approved" THEN "pending" ELSE "rejected")
           ELSE UNCHANGED status
        /\ ResolveGoto(u, "item")
        /\ UNCHANGED <<queue, approval, held, retriedFrom, waitsOn, runVars, serverVars, request, history>>

\* The queue item; the Enqueue of the handler only wakes the dispatcher then.
SetVerdictItem(u) ==
    LET b == resolution[u].build
    IN  /\ resolution[u].at = "item"
        /\ SetQueue(b, IF resolution[u].verdict = "approved" THEN "queued" ELSE "rejected")
        /\ resolution' = [resolution EXCEPT ![u] = Idle]
        /\ UNCHANGED <<status, approval, held, retriedFrom, waitsOn, runVars, serverVars, request, history>>

ResolveStep(u) ==
    UpdateBuildApproval(u) \/ SetBuildApproved(u) \/ SetVerdictStatus(u) \/ SetVerdictItem(u)

\* Requests die with the process.
ExitServer ==
    /\ Exit
    /\ request' = [b \in Builds |-> "none"]
    /\ resolution' = [u \in Resolvers |-> Idle]
    /\ UNCHANGED history

\* The dispatcher comes to a build that its scan found held.
HoldForApproval(b) ==
    /\ listed[b] = "held"
    /\ b \notin Registered
    /\ Cardinality(Registered) < Slots
    /\ queue[b] # "none"
    /\ SetQueue(b, "pending_approval")
    /\ Unlist(b)
    /\ UNCHANGED <<status, approval, held, retriedFrom, waitsOn, runVars, server, stopping,
                   userStopped, approvalVars>>

ApprovalNext ==
    \/ \E b \in Builds : TriggerBuild(b) \/ StartupBuild(b) \/ RequestStep(b)
    \/ \E u \in Resolvers, b \in Builds, v \in Verdicts : AuthorizeResolution(u, b, v)
    \/ \E u \in Resolvers : ResolveStep(u)
    \/ BuildStep /\ UNCHANGED approvalVars
    \/ \E b \in Builds : HoldForApproval(b)
    \/ Shutdown /\ UNCHANGED approvalVars
    \/ Restart /\ UNCHANGED approvalVars
    \/ ExitServer

ApprovalSpec == ApprovalInit /\ [][ApprovalNext]_flowVars

\* The handlers and the server keep going and somebody looks at the inbox.
FairApprovalSpec ==
    /\ ApprovalSpec
    /\ WF_flowVars(\/ BuildStep /\ UNCHANGED approvalVars
                   \/ \E b \in Builds : HoldForApproval(b))
    /\ \A b \in Builds : WF_flowVars(RequestStep(b))
    /\ \A u \in Resolvers :
        /\ WF_flowVars(ResolveStep(u))
        /\ \A b \in Builds : WF_flowVars(\E v \in Verdicts : AuthorizeResolution(u, b, v))

-----------------------------------------------------------------------------
(***************************************************************************)
(* Properties                                                              *)
(***************************************************************************)

\* A startup build of a gated project executes only once it was approved, "so a
\* concurrent dispatcher cannot start execution while its approval record is being
\* initialized"; cancellation, shutdown, crash and recovery included.  When the record
\* cannot be written, the roll-back opens the build before the caller fails it.
StartupNeedsApproval ==
    \A b \in startup : NeedsApproval(b) /\ pc[b] \in Executing => b \in granted \cup unrecorded

\* A build of a gated project is not executed before its approval was granted.
NoUnapprovedExecution ==
    \A b \in Builds : NeedsApproval(b) /\ status[b] = "running" => b \in granted

\* Every build that waits for an approval stops waiting: whoever resolves, and even
\* when two users resolve at once or the record could not be written.
HeldIsResolved ==
    \A b \in Builds : status[b] = "pending_approval" ~> status[b] # "pending_approval"
=============================================================================
