------------------------------- MODULE Intake -------------------------------
(***************************************************************************)
(* How builds come into being: requests of the API and of token URLs,      *)
(* retries, signed pushes, the schedule, the poller of VCS roots, finish   *)
(* triggers and the builds made at startup.                                *)
(*                                                                         *)
(* A request reads the next number and inserts the row in two statements,  *)
(* then loads the pipeline once more to decide about approval, and only    *)
(* then queues the build; the dispatcher, edits of the pipeline and every  *)
(* other request come between.  The statements of RequestApproval are one  *)
(* step here and are interleaved in ApprovalFlow.                          *)
(***************************************************************************)
EXTENDS Naturals, Sequences, FiniteSets

CONSTANTS
    IntakeProjects,  \* numbered in the order ListProjects returns them
    Requests,        \* goroutines that create one build at a time
    Source,          \* what each of them is, a member of Sources
    MaxRows,         \* bound: rows of builds
    MaxCommits,      \* bound: commits pushed
    MaxEdits,        \* bound: edits of pipelines
    MaxRestarts,     \* bound: restarts of the server
    IntakeRetries    \* the automatic retry limit

Sources == {"manual", "http", "api", "retry", "webhook", "schedule", "vcs", "finish", "startup"}
Handlers == {"manual", "http", "api", "retry", "webhook"}

ASSUME IntakeAssumption ==
    /\ IntakeProjects \subseteq Nat \ {0}
    /\ Source \in [Requests -> Sources]
    /\ \A r, q \in Requests : Source[r] = "vcs" /\ Source[q] = "vcs" => r = q  \* one goroutine polls
    /\ {MaxRows, MaxCommits, MaxEdits, MaxRestarts, IntakeRetries} \subseteq Nat

VARIABLES
    \* the database
    rows,        \* builds, in the order of their row identifiers
    pipeline,    \* what the pipeline of a project says now
    lastSeen,    \* last_commit_sha of the VCS root, 0 when never polled
    \* outside
    head,        \* the commit the branch points to, from 1
    \* the server
    step,        \* where each request stands
    request,     \* what it has read so far
    candidates,  \* projects the startup goroutine has still to look at
    \* bounds
    edits, restarts

intakeVars == <<rows, pipeline, lastSeen, head, step, request, candidates, edits, restarts>>

\* "lost" is a pipeline that gets its approval policy from a template that is gone.
Pipelines == {"plain", "gated", "broken", "lost"}
RowActive == {"pending", "running", "pending_approval"}
Idle == [project |-> 0, number |-> 0, row |-> 0, commit |-> 0, release |-> FALSE,
         confirmed |-> FALSE, parent |-> 0]

IntakeInit ==
    /\ rows = <<>>
    /\ pipeline = [p \in IntakeProjects |-> "plain"]
    /\ lastSeen = 0
    /\ head = 1
    /\ step = [r \in Requests |-> "idle"]
    /\ request = [r \in Requests |-> Idle]
    /\ candidates = IntakeProjects
    /\ edits = 0
    /\ restarts = 0

RowsOf(p) == {b \in DOMAIN rows : rows[b].project = p}
Largest(set) == IF set = {} THEN 0 ELSE CHOOSE n \in set : \A m \in set : m <= n
LargestNumber(p) == Largest({rows[b].number : b \in RowsOf(p)})
NextBuildNumber(p) == LargestNumber(p) + 1

\* A handler refuses a template that is gone; the others go on without it.
Loads(source, p) ==
    CASE pipeline[p] = "broken" -> "error"
      [] pipeline[p] = "lost" -> IF source \in Handlers THEN "error" ELSE "plain"
      [] OTHER -> pipeline[p]

Row(r, number, status, gated) ==
    [project |-> request[r].project, number |-> number, trigger |-> Source[r],
     status |-> status, gated |-> gated, record |-> FALSE, commit |-> request[r].commit,
     release |-> request[r].release, confirmed |-> request[r].confirmed, parent |-> request[r].parent]

Goto(r, s) == step' = [step EXCEPT ![r] = s]
Unfinished(r) == step[r] # "idle"

\* The goroutine is through with its request and keeps nothing of it.
Leave(r) == Goto(r, "idle") /\ request' = [request EXCEPT ![r] = Idle]
Database == <<rows, pipeline, lastSeen>>

(***************************************************************************)
(* A request begins.                                                       *)
(***************************************************************************)
\* resolveProjectBuildParameters: parameters are validated before anything is stored,
\* and a latest publication must be confirmed in the request itself.
ResolveParameters(r) ==
    /\ ~Unfinished(r)
    /\ \E p \in IntakeProjects, release \in BOOLEAN :
        /\ Loads(Source[r], p) # "error"
        /\ request' = [request EXCEPT ![r] =
               [Idle EXCEPT !.project = p, !.release = release, !.confirmed = release]]
    /\ Goto(r, "number")
    /\ UNCHANGED <<Database, head, candidates, edits, restarts>>

\* A user, the token URL of a project and an API token start builds alike; who may do so
\* is decided before.
TriggerBuild(r) == Source[r] = "manual" /\ ResolveParameters(r)
ProjectHTTPTriggerBuild(r) == Source[r] = "http" /\ ResolveParameters(r)
HTTPTriggerBuild(r) == Source[r] = "api" /\ ResolveParameters(r)

RetriesBuild(b) == ~rows[b].release

\* retryBuild: the parameters of the earlier build, confirmation included.
RetryBuild(r) ==
    /\ Source[r] = "retry"
    /\ ~Unfinished(r)
    /\ \E b \in DOMAIN rows :
        /\ RetriesBuild(b)
        /\ Loads("retry", rows[b].project) # "error"
        /\ request' = [request EXCEPT ![r] =
               [Idle EXCEPT !.project = rows[b].project, !.release = rows[b].release, !.parent = b]]
    /\ Goto(r, "number")
    /\ UNCHANGED <<Database, head, candidates, edits, restarts>>

FirstProject == CHOOSE p \in IntakeProjects : \A q \in IntakeProjects : p <= q

\* triggerBuildByWebhook: the first project with the pushed repository.
PushReceived(r) ==
    /\ Source[r] = "webhook"
    /\ ~Unfinished(r)
    /\ request' = [request EXCEPT ![r] =
           [Idle EXCEPT !.project = FirstProject, !.commit = head]]
    /\ Goto(r, "number")
    /\ UNCHANGED <<Database, head, candidates, edits, restarts>>

\* checkCronTriggers on a matching minute.
CheckCronTriggers(r) ==
    /\ Source[r] = "schedule"
    /\ ~Unfinished(r)
    /\ \E p \in IntakeProjects :
        /\ Loads("schedule", p) # "error"
        /\ request' = [request EXCEPT ![r] = [Idle EXCEPT !.project = p]]
    /\ Goto(r, "number")
    /\ UNCHANGED <<Database, head, candidates, edits, restarts>>

\* pollVCSRoots: the configuration of the root is read with the list ...
ListVCSRoots(r) ==
    /\ Source[r] = "vcs"
    /\ ~Unfinished(r)
    /\ request' = [request EXCEPT ![r] = [Idle EXCEPT !.number = lastSeen]]
    /\ Goto(r, "remote")
    /\ UNCHANGED <<Database, head, candidates, edits, restarts>>

Recorded(sha) == sha

\* ... and compared with what git ls-remote answers.  The commit is stored before the
\* builds for it are created, and a first poll only stores it.
ListRemote(r) ==
    /\ step[r] = "remote"
    /\ IF head = request[r].number
       THEN Leave(r) /\ UNCHANGED lastSeen
       ELSE /\ lastSeen' = Recorded(head)
            /\ IF request[r].number = 0 \/ Loads("vcs", FirstProject) = "error"
               THEN Leave(r)
               ELSE /\ Goto(r, "number")
                    /\ request' = [request EXCEPT ![r] =
                           [Idle EXCEPT !.project = FirstProject, !.commit = head]]
    /\ UNCHANGED <<rows, pipeline, head, candidates, edits, restarts>>

\* HandleBuildFinish: a success of one project triggers the others once.
HandleBuildFinish(r) ==
    /\ Source[r] = "finish"
    /\ ~Unfinished(r)
    /\ \E b \in DOMAIN rows, p \in IntakeProjects :
        /\ rows[b].status = "success"
        /\ p # rows[b].project
        /\ \A c \in RowsOf(p) : rows[c].trigger = "finish" => rows[c].parent # b
        /\ Loads("finish", p) # "error"
        /\ request' = [request EXCEPT ![r] = [Idle EXCEPT !.project = p, !.parent = b]]
    /\ Goto(r, "number")
    /\ UNCHANGED <<Database, head, candidates, edits, restarts>>

(***************************************************************************)
(* A build is numbered, inserted, held if its pipeline says so, queued.    *)
(***************************************************************************)
ReadNumber(r) ==
    /\ step[r] = "number"
    /\ request' = [request EXCEPT ![r].number = NextBuildNumber(request[r].project)]
    /\ Goto(r, "insert")
    /\ UNCHANGED <<Database, head, candidates, edits, restarts>>

NumberIsFree(p, n) == \A b \in RowsOf(p) : rows[b].number # n

\* CreateBuild; a number that was taken meanwhile ends the request.
CreateBuild(r) ==
    /\ step[r] = "insert"
    /\ Len(rows) < MaxRows
    /\ IF NumberIsFree(request[r].project, request[r].number)
       THEN /\ rows' = Append(rows, Row(r, request[r].number, "pending", FALSE))
            /\ request' = [request EXCEPT ![r] =
                   [Idle EXCEPT !.project = request[r].project, !.row = Len(rows) + 1]]
            /\ Goto(r, "approval")
       ELSE Leave(r) /\ UNCHANGED rows
    /\ UNCHANGED <<pipeline, lastSeen, head, candidates, edits, restarts>>

\* requestBuildApproval and RequestIfRequired.  A pipeline that cannot be loaded any
\* more ends the request of a handler and lets the others go on; the row stays pending
\* either way.
DecideApproval(r) ==
    LET b == request[r].row
        policy == Loads(Source[r], request[r].project)
    IN  /\ step[r] = "approval"
        /\ rows' = IF policy # "gated" THEN rows
                   ELSE [rows EXCEPT ![b].gated = TRUE, ![b].record = TRUE,
                                     ![b].status = IF @ = "pending" THEN "pending_approval" ELSE @]
        /\ IF policy = "error" /\ Source[r] \in Handlers THEN Leave(r)
           ELSE Goto(r, "queue") /\ UNCHANGED request
        /\ UNCHANGED <<pipeline, lastSeen, head, candidates, edits, restarts>>

\* Enqueue; the dispatcher finds a pending row without it as well.
Enqueue(r) ==
    /\ step[r] = "queue"
    /\ Leave(r)
    /\ UNCHANGED <<Database, head, candidates, edits, restarts>>

(***************************************************************************)
(* Builds made at startup.  The candidates are captured before recovered   *)
(* work is dispatched, and looked at one after the other.                  *)
(***************************************************************************)
Eligible(p) == \A b \in RowsOf(p) : rows[b].status \notin RowActive

StartupLoad(r) ==
    /\ Source[r] = "startup"
    /\ ~Unfinished(r)
    /\ \E p \in candidates :
        /\ \A q \in candidates : p <= q
        /\ candidates' = candidates \ {p}
        /\ IF Loads("startup", p) = "error" THEN UNCHANGED <<step, request>>
           ELSE /\ Goto(r, "create")
                /\ request' = [request EXCEPT ![r] =
                       [Idle EXCEPT !.project = p, !.confirmed = (Loads("startup", p) = "gated")]]
    /\ UNCHANGED <<Database, head, edits, restarts>>

\* Mutant of StartupStillEligible: what was captured at startup is trusted.
StartupWasEligible(p) == TRUE

StartupStillEligible(p) == Eligible(p)

StartupStatus(gated) == IF gated THEN "pending_approval" ELSE "pending"

\* CreateStartupBuild: one transaction checks, numbers and inserts; the hold is part of
\* the row (request[r].confirmed is the policy the request has read).
CreateStartupBuild(r) ==
    LET p == request[r].project
        gated == request[r].confirmed
    IN  /\ step[r] = "create"
        /\ Len(rows) < MaxRows
        /\ IF StartupStillEligible(p)
           THEN /\ rows' = Append(rows, [Row(r, NextBuildNumber(p), StartupStatus(gated), gated)
                                            EXCEPT !.confirmed = FALSE])
                /\ request' = [request EXCEPT ![r].row = Len(rows) + 1]
                /\ Goto(r, "record")
           ELSE Leave(r) /\ UNCHANGED rows
        /\ UNCHANGED <<pipeline, lastSeen, head, candidates, edits, restarts>>

RecordStartupApproval(r) ==
    /\ step[r] = "record"
    /\ rows' = [rows EXCEPT ![request[r].row].record = request[r].confirmed]
    /\ Goto(r, "queue")
    /\ UNCHANGED <<pipeline, lastSeen, head, request, candidates, edits, restarts>>

(***************************************************************************)
(* The rest of the system, as far as it matters here.                      *)
(***************************************************************************)
\* The dispatcher runs any pending row; a publication that was confirmed is used up.
StartRow(b) ==
    /\ rows[b].status = "pending"
    /\ rows' = [rows EXCEPT ![b].status = "running"]
    /\ UNCHANGED <<pipeline, lastSeen, head, step, request, candidates, edits, restarts>>

\* A record that was resolved lets the build run.
ApproveRow(b) ==
    /\ rows[b].status = "pending_approval"
    /\ rows[b].record
    /\ rows' = [rows EXCEPT ![b].status = "pending"]
    /\ UNCHANGED <<pipeline, lastSeen, head, step, request, candidates, edits, restarts>>

\* A build that has n earlier ones behind it, each a retry of the one before.
RetriedTimes(b, n) ==
    \E line \in [0..n -> DOMAIN rows] :
        /\ line[0] = b
        /\ \A i \in 1..n : rows[line[i - 1]].trigger = "retry" /\ line[i] = rows[line[i - 1]].parent

SucceedRow(b) ==
    /\ rows[b].status = "running"
    /\ rows' = [rows EXCEPT ![b].status = "success"]
    /\ UNCHANGED <<pipeline, lastSeen, head, step, request, candidates, edits, restarts>>

\* scheduleAutomaticRetry copies the row, its parameters included.
FailRow(b) ==
    /\ rows[b].status = "running"
    /\ LET failed == [rows EXCEPT ![b].status = "failed"]
       IN  rows' = IF RetriedTimes(b, IntakeRetries) \/ Len(rows) = MaxRows THEN failed
                   ELSE Append(failed, [rows[b] EXCEPT
                            !.number = NextBuildNumber(rows[b].project), !.trigger = "retry",
                            !.status = "pending", !.gated = FALSE, !.record = FALSE,
                            !.confirmed = FALSE, !.parent = b])
    /\ UNCHANGED <<pipeline, lastSeen, head, step, request, candidates, edits, restarts>>

Push ==
    /\ head <= MaxCommits
    /\ head' = head + 1
    /\ UNCHANGED <<Database, step, request, candidates, edits, restarts>>

EditPipeline(p) ==
    /\ edits < MaxEdits
    /\ edits' = edits + 1
    /\ \E new \in Pipelines \ {pipeline[p]} : pipeline' = [pipeline EXCEPT ![p] = new]
    /\ UNCHANGED <<rows, lastSeen, head, step, request, candidates, restarts>>

\* Crash and restart: interrupted builds are pending again, and the candidates are
\* captured from what the database holds.
Restart ==
    /\ restarts < MaxRestarts
    /\ restarts' = restarts + 1
    /\ rows' = [b \in DOMAIN rows |->
           IF rows[b].status = "running" THEN [rows[b] EXCEPT !.status = "pending"] ELSE rows[b]]
    /\ step' = [r \in Requests |-> "idle"]
    /\ request' = [r \in Requests |-> Idle]
    /\ candidates' = {p \in IntakeProjects : Eligible(p)}
    /\ UNCHANGED <<pipeline, lastSeen, head, edits>>

IntakeNext ==
    \/ \E r \in Requests :
        \/ TriggerBuild(r) \/ ProjectHTTPTriggerBuild(r) \/ HTTPTriggerBuild(r) \/ RetryBuild(r) \/ PushReceived(r) \/ CheckCronTriggers(r)
        \/ ListVCSRoots(r) \/ ListRemote(r) \/ HandleBuildFinish(r)
        \/ ReadNumber(r) \/ CreateBuild(r) \/ DecideApproval(r) \/ Enqueue(r)
        \/ StartupLoad(r) \/ CreateStartupBuild(r) \/ RecordStartupApproval(r)
    \/ \E b \in DOMAIN rows : StartRow(b) \/ ApproveRow(b) \/ SucceedRow(b) \/ FailRow(b)
    \/ Push \/ (\E p \in IntakeProjects : EditPipeline(p)) \/ Restart

IntakeSpec == IntakeInit /\ [][IntakeNext]_intakeVars

(***************************************************************************)
(* Properties                                                              *)
(***************************************************************************)
\* Requests race for the next number of a project, and still its builds are numbered
\* in the order in which they were created.
NumbersFollowCreation ==
    \A a, b \in DOMAIN rows :
        a < b /\ rows[a].project = rows[b].project => rows[a].number < rows[b].number

\* A startup build never joins work of its project that is waiting, held or running,
\* however long its pipeline took to load and whatever was triggered meanwhile.
StartupIsAlone ==
    [][\A b \in DOMAIN rows' \ DOMAIN rows : rows'[b].trigger = "startup" => Eligible(rows'[b].project)]_intakeVars

\* A startup build whose pipeline asked for approval never starts without a record
\* somebody could resolve.
StartupIsHeld ==
    \A b \in DOMAIN rows :
        rows[b].trigger = "startup" /\ rows[b].gated /\ ~rows[b].record => rows[b].status = "pending_approval"

\* The poller triggers at most one build for a commit, across restarts.
OneBuildPerCommit ==
    \A a, b \in DOMAIN rows :
        rows[a].trigger = "vcs" /\ rows[b].trigger = "vcs" /\ rows[a].commit = rows[b].commit => a = b

\* A latest publication was confirmed by the request that created its build, or is the
\* one automatic retry of a publication that failed: a confirmation lets a publication
\* be repeated as often as the retry limit says, and no request uses it again.
PublicationIsConfirmed ==
    LET publications == {b \in DOMAIN rows : rows[b].release}
    IN  \A b \in publications :
            /\ ~RetriedTimes(b, IntakeRetries + 1)
            /\ \/ rows[b].confirmed
               \/ /\ rows[b].parent \in publications
                  /\ rows[rows[b].parent].status = "failed"
                  /\ \A c \in publications : rows[c].parent = rows[b].parent => c = b

\* Of all the requests that race to create builds, none gets past the rules for its
\* kind of build.
OnlyAdmittedBuilds ==
    /\ []NumbersFollowCreation
    /\ []StartupIsHeld
    /\ []OneBuildPerCommit
    /\ []PublicationIsConfirmed
    /\ StartupIsAlone
=============================================================================
