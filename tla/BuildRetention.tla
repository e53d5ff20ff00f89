--------------------------- MODULE BuildRetention ---------------------------
(***************************************************************************)
(* Which builds of a project are kept: the pruner that runs after every    *)
(* success, pins, retries by users and by the runner, and crashes.         *)
(*                                                                         *)
(* The pruner selects the builds it removes in one statement and removes   *)
(* them and their children with one statement each; everything else        *)
(* happens in between, another pruner included.                            *)
(***************************************************************************)
EXTENDS Naturals, Sequences, FiniteSets

CONSTANTS
    Cleaners,        \* goroutines of builds that have succeeded
    Retain,          \* retention of the pipeline, at least 1
    RetryLimit,      \* automatic retries of one build
    MaxBuilds,       \* bound: rows of builds
    MaxTriggers,     \* bound: those that are no retries
    MaxPins,         \* bound: pins and unpins
    MaxRetentionCrashes

ASSUME RetentionAssumption ==
    {Retain, RetryLimit, MaxBuilds, MaxTriggers, MaxPins, MaxRetentionCrashes} \subseteq Nat

VARIABLES
    build,     \* rows by identifier; removed ones stay, with gone set
    finished,  \* builds finished so far, which orders them by finished_at
    due,       \* failed builds whose automatic retry is still to be scheduled
    cleaner,   \* what each pruner has still to remove, and from which tables
    pins, retentionCrashes

retentionVars == <<build, finished, due, cleaner, pins, retentionCrashes>>

\* The statements that remove a build, in order; "records" stands for its artifacts,
\* queue item, test results and approvals.
Removal == <<"events", "records", "build">>
NothingToRemove == [ids |-> {}, next |-> 1]

\* auto counts the automatic retries in the ancestry of a build, removed rows included.
NewRow(parent, auto) ==
    [status |-> "pending", pinned |-> FALSE, parent |-> parent, finished |-> 0, gone |-> FALSE,
     children |-> {"records"}, auto |-> auto]

RetentionInit ==
    /\ build = <<>>
    /\ finished = 0
    /\ due = {}
    /\ cleaner = [c \in Cleaners |-> [busy |-> FALSE, removal |-> NothingToRemove]]
    /\ pins = 0
    /\ retentionCrashes = 0

Kept == {b \in DOMAIN build : ~build[b].gone}
Completed(b) == build[b].status \in {"success", "failed", "cancelled"}

TriggerRow ==
    /\ Len(build) < MaxBuilds
    /\ Cardinality({b \in DOMAIN build : build[b].parent = 0}) < MaxTriggers
    /\ build' = Append(build, NewRow(0, 0))
    /\ UNCHANGED <<finished, due, cleaner, pins, retentionCrashes>>

RetryRow(b) ==
    /\ b \in Kept /\ Completed(b)
    /\ Len(build) < MaxBuilds
    /\ build' = Append(build, NewRow(b, build[b].auto))
    /\ UNCHANGED <<finished, due, cleaner, pins, retentionCrashes>>

RunRow(b) ==
    /\ b \in Kept /\ build[b].status = "pending"
    /\ build' = [build EXCEPT ![b].status = "running"]
    /\ UNCHANGED <<finished, due, cleaner, pins, retentionCrashes>>

Ended(b, status) == [build[b] EXCEPT !.status = status, !.finished = finished + 1,
                                     !.children = build[b].children \cup {"events"}]

Finish(b, status) ==
    /\ finished' = finished + 1
    /\ build' = [build EXCEPT ![b] = Ended(b, status)]

\* A success is followed by a cleanup of its project, in the goroutine of the build.
SucceedThenClean(b, c) ==
    /\ b \in Kept /\ build[b].status = "running"
    /\ ~cleaner[c].busy
    /\ Finish(b, "success")
    /\ cleaner' = [cleaner EXCEPT ![c].busy = TRUE]
    /\ UNCHANGED <<due, pins, retentionCrashes>>

FailThenRetry(b) ==
    /\ b \in Kept /\ build[b].status = "running"
    /\ Finish(b, "failed")
    /\ due' = due \cup {b}
    /\ UNCHANGED <<cleaner, pins, retentionCrashes>>

CancelRow(b) ==
    /\ b \in Kept /\ build[b].status = "pending"
    /\ Finish(b, "cancelled")
    /\ UNCHANGED <<due, cleaner, pins, retentionCrashes>>

\* How often a build was retried already, as far as its rows are still there: line goes
\* from the build to its first ancestor, and an ancestor that is gone ends the walk with
\* an error and no retry.
MayRetry(b) ==
    \E depth \in 0..(RetryLimit - 1) : \E line \in [0..depth -> Kept] :
        /\ line[0] = b
        /\ \A i \in 1..depth : line[i] = build[line[i - 1]].parent
        /\ build[line[depth]].parent = 0

\* scheduleAutomaticRetry
ScheduleAutomaticRetry(b) ==
    /\ b \in due
    /\ due' = due \ {b}
    /\ IF RetryLimit > 0 /\ MayRetry(b) /\ Len(build) < MaxBuilds
       THEN build' = Append(build, NewRow(b, build[b].auto + 1))
       ELSE UNCHANGED build
    /\ UNCHANGED <<finished, cleaner, pins, retentionCrashes>>

\* Mutant of Newest: builds are kept by their identifiers.
NewestByNumber(a, b) == a > b

\* ORDER BY COALESCE(finished_at, started_at) DESC, id DESC
Newest(a, b) == build[a].finished > build[b].finished

\* PruneCompletedBuilds: the selection ...
SelectCompletedBuilds(c) ==
    LET ids == {b \in Kept : Completed(b) /\ ~build[b].pinned}
        old == {b \in ids : Cardinality({a \in ids : Newest(a, b)}) >= Retain}
    IN  /\ cleaner[c].busy
        /\ cleaner[c].removal = NothingToRemove
        /\ cleaner' = [cleaner EXCEPT ![c] = [busy |-> old # {}, removal |-> [ids |-> old, next |-> 1]]]
        /\ UNCHANGED <<build, finished, due, pins, retentionCrashes>>

Deleted(b, what) == IF what = "build" THEN [build[b] EXCEPT !.gone = TRUE]
                    ELSE [build[b] EXCEPT !.children = @ \ {what}]

\* ... and one DELETE per table and build, the newest build first.
RemoveNext(c) ==
    LET ids == cleaner[c].removal.ids
        next == cleaner[c].removal.next
    IN \E b \in ids :
        /\ \A a \in ids \ {b} : Newest(b, a)
        /\ build' = [build EXCEPT ![b] = Deleted(b, Removal[next])]
        /\ cleaner' = [cleaner EXCEPT ![c] =
               IF next < Len(Removal) THEN [busy |-> TRUE, removal |-> [ids |-> ids, next |-> next + 1]]
               ELSE [busy |-> ids # {b}, removal |-> [ids |-> ids \ {b}, next |-> 1]]]
        /\ UNCHANGED <<finished, due, pins, retentionCrashes>>

\* A notification is logged by a goroutine of its own some time after the build ended,
\* which makes a difference here when the build is gone by then.
LogEvent(b) ==
    /\ build[b].gone
    /\ build' = [build EXCEPT ![b].children = @ \cup {"events"}]
    /\ UNCHANGED <<finished, due, cleaner, pins, retentionCrashes>>

PinBuild(b) ==
    /\ b \in Kept
    /\ pins < MaxPins
    /\ pins' = pins + 1
    /\ build' = [build EXCEPT ![b].pinned = ~@]
    /\ UNCHANGED <<finished, due, cleaner, retentionCrashes>>

\* A crash ends the cleanups and forgets the retries that were due.
CrashAndRecover ==
    /\ retentionCrashes < MaxRetentionCrashes
    /\ retentionCrashes' = retentionCrashes + 1
    /\ build' = [b \in DOMAIN build |->
           IF build[b].status = "running" THEN [build[b] EXCEPT !.status = "pending"] ELSE build[b]]
    /\ due' = {}
    /\ cleaner' = [c \in Cleaners |-> [busy |-> FALSE, removal |-> NothingToRemove]]
    /\ UNCHANGED <<finished, pins>>

RetentionNext ==
    \/ TriggerRow \/ CrashAndRecover
    \/ \E b \in DOMAIN build :
        \/ RetryRow(b) \/ RunRow(b) \/ FailThenRetry(b) \/ CancelRow(b) \/ ScheduleAutomaticRetry(b)
        \/ LogEvent(b) \/ PinBuild(b)
        \/ \E c \in Cleaners : SucceedThenClean(b, c)
    \/ \E c \in Cleaners : SelectCompletedBuilds(c) \/ RemoveNext(c)

RetentionSpec == RetentionInit /\ [][RetentionNext]_retentionVars

(***************************************************************************)
(* Properties                                                              *)
(***************************************************************************)
\* No build is retried automatically more often than the limit allows, although the
\* pruner removes the ancestors the runner counts.
RetryLimitSurvivesPruning == \A b \in DOMAIN build : build[b].auto <= RetryLimit

\* A build is removed only while as many as are to be retained are there that finished
\* after it: builds that took long are not taken for old ones, and two pruners together
\* remove no more than one.
NewestAreKept ==
    [][\A b \in Kept :
           build'[b].gone =>
               Cardinality({a \in Kept : build[a].finished > build[b].finished}) >= Retain]_retentionVars

\* A build that is gone leaves no children behind, whatever interrupted the pruner; only
\* notifications that are logged after it was removed do.
ChildrenGoFirst == \A b \in DOMAIN build : build[b].gone => build[b].children \subseteq {"events"}

\* Pruning takes the oldest builds with all they own, and nothing the rest rely on.
PruningIsInvisible ==
    /\ []RetryLimitSurvivesPruning
    /\ []ChildrenGoFirst
    /\ NewestAreKept
=============================================================================
