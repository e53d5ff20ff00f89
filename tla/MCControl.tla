------------------------------ MODULE MCControl ------------------------------
(***************************************************************************)
(* Small instances of the modules about which builds there are, what they  *)
(* run, in what order, and what the database keeps of them, in one run:    *)
(* `part` says which module a behaviour is of; the variables of the others *)
(* stay as they are.  Intake has six instances: startup builds beside a    *)
(* user (manual), while the project is edited (edited) and beside the      *)
(* poller (polled), retries beside a user (retried), two projects whose    *)
(* builds come from pushes, the schedule and each other (pushed), and the  *)
(* two kinds of token URLs (tokens).  BuildRetention has three: two        *)
(* pruners and a crash (pruned), one pruner and pins (pinned), and one     *)
(* pruner with a build more, which a chain of retries that outlives its    *)
(* ancestors takes (chained).                                              *)
(***************************************************************************)
EXTENDS StageExecution, ReleaseParameters, QueueReorder, Intake, Migrations, BuildRetention, ProjectStore

CONSTANTS r1, r2, r3, r4, r5, r6, r7, r8, r9, s1, s2, g1, g2, h1

Conditions == {<<>>, <<"failure", "(", ")">>, <<"success", "(", ")", "||", "failure", "(", ")">>}
StepsOf(count, results) == {steps \in [1..count -> [if : Conditions, result : results]] : steps[1].if = <<>>}
StageOf(steps, if, needs, matches) == [steps |-> steps, if |-> if, needs |-> needs, matches |-> matches]

\* Two stages, of which the branches of the first may not match and the second may need
\* the first, with results and conditions in all combinations; and three of one step
\* each, of which each later one may need and ask for anything; and none at all.
TwoStages ==
    {<<StageOf(first, <<>>, {}, matches), StageOf(second, if, needs, TRUE)>> :
        first \in StepsOf(2, {"ok", "fail", "slow"}), second \in StepsOf(1, {"ok", "fail", "slow"}),
        matches \in BOOLEAN, if \in Conditions, needs \in SUBSET {1}}
ThreeStages ==
    {<<StageOf(first, <<>>, {}, TRUE), StageOf(second, if, needs, TRUE), StageOf(third, last, all, TRUE)>> :
        first, second, third \in StepsOf(1, {"ok", "fail"}),
        if, last \in Conditions, needs \in SUBSET {1}, all \in SUBSET {1, 2}}
SomeJobs == TwoStages \cup ThreeStages \cup {<<>>}

SourceOf ==
    (r1 :> "manual") @@ (r2 :> "startup") @@ (r3 :> "vcs") @@ (r4 :> "retry")
    @@ (r5 :> "finish") @@ (r6 :> "webhook") @@ (r7 :> "schedule")
    @@ (r8 :> "http") @@ (r9 :> "api")
Of(requests) == [r \in requests |-> SourceOf[r]]
ManualSource == Of({r1, r2})

VARIABLE part

Edited == INSTANCE Intake WITH MaxRows <- 2, MaxEdits <- 1
Polled == INSTANCE Intake WITH
    Requests <- {r2, r3}, Source <- Of({r2, r3}), MaxCommits <- 2, MaxEdits <- 1
Retried == INSTANCE Intake WITH Requests <- {r1, r4}, Source <- Of({r1, r4}), MaxRestarts <- 0
Pushed == INSTANCE Intake WITH
    Requests <- {r5, r6, r7}, Source <- Of({r5, r6, r7}), IntakeProjects <- {1, 2},
    MaxRows <- 2, MaxCommits <- 1, MaxRestarts <- 0
ByToken == INSTANCE Intake WITH Requests <- {r8, r9}, Source <- Of({r8, r9}), MaxRows <- 2, MaxEdits <- 1, MaxRestarts <- 0
Pinned == INSTANCE BuildRetention WITH Cleaners <- {g1}, MaxPins <- 1
Chained == INSTANCE BuildRetention WITH
    Cleaners <- {g1}, MaxBuilds <- 4, MaxTriggers <- 1, MaxRetentionCrashes <- 0

stagesVars == <<probe, stageVars>>
requestVars == <<form, queueVars, intakeVars>>
storeVars == <<migrationVars, retentionVars, projectVars>>
vars == <<stagesVars, requestVars, storeVars, part>>

Init ==
    /\ part \in {"pipeline", "stages", "release", "queue", "manual", "edited", "polled", "retried",
                 "pushed", "tokens", "migrations", "pruned", "pinned", "chained", "projects"}
    /\ PipelineInit /\ StageInit /\ ReleaseInit /\ QueueInit /\ MigrationBlank /\ ProjectInit
    /\ CASE part = "edited" -> Edited!IntakeInit
         [] part = "polled" -> Polled!IntakeInit
         [] part = "retried" -> Retried!IntakeInit
         [] part = "pushed" -> Pushed!IntakeInit
         [] part = "tokens" -> ByToken!IntakeInit
         [] OTHER -> IntakeInit
    /\ CASE part = "pinned" -> Pinned!RetentionInit
         [] part = "chained" -> Chained!RetentionInit
         [] OTHER -> RetentionInit

StagesNext ==
    /\ UNCHANGED <<requestVars, storeVars>>
    /\ \/ part = "pipeline" /\ PipelineNext /\ UNCHANGED stageVars
       \/ part = "stages" /\ StageNext /\ UNCHANGED probe

RequestNext ==
    /\ UNCHANGED <<stagesVars, storeVars>>
    /\ \/ part = "release" /\ ReleaseNext /\ UNCHANGED <<queueVars, intakeVars>>
       \/ part = "queue" /\ QueueNext /\ UNCHANGED <<form, intakeVars>>
       \/ part = "manual" /\ IntakeNext /\ UNCHANGED <<form, queueVars>>
       \/ part = "edited" /\ Edited!IntakeNext /\ UNCHANGED <<form, queueVars>>
       \/ part = "polled" /\ Polled!IntakeNext /\ UNCHANGED <<form, queueVars>>
       \/ part = "retried" /\ Retried!IntakeNext /\ UNCHANGED <<form, queueVars>>
       \/ part = "pushed" /\ Pushed!IntakeNext /\ UNCHANGED <<form, queueVars>>
       \/ part = "tokens" /\ ByToken!IntakeNext /\ UNCHANGED <<form, queueVars>>

StoreNext ==
    /\ UNCHANGED <<stagesVars, requestVars>>
    /\ \/ part = "migrations" /\ MigrationNext /\ UNCHANGED <<retentionVars, projectVars>>
       \/ part = "pruned" /\ RetentionNext /\ UNCHANGED <<migrationVars, projectVars>>
       \/ part = "pinned" /\ Pinned!RetentionNext /\ UNCHANGED <<migrationVars, projectVars>>
       \/ part = "chained" /\ Chained!RetentionNext /\ UNCHANGED <<migrationVars, projectVars>>
       \/ part = "projects" /\ ProjectNext /\ UNCHANGED <<migrationVars, retentionVars>>

Next == (StagesNext \/ RequestNext \/ StoreNext) /\ UNCHANGED part

Spec == Init /\ [][Next]_vars
=============================================================================
