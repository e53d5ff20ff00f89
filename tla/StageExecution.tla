--------------------------- MODULE StageExecution ---------------------------
(***************************************************************************)
(* The stage loop of a build, twice: BuildRunner.run (runner.go) on the    *)
(* controller and Executor.ExecuteBuild (worker/executor.go) on a remote   *)
(* worker, with the post steps of each.  Both execute the same pipeline;   *)
(* the results of its steps are chosen with it, so that what the loops do  *)
(* with them can be compared.  Only the local loop can be interrupted      *)
(* here; RemoteBuild shows what becomes of a remote one.                   *)
(***************************************************************************)
EXTENDS Pipeline

CONSTANTS
    Jobs,         \* the pipelines a build may have, as sequences of stages in their order
    Interruptions \* which of "cancelled", "expired" and "shutdown" may end the context

\* A step does "ok" or "fail", or is "slow": past the timeout of its stage.  `matches`
\* says whether the branch of the build is one of the stage; <<>> is no condition.
Step == [if : Seq(Tokens), result : {"ok", "fail", "slow"}]
Stage == [steps : Seq(Step), if : Seq(Tokens), needs : SUBSET Nat, matches : BOOLEAN]

\* Stages need earlier ones, and conditions were validated when the pipeline was saved.
IsPipeline(stages) ==
    /\ stages \in Seq(Stage)
    /\ \A s \in DOMAIN stages :
          /\ stages[s].needs \subseteq 1 .. s - 1
          /\ ValidatePipelineCondition(stages[s].if)
          /\ \A k \in DOMAIN stages[s].steps : ValidatePipelineCondition(stages[s].steps[k].if)

ASSUME StageAssumption ==
    /\ \A stages \in Jobs : IsPipeline(stages)
    /\ Interruptions \subseteq {"cancelled", "expired", "shutdown"}

VARIABLES
    job,        \* the stages, <<>> before one is chosen
    loop,       \* "none", "failFast", "keepGoing", "remote", then "compared"
    place,      \* the stage and the step that come next
    statuses,   \* outcome of each stage, "none" before its turn
    failing,    \* stageFailed
    failures,   \* failedSteps or failedStages is not empty
    ran,        \* the steps that were executed, in order
    context,    \* of the build: "live" or the cause of its end
    posts,      \* outcomes runPostSteps was called with
    verdict,    \* what the loop made of the build, "none" until it ends
    verdicts    \* verdict and executed steps of the loops that are over

loopVars == <<place, statuses, failing, failures, ran, context, posts, verdict>>
stageVars == <<job, loop, loopVars, verdicts>>

Loops == <<"failFast", "keepGoing", "remote">>
Stages == DOMAIN job
Steps(stage) == job[stage].steps

StageInit ==
    /\ job = <<>> /\ loop = "none"
    /\ place = [stage |-> 1, step |-> 0]
    /\ statuses = <<>> /\ failing = FALSE /\ failures = FALSE
    /\ ran = <<>> /\ context = "live" /\ posts = <<>>
    /\ verdict = "none"
    /\ verdicts = <<>>

ChooseJob ==
    /\ loop = "none"
    /\ job' \in Jobs
    /\ loop' = "failFast"
    /\ statuses' = [s \in DOMAIN job' |-> "none"]
    /\ UNCHANGED <<place, failing, failures, ran, context, posts, verdict, verdicts>>

InStage == verdict = "none" /\ place.stage \in Stages /\ place.step > 0
Current == Steps(place.stage)[place.step]
Live == context = "live"

EndsAs(outcome) == verdict' = outcome

\* runPostSteps of the local loop does nothing during a shutdown.
RunPostSteps(outcome) == posts' = IF context = "shutdown" THEN posts ELSE Append(posts, outcome)

(***************************************************************************)
(* Entering a stage.                                                       *)
(***************************************************************************)
\* The worker fails fast over the whole build: once a stage failed, a stage runs
\* only when its condition asks for failures, whatever it depends on.
RemoteRuns(stage) ==
    IF failures /\ job[stage].if # <<>>
    THEN EvaluatePipelineCondition(job[stage].if, [success |-> FALSE, failure |-> TRUE]).value
    ELSE ~failures /\ ShouldRunStage(job[stage].if, job[stage].needs, statuses)

StageRuns(stage) ==
    /\ job[stage].matches
    /\ IF loop = "remote" THEN RemoteRuns(stage)
       ELSE ShouldRunStage(job[stage].if, job[stage].needs, statuses)

EnterStage ==
    /\ loop \in {"failFast", "keepGoing", "remote"} /\ verdict = "none" /\ place.step = 0
    /\ place.stage \in Stages
    /\ IF StageRuns(place.stage)
       THEN place' = [place EXCEPT !.step = 1] /\ UNCHANGED statuses
       ELSE /\ place' = [place EXCEPT !.stage = @ + 1]
            /\ statuses' = [statuses EXCEPT ![place.stage] = "skipped"]
    /\ UNCHANGED <<job, loop, failing, failures, ran, context, posts, verdict, verdicts>>

(***************************************************************************)
(* The steps of a stage.                                                   *)
(***************************************************************************)
\* After a failed step the worker skips the steps without a condition; the local
\* loop runs them, unless it has already stopped.
StepRuns ==
    IF Current.if = <<>> THEN loop # "remote" \/ ~failing
    ELSE EvaluatePipelineCondition(Current.if, [success |-> ~failing, failure |-> failing]).value

NextStep == place' = [place EXCEPT !.step = @ + 1]

SkipStep ==
    /\ InStage /\ place.step \in DOMAIN Steps(place.stage)
    /\ ~StepRuns
    /\ NextStep
    /\ UNCHANGED <<job, loop, statuses, failing, failures, ran, context, posts, verdict, verdicts>>

\* completedStepError: a result counts only in a live context.
CompletedStepError(result) == IF Live THEN result ELSE "interrupted"

RunsStep ==
    /\ InStage /\ place.step \in DOMAIN Steps(place.stage)
    /\ StepRuns
    /\ ran' = Append(ran, <<place.stage, place.step>>)

StepSucceeds ==
    /\ RunsStep
    /\ CompletedStepError(Current.result) = "ok"
    /\ NextStep
    /\ UNCHANGED <<job, loop, statuses, failing, failures, context, posts, verdict, verdicts>>

\* A failed step is recorded and, unless its stage timed out, the next one looked at.
StepFails ==
    /\ RunsStep
    /\ CompletedStepError(Current.result) \in {"fail", "slow"}
    /\ IF loop = "failFast"
       THEN /\ RunPostSteps("failure") /\ EndsAs("failed")
            /\ UNCHANGED <<place, failing, failures>>
       ELSE /\ failing' = TRUE
            /\ failures' = (failures \/ loop = "keepGoing")
            /\ place' = [place EXCEPT !.step =
                   IF Current.result = "slow" THEN Len(Steps(place.stage)) + 1 ELSE @ + 1]
            /\ UNCHANGED <<posts, verdict>>
    /\ UNCHANGED <<job, loop, statuses, context, verdicts>>

\* A shutdown leaves the build as it is; a stop and the build timeout end it after
\* its post steps.
StepInterrupted ==
    /\ RunsStep
    /\ CompletedStepError(Current.result) = "interrupted"
    /\ RunPostSteps("failure")
    /\ EndsAs(IF context = "cancelled" THEN "cancelled"
              ELSE IF context = "expired" THEN "failed" ELSE "interrupted")
    /\ UNCHANGED <<job, loop, place, statuses, failing, failures, context, verdicts>>

LeaveStage ==
    /\ InStage /\ place.step > Len(Steps(place.stage))
    /\ statuses' = [statuses EXCEPT ![place.stage] = IF failing THEN "failed" ELSE "success"]
    /\ failures' = (failures \/ failing)
    /\ failing' = FALSE
    /\ place' = [stage |-> place.stage + 1, step |-> 0]
    /\ UNCHANGED <<job, loop, ran, context, posts, verdict, verdicts>>

(***************************************************************************)
(* After the stages: artifacts, post steps, the verdict.                   *)
(***************************************************************************)
\* Mutant of Outcome: a build fails only if its last stage did.
OutcomeOfLastStage == IF job # <<>> /\ statuses[Len(job)] = "failed" THEN "failure" ELSE "success"

Outcome == IF failures THEN "failure" ELSE "success"

FinishStages ==
    /\ loop \in {"failFast", "keepGoing", "remote"} /\ verdict = "none"
    /\ place.stage > Len(job)
    /\ RunPostSteps(Outcome)
    /\ EndsAs(IF context = "shutdown" THEN "interrupted"
              ELSE IF Outcome = "failure" THEN "failed" ELSE "success")
    /\ UNCHANGED <<job, loop, place, statuses, failing, failures, ran, context, verdicts>>

Interrupt ==
    /\ loop \in {"failFast", "keepGoing"} /\ verdict = "none" /\ Live
    /\ context' \in Interruptions
    /\ UNCHANGED <<job, loop, place, statuses, failing, failures, ran, posts, verdict, verdicts>>

\* The next loop executes the same pipeline.
NextLoop ==
    /\ verdict # "none" /\ Live
    /\ verdicts' = Append(verdicts, [verdict |-> verdict, ran |-> ran])
    /\ loop' = IF Len(verdicts) = 2 THEN "compared" ELSE Loops[Len(verdicts) + 2]
    /\ place' = [stage |-> 1, step |-> 0]
    /\ statuses' = [s \in Stages |-> "none"]
    /\ failing' = FALSE /\ failures' = FALSE /\ ran' = <<>> /\ posts' = <<>>
    /\ verdict' = "none"
    /\ UNCHANGED <<job, context>>

StageNext ==
    \/ ChooseJob \/ EnterStage \/ SkipStep \/ StepSucceeds \/ StepFails \/ StepInterrupted
    \/ LeaveStage \/ FinishStages \/ Interrupt \/ NextLoop

\* Beside the inputs of Pipeline, which do not change what the loops do.
StageSpec ==
    /\ PipelineInit /\ StageInit
    /\ [][(StageNext /\ UNCHANGED probe) \/ (PipelineNext /\ UNCHANGED stageVars)]_<<probe, stageVars>>

-----------------------------------------------------------------------------
(***************************************************************************)
(* Properties                                                              *)
(***************************************************************************)
Failed(steps) == \E i \in DOMAIN steps : job[steps[i][1]].steps[steps[i][2]].result # "ok"

\* However often failures are tolerated and conditions run more steps after them: a
\* build is a success exactly when every step it executed succeeded, and no step
\* that ended in a dead context is taken for a success.
VerdictIsHonest ==
    /\ verdict = "success" => ~Failed(ran)
    /\ verdict = "failed" /\ Live => Failed(ran)
    /\ verdict \in {"cancelled", "interrupted"} => ~Live

\* A stage without a condition runs only after every stage it needs succeeded, also
\* when a needed stage was skipped because of another one.
NeedsSucceeded ==
    \A s \in Stages :
        statuses[s] \in {"success", "failed"} /\ job[s].if = <<>> =>
            \A d \in job[s].needs : statuses[d] = "success"

\* The post steps run once per build, with the outcome of the build, and not at all
\* when the controller shuts down.
PostStepsRunOnce ==
    verdict # "none" =>
        posts = IF verdict = "interrupted" THEN <<>>
                ELSE <<IF verdict = "success" THEN "success" ELSE "failure">>

\* Where a pipeline runs and whether the policy fails fast decides how much of it is
\* executed, not how it ends; up to its first failure it executes the same steps.
LoopsAgree ==
    loop = "compared" =>
        /\ \A i \in DOMAIN verdicts : verdicts[i].verdict = verdicts[1].verdict
        /\ \A i \in DOMAIN verdicts : Len(verdicts[i].ran) >= Len(verdicts[1].ran)
              /\ SubSeq(verdicts[i].ran, 1, Len(verdicts[1].ran)) = verdicts[1].ran

\* Where a build may run, what it may run, and what it may be called afterwards: the
\* stages and steps its pipeline declares, in their order, with the verdict they earned.
StagesRunAsDeclared ==
    /\ ConditionsParse
    /\ StagesAreOrdered
    /\ VerdictIsHonest
    /\ NeedsSucceeded
    /\ PostStepsRunOnce
    /\ LoopsAgree
=============================================================================
