---------------------------- MODULE ProcessTree ----------------------------
(***************************************************************************)
(* One command of a step: processtree.Cmd with its watcher of the context  *)
(* (internal/processtree/command.go, command_unix.go) under the output     *)
(* pipe of internal/engine/executor.go.                                    *)
(*                                                                         *)
(* The root may leave descendants behind, in its process group or in a     *)
(* session of their own; all of them inherit its output.  Waiting for the  *)
(* root, watching the context and copying the output are three goroutines. *)
(***************************************************************************)
EXTENDS Naturals

CONSTANT MaxOutput  \* bound: lines the root writes

ASSUME ProcessAssumption == MaxOutput \in Nat

VARIABLES
    root,       \* "none", "running", "exited" or "failed"
    group,      \* a descendant in the process group is alive
    escaped,    \* a descendant outside of it is alive
    done,       \* the context is done
    command,    \* where Start and Wait stand
    watcher,    \* watchContext: "none", "watching", "clean" or "terminated"
    waitErr,    \* what exec's Wait returned
    result,     \* what Cmd.Wait returned, "none" before
    written, copied,  \* lines written by the root, and handed to the callback
    cut,        \* WaitDelay ran out and the pipe was closed
    killed      \* history: SIGKILL was sent to the group

processVars == <<root, group, escaped, done, command, watcher, waitErr, result, written, copied, cut, killed>>

ProcessInit ==
    /\ root = "none" /\ group = FALSE /\ escaped = FALSE
    /\ done = FALSE
    /\ command = "new" /\ watcher = "none"
    /\ waitErr = FALSE /\ result = "none"
    /\ written = 0 /\ copied = 0
    /\ cut = FALSE /\ killed = FALSE

Holders == root = "running" \/ group \/ escaped

(***************************************************************************)
(* The processes.                                                          *)
(***************************************************************************)
Write ==
    /\ root = "running" /\ written < MaxOutput
    /\ written' = written + 1
    /\ UNCHANGED <<root, group, escaped, done, command, watcher, waitErr, result, copied, cut, killed>>

Fork ==
    /\ root = "running"
    /\ \/ ~group /\ group' = TRUE /\ UNCHANGED escaped
       \/ ~escaped /\ escaped' = TRUE /\ UNCHANGED group
    /\ UNCHANGED <<root, done, command, watcher, waitErr, result, written, copied, cut, killed>>

Exit ==
    /\ \/ root = "running" /\ root' \in {"exited", "failed"} /\ UNCHANGED <<group, escaped>>
       \/ group /\ group' = FALSE /\ UNCHANGED <<root, escaped>>
       \/ escaped /\ escaped' = FALSE /\ UNCHANGED <<root, group>>
    /\ UNCHANGED <<done, command, watcher, waitErr, result, written, copied, cut, killed>>

\* A stop, a timeout or a shutdown.
CancelContext ==
    /\ ~done /\ done' = TRUE
    /\ UNCHANGED <<root, group, escaped, command, watcher, waitErr, result, written, copied, cut, killed>>

\* kill(-pid, SIGKILL) reaches the group also after its leader was reaped.
TerminateProcessTree ==
    /\ killed' = TRUE
    /\ root' = IF root = "running" THEN "failed" ELSE root
    /\ group' = FALSE

(***************************************************************************)
(* Start, and the watcher.                                                 *)
(***************************************************************************)
StartCommand ==
    /\ command = "new"
    /\ \/ /\ command' = "returned" /\ result' = "error"
          /\ UNCHANGED <<root, watcher>>
       \/ /\ ~done
          /\ command' = "waiting" /\ root' = "running" /\ watcher' = "watching"
          /\ UNCHANGED result
    /\ UNCHANGED <<group, escaped, done, waitErr, written, copied, cut, killed>>

\* The select sees the context done, perhaps after the root has exited.
WatchContext ==
    /\ watcher = "watching" /\ done
    /\ watcher' = "terminated"
    /\ TerminateProcessTree
    /\ UNCHANGED <<escaped, done, command, waitErr, result, written, copied, cut>>

\* The select sees processDone.
WatchProcess ==
    /\ watcher = "watching" /\ command = "processDone"
    /\ watcher' = "clean"
    /\ UNCHANGED <<root, group, escaped, done, command, waitErr, result, written, copied, cut, killed>>

(***************************************************************************)
(* The output, and Wait.                                                   *)
(***************************************************************************)
\* os/exec copies to the pipe, the reader splits lines for the callback.
CopyOutput ==
    /\ copied < written /\ ~cut
    /\ copied' = copied + 1
    /\ UNCHANGED <<root, group, escaped, done, command, watcher, waitErr, result, written, cut, killed>>

\* Mutant of WaitDelayExpires: Wait waits for every holder of the pipe.
WaitDelayNever == FALSE

\* inheritedPipeWaitDelay counts from the exit of the root.
WaitDelayExpires == root \in {"exited", "failed"}

\* The root was reaped, and the pipe reached its end or was closed after the delay;
\* a delay alone is no error of a root that succeeded.
ProcessEnds ==
    /\ command = "waiting"
    /\ root \in {"exited", "failed"}
    /\ \/ ~Holders /\ copied = written /\ UNCHANGED cut
       \/ WaitDelayExpires /\ cut' = TRUE
    /\ waitErr' = (root = "failed")
    /\ command' = "processDone"
    /\ UNCHANGED <<root, group, escaped, done, watcher, result, written, copied, killed>>

\* A failed command that the watcher did not terminate.
CleansUp == waitErr /\ watcher # "terminated"

CommandFailed == waitErr \/ watcher = "terminated"

ReturnResult ==
    /\ command = "processDone" /\ watcher \in {"clean", "terminated"}
    /\ result' = IF CommandFailed THEN "error" ELSE "ok"
    /\ command' = "returned"
    /\ IF CleansUp THEN TerminateProcessTree ELSE UNCHANGED <<root, group, killed>>
    /\ UNCHANGED <<escaped, done, watcher, waitErr, written, copied, cut>>

ProcessNext ==
    \/ Write \/ Fork \/ Exit \/ CancelContext
    \/ StartCommand \/ WatchContext \/ WatchProcess
    \/ CopyOutput \/ ProcessEnds \/ ReturnResult

ProcessSpec == ProcessInit /\ [][ProcessNext]_processVars

\* Goroutines run and the delay passes; no process ever has to end on its own.
ProcessFairness ==
    /\ WF_processVars(WatchContext) /\ WF_processVars(WatchProcess)
    /\ WF_processVars(CopyOutput)
    /\ WF_processVars(ProcessEnds) /\ WF_processVars(ReturnResult)

-----------------------------------------------------------------------------
(***************************************************************************)
(* Properties                                                              *)
(***************************************************************************)
\* A command that returns an error leaves no process of its group behind, whichever
\* of exit and cancellation the two goroutines saw first.
FailedTreeIsGone == result = "error" => root # "running" /\ ~group

\* A command succeeds only if its root did; then nothing it left in the background
\* was killed, and its output is complete unless a pipe was cut.
SuccessIsUntouched ==
    result = "ok" => root = "exited" /\ ~killed /\ (cut \/ copied = written)

\* A command whose root exited or whose context is done returns, whoever still
\* holds its output.
CommandReturns == command = "waiting" /\ (root # "running" \/ done) ~> command = "returned"

\* A command comes back, and what comes back says what is left of its processes.
CommandsEndCleanly ==
    /\ []FailedTreeIsGone
    /\ []SuccessIsUntouched
    /\ CommandReturns
=============================================================================
