--------------------------- MODULE BuildLifecycle ---------------------------
(***************************************************************************)
(* What the runner promises about the result of a build, without queues,   *)
(* contexts, scans and handlers.  A result has few writers: the creation   *)
(* of the row, the one run that claimed the build, a stop request while    *)
(* the build is active, and the recovery after a restart, which requeues   *)
(* what was running.  A run lets go of a build that is marked running only *)
(* with a result, or because the server goes down.                         *)
(***************************************************************************)
CONSTANT Builds

VARIABLES
    status, \* builds.status
    live,   \* the builds a run has claimed and may still write
    server  \* "up", "draining" or "down"

lifecycleVars == <<status, live, server>>

LifecycleInit ==
    /\ status = [b \in Builds |-> "absent"]
    /\ live = {}
    /\ server = "up"

Becomes(b, s) == status' = [status EXCEPT ![b] = s]

Create(b) ==
    /\ status[b] = "absent"
    /\ Becomes(b, "pending")
    /\ UNCHANGED <<live, server>>

\* A run whose configuration does not load fails its build whatever the row says by
\* then, even one that a launch from a stale list came too late for.
Claim(b) ==
    /\ status[b] # "absent"
    /\ b \notin live
    /\ live' = live \cup {b}
    /\ UNCHANGED <<status, server>>

Begin(b) ==
    /\ Becomes(b, "running")
    /\ UNCHANGED <<live, server>>

Finish(b, result) ==
    /\ Becomes(b, result)
    /\ live' = live \ {b}
    /\ UNCHANGED server

LetGo(b) ==
    /\ server = "up" => status[b] # "running"
    /\ live' = live \ {b}
    /\ UNCHANGED <<status, server>>

Stop(b) ==
    /\ status[b] \in {"pending", "running", "pending_approval"}
    /\ Becomes(b, "cancelled")
    /\ UNCHANGED <<live, server>>

Drain == server = "up" /\ server' = "draining" /\ UNCHANGED <<status, live>>

Die ==
    /\ server # "down"
    /\ server' = "down"
    /\ live' = {}
    /\ UNCHANGED status

Recover ==
    /\ server = "down"
    /\ server' = "up"
    /\ status' = [b \in Builds |-> IF status[b] = "running" THEN "pending" ELSE status[b]]
    /\ UNCHANGED live

\* Only a run that claimed a build begins it, ends it or lets go of it.
LifecycleNext ==
    \/ \E b \in Builds : Create(b) \/ Stop(b) \/ Claim(b)
    \/ \E b \in live : Begin(b) \/ LetGo(b) \/ \E result \in {"success", "failed", "cancelled"} : Finish(b, result)
    \/ Drain \/ Die \/ Recover

LifecycleSpec == LifecycleInit /\ [][LifecycleNext]_lifecycleVars
=============================================================================
