---------------------------- MODULE MCOperations ----------------------------
(***************************************************************************)
(* Small instances of the modules about running the installation and the   *)
(* services it deploys, in one run: `part` says which module a behaviour   *)
(* is of; the variables of the others stay as they are.                    *)
(***************************************************************************)
EXTENDS SystemUpdate, ReleaseCatalog, ServerControl, LogFollower, ServiceWatch, TLC

CONSTANTS c1, c2, c3

\* Up to three parts of four numbers, in any order and with repetitions.
SomeListings == UNION {[1..n -> 0..3] : n \in 0..3}
SomeManifests == {[parts |-> P, archive |-> a] : P \in SUBSET (0..2), a \in {<<>>, <<0, 1, 2>>}}

VARIABLE part

vars == <<updateVars, catalogVars, controlVars, followVars, watchVars, part>>

Init ==
    /\ part \in {"updates", "catalog", "server", "logs", "watches"}
    /\ UpdateInit /\ CatalogInit /\ ServerInit /\ FollowInit /\ WatchInit
    /\ part = "updates" \/ autostart = FALSE
    /\ part = "catalog" \/ (listing = <<>> /\ manifest = [parts |-> {}, archive |-> <<>>])
    /\ part = "server" \/ registered = FALSE
    /\ part = "logs" \/ path = NoLog

Next ==
    \/ part = "updates" /\ UpdateNext /\ UNCHANGED <<catalogVars, controlVars, followVars, watchVars, part>>
    \/ part = "catalog" /\ CatalogNext /\ UNCHANGED <<updateVars, controlVars, followVars, watchVars, part>>
    \/ part = "server" /\ ServerNext /\ UNCHANGED <<updateVars, catalogVars, followVars, watchVars, part>>
    \/ part = "logs" /\ FollowNext /\ UNCHANGED <<updateVars, catalogVars, controlVars, watchVars, part>>
    \/ part = "watches" /\ WatchNext /\ UNCHANGED <<updateVars, catalogVars, controlVars, followVars, part>>

\* The fairness of SystemUpdate and of LogFollower, each in its own part.
Fairness ==
    /\ WF_updateVars(part = "updates" /\ \E u \in DOMAIN update : Step(u))
    /\ WF_followVars(part = "logs" /\ (Attach \/ OpenLog \/ ReadLog))
    /\ WF_followVars(part = "logs" /\ PendingGetsStale)

Spec == Init /\ [][Next]_vars /\ Fairness
=============================================================================
