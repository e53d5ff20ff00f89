------------------------------ MODULE SlotPool ------------------------------
(***************************************************************************)
(* What the slot semaphore of internal/engine/runner.go promises: a pool of *)
(* slots with one limit on all builds and one on local builds.  A build     *)
(* takes a slot only while both limits leave room for it, gives it back     *)
(* once, and an administrator may set other limits at any moment; a lower   *)
(* limit takes no slot away.  Tokens, counters and waiting do not appear.   *)
(***************************************************************************)
EXTENDS Naturals, FiniteSets

CONSTANTS Runs, LocalRuns, Policies, FirstPolicy

VARIABLES
    holders,  \* the builds that own a slot
    limit     \* the limits in force

poolVars == <<holders, limit>>

PoolInit == holders = {} /\ limit = FirstPolicy

HasRoomFor(r) ==
    /\ Cardinality(holders) < limit.builds
    /\ r \in LocalRuns => Cardinality(holders \cap LocalRuns) < limit.local

Take(r) ==
    /\ r \notin holders
    /\ HasRoomFor(r)
    /\ holders' = holders \cup {r}
    /\ UNCHANGED limit

Give(r) ==
    /\ r \in holders
    /\ holders' = holders \ {r}
    /\ UNCHANGED limit

Configure(p) == limit' = p /\ UNCHANGED holders

PoolNext ==
    \/ \E r \in Runs : Take(r) \/ Give(r)
    \/ \E p \in Policies : Configure(p)

PoolSpec == PoolInit /\ [][PoolNext]_poolVars
=============================================================================
