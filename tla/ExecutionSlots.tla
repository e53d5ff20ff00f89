--------------------------- MODULE ExecutionSlots ---------------------------
(***************************************************************************)
(* The execution policy and the slot semaphore of internal/engine/runner.go *)
(*                                                                         *)
(* A run (the goroutine of one build) reloads the durable policy, takes a  *)
(* slot that counts against the global limit and, for a local build,       *)
(* against the local limit, works, and gives the slot back.  A run that    *)
(* finds no capacity sleeps on policyWake, a Go channel of capacity one    *)
(* filled by a non-blocking send.  An administrator saves new settings     *)
(* and reloads the policy at any moment.  Every critical section of        *)
(* policyMu, every channel operation and every database statement is one   *)
(* step; what lies between two of them interleaves with everyone else.     *)
(***************************************************************************)
EXTENDS Naturals, FiniteSets

CONSTANTS
    Runs,       \* names for run goroutines; a name is reused once its run ended
    LocalRuns,  \* the runs whose build has no agent requirement
    Admins,     \* requests that save the global settings
    Policies,   \* the execution policies an administrator may save
    FirstPolicy \* the policy in force when the server starts

(***************************************************************************)
(* ConfigureExecutionPolicy refuses a limit below one.                     *)
(***************************************************************************)
ASSUME SlotAssumption ==
    /\ IsFiniteSet(Runs)
    /\ LocalRuns \subseteq Runs
    /\ Runs \cap Admins = {}
    /\ Policies \subseteq [builds : Nat \ {0}, local : Nat \ {0}]
    /\ FirstPolicy \in Policies

VARIABLES
    settings,          \* the durable policy (env_vars, scope "system")
    policy,            \* executionPolicy
    activeBuilds,
    activeLocalBuilds,
    policyWake,        \* TRUE when the channel holds its one token
    stopped,           \* the runs whose context is cancelled
    seen,              \* the settings a reload has read and not yet applied
    pc                 \* where each run and each administrator stands

slotVars == <<settings, policy, activeBuilds, activeLocalBuilds, policyWake, stopped, seen, pc>>

Clients == Runs \cup Admins

RunSteps == {"idle", "reload", "configure", "announce", "load", "acquire",
             "pass", "wait", "hold", "release", "wake", "leave"}

SlotTypeOK ==
    /\ settings \in Policies
    /\ policy \in Policies
    /\ activeBuilds \in Nat
    /\ activeLocalBuilds \in Nat
    /\ policyWake \in BOOLEAN
    /\ stopped \subseteq Runs
    /\ seen \in [Clients -> Policies]
    /\ pc \in [Clients -> RunSteps]
    /\ \A a \in Admins : pc[a] \in {"idle", "reload", "configure", "announce"}

SlotInit ==
    /\ settings = FirstPolicy
    /\ policy = FirstPolicy
    /\ activeBuilds = 0
    /\ activeLocalBuilds = 0
    /\ policyWake = FALSE
    /\ stopped = {}
    /\ seen = [c \in Clients |-> FirstPolicy]
    /\ pc = [c \in Clients |-> "idle"]

Goto(c, from, to) ==
    /\ pc[c] = from
    /\ pc' = [pc EXCEPT ![c] = to]

(***************************************************************************)
(* Operators on the state.                                                 *)
(***************************************************************************)
Holding == {"pass", "hold", "release"}
Holders == {r \in Runs : pc[r] \in Holding}
LocalHolders == Holders \cap LocalRuns
Registered == {r \in Runs : pc[r] # "idle"}

\* Mutant of SlotAvailable: an off-by-one in the local comparison.
SlotAvailableOffByOne(r) ==
    /\ activeBuilds < policy.builds
    /\ r \in LocalRuns => activeLocalBuilds <= policy.local

\* The condition a run evaluates under policyMu before it takes a slot.
SlotAvailable(r) ==
    /\ activeBuilds < policy.builds
    /\ r \in LocalRuns => activeLocalBuilds < policy.local

(***************************************************************************)
(* Policy reload, shared by updateGlobalSettings and the start of a run.   *)
(***************************************************************************)
SaveSettings(a) ==
    /\ a \in Admins
    /\ Goto(a, "idle", "reload")
    /\ settings' \in Policies
    /\ UNCHANGED <<policy, activeBuilds, activeLocalBuilds, policyWake, stopped, seen>>

ReadSettings(c) ==
    /\ Goto(c, "reload", "configure")
    /\ seen' = [seen EXCEPT ![c] = settings]
    /\ UNCHANGED <<settings, policy, activeBuilds, activeLocalBuilds, policyWake, stopped>>

\* The reload's local copy is dead afterwards; the model forgets it.
ConfigureExecutionPolicy(c) ==
    /\ Goto(c, "configure", "announce")
    /\ policy' = seen[c]
    /\ seen' = [seen EXCEPT ![c] = FirstPolicy]
    /\ UNCHANGED <<settings, activeBuilds, activeLocalBuilds, policyWake, stopped>>

AnnouncePolicy(c) ==
    /\ Goto(c, "announce", IF c \in Runs THEN "load" ELSE "idle")
    /\ policyWake' = TRUE
    /\ UNCHANGED <<settings, policy, activeBuilds, activeLocalBuilds, stopped, seen>>

(***************************************************************************)
(* One run, from Run(buildID) to the deletion of its entry in r.runs.      *)
(***************************************************************************)
Launch(r) ==
    /\ Goto(r, "idle", "reload")
    /\ UNCHANGED <<settings, policy, activeBuilds, activeLocalBuilds, policyWake, stopped, seen>>

\* Stop and Shutdown cancel the context of a registered run.
Stop(r) ==
    /\ r \in Registered \ stopped
    /\ stopped' = stopped \cup {r}
    /\ UNCHANGED <<settings, policy, activeBuilds, activeLocalBuilds, policyWake, seen, pc>>

\* run() asks for a slot, or returns before it does: the build is gone, held back
\* for approval or for a dependency, or its configuration does not load.
LoadBuild(r) ==
    /\ Goto(r, "load", "acquire") \/ Goto(r, "load", "leave")
    /\ UNCHANGED <<settings, policy, activeBuilds, activeLocalBuilds, policyWake, stopped, seen>>

\* Mutant of CapacityLeft: the re-send at the end of acquire is forgotten.
CapacityNeverLeft(r) == FALSE

\* Whether run r, having just taken its slot, wakes another sleeper.  A local run
\* does so only when a second local build would still fit.
CapacityLeft(r) ==
    /\ activeBuilds + 1 < policy.builds
    /\ r \in LocalRuns => activeLocalBuilds + 1 < policy.local

\* The successful critical section of acquireExecutionSlot.
TakeSlot(r) ==
    /\ SlotAvailable(r)
    /\ Goto(r, "acquire", IF CapacityLeft(r) THEN "pass" ELSE "hold")
    /\ activeBuilds' = activeBuilds + 1
    /\ activeLocalBuilds' = IF r \in LocalRuns THEN activeLocalBuilds + 1 ELSE activeLocalBuilds
    /\ UNCHANGED <<settings, policy, policyWake, stopped, seen>>

\* The failing critical section: the run goes to sleep in the select.
SleepOnWake(r) ==
    /\ ~SlotAvailable(r)
    /\ Goto(r, "acquire", "wait")
    /\ UNCHANGED <<settings, policy, activeBuilds, activeLocalBuilds, policyWake, stopped, seen>>

PassToken(r) ==
    /\ Goto(r, "pass", "hold")
    /\ policyWake' = TRUE
    /\ UNCHANGED <<settings, policy, activeBuilds, activeLocalBuilds, stopped, seen>>

\* The two cases of the select; Go picks either when both are ready.
WakeUp(r) ==
    /\ policyWake
    /\ Goto(r, "wait", "acquire")
    /\ policyWake' = FALSE
    /\ UNCHANGED <<settings, policy, activeBuilds, activeLocalBuilds, stopped, seen>>

GiveUp(r) ==
    /\ r \in stopped
    /\ Goto(r, "wait", "leave")
    /\ UNCHANGED <<settings, policy, activeBuilds, activeLocalBuilds, policyWake, stopped, seen>>

FinishWork(r) ==
    /\ Goto(r, "hold", "release")
    /\ UNCHANGED <<settings, policy, activeBuilds, activeLocalBuilds, policyWake, stopped, seen>>

\* Mutant of ReleaseSlot: every release gives back a local slot, unguarded.
ReleaseSlotAlwaysLocal(r) ==
    /\ Goto(r, "release", "wake")
    /\ activeBuilds' = activeBuilds - 1
    /\ activeLocalBuilds' = activeLocalBuilds - 1
    /\ UNCHANGED <<settings, policy, policyWake, stopped, seen>>

ReleaseSlot(r) ==
    /\ Goto(r, "release", "wake")
    /\ activeBuilds' = IF activeBuilds > 0 THEN activeBuilds - 1 ELSE activeBuilds
    /\ activeLocalBuilds' = IF r \in LocalRuns /\ activeLocalBuilds > 0
                            THEN activeLocalBuilds - 1 ELSE activeLocalBuilds
    /\ UNCHANGED <<settings, policy, policyWake, stopped, seen>>

SignalRelease(r) ==
    /\ Goto(r, "wake", "leave")
    /\ policyWake' = TRUE
    /\ UNCHANGED <<settings, policy, activeBuilds, activeLocalBuilds, stopped, seen>>

Deregister(r) ==
    /\ Goto(r, "leave", "idle")
    /\ stopped' = stopped \ {r}
    /\ UNCHANGED <<settings, policy, activeBuilds, activeLocalBuilds, policyWake, seen>>

PolicyStep(c) == ReadSettings(c) \/ ConfigureExecutionPolicy(c) \/ AnnouncePolicy(c)

SlotStep(r) ==
    \/ LoadBuild(r) \/ TakeSlot(r) \/ SleepOnWake(r) \/ PassToken(r)
    \/ WakeUp(r) \/ GiveUp(r)
    \/ FinishWork(r) \/ ReleaseSlot(r) \/ SignalRelease(r) \/ Deregister(r)

SlotNext ==
    \/ \E a \in Admins : SaveSettings(a)
    \/ \E c \in Clients : PolicyStep(c)
    \/ \E r \in Runs : Launch(r) \/ Stop(r) \/ SlotStep(r)

SlotSpec == SlotInit /\ [][SlotNext]_slotVars

(***************************************************************************)
(* Every goroutine keeps running (the Go scheduler is fair), but a build    *)
(* may work for ever: FinishWork has no fairness, and nobody is obliged to *)
(* launch or stop a run or to save settings.                               *)
(***************************************************************************)
SlotFairness ==
    /\ \A c \in Clients : WF_slotVars(PolicyStep(c))
    /\ \A r \in Runs : WF_slotVars(SlotStep(r) /\ pc[r] # "hold")

FairSlotSpec == SlotSpec /\ SlotFairness

-----------------------------------------------------------------------------
(***************************************************************************)
(* Properties                                                              *)
(***************************************************************************)

\* The two counters are the number of runs that own a slot and the number of
\* local ones among them, whatever the policy changes and cancellations did in
\* between: acquireExecutionSlot and releaseExecutionSlot pair up on every path,
\* and the "> 0" guards of the release never hide a missing acquire.
SlotAccounting ==
    /\ activeBuilds = Cardinality(Holders)
    /\ activeLocalBuilds = Cardinality(LocalHolders)

Pool == INSTANCE SlotPool WITH holders <- Holders, limit <- policy

\* The semaphore is a pool of slots: whatever tokens, counters and sleepers do, a run
\* enters its critical region only while the runs that really execute, not the
\* counters, leave room in the policy in force at that moment, and leaves it once;
\* a policy lowered meanwhile never stops what already runs.
ImplementsSlotPool == Pool!PoolSpec

\* A sleeping run that capacity exists for.
Starving(r) == pc[r] = "wait" /\ SlotAvailable(r)

\* Somebody is still going to send the wake-up token or to look at the capacity.
WakeUpUnderWay ==
    \/ policyWake
    \/ \E c \in Clients : pc[c] \in {"announce", "acquire", "pass", "wake"}

\* No wake-up is lost: while a run sleeps although capacity exists, a token is in
\* the channel or on its way.  This is what the re-send at the end of a
\* successful acquire is for.
NoLostWakeUp == (\E r \in Runs : Starving(r)) => WakeUpUnderWay

\* Capacity never stays idle next to a sleeping run: from any moment at which a
\* sleeper could run, a moment comes at which none could, although running builds
\* need not end.
CapacityIsUsed == (\E r \in Runs : Starving(r)) ~> ~(\E r \in Runs : Starving(r))
=============================================================================
