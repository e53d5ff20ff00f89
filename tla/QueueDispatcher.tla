--------------------------- MODULE QueueDispatcher ---------------------------
(***************************************************************************)
(* dispatchPending, the only caller of Run while the queue is started,     *)
(* composed with the runs and slots of ExecutionSlots.                     *)
(*                                                                         *)
(* One scan lists the pending builds, counts the registered runs, computes *)
(* from the slot counters how many builds it may still launch, and then    *)
(* walks the list.  Each of these reads is a step of its own: runs take    *)
(* slots, end and deregister in between, so every number the walk uses may *)
(* be stale.  A build is identified with the name of its run.              *)
(*                                                                         *)
(* Embedded callers may leave the queue unstarted: Enqueue then launches   *)
(* the build at once, and the slots alone bound what executes.             *)
(***************************************************************************)
EXTENDS ExecutionSlots, Integers

VARIABLES
    queueStarted,    \* queueCancel # nil
    pending,         \* the builds whose stored status is "pending"
    dispatch,        \* where the dispatcher stands in its scan
    todo,            \* listed builds the walk has still to look at
    inFlight,        \* len(r.runs) as the scan read it
    globalAvailable,
    localAvailable,
    resized          \* whether the settings were ever saved (nothing reads it)

scanVars == <<dispatch, todo, inFlight, globalAvailable, localAvailable>>
dispatchVars == <<slotVars, queueStarted, pending, scanVars, resized>>

DispatchTypeOK ==
    /\ SlotTypeOK
    /\ queueStarted \in BOOLEAN
    /\ resized \in BOOLEAN
    /\ pending \subseteq Runs
    /\ dispatch \in {"list", "count", "budget", "walk"}
    /\ todo \subseteq Runs
    /\ inFlight \in Nat
    /\ globalAvailable \in Int
    /\ localAvailable \in Int

DispatchInit ==
    /\ SlotInit
    /\ queueStarted \in BOOLEAN
    /\ resized = FALSE
    /\ pending = {}
    /\ dispatch = "list"
    /\ todo = {}
    /\ inFlight = 0
    /\ globalAvailable = 0
    /\ localAvailable = 0

\* A trigger or an approval hands over a build.  Run does nothing for a registered
\* one; without a dispatcher nobody reads which builds are pending.
Enqueue(r) ==
    /\ IF queueStarted
       THEN pending' = pending \cup {r} /\ UNCHANGED slotVars
       ELSE Launch(r) /\ UNCHANGED pending
    /\ UNCHANGED scanVars

ListPendingBuilds ==
    /\ dispatch = "list"
    /\ todo' = pending
    /\ dispatch' = "count"
    /\ UNCHANGED <<slotVars, pending, inFlight, globalAvailable, localAvailable>>

CountRuns ==
    /\ dispatch = "count"
    /\ inFlight' = Cardinality(Registered)
    /\ dispatch' = "budget"
    /\ UNCHANGED <<slotVars, pending, todo, globalAvailable, localAvailable>>

Larger(a, b) == IF a > b THEN a ELSE b

\* Mutant of Unacquired: registered runs without a slot are not reserved for.
UnacquiredIgnored == 0

\* Registered runs that hold no slot, as far as the scan can tell.
Unacquired == Larger(inFlight - activeBuilds, 0)

ComputeBudget ==
    /\ dispatch = "budget"
    /\ globalAvailable' = policy.builds - Larger(activeBuilds, inFlight)
    /\ localAvailable' = policy.local - activeLocalBuilds - Unacquired
    /\ dispatch' = "walk"
    /\ UNCHANGED <<slotVars, pending, todo, inFlight>>

\* Mutant of MayLaunch: the local budget is not consulted.
MayLaunchAnyKind(r) ==
    /\ globalAvailable > 0
    /\ r \notin Registered

MayLaunch(r) ==
    /\ globalAvailable > 0
    /\ r \notin Registered
    /\ r \in LocalRuns => localAvailable > 0

\* The walk leaves a build alone when the budget does not allow it, and also when
\* it waits for an approval or for a dependency.
SkipBuild(r) ==
    /\ dispatch = "walk"
    /\ r \in todo
    /\ todo' = todo \ {r}
    /\ UNCHANGED <<slotVars, pending, dispatch, inFlight, globalAvailable, localAvailable>>

LaunchBuild(r) ==
    /\ dispatch = "walk"
    /\ r \in todo
    /\ MayLaunch(r)
    /\ Launch(r)
    /\ todo' = todo \ {r}
    /\ globalAvailable' = globalAvailable - 1
    /\ localAvailable' = IF r \in LocalRuns THEN localAvailable - 1 ELSE localAvailable
    /\ UNCHANGED <<pending, dispatch, inFlight>>

\* The next tick of the two-second ticker, or the next WakeQueue.
EndScan ==
    /\ dispatch = "walk"
    /\ todo = {}
    /\ dispatch' = "list"
    /\ UNCHANGED <<slotVars, pending, todo, inFlight, globalAvailable, localAvailable>>

\* A run leaves its build pending (deferred, no worker, woken too early) or not.
RunStep(r) ==
    /\ SlotStep(r)
    /\ \/ UNCHANGED pending
       \/ r \in pending /\ pc[r] = "hold" /\ pending' = pending \ {r}
    /\ UNCHANGED scanVars

DispatchStep ==
    /\ queueStarted
    /\ \/ ListPendingBuilds \/ CountRuns \/ ComputeBudget \/ EndScan
       \/ \E r \in Runs : SkipBuild(r) \/ LaunchBuild(r)
    /\ UNCHANGED <<queueStarted, resized>>

ClientStep(c) ==
    /\ \/ /\ \/ c \in Runs /\ (Enqueue(c) \/ RunStep(c))
             \/ (PolicyStep(c) \/ (c \in Runs /\ Stop(c))) /\ UNCHANGED <<pending, scanVars>>
          /\ UNCHANGED resized
       \/ /\ SaveSettings(c)
          /\ resized' = TRUE
          /\ UNCHANGED <<pending, scanVars>>
    /\ UNCHANGED queueStarted

DispatchNext == DispatchStep \/ \E c \in Clients : ClientStep(c)

DispatchSpec == DispatchInit /\ [][DispatchNext]_dispatchVars

-----------------------------------------------------------------------------
\* While nobody changes the settings the dispatcher never launches more builds than
\* there are slots, of either kind, although it reads the run table and the counters
\* at different moments: "a second wake cannot over-dispatch the same queue".
NoOverDispatch ==
    queueStarted /\ ~resized =>
        /\ Cardinality(Registered) <= policy.builds
        /\ Cardinality(Registered \cap LocalRuns) <= policy.local

\* Hence a run it launches finds its slot free and never sleeps on policyWake, where
\* a local and a remote run could steal each other's wake-up.
NoRunWaits ==
    queueStarted /\ ~resized =>
        \A r \in Runs : pc[r] # "wait" /\ (pc[r] = "acquire" => SlotAvailable(r))
=============================================================================
