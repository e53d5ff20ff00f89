-------------------------- MODULE SchedulingProofs --------------------------
(***************************************************************************)
(* Proofs about the slot semaphore and the dispatcher, for every set of    *)
(* runs, every limits and every interleaving.                              *)
(***************************************************************************)
EXTENDS QueueDispatcher, FiniteSetTheorems, TLAPS

(***************************************************************************)
(* The slots.  The inductive invariant is the type invariant together with *)
(* SlotAccounting: the counters can only be trusted because each run takes *)
(* exactly one slot before it holds and returns exactly one when it stops  *)
(* holding.                                                                *)
(***************************************************************************)
\* A step keeps every variable in its type: in particular the guarded decrements of
\* releaseExecutionSlot keep both counters natural numbers.
LEMMA SlotTypeStep ==
  ASSUME SlotTypeOK, [SlotNext]_slotVars
  PROVE  SlotTypeOK'
<1> USE SlotAssumption DEF SlotTypeOK, Clients, RunSteps
<1>1. ASSUME NEW a \in Admins, SaveSettings(a)
      PROVE  SlotTypeOK'
  BY <1>1 DEF SaveSettings, Goto
<1>2. ASSUME NEW c \in Clients, PolicyStep(c)
      PROVE  SlotTypeOK'
  <2>1. CASE ReadSettings(c)
    BY <2>1 DEF ReadSettings, Goto
  <2>2. CASE ConfigureExecutionPolicy(c)
    BY <2>2 DEF ConfigureExecutionPolicy, Goto
  <2>3. CASE AnnouncePolicy(c)
    BY <2>3 DEF AnnouncePolicy, Goto
  <2>4. QED
    BY <1>2, <2>1, <2>2, <2>3 DEF PolicyStep
<1>3. ASSUME NEW r \in Runs, Launch(r) \/ Stop(r)
      PROVE  SlotTypeOK'
  BY <1>3 DEF Launch, Stop, Goto, Registered
<1>4. ASSUME NEW r \in Runs, SlotStep(r)
      PROVE  SlotTypeOK'
  <2>1. CASE LoadBuild(r) \/ SleepOnWake(r) \/ GiveUp(r) \/ FinishWork(r)
    BY <2>1 DEF LoadBuild, SleepOnWake, GiveUp, FinishWork, Goto
  <2>2. CASE TakeSlot(r)
    BY <2>2 DEF TakeSlot, Goto
  <2>3. CASE PassToken(r) \/ WakeUp(r) \/ SignalRelease(r) \/ Deregister(r)
    BY <2>3 DEF PassToken, WakeUp, SignalRelease, Deregister, Goto
  <2>4. CASE ReleaseSlot(r)
    BY <2>4 DEF ReleaseSlot, Goto
  <2>5. QED
    BY <1>4, <2>1, <2>2, <2>3, <2>4 DEF SlotStep
<1>5. CASE UNCHANGED slotVars
  BY <1>5 DEF slotVars
<1>6. QED
  BY <1>1, <1>2, <1>3, <1>4, <1>5 DEF SlotNext

\* Every reachable state is well typed.
THEOREM SlotTypeCorrect == SlotSpec => []SlotTypeOK
<1>1. SlotInit => SlotTypeOK
  <2> USE SlotAssumption DEF SlotTypeOK, Clients, RunSteps
  <2> SUFFICES ASSUME SlotInit PROVE SlotTypeOK
    OBVIOUS
  <2>1. policyWake \in BOOLEAN
    BY Zenon DEF SlotInit
  <2>2. QED
    BY <2>1 DEF SlotInit
<1>2. QED
  BY <1>1, SlotTypeStep, PTL DEF SlotSpec

-----------------------------------------------------------------------------
\* The sets of slot owners are finite.
LEMMA HoldersFinite == IsFiniteSet(Holders) /\ IsFiniteSet(LocalHolders)
  BY SlotAssumption, FS_Subset DEF Holders, LocalHolders

\* A client that moves between two steps on the same side of the critical region
\* leaves the sets of slot owners alone.
LEMMA MoveOutside ==
  ASSUME SlotTypeOK, NEW c \in Clients, NEW from, NEW to, Goto(c, from, to),
         (from \in Holding) <=> (to \in Holding)
  PROVE  Holders' = Holders /\ LocalHolders' = LocalHolders
<1>1. \A r \in Runs : pc'[r] \in Holding <=> pc[r] \in Holding
  BY DEF Goto, SlotTypeOK, Clients
<1>2. QED
  BY <1>1 DEF Holders, LocalHolders

\* Taking a slot adds one owner, and one local owner exactly for a local run.
LEMMA TakeSlotAddsOwner ==
  ASSUME SlotTypeOK, NEW r \in Runs, TakeSlot(r)
  PROVE  /\ r \notin Holders
         /\ Holders' = Holders \cup {r}
         /\ Cardinality(Holders') = Cardinality(Holders) + 1
         /\ LocalHolders' = IF r \in LocalRuns THEN LocalHolders \cup {r} ELSE LocalHolders
         /\ Cardinality(LocalHolders') =
              IF r \in LocalRuns THEN Cardinality(LocalHolders) + 1 ELSE Cardinality(LocalHolders)
<1>1. /\ pc[r] = "acquire"
      /\ pc'[r] \in {"pass", "hold"}
      /\ \A s \in Runs \ {r} : pc'[s] = pc[s]
  BY DEF TakeSlot, Goto, SlotTypeOK, Clients
<1>2. r \notin Holders /\ Holders' = Holders \cup {r}
  BY <1>1 DEF Holders, Holding
<1>3. LocalHolders' = IF r \in LocalRuns THEN LocalHolders \cup {r} ELSE LocalHolders
  BY <1>2 DEF LocalHolders
<1>4. Cardinality(Holders') = Cardinality(Holders) + 1
  BY <1>2, HoldersFinite, FS_AddElement
<1>5. r \notin LocalHolders
  BY <1>2 DEF LocalHolders
<1>6. Cardinality(LocalHolders') =
        IF r \in LocalRuns THEN Cardinality(LocalHolders) + 1 ELSE Cardinality(LocalHolders)
  BY <1>3, <1>5, HoldersFinite, FS_AddElement
<1>7. QED
  BY <1>2, <1>3, <1>4, <1>6

\* Releasing a slot removes one owner, and one local owner exactly for a local run.
LEMMA ReleaseSlotRemovesOwner ==
  ASSUME SlotTypeOK, NEW r \in Runs, ReleaseSlot(r)
  PROVE  /\ r \in Holders
         /\ Holders' = Holders \ {r}
         /\ Cardinality(Holders') = Cardinality(Holders) - 1
         /\ LocalHolders' = IF r \in LocalRuns THEN LocalHolders \ {r} ELSE LocalHolders
         /\ Cardinality(LocalHolders') =
              IF r \in LocalRuns THEN Cardinality(LocalHolders) - 1 ELSE Cardinality(LocalHolders)
<1>1. /\ pc[r] = "release"
      /\ pc'[r] = "wake"
      /\ \A s \in Runs \ {r} : pc'[s] = pc[s]
  BY DEF ReleaseSlot, Goto, SlotTypeOK, Clients
<1>2. r \in Holders /\ Holders' = Holders \ {r}
  BY <1>1 DEF Holders, Holding
<1>3. LocalHolders' = IF r \in LocalRuns THEN LocalHolders \ {r} ELSE LocalHolders
  BY <1>2 DEF LocalHolders
<1>4. Cardinality(Holders') = Cardinality(Holders) - 1
  BY <1>2, HoldersFinite, FS_RemoveElement
<1>5. r \in LocalRuns => r \in LocalHolders
  BY <1>2 DEF LocalHolders
<1>6. Cardinality(LocalHolders') =
        IF r \in LocalRuns THEN Cardinality(LocalHolders) - 1 ELSE Cardinality(LocalHolders)
  BY <1>3, <1>5, HoldersFinite, FS_RemoveElement
<1>7. QED
  BY <1>2, <1>3, <1>4, <1>6

\* No other step changes the owners or the counters.
LEMMA OtherStepsKeepOwners ==
  ASSUME SlotTypeOK, [SlotNext]_slotVars,
         \A r \in Runs : ~TakeSlot(r) /\ ~ReleaseSlot(r)
  PROVE  /\ Holders' = Holders
         /\ LocalHolders' = LocalHolders
         /\ UNCHANGED <<activeBuilds, activeLocalBuilds>>
<1> DEFINE Kept == /\ Holders' = Holders
                   /\ LocalHolders' = LocalHolders
                   /\ UNCHANGED <<activeBuilds, activeLocalBuilds>>
<1>1. ASSUME NEW a \in Admins, SaveSettings(a)
      PROVE  Kept
  BY <1>1, MoveOutside DEF SaveSettings, Holding, Clients
<1>2. ASSUME NEW c \in Clients, PolicyStep(c)
      PROVE  Kept
  <2>1. CASE ReadSettings(c)
    BY <2>1, MoveOutside DEF ReadSettings, Holding
  <2>2. CASE ConfigureExecutionPolicy(c)
    BY <2>2, MoveOutside DEF ConfigureExecutionPolicy, Holding
  <2>3. CASE AnnouncePolicy(c)
    BY <2>3, MoveOutside DEF AnnouncePolicy, Holding
  <2>4. QED
    BY <1>2, <2>1, <2>2, <2>3 DEF PolicyStep
<1>3. ASSUME NEW r \in Runs, Launch(r)
      PROVE  Kept
  BY <1>3, MoveOutside DEF Launch, Holding, Clients
<1>4. ASSUME NEW r \in Runs, Stop(r)
      PROVE  Kept
  BY <1>4 DEF Stop, Holders, LocalHolders
<1>5. ASSUME NEW r \in Runs, SlotStep(r)
      PROVE  Kept
  <2>1. PICK from, to : Goto(r, from, to) /\ ((from \in Holding) <=> (to \in Holding))
    BY <1>5 DEF SlotStep, LoadBuild, SleepOnWake, PassToken, WakeUp, GiveUp, FinishWork,
                SignalRelease, Deregister, Holding
  <2>2. Holders' = Holders /\ LocalHolders' = LocalHolders
    BY <2>1, MoveOutside DEF Clients
  <2>3. UNCHANGED <<activeBuilds, activeLocalBuilds>>
    BY <1>5 DEF SlotStep, LoadBuild, SleepOnWake, PassToken, WakeUp, GiveUp, FinishWork,
                SignalRelease, Deregister
  <2>4. QED
    BY <2>2, <2>3
<1>6. CASE UNCHANGED slotVars
  BY <1>6 DEF slotVars, Holders, LocalHolders
<1>7. QED
  BY <1>1, <1>2, <1>3, <1>4, <1>5, <1>6 DEF SlotNext

-----------------------------------------------------------------------------
\* The counters always are the number of runs that own a slot and the number of
\* local ones among them.
THEOREM SlotAccountingHolds == SlotSpec => []SlotAccounting
<1>1. SlotInit => SlotAccounting
  <2> SUFFICES ASSUME SlotInit PROVE SlotAccounting
    OBVIOUS
  <2>1. Holders = {} /\ LocalHolders = {}
    BY DEF SlotInit, Holders, LocalHolders, Holding, Clients
  <2>2. QED
    BY <2>1, FS_EmptySet DEF SlotInit, SlotAccounting
<1>2. SlotTypeOK /\ SlotAccounting /\ [SlotNext]_slotVars => SlotAccounting'
  <2> SUFFICES ASSUME SlotTypeOK, SlotAccounting, [SlotNext]_slotVars
               PROVE  SlotAccounting'
    OBVIOUS
  <2>1. ASSUME NEW r \in Runs, TakeSlot(r)
        PROVE  SlotAccounting'
    BY <2>1, TakeSlotAddsOwner DEF TakeSlot, SlotAccounting
  <2>2. ASSUME NEW r \in Runs, ReleaseSlot(r)
        PROVE  SlotAccounting'
    <3>1. r \in Holders /\ (r \in LocalRuns => r \in LocalHolders)
      BY <2>2, ReleaseSlotRemovesOwner DEF LocalHolders
    <3>2. Cardinality(Holders) \in Nat /\ Cardinality(LocalHolders) \in Nat
      BY HoldersFinite, FS_CardinalityType
    <3>3. Cardinality(Holders) > 0 /\ (r \in LocalRuns => Cardinality(LocalHolders) > 0)
      BY <3>1, <3>2, HoldersFinite, FS_EmptySet
    <3>4. QED
      BY <2>2, <3>3, ReleaseSlotRemovesOwner DEF ReleaseSlot, SlotAccounting
  <2>3. CASE \A r \in Runs : ~TakeSlot(r) /\ ~ReleaseSlot(r)
    BY <2>3, OtherStepsKeepOwners DEF SlotAccounting
  <2>4. QED
    BY <2>1, <2>2, <2>3
<1>3. QED
  BY <1>1, <1>2, SlotTypeCorrect, PTL DEF SlotSpec

-----------------------------------------------------------------------------
\* The semaphore implements the pool of slots: every step of a run or of an
\* administrator takes one slot within the limits in force, gives one back, sets
\* limits of Policies, or leaves owners and limits alone.
THEOREM ImplementsSlotPoolHolds == SlotSpec => ImplementsSlotPool
<1>1. SlotInit => Pool!PoolInit
  BY DEF SlotInit, Pool!PoolInit, Holders, Holding, Clients
<1>2. SlotTypeOK /\ SlotAccounting /\ [SlotNext]_slotVars => [Pool!PoolNext]_(Pool!poolVars)
  <2> SUFFICES ASSUME SlotTypeOK, SlotAccounting, [SlotNext]_slotVars
               PROVE  Pool!PoolNext \/ (Holders' = Holders /\ policy' = policy)
    BY DEF Pool!poolVars
  <2>1. ASSUME NEW r \in Runs, TakeSlot(r)
        PROVE  Pool!Take(r)
    <3>1. r \notin Holders /\ Holders' = Holders \cup {r}
      BY <2>1, TakeSlotAddsOwner
    <3>2. \A S : Pool!Cardinality(S) = Cardinality(S)
      BY DEF Cardinality, Pool!Cardinality
    <3>3. Pool!HasRoomFor(r)
      BY <2>1, <3>2 DEF TakeSlot, SlotAvailable, SlotAccounting, LocalHolders, Pool!HasRoomFor
    <3>4. QED
      BY <2>1, <3>1, <3>3 DEF Pool!Take, TakeSlot
  <2>2. ASSUME NEW r \in Runs, ReleaseSlot(r)
        PROVE  Pool!Give(r)
    BY <2>2, ReleaseSlotRemovesOwner DEF Pool!Give, ReleaseSlot
  <2>3. CASE \A r \in Runs : ~TakeSlot(r) /\ ~ReleaseSlot(r)
    <3>1. Holders' = Holders
      BY <2>3, OtherStepsKeepOwners
    <3>2. policy' \in Policies
      BY SlotTypeStep DEF SlotTypeOK
    <3>3. QED
      BY <3>1, <3>2 DEF Pool!PoolNext, Pool!Configure
  <2>4. QED
    BY <2>1, <2>2, <2>3 DEF Pool!PoolNext
<1>3. QED
  BY <1>1, <1>2, SlotTypeCorrect, SlotAccountingHolds, PTL
  DEF SlotSpec, ImplementsSlotPool, Pool!PoolSpec

-----------------------------------------------------------------------------
\* When every build is local, a wake-up never gets lost: whoever makes room or takes
\* the last token is still going to send one or to look again, unless the room is
\* gone.  With both kinds of builds it would be false, a local run that fills the
\* local limit swallows the token of a remote one; NoRunWaits says why that does not
\* matter under the dispatcher.
THEOREM NoLostWakeUpHolds == (LocalRuns = Runs) => (SlotSpec => []NoLostWakeUp)
<1> SUFFICES ASSUME LocalRuns = Runs PROVE SlotSpec => []NoLostWakeUp
  OBVIOUS
<1> USE DEF NoLostWakeUp, Starving, WakeUpUnderWay
<1>1. SlotInit => NoLostWakeUp
  BY DEF SlotInit, Clients
<1>2. SlotTypeOK /\ NoLostWakeUp /\ [SlotNext]_slotVars => NoLostWakeUp'
  <2> SUFFICES ASSUME SlotTypeOK, NoLostWakeUp, [SlotNext]_slotVars,
                      NEW s \in Runs, Starving(s)'
               PROVE  WakeUpUnderWay'
    OBVIOUS
  <2> USE DEF SlotTypeOK, SlotAvailable, Goto, Clients
  <2>1. ASSUME NEW a \in Admins, SaveSettings(a)
        PROVE  WakeUpUnderWay'
    BY <2>1 DEF SaveSettings
  <2>2. ASSUME NEW c \in Clients, PolicyStep(c)
        PROVE  WakeUpUnderWay'
    BY <2>2 DEF PolicyStep, ReadSettings, ConfigureExecutionPolicy, AnnouncePolicy
  <2>3. ASSUME NEW r \in Runs, Launch(r) \/ Stop(r)
        PROVE  WakeUpUnderWay'
    BY <2>3 DEF Launch, Stop
  <2>4. ASSUME NEW r \in Runs, TakeSlot(r)
        PROVE  WakeUpUnderWay'
    BY <2>4, SlotAssumption DEF TakeSlot, CapacityLeft
  <2>5. ASSUME NEW r \in Runs, SlotStep(r), ~TakeSlot(r)
        PROVE  WakeUpUnderWay'
    <3>1. CASE SleepOnWake(r)
      BY <3>1 DEF SleepOnWake
    <3>2. CASE PassToken(r) \/ SignalRelease(r) \/ ReleaseSlot(r) \/ WakeUp(r)
      BY <3>2 DEF PassToken, SignalRelease, ReleaseSlot, WakeUp
    <3>3. CASE LoadBuild(r) \/ GiveUp(r) \/ FinishWork(r) \/ Deregister(r)
      BY <3>3 DEF LoadBuild, GiveUp, FinishWork, Deregister
    <3>4. QED
      BY <2>5, <3>1, <3>2, <3>3 DEF SlotStep
  <2>6. CASE UNCHANGED slotVars
    BY <2>6 DEF slotVars
  <2>7. QED
    BY <2>1, <2>2, <2>3, <2>4, <2>5, <2>6 DEF SlotNext
<1>3. QED
  BY <1>1, <1>2, SlotTypeCorrect, PTL DEF SlotSpec

-----------------------------------------------------------------------------
(***************************************************************************)
(* The dispatcher.  It refines the slots, so what is proved of them holds  *)
(* under it.  The inductive invariant relates each number a scan remembers *)
(* with the run table as it is now: the count may only be too large, and   *)
(* what is left of either budget, added to the runs that are registered by *)
(* now, never exceeds the limit.                                           *)
(***************************************************************************)
\* A scan, a launch or a hand-over changes the slots as one step of ExecutionSlots.
LEMMA DispatchRefinesSlots == DispatchSpec => SlotSpec
<1>1. DispatchInit => SlotInit
  BY DEF DispatchInit
<1>2. [DispatchNext]_dispatchVars => [SlotNext]_slotVars
  <2> SUFFICES ASSUME DispatchNext PROVE SlotNext \/ UNCHANGED slotVars
    BY DEF dispatchVars
  <2>1. CASE DispatchStep
    BY <2>1 DEF DispatchStep, ListPendingBuilds, CountRuns, ComputeBudget, EndScan, SkipBuild,
                LaunchBuild, SlotNext
  <2>2. ASSUME NEW c \in Clients, ClientStep(c)
        PROVE  SlotNext \/ UNCHANGED slotVars
    <3>1. CASE c \in Runs /\ (Enqueue(c) \/ RunStep(c) \/ Stop(c))
      BY <3>1 DEF Enqueue, RunStep, SlotNext
    <3>2. CASE PolicyStep(c) \/ SaveSettings(c)
      BY <3>2 DEF SaveSettings, SlotNext
    <3>3. QED
      BY <2>2, <3>1, <3>2 DEF ClientStep
  <2>3. QED
    BY <2>1, <2>2 DEF DispatchNext
<1>3. QED
  BY <1>1, <1>2, PTL DEF DispatchSpec, SlotSpec

\* Every reachable state is well typed.
THEOREM DispatchTypeCorrect == DispatchSpec => []DispatchTypeOK
<1>1. DispatchInit /\ SlotTypeOK => DispatchTypeOK
  <2> SUFFICES ASSUME DispatchInit, SlotTypeOK PROVE DispatchTypeOK
    OBVIOUS
  <2>1. queueStarted \in BOOLEAN /\ resized \in BOOLEAN
    BY Zenon DEF DispatchInit
  <2>2. QED
    BY <2>1 DEF DispatchInit, DispatchTypeOK
<1>2. SlotTypeOK /\ SlotTypeOK' /\ DispatchTypeOK /\ [DispatchNext]_dispatchVars => DispatchTypeOK'
  <2> SUFFICES ASSUME SlotTypeOK, SlotTypeOK', DispatchTypeOK, [DispatchNext]_dispatchVars
               PROVE  DispatchTypeOK'
    OBVIOUS
  <2> USE DEF DispatchTypeOK
  <2>1. CASE DispatchStep
    <3>1. Cardinality(Registered) \in Nat
      BY SlotAssumption, FS_Subset, FS_CardinalityType DEF Registered
    <3>2. CASE ListPendingBuilds \/ CountRuns \/ EndScan \/ \E r \in Runs : SkipBuild(r)
      BY <2>1, <3>1, <3>2 DEF DispatchStep, ListPendingBuilds, CountRuns, EndScan, SkipBuild
    <3>3. CASE ComputeBudget
      BY <2>1, <3>3, SlotAssumption
      DEF DispatchStep, ComputeBudget, Unacquired, Larger, SlotTypeOK
    <3>4. CASE \E r \in Runs : LaunchBuild(r)
      BY <2>1, <3>4 DEF DispatchStep, LaunchBuild
    <3>5. QED
      BY <2>1, <3>2, <3>3, <3>4 DEF DispatchStep
  <2>2. ASSUME NEW c \in Clients, ClientStep(c)
        PROVE  DispatchTypeOK'
    BY <2>2 DEF ClientStep, Enqueue, RunStep, scanVars
  <2>3. CASE UNCHANGED dispatchVars
    BY <2>3 DEF dispatchVars, scanVars
  <2>4. QED
    BY <2>1, <2>2, <2>3 DEF DispatchNext
<1>3. QED
  BY <1>1, <1>2, DispatchRefinesSlots, SlotTypeCorrect, PTL DEF DispatchSpec

-----------------------------------------------------------------------------
RegisteredLocal == Registered \cap LocalRuns

\* Nobody ever saved other settings, hence no reload brings any.
FirstPolicyRules ==
    ~resized => /\ settings = FirstPolicy
                /\ policy = FirstPolicy
                /\ seen = [c \in Clients |-> FirstPolicy]

\* What the scan remembers against the run table as it is now.
BudgetsAreSafe ==
    queueStarted /\ ~resized =>
        /\ dispatch = "budget" => Cardinality(Registered) <= inFlight
        /\ dispatch = "walk" =>
              /\ Cardinality(Registered) + globalAvailable <= policy.builds
              /\ Cardinality(RegisteredLocal) + localAvailable <= policy.local

\* While nobody saved settings, no step does anything to the policy.
LEMMA FirstPolicyStep ==
  ASSUME DispatchTypeOK, FirstPolicyRules, [DispatchNext]_dispatchVars
  PROVE  FirstPolicyRules' /\ (~resized' => ~resized /\ policy' = policy)
<1> USE DEF FirstPolicyRules
<1>1. CASE DispatchStep
  BY <1>1 DEF DispatchStep, ListPendingBuilds, CountRuns, ComputeBudget, EndScan, SkipBuild,
              LaunchBuild, Launch, slotVars
<1>2. ASSUME NEW c \in Clients, ClientStep(c)
      PROVE  FirstPolicyRules' /\ (~resized' => ~resized /\ policy' = policy)
  <2>1. CASE SaveSettings(c) /\ resized' = TRUE
    BY <2>1
  <2>2. CASE c \in Runs /\ (Enqueue(c) \/ Stop(c)) /\ UNCHANGED resized
    BY <2>2 DEF Enqueue, Launch, Stop, slotVars
  <2>3. CASE PolicyStep(c) /\ UNCHANGED resized
    BY <2>3 DEF PolicyStep, ReadSettings, ConfigureExecutionPolicy, AnnouncePolicy, Clients
  <2>4. CASE c \in Runs /\ RunStep(c) /\ UNCHANGED resized
    BY <2>4 DEF RunStep, SlotStep, LoadBuild, TakeSlot, SleepOnWake, PassToken, WakeUp, GiveUp,
                FinishWork, ReleaseSlot, SignalRelease, Deregister
  <2>5. QED
    BY <1>2, <2>1, <2>2, <2>3, <2>4 DEF ClientStep
<1>3. CASE UNCHANGED dispatchVars
  BY <1>3 DEF dispatchVars, slotVars
<1>4. QED
  BY <1>1, <1>2, <1>3 DEF DispatchNext

\* Under the dispatcher, only LaunchBuild adds a run to the table.
LEMMA OnlyLaunchRegisters ==
  ASSUME DispatchTypeOK, queueStarted, [DispatchNext]_dispatchVars,
         \A r \in Runs : ~LaunchBuild(r)
  PROVE  Registered' \subseteq Registered
<1> USE DEF Registered, DispatchTypeOK, SlotTypeOK
<1>1. CASE DispatchStep
  BY <1>1 DEF DispatchStep, ListPendingBuilds, CountRuns, ComputeBudget, EndScan, SkipBuild,
              slotVars
<1>2. ASSUME NEW c \in Clients, ClientStep(c)
      PROVE  Registered' \subseteq Registered
  <2>1. CASE (c \in Runs /\ (Enqueue(c) \/ Stop(c)))
    BY <2>1 DEF Enqueue, Stop, slotVars
  <2>2. CASE PolicyStep(c) \/ SaveSettings(c)
    BY <2>2, SlotAssumption
    DEF PolicyStep, ReadSettings, ConfigureExecutionPolicy, AnnouncePolicy, SaveSettings, Goto, Clients
  <2>3. CASE c \in Runs /\ RunStep(c)
    <3>1. PICK from, to : Goto(c, from, to) /\ from # "idle"
      BY <2>3 DEF RunStep, SlotStep, LoadBuild, TakeSlot, SleepOnWake, PassToken, WakeUp, GiveUp,
                  FinishWork, ReleaseSlot, SignalRelease, Deregister
    <3>2. QED
      BY <2>3, <3>1 DEF Goto
  <2>4. QED
    BY <1>2, <2>1, <2>2, <2>3 DEF ClientStep
<1>3. CASE UNCHANGED dispatchVars
  BY <1>3 DEF dispatchVars, slotVars
<1>4. QED
  BY <1>1, <1>2, <1>3 DEF DispatchNext

\* A launch adds one run to the table, and one local run exactly for a local build.
LEMMA LaunchRegisters ==
  ASSUME DispatchTypeOK, NEW r \in Runs, LaunchBuild(r)
  PROVE  /\ Cardinality(Registered') = Cardinality(Registered) + 1
         /\ Cardinality(RegisteredLocal') =
              IF r \in LocalRuns THEN Cardinality(RegisteredLocal) + 1 ELSE Cardinality(RegisteredLocal)
<1>1. r \notin Registered /\ Registered' = Registered \cup {r}
  BY DEF LaunchBuild, Launch, Goto, Registered, DispatchTypeOK, SlotTypeOK, Clients
<1>2. IsFiniteSet(Registered) /\ IsFiniteSet(RegisteredLocal)
  BY SlotAssumption, FS_Subset DEF Registered, RegisteredLocal
<1>3. /\ r \notin RegisteredLocal
      /\ RegisteredLocal' = IF r \in LocalRuns THEN RegisteredLocal \cup {r} ELSE RegisteredLocal
  BY <1>1 DEF RegisteredLocal
<1>4. QED
  BY <1>1, <1>2, <1>3, FS_AddElement

\* Runs without a slot are what the scan counts as unacquired, so the local runs are
\* at most those with a slot and all without one.
LEMMA LocalRunsAreCounted ==
  ASSUME DispatchTypeOK, SlotAccounting
  PROVE  /\ activeBuilds <= Cardinality(Registered)
         /\ Cardinality(RegisteredLocal) <=
              activeLocalBuilds + (Cardinality(Registered) - activeBuilds)
<1>1. /\ IsFiniteSet(Registered) /\ IsFiniteSet(RegisteredLocal)
      /\ IsFiniteSet(Holders) /\ IsFiniteSet(LocalHolders)
      /\ IsFiniteSet(Registered \ Holders)
  BY SlotAssumption, FS_Subset DEF Registered, RegisteredLocal, Holders, LocalHolders
<1>2. Holders \subseteq Registered
  BY DEF Holders, Registered, Holding
<1>3. Cardinality(Registered \ Holders) = Cardinality(Registered) - Cardinality(Registered \cap Holders)
  BY <1>1, FS_Difference
<1>4. Registered \cap Holders = Holders
  BY <1>2
<1>5. RegisteredLocal \subseteq LocalHolders \cup (Registered \ Holders)
  BY DEF RegisteredLocal, LocalHolders
<1>6. LocalHolders \cap (Registered \ Holders) = {}
  BY DEF LocalHolders
<1>7. /\ IsFiniteSet(LocalHolders \cup (Registered \ Holders))
      /\ Cardinality(LocalHolders \cup (Registered \ Holders)) =
           Cardinality(LocalHolders) + Cardinality(Registered \ Holders)
  <2>1. Cardinality(LocalHolders \cap (Registered \ Holders)) = 0
    BY <1>6, FS_EmptySet
  <2>2. Cardinality(LocalHolders) \in Nat /\ Cardinality(Registered \ Holders) \in Nat
    BY <1>1, FS_CardinalityType
  <2>3. /\ IsFiniteSet(LocalHolders \cup (Registered \ Holders))
        /\ Cardinality(LocalHolders \cup (Registered \ Holders)) =
             Cardinality(LocalHolders) + Cardinality(Registered \ Holders) - 0
    BY <1>1, <2>1, FS_Union, Zenon
  <2>4. QED
    BY <2>2, <2>3
<1>8. Cardinality(RegisteredLocal) <= Cardinality(LocalHolders \cup (Registered \ Holders))
  BY <1>5, <1>7, FS_Subset
<1>9. Cardinality(Holders) <= Cardinality(Registered)
  BY <1>1, <1>2, FS_Subset
<1>10. QED
  BY <1>3, <1>4, <1>7, <1>8, <1>9 DEF SlotAccounting

-----------------------------------------------------------------------------
DispatchInv == FirstPolicyRules /\ BudgetsAreSafe /\ NoOverDispatch

LEMMA DispatchInvStep ==
  ASSUME DispatchTypeOK, SlotAccounting, DispatchInv, [DispatchNext]_dispatchVars
  PROVE  DispatchInv'
<1>1. FirstPolicyRules' /\ (~resized' => ~resized /\ policy' = policy)
  BY FirstPolicyStep DEF DispatchInv
<1>2. queueStarted' = queueStarted
  BY DEF DispatchNext, DispatchStep, ClientStep, dispatchVars
<1>3. SUFFICES ASSUME queueStarted, ~resized, ~resized', policy' = policy
               PROVE  BudgetsAreSafe' /\ NoOverDispatch'
  BY <1>1, <1>2 DEF DispatchInv, BudgetsAreSafe, NoOverDispatch
<1>4. /\ policy.builds \in Nat /\ policy.local \in Nat
      /\ Cardinality(Registered) <= policy.builds
      /\ Cardinality(RegisteredLocal) <= policy.local
  BY <1>3, SlotAssumption DEF DispatchInv, NoOverDispatch, RegisteredLocal, DispatchTypeOK, SlotTypeOK
<1>5. /\ Cardinality(Registered) \in Nat /\ Cardinality(Registered') \in Nat
      /\ Cardinality(RegisteredLocal) \in Nat /\ Cardinality(RegisteredLocal') \in Nat
      /\ IsFiniteSet(Registered) /\ IsFiniteSet(RegisteredLocal)
  BY SlotAssumption, FS_Subset, FS_CardinalityType DEF Registered, RegisteredLocal
<1> USE DEF DispatchTypeOK, BudgetsAreSafe, NoOverDispatch
<1>6. CASE \E r \in Runs : LaunchBuild(r)
  <2>1. PICK r \in Runs : LaunchBuild(r)
    BY <1>6
  <2>2. /\ Cardinality(Registered') = Cardinality(Registered) + 1
        /\ Cardinality(RegisteredLocal') =
             IF r \in LocalRuns THEN Cardinality(RegisteredLocal) + 1 ELSE Cardinality(RegisteredLocal)
    BY <2>1, LaunchRegisters
  <2>3. /\ dispatch = "walk" /\ dispatch' = "walk"
        /\ globalAvailable > 0 /\ (r \in LocalRuns => localAvailable > 0)
        /\ globalAvailable' = globalAvailable - 1
        /\ localAvailable' = IF r \in LocalRuns THEN localAvailable - 1 ELSE localAvailable
    BY <2>1 DEF LaunchBuild, MayLaunch
  <2>4. /\ Cardinality(Registered) + globalAvailable <= policy.builds
        /\ Cardinality(RegisteredLocal) + localAvailable <= policy.local
    BY <1>3, <2>3 DEF DispatchInv
  <2>5. QED
    BY <1>3, <1>4, <1>5, <2>2, <2>3, <2>4 DEF RegisteredLocal
<1>7. CASE \A r \in Runs : ~LaunchBuild(r)
  <2>1. Registered' \subseteq Registered /\ RegisteredLocal' \subseteq RegisteredLocal
    BY <1>3, <1>7, OnlyLaunchRegisters DEF RegisteredLocal
  <2>2. /\ Cardinality(Registered') <= Cardinality(Registered)
        /\ Cardinality(RegisteredLocal') <= Cardinality(RegisteredLocal)
    BY <1>5, <2>1, FS_Subset
  <2>3. NoOverDispatch'
    BY <1>3, <1>4, <1>5, <2>2 DEF RegisteredLocal
  <2>4. CASE CountRuns
    BY <1>3, <1>5, <2>2, <2>3, <2>4 DEF CountRuns
  <2>5. CASE ComputeBudget
    <3>1. Cardinality(Registered) <= inFlight
      BY <1>3, <2>5 DEF DispatchInv, ComputeBudget
    <3>2. /\ activeBuilds <= Cardinality(Registered)
          /\ Cardinality(RegisteredLocal) <=
               activeLocalBuilds + (Cardinality(Registered) - activeBuilds)
      BY LocalRunsAreCounted
    <3>3. /\ activeBuilds \in Nat /\ activeLocalBuilds \in Nat /\ inFlight \in Nat
      BY DEF SlotTypeOK
    <3>4. /\ globalAvailable' = policy.builds - Larger(activeBuilds, inFlight)
          /\ localAvailable' = policy.local - activeLocalBuilds - Larger(inFlight - activeBuilds, 0)
          /\ dispatch' = "walk"
      BY <2>5 DEF ComputeBudget, Unacquired
    <3>5. /\ Cardinality(Registered') + globalAvailable' <= policy.builds
          /\ Cardinality(RegisteredLocal') + localAvailable' <= policy.local
      BY <1>4, <1>5, <2>2, <3>1, <3>2, <3>3, <3>4 DEF Larger
    <3>6. QED
      BY <1>3, <2>3, <3>4, <3>5
  <2>6. CASE ~CountRuns /\ ~ComputeBudget
    <3>1. /\ dispatch' \in {"budget", "walk"} => dispatch' = dispatch
          /\ UNCHANGED <<inFlight, globalAvailable, localAvailable>>
      BY <1>7, <2>6 DEF DispatchNext, DispatchStep, ListPendingBuilds, EndScan, SkipBuild,
                        ClientStep, Enqueue, RunStep, scanVars, dispatchVars
    <3>2. QED
      BY <1>3, <1>4, <1>5, <2>2, <2>3, <3>1 DEF DispatchInv
  <2>7. QED
    BY <2>4, <2>5, <2>6
<1>8. QED
  BY <1>6, <1>7

\* While nobody changes the settings the dispatcher never launches more builds than
\* there are slots, of either kind, for any limits and any number of builds.
THEOREM NoOverDispatchHolds == DispatchSpec => []NoOverDispatch
<1>1. DispatchInit => DispatchInv
  <2> SUFFICES ASSUME DispatchInit PROVE DispatchInv
    OBVIOUS
  <2>1. Registered = {} /\ Registered \cap LocalRuns = {}
    BY DEF DispatchInit, SlotInit, Registered, Clients
  <2>2. policy.builds \in Nat /\ policy.local \in Nat
    BY SlotAssumption DEF DispatchInit, SlotInit
  <2>3. QED
    BY <2>1, <2>2, FS_EmptySet
    DEF DispatchInit, SlotInit, DispatchInv, FirstPolicyRules, BudgetsAreSafe, NoOverDispatch
<1>2. DispatchSpec => []DispatchInv
  BY <1>1, DispatchInvStep, DispatchTypeCorrect, DispatchRefinesSlots, SlotAccountingHolds, PTL
  DEF DispatchSpec
<1>3. DispatchInv => NoOverDispatch
  BY DEF DispatchInv
<1>4. QED
  BY <1>2, <1>3, PTL

\* A run that the dispatcher launched finds its slot free: whoever still has no slot
\* is one of the registered runs, and all of them fit.
LEMMA LaunchedRunsFit ==
  ASSUME DispatchTypeOK, SlotAccounting, NoOverDispatch, queueStarted, ~resized,
         NEW r \in Runs, pc[r] \in {"acquire", "wait"}
  PROVE  SlotAvailable(r)
<1>1. /\ IsFiniteSet(Registered) /\ IsFiniteSet(RegisteredLocal)
      /\ Holders \subseteq Registered \ {r}
      /\ LocalHolders \subseteq RegisteredLocal \ {r}
      /\ r \in Registered
      /\ r \in LocalRuns => r \in RegisteredLocal
  BY SlotAssumption, FS_Subset
  DEF Registered, RegisteredLocal, Holders, LocalHolders, Holding
<1>2. /\ Cardinality(Holders) <= Cardinality(Registered \ {r})
      /\ Cardinality(LocalHolders) <= Cardinality(RegisteredLocal \ {r})
  BY <1>1, FS_Subset
<1>3. /\ Cardinality(Registered \ {r}) = Cardinality(Registered) - 1
      /\ r \in LocalRuns => Cardinality(RegisteredLocal \ {r}) = Cardinality(RegisteredLocal) - 1
  BY <1>1, FS_RemoveElement
<1>4. /\ Cardinality(Registered) <= policy.builds
      /\ Cardinality(RegisteredLocal) <= policy.local
  BY DEF NoOverDispatch, RegisteredLocal
<1>5. /\ policy.builds \in Nat /\ policy.local \in Nat
      /\ Cardinality(Registered) \in Nat /\ Cardinality(RegisteredLocal) \in Nat
      /\ Cardinality(Holders) \in Nat /\ Cardinality(LocalHolders) \in Nat
  BY <1>1, SlotAssumption, FS_Subset, FS_CardinalityType DEF DispatchTypeOK, SlotTypeOK
<1>6. QED
  BY <1>2, <1>3, <1>4, <1>5 DEF SlotAvailable, SlotAccounting

\* Hence no run of the dispatcher ever sleeps on policyWake.
THEOREM NoRunWaitsHolds == DispatchSpec => []NoRunWaits
<1> DEFINE Nobody == queueStarted /\ ~resized => \A r \in Runs : pc[r] # "wait"
<1>1. DispatchInit => Nobody
  BY DEF DispatchInit, SlotInit, Clients
<1>2. /\ DispatchTypeOK /\ SlotAccounting /\ NoOverDispatch /\ Nobody
      /\ [DispatchNext]_dispatchVars
      => Nobody'
  <2> SUFFICES ASSUME DispatchTypeOK, SlotAccounting, NoOverDispatch, Nobody,
                      [DispatchNext]_dispatchVars, queueStarted', ~resized',
                      NEW s \in Runs
               PROVE  pc'[s] # "wait"
    OBVIOUS
  <2>1. queueStarted /\ ~resized
    <3>1. queueStarted' = queueStarted /\ (resized' = resized \/ resized' = TRUE)
      BY DEF DispatchNext, DispatchStep, ClientStep, dispatchVars
    <3>2. QED
      BY <3>1 DEF DispatchTypeOK
  <2>2. pc[s] # "wait"
    BY <2>1
  <2> USE DEF DispatchTypeOK, SlotTypeOK, Clients
  <2>3. CASE DispatchStep
    BY <2>2, <2>3 DEF DispatchStep, ListPendingBuilds, CountRuns, ComputeBudget, EndScan, SkipBuild,
                      LaunchBuild, Launch, Goto, slotVars
  <2>4. ASSUME NEW c \in Clients, ClientStep(c)
        PROVE  pc'[s] # "wait"
    <3>1. CASE c \in Runs /\ (Enqueue(c) \/ Stop(c))
      BY <2>2, <3>1 DEF Enqueue, Launch, Stop, Goto, slotVars
    <3>2. CASE PolicyStep(c) \/ SaveSettings(c)
      BY <2>2, <3>2
      DEF PolicyStep, ReadSettings, ConfigureExecutionPolicy, AnnouncePolicy, SaveSettings, Goto
    <3>3. CASE c \in Runs /\ RunStep(c)
      <4>1. ~SleepOnWake(c)
        BY <2>1, <3>3, LaunchedRunsFit DEF SleepOnWake, Goto
      <4>2. PICK from, to : Goto(c, from, to) /\ to # "wait"
        BY <3>3, <4>1 DEF RunStep, SlotStep, LoadBuild, TakeSlot, PassToken, WakeUp, GiveUp,
                          FinishWork, ReleaseSlot, SignalRelease, Deregister
      <4>3. QED
        BY <2>2, <4>2 DEF Goto
    <3>4. QED
      BY <2>4, <3>1, <3>2, <3>3 DEF ClientStep
  <2>5. CASE UNCHANGED dispatchVars
    BY <2>2, <2>5 DEF dispatchVars, slotVars
  <2>6. QED
    BY <2>3, <2>4, <2>5 DEF DispatchNext
<1>3. DispatchTypeOK /\ SlotAccounting /\ NoOverDispatch /\ Nobody => NoRunWaits
  BY LaunchedRunsFit DEF NoRunWaits
<1>4. QED
  BY <1>1, <1>2, <1>3, DispatchTypeCorrect, NoOverDispatchHolds, DispatchRefinesSlots,
     SlotAccountingHolds, PTL
  DEF DispatchSpec
=============================================================================
