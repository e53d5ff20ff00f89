---------------------------- MODULE MCScheduling ----------------------------
(***************************************************************************)
(* Two small instances of QueueDispatcher in one run.  Without a dispatcher *)
(* three local builds are launched by anybody, while an administrator       *)
(* raises and lowers the local limit below the global one.  With one, two   *)
(* local and two remote builds are dispatched under limits nobody changes.  *)
(***************************************************************************)
EXTENDS QueueDispatcher

CONSTANTS l1, l2, l3, m1, admin

Narrow == [builds |-> 2, local |-> 1]
Wide == [builds |-> 3, local |-> 3]
SomePolicies == {Narrow, Wide}

\* Who acts.
Direct == {l1, l2, l3, admin}
Dispatched == {l1, l2, m1}

Next ==
    \/ DispatchStep
    \/ \E c \in IF queueStarted THEN Dispatched ELSE Direct : ClientStep(c)

\* SlotFairness without a dispatcher; dispatching promises safety only.
Fairness == \A c \in Direct :
    /\ WF_slotVars(~queueStarted /\ PolicyStep(c))
    /\ WF_slotVars(~queueStarted /\ c \in Runs /\ SlotStep(c) /\ pc[c] # "hold")

Spec == DispatchInit /\ [][Next]_dispatchVars /\ Fairness
=============================================================================
