------------------------------ MODULE MCApproval ------------------------------
(***************************************************************************)
(* Small instances of ApprovalFlow, two of them in one run; `part` says    *)
(* which a behaviour is of.  "resolved": two resolvers, records that       *)
(* cannot be written, and a server that stays up.  "disturbed": one        *)
(* resolver, and stop requests, crashes and shutdowns.                     *)
(***************************************************************************)
EXTENDS ApprovalFlow, TLC

CONSTANTS b1, b2, app, ann, bob

OneProject == {app}
OneBuild == {b1}
AllApp == [b \in Builds |-> app]
NoDownstream == [p \in Projects |-> NoProject]
OneResolver == {ann}
TwoResolvers == {ann, bob}

NoTimeouts == {"cancel", "crash", "shutdown"}
Nothing == {}

VARIABLE part

Disturbed == INSTANCE ApprovalFlow WITH
    Disturbances <- NoTimeouts, Resolvers <- OneResolver, RecordMayFail <- FALSE

partVars == <<flowVars, part>>

Init ==
    \/ part = "resolved" /\ ApprovalInit
    \/ part = "disturbed" /\ Disturbed!ApprovalInit

Next ==
    /\ UNCHANGED part
    /\ \/ part = "resolved" /\ ApprovalNext
       \/ part = "disturbed" /\ Disturbed!ApprovalNext

\* The fairness of FairApprovalSpec, in the part whose server stays up.
Fairness ==
    /\ WF_flowVars(/\ part = "resolved"
                   /\ \/ BuildStep /\ UNCHANGED approvalVars
                      \/ \E b \in Builds : HoldForApproval(b))
    /\ \A b \in Builds : WF_flowVars(part = "resolved" /\ RequestStep(b))
    /\ \A u \in Resolvers :
        /\ WF_flowVars(part = "resolved" /\ ResolveStep(u))
        /\ \A b \in Builds : WF_flowVars(part = "resolved" /\ \E v \in Verdicts : AuthorizeResolution(u, b, v))

Spec == Init /\ [][Next]_partVars /\ Fairness

\* One of the instances without fairness, for a run of its own.
ResolvedSpec == part = "resolved" /\ ApprovalInit /\ [][Next]_partVars

\* As long as the server stays up, every build that waits for an approval stops waiting.
ApprovalsEnd == part = "resolved" => HeldIsResolved
=============================================================================
