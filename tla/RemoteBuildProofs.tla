-------------------------- MODULE RemoteBuildProofs --------------------------
(***************************************************************************)
(* Proofs about the execution of builds, for any number of workers,        *)
(* builds, artifacts, lines and clients and any set of faults: the leases  *)
(* a worker's count stands for, what the controller knows when it lets a   *)
(* build succeed, the processes a command leaves, the log, and the clients *)
(* that watch it.                                                          *)
(***************************************************************************)
EXTENDS RemoteBuild, ProcessTree, BuildLog, WSHub, FiniteSetTheorems, SequenceTheorems, TLAPS

(***************************************************************************)
(* The types, which the other invariants and every step rest on.           *)
(***************************************************************************)
Selecting == {"offline", "list", "acquire"}
Leased == {"dispatch", "connect", "receive", "succeed", "cancel", "fail", "release"}
Messages == {"chunk", "final", "postFailed", "failed", "success"}

WorkerRow == [status : {"absent", "online", "offline"}, heartbeat : {"never", "fresh", "stale"},
              active : 0..MaxConcurrentBuilds]
Execution == [at : {"none", "prepare", "stages", "post", "report", "ended"}, on : Workers \cup {NoWorker},
              outcome : {"ok", "failed"}, sent : 0..(2 * Artifacts)]
Reception == [completed : BOOLEAN, pending : BOOLEAN, saved : Nat]

RowsTypeOK ==
    /\ worker \in [Workers -> WorkerRow]
    /\ daemon \in [Workers -> {"none", "up", "cutOff", "stopping", "down"}]
    /\ leaked \in [Workers -> Nat]

DispatchTypeOK ==
    /\ controller \in {"up", "draining", "down"}
    /\ remote \in [RemoteBuilds -> {"pending", "running", "success", "failed", "cancelled"}]
    /\ step \in [RemoteBuilds -> {"none"} \cup Selecting \cup Leased]
    /\ candidates \in [RemoteBuilds -> SUBSET Workers]
    /\ lease \in [RemoteBuilds -> Workers \cup {NoWorker}]

TransferTypeOK ==
    /\ stream \in [RemoteBuilds -> Seq(Messages)]
    /\ execution \in [RemoteBuilds -> Execution]
    /\ received \in [RemoteBuilds -> Reception]

RemoteTypes == RowsTypeOK /\ DispatchTypeOK /\ TransferTypeOK

(***************************************************************************)
(* Leases.  Only a run that has got that far holds one, and a registration *)
(* that no daemon has made yet has never been leased.                      *)
(***************************************************************************)
LeasedRunsOnly == \A b \in RemoteBuilds : lease[b] # NoWorker => step[b] \in Leased

UnregisteredIsFree ==
    \A w \in Workers :
        /\ worker[w].status = "absent" => worker[w] = NoRow
        /\ daemon[w] = "none" => worker[w] = NoRow /\ Leases(w) = {} /\ leaked[w] = 0

LeaseInv == LeasedRunsOnly /\ UnregisteredIsFree /\ LeaseAccounting

(***************************************************************************)
(* Transfers.  The k-th message of an execution follows from how many      *)
(* messages carried artifacts; what was received is a prefix of them, and  *)
(* what is on its way the rest.  A failed post step comes before all of    *)
(* it, and ends the reception.                                             *)
(***************************************************************************)
Message(e, k) ==
    IF k > e.sent THEN (IF e.outcome = "ok" /\ e.sent = 2 * Artifacts THEN "success" ELSE "failed")
    ELSE IF k % 2 = 1 THEN "chunk" ELSE "final"

Consumed(r) == 2 * r.saved + (IF r.pending THEN 1 ELSE 0)

\* What is on its way continues what was received.
Continues(s, e, r) ==
    /\ Consumed(r) <= e.sent
    /\ \A i \in 1..Len(s) : s[i] = Message(e, Consumed(r) + i)

InOrder(s, e, r) ==
    /\ e.at \in {"prepare", "stages", "post"} => s = <<>> /\ r = NothingReceived /\ e.sent = 0
    /\ e.at \in {"report", "ended"} =>
          \/ s # <<>> /\ s[1] = "postFailed"
          \/ /\ Continues(s, e, r)
             /\ e.at = "report" => Consumed(r) + Len(s) = e.sent /\ ~r.completed
             /\ e.at = "ended" =>
                   \/ Consumed(r) + Len(s) = e.sent + 1 /\ ~r.completed
                   \/ s = <<>> /\ Consumed(r) = e.sent
                      /\ (r.completed => e.outcome = "ok" /\ e.sent = 2 * Artifacts)

Bounded(s, e) ==
    /\ e.at \in {"prepare", "stages", "post"} => s = <<>> /\ e.sent = 0
    /\ e.at = "report" => Len(s) <= e.sent + 1
    /\ Len(s) <= 2 * Artifacts + 2

TransferOK(b) ==
    /\ step[b] \in Selecting \cup {"dispatch", "connect"} => received[b] = NothingReceived
    /\ step[b] = "receive" => InOrder(stream[b], execution[b], received[b])
    /\ Bounded(stream[b], execution[b])

TransferInv == \A b \in RemoteBuilds : TransferOK(b)

RemoteInv == RemoteTypes /\ LeaseInv /\ TransferInv

-----------------------------------------------------------------------------
\* The steps that touch a row of the workers table, a daemon or the lost leases; every
\* other one leaves them alone.
RowSteps ==
    \/ \E w \in Workers :
          \/ RegisterWorker(w) \/ Heartbeat(w) \/ HeartbeatExpires(w) \/ CutOff(w)
          \/ StopDaemon(w) \/ CrashDaemon(w) \/ DeleteWorker(w)
    \/ ListAgents
    \/ \E b \in RemoteBuilds : SelectRemoteWorker(b) \/ TryAcquireWorker(b) \/ LeaveRemote(b)
    \/ CrashController

\* A run that moves on without leaving the part that holds a lease.
Moves == \/ step' = step
         \/ \E b \in RemoteBuilds : \E next : Goes(b, next) /\ (step[b] \in Leased => next \in Leased)

LEMMA OtherStepsKeepRows ==
  ASSUME [RemoteNext]_remoteVars, ~ RowSteps
  PROVE  /\ UNCHANGED <<rowVars, lease, wiped, leaked>>
         /\ Moves
<1>1. CASE UNCHANGED remoteVars
  BY <1>1 DEF Moves, remoteVars, rowVars, dispatchVars, streamVars
<1>2. CASE ShutdownController \/ RestartController
  BY <1>2 DEF Moves, ShutdownController, RestartController, rowVars, dispatchVars, streamVars
<1>3. ASSUME NEW b \in RemoteBuilds, LaunchRemote(b) \/ StopRun(b)
      PROVE  UNCHANGED <<rowVars, lease, wiped, leaked>> /\ Moves
  BY <1>3 DEF Moves, LaunchRemote, StopRun, rowVars, dispatchVars, streamVars, Leased
<1>4. ASSUME NEW b \in RemoteBuilds, ExecutionStep(b)
      PROVE  UNCHANGED <<rowVars, lease, wiped, leaked>> /\ Moves
  BY <1>4 DEF Moves, ExecutionStep, PrepareExecution, ExecuteStages, RunPost, StreamArtifact, EndExecution,
          AbandonExecution, rowVars, dispatchVars
<1>5. ASSUME NEW b \in RemoteBuilds, RunStep(b)
      PROVE  UNCHANGED <<rowVars, lease, wiped, leaked>> /\ Moves
  <2>1. CASE ListOnlineWorkers(b)
    BY <2>1 DEF Moves, ListOnlineWorkers, rowVars, dispatchVars, streamVars, Leased
  <2>2. CASE WaitForWorker(b)
    BY <2>2 DEF Moves, WaitForWorker, rowVars, dispatchVars, streamVars, Leased
  <2>3. CASE DispatchRemote(b)
    BY <2>3 DEF Moves, DispatchRemote, rowVars, dispatchVars, streamVars, Leased
  <2>4. CASE ConnectRemote(b)
    BY <2>4 DEF Moves, ConnectRemote, rowVars, dispatchVars, streamVars, Leased
  <2>5. CASE ReceiveError(b)
    BY <2>5 DEF Moves, ReceiveError, rowVars, dispatchVars, streamVars, Leased
  <2>6. CASE ReceiveMessage(b)
    BY <2>6 DEF Moves, ReceiveMessage, rowVars, dispatchVars, streamVars, Leased
  <2>7. CASE RejectArtifact(b)
    BY <2>7 DEF Moves, RejectArtifact, rowVars, dispatchVars, streamVars, Leased
  <2>8. CASE ReceiveEnd(b)
    BY <2>8 DEF Moves, ReceiveEnd, rowVars, dispatchVars, streamVars, Leased
  <2>9. CASE FinishRemote(b)
    BY <2>9 DEF Moves, FinishRemote, rowVars, dispatchVars, streamVars, Leased
  <2> QED
    BY <1>5, <2>1, <2>2, <2>3, <2>4, <2>5, <2>6, <2>7, <2>8, <2>9 DEF RunStep, RowSteps
<1> QED
  BY <1>1, <1>2, <1>3, <1>4, <1>5 DEF RemoteNext, RowSteps

\* What several columns of a row are set to.
LEMMA HeartbeatRow ==
  ASSUME NEW row \in WorkerRow
  PROVE  [row EXCEPT !.heartbeat = "fresh", !.status = "online"] =
           [status |-> "online", heartbeat |-> "fresh", active |-> row.active]
<1> DEFINE beat == [row EXCEPT !.heartbeat = "fresh"]
<1>1. beat = [status |-> row.status, heartbeat |-> "fresh", active |-> row.active]
  BY DEF WorkerRow
<1> HIDE DEF beat
<1>2. [beat EXCEPT !.status = "online"] = [status |-> "online", heartbeat |-> "fresh", active |-> row.active]
  BY <1>1
<1>3. QED
  BY <1>2, Zenon DEF beat

LEMMA LostRow ==
  ASSUME NEW row \in WorkerRow
  PROVE  Lost(row) = [status |-> "offline", heartbeat |-> row.heartbeat, active |-> 0] /\ Lost(row) \in WorkerRow
<1> DEFINE off == [row EXCEPT !.status = "offline"]
<1>1. off = [status |-> "offline", heartbeat |-> row.heartbeat, active |-> row.active]
  BY DEF WorkerRow
<1> HIDE DEF off
<1>2. [off EXCEPT !.active = 0] = [status |-> "offline", heartbeat |-> row.heartbeat, active |-> 0]
  BY <1>1
<1>3. Lost(row) = [off EXCEPT !.active = 0]
  BY Zenon DEF Lost, off
<1>4. QED
  BY <1>2, <1>3, RemoteAssumption DEF WorkerRow

LEMMA LeasesAreFinite ==
  ASSUME DispatchTypeOK
  PROVE  \A w : /\ IsFiniteSet(Leases(w)) /\ Cardinality(Leases(w)) \in Nat
                /\ Leases(w) # {} => Cardinality(Leases(w)) > 0
<1> SUFFICES ASSUME NEW w
             PROVE  /\ IsFiniteSet(Leases(w)) /\ Cardinality(Leases(w)) \in Nat
                    /\ Leases(w) # {} => Cardinality(Leases(w)) > 0
  OBVIOUS
<1>1. Leases(w) \subseteq RemoteBuilds
  BY DEF Leases, DispatchTypeOK
<1>2. IsFiniteSet(Leases(w))
  BY <1>1, FS_Subset, RemoteAssumption
<1>3. QED
  BY <1>2, FS_CardinalityType, FS_EmptySet

\* Rows change while every lease stays as it is.
LEMMA RowChange ==
  ASSUME RemoteTypes, LeaseInv, RowsTypeOK', lease' = lease, wiped \subseteq wiped', Moves,
         \A w \in Workers :
            /\ worker'[w].status = "absent" => worker'[w] = NoRow
            /\ daemon'[w] = "none" =>
                  daemon[w] = "none" /\ worker'[w] = worker[w] /\ leaked'[w] = leaked[w]
            /\ \/ /\ leaked'[w] = leaked[w]
                  /\ \/ worker'[w] = NoRow
                     \/ /\ worker'[w].active = worker[w].active
                        /\ (worker'[w].status = "absent" <=> worker[w].status = "absent")
               \/ worker'[w].active = 0 /\ Leases(w) = {} /\ leaked'[w] = 0
               \/ worker'[w].active = 0 /\ w \in wiped'
  PROVE  LeaseInv'
<1>1. \A w : Leases(w)' = Leases(w)
  BY DEF Leases
<1>2. LeasedRunsOnly'
  BY DEF LeaseInv, LeasedRunsOnly, Moves, Goes, RemoteTypes, DispatchTypeOK
<1>3. UnregisteredIsFree'
  BY <1>1 DEF LeaseInv, UnregisteredIsFree
<1>4. LeaseAccounting'
  BY <1>1, LeasesAreFinite, FS_EmptySet DEF LeaseInv, LeaseAccounting, RemoteTypes, RowsTypeOK, WorkerRow, NoRow
<1>5. QED
  BY <1>2, <1>3, <1>4 DEF LeaseInv

-----------------------------------------------------------------------------
LEMMA MarkOffline ==
  ASSUME RemoteTypes, LeaseInv, MarkOfflineWorkers, UNCHANGED <<daemon, lease>>, Moves
  PROVE  RowsTypeOK' /\ LeaseInv'
<1>1. \A w \in Workers : worker[w] \in WorkerRow
  BY DEF RemoteTypes, RowsTypeOK
<1>2. \A w \in Workers :
         /\ worker'[w] = IF IsStale(w) THEN Lost(worker[w]) ELSE worker[w]
         /\ leaked'[w] = IF IsStale(w) THEN 0 ELSE leaked[w]
         /\ IsStale(w) /\ Leases(w) # {} => w \in wiped'
  BY DEF MarkOfflineWorkers
<1>3. RowsTypeOK'
  BY <1>1, LostRow DEF MarkOfflineWorkers, RemoteTypes, RowsTypeOK
<1>4. \A w \in Workers : daemon[w] = "none" => ~IsStale(w)
  BY DEF LeaseInv, UnregisteredIsFree, IsStale, NoRow
<1>5. \A w \in Workers : /\ worker[w].status = "absent" => worker[w] = NoRow
                         /\ Lost(worker[w]).active = 0 /\ Lost(worker[w]).status = "offline"
  BY <1>1, LostRow DEF LeaseInv, UnregisteredIsFree
<1>6. wiped \subseteq wiped'
  BY DEF MarkOfflineWorkers
<1> HIDE DEF Lost, IsStale
<1>7. QED
  BY <1>2, <1>3, <1>4, <1>5, <1>6, RowChange

LEMMA DaemonStep ==
  ASSUME RemoteTypes, LeaseInv, NEW w \in Workers,
         \/ RegisterWorker(w) \/ Heartbeat(w) \/ HeartbeatExpires(w) \/ CutOff(w)
         \/ StopDaemon(w) \/ CrashDaemon(w) \/ DeleteWorker(w)
  PROVE  RowsTypeOK' /\ LeaseInv' /\ UNCHANGED <<lease, step>>
<1>1. UNCHANGED <<lease, step, wiped, leaked>>
  BY DEF RegisterWorker, Heartbeat, HeartbeatExpires, CutOff, StopDaemon, CrashDaemon, DeleteWorker, dispatchVars, rowVars
<1>2. worker[w] \in WorkerRow /\ NoRow \in WorkerRow /\ NoRow.active = 0 /\ NoRow.status = "absent"
  BY RemoteAssumption DEF RemoteTypes, RowsTypeOK, WorkerRow, NoRow
<1>3. \A v \in Workers : worker[v].status = "absent" => worker[v] = NoRow
  BY DEF LeaseInv, UnregisteredIsFree
<1>4. CASE RegisterWorker(w)
  <2>1. [NoRow EXCEPT !.status = "online"] = [status |-> "online", heartbeat |-> "never", active |-> 0]
    BY DEF NoRow
  <2>2. /\ worker' = [worker EXCEPT ![w] = [status |-> "online", heartbeat |-> "never", active |-> 0]]
        /\ daemon' = [daemon EXCEPT ![w] = "up"] /\ daemon[w] = "none"
    BY <1>4, <2>1 DEF RegisterWorker
  <2>3. RowsTypeOK'
    BY <1>1, <2>2, RemoteAssumption DEF RemoteTypes, RowsTypeOK, WorkerRow
  <2>4. Leases(w) = {} /\ leaked[w] = 0
    BY <2>2 DEF LeaseInv, UnregisteredIsFree
  <2>5. QED
    BY <1>1, <1>3, <2>2, <2>3, <2>4, RowChange DEF Moves, RemoteTypes, RowsTypeOK
<1>5. CASE Heartbeat(w)
  <2> DEFINE beat == [status |-> "online", heartbeat |-> "fresh", active |-> worker[w].active]
  <2>1. worker' = [worker EXCEPT ![w] = beat] /\ worker[w].status # "absent" /\ daemon' = daemon
    <3>1. worker' = [worker EXCEPT ![w] = [worker[w] EXCEPT !.heartbeat = "fresh", !.status = "online"]]
      BY <1>5, Zenon DEF Heartbeat, RemoteTypes, RowsTypeOK
    <3>2. QED
      BY <1>2, <1>5, <3>1, HeartbeatRow DEF Heartbeat
  <2>2. beat \in WorkerRow
    BY <1>2 DEF WorkerRow
  <2>3. RowsTypeOK'
    BY <1>1, <2>1, <2>2 DEF RemoteTypes, RowsTypeOK
  <2>4. daemon[w] # "none"
    BY <2>1 DEF LeaseInv, UnregisteredIsFree, NoRow
  <2>5. QED
    BY <1>1, <1>3, <2>1, <2>3, <2>4, RowChange DEF Moves, RemoteTypes, RowsTypeOK
<1>6. CASE HeartbeatExpires(w)
  <2>1. /\ worker' = [worker EXCEPT ![w].heartbeat = "stale"] /\ daemon' = daemon
        /\ worker[w].heartbeat = "fresh"
    BY <1>6 DEF HeartbeatExpires
  <2>2. RowsTypeOK'
    BY <1>1, <2>1 DEF RemoteTypes, RowsTypeOK, WorkerRow
  <2>3. daemon[w] # "none" /\ worker[w].status # "absent"
    BY <2>1 DEF LeaseInv, UnregisteredIsFree, NoRow
  <2>4. worker'[w].status = worker[w].status /\ worker'[w].active = worker[w].active
    BY <2>1, <1>2 DEF RemoteTypes, RowsTypeOK, WorkerRow
  <2>5. QED
    BY <1>1, <1>3, <2>1, <2>2, <2>3, <2>4, RowChange DEF Moves, RemoteTypes, RowsTypeOK
<1>7. CASE CutOff(w) \/ StopDaemon(w) \/ CrashDaemon(w)
  <2>1. /\ worker' = worker
        /\ \E at \in {"up", "cutOff", "stopping", "down"} : daemon' = [daemon EXCEPT ![w] = at]
    BY <1>7 DEF CutOff, StopDaemon, CrashDaemon
  <2>2. RowsTypeOK'
    BY <1>1, <2>1 DEF RemoteTypes, RowsTypeOK
  <2>3. QED
    BY <1>1, <1>3, <2>1, <2>2, RowChange DEF Moves, RemoteTypes, RowsTypeOK
<1>8. CASE DeleteWorker(w)
  <2>1. worker' = [worker EXCEPT ![w] = NoRow] /\ daemon' = daemon /\ worker[w].status # "absent"
    BY <1>8 DEF DeleteWorker
  <2>2. RowsTypeOK'
    BY <1>1, <1>2, <2>1 DEF RemoteTypes, RowsTypeOK
  <2>3. daemon[w] # "none"
    BY <1>2, <2>1 DEF LeaseInv, UnregisteredIsFree
  <2>4. QED
    BY <1>1, <1>3, <2>1, <2>2, <2>3, RowChange DEF Moves, RemoteTypes, RowsTypeOK
<1>9. QED
  BY <1>1, <1>4, <1>5, <1>6, <1>7, <1>8

LEMMA SelectionStep ==
  ASSUME RemoteTypes, LeaseInv, ListAgents \/ \E b \in RemoteBuilds : SelectRemoteWorker(b)
  PROVE  RowsTypeOK' /\ LeaseInv'
BY MarkOffline DEF ListAgents, SelectRemoteWorker, dispatchVars, Moves, Selecting, Leased

\* A lease is one more of what the count stands for.
LEMMA AcquireStep ==
  ASSUME RemoteTypes, LeaseInv, NEW b \in RemoteBuilds, TryAcquireWorker(b)
  PROVE  RowsTypeOK' /\ LeaseInv'
<1>1. PICK w \in Workers :
         /\ IF HasRoom(w) THEN /\ worker' = [worker EXCEPT ![w].active = @ + 1]
                               /\ lease' = [lease EXCEPT ![b] = w]
                               /\ Goes(b, "dispatch")
                          ELSE UNCHANGED <<worker, lease, step>>
         /\ step[b] = "acquire"
         /\ UNCHANGED <<daemon, wiped, leaked>>
  BY DEF TryAcquireWorker, RemoteTypes, DispatchTypeOK
<1>2. CASE ~HasRoom(w)
  <2>1. RowsTypeOK'
    BY <1>1, <1>2 DEF RemoteTypes, RowsTypeOK
  <2>2. \A v \in Workers : worker[v].status = "absent" => worker[v] = NoRow
    BY DEF LeaseInv, UnregisteredIsFree
  <2>3. QED
    BY <1>1, <1>2, <2>1, <2>2, RowChange DEF Moves
<1>3. CASE HasRoom(w)
  <2>1. /\ worker' = [worker EXCEPT ![w].active = worker[w].active + 1]
        /\ lease' = [lease EXCEPT ![b] = w]
        /\ step' = [step EXCEPT ![b] = "dispatch"]
        /\ worker[w].status = "online" /\ worker[w].active + 1 \in 0..MaxConcurrentBuilds
    BY <1>1, <1>3, RemoteAssumption DEF HasRoom, Goes, RemoteTypes, RowsTypeOK, WorkerRow
  <2>2. RowsTypeOK'
    BY <1>1, <2>1 DEF RemoteTypes, RowsTypeOK, WorkerRow
  <2>3. lease[b] = NoWorker
    BY <1>1 DEF LeaseInv, LeasedRunsOnly, Leased, RemoteTypes, DispatchTypeOK
  <2>4. /\ Leases(w)' = Leases(w) \cup {b} /\ b \notin Leases(w)
        /\ \A v \in Workers \ {w} : Leases(v)' = Leases(v)
    BY <2>1, <2>3, RemoteAssumption DEF Leases, RemoteTypes, DispatchTypeOK
  <2>5. Cardinality(Leases(w)') = Cardinality(Leases(w)) + 1
    BY <2>4, LeasesAreFinite, FS_AddElement DEF RemoteTypes
  <2>6. /\ worker'[w].active = worker[w].active + 1 /\ worker'[w].status = worker[w].status
        /\ \A v \in Workers \ {w} : worker'[v] = worker[v]
    BY <2>1 DEF RemoteTypes, RowsTypeOK, WorkerRow
  <2>7. LeasedRunsOnly'
    BY <2>1 DEF LeaseInv, LeasedRunsOnly, Leased, RemoteTypes, DispatchTypeOK
  <2>8. UnregisteredIsFree'
    <3>1. daemon[w] # "none"
      BY <2>1 DEF LeaseInv, UnregisteredIsFree, NoRow
    <3>2. QED
      BY <1>1, <2>1, <2>4, <2>6, <3>1 DEF LeaseInv, UnregisteredIsFree
  <2>9. LeaseAccounting'
    <3>1. /\ \A v \in Workers : /\ Cardinality(Leases(v)) \in Nat /\ leaked[v] \in Nat
                                /\ worker[v].active \in Nat
      BY LeasesAreFinite, RemoteAssumption DEF RemoteTypes, RowsTypeOK, WorkerRow
    <3>2. \A v \in Workers : /\ worker[v].active <= Cardinality(Leases(v)) + leaked[v]
                             /\ worker[v].status # "absent" /\ v \notin wiped =>
                                   worker[v].active = Cardinality(Leases(v)) + leaked[v]
      BY DEF LeaseInv, LeaseAccounting
    <3>3. ASSUME NEW v \in Workers
          PROVE  /\ worker'[v].active <= Cardinality(Leases(v)') + leaked'[v]
                 /\ worker'[v].status # "absent" /\ v \notin wiped' =>
                       worker'[v].active = Cardinality(Leases(v)') + leaked'[v]
      <4>1. CASE v = w
        BY <1>1, <2>5, <2>6, <3>1, <3>2, <4>1
      <4>2. CASE v # w
        BY <1>1, <2>4, <2>6, <3>2, <4>2
      <4>3. QED
        BY <4>1, <4>2
    <3>4. QED
      BY <3>3, Zenon DEF LeaseAccounting
  <2>10. QED
    BY <2>2, <2>7, <2>8, <2>9 DEF LeaseInv
<1>4. QED
  BY <1>2, <1>3

\* A lease that is returned is one less, unless the count was reset in between.
LEMMA LeaveStep ==
  ASSUME RemoteTypes, LeaseInv, NEW b \in RemoteBuilds, LeaveRemote(b)
  PROVE  RowsTypeOK' /\ LeaseInv'
<1>1. /\ lease' = [lease EXCEPT ![b] = NoWorker]
      /\ step' = [step EXCEPT ![b] = "none"]
      /\ UNCHANGED <<daemon, wiped, leaked>>
  BY DEF LeaveRemote, ReleaseWorker, Goes
<1>2. LeasedRunsOnly'
  BY <1>1 DEF LeaseInv, LeasedRunsOnly, RemoteTypes, DispatchTypeOK
<1>3. \A v \in Workers \ {lease[b]} : Leases(v)' = Leases(v)
  BY <1>1, RemoteAssumption DEF Leases, RemoteTypes, DispatchTypeOK
<1>4. \A v \in Workers : /\ IsFiniteSet(Leases(v)) /\ Cardinality(Leases(v)) \in Nat /\ leaked[v] \in Nat
                         /\ worker[v].active \in 0..MaxConcurrentBuilds /\ worker[v] \in WorkerRow
  BY LeasesAreFinite DEF RemoteTypes, RowsTypeOK, WorkerRow
<1>5. CASE lease[b] = NoWorker
  <2>1. worker' = worker
    BY <1>5 DEF LeaveRemote, ReleaseWorker
  <2>2. RowsTypeOK'
    BY <1>1, <2>1 DEF RemoteTypes, RowsTypeOK
  <2>3. \A v \in Workers : Leases(v)' = Leases(v)
    BY <1>3, <1>5, RemoteAssumption
  <2>4. UnregisteredIsFree' /\ LeaseAccounting'
    BY <1>1, <2>1, <2>3 DEF LeaseInv, UnregisteredIsFree, LeaseAccounting
  <2>5. QED
    BY <1>2, <2>2, <2>4 DEF LeaseInv
<1>6. CASE lease[b] # NoWorker
  <2>1. PICK w \in Workers : w = lease[b]
    BY <1>6 DEF RemoteTypes, DispatchTypeOK
  <2> DEFINE less == IF worker[w].active > 0 THEN worker[w].active - 1 ELSE 0
  <2>2. worker' = [worker EXCEPT ![w].active = less]
    BY <1>6, <2>1 DEF LeaveRemote, ReleaseWorker
  <2>3. less \in 0..MaxConcurrentBuilds
    BY <1>4, RemoteAssumption
  <2>4. RowsTypeOK'
    BY <1>1, <2>2, <2>3 DEF RemoteTypes, RowsTypeOK, WorkerRow
  <2>5. /\ worker'[w].active = less /\ worker'[w].status = worker[w].status
        /\ worker[w].status = "absent" => worker'[w] = worker[w]
        /\ \A v \in Workers \ {w} : worker'[v] = worker[v]
    <3>1. worker[w].status = "absent" => less = worker[w].active
      BY <1>4 DEF LeaseInv, UnregisteredIsFree, NoRow
    <3>2. worker[w] = [worker[w] EXCEPT !.active = worker[w].active]
      BY <1>4 DEF WorkerRow
    <3>3. QED
      BY <2>2, <3>1, <3>2, <1>4 DEF RemoteTypes, RowsTypeOK, WorkerRow
  <2>6. Leases(w)' = Leases(w) \ {b} /\ b \in Leases(w)
    BY <1>1, <2>1, RemoteAssumption DEF Leases, RemoteTypes, DispatchTypeOK
  <2>7. Cardinality(Leases(w)') = Cardinality(Leases(w)) - 1 /\ Cardinality(Leases(w)) > 0
    BY <1>4, <2>6, FS_RemoveElement, LeasesAreFinite DEF RemoteTypes
  <2>8. UnregisteredIsFree'
    BY <1>1, <1>3, <2>1, <2>5, <2>6 DEF LeaseInv, UnregisteredIsFree
  <2>9. LeaseAccounting'
    BY <1>1, <1>3, <1>4, <2>1, <2>5, <2>7 DEF LeaseInv, LeaseAccounting
  <2>10. QED
    BY <1>2, <2>4, <2>8, <2>9 DEF LeaseInv
<1>7. QED
  BY <1>5, <1>6

\* What a crash does not return stays in the count.
LEMMA CrashStep ==
  ASSUME RemoteTypes, LeaseInv, CrashController
  PROVE  RowsTypeOK' /\ LeaseInv'
<1>1. /\ UNCHANGED <<worker, daemon, wiped>>
      /\ leaked' = [w \in Workers |-> leaked[w] + (IF worker[w].status = "absent" THEN 0
                                                   ELSE Cardinality(Leases(w)))]
      /\ lease' = [b \in RemoteBuilds |-> NoWorker]
  BY DEF CrashController, rowVars
<1>2. \A w \in Workers : /\ Cardinality(Leases(w)) \in Nat /\ leaked[w] \in Nat /\ worker[w].active \in Nat
  BY LeasesAreFinite, RemoteAssumption DEF RemoteTypes, RowsTypeOK, WorkerRow
<1>3. RowsTypeOK'
  BY <1>1, <1>2 DEF RemoteTypes, RowsTypeOK
<1>4. \A w \in Workers : Leases(w)' = {} /\ Cardinality(Leases(w)') = 0
  BY <1>1, RemoteAssumption, FS_EmptySet DEF Leases
<1>5. LeasedRunsOnly'
  BY <1>1 DEF LeasedRunsOnly
<1>6. UnregisteredIsFree'
  BY <1>1, <1>2, <1>4 DEF LeaseInv, UnregisteredIsFree, NoRow
<1>7. LeaseAccounting'
  BY <1>1, <1>2, <1>4 DEF LeaseInv, LeaseAccounting, UnregisteredIsFree, NoRow
<1>8. QED
  BY <1>3, <1>5, <1>6, <1>7 DEF LeaseInv

-----------------------------------------------------------------------------
LEMMA DispatchTypes ==
  ASSUME RemoteTypes, [RemoteNext]_remoteVars
  PROVE  DispatchTypeOK'
<1> USE DEF RemoteTypes, DispatchTypeOK, Selecting, Leased, Goes
<1>1. CASE \E w \in Workers : RegisterWorker(w) \/ Heartbeat(w) \/ HeartbeatExpires(w) \/ CutOff(w)
                              \/ StopDaemon(w) \/ CrashDaemon(w) \/ DeleteWorker(w)
  BY <1>1 DEF RegisterWorker, Heartbeat, HeartbeatExpires, CutOff, StopDaemon, CrashDaemon, DeleteWorker, dispatchVars
<1>2. CASE ListAgents \/ UNCHANGED remoteVars
  BY <1>2 DEF ListAgents, dispatchVars, remoteVars
<1>3. ASSUME NEW b \in RemoteBuilds,
             LaunchRemote(b) \/ SelectRemoteWorker(b) \/ ListOnlineWorkers(b) \/ TryAcquireWorker(b)
             \/ WaitForWorker(b) \/ DispatchRemote(b) \/ ConnectRemote(b) \/ StopRun(b)
      PROVE  DispatchTypeOK'
  BY <1>3 DEF LaunchRemote, SelectRemoteWorker, ListOnlineWorkers, TryAcquireWorker, WaitForWorker, DispatchRemote,
              ConnectRemote, StopRun
<1>4. ASSUME NEW b \in RemoteBuilds,
             ReceiveError(b) \/ ReceiveMessage(b) \/ RejectArtifact(b) \/ ReceiveEnd(b) \/ FinishRemote(b)
             \/ LeaveRemote(b)
      PROVE  DispatchTypeOK'
  BY <1>4 DEF ReceiveError, ReceiveMessage, RejectArtifact, ReceiveEnd, FinishRemote, FinalStatus, LeaveRemote,
              ReleaseWorker
<1>5. ASSUME NEW b \in RemoteBuilds, ExecutionStep(b)
      PROVE  DispatchTypeOK'
  BY <1>5 DEF ExecutionStep, PrepareExecution, ExecuteStages, RunPost, StreamArtifact, EndExecution,
              AbandonExecution, dispatchVars
<1>6. CASE ShutdownController \/ CrashController \/ RestartController
  BY <1>6 DEF ShutdownController, CrashController, RestartController
<1>7. QED
  BY <1>1, <1>2, <1>3, <1>4, <1>5, <1>6 DEF RemoteNext, RunStep

LEMMA Parity ==
  \A n \in Nat : /\ (2 * n) % 2 = 0 /\ (2 * n + 1) % 2 = 1 /\ (2 * n + 2) % 2 = 0
                 /\ n % 2 \in {0, 1} /\ (n % 2 = 0 => (n + 1) % 2 = 1) /\ (n % 2 = 1 => (n + 1) % 2 = 0)
OBVIOUS

\* A received message is the next of the execution, and the rest is what is left of it.
LEMMA ReceivedInOrder ==
  ASSUME NEW s \in Seq(Messages), NEW e \in Execution, NEW r \in Reception, NEW r1 \in Reception,
         InOrder(s, e, r), s # <<>>, s[1] \notin {"failed", "postFailed"},
         r1 = [completed |-> r.completed \/ s[1] = "success",
               pending |-> IF s[1] = "chunk" THEN TRUE ELSE IF s[1] = "final" THEN FALSE ELSE r.pending,
               saved |-> IF s[1] = "final" THEN r.saved + 1 ELSE r.saved]
  PROVE  InOrder(Tail(s), e, r1)
<1> USE RemoteAssumption DEF Execution, Reception
<1>1. CASE e.at \in {"none", "prepare", "stages", "post"}
  BY <1>1 DEF InOrder
<1>2. CASE e.at \in {"report", "ended"}
  <2> DEFINE c == Consumed(r)
  <2>1. /\ c \in Nat /\ c <= e.sent
        /\ \A i \in 1..Len(s) : s[i] = Message(e, c + i)
        /\ e.at = "report" => c + Len(s) = e.sent /\ ~r.completed
        /\ e.at = "ended" => c + Len(s) = e.sent + 1 /\ ~r.completed
    BY <1>2 DEF InOrder, Continues, Consumed
  <2>2. s[1] = Message(e, c + 1) /\ Len(s) \in Nat /\ Len(s) > 0
    BY <2>1
  <2> HIDE DEF c
  <2>3. /\ Len(Tail(s)) = Len(s) - 1
        /\ \A i \in 1..Len(Tail(s)) : Tail(s)[i] = s[i + 1]
    BY <2>2
  <2>4. CASE s[1] \in {"chunk", "final"}
    <3>1. c + 1 <= e.sent /\ (s[1] = "chunk" <=> (c + 1) % 2 = 1)
      BY <2>1, <2>2, <2>4 DEF Message
    <3>2. r.pending <=> s[1] = "final"
      BY <3>1, <2>4, Parity DEF Consumed, c
    <3>3. Consumed(r1) = c + 1
      BY <3>2, <2>4 DEF Consumed, c
    <3>4. \A i \in 1..Len(Tail(s)) : Tail(s)[i] = Message(e, c + 1 + i)
      <4>1. ASSUME NEW i \in 1..Len(Tail(s))
            PROVE  Tail(s)[i] = Message(e, c + 1 + i)
        <5>1. i + 1 \in 1..Len(s) /\ c + (i + 1) = c + 1 + i
          BY <2>1, <2>2, <2>3
        <5>2. QED
          BY <5>1, <2>1, <2>3
      <4>2. QED
        BY <4>1
    <3>5. r1.completed = r.completed
      BY <2>4
    <3>6. Continues(Tail(s), e, r1)
      BY <3>1, <3>3, <3>4 DEF Continues
    <3>7. Consumed(r1) + Len(Tail(s)) = c + Len(s)
      BY <2>1, <2>2, <2>3, <3>3
    <3>8. QED
      BY <1>2, <2>1, <3>5, <3>6, <3>7 DEF InOrder
  <2>5. CASE s[1] = "success"
    <3>1. c + 1 > e.sent /\ e.outcome = "ok" /\ e.sent = 2 * Artifacts
      BY <2>1, <2>2, <2>5 DEF Message
    <3>2. e.at = "ended" /\ Len(s) = 1 /\ c = e.sent
      <4>1. e.sent \in Nat
        OBVIOUS
      <4>2. e.at # "report"
        BY <2>1, <2>2, <3>1, <4>1
      <4>3. e.at = "ended" /\ c + Len(s) = e.sent + 1
        BY <1>2, <2>1, <4>2
      <4>4. \A m \in Nat, n \in Nat : n > 0 /\ c + 1 > m /\ c <= m /\ c + n = m + 1 => n = 1 /\ c = m
        BY <2>1
      <4>5. QED
        BY <2>1, <2>2, <3>1, <4>1, <4>3, <4>4, Zenon
    <3>3. Tail(s) = <<>>
      BY <3>2, <2>3, HeadTailProperties, EmptySeq, SMTT(30)
    <3>4. Consumed(r1) = c
      BY <2>5 DEF Consumed, c
    <3>5. Continues(Tail(s), e, r1)
      <4>1. 1..Len(Tail(s)) = {}
        <5>1. Len(Tail(s)) = 0
          BY <2>3, <3>2
        <5>2. \A n : n = 0 => 1..n = {}
          OBVIOUS
        <5>3. QED
          BY <5>1, <5>2, Zenon
      <4>2. \A i \in 1..Len(Tail(s)) : Tail(s)[i] = Message(e, Consumed(r1) + i)
        BY <4>1, Zenon
      <4>3. QED
        BY <2>1, <3>4, <4>2 DEF Continues
    <3>6. QED
      BY <3>1, <3>2, <3>3, <3>4, <3>5 DEF InOrder
  <2>6. QED
    BY <2>4, <2>5 DEF Messages
<1>3. QED
  BY <1>1, <1>2

\* Up to its last message, everything an execution sent is received or on its way.
LEMMA InOrderSoFar ==
  ASSUME NEW s \in Seq(Messages), NEW e \in Execution, NEW r \in Reception, InOrder(s, e, r),
         e.at \in {"prepare", "stages", "post", "report"}
  PROVE  \/ s # <<>> /\ s[1] = "postFailed"
         \/ Continues(s, e, r) /\ Consumed(r) + Len(s) = e.sent /\ ~r.completed
<1>1. CASE e.at = "report"
  BY <1>1 DEF InOrder
<1>2. CASE e.at # "report"
  <2>1. s = <<>> /\ r = NothingReceived /\ e.sent = 0
    BY <1>2 DEF InOrder
  <2>2. Len(s) = 0 /\ Consumed(r) = 0 /\ ~r.completed
    BY <2>1 DEF Consumed, NothingReceived
  <2>3. QED
    BY <2>1, <2>2 DEF Continues
<1>3. QED
  BY <1>1, <1>2

\* The next artifact message, or the last message, keeps the order.
LEMMA SentInOrder ==
  ASSUME NEW s \in Seq(Messages), NEW e \in Execution, NEW e1 \in Execution, NEW r \in Reception, NEW m \in Messages,
         InOrder(s, e, r), e.at \in {"prepare", "stages", "post", "report"},
         \/ e1.at = "report" /\ e1.sent = e.sent + 1 /\ m = Message(e1, e1.sent)
         \/ e1.at = "ended" /\ e1.sent = e.sent /\ m = Message(e1, e1.sent + 1)
  PROVE  InOrder(Append(s, m), e1, r)
<1> DEFINE t == Append(s, m)
           c == Consumed(r)
<1>1. /\ t \in Seq(Messages) /\ t # <<>> /\ Len(t) = Len(s) + 1 /\ Len(s) \in Nat
      /\ \A i \in 1..Len(s) : t[i] = s[i]
      /\ t[Len(s) + 1] = m
  BY AppendProperties
<1>2. e.sent \in Nat /\ e1.sent \in Nat /\ c \in Nat
  BY RemoteAssumption DEF Execution, Reception, Consumed
<1> HIDE DEF t, c
<1>3. CASE s # <<>> /\ s[1] = "postFailed"
  <2>1. t[1] = "postFailed"
    BY <1>1, <1>3, EmptySeq
  <2>2. QED
    BY <1>1, <2>1 DEF InOrder, t
<1>4. CASE Continues(s, e, r) /\ c + Len(s) = e.sent /\ ~r.completed
  <2>1. \A i \in 1..Len(s) : t[i] = Message(e1, c + i)
    <3>1. ASSUME NEW i \in 1..Len(s)
          PROVE  t[i] = Message(e1, c + i)
      <4>1. t[i] = Message(e, c + i) /\ c + i <= e.sent /\ c + i <= e1.sent
        BY <1>1, <1>2, <1>4 DEF Continues, c
      <4>2. QED
        BY <1>2, <4>1 DEF Message
    <3>2. QED
      BY <3>1
  <2>2. t[Len(s) + 1] = Message(e1, c + (Len(s) + 1))
    <3>1. e1.at = "report" => e1.sent = c + (Len(s) + 1)
      BY <1>1, <1>2, <1>4
    <3>2. e1.at = "ended" => e1.sent + 1 = c + (Len(s) + 1)
      BY <1>1, <1>2, <1>4
    <3>3. QED
      BY <1>1, <3>1, <3>2
  <2>3. \A i \in 1..Len(t) : t[i] = Message(e1, c + i)
    BY <1>1, <2>1, <2>2
  <2>4. c <= e1.sent
    BY <1>2, <1>4 DEF Continues, c
  <2>5. Continues(t, e1, r)
    BY <2>3, <2>4 DEF Continues, c
  <2>6. /\ e1.at = "report" => c + Len(t) = e1.sent
        /\ e1.at = "ended" => c + Len(t) = e1.sent + 1
    BY <1>1, <1>2, <1>4
  <2>7. InOrder(t, e1, r)
    BY <1>4, <2>5, <2>6 DEF InOrder, c
  <2>8. QED
    BY <2>7 DEF t
<1>5. QED
  BY <1>3, <1>4, InOrderSoFar DEF c

-----------------------------------------------------------------------------
TransferKept == TransferTypeOK' /\ TransferInv'

Early == Selecting \cup {"dispatch", "connect"}

\* Steps that neither send nor receive, and start no reception.
LEMMA NothingTransferred ==
  ASSUME RemoteTypes, TransferInv, UNCHANGED <<stream, execution, received>>,
         \A b \in RemoteBuilds :
            \/ step'[b] = step[b]
            \/ step'[b] \in Early /\ step[b] \in Early
            \/ step'[b] \notin Early \cup {"receive"}
  PROVE  TransferKept
<1>1. TransferTypeOK'
  BY DEF RemoteTypes, TransferTypeOK
<1>2. TransferInv'
  BY DEF TransferInv, TransferOK, Early, Selecting
<1>3. QED
  BY <1>1, <1>2 DEF TransferKept

LEMMA QuietSteps ==
  ASSUME RemoteTypes, TransferInv,
         \/ \E w \in Workers : RegisterWorker(w) \/ Heartbeat(w) \/ HeartbeatExpires(w) \/ CutOff(w)
                               \/ StopDaemon(w) \/ DeleteWorker(w)
         \/ ListAgents \/ ShutdownController \/ RestartController \/ UNCHANGED remoteVars
         \/ \E b \in RemoteBuilds :
               SelectRemoteWorker(b) \/ ListOnlineWorkers(b) \/ TryAcquireWorker(b) \/ WaitForWorker(b)
               \/ DispatchRemote(b) \/ ReceiveError(b) \/ RejectArtifact(b) \/ FinishRemote(b) \/ StopRun(b)
  PROVE  TransferKept
<1>1. CASE \/ \E w \in Workers : RegisterWorker(w) \/ Heartbeat(w) \/ HeartbeatExpires(w) \/ CutOff(w)
                                 \/ StopDaemon(w) \/ DeleteWorker(w)
           \/ ListAgents \/ ShutdownController \/ RestartController \/ UNCHANGED remoteVars
  <2>1. UNCHANGED <<stream, execution, received, step>>
    BY <1>1 DEF RegisterWorker, Heartbeat, HeartbeatExpires, CutOff, StopDaemon, DeleteWorker, ListAgents,
                ShutdownController, RestartController, remoteVars, dispatchVars, streamVars
  <2>2. QED
    BY <2>1, NothingTransferred
<1>2. ASSUME NEW b \in RemoteBuilds,
             \/ SelectRemoteWorker(b) \/ ListOnlineWorkers(b) \/ TryAcquireWorker(b) \/ WaitForWorker(b)
             \/ DispatchRemote(b) \/ ReceiveError(b) \/ RejectArtifact(b) \/ FinishRemote(b) \/ StopRun(b)
      PROVE  TransferKept
  <2>1. /\ UNCHANGED <<stream, execution, received>>
        /\ \/ step' = step
           \/ Goes(b, "list") /\ step[b] = "offline"
           \/ Goes(b, "acquire") /\ step[b] = "list"
           \/ Goes(b, "dispatch") /\ step[b] = "acquire"
           \/ Goes(b, "connect") /\ step[b] = "dispatch"
           \/ Goes(b, "none") \/ Goes(b, "cancel") \/ Goes(b, "fail") \/ Goes(b, "release")
    BY <1>2 DEF SelectRemoteWorker, ListOnlineWorkers, TryAcquireWorker, WaitForWorker, DispatchRemote,
                ReceiveError, RejectArtifact, FinishRemote, StopRun, streamVars
  <2>2. \A d \in RemoteBuilds :
            \/ step'[d] = step[d]
            \/ step'[d] \in Early /\ step[d] \in Early
            \/ step'[d] \notin Early \cup {"receive"}
    BY <2>1 DEF Goes, Early, Selecting, RemoteTypes, DispatchTypeOK
  <2>3. QED
    BY <2>1, <2>2, NothingTransferred
<1>3. QED
  BY <1>1, <1>2

\* A step of one build changes nothing of the transfer of another.
LEMMA OneTransfer ==
  ASSUME RemoteTypes, TransferInv, NEW b \in RemoteBuilds,
         NEW s \in Seq(Messages), NEW e \in Execution, NEW r \in Reception, NEW at,
         stream' = [stream EXCEPT ![b] = s], execution' = [execution EXCEPT ![b] = e],
         received' = [received EXCEPT ![b] = r], step' = [step EXCEPT ![b] = at],
         at \in Early => r = NothingReceived,
         at = "receive" => InOrder(s, e, r),
         Bounded(s, e)
  PROVE  TransferKept
<1>1. TransferTypeOK'
  BY DEF RemoteTypes, TransferTypeOK
<1>2. /\ stream'[b] = s /\ execution'[b] = e /\ received'[b] = r /\ step'[b] = at
      /\ \A d \in RemoteBuilds \ {b} : /\ stream'[d] = stream[d] /\ execution'[d] = execution[d]
                                       /\ received'[d] = received[d] /\ step'[d] = step[d]
  BY DEF RemoteTypes, TransferTypeOK, DispatchTypeOK
<1>3. TransferInv'
  BY <1>2 DEF TransferInv, TransferOK, Early
<1>4. QED
  BY <1>1, <1>3 DEF TransferKept

LEMMA TransferTypes ==
  ASSUME RemoteTypes, NEW b \in RemoteBuilds
  PROVE  /\ stream[b] \in Seq(Messages) /\ execution[b] \in Execution /\ received[b] \in Reception
         /\ stream = [stream EXCEPT ![b] = stream[b]] /\ execution = [execution EXCEPT ![b] = execution[b]]
         /\ received = [received EXCEPT ![b] = received[b]] /\ step = [step EXCEPT ![b] = step[b]]
         /\ Idle \in Execution /\ NothingReceived \in Reception
         /\ <<>> \in Seq(Messages) /\ Len(<<>>) = 0
BY RemoteAssumption, EmptySeq DEF RemoteTypes, TransferTypeOK, DispatchTypeOK, Idle, NothingReceived, Execution, Reception

LEMMA RunTransfers ==
  ASSUME RemoteTypes, TransferInv, NEW b \in RemoteBuilds,
         LaunchRemote(b) \/ ConnectRemote(b) \/ ReceiveEnd(b) \/ LeaveRemote(b)
  PROVE  TransferKept
<1> USE TransferTypes, RemoteAssumption
<1>1. Bounded(stream[b], execution[b])
  BY DEF TransferInv, TransferOK
<1>2. Bounded(<<>>, Idle) /\ Bounded(<<>>, execution[b]) /\ Bounded(stream[b], Idle)
  BY <1>1 DEF Bounded, Idle, Execution
<1>3. CASE LaunchRemote(b)
  BY <1>1, <1>3, OneTransfer DEF LaunchRemote, Goes, streamVars
<1>4. CASE ConnectRemote(b) /\ Goes(b, "fail") /\ UNCHANGED streamVars
  <2>1. /\ stream' = stream /\ execution' = execution /\ received' = received
        /\ step' = [step EXCEPT ![b] = "fail"]
    BY <1>4 DEF ConnectRemote, Goes, streamVars
  <2>2. QED
    BY <1>1, <2>1, OneTransfer DEF Early, Selecting
<1>5. CASE ConnectRemote(b) /\ ~(Goes(b, "fail") /\ UNCHANGED streamVars)
  <2> DEFINE new == [Idle EXCEPT !.at = "prepare", !.on = lease[b]]
  <2>1. /\ step[b] = "connect" /\ daemon[lease[b]] \in {"up", "cutOff"}
        /\ execution' = [execution EXCEPT ![b] = new]
        /\ stream' = [stream EXCEPT ![b] = <<>>] /\ step' = [step EXCEPT ![b] = "receive"] /\ received' = received
    BY <1>5 DEF ConnectRemote, Goes
  <2>2. new = [at |-> "prepare", on |-> lease[b], outcome |-> "ok", sent |-> 0]
    <3> DEFINE prepared == [Idle EXCEPT !.at = "prepare"]
    <3>1. prepared = [at |-> "prepare", on |-> NoWorker, outcome |-> "ok", sent |-> 0]
      BY DEF Idle
    <3> HIDE DEF prepared
    <3>2. [prepared EXCEPT !.on = lease[b]] = [at |-> "prepare", on |-> lease[b], outcome |-> "ok", sent |-> 0]
      BY <3>1
    <3>3. QED
      BY <3>2, Zenon DEF prepared
  <2>3. new \in Execution
    BY <2>2 DEF Execution, RemoteTypes, DispatchTypeOK
  <2>4. received[b] = NothingReceived
    BY <2>1 DEF TransferInv, TransferOK
  <2>5. new.at = "prepare" /\ new.sent = 0
    BY <2>2
  <2> HIDE DEF new
  <2>6. InOrder(<<>>, new, received[b]) /\ Bounded(<<>>, new)
    BY <2>4, <2>5 DEF InOrder, Bounded
  <2>7. QED
    BY <2>1, <2>3, <2>6, OneTransfer DEF Early, Selecting
<1>6. CASE ReceiveEnd(b)
  BY <1>2, <1>6, OneTransfer DEF ReceiveEnd, Goes, Early, Selecting
<1>7. CASE LeaveRemote(b)
  BY <1>2, <1>7, OneTransfer DEF LeaveRemote, Goes, Early, Selecting
<1>8. QED
  BY <1>3, <1>4, <1>5, <1>6, <1>7

LEMMA MessageReceived ==
  ASSUME RemoteTypes, TransferInv, NEW b \in RemoteBuilds, ReceiveMessage(b)
  PROVE  TransferKept
<1> DEFINE s == stream[b]
           e == execution[b]
           r == received[b]
           r1 == [completed |-> r.completed \/ s[1] = "success",
                  pending |-> IF s[1] = "chunk" THEN TRUE ELSE IF s[1] = "final" THEN FALSE ELSE r.pending,
                  saved |-> IF s[1] = "final" THEN r.saved + 1 ELSE r.saved]
           at == IF s[1] \in {"failed", "postFailed"} THEN "fail" ELSE "receive"
<1>1. s \in Seq(Messages) /\ e \in Execution /\ r \in Reception /\ execution = [execution EXCEPT ![b] = e]
  BY TransferTypes
<1>2. /\ step[b] = "receive" /\ s # <<>>
      /\ stream' = [stream EXCEPT ![b] = Tail(s)]
      /\ received' = [received EXCEPT ![b] = r1]
      /\ execution' = execution
  BY DEF ReceiveMessage
<1>3. step' = [step EXCEPT ![b] = at]
  BY TransferTypes, <1>2 DEF ReceiveMessage, Goes
<1>4. r1 \in Reception
  <2>1. r.completed \in BOOLEAN /\ r.pending \in BOOLEAN /\ r.saved \in Nat
    BY <1>1 DEF Reception
  <2>2. (r.completed \/ s[1] = "success") \in BOOLEAN
    OBVIOUS
  <2>3. (IF s[1] = "chunk" THEN TRUE ELSE IF s[1] = "final" THEN FALSE ELSE r.pending) \in BOOLEAN
    BY <2>1, Zenon
  <2>4. (IF s[1] = "final" THEN r.saved + 1 ELSE r.saved) \in Nat
    BY <2>1
  <2>5. QED
    BY <2>2, <2>3, <2>4, Zenon DEF Reception
<1>5. Tail(s) \in Seq(Messages) /\ Len(Tail(s)) = Len(s) - 1 /\ Len(s) \in Nat
  BY <1>1, <1>2, HeadTailProperties
<1>6. InOrder(s, e, r) /\ Bounded(s, e)
  BY <1>2 DEF TransferInv, TransferOK
<1> HIDE DEF s, e, r, r1
<1>7. at = "receive" => InOrder(Tail(s), e, r1)
  BY <1>1, <1>2, <1>4, <1>6, ReceivedInOrder DEF r1
<1>8. Bounded(Tail(s), e)
  <2>1. e.at \notin {"prepare", "stages", "post"}
    BY <1>2, <1>6 DEF Bounded
  <2>2. e.sent \in Nat
    BY <1>1, RemoteAssumption DEF Execution
  <2>3. QED
    BY <1>5, <1>6, <2>1, <2>2, RemoteAssumption DEF Bounded
<1>9. at \notin Early
  BY DEF Early, Selecting
<1> HIDE DEF at
<1>10. execution' = [execution EXCEPT ![b] = e]
  BY <1>1, <1>2
<1>11. QED
  BY <1>1, <1>2, <1>3, <1>4, <1>5, <1>7, <1>8, <1>9, <1>10, OneTransfer

LEMMA CrashesTransfer ==
  ASSUME RemoteTypes, TransferInv, CrashController \/ \E w \in Workers : CrashDaemon(w)
  PROVE  TransferKept
<1> USE RemoteAssumption
<1>1. Idle \in Execution /\ <<>> \in Seq(Messages) /\ Len(<<>>) = 0 /\ Idle.at = "none"
  BY EmptySeq DEF Idle, Execution
<1>2. CASE CrashController
  <2>1. /\ step' = [b \in RemoteBuilds |-> "none"] /\ stream' = [b \in RemoteBuilds |-> <<>>]
        /\ UNCHANGED <<execution, received>>
    BY <1>2 DEF CrashController
  <2>2. TransferTypeOK'
    BY <1>1, <2>1 DEF RemoteTypes, TransferTypeOK
  <2>3. \A b \in RemoteBuilds : Bounded(<<>>, execution[b])
    BY <1>1 DEF TransferInv, TransferOK, Bounded, RemoteTypes, TransferTypeOK, Execution
  <2>4. TransferInv'
    BY <2>1, <2>3 DEF TransferInv, TransferOK, Selecting
  <2>5. QED
    BY <2>2, <2>4 DEF TransferKept
<1>3. CASE \E w \in Workers : CrashDaemon(w)
  <2>1. PICK w \in Workers : CrashDaemon(w)
    BY <1>3
  <2>2. /\ UNCHANGED <<stream, received, step>>
        /\ execution' = [b \in RemoteBuilds |-> IF b \in Executing(w) THEN Idle ELSE execution[b]]
    BY <2>1 DEF CrashDaemon, dispatchVars
  <2>3. TransferTypeOK'
    BY <1>1, <2>2 DEF RemoteTypes, TransferTypeOK
  <2>4. \A b \in RemoteBuilds : /\ TransferOK(b)
                                /\ execution'[b] = execution[b] \/ execution'[b] = Idle
    BY <2>2 DEF TransferInv
  <2>5. \A s, r : InOrder(s, Idle, r)
    BY <1>1 DEF InOrder
  <2>6. \A b \in RemoteBuilds : Bounded(stream[b], Idle)
    BY <1>1, <2>4 DEF TransferOK, Bounded
  <2>7. TransferInv'
    BY <2>2, <2>4, <2>5, <2>6 DEF TransferInv, TransferOK
  <2>8. QED
    BY <2>3, <2>7 DEF TransferKept
<1>4. QED
  BY <1>2, <1>3

LEMMA ExecutionMoved ==
  ASSUME RemoteTypes, TransferInv, NEW b \in RemoteBuilds, NEW e \in Execution, NEW s \in Seq(Messages),
         stream' = [stream EXCEPT ![b] = s], execution' = [execution EXCEPT ![b] = e], UNCHANGED dispatchVars,
         step[b] = "receive" => InOrder(s, e, received[b]),
         Bounded(s, e)
  PROVE  TransferKept
<1>1. received' = [received EXCEPT ![b] = received[b]] /\ step' = [step EXCEPT ![b] = step[b]]
      /\ received[b] \in Reception
  BY TransferTypes DEF dispatchVars
<1>2. step[b] \in Early => received[b] = NothingReceived
  BY DEF TransferInv, TransferOK, Early
<1>3. QED
  BY <1>1, <1>2, OneTransfer

Moved(e, at, outcome) == [e EXCEPT !.at = at, !.outcome = outcome]

LEMMA MovedExecution ==
  ASSUME NEW e \in Execution, NEW at \in {"post", "ended"}, NEW outcome \in {"ok", "failed"}
  PROVE  /\ Moved(e, at, outcome) \in Execution
         /\ Moved(e, at, outcome).at = at /\ Moved(e, at, outcome).outcome = outcome
         /\ Moved(e, at, outcome).sent = e.sent
<1> DEFINE moved == [e EXCEPT !.at = at]
<1>1. moved = [at |-> at, on |-> e.on, outcome |-> e.outcome, sent |-> e.sent]
  BY DEF Execution
<1> HIDE DEF moved
<1>2. [moved EXCEPT !.outcome = outcome] = [at |-> at, on |-> e.on, outcome |-> outcome, sent |-> e.sent]
  BY <1>1
<1>3. Moved(e, at, outcome) = [at |-> at, on |-> e.on, outcome |-> outcome, sent |-> e.sent]
  BY <1>2, Zenon DEF moved, Moved
<1>4. QED
  BY <1>3 DEF Execution

\* The last message of an execution, at whichever point it comes.
LEMMA LastMessageSent ==
  ASSUME RemoteTypes, TransferInv, NEW b \in RemoteBuilds, NEW e \in Execution, NEW m \in Messages,
         step[b] = "receive", execution[b].at \in {"prepare", "stages", "report"},
         Sends(b, m, e), UNCHANGED dispatchVars,
         e.at = "ended", e.sent = execution[b].sent, m = Message(e, e.sent + 1)
  PROVE  TransferKept
<1>1. stream[b] \in Seq(Messages) /\ execution[b] \in Execution /\ received[b] \in Reception
  BY TransferTypes
<1>2. InOrder(stream[b], execution[b], received[b]) /\ Bounded(stream[b], execution[b])
  BY DEF TransferInv, TransferOK
<1>3. InOrder(Append(stream[b], m), e, received[b])
  BY <1>1, <1>2, SentInOrder
<1>4. Append(stream[b], m) \in Seq(Messages) /\ Len(Append(stream[b], m)) = Len(stream[b]) + 1
  BY <1>1, AppendProperties
<1>5. Len(stream[b]) <= 2 * Artifacts + 1 /\ Len(stream[b]) \in Nat
  BY <1>1, <1>2, RemoteAssumption DEF Bounded, Execution
<1>6. Bounded(Append(stream[b], m), e)
  BY <1>4, <1>5, RemoteAssumption DEF Bounded
<1>7. /\ stream' = [stream EXCEPT ![b] = Append(stream[b], m)]
      /\ execution' = [execution EXCEPT ![b] = e]
  BY DEF Sends
<1>8. QED
  BY <1>3, <1>4, <1>6, <1>7, ExecutionMoved

LEMMA ExecutionTransfers ==
  ASSUME RemoteTypes, TransferInv, NEW b \in RemoteBuilds, ExecutionStep(b)
  PROVE  TransferKept
<1> DEFINE s == stream[b]
           e == execution[b]
           r == received[b]
<1>1. /\ s \in Seq(Messages) /\ e \in Execution /\ r \in Reception /\ Idle \in Execution
      /\ stream = [stream EXCEPT ![b] = s] /\ Idle.at = "none" /\ Len(s) \in Nat
      /\ e.sent \in 0..(2 * Artifacts) /\ Artifacts \in Nat
  BY TransferTypes, RemoteAssumption DEF Idle, Execution
<1>2. /\ step[b] = "receive" => InOrder(s, e, r)
      /\ Bounded(s, e)
  BY DEF TransferInv, TransferOK
<1>3. UNCHANGED dispatchVars
  BY DEF ExecutionStep, PrepareExecution, ExecuteStages, RunPost, StreamArtifact, EndExecution, AbandonExecution
<1> DEFINE failed == Moved(e, "ended", "failed")
<1>4. failed \in Execution /\ failed.at = "ended" /\ failed.sent = e.sent /\ failed.outcome = "failed"
  BY <1>1, MovedExecution
<1>5. "failed" = Message(failed, failed.sent + 1)
  BY <1>1, <1>4 DEF Message
<1>6. ASSUME execution' = [execution EXCEPT ![b] = Idle], stream' = stream
      PROVE  TransferKept
  <2>1. InOrder(s, Idle, r) /\ Bounded(s, Idle)
    BY <1>1, <1>2 DEF InOrder, Bounded
  <2>2. QED
    BY <1>1, <1>3, <1>6, <2>1, ExecutionMoved
<1>7. ASSUME e.at \in {"prepare", "stages"}, stream' = stream,
             NEW next \in Execution, next.at \in {"stages", "post"}, next.sent = e.sent,
             execution' = [execution EXCEPT ![b] = next]
      PROVE  TransferKept
  <2>1. (step[b] = "receive" => InOrder(s, next, r)) /\ Bounded(s, next)
    BY <1>1, <1>2, <1>7 DEF InOrder, Bounded
  <2>2. QED
    BY <1>1, <1>3, <1>7, <2>1, ExecutionMoved
<1>8. ASSUME PrepareExecution(b)
      PROVE  TransferKept
  <2>1. e.at = "prepare" /\ step[b] = "receive"
    BY <1>8 DEF PrepareExecution, Cancelled
  <2>2. CASE execution' = [execution EXCEPT ![b].at = "stages"] /\ stream' = stream
    <3>1. /\ [e EXCEPT !.at = "stages"] \in Execution /\ [e EXCEPT !.at = "stages"].at = "stages"
          /\ [e EXCEPT !.at = "stages"].sent = e.sent
      BY <1>1 DEF Execution
    <3>2. execution' = [execution EXCEPT ![b] = [e EXCEPT !.at = "stages"]]
      BY <2>2
    <3>3. QED
      BY <1>7, <2>1, <2>2, <3>1, <3>2
  <2>3. CASE Sends(b, "failed", failed)
    BY <1>3, <1>4, <1>5, <2>1, <2>3, LastMessageSent DEF Messages
  <2>4. QED
    BY <1>6, <1>8, <2>2, <2>3 DEF PrepareExecution, Moved
<1>9. ASSUME ExecuteStages(b)
      PROVE  TransferKept
  <2>1. e.at = "stages" /\ step[b] = "receive"
    BY <1>9 DEF ExecuteStages, Cancelled
  <2>2. ASSUME NEW outcome \in {"ok", "failed"}, stream' = stream,
               execution' = [execution EXCEPT ![b].at = "post", ![b].outcome = outcome]
        PROVE  TransferKept
    <3> DEFINE ended == Moved(e, "post", outcome)
    <3>1. ended \in Execution /\ ended.at = "post" /\ ended.sent = e.sent
      BY <1>1, MovedExecution
    <3>2. execution' = [execution EXCEPT ![b] = ended]
      BY <2>2, Zenon DEF RemoteTypes, TransferTypeOK, Moved
    <3> HIDE DEF ended
    <3>3. QED
      BY <1>7, <2>1, <2>2, <3>1, <3>2
  <2>3. CASE Sends(b, "failed", failed)
    BY <1>3, <1>4, <1>5, <2>1, <2>3, LastMessageSent DEF Messages
  <2>4. QED
    BY <1>9, <2>2, <2>3 DEF ExecuteStages, Moved
<1>10. ASSUME RunPost(b)
       PROVE  TransferKept
  <2> DEFINE next == [e EXCEPT !.at = "report"]
  <2>1. e.at = "post" /\ (\/ execution' = [execution EXCEPT ![b] = next] /\ UNCHANGED stream
                          \/ Sends(b, "postFailed", next))
    BY <1>10 DEF RunPost
  <2>2. next \in Execution /\ next.at = "report" /\ next.sent = e.sent
    BY <1>1 DEF Execution
  <2> HIDE DEF next
  <2>3. s = <<>> /\ e.sent = 0 /\ Len(s) = 0
    BY <1>2, <2>1, EmptySeq DEF Bounded
  <2>4. CASE execution' = [execution EXCEPT ![b] = next] /\ stream' = stream
    <3>1. step[b] = "receive" => r = NothingReceived /\ Consumed(r) = 0 /\ ~r.completed
      BY <1>2, <2>1 DEF InOrder, NothingReceived, Consumed
    <3>2. step[b] = "receive" => Continues(s, next, r)
      BY <2>2, <2>3, <3>1 DEF Continues
    <3>3. (step[b] = "receive" => InOrder(s, next, r)) /\ Bounded(s, next)
      BY <1>1, <2>2, <2>3, <3>1, <3>2 DEF InOrder, Bounded
    <3>4. QED
      BY <1>1, <1>3, <2>2, <2>4, <3>3, ExecutionMoved
  <2>5. CASE Sends(b, "postFailed", next)
    <3> DEFINE t == Append(s, "postFailed")
    <3>1. t \in Seq(Messages) /\ Len(t) = 1 /\ t # <<>> /\ t[1] = "postFailed"
      BY <1>1, <2>3, AppendProperties DEF Messages
    <3> HIDE DEF t
    <3>2. InOrder(t, next, r) /\ Bounded(t, next)
      BY <1>1, <2>2, <2>3, <3>1 DEF InOrder, Bounded
    <3>3. stream' = [stream EXCEPT ![b] = t] /\ execution' = [execution EXCEPT ![b] = next]
      BY <2>5 DEF Sends, t
    <3>4. QED
      BY <1>3, <2>2, <3>1, <3>2, <3>3, ExecutionMoved
  <2>6. QED
    BY <2>1, <2>4, <2>5
<1>11. ASSUME StreamArtifact(b)
       PROVE  TransferKept
  <2>1. /\ e.at = "report" /\ e.outcome = "ok" /\ step[b] = "receive" /\ e.sent < 2 * Artifacts
    BY <1>11 DEF StreamArtifact, Cancelled
  <2>2. CASE Sends(b, IF e.sent % 2 = 0 THEN "chunk" ELSE "final", [e EXCEPT !.sent = @ + 1])
    <3> DEFINE m == IF e.sent % 2 = 0 THEN "chunk" ELSE "final"
               next == [e EXCEPT !.sent = @ + 1]
    <3>1. next \in Execution /\ next.at = "report" /\ next.sent = e.sent + 1
      <4>1. e.sent + 1 \in 0..(2 * Artifacts)
        BY <1>1, <2>1
      <4>2. QED
        BY <1>1, <2>1, <4>1 DEF Execution
    <3> HIDE DEF next
    <3>2. m \in Messages /\ m = Message(next, next.sent)
      BY <1>1, <3>1, Parity DEF Message, Messages
    <3> HIDE DEF m
    <3>3. InOrder(Append(s, m), next, r)
      BY <1>1, <1>2, <2>1, <3>1, <3>2, SentInOrder
    <3>4. Append(s, m) \in Seq(Messages) /\ Len(Append(s, m)) = Len(s) + 1
      BY <1>1, <3>2, AppendProperties
    <3>5. Bounded(Append(s, m), next)
      BY <1>1, <1>2, <2>1, <3>1, <3>4 DEF Bounded
    <3>6. stream' = [stream EXCEPT ![b] = Append(s, m)] /\ execution' = [execution EXCEPT ![b] = next]
      BY <2>2 DEF Sends, m, next
    <3>7. QED
      BY <1>3, <3>1, <3>3, <3>4, <3>5, <3>6, ExecutionMoved
  <2>3. CASE Sends(b, "failed", [e EXCEPT !.at = "ended"])
    <3> DEFINE next == [e EXCEPT !.at = "ended"]
    <3>1. next \in Execution /\ next.at = "ended" /\ next.sent = e.sent /\ next.outcome = "ok"
      BY <1>1, <2>1 DEF Execution
    <3> HIDE DEF next
    <3>2. "failed" = Message(next, next.sent + 1)
      BY <1>1, <2>1, <3>1 DEF Message
    <3>3. QED
      BY <1>3, <2>1, <2>3, <3>1, <3>2, LastMessageSent DEF Messages, next
  <2>4. QED
    BY <1>11, <2>2, <2>3 DEF StreamArtifact
<1>12. ASSUME EndExecution(b)
       PROVE  TransferKept
  <2> DEFINE m == IF e.outcome = "ok" THEN "success" ELSE "failed"
             next == [e EXCEPT !.at = "ended"]
  <2>1. /\ e.at = "report" /\ step[b] = "receive" /\ Sends(b, m, next)
        /\ e.outcome = "failed" \/ e.sent = 2 * Artifacts
    BY <1>12 DEF EndExecution, Cancelled, ArtifactsSent
  <2>2. next \in Execution /\ next.at = "ended" /\ next.sent = e.sent /\ next.outcome = e.outcome
    BY <1>1 DEF Execution
  <2> HIDE DEF next
  <2>3. m = Message(next, next.sent + 1) /\ m \in Messages
    BY <1>1, <2>1, <2>2 DEF Message, Messages
  <2> HIDE DEF m
  <2>4. QED
    BY <1>3, <2>1, <2>2, <2>3, LastMessageSent
<1>13. QED
  BY <1>6, <1>8, <1>9, <1>10, <1>11, <1>12 DEF ExecutionStep, AbandonExecution

-----------------------------------------------------------------------------
LEMMA RemoteInvHolds == RemoteSpec => []RemoteInv
<1>1. RemoteInit => RemoteInv
  <2> SUFFICES ASSUME RemoteInit
               PROVE  RemoteInv
    OBVIOUS
  <2> USE RemoteAssumption DEF RemoteInit
  <2>1. NoRow \in WorkerRow /\ NoRow.status = "absent" /\ NoRow.active = 0
    BY DEF NoRow, WorkerRow
  <2>2. Idle \in Execution /\ Idle.at = "none" /\ NothingReceived \in Reception
        /\ <<>> \in Seq(Messages) /\ Len(<<>>) = 0
    BY EmptySeq DEF Idle, Execution, NothingReceived, Reception
  <2>3. RemoteTypes
    BY <2>1, <2>2 DEF RemoteTypes, RowsTypeOK, DispatchTypeOK, TransferTypeOK
  <2>4. \A w \in Workers : Leases(w) = {} /\ Cardinality(Leases(w)) = 0
    BY FS_EmptySet DEF Leases
  <2>5. LeaseInv
    BY <2>1, <2>4 DEF LeaseInv, LeasedRunsOnly, UnregisteredIsFree, LeaseAccounting
  <2>6. TransferInv
    BY <2>2 DEF TransferInv, TransferOK, Bounded, Selecting
  <2>7. QED
    BY <2>3, <2>5, <2>6 DEF RemoteInv
<1>2. RemoteInv /\ [RemoteNext]_remoteVars => RemoteInv'
  <2> SUFFICES ASSUME RemoteInv, [RemoteNext]_remoteVars
               PROVE  RemoteInv'
    OBVIOUS
  <2>1. RemoteTypes /\ LeaseInv /\ TransferInv
    BY DEF RemoteInv
  <2>2. DispatchTypeOK'
    BY <2>1, DispatchTypes
  <2>3. RowsTypeOK' /\ LeaseInv'
    <3>1. CASE RowSteps
      BY <2>1, <3>1, DaemonStep, SelectionStep, AcquireStep, LeaveStep, CrashStep DEF RowSteps
    <3>2. CASE ~ RowSteps
      <4>1. UNCHANGED <<worker, daemon, lease, wiped, leaked>> /\ Moves
        BY <3>2, OtherStepsKeepRows DEF rowVars
      <4>2. RowsTypeOK'
        BY <2>1, <4>1 DEF RemoteTypes, RowsTypeOK
      <4>3. \A w \in Workers : worker[w].status = "absent" => worker[w] = NoRow
        BY <2>1 DEF LeaseInv, UnregisteredIsFree
      <4>4. QED
        BY <2>1, <4>1, <4>2, <4>3, RowChange
    <3>3. QED
      BY <3>1, <3>2
  <2>4. TransferKept
    BY <2>1, QuietSteps, RunTransfers, MessageReceived, ExecutionTransfers, CrashesTransfer DEF RemoteNext, RunStep
  <2>5. QED
    BY <2>2, <2>3, <2>4 DEF RemoteInv, RemoteTypes, TransferKept
<1>3. QED
  BY <1>1, <1>2, PTL DEF RemoteSpec

\* The count of a worker is what its leases and the crashes of the controller account for,
\* however many builds compete for it, and whatever fails.
THEOREM LeasesAreCountedHolds == RemoteSpec => []LeasesAreCounted
<1>1. RemoteInv => LeasesAreCounted
  <2> SUFFICES ASSUME RemoteInv
               PROVE  LeasesAreCounted
    OBVIOUS
  <2>1. \A w \in Workers : worker[w].active \in 0..MaxConcurrentBuilds
    BY DEF RemoteInv, RemoteTypes, RowsTypeOK, WorkerRow
  <2>2. \A b \in RemoteBuilds : /\ remote[b] \in {"pending", "running", "success", "failed", "cancelled"}
                                /\ Len(stream[b]) <= 2 * Artifacts + 2 /\ Len(stream[b]) \in Nat
    BY DEF RemoteInv, RemoteTypes, DispatchTypeOK, TransferTypeOK, TransferInv, TransferOK, Bounded
  <2>3. DOMAIN remote = RemoteBuilds
    BY DEF RemoteInv, RemoteTypes, DispatchTypeOK
  <2>4. RemoteTypeOK
    BY <2>1, <2>2, <2>3, RemoteAssumption DEF RemoteTypeOK
  <2>5. QED
    BY <2>4 DEF LeasesAreCounted, RemoteInv, LeaseInv
<1>2. QED
  BY <1>1, RemoteInvHolds, PTL

\* A run that turns to success has received all its worker sent, which was everything the
\* stages and the artifacts of the build had to give.
LEMMA SuccessIsReceived ==
  ASSUME RemoteInv, [RemoteNext]_remoteVars
  PROVE  SuccessIsComplete
<1> SUFFICES ASSUME NEW b \in RemoteBuilds, step[b] # "succeed", step'[b] = "succeed"
             PROVE  execution[b].outcome = "ok" /\ received[b].saved = Artifacts /\ ~received[b].pending
  BY DEF SuccessIsComplete
<1>1. /\ step \in [RemoteBuilds -> {"none"} \cup Selecting \cup Leased]
      /\ execution[b] \in Execution /\ received[b] \in Reception
  BY DEF RemoteInv, RemoteTypes, DispatchTypeOK, TransferTypeOK
<1>2. ReceiveEnd(b)
  <2>1. ~ UNCHANGED remoteVars /\ step' # step
    BY DEF remoteVars, dispatchVars
  <2>2. PICK d \in RemoteBuilds : LaunchRemote(d) \/ RunStep(d)
    BY <1>1, <2>1 DEF RemoteNext, RegisterWorker, Heartbeat, HeartbeatExpires, CutOff, StopDaemon, CrashDaemon,
          DeleteWorker, ListAgents, ExecutionStep, PrepareExecution, ExecuteStages, RunPost, StreamArtifact,
          EndExecution, AbandonExecution, StopRun, ShutdownController, CrashController, RestartController, dispatchVars
  <2>3. PICK next : Goes(d, next)
    BY <2>1, <2>2 DEF LaunchRemote, RunStep, SelectRemoteWorker, ListOnlineWorkers, TryAcquireWorker, WaitForWorker,
          DispatchRemote, ConnectRemote, ReceiveError, ReceiveMessage, RejectArtifact, ReceiveEnd, FinishRemote,
          LeaveRemote
  <2>4. d = b /\ step' = [step EXCEPT ![b] = "succeed"]
    BY <1>1, <2>3 DEF Goes
  <2>5. QED
    BY <1>1, <2>2, <2>4 DEF Goes, LaunchRemote, RunStep, SelectRemoteWorker, ListOnlineWorkers, TryAcquireWorker,
          WaitForWorker, DispatchRemote, ConnectRemote, ReceiveError, ReceiveMessage, RejectArtifact, FinishRemote,
          LeaveRemote
<1>3. /\ step[b] = "receive" /\ stream[b] = <<>> /\ execution[b].at = "ended"
      /\ received[b].completed /\ ~received[b].pending
  BY <1>1, <1>2 DEF ReceiveEnd, Goes
<1>4. /\ Consumed(received[b]) = execution[b].sent
      /\ execution[b].outcome = "ok" /\ execution[b].sent = 2 * Artifacts
  BY <1>3 DEF RemoteInv, TransferInv, TransferOK, InOrder
<1>5. received[b].saved = Artifacts
  BY <1>1, <1>3, <1>4, RemoteAssumption DEF Consumed, Reception
<1>6. QED
  BY <1>3, <1>4, <1>5

\* A build never succeeds on less than its worker's success and all its artifacts: no break
\* of the stream, crash or stop, at any point, is taken for the end of a complete one.
THEOREM SuccessIsCompleteHolds == RemoteSpec => [][SuccessIsComplete]_remoteVars
<1>1. RemoteInv /\ [RemoteNext]_remoteVars => [SuccessIsComplete]_remoteVars
  BY SuccessIsReceived
<1>2. QED
  BY <1>1, RemoteInvHolds, PTL DEF RemoteSpec

-----------------------------------------------------------------------------
(***************************************************************************)
(* ProcessTree.  Once somebody has killed the group, nothing of it is left *)
(* and nothing comes back; a command that succeeds was never killed.       *)
(***************************************************************************)
ProcessTypes ==
    /\ root \in {"none", "running", "exited", "failed"}
    /\ command \in {"new", "waiting", "processDone", "returned"}
    /\ watcher \in {"none", "watching", "clean", "terminated"}
    /\ result \in {"none", "ok", "error"}
    /\ written \in Nat /\ copied \in Nat

\* What the steps of Start and Wait have established.
CommandOK ==
    /\ command = "new" => root = "none" /\ ~group /\ ~escaped /\ watcher = "none" /\ ~killed
    /\ command = "waiting" => root # "none"
    /\ command = "processDone" => /\ root \in {"exited", "failed"} /\ (waitErr <=> root = "failed")
                                  /\ cut \/ copied = written
    /\ command # "returned" => result = "none"

\* Whoever kills leaves nothing of the group, and nothing comes back.
KilledIsGone ==
    /\ watcher = "terminated" => root \in {"exited", "failed"} /\ ~group
    /\ watcher = "watching" => root # "none" /\ command # "returned"
    /\ watcher = "none" => root = "none" /\ ~group
    /\ killed => watcher = "terminated" \/ result = "error"

ProcessInv == ProcessTypes /\ CommandOK /\ KilledIsGone /\ FailedTreeIsGone /\ SuccessIsUntouched

LEMMA ProcessKeeps ==
  ASSUME ProcessInv, [ProcessNext]_processVars
  PROVE  ProcessInv'
<1> USE DEF ProcessInv, ProcessTypes, CommandOK, KilledIsGone, FailedTreeIsGone, SuccessIsUntouched
<1>1. CASE UNCHANGED processVars
  BY <1>1 DEF processVars
<1>2. CASE Write
  BY <1>2 DEF Write
<1>3. CASE Fork
  BY <1>3 DEF Fork
<1>4. CASE Exit
  BY <1>4 DEF Exit
<1>5. CASE CancelContext
  BY <1>5 DEF CancelContext
<1>6. CASE StartCommand
  BY <1>6 DEF StartCommand
<1>7. CASE WatchContext
  BY <1>7 DEF WatchContext, TerminateProcessTree
<1>8. CASE WatchProcess
  BY <1>8 DEF WatchProcess
<1>9. CASE CopyOutput
  BY <1>9 DEF CopyOutput
<1>10. CASE ProcessEnds
  BY <1>10 DEF ProcessEnds, Holders
<1>11. CASE ReturnResult
  BY <1>11 DEF ReturnResult, CleansUp, CommandFailed, TerminateProcessTree
<1> QED BY <1>1, <1>2, <1>3, <1>4, <1>5, <1>6, <1>7, <1>8, <1>9, <1>10, <1>11 DEF ProcessNext

\* A command that failed leaves no process of its group behind, and one that succeeded
\* was not touched, whatever the watcher of the context and Wait see first.
THEOREM CommandsAreClean == ProcessSpec => []FailedTreeIsGone /\ []SuccessIsUntouched
<1>1. ProcessInit => ProcessInv
  BY DEF ProcessInit, ProcessInv, ProcessTypes, CommandOK, KilledIsGone, FailedTreeIsGone, SuccessIsUntouched
<1>2. ProcessInv /\ [ProcessNext]_processVars => ProcessInv'
  BY ProcessKeeps
<1>3. ProcessInv => FailedTreeIsGone /\ SuccessIsUntouched
  BY DEF ProcessInv
<1> QED BY <1>1, <1>2, <1>3, PTL DEF ProcessSpec

-----------------------------------------------------------------------------
(***************************************************************************)
(* BuildLog.  The database and the batch hold consecutive lines, and only  *)
(* retention, which cuts the oldest, ever takes one away.                  *)
(***************************************************************************)
Batch == [buffer : Seq(Nat), flushed : {"absent", "never", "recent", "old"}, delay : Nat,
          timer : {"none", "armed", "fired"}, terminal : BOOLEAN]

\* Lines that were stored and lines that wait, up to line n.
Contiguous(log, buffer, n, gone) ==
    /\ \A j \in 1..Len(buffer) : buffer[j] = n - Len(buffer) + j
    /\ \A i \in 1..Len(log) : log[i] = n - Len(buffer) - Len(log) + i \/ (i = 1 /\ log[1] = 0)
    /\ gone \/ (Len(log) >= 1 /\ log[1] = 0) \/ Len(log) + Len(buffer) = n

LogInv ==
    /\ logRun \in LogSteps /\ emitted \in Nat /\ batch \in Batch /\ stored \in Seq(Nat)
    /\ Contiguous(stored, batch.buffer, emitted, trimmed)
    /\ logRun = "done" => batch = NoBatch \/ (batch.delay > 0 /\ batch.terminal = TRUE)

LEMMA AppendKeeps ==
  ASSUME NEW lines \in Seq(Nat), NEW n \in Nat, stored \in Seq(Nat), Contiguous(stored, lines, n, trimmed), AppendBuildLog(lines)
  PROVE  stored' \in Seq(Nat) /\ Contiguous(stored', <<>>, n, trimmed')
<1>1. PICK log : log = stored \o lines
  OBVIOUS
<1>2. log \in Seq(Nat) /\ Len(log) = Len(stored) + Len(lines)
  BY <1>1
<1>3. Len(stored) \in Nat /\ Len(lines) \in Nat /\ Len(log) \in Nat /\ RetainedLines \in Nat \ {0}
  BY BuildLogAssumption
<1>4. \A i \in 1..Len(log) : log[i] = n - Len(log) + i \/ (i = 1 /\ log[1] = 0)
  <2> TAKE i \in 1..Len(log)
  <2>1. CASE i <= Len(stored)
    <3>1. log[i] = stored[i] /\ i \in 1..Len(stored)
      BY <1>1, <1>3, <2>1
    <3>2. stored[i] = n - Len(lines) - Len(stored) + i \/ (i = 1 /\ stored[1] = 0)
      BY <3>1 DEF Contiguous
    <3> QED BY <1>2, <1>3, <3>1, <3>2
  <2>2. CASE i > Len(stored)
    <3>1. log[i] = lines[i - Len(stored)] /\ i - Len(stored) \in 1..Len(lines)
      BY <1>1, <1>2, <1>3, <2>2
    <3>2. lines[i - Len(stored)] = n - Len(lines) + (i - Len(stored))
      BY <3>1 DEF Contiguous
    <3> QED BY <1>2, <1>3, <3>1, <3>2
  <2> QED BY <1>3, <2>1, <2>2
<1>5. CASE Len(log) <= RetainedLines
  <2>1. stored' = log /\ trimmed' = trimmed
    BY <1>1, <1>3, <1>5 DEF AppendBuildLog
  <2>2. trimmed \/ (Len(log) >= 1 /\ log[1] = 0) \/ Len(log) = n
    <3>1. trimmed \/ (Len(stored) >= 1 /\ stored[1] = 0) \/ Len(stored) + Len(lines) = n
      BY DEF Contiguous
    <3>2. Len(stored) >= 1 => log[1] = stored[1] /\ Len(log) >= 1
      BY <1>1, <1>2, <1>3
    <3> QED BY <1>2, <3>1, <3>2
  <2>3. Len(<<>>) = 0
    OBVIOUS
  <2>4. \A i \in 1..Len(log) : log[i] = n - 0 - Len(log) + i \/ (i = 1 /\ log[1] = 0)
    BY <1>3, <1>4
  <2>5. Contiguous(log, <<>>, n, trimmed')
    BY <1>3, <2>1, <2>2, <2>3, <2>4 DEF Contiguous
  <2> QED BY <1>2, <2>1, <2>5
<1>6. CASE Len(log) > RetainedLines
  <2>1. PICK r : r = Len(log) - RetainedLines
    OBVIOUS
  <2>2. r \in 1..Len(log) /\ Len(log) - r = RetainedLines /\ r \in Nat /\ r + 1 \in 1..Len(log)
    BY <1>3, <1>6, <2>1
  <2>3. PICK kept : kept = SubSeq(log, r + 1, Len(log))
    OBVIOUS
  <2>4. kept \in Seq(Nat) /\ Len(kept) = RetainedLines /\ \A k \in 1..RetainedLines : kept[k] = log[r + k]
    <3>0. r + 1 \in Int /\ Len(log) \in Int /\ r + 1 <= Len(log) /\ \A k \in (r + 1)..Len(log) : log[k] \in Nat
      <4>1. r + 1 \in Int /\ Len(log) \in Int /\ r + 1 <= Len(log)
        BY <1>3, <2>2
      <4>2. ASSUME NEW k \in (r + 1)..Len(log)
            PROVE  log[k] \in Nat
        <5>1. k \in 1..Len(log)
          BY <1>3, <2>2
        <5> QED BY <1>2, <5>1
      <4> QED BY <4>1, <4>2
    <3>1. kept \in Seq(Nat) /\ Len(kept) = Len(log) - (r + 1) + 1
      BY <2>3, <3>0, SubSeqProperties
    <3>2. \A k \in 1..Len(log) - (r + 1) + 1 : kept[k] = log[(r + 1) + k - 1]
      BY <2>3, <3>0, SubSeqProperties
    <3>3. Len(log) - (r + 1) + 1 = RetainedLines /\ \A k \in 1..RetainedLines : (r + 1) + k - 1 = r + k
      BY <1>3, <2>2
    <3> QED BY <3>1, <3>2, <3>3
  <2>5. stored' = kept /\ trimmed' = TRUE
    BY <1>1, <1>3, <1>6, <2>1, <2>3 DEF AppendBuildLog, Retain
  <2>6. \A k \in 1..Len(kept) : kept[k] = n - 0 - Len(kept) + k
    <3> TAKE k \in 1..Len(kept)
    <3>1. r + k \in 1..Len(log) /\ r + k # 1
      BY <1>3, <2>2, <2>4
    <3>2. log[r + k] = n - Len(log) + (r + k)
      BY <1>4, <3>1
    <3> QED BY <1>3, <2>1, <2>2, <2>4, <3>2
  <2>7. Len(<<>>) = 0
    OBVIOUS
  <2>8. Contiguous(kept, <<>>, n, TRUE)
    BY <2>4, <2>6, <2>7 DEF Contiguous
  <2> QED BY <2>4, <2>5, <2>8
<1> QED BY <1>3, <1>5, <1>6

\* A write that is accepted moves the lines, one that is rejected keeps them for later.
LEMMA FlushKeeps ==
  ASSUME NEW b \in Batch, NEW terminal \in BOOLEAN, NEW n \in Nat, stored \in Seq(Nat),
         Contiguous(stored, b.buffer, n, trimmed), FlushLocked(b, terminal)
  PROVE  /\ batch' \in Batch /\ stored' \in Seq(Nat) /\ Contiguous(stored', batch'.buffer, n, trimmed')
         /\ terminal = TRUE \/ b.terminal = TRUE => batch' = NoBatch \/ (batch'.delay > 0 /\ batch'.terminal = TRUE)
<1>1. PICK f : f = [b EXCEPT !.terminal = @ \/ terminal]
  OBVIOUS
<1>2. f \in Batch /\ f.buffer = b.buffer /\ (terminal = TRUE \/ b.terminal = TRUE => f.terminal = TRUE)
  BY <1>1 DEF Batch
<1>3. b.buffer \in Seq(Nat)
  BY DEF Batch
<1>4. CASE batch' = Accepted(f) /\ AppendBuildLog(b.buffer)
  <2>1. stored' \in Seq(Nat) /\ Contiguous(stored', <<>>, n, trimmed')
    BY <1>3, <1>4, AppendKeeps
  <2>2. CASE f.terminal = TRUE
    <3>1. batch' = NoBatch
      BY <1>4, <2>2 DEF Accepted
    <3>2. NoBatch \in Batch /\ NoBatch.buffer = <<>>
      BY DEF NoBatch, Batch
    <3> QED BY <2>1, <3>1, <3>2
  <2>3. CASE f.terminal # TRUE
    <3>1. PICK flushed : flushed = IF f.buffer = <<>> THEN f.flushed ELSE "recent"
      OBVIOUS
    <3>2. flushed \in {"absent", "never", "recent", "old"}
      BY <1>2, <3>1 DEF Batch
    <3>3. batch' = [f EXCEPT !.timer = "none", !.buffer = <<>>, !.delay = 0, !.flushed = flushed]
      BY <1>2, <1>4, <2>3, <3>1 DEF Accepted, Batch
    <3>4. PICK q : q = [f EXCEPT !.timer = "none", !.buffer = <<>>, !.delay = 0, !.flushed = flushed]
      OBVIOUS
    <3>5. q = [buffer |-> <<>>, flushed |-> flushed, delay |-> 0, timer |-> "none", terminal |-> f.terminal]
      BY <1>2, <3>4 DEF Batch
    <3>6. q \in Batch /\ q.buffer = <<>>
      BY <1>2, <3>2, <3>5 DEF Batch
    <3>7. batch' \in Batch /\ batch'.buffer = <<>>
      BY <3>3, <3>4, <3>6
    <3> QED BY <1>2, <2>1, <2>3, <3>7
  <2> QED BY <2>2, <2>3
<1>5. CASE batch' = Retained(f) /\ UNCHANGED <<stored, trimmed>>
  <2>1. MaxDelay \in Nat \ {0}
    BY BuildLogAssumption
  <2>2. PICK delay : delay = IF f.delay < MaxDelay THEN f.delay + 1 ELSE MaxDelay
    OBVIOUS
  <2>3. delay \in Nat /\ delay > 0
    BY <1>2, <2>1, <2>2 DEF Batch
  <2>4. PICK q : q = [f EXCEPT !.timer = "armed", !.delay = delay]
    OBVIOUS
  <2>5. q \in Batch /\ q.buffer = f.buffer /\ q.delay = delay /\ q.terminal = f.terminal
    BY <1>2, <2>3, <2>4 DEF Batch
  <2>6. batch' = q
    BY <1>2, <1>5, <2>2, <2>4 DEF Retained, Batch
  <2> QED BY <1>2, <1>5, <2>3, <2>5, <2>6
<1> QED BY <1>1, <1>4, <1>5 DEF FlushLocked

LEMMA DurableFlushKeeps ==
  ASSUME LogInv, NEW terminal \in BOOLEAN, FlushDurableBuildLog(terminal)
  PROVE  /\ batch' \in Batch /\ stored' \in Seq(Nat) /\ Contiguous(stored', batch'.buffer, emitted, trimmed')
         /\ logRun = "done" \/ terminal = TRUE => batch' = NoBatch \/ (batch'.delay > 0 /\ batch'.terminal = TRUE)
<1>1. CASE batch = NoBatch
  BY <1>1 DEF FlushDurableBuildLog, LogInv
<1>2. CASE batch # NoBatch
  <2>1. FlushLocked(batch, terminal)
    BY <1>2 DEF FlushDurableBuildLog
  <2>2. /\ batch \in Batch /\ emitted \in Nat /\ stored \in Seq(Nat)
        /\ Contiguous(stored, batch.buffer, emitted, trimmed)
        /\ logRun = "done" => batch.terminal = TRUE
    BY <1>2 DEF LogInv
  <2> QED BY <2>1, <2>2, FlushKeeps
<1> QED BY <1>1, <1>2

LEMMA LogKeeps ==
  ASSUME LogInv, [LogNext]_logVars
  PROVE  LogInv'
<1>1. CASE UNCHANGED logVars
  BY <1>1 DEF LogInv, logVars
<1>2. CASE LogLine
  <2>1. PICK old : old = IF batch = NoBatch THEN NewBatch ELSE batch
    OBVIOUS
  <2>2. PICK b : b = [old EXCEPT !.buffer = Append(@, emitted + 1)]
    OBVIOUS
  <2>3. old \in Batch /\ Contiguous(stored, old.buffer, emitted, trimmed)
    BY <2>1 DEF LogInv, NewBatch, NoBatch, Batch
  <2>4. emitted \in Nat /\ stored \in Seq(Nat) /\ Len(stored) \in Nat
    BY DEF LogInv
  <2>5. b \in Batch /\ b.buffer = Append(old.buffer, emitted + 1) /\ old.buffer \in Seq(Nat)
    <3>1. PICK buffer : buffer = Append(old.buffer, emitted + 1)
      OBVIOUS
    <3>2. old.buffer \in Seq(Nat) /\ buffer \in Seq(Nat)
      BY <2>3, <2>4, <3>1 DEF Batch
    <3>3. b = [old EXCEPT !.buffer = buffer]
      BY <2>2, <2>3, <3>1 DEF Batch
    <3> QED BY <2>3, <3>1, <3>2, <3>3 DEF Batch
  <2>6. Len(b.buffer) = Len(old.buffer) + 1 /\ Len(old.buffer) \in Nat
    BY <2>4, <2>5
  <2>7. PICK n, size : n = emitted + 1 /\ size = Len(old.buffer)
    OBVIOUS
  <2>8. Contiguous(stored, b.buffer, n, trimmed)
    <3>1. n \in Nat /\ size \in Nat /\ Len(b.buffer) = size + 1 /\ n - 1 = emitted
      BY <2>4, <2>6, <2>7
    <3>2. ASSUME NEW j \in 1..Len(b.buffer) PROVE b.buffer[j] = n - Len(b.buffer) + j
      <4>1. CASE j = Len(b.buffer)
        BY <2>4, <2>5, <2>6, <2>7, <3>1, <4>1
      <4>2. CASE j # Len(b.buffer)
        <5>1. j \in 1..Len(old.buffer) /\ b.buffer[j] = old.buffer[j]
          BY <2>5, <2>6, <4>2
        <5>2. old.buffer[j] = emitted - size + j
          BY <2>3, <2>7, <5>1 DEF Contiguous
        <5> QED BY <2>4, <2>7, <3>1, <5>1, <5>2
      <4> QED BY <4>1, <4>2
    <3>3. ASSUME NEW i \in 1..Len(stored)
          PROVE  stored[i] = n - Len(b.buffer) - Len(stored) + i \/ (i = 1 /\ stored[1] = 0)
      <4>1. stored[i] = emitted - size - Len(stored) + i \/ (i = 1 /\ stored[1] = 0)
        BY <2>3, <2>7 DEF Contiguous
      <4>2. emitted - size - Len(stored) + i = n - Len(b.buffer) - Len(stored) + i
        BY <2>4, <2>7, <3>1
      <4> QED BY <4>1, <4>2, Zenon
    <3>4. trimmed \/ (Len(stored) >= 1 /\ stored[1] = 0) \/ Len(stored) + Len(b.buffer) = n
      <4>1. trimmed \/ (Len(stored) >= 1 /\ stored[1] = 0) \/ Len(stored) + Len(old.buffer) = emitted
        BY <2>3 DEF Contiguous
      <4>2. Len(stored) + Len(old.buffer) = emitted => Len(stored) + Len(b.buffer) = n
        BY <2>4, <2>6, <2>7
      <4> QED BY <4>1, <4>2, Zenon
    <3> QED BY <3>2, <3>3, <3>4, Zenon DEF Contiguous
  <2>9. emitted' = emitted + 1 /\ emitted' \in Nat /\ logRun' = logRun /\ logRun \in LogSteps /\ logRun # "done"
    BY <1>2, <2>4 DEF LogLine, LogInv
  <2>10. CASE FlushLocked(b, FALSE)
    <3>1. batch' \in Batch /\ stored' \in Seq(Nat) /\ Contiguous(stored', batch'.buffer, n, trimmed')
      <4>1. n \in Nat
        BY <2>4, <2>7
      <4> QED BY <2>4, <2>5, <2>8, <2>10, <4>1, FlushKeeps
    <3> QED BY <2>7, <2>9, <3>1 DEF LogInv
  <2>11. CASE batch' = [b EXCEPT !.timer = IF @ = "none" THEN "armed" ELSE @] /\ UNCHANGED <<stored, trimmed>>
    <3>1. batch' \in Batch /\ batch'.buffer = b.buffer
      BY <2>5, <2>11 DEF Batch
    <3> QED BY <2>4, <2>7, <2>8, <2>9, <2>11, <3>1 DEF LogInv
  <2> QED BY <1>2, <2>1, <2>2, <2>10, <2>11 DEF LogLine
<1>3. CASE FlushIntervalPasses \/ FireTimer
  <2>1. /\ UNCHANGED <<logRun, emitted, stored, trimmed>> /\ batch # NoBatch
        /\ batch' = [batch EXCEPT !.flushed = "old"] \/ batch' = [batch EXCEPT !.timer = "fired"]
    BY <1>3 DEF FlushIntervalPasses, FireTimer, NoBatch
  <2>2. batch' \in Batch /\ batch'.buffer = batch.buffer /\ batch'.delay = batch.delay /\ batch'.terminal = batch.terminal
    BY <2>1 DEF LogInv, Batch
  <2> QED BY <2>1, <2>2 DEF LogInv
<1>4. CASE RunCallback
  BY <1>4, DurableFlushKeeps DEF RunCallback, LogInv
<1>5. CASE FlushTail \/ AnnounceStatus
  <2>1. FlushDurableBuildLog(TRUE) /\ UNCHANGED emitted /\ logRun' \in LogSteps
    BY <1>5 DEF FlushTail, AnnounceStatus, LogSteps
  <2> QED BY <2>1, DurableFlushKeeps DEF LogInv
<1>6. CASE FinishLoggedBuild
  BY <1>6 DEF FinishLoggedBuild, LogInv, LogSteps
<1>7. CASE PurgeExpiredBuildLog
  <2>1. stored' = <<0>> /\ UNCHANGED <<logRun, emitted, batch>>
    BY <1>7 DEF PurgeExpiredBuildLog
  <2>2. stored' \in Seq(Nat) /\ Len(stored') = 1 /\ stored'[1] = 0
    BY <2>1
  <2>3. Contiguous(stored', batch.buffer, emitted, trimmed')
    <3>1. \A j \in 1..Len(batch.buffer) : batch.buffer[j] = emitted - Len(batch.buffer) + j
      BY DEF LogInv, Contiguous
    <3>2. \A i \in 1..Len(stored') : i = 1 /\ stored'[1] = 0
      BY <2>2
    <3>3. Len(stored') >= 1
      BY <2>2
    <3> QED BY <2>2, <3>1, <3>2, <3>3, Zenon DEF Contiguous
  <2> QED BY <2>1, <2>2, <2>3 DEF LogInv
<1> QED BY <1>1, <1>2, <1>3, <1>4, <1>5, <1>6, <1>7 DEF LogNext

\* The durable log: what is stored and what waits are the lines up to the newest, in
\* order, and an announced build leaves no batch behind but one that was rejected
\* (durable_build_log.go: lines, timers and terminal flushes share one batch).
THEOREM LogIsComplete == LogSpec => []LogIsContiguous /\ []NoLeakedBatch
<1>1. LogInit => LogInv
  BY DEF LogInit, LogInv, LogSteps, NoBatch, Batch, Contiguous
<1>2. LogInv /\ [LogNext]_logVars => LogInv'
  BY LogKeeps
<1>3. ASSUME LogInv PROVE LogIsContiguous
  <2>1. PICK expired \in BOOLEAN : expired <=> stored # <<>> /\ Head(stored) = 0
    OBVIOUS
  <2>2. PICK kept : kept = IF expired THEN Tail(stored) ELSE stored
    OBVIOUS
  <2>3. PICK buffer : buffer = batch.buffer
    OBVIOUS
  <2>4. /\ buffer \in Seq(Nat) /\ stored \in Seq(Nat) /\ emitted \in Nat
        /\ Len(stored) \in Nat /\ Len(buffer) \in Nat
        /\ Contiguous(stored, buffer, emitted, trimmed)
    BY <1>3, <2>3 DEF LogInv, Batch
  <2>5. (stored # <<>> <=> Len(stored) >= 1) /\ (stored # <<>> => Head(stored) = stored[1])
    BY <2>4
  <2>6. /\ kept \in Seq(Nat) /\ Len(kept) \in Nat
        /\ \A i \in 1..Len(kept) : kept[i] = emitted - Len(buffer) - Len(kept) + i
    <3>1. CASE expired
      <4>1. kept = Tail(stored) /\ stored # <<>> /\ Len(stored) >= 1
        BY <2>1, <2>2, <2>5, <3>1
      <4>2. kept \in Seq(Nat) /\ Len(kept) = Len(stored) - 1 /\ \A i \in 1..Len(kept) : kept[i] = stored[i + 1]
        BY <2>4, <4>1
      <4>3. ASSUME NEW i \in 1..Len(kept) PROVE kept[i] = emitted - Len(buffer) - Len(kept) + i
        <5>1. i + 1 \in 1..Len(stored) /\ i + 1 # 1
          BY <2>4, <4>2
        <5>2. stored[i + 1] = emitted - Len(buffer) - Len(stored) + (i + 1)
          BY <2>4, <5>1 DEF Contiguous
        <5> QED BY <2>4, <4>2, <5>2
      <4> QED BY <2>4, <4>1, <4>2, <4>3
    <3>2. CASE ~expired
      <4>1. kept = stored /\ (Len(stored) >= 1 => stored[1] # 0)
        BY <2>1, <2>2, <2>5, <3>2
      <4>2. \A i \in 1..Len(stored) : stored[i] = emitted - Len(buffer) - Len(stored) + i
        BY <2>4, <4>1 DEF Contiguous
      <4> QED BY <2>4, <4>1, <4>2
    <3> QED BY <3>1, <3>2
  <2>7. PICK log : log = kept \o buffer
    OBVIOUS
  <2>8. log \in Seq(Nat) /\ Len(log) = Len(kept) + Len(buffer) /\ DOMAIN log = 1..Len(log)
    BY <2>4, <2>6, <2>7
  <2>9. ASSUME NEW i \in 1..Len(log) PROVE log[i] = emitted - Len(log) + i
    <3>1. CASE i <= Len(kept)
      <4>1. log[i] = kept[i] /\ i \in 1..Len(kept)
        BY <2>4, <2>6, <2>7, <3>1
      <4> QED BY <2>4, <2>6, <2>8, <4>1
    <3>2. CASE i > Len(kept)
      <4>1. log[i] = buffer[i - Len(kept)] /\ i - Len(kept) \in 1..Len(buffer)
        BY <2>4, <2>6, <2>7, <2>8, <3>2
      <4>2. buffer[i - Len(kept)] = emitted - Len(buffer) + (i - Len(kept))
        BY <2>4, <4>1 DEF Contiguous
      <4> QED BY <2>4, <2>6, <2>8, <4>1, <4>2
    <3> QED BY <2>6, <3>1, <3>2
  <2>10. trimmed \/ expired \/ Len(log) = emitted
    <3>1. trimmed \/ (Len(stored) >= 1 /\ stored[1] = 0) \/ Len(stored) + Len(buffer) = emitted
      BY <2>4 DEF Contiguous
    <3> QED BY <2>1, <2>2, <2>5, <2>8, <3>1
  <2> QED BY <2>1, <2>2, <2>3, <2>7, <2>8, <2>9, <2>10 DEF LogIsContiguous
<1>4. LogInv => NoLeakedBatch
  BY DEF LogInv, NoLeakedBatch
<1> QED BY <1>1, <1>2, <1>3, <1>4, PTL DEF LogSpec

-----------------------------------------------------------------------------
(***************************************************************************)
(* WSHub.  A client is accepted once and inserted once; between the two it *)
(* may already have chosen a room, but it is not removed.                  *)
(***************************************************************************)
ReaderSteps == {At(s) : s \in {"none", "register", "read", "unregister", "close", "done"}} \cup {Subscribe(r) : r \in Rooms}
HubJobs == {Nobody} \cup {Insert(c) : c \in Clients} \cup {Remove(c) : c \in Clients}

HubTypes ==
    /\ conn \in [Clients -> {"none", "open", "closed"}]
    /\ reader \in [Clients -> ReaderSteps]
    /\ hubLoop \in HubJobs
    /\ clients \in SUBSET Clients /\ sendClosed \in SUBSET Clients
    /\ rooms \in [Rooms -> SUBSET Clients]
    /\ room \in [Clients -> Rooms \cup {SomeRoom}]

Unregistered(c) == reader[c] \in {At("none"), At("register")}

\* Before its insertion a client may already have chosen a room, and it was never removed.
InsertedOnce ==
    /\ \A c \in Clients : Unregistered(c) => hubLoop # Insert(c) /\ \A r \in Rooms : c \notin rooms[r]
    /\ \A c \in Clients : Unregistered(c) \/ hubLoop = Insert(c) => c \notin clients /\ c \notin sendClosed
    /\ \A c \in Clients : hubLoop = Insert(c) => \A r \in Rooms : c \in rooms[r] => r = room[c]
    /\ \A c \in Clients : reader[c] # At("none") => room[c] \in Rooms

\* A client is accepted once.
AcceptedOnce == \A c \in Clients : conn[c] = "none" => reader[c] = At("none")

Routed ==
    /\ \A c \in clients : c \notin sendClosed
    /\ \A c \in clients, r \in Rooms : c \in rooms[r] <=> r = room[c]

HubInv == HubTypes /\ AcceptedOnce /\ InsertedOnce /\ Routed

ConnStays ==
    /\ conn' \in [Clients -> {"none", "open", "closed"}]
    /\ \A c \in Clients : conn'[c] = "none" => conn[c] = "none"

LEMMA HubSteps ==
  /\ \A a, b : At(a) = At(b) => a = b
  /\ \A a, r : At(a) # Subscribe(r) \/ a = "subscribe"
  /\ \A r : Subscribe(r).room = r /\ Subscribe(r).at = "subscribe"
  /\ \A a : At(a).at = a
<1>1. \A a : At(a).at = a
  BY DEF At
<1>2. \A r : Subscribe(r).room = r /\ Subscribe(r).at = "subscribe"
  BY DEF Subscribe
<1>3. \A a, b : At(a) = At(b) => a = b
  BY <1>1
<1>4. \A a, r : At(a) # Subscribe(r) \/ a = "subscribe"
  BY <1>1, <1>2
<1> QED BY <1>1, <1>2, <1>3, <1>4

LEMMA HubJobsDiffer ==
  /\ \A c : Insert(c) # Nobody /\ Remove(c) # Nobody
  /\ \A c, d : Insert(c) # Remove(d)
  /\ \A c, d : Insert(c) = Insert(d) => c = d
<1>1. \A c : Insert(c).job = "register" /\ Insert(c).client = c /\ Remove(c).job = "unregister"
  BY DEF Insert, Remove
<1>2. Nobody.job = "select"
  BY DEF Nobody
<1>3. \A c : Insert(c) # Nobody /\ Remove(c) # Nobody
  BY <1>1, <1>2
<1>4. \A c, d : Insert(c) # Remove(d)
  BY <1>1
<1>5. \A c, d : Insert(c) = Insert(d) => c = d
  BY <1>1
<1> QED BY <1>3, <1>4, <1>5

LEMMA ConnCloses ==
  ASSUME HubInv, UNCHANGED conn \/ \E c \in Clients : CloseConn(c)
  PROVE  ConnStays
BY DEF HubInv, HubTypes, ConnStays, CloseConn

\* A reader that goes on from a registered s to another leaves the maps as they are.
LEMMA ReaderGoes ==
  ASSUME HubInv, NEW c \in Clients, NEW s \in ReaderSteps, ReaderGoto(c, s),
         ~Unregistered(c), s \notin {At("none"), At("register")},
         UNCHANGED <<clients, sendClosed, rooms, room>>, hubLoop' \in {hubLoop, Remove(c)}, ConnStays
  PROVE  HubInv'
<1>1. /\ reader' \in [Clients -> ReaderSteps] /\ reader'[c] = s
      /\ \A d \in Clients : d # c => reader'[d] = reader[d]
  BY DEF ReaderGoto, HubInv, HubTypes
<1>2. \A d \in Clients : Unregistered(d)' <=> Unregistered(d)
  BY <1>1 DEF Unregistered
<1>3. HubTypes'
  BY <1>1 DEF HubInv, HubTypes, HubJobs, ConnStays
<1>4. \A d \in Clients : hubLoop' = Insert(d) => hubLoop = Insert(d)
  BY HubJobsDiffer
<1>5. InsertedOnce' /\ Routed'
  BY <1>1, <1>2, <1>4 DEF HubInv, InsertedOnce, Routed, Unregistered
<1>6. AcceptedOnce'
  BY <1>1 DEF HubInv, AcceptedOnce, ConnStays, Unregistered
<1> QED BY <1>3, <1>5, <1>6 DEF HubInv

\* A s of connections and channels.
LEMMA MapsStay ==
  ASSUME HubInv, UNCHANGED <<reader, clients, sendClosed, rooms, room, hubLoop>>, ConnStays
  PROVE  HubInv'
<1>1. HubTypes' /\ AcceptedOnce'
  BY DEF HubInv, HubTypes, AcceptedOnce, ConnStays
<1>2. InsertedOnce' /\ Routed'
  BY DEF HubInv, InsertedOnce, Routed, Unregistered
<1> QED BY <1>1, <1>2 DEF HubInv

LEMMA RemovalKeeps ==
  ASSUME HubInv, NEW gone \in SUBSET Clients, RemoveClientsLocked(gone), UNCHANGED <<conn, reader, room>>,
         hubLoop' \in {hubLoop, Nobody}
  PROVE  HubInv'
<1>1. PICK present : present = gone \cap clients
  OBVIOUS
<1>2. /\ clients' = clients \ present /\ sendClosed' = sendClosed \cup present
      /\ rooms' = [r \in Rooms |-> rooms[r] \ {c \in present : room[c] = r}]
  BY <1>1 DEF RemoveClientsLocked
<1>3. \A r \in Rooms : rooms'[r] = rooms[r] \ {c \in present : room[c] = r}
  BY <1>2
<1>4. present \in SUBSET clients
  BY <1>1
<1>5. HubTypes'
  <2>1. rooms' \in [Rooms -> SUBSET Clients]
    BY <1>2 DEF HubInv, HubTypes
  <2> QED BY <1>2, <1>4, <2>1 DEF HubInv, HubTypes, HubJobs
<1>6. \A c \in Clients : hubLoop' = Insert(c) => hubLoop = Insert(c)
  BY HubJobsDiffer
<1>7. \A c \in Clients : Unregistered(c)' <=> Unregistered(c)
  BY DEF Unregistered
<1>8. \A c \in Clients : Unregistered(c) \/ hubLoop = Insert(c) => c \notin present
  BY <1>4 DEF HubInv, InsertedOnce
<1>9. \A r \in Rooms : rooms'[r] \subseteq rooms[r]
  BY <1>3
<1>10. InsertedOnce'
  BY <1>2, <1>6, <1>7, <1>8, <1>9 DEF HubInv, InsertedOnce
<1>11. \A c \in clients', r \in Rooms : c \in rooms'[r] <=> c \in rooms[r]
  BY <1>2, <1>3
<1>12. Routed'
  BY <1>2, <1>11 DEF HubInv, Routed
<1>13. AcceptedOnce'
  BY DEF HubInv, AcceptedOnce
<1> QED BY <1>5, <1>10, <1>12, <1>13 DEF HubInv

LEMMA HubKeeps ==
  ASSUME HubInv, [HubNext]_hubVars
  PROVE  HubInv' /\ \A c \in sendClosed : c \notin clients'
<1>0. ASSUME HubInv', sendClosed \subseteq sendClosed' PROVE \A c \in sendClosed : c \notin clients'
  BY <1>0 DEF HubInv, Routed
<1>1. CASE UNCHANGED hubVars
  <2>1. UNCHANGED <<conn, reader, clients, sendClosed, rooms, room, hubLoop>>
    BY <1>1 DEF hubVars
  <2> QED BY <1>0, <2>1, ConnCloses, MapsStay
<1>2. ASSUME NEW c \in Clients, NEW r \in Rooms, HandleWebSocket(c, r) PROVE HubInv' /\ UNCHANGED sendClosed
  <2>1. /\ conn[c] = "none" /\ reader[c] = At("none")
        /\ UNCHANGED <<hubLoop, clients, rooms, sendClosed>>
    BY <1>2 DEF HandleWebSocket, HubInv, AcceptedOnce
  <2>2. /\ conn' \in [Clients -> {"none", "open", "closed"}] /\ conn'[c] = "open"
        /\ room' \in [Clients -> Rooms \cup {SomeRoom}] /\ room'[c] = r
        /\ \A d \in Clients : d # c => conn'[d] = conn[d] /\ room'[d] = room[d]
    BY <1>2 DEF HandleWebSocket, HubInv, HubTypes
  <2>3. At("register") \in ReaderSteps
    BY DEF ReaderSteps
  <2>4. /\ reader' \in [Clients -> ReaderSteps] /\ reader'[c] = At("register")
        /\ \A d \in Clients : d # c => reader'[d] = reader[d]
    BY <1>2, <2>3 DEF HandleWebSocket, ReaderGoto, HubInv, HubTypes
  <2>5. Unregistered(c) /\ \A d \in Clients : Unregistered(d)' <=> Unregistered(d)
    BY <2>1, <2>4 DEF Unregistered
  <2>6. HubTypes' /\ AcceptedOnce'
    BY <2>1, <2>2, <2>4 DEF HubInv, HubTypes, AcceptedOnce
  <2>7. hubLoop # Insert(c) /\ c \notin clients
    BY <2>5 DEF HubInv, InsertedOnce
  <2>8. InsertedOnce'
    BY <2>1, <2>2, <2>4, <2>5, <2>7 DEF HubInv, InsertedOnce
  <2>9. \A d \in clients : room'[d] = room[d]
    BY <2>2, <2>7 DEF HubInv, HubTypes
  <2>10. Routed'
    BY <2>1, <2>9 DEF HubInv, Routed
  <2> QED BY <2>1, <2>6, <2>8, <2>10 DEF HubInv
<1>3. ASSUME NEW c \in Clients, ReceiveRegister(c) PROVE HubInv' /\ UNCHANGED sendClosed
  <2>1. /\ reader[c] = At("register") /\ hubLoop = Nobody /\ hubLoop' = Insert(c)
        /\ UNCHANGED <<conn, clients, rooms, room, sendClosed>>
    BY <1>3 DEF ReceiveRegister
  <2>2. At("read") \in ReaderSteps /\ At("read") \notin {At("none"), At("register")}
    BY HubSteps DEF ReaderSteps
  <2>3. /\ reader' \in [Clients -> ReaderSteps] /\ reader'[c] = At("read")
        /\ \A d \in Clients : d # c => reader'[d] = reader[d]
    BY <1>3, <2>2 DEF ReceiveRegister, ReaderGoto, HubInv, HubTypes
  <2>4. /\ Unregistered(c) /\ ~Unregistered(c)' /\ \A d \in Clients : d # c => (Unregistered(d)' <=> Unregistered(d))
    BY <2>1, <2>2, <2>3 DEF Unregistered
  <2>5. \A d \in Clients : hubLoop' = Insert(d) => d = c
    BY <2>1, HubJobsDiffer
  <2>6. HubTypes'
    BY <2>1, <2>3 DEF HubInv, HubTypes, HubJobs
  <2>7. conn[c] # "none"
    BY <2>1, HubSteps DEF HubInv, AcceptedOnce
  <2>8. AcceptedOnce'
    BY <2>1, <2>3, <2>7 DEF HubInv, AcceptedOnce
  <2>9. InsertedOnce'
    <3>1. /\ \A r \in Rooms : c \notin rooms[r]
          /\ c \notin clients /\ c \notin sendClosed
      BY <2>4 DEF HubInv, InsertedOnce
    <3>2. reader[c] # At("none")
      BY <2>1, HubSteps
    <3> QED BY <2>1, <2>3, <2>4, <2>5, <3>1, <3>2 DEF HubInv, InsertedOnce
  <2>10. Routed'
    BY <2>1 DEF HubInv, Routed
  <2> QED BY <2>1, <2>6, <2>8, <2>9, <2>10 DEF HubInv
<1>4. ASSUME NEW c \in Clients, InsertClient(c) PROVE HubInv' /\ UNCHANGED sendClosed
  <2>1. /\ hubLoop = Insert(c) /\ hubLoop' = Nobody /\ clients' = clients \cup {c}
        /\ rooms' = [rooms EXCEPT ![room[c]] = @ \cup {c}]
        /\ UNCHANGED <<conn, reader, room, sendClosed>>
    BY <1>4 DEF InsertClient
  <2>2. ~Unregistered(c) /\ c \notin sendClosed /\ c \notin clients /\ \A r \in Rooms : c \in rooms[r] => r = room[c]
    BY <2>1 DEF HubInv, InsertedOnce
  <2>3. room[c] \in Rooms
    BY <2>2 DEF HubInv, InsertedOnce, Unregistered
  <2>4. /\ rooms' \in [Rooms -> SUBSET Clients]
        /\ \A d \in Clients, r \in Rooms : d \in rooms'[r] <=> d \in rooms[r] \/ (d = c /\ r = room[c])
    BY <2>1, <2>3 DEF HubInv, HubTypes
  <2>5. HubTypes' /\ AcceptedOnce'
    BY <2>1, <2>4 DEF HubInv, HubTypes, HubJobs, AcceptedOnce
  <2>6. \A d \in Clients : hubLoop' # Insert(d)
    BY <2>1, HubJobsDiffer
  <2>7. \A d \in Clients : Unregistered(d)' <=> Unregistered(d)
    BY <2>1 DEF Unregistered
  <2>8. InsertedOnce'
    BY <2>1, <2>2, <2>4, <2>6, <2>7 DEF HubInv, InsertedOnce
  <2>9. Routed'
    BY <2>1, <2>2, <2>4 DEF HubInv, HubTypes, Routed
  <2> QED BY <2>1, <2>5, <2>8, <2>9 DEF HubInv
<1>5. ASSUME NEW c \in Clients, ReceiveUnregister(c) PROVE HubInv' /\ UNCHANGED sendClosed
  <2>1. /\ reader[c] = At("unregister") /\ ReaderGoto(c, At("close"))
        /\ UNCHANGED <<conn, clients, rooms, room, sendClosed>> /\ hubLoop' = Remove(c)
    BY <1>5 DEF ReceiveUnregister
  <2>2. At("close") \in ReaderSteps /\ At("close") \notin {At("none"), At("register")} /\ ~Unregistered(c)
    BY <2>1, HubSteps DEF ReaderSteps, Unregistered
  <2>3. ConnStays
    BY <2>1, ConnCloses
  <2> QED BY <2>1, <2>2, <2>3, ReaderGoes
<1>6. ASSUME NEW c \in Clients, RemoveClient(c) PROVE HubInv' /\ sendClosed \subseteq sendClosed'
  <2>1. RemoveClientsLocked({c}) /\ UNCHANGED <<conn, reader, room>> /\ hubLoop' = Nobody
    BY <1>6 DEF RemoveClient
  <2>2. HubInv'
    BY <2>1, RemovalKeeps
  <2> QED BY <2>1, <2>2 DEF RemoveClientsLocked
<1>7. ASSUME NEW c \in Clients, MoveToRoom(c) PROVE HubInv' /\ UNCHANGED sendClosed
  <2>1. PICK r, old : r = reader[c].room /\ old = room[c]
    OBVIOUS
  <2>2. /\ reader[c].at = "subscribe" /\ ReaderGoto(c, At("read")) /\ room' = [room EXCEPT ![c] = r]
        /\ rooms' = [[rooms EXCEPT ![old] = @ \ {c}] EXCEPT ![r] = @ \cup {c}]
        /\ UNCHANGED <<conn, hubLoop, clients, sendClosed>>
    BY <1>7, <2>1 DEF MoveToRoom
  <2>3. r \in Rooms /\ ~Unregistered(c)
    <3>1. reader[c] \in ReaderSteps /\ \A s \in {"none", "register", "read", "unregister", "close", "done"} : reader[c] # At(s)
      BY <2>2, HubSteps DEF HubInv, HubTypes
    <3>2. PICK q \in Rooms : reader[c] = Subscribe(q)
      BY <3>1 DEF ReaderSteps
    <3> QED BY <2>1, <3>1, <3>2, HubSteps DEF Unregistered
  <2>4. old \in Rooms
    BY <2>1, <2>3 DEF HubInv, InsertedOnce, Unregistered
  <2>5. /\ rooms' \in [Rooms -> SUBSET Clients]
        /\ \A d \in Clients, q \in Rooms : d # c => (d \in rooms'[q] <=> d \in rooms[q])
        /\ \A q \in Rooms : c \in rooms'[q] <=> q = r \/ (c \in rooms[q] /\ q # old)
    BY <2>2, <2>3, <2>4 DEF HubInv, HubTypes
  <2>6. At("read") \in ReaderSteps /\ At("read") \notin {At("none"), At("register")}
    BY HubSteps DEF ReaderSteps
  <2>7. /\ reader' \in [Clients -> ReaderSteps] /\ reader'[c] = At("read")
        /\ \A d \in Clients : d # c => reader'[d] = reader[d]
    BY <2>2, <2>6 DEF ReaderGoto, HubInv, HubTypes
  <2>8. /\ room' \in [Clients -> Rooms \cup {SomeRoom}] /\ room'[c] = r
        /\ \A d \in Clients : d # c => room'[d] = room[d]
    BY <2>2, <2>3 DEF HubInv, HubTypes
  <2>9. \A d \in Clients : Unregistered(d)' <=> Unregistered(d)
    BY <2>3, <2>6, <2>7 DEF Unregistered
  <2>10. HubTypes'
    BY <2>2, <2>5, <2>7, <2>8 DEF HubInv, HubTypes
  <2>11. AcceptedOnce'
    BY <2>2, <2>3, <2>7 DEF HubInv, AcceptedOnce, Unregistered
  <2>12. InsertedOnce'
    <3>1. \A d \in Clients : Unregistered(d)' => hubLoop' # Insert(d) /\ \A q \in Rooms : d \notin rooms'[q]
      BY <2>2, <2>3, <2>5, <2>9 DEF HubInv, InsertedOnce
    <3>2. \A d \in Clients : Unregistered(d)' \/ hubLoop' = Insert(d) => d \notin clients' /\ d \notin sendClosed'
      BY <2>2, <2>9 DEF HubInv, InsertedOnce
    <3>3. \A d \in Clients : hubLoop' = Insert(d) => \A q \in Rooms : d \in rooms'[q] => q = room'[d]
      <4>1. ASSUME NEW d \in Clients, hubLoop = Insert(d), d # c, NEW q \in Rooms, d \in rooms'[q] PROVE q = room'[d]
        BY <2>5, <2>8, <4>1 DEF HubInv, InsertedOnce
      <4>2. ASSUME hubLoop = Insert(c), NEW q \in Rooms, c \in rooms'[q] PROVE q = room'[c]
        <5>1. c \in rooms[q] => q = old
          BY <2>1, <4>2 DEF HubInv, InsertedOnce
        <5> QED BY <2>5, <2>8, <4>2, <5>1
      <4> QED BY <2>2, <4>1, <4>2
    <3>4. \A d \in Clients : reader'[d] # At("none") => room'[d] \in Rooms
      BY <2>3, <2>7, <2>8 DEF HubInv, InsertedOnce
    <3> QED BY <3>1, <3>2, <3>3, <3>4 DEF InsertedOnce, Unregistered
  <2>13. Routed'
    <3>1. \A d \in clients, q \in Rooms : d # c => (d \in rooms'[q] <=> q = room'[d])
      BY <2>5, <2>8 DEF HubInv, HubTypes, Routed
    <3>2. c \in clients => \A q \in Rooms : c \in rooms[q] <=> q = old
      BY <2>1 DEF HubInv, Routed
    <3>3. c \in clients => \A q \in Rooms : c \in rooms'[q] <=> q = room'[c]
      BY <2>5, <2>8, <3>2
    <3>4. \A d \in clients' : d \notin sendClosed'
      BY <2>2 DEF HubInv, Routed
    <3>5. \A d \in clients, q \in Rooms : d \in rooms'[q] <=> q = room'[d]
      BY <3>1, <3>3
    <3> QED BY <2>2, <3>4, <3>5 DEF Routed
  <2> QED BY <2>2, <2>10, <2>11, <2>12, <2>13 DEF HubInv
<1>8. ASSUME NEW c \in Clients, ReadFails(c) PROVE HubInv' /\ UNCHANGED sendClosed
  <2>1. /\ reader[c] = At("read") /\ ReaderGoto(c, At("unregister"))
        /\ UNCHANGED <<conn, hubLoop, clients, rooms, room, sendClosed>>
    BY <1>8 DEF ReadFails
  <2>2. At("unregister") \in ReaderSteps /\ At("unregister") \notin {At("none"), At("register")} /\ ~Unregistered(c)
    BY <2>1, HubSteps DEF ReaderSteps, Unregistered
  <2>3. ConnStays
    BY <2>1, ConnCloses
  <2> QED BY <2>1, <2>2, <2>3, ReaderGoes
<1>9. ASSUME NEW c \in Clients, LeaveReadPump(c) PROVE HubInv' /\ UNCHANGED sendClosed
  <2>1. /\ reader[c] = At("close") /\ ReaderGoto(c, At("done"))
        /\ UNCHANGED <<hubLoop, clients, rooms, room, sendClosed>> /\ CloseConn(c)
    BY <1>9 DEF LeaveReadPump
  <2>2. At("done") \in ReaderSteps /\ At("done") \notin {At("none"), At("register")} /\ ~Unregistered(c)
    BY <2>1, HubSteps DEF ReaderSteps, Unregistered
  <2>3. ConnStays
    BY <2>1, ConnCloses
  <2> QED BY <2>1, <2>2, <2>3, ReaderGoes
<1>10. ASSUME NEW c \in Clients, WriteMessage(c) \/ LeaveWritePump(c) \/ LoseConnection(c) PROVE HubInv' /\ UNCHANGED sendClosed
  <2>1. UNCHANGED <<reader, clients, sendClosed, rooms, room, hubLoop>>
    BY <1>10 DEF WriteMessage, LeaveWritePump, LoseConnection
  <2>2. UNCHANGED conn \/ CloseConn(c)
    BY <1>10 DEF WriteMessage, LeaveWritePump, LoseConnection
  <2>3. ConnStays
    BY <2>2, ConnCloses
  <2> QED BY <2>1, <2>3, MapsStay
<1>11. ASSUME NEW c \in Clients, NEW r \in Rooms, ReadSubscribe(c, r) PROVE HubInv' /\ UNCHANGED sendClosed
  <2>1. reader[c] = At("read") /\ ReaderGoto(c, Subscribe(r)) /\ UNCHANGED <<conn, hubLoop, clients, rooms, room, sendClosed>>
    BY <1>11 DEF ReadSubscribe
  <2>2. Subscribe(r) \in ReaderSteps /\ Subscribe(r) \notin {At("none"), At("register")} /\ ~Unregistered(c)
    BY <2>1, HubSteps DEF ReaderSteps, Unregistered
  <2>3. ConnStays
    BY <2>1, ConnCloses
  <2> QED BY <2>1, <2>2, <2>3, ReaderGoes
<1>12. ASSUME NEW r \in Rooms, BroadcastToRoom(r) PROVE HubInv' /\ sendClosed \subseteq sendClosed'
  <2>1. UNCHANGED <<conn, reader, hubLoop, room>>
    BY <1>12 DEF BroadcastToRoom
  <2>2. CASE UNCHANGED <<clients, rooms, sendClosed>>
    BY <2>1, <2>2, ConnCloses, MapsStay
  <2>3. CASE RemoveClientsLocked({c \in rooms[r] : send[c] = Queue})
    <3>1. {c \in rooms[r] : send[c] = Queue} \in SUBSET Clients
      BY DEF HubInv, HubTypes
    <3>2. HubInv'
      BY <2>1, <2>3, <3>1, RemovalKeeps
    <3> QED BY <2>3, <3>2 DEF RemoveClientsLocked
  <2> QED BY <1>12, <2>2, <2>3 DEF BroadcastToRoom
<1> QED BY <1>0, <1>1, <1>2, <1>3, <1>4, <1>5, <1>6, <1>7, <1>8, <1>9, <1>10, <1>11, <1>12 DEF HubNext, ClientStep

\* The hub: a client it knows is in the room it asked for last and its channel is open,
\* and one that was removed never comes back (Hub.Run, BroadcastToRoom and readPump,
\* which share the maps).
THEOREM ClientsStayRouted == HubSpec => []ClientsAreRouted /\ RemovedForGood
<1>1. HubInit => HubInv
  <2>1. At("none") \in ReaderSteps
    BY DEF ReaderSteps
  <2>2. ASSUME HubInit PROVE HubTypes /\ AcceptedOnce /\ Routed
    BY <2>1, <2>2 DEF HubInit, HubTypes, HubJobs, AcceptedOnce, Routed
  <2>3. ASSUME HubInit PROVE InsertedOnce
    BY <2>3, HubJobsDiffer DEF HubInit, InsertedOnce
  <2> QED BY <2>2, <2>3 DEF HubInv
<1>2. HubInv /\ [HubNext]_hubVars => HubInv'
  BY HubKeeps
<1>3. HubInv => ClientsAreRouted
  <2>1. ASSUME HubInv, NEW c \in clients PROVE c \notin sendClosed /\ {r \in Rooms : c \in rooms[r]} = {room[c]}
    <3>1. c \in Clients /\ c \notin sendClosed /\ \A r \in Rooms : c \in rooms[r] <=> r = room[c]
      BY <2>1 DEF HubInv, HubTypes, Routed
    <3>2. room[c] \in Rooms
      BY <2>1, <3>1 DEF HubInv, InsertedOnce, Unregistered
    <3> QED BY <3>1, <3>2
  <2> QED BY <2>1 DEF ClientsAreRouted
<1>4. HubInv /\ [HubNext]_hubVars => [\A c \in sendClosed : c \notin clients']_hubVars
  BY HubKeeps
<1> QED BY <1>1, <1>2, <1>3, <1>4, PTL DEF HubSpec, RemovedForGood
=============================================================================
