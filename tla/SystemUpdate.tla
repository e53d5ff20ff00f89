----------------------------- MODULE SystemUpdate -----------------------------
(***************************************************************************)
(* System updates.  The server takes a bundle, stages and verifies it      *)
(* under a lock file, and launches a detached helper, a copy of            *)
(* scripts/apply-update.sh, which pauses the server, rotates the           *)
(* installation, starts the new one, and puts the old one back when it     *)
(* does not become ready.                                                  *)
(*                                                                         *)
(* The helper calls apply_update as the condition of an if: the shell's    *)
(* errexit is off in it, and a command of it that fails is passed over.    *)
(***************************************************************************)
EXTENDS Naturals, Sequences, FiniteSets, SequencesExt

CONSTANTS
    Versions,      \* of bundles
    Bundles,       \* what a bundle turns out to be: "good", "invalid", "broken" (never ready)
    Faulty,        \* commands of the helper that may fail
    MaxUpdates, MaxFaults, MaxCuts   \* bounds: updates, failing commands, power cuts and crashes

\* 0 stands for no version.
ASSUME UpdateAssumption == Versions \subseteq Nat \ {0}

VARIABLES
    install,      \* the version in the installation directory, None when it is missing
    previous,     \* ... and in its .previous
    server,       \* the version that is running
    autostart,    \* whether the server is registered with the service manager
    lock,         \* update.lock: the update that created it
    lockOld,      \* it is more than an hour old
    status,       \* update-status.json
    update,       \* the updates: what they bring and how far they are
    faults, cuts

updateVars == <<install, previous, server, autostart, lock, lockOld, status, update, faults, cuts>>

None == 0
Shipped == 1

Staging == {"staging", "staged"}
Helping == {"verify", "pause", "rotate", "move", "activate", "start", "health", "stopNew", "removeNew", "putBack"}
Active == {u \in DOMAIN update : update[u].step \in Staging \cup Helping}
Helper(u, step) == update[u].step = step
At(u, step) == [update EXCEPT ![u].step = step]

UpdateInit ==
    /\ install = Shipped /\ previous = None
    /\ server = Shipped
    /\ autostart \in BOOLEAN
    /\ lock = None /\ lockOld = FALSE
    /\ status = [state |-> "idle", of |-> None]
    /\ update = <<>>
    /\ faults = 0 /\ cuts = 0

(***************************************************************************)
(* Manager.Start, in the server and under its mutex.                       *)
(***************************************************************************)
\* acquireLock: a lock is taken over after an hour.
MayLock == lock = None \/ lockOld

IsNewerVersion(current, candidate) == current < candidate

NewUpdate(v, b) ==
    [version |-> v, bundle |-> b, step |-> "staging", from |-> install,
     rotated |-> FALSE, activated |-> FALSE, wasRunning |-> FALSE, failed |-> FALSE]

AcquireLock(v, b) ==
    /\ Len(update) < MaxUpdates
    /\ server # None
    /\ \A u \in DOMAIN update : update[u].step \notin Staging
    /\ MayLock
    /\ update' = Append(update, NewUpdate(v, b))
    /\ lock' = Len(update) + 1 /\ lockOld' = FALSE
    /\ UNCHANGED <<install, previous, server, autostart, status, faults, cuts>>

\* applySystemUpdate takes any bundle and version ...
ApplySystemUpdate == \E v \in Versions, b \in Bundles : AcquireLock(v, b)

\* ... and applyLatestSystemUpdate what ReleaseCatalog hands over, when it is newer than the
\* server that runs.
ApplyLatestSystemUpdate == \E v \in Versions : IsNewerVersion(server, v) /\ \E b \in Bundles \ {"invalid"} : AcquireLock(v, b)

\* The bundle is written, its checksum compared and its entries looked at.
StageBundle(u) ==
    /\ Helper(u, "staging")
    /\ IF update[u].bundle = "invalid"
       THEN lock' = None /\ update' = At(u, "refused") /\ UNCHANGED status
       ELSE status' = [state |-> "accepted", of |-> u] /\ update' = At(u, "staged") /\ UNCHANGED lock
    /\ UNCHANGED <<install, previous, server, autostart, lockOld, faults, cuts>>

Launch(u) ==
    /\ Helper(u, "staged")
    /\ \/ update' = At(u, "verify") /\ UNCHANGED <<lock, status, faults>>
       \/ /\ "launch" \in Faulty /\ faults < MaxFaults
          /\ faults' = faults + 1
          /\ status' = [state |-> "failed", of |-> u]
          /\ lock' = None
          /\ update' = At(u, "refused")
    /\ UNCHANGED <<install, previous, server, autostart, lockOld, cuts>>

(***************************************************************************)
(* The helper.                                                             *)
(***************************************************************************)
Fails(command) == command \in Faulty /\ faults < MaxFaults /\ faults' = faults + 1
Works == UNCHANGED faults

\* Mutant of Finish: the helper exits without a word.
FinishQuietly(u, state) ==
    /\ lock' = None
    /\ update' = At(u, "done")
    /\ UNCHANGED status

\* The trap on EXIT removes the lock, whoever created it.
Finish(u, state) ==
    /\ status' = [state |-> state, of |-> u]
    /\ lock' = None
    /\ update' = At(u, "done")

\* The installation, checksum, paths, extraction, required files; then who is running.
VerifyStaged(u) ==
    /\ Helper(u, "verify")
    /\ \/ /\ install # None /\ Works
          /\ update' = [update EXCEPT ![u] = [@ EXCEPT !.step = "pause", !.wasRunning = server # None]]
          /\ UNCHANGED <<lock, status>>
       \/ install = None /\ Works /\ Finish(u, "failed")
       \/ Fails("verify") /\ Finish(u, "failed")
    /\ UNCHANGED <<install, previous, server, autostart, lockOld, cuts>>

Pause(u) ==
    /\ Helper(u, "pause")
    /\ status' = [state |-> "applying", of |-> u]
    /\ update' = At(u, "rotate")
    /\ \/ Works /\ server' = IF update[u].wasRunning THEN None ELSE server
       \/ Fails("pause") /\ UNCHANGED server
    /\ UNCHANGED <<install, previous, autostart, lock, lockOld, cuts>>

\* rm -rf "$previous_dir" ...
RemovePrevious(u) ==
    /\ Helper(u, "rotate")
    /\ previous' = None
    /\ update' = At(u, "move")
    /\ UNCHANGED <<install, server, autostart, lock, lockOld, status, faults, cuts>>

\* ... mv "$install_dir" "$previous_dir", and rotated=1 whether it worked or not.
Moved == [install |-> None, previous |-> install]

Rotate(u) ==
    /\ Helper(u, "move")
    /\ \/ Works /\ install' = Moved.install /\ previous' = Moved.previous
       \/ Fails("rotate") /\ UNCHANGED <<install, previous>>
    /\ update' = [update EXCEPT ![u] = [@ EXCEPT !.step = "activate", !.rotated = TRUE]]
    /\ UNCHANGED <<server, autostart, lock, lockOld, status, cuts>>

\* mv "$stage" "$install_dir" puts the stage inside the directory if that is still there.
Activate(u) ==
    /\ Helper(u, "activate")
    /\ \/ Works /\ install' = IF install = None THEN update[u].version ELSE install
       \/ Fails("activate") /\ UNCHANGED install
    /\ update' = [update EXCEPT ![u] = [@ EXCEPT !.step = "start", !.activated = TRUE]]
    /\ UNCHANGED <<previous, server, autostart, lock, lockOld, status, cuts>>

\* The version that runs after `start`; a broken one does not stay up.
Broken(v) == \E u \in Active : update[u].version = v /\ update[u].bundle = "broken" /\ update[u].activated
Runs(v) == IF v = None \/ Broken(v) THEN None ELSE v

\* enable-autostart leaves a server alone that runs; start stops it first.
StartNew(u) ==
    /\ Helper(u, "start")
    /\ update' = At(u, "health")
    /\ \/ /\ Works
          /\ server' = IF install = None THEN server
                       ELSE IF autostart THEN (IF server # None THEN server ELSE Runs(install))
                       ELSE IF update[u].wasRunning THEN Runs(install) ELSE server
       \/ Fails("start") /\ UNCHANGED server
    /\ UNCHANGED <<install, previous, autostart, lock, lockOld, status, cuts>>

Ready(u) == server = update[u].version

\* Thirty attempts: /api/health, then /api/version.
CheckHealth(u) ==
    /\ Helper(u, "health")
    /\ \/ Works /\ Ready(u) /\ Finish(u, "succeeded")
       \/ Works /\ ~ Ready(u) /\ update' = At(u, "stopNew") /\ UNCHANGED <<lock, status>>
       \/ Fails("health") /\ update' = At(u, "stopNew") /\ UNCHANGED <<lock, status>>
    /\ UNCHANGED <<install, previous, server, autostart, lockOld, cuts>>

\* restore_previous: pause and remove what was activated ...
StopNew(u) ==
    /\ Helper(u, "stopNew")
    /\ \/ Works /\ server' = (IF update[u].activated /\ install # None THEN None ELSE server) /\ update' = At(u, "removeNew")
       \/ Fails("pause") /\ update' = [update EXCEPT ![u] = [@ EXCEPT !.step = "removeNew", !.failed = TRUE]] /\ UNCHANGED server
    /\ UNCHANGED <<install, previous, autostart, lock, lockOld, status, cuts>>

RemoveNew(u) ==
    /\ Helper(u, "removeNew")
    /\ install' = IF update[u].activated THEN None ELSE install
    /\ update' = At(u, "putBack")
    /\ UNCHANGED <<previous, server, autostart, lock, lockOld, status, faults, cuts>>

PutsBack(u) == update[u].rotated /\ previous # None

\* ... and put the previous installation back, if there is one.
PutBack(u) ==
    /\ Helper(u, "putBack")
    /\ IF PutsBack(u)
       THEN /\ install' = previous /\ previous' = None
            /\ \/ /\ Works
                  /\ server' = IF update[u].wasRunning THEN previous ELSE server
                  /\ Finish(u, IF update[u].failed THEN "failed" ELSE "rolled_back")
               \/ Fails("start") /\ Finish(u, "failed") /\ UNCHANGED server
       ELSE /\ Works
            /\ Finish(u, IF update[u].failed THEN "failed" ELSE "rolled_back")
            /\ UNCHANGED <<install, previous, server>>
    /\ UNCHANGED <<autostart, lockOld, cuts>>

(***************************************************************************)
(* The machine.                                                            *)
(***************************************************************************)
EndedIn(steps) == [u \in DOMAIN update |-> IF update[u].step \in steps THEN [update[u] EXCEPT !.step = "killed"] ELSE update[u]]

\* Everything stops; a registered server comes back with the machine.
PowerCut ==
    /\ cuts < MaxCuts
    /\ cuts' = cuts + 1
    /\ update' = EndedIn(Staging \cup Helping)
    /\ server' = IF autostart THEN install ELSE None
    /\ UNCHANGED <<install, previous, autostart, lock, lockOld, status, faults>>

\* The server ends, and with it an update it was staging.
ServerCrash ==
    /\ cuts < MaxCuts /\ server # None
    /\ cuts' = cuts + 1
    /\ server' = None
    /\ update' = EndedIn(Staging)
    /\ UNCHANGED <<install, previous, autostart, lock, lockOld, status, faults>>

\* An administrator starts the server when no update is under way.
StartServer ==
    /\ server = None /\ install # None /\ Active = {}
    /\ server' = install
    /\ UNCHANGED <<install, previous, autostart, lock, lockOld, status, update, faults, cuts>>

\* An hour is long: no helper and no request takes one.
HourPasses ==
    /\ lock # None /\ ~ lockOld /\ lock \notin Active
    /\ lockOld' = TRUE
    /\ UNCHANGED <<install, previous, server, autostart, lock, status, update, faults, cuts>>

Step(u) ==
    \/ StageBundle(u) \/ Launch(u) \/ VerifyStaged(u) \/ Pause(u) \/ RemovePrevious(u) \/ Rotate(u) \/ Activate(u)
    \/ StartNew(u) \/ CheckHealth(u) \/ StopNew(u) \/ RemoveNew(u) \/ PutBack(u)

UpdateNext ==
    \/ ApplySystemUpdate \/ ApplyLatestSystemUpdate
    \/ \E u \in DOMAIN update : Step(u)
    \/ PowerCut \/ ServerCrash \/ StartServer \/ HourPasses

UpdateSpec == UpdateInit /\ [][UpdateNext]_updateVars
UpdateFairSpec == UpdateSpec /\ WF_updateVars(\E u \in DOMAIN update : Step(u))

(***************************************************************************)
(* Properties.                                                             *)
(***************************************************************************)

\* Only one update is staged or applied at a time, over crashes and stale
\* locks too; the helper outlives the server that launched it.
OneUpdateAtATime == Cardinality(Active) <= 1

\* Wherever the helper or the machine stops, one of the two directories holds
\* an installation.
NothingIsLost == install # None \/ previous # None

\* What the status says of the last update is what is installed: its version
\* after "succeeded", the one it found after "rolled_back".  (An update to the
\* version that runs cannot be told from one that left the old server alone.)
StatusIsTruthful ==
    Active = {} /\ status.of # None =>
        LET u == update[status.of] IN
        /\ status.state = "succeeded" /\ u.version # u.from => install = u.version
        /\ status.state = "rolled_back" => install = u.from

Settled(u) == \/ update[u].step = "killed"
              \/ status.of = u /\ status.state \in {"succeeded", "rolled_back", "failed"}

\* An update that was launched ends with a status that says how, unless its
\* helper is killed.
LaunchedIsSettled ==
    \A u \in 1..MaxUpdates :
        (u \in DOMAIN update /\ update[u].step = "verify") ~> (u \in DOMAIN update /\ Settled(u))

\* An update replaces the installation or leaves the old one, alone, and says which.
UpdatesSettle ==
    /\ []OneUpdateAtATime
    /\ []NothingIsLost
    /\ []StatusIsTruthful
    /\ LaunchedIsSettled
=============================================================================
