------------------------------- MODULE Plugins -------------------------------
(***************************************************************************)
(* Binary plugins: what is in the plugin directory, what the loader has in *)
(* memory, and the rows that remember what an administrator enabled.       *)
(* InstallGitHub writes the binary, then the manifest, then loads; the     *)
(* handler then reconciles the row, and so does a start of the server.     *)
(*                                                                         *)
(* A worker has a loader of its own, and makes sure before a build that it *)
(* holds the version the server refers to.                                 *)
(***************************************************************************)
EXTENDS Naturals, Sequences

CONSTANTS
    NameOrder,       \* plugins, in the order their directory is read
    PluginVersions,
    StepTypes,       \* [name -> [version -> the step types its manifest declares]]
    PluginFaults,    \* what may fail: "download", "toggle", "metadata"
    WorkerBuilds,    \* builds of a worker that use the first plugin
    MaxPluginCalls, MaxPluginStarts, MaxHeads   \* bounds: requests, restarts, pushes to the repository

VARIABLES
    dir,        \* per plugin: the manifest and the binary in its directory, as versions
    loaded,     \* per plugin: the version in memory
    active,     \* enabledPlugins
    prow,       \* per plugin: its row, enabled or not
    call,       \* the administrator's request
    pluginCalls, pluginStarts,
    head,       \* the version the repository has now
    worker,     \* the version the worker has installed and loaded
    wbuild      \* per build: the version it refers to, where it is, what its steps ran with

pluginVars == <<dir, loaded, active, prow, call, pluginCalls, pluginStarts, head, worker, wbuild>>
serverSide == <<dir, loaded, active, prow, call, pluginCalls, pluginStarts>>
workerSide == <<head, worker, wbuild>>

Names == {NameOrder[i] : i \in DOMAIN NameOrder}

ASSUME NameOrderAssumption == NameOrder \in Seq(Names)

NoVersion == 0
Garbage == 9      \* a binary that is of no version
NoCall == [step |-> "ready"]
Installed == [manifest |-> NoVersion, binary |-> NoVersion]

PluginInit ==
    /\ dir = [n \in Names |-> Installed]
    /\ loaded = [n \in Names |-> NoVersion]
    /\ active = [n \in Names |-> FALSE]
    /\ prow = [n \in Names |-> "absent"]
    /\ call = NoCall
    /\ pluginCalls = 0 /\ pluginStarts = 0
    /\ head = 1 /\ worker = NoVersion
    /\ wbuild = [b \in WorkerBuilds |-> [ref |-> 1, step |-> "waiting", ran |-> {}]]

(***************************************************************************)
(* The loader.                                                             *)
(***************************************************************************)
Registered(n, memory) ==
    UNION {StepTypes[m][memory[m]] : m \in {k \in Names \ {n} : memory[k] # NoVersion}}

\* loadBinary: the manifest, the checksum of the binary, and step types nobody has.
Loadable(n, files, memory) ==
    /\ files[n].manifest # NoVersion
    /\ files[n].binary = files[n].manifest
    /\ StepTypes[n][files[n].manifest] \cap Registered(n, memory) = {}

\* Load enables what it loads.
Load(n) == /\ loaded' = [loaded EXCEPT ![n] = dir[n].manifest]
           /\ active' = [active EXCEPT ![n] = TRUE]

SetEnabled(n, on) == active' = [active EXCEPT ![n] = IF loaded[n] # NoVersion THEN on ELSE @]

Calls == call = NoCall /\ pluginCalls < MaxPluginCalls /\ pluginCalls' = pluginCalls + 1
Answers == call' = NoCall
Faulted(what) == what \in PluginFaults

(***************************************************************************)
(* installGitHubPlugin                                                     *)
(***************************************************************************)
\* A matching installation is used again, ...
InstallKnown(n) ==
    /\ Calls
    /\ dir[n].manifest # NoVersion
    /\ IF loaded[n] # NoVersion
       THEN call' = [step |-> "register", of |-> n] /\ UNCHANGED <<loaded, active>>
       ELSE IF Loadable(n, dir, loaded)
       THEN call' = [step |-> "register", of |-> n] /\ Load(n)
       ELSE Answers /\ UNCHANGED <<loaded, active>>
    /\ UNCHANGED <<dir, prow, pluginStarts, workerSide>>

\* ... another version is downloaded or built over the one that is there, ...
DownloadBinary(n, v) ==
    /\ Calls
    /\ dir[n].manifest # v
    /\ \/ dir' = [dir EXCEPT ![n].binary = v] /\ call' = [step |-> "manifest", of |-> n, version |-> v]
       \/ Faulted("download") /\ dir' = [dir EXCEPT ![n].binary = Garbage] /\ Answers
    /\ UNCHANGED <<loaded, active, prow, pluginStarts, workerSide>>

WriteManifest ==
    /\ call.step = "manifest"
    /\ dir' = [dir EXCEPT ![call.of].manifest = call.version]
    /\ call' = [call EXCEPT !.step = "load"]
    /\ UNCHANGED <<loaded, active, prow, pluginCalls, pluginStarts, workerSide>>

LoadInstalled ==
    /\ call.step = "load"
    /\ IF Loadable(call.of, dir, loaded)
       THEN Load(call.of) /\ call' = [call EXCEPT !.step = "register"]
       ELSE Answers /\ UNCHANGED <<loaded, active>>
    /\ UNCHANGED <<dir, prow, pluginCalls, pluginStarts, workerSide>>

\* Mutant of Choice: an installed plugin is enabled, whatever its row says.
ChoiceNew(n) == TRUE

\* The row's choice, TRUE without a row.
Choice(n) == prow[n] # "disabled"

\* ... and the row is brought up to date, then the row's choice is applied.
RegisterPlugin ==
    /\ call.step = "register"
    /\ Answers
    /\ LET n == call.of IN
       \/ /\ prow' = [prow EXCEPT ![n] = IF @ = "absent" THEN "enabled" ELSE @]
          /\ SetEnabled(n, Choice(n))
       \/ Faulted("metadata") /\ UNCHANGED <<prow, active>>
    /\ UNCHANGED <<dir, loaded, pluginCalls, pluginStarts, workerSide>>

(***************************************************************************)
(* togglePlugin, reloadPlugin, deletePlugin                                *)
(***************************************************************************)
TogglePlugin(n, on) ==
    /\ Calls
    /\ prow[n] # "absent"
    /\ IF on /\ loaded[n] = NoVersion
       THEN IF Loadable(n, dir, loaded)
            THEN Load(n) /\ call' = [step |-> "toggle", of |-> n, on |-> on, was |-> prow[n]]
            ELSE Answers /\ UNCHANGED <<loaded, active>>
       ELSE SetEnabled(n, on) /\ UNCHANGED loaded /\ call' = [step |-> "toggle", of |-> n, on |-> on, was |-> prow[n]]
    /\ UNCHANGED <<dir, prow, pluginStarts, workerSide>>

TakenBack(n, was) == SetEnabled(n, was = "enabled")

UpdatePluginEnabled ==
    /\ call.step = "toggle"
    /\ Answers
    /\ \/ prow' = [prow EXCEPT ![call.of] = IF call.on THEN "enabled" ELSE "disabled"] /\ UNCHANGED active
       \/ Faulted("toggle") /\ UNCHANGED prow /\ TakenBack(call.of, call.was)
    /\ UNCHANGED <<dir, loaded, pluginCalls, pluginStarts, workerSide>>

\* A file is replaced by hand, which reloading is for.
ReplaceFiles(n, v) ==
    /\ Calls
    /\ dir[n].manifest \notin {NoVersion, v}
    /\ dir' = [dir EXCEPT ![n] = [manifest |-> v, binary |-> v]]
    /\ call' = [step |-> "reload", of |-> n]
    /\ UNCHANGED <<loaded, active, prow, pluginStarts, workerSide>>

\* Reload unloads first, and loads what it finds.
Unload ==
    /\ call.step = "reload"
    /\ LET n == call.of IN
       IF prow[n] = "absent" THEN Answers /\ UNCHANGED <<loaded, active>>
       ELSE /\ loaded' = [loaded EXCEPT ![n] = NoVersion]
            /\ active' = [active EXCEPT ![n] = FALSE]
            /\ call' = [step |-> "load", of |-> n]
    /\ UNCHANGED <<dir, prow, pluginCalls, pluginStarts, workerSide>>

DeletePluginFiles(n) ==
    /\ Calls
    /\ prow[n] # "absent"
    /\ loaded' = [loaded EXCEPT ![n] = NoVersion]
    /\ active' = [active EXCEPT ![n] = FALSE]
    /\ dir' = [dir EXCEPT ![n] = Installed]
    /\ call' = [step |-> "row", of |-> n]
    /\ UNCHANGED <<prow, pluginStarts, workerSide>>

DeletePluginRow ==
    /\ call.step = "row"
    /\ prow' = [prow EXCEPT ![call.of] = "absent"]
    /\ Answers
    /\ UNCHANGED <<dir, loaded, active, pluginCalls, pluginStarts, workerSide>>

(***************************************************************************)
(* A start of the server: LoadAll in the order of the directory, then the  *)
(* rows.                                                                   *)
(***************************************************************************)
ReadBefore(m, n) == \E i, j \in DOMAIN NameOrder : i < j /\ NameOrder[i] = m /\ NameOrder[j] = n
Earlier(memory, n) == [m \in Names |-> IF ReadBefore(m, n) THEN memory[m] ELSE NoVersion]

\* Every plugin that does not clash with those before it.
LoadAll(memory) ==
    \A n \in Names :
        memory[n] = IF Loadable(n, dir, Earlier(memory, n)) THEN dir[n].manifest ELSE NoVersion

Restarted ==
    /\ pluginStarts < MaxPluginStarts
    /\ pluginStarts' = pluginStarts + 1
    /\ call' = NoCall
    /\ \E memory \in [Names -> {dir[n].manifest : n \in Names} \cup {NoVersion}] :
          LoadAll(memory) /\ loaded' = memory
    /\ prow' = [n \in Names |-> IF loaded'[n] # NoVersion /\ prow[n] = "absent" THEN "enabled" ELSE prow[n]]
    /\ active' = [n \in Names |-> loaded'[n] # NoVersion /\ Choice(n)]
    /\ UNCHANGED <<dir, pluginCalls, workerSide>>

(***************************************************************************)
(* The worker: EnsureBinaryReference, then the steps of the build.         *)
(***************************************************************************)
PushVersion ==
    /\ head < MaxHeads
    /\ head' = head + 1
    /\ wbuild' = [b \in WorkerBuilds |-> IF wbuild[b].step = "waiting" THEN [wbuild[b] EXCEPT !.ref = head + 1] ELSE wbuild[b]]
    /\ UNCHANGED <<worker, serverSide>>

CompareLoaded(b) ==
    /\ wbuild[b].step = "waiting"
    /\ wbuild' = [wbuild EXCEPT ![b].step = IF worker = wbuild[b].ref THEN "running" ELSE "install"]
    /\ UNCHANGED <<head, worker, serverSide>>

Matches(b) == head = wbuild[b].ref

InstallReference(b) ==
    /\ wbuild[b].step = "install"
    /\ worker' = head
    /\ wbuild' = [wbuild EXCEPT ![b].step = IF Matches(b) THEN "running" ELSE "refused"]
    /\ UNCHANGED <<head, serverSide>>

LookupStep(b) ==
    /\ wbuild[b].step = "running"
    /\ wbuild' = [wbuild EXCEPT ![b].ran = @ \cup {worker}]
    /\ UNCHANGED <<head, worker, serverSide>>

EndOfBuild(b) ==
    /\ wbuild[b].step = "running"
    /\ wbuild' = [wbuild EXCEPT ![b].step = "waiting", ![b].ran = {}, ![b].ref = head]
    /\ UNCHANGED <<head, worker, serverSide>>

PluginNext ==
    \/ \E n \in Names :
        \/ InstallKnown(n) \/ DeletePluginFiles(n)
        \/ \E v \in PluginVersions : DownloadBinary(n, v) \/ ReplaceFiles(n, v)
        \/ \E on \in BOOLEAN : TogglePlugin(n, on)
    \/ WriteManifest \/ LoadInstalled \/ RegisterPlugin \/ UpdatePluginEnabled \/ Unload \/ DeletePluginRow
    \/ Restarted
    \/ PushVersion
    \/ \E b \in WorkerBuilds : CompareLoaded(b) \/ InstallReference(b) \/ LookupStep(b) \/ EndOfBuild(b)

PluginSpec == PluginInit /\ [][PluginNext]_pluginVars

(***************************************************************************)
(* Properties.                                                             *)
(***************************************************************************)

\* A step type has one plugin that executes it, enabled or not, so that
\* LookupStep, which goes through a map, has no choice.
StepsHaveOneOwner ==
    \A n, m \in DOMAIN loaded :
        n # m /\ loaded[n] # NoVersion /\ loaded[m] # NoVersion
        => StepTypes[n][loaded[n]] \cap StepTypes[m][loaded[m]] = {}

\* Between two requests the loader executes what the rows say is enabled: a
\* plugin that was disabled stays so through updates, reloads and restarts.
ChoiceIsKept ==
    call = NoCall => \A n \in DOMAIN loaded : loaded[n] # NoVersion /\ prow[n] # "absent" => (active[n] <=> prow[n] = "enabled")

\* The steps of a build on a worker run with the version the server referred to.
StepsRunTheReference == \A b \in DOMAIN wbuild : wbuild[b].ran \subseteq {wbuild[b].ref}

\* A step is executed by the plugin, and on a worker by the version, that the server
\* chose for it, through updates, reloads and restarts.
PluginsAreChosen ==
    /\ StepsHaveOneOwner
    /\ ChoiceIsKept
    /\ StepsRunTheReference
=============================================================================
