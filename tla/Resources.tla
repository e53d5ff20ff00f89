------------------------------ MODULE Resources ------------------------------
(***************************************************************************)
(* What projects share: credentials, VCS roots and build templates, as     *)
(* rows that administrators edit while the poller and the runner use them. *)
(*                                                                         *)
(* Every handler that edits one reads, decides and writes in statements of *)
(* their own; only the deletion of a template counts and deletes in one    *)
(* transaction.  A build is accepted with one reading of its project's     *)
(* template (loadProjectBuildConfig) and run with another                  *)
(* (loadBuildConfig).                                                      *)
(***************************************************************************)
EXTENDS Naturals, Sequences, FiniteSets, SequencesExt

CONSTANTS
    Editors,           \* requests at a time
    Secrets,           \* what may be entered into a secret field
    HostOrder,         \* hosts of credentials, in descending order of their text
    Lookups,           \* hosts that are looked up
    TemplateConfigs,   \* pipeline configurations of templates and ...
    ProjectConfigs,    \* ... of projects
    MaxCredentials, MaxTemplates, MaxEdits, MaxPolls, MaxRuns   \* bounds

\* Hosts are sequences of labels.
ASSUME ResourceAssumption ==
    /\ HostOrder \in Seq(ToSet(HostOrder))
    /\ \A host \in ToSet(HostOrder) \cup Lookups : host \in Seq(ToSet(host))

VARIABLES
    credential,   \* rows: host, password, token
    entered,      \* history: per credential and secret field, what was entered there
    root,         \* the VCS root, or NoRow
    asked,        \* history: the branch and interval of the last edit of the root
    poll,         \* the poller: the row it has listed, and what the remote answered
    template,     \* rows: the configuration
    project,      \* the project that uses a template: its configuration and reference
    build,        \* its builds: what they were accepted and run with
    editor,       \* per request: where it is
    edits, polls

resourceVars == <<credential, entered, root, asked, poll, template, project, build, editor, edits, polls>>

NoRow == [row |-> FALSE]
Mask == "********"
Empty == ""
Fields == {"password", "token"}
NoTemplate == 0
Free == [step |-> "ready"]

ResourceInit ==
    /\ credential = <<>> /\ entered = <<>>
    /\ root = NoRow /\ asked = NoRow
    /\ poll = Free
    /\ template = <<>>
    /\ project = [config |-> CHOOSE c \in ProjectConfigs : TRUE, template |-> NoTemplate]
    /\ build = <<>>
    /\ editor = [e \in Editors |-> Free]
    /\ edits = 0 /\ polls = 0

Begins(e) == editor[e] = Free /\ edits < MaxEdits /\ edits' = edits + 1
Ends(e) == editor' = [editor EXCEPT ![e] = Free]

onlyCredentials == <<root, asked, poll, template, project, build, polls>>
onlyRoot == <<credential, entered, template, project, build>>
onlyTemplates == <<credential, entered, root, asked, poll, polls>>

(***************************************************************************)
(* Credentials.  A form shows a stored secret as Mask, and sends Mask back *)
(* for a field that was left alone.                                        *)
(***************************************************************************)
Rows(table) == {i \in DOMAIN table : table[i] # NoRow}

CreateCredential(e) ==
    \E host \in ToSet(HostOrder), secret \in [Fields -> Secrets \cup {Empty}] :
        /\ Len(credential) < MaxCredentials
        /\ Begins(e)
        /\ credential' = Append(credential, [host |-> host, secret |-> secret])
        /\ entered' = Append(entered, [f \in Fields |-> {secret[f], Empty}])
        /\ UNCHANGED <<editor, onlyCredentials>>

\* updateCredential reads the row that the placeholders stand for ...
ReadCredential(e) ==
    \E c \in Rows(credential), host \in ToSet(HostOrder), secret \in [Fields -> Secrets \cup {Empty, Mask}] :
        /\ Begins(e)
        /\ editor' = [editor EXCEPT ![e] = [step |-> "credential", id |-> c, host |-> host, given |-> secret,
                                            existing |-> credential[c].secret]]
        /\ entered' = [entered EXCEPT ![c] = [f \in Fields |-> @[f] \cup ({secret[f]} \ {Mask})]]
        /\ UNCHANGED <<credential, onlyCredentials>>

Kept(given, existing) == [f \in Fields |-> IF given[f] = Mask THEN existing[f] ELSE given[f]]

\* ... and updates every column of it, if it is still there.
UpdateCredential(e) ==
    /\ editor[e].step = "credential"
    /\ Ends(e)
    /\ LET was == editor[e] IN
       credential' = IF credential[was.id] = NoRow THEN credential
                     ELSE [credential EXCEPT ![was.id] = [host |-> was.host, secret |-> Kept(was.given, was.existing)]]
    /\ UNCHANGED <<entered, edits, onlyCredentials>>

DeleteCredential(e) ==
    \E c \in Rows(credential) :
        /\ Begins(e)
        /\ credential' = [credential EXCEPT ![c] = NoRow]
        /\ UNCHANGED <<entered, editor, onlyCredentials>>

\* Rows of a query are ordered by host, descending; <<>> is the text "", the least one.
Place(c) == CHOOSE i \in DOMAIN HostOrder : HostOrder[i] = credential[c].host
Before(c, d) == Place(c) < Place(d) \/ (Place(c) = Place(d) /\ c <= d)

\* The first row of the query whose host is one of these, 0 when none is.
FirstOfRows(hosts) ==
    LET found == {c \in Rows(credential) : credential[c].host \in hosts}
    IN  IF found = {} THEN 0 ELSE CHOOSE c \in found : \A d \in found : Before(c, d)

\* The exact host, else the first one it ends with, else one for every host; 0 when there is none.
FindCredential(host) ==
    LET exact == FirstOfRows({host})
        suffix == FirstOfRows({h \in ToSet(HostOrder) \ {<<>>} : IsSuffix(h, host)})
        global == FirstOfRows({<<>>})
    IN  IF exact # 0 THEN exact ELSE IF suffix # 0 THEN suffix ELSE global

(***************************************************************************)
(* The VCS root and the poller, which keeps the last commit it saw in the  *)
(* column config.                                                          *)
(***************************************************************************)
Branches == {"main", "dev"}
Intervals == {0, 60}
Omitted == -1

CreateVCSRoot(e) ==
    \E b \in Branches, i \in Intervals \cup {Omitted} :
        /\ root = NoRow /\ asked = NoRow
        /\ Begins(e)
        /\ root' = [row |-> TRUE, branch |-> b, interval |-> IF i = Omitted THEN 60 ELSE i, seen |-> 0]
        /\ asked' = [branch |-> b, seen |-> 0]
        /\ UNCHANGED <<poll, editor, polls, onlyRoot>>

\* updateVCSRoot reads the interval that a request without one keeps ...
ReadVCSRoot(e) ==
    \E b \in Branches, i \in Intervals \cup {Omitted} :
        /\ root # NoRow
        /\ Begins(e)
        /\ editor' = [editor EXCEPT ![e] = [step |-> "root", branch |-> b, seen |-> root.seen,
                                            interval |-> IF i = Omitted THEN root.interval ELSE i]]
        /\ UNCHANGED <<root, asked, poll, polls, onlyRoot>>

\* ... and writes the row, the column config with what the form held.
UpdateVCSRoot(e) ==
    /\ editor[e].step = "root"
    /\ Ends(e)
    /\ LET was == editor[e] IN
       IF root = NoRow THEN UNCHANGED <<root, asked>>
       ELSE /\ root' = [row |-> TRUE, branch |-> was.branch, interval |-> was.interval, seen |-> was.seen]
            /\ asked' = [branch |-> was.branch, seen |-> was.seen]
    /\ UNCHANGED <<poll, edits, polls, onlyRoot>>

DeleteVCSRoot(e) ==
    /\ root # NoRow
    /\ Begins(e)
    /\ root' = NoRow
    /\ UNCHANGED <<asked, poll, editor, polls, onlyRoot>>

\* pollVCSRoots lists the roots, asks the remote, and stores what it answered.
ListVCSRoots ==
    /\ poll = Free /\ polls < MaxPolls /\ root # NoRow
    /\ root.interval > 0
    /\ poll' = [step |-> "listed", listed |-> root]
    /\ polls' = polls + 1
    /\ UNCHANGED <<root, asked, editor, edits, onlyRoot>>

StoredConfig(commit) == [root EXCEPT !.seen = commit]

UpdateVCSRootConfig ==
    /\ poll # Free
    /\ poll' = Free
    /\ \E commit \in {poll.listed.seen, poll.listed.seen + 1} :
          root' = IF commit # poll.listed.seen /\ root # NoRow THEN StoredConfig(commit) ELSE root
    /\ UNCHANGED <<asked, editor, edits, polls, onlyRoot>>

(***************************************************************************)
(* Templates, the project that refers to one, and its builds.              *)
(***************************************************************************)
CreateBuildTemplate(e) ==
    \E config \in TemplateConfigs :
        /\ Len(template) < MaxTemplates
        /\ Begins(e)
        /\ template' = Append(template, [row |-> TRUE, config |-> config])
        /\ UNCHANGED <<project, build, editor, onlyTemplates>>

Touched(t) ==
    [b \in DOMAIN build |-> IF ~ build[b].started /\ project.template = t
                            THEN [build[b] EXCEPT !.touched = TRUE] ELSE build[b]]

UpdateBuildTemplate(e) ==
    \E t \in Rows(template), config \in TemplateConfigs :
        /\ Begins(e)
        /\ template' = [template EXCEPT ![t].config = config]
        /\ build' = Touched(t)
        /\ UNCHANGED <<project, editor, onlyTemplates>>

\* createProject and updateProject check that the template is there ...
ValidateProjectBuildTemplate(e) ==
    \E t \in Rows(template) \cup {NoTemplate}, config \in ProjectConfigs :
        /\ Begins(e)
        /\ editor' = [editor EXCEPT ![e] = [step |-> "project", template |-> t, config |-> config]]
        /\ UNCHANGED <<template, project, build, onlyTemplates>>

\* ... before they store the reference.
StoreProject(e) ==
    /\ editor[e].step = "project"
    /\ Ends(e)
    /\ project' = [template |-> editor[e].template, config |-> editor[e].config]
    /\ build' = Touched(project.template)
    /\ UNCHANGED <<template, edits, onlyTemplates>>

\* Mutant of References: the reference is not counted once builds were accepted with it.
ReferencesUnbuilt(t) == {p \in {project} : p.template = t /\ build = <<>>}

References(t) == {p \in {project} : p.template = t}

DeleteBuildTemplate(e) ==
    \E t \in Rows(template) :
        /\ Begins(e)
        /\ References(t) = {}
        /\ template' = [template EXCEPT ![t] = NoRow]
        /\ UNCHANGED <<project, build, editor, onlyTemplates>>

MergeBuildConfig(t, p) ==
    [approval |-> IF p.approval # Empty THEN p.approval ELSE t.approval,
     exclusive |-> t.exclusive \/ p.exclusive,
     abort |-> IF p.exclusive THEN p.abort ELSE t.abort,
     stages |-> IF p.stages = <<>> THEN t.stages ELSE p.stages,
     triggers |-> t.triggers \o p.triggers]

\* loadProjectBuildConfig refuses a trigger whose template is gone ...
MayAccept == project.template = NoTemplate \/ project.template \in Rows(template)

AcceptedConfig == IF project.template = NoTemplate THEN project.config
                  ELSE MergeBuildConfig(template[project.template].config, project.config)

AcceptBuild ==
    /\ Len(build) < MaxRuns
    /\ MayAccept
    /\ build' = Append(build, [accepted |-> AcceptedConfig, ran |-> AcceptedConfig, started |-> FALSE, touched |-> FALSE])
    /\ UNCHANGED <<template, project, editor, edits, onlyTemplates>>

\* ... and the runner goes on without it.
RunConfig == IF project.template \in Rows(template)
             THEN MergeBuildConfig(template[project.template].config, project.config) ELSE project.config

StartBuild(b) ==
    /\ ~ build[b].started
    /\ build' = [build EXCEPT ![b].ran = RunConfig, ![b].started = TRUE]
    /\ UNCHANGED <<template, project, editor, edits, onlyTemplates>>

ResourceNext ==
    \/ \E e \in Editors :
        \/ CreateCredential(e) \/ ReadCredential(e) \/ UpdateCredential(e) \/ DeleteCredential(e)
        \/ CreateVCSRoot(e) \/ ReadVCSRoot(e) \/ UpdateVCSRoot(e) \/ DeleteVCSRoot(e)
        \/ CreateBuildTemplate(e) \/ UpdateBuildTemplate(e) \/ DeleteBuildTemplate(e)
        \/ ValidateProjectBuildTemplate(e) \/ StoreProject(e)
    \/ ListVCSRoots \/ UpdateVCSRootConfig
    \/ AcceptBuild
    \/ \E b \in DOMAIN build : StartBuild(b)

ResourceSpec == ResourceInit /\ [][ResourceNext]_resourceVars

(***************************************************************************)
(* Properties.                                                             *)
(***************************************************************************)

\* What a secret field holds was entered into that field of that credential,
\* whoever edited it in between: never a placeholder, never a neighbour's value.
SecretsStayInTheirField ==
    \A c \in Rows(credential), f \in Fields : credential[c].secret[f] \in entered[c][f]

\* A lookup answers a credential of the host itself when there is one, never
\* one of another host, and the one for every host only when no other fits.
LookupPrefersTheHost ==
    \A host \in Lookups :
        LET found == FindCredential(host)
            fit == {c \in Rows(credential) : credential[c].host # <<>> /\ IsSuffix(credential[c].host, host)}
        IN  /\ found = 0 <=> \A c \in Rows(credential) : ~ IsSuffix(credential[c].host, host)
            /\ fit # {} => found \in fit
            /\ (\E c \in fit : credential[c].host = host) => credential[found].host = host

\* The poller, which works with the row it listed, does not bring back the
\* branch an administrator has changed since.
EditSurvivesPolling == root # NoRow => root.branch = asked.branch

\* No template goes while a project refers to it.
TemplateInUseIsKept ==
    [][project.template \in Rows(template) /\ project.template = project'.template
       => project'.template \in Rows(template')]_resourceVars

\* A build runs with the configuration its trigger was accepted with, unless
\* its project or its template was changed while it was waiting.
RunsAsAccepted == \A b \in DOMAIN build : build[b].started /\ ~ build[b].touched => build[b].ran = build[b].accepted

\* A template's approval gate holds in every build of a project that has none
\* of its own, whatever else the project overrides.
GateIsInherited ==
    MayAccept /\ project.template # NoTemplate /\ template[project.template].config.approval # Empty
    => AcceptedConfig.approval # Empty

\* Whatever pollers, administrators and builds do with credentials, VCS roots and
\* templates at a time, each gets what was entered for it.
ResourcesAreConsistent ==
    /\ []SecretsStayInTheirField
    /\ []LookupPrefersTheHost
    /\ []EditSurvivesPolling
    /\ []RunsAsAccepted
    /\ []GateIsInherited
    /\ TemplateInUseIsKept
=============================================================================
