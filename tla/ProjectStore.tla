---------------------------- MODULE ProjectStore ----------------------------
(***************************************************************************)
(* Projects, their groups and the order they are shown in.                 *)
(*                                                                         *)
(* createProject and updateProject check what a request refers to, and     *)
(* then write the project with one statement per concern; requests of      *)
(* other users come between any two of them.  Reordering and deletion are  *)
(* single transactions.  A client reorders what it has listed earlier.     *)
(***************************************************************************)
EXTENDS Naturals, Sequences, FiniteSets, SequencesExt

CONSTANTS
    Writers,          \* handler goroutines that create or update a project
    MaxProjects,      \* bound: projects created, numbered from 1
    MaxProjectWrites, \* bound: requests that write a project
    MaxReorders       \* bound: reorder requests that are accepted

ASSUME ProjectAssumption == {MaxProjects, MaxProjectWrites, MaxReorders} \subseteq Nat

VARIABLES
    project,   \* the rows, a function on the identifiers in use
    created,   \* AUTOINCREMENT of projects
    group,     \* identifiers of project_groups, at most one here
    position,  \* project_display_order, a function on project identifiers
    token,     \* credentials generated so far
    writer,    \* what each handler is doing and what it has read
    view,      \* what the client has listed
    arranged,  \* history: the projects there were at the last reorder
    writes, reorders

projectVars == <<project, created, group, position, token, writer, view, arranged, writes, reorders>>
tables == <<project, created, group, position, token>>

\* A pipeline is kept in columns two statements write: the text, and where it comes from.
NewProject == [text |-> "none", mode |-> "inline", group |-> 0, trigger |-> 0]
ReadyRequest == [step |-> "ready", id |-> 0, text |-> "none", mode |-> "inline", group |-> 0,
          switch |-> "keep", previous |-> 0]

ProjectInit ==
    /\ project = <<>> /\ created = 0 /\ group = {} /\ position = <<>>
    /\ token = 0
    /\ writer = [h \in Writers |-> ReadyRequest]
    /\ view = <<>> /\ arranged = {}
    /\ writes = 0 /\ reorders = 0

Ids == DOMAIN project
Continue(h, step) == writer' = [writer EXCEPT ![h].step = step]
Answer(h) == writer' = [writer EXCEPT ![h] = ReadyRequest]

(***************************************************************************)
(* Writing a project.                                                      *)
(***************************************************************************)
\* The checks of createProject and updateProject: an inline pipeline needs a text, and
\* the group has to exist.  id 0 is a project to be created.
ValidateRequest(h, id, mode, text, g, switch) ==
    /\ writer[h] = ReadyRequest
    /\ writes < MaxProjectWrites
    /\ writes' = writes + 1
    /\ mode = "inline" => text # "none"
    /\ g # 0 => g \in group
    /\ writer' = [writer EXCEPT ![h] =
           [step |-> IF id = 0 THEN "insert" ELSE "load", id |-> id, text |-> text, mode |-> mode,
            group |-> g, switch |-> switch, previous |-> 0]]
    /\ UNCHANGED <<tables, view, arranged, reorders>>

CreateProject(h) ==
    /\ writer[h].step = "insert"
    /\ created < MaxProjects
    /\ created' = created + 1
    /\ project' = [p \in Ids \cup {created + 1} |->
                      IF p \in Ids THEN project[p] ELSE [NewProject EXCEPT !.text = writer[h].text]]
    /\ writer' = [writer EXCEPT ![h].id = created + 1, ![h].step = "source"]
    /\ UNCHANGED <<group, position, token, view, arranged, writes, reorders>>

\* updateProject reads the row; the credential it finds is the one it will keep.
GetProject(h) ==
    /\ writer[h].step = "load"
    /\ writer' = [writer EXCEPT ![h] =
           IF writer[h].id \in Ids
           THEN [@ EXCEPT !.step = "update", !.previous = project[writer[h].id].trigger] ELSE ReadyRequest]
    /\ UNCHANGED <<tables, view, arranged, writes, reorders>>

\* An UPDATE ... WHERE id=? of a project that is gone changes nothing.
Updated(p, row) == IF p \in Ids THEN [project EXCEPT ![p] = row] ELSE project
ProjectRow(h) == IF writer[h].id \in Ids THEN project[writer[h].id] ELSE NewProject

UpdateProject(h) ==
    /\ writer[h].step = "update"
    /\ project' = Updated(writer[h].id, [ProjectRow(h) EXCEPT !.text = writer[h].text])
    /\ Continue(h, "source")
    /\ UNCHANGED <<created, group, position, token, view, arranged, writes, reorders>>

SetProjectPipelineSource(h) ==
    /\ writer[h].step = "source"
    /\ project' = Updated(writer[h].id, [ProjectRow(h) EXCEPT !.mode = writer[h].mode])
    /\ Continue(h, "group")
    /\ UNCHANGED <<created, group, position, token, view, arranged, writes, reorders>>

\* SetProjectGroup looks the group up once more, and updates in a second statement.
GetProjectGroup(h) ==
    /\ writer[h].step = "group"
    /\ IF writer[h].group = 0 \/ writer[h].group \in group THEN Continue(h, "join") ELSE Answer(h)
    /\ UNCHANGED <<tables, view, arranged, writes, reorders>>

SetProjectGroup(h) ==
    /\ writer[h].step = "join"
    /\ project' = Updated(writer[h].id, [ProjectRow(h) EXCEPT !.group = writer[h].group])
    /\ IF writer[h].id \in Ids /\ writer[h].switch # "keep" THEN Continue(h, "trigger") ELSE Answer(h)
    /\ UNCHANGED <<created, group, position, token, view, arranged, writes, reorders>>

\* setProjectHTTPTrigger: switched off, the credential is gone; switched on, the one that
\* was read is kept, or a new one made.
SetProjectHTTPTrigger(h) ==
    LET fresh == writer[h].switch = "on" /\ writer[h].previous = 0
        credential == IF writer[h].switch = "off" THEN 0
                      ELSE IF fresh THEN token + 1 ELSE writer[h].previous
    IN  /\ writer[h].step = "trigger"
        /\ token' = IF fresh THEN token + 1 ELSE token
        /\ project' = Updated(writer[h].id, [ProjectRow(h) EXCEPT !.trigger = credential])
        /\ Answer(h)
        /\ UNCHANGED <<created, group, position, view, arranged, writes, reorders>>

(***************************************************************************)
(* Groups, deletion and the order.                                         *)
(***************************************************************************)
CreateProjectGroup ==
    /\ group = {}
    /\ group' = {1}
    /\ UNCHANGED <<project, created, position, token, writer, view, arranged, writes, reorders>>

Without(f, set) == [p \in DOMAIN f \ set |-> f[p]]

\* Mutant of DeletedWith: no WHERE on the order.
DeletedWithOrder(set) == /\ project' = Without(project, set) /\ position' = <<>>

\* deleteProjectTx, as far as the tables of this module go.
DeletedWith(set) ==
    /\ project' = Without(project, set)
    /\ position' = Without(position, set)

DeleteProject(p) ==
    /\ DeletedWith({p})
    /\ UNCHANGED <<created, group, token, writer, view, arranged, writes, reorders>>

Members(g) == {p \in Ids : project[p].group = g}

\* Its projects are retained and become ungrouped, unless they are to be deleted too.
DeleteProjectGroupWithProjects(g, deleteProjects) ==
    /\ group' = group \ {g}
    /\ IF deleteProjects THEN DeletedWith(Members(g))
       ELSE /\ project' = [p \in Ids |-> IF p \in Members(g) THEN [project[p] EXCEPT !.group = 0] ELSE project[p]]
            /\ UNCHANGED position
    /\ UNCHANGED <<created, token, writer, view, arranged, writes, reorders>>

\* ORDER BY position IS NULL, position, id DESC
ShownBefore(p, q) ==
    IF p \in DOMAIN position /\ q \in DOMAIN position THEN position[p] < position[q]
    ELSE p \in DOMAIN position \/ (q \notin DOMAIN position /\ p > q)

\* The list a client works on, all projects or those of the quick access.
ListProjects(shown) ==
    /\ \E list \in [1..Cardinality(shown) -> shown] :
          /\ \A i, j \in DOMAIN list : i < j => ShownBefore(list[i], list[j])
          /\ view' = list
    /\ UNCHANGED <<tables, writer, arranged, writes, reorders>>

NamesEveryProject(ids) == Len(ids) = Cardinality(Ids) /\ ToSet(ids) = Ids

\* ReorderProjects: the client sends its list with the last project moved to the front.
ReorderProjects ==
    LET ids == IF view = <<>> THEN view ELSE <<Last(view)>> \o Front(view)
    IN  /\ reorders < MaxReorders
        /\ NamesEveryProject(ids)
        /\ reorders' = reorders + 1
        /\ position' = [p \in ToSet(ids) |-> (CHOOSE i \in DOMAIN ids : ids[i] = p) - 1]
        /\ arranged' = Ids
        /\ view' = ids
        /\ UNCHANGED <<project, created, group, token, writer, writes>>

ProjectNext ==
    \/ \E h \in Writers :
        \/ \E id \in Ids \cup {0}, mode \in {"inline", "scm"}, text \in {"none", "pipeline"},
              g \in {0, 1}, switch \in {"keep", "on", "off"} : ValidateRequest(h, id, mode, text, g, switch)
        \/ CreateProject(h) \/ GetProject(h) \/ UpdateProject(h) \/ SetProjectPipelineSource(h)
        \/ GetProjectGroup(h) \/ SetProjectGroup(h) \/ SetProjectHTTPTrigger(h)
    \/ CreateProjectGroup
    \/ \E p \in Ids : DeleteProject(p)
    \/ \E g \in group, deleteProjects \in BOOLEAN : DeleteProjectGroupWithProjects(g, deleteProjects)
    \/ \E shown \in SUBSET Ids : ListProjects(shown)
    \/ ReorderProjects

ProjectSpec == ProjectInit /\ [][ProjectNext]_projectVars

(***************************************************************************)
(* Properties                                                              *)
(***************************************************************************)
\* A stale or filtered list never drops a project from the order, nor brings one back
\* that was deleted: exactly what there was at the last reorder and still is has a place,
\* and no two projects have the same.
OrderIsComplete ==
    /\ DOMAIN position = arranged \cap Ids
    /\ \A p, q \in DOMAIN position : position[p] = position[q] => p = q

\* The order changes by reordering only: no edit, creation or deletion, of groups either,
\* exchanges two projects in the list.
OrderIsStable ==
    [][reorders' = reorders =>
           \A p, q \in Ids \cap DOMAIN project' : ShownBefore(p, q) => ShownBefore(p, q)']_projectVars

\* The list of projects is as it was last arranged, whoever edits, creates or deletes:
\* no step leaves an incomplete order, or another one.
OrderIsKept ==
    /\ [][OrderIsComplete']_projectVars
    /\ OrderIsStable
=============================================================================
