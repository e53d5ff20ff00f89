------------------------------ MODULE Variables ------------------------------
(***************************************************************************)
(* Variables of the control plane and of a project, the environment a      *)
(* build gets from them, and the values that are masked in its log.        *)
(*                                                                         *)
(* A build reads the variables twice: once when it is configured, for the  *)
(* values to mask, and once more after its checkout, for its environment.  *)
(* Users save and delete variables at any time.                            *)
(*                                                                         *)
(* A text is a sequence of tokens; a token that is a name stands for       *)
(* ${name}, any other one for characters.                                  *)
(***************************************************************************)
EXTENDS Naturals, Sequences, FiniteSets, SequencesExt

CONSTANTS
    VarOrder,     \* all names, in the order of sort.Strings
    SavedNames,   \* those users save variables under
    Texts,        \* what they enter
    Process,      \* the environment of the server, a function from names to texts
    Declared,     \* the environment of the pipeline and the BUILD_* and JOB_* names
    Parameters,   \* parameters of the build, when the pipeline is a Jenkinsfile
    Release,      \* those of them that select a release
    Workspace,    \* the text of the path of its workspace
    MaxSaves      \* bound: saves

\* The names a release is selected with are six fixed ones of the engine.
ASSUME VariablesAssumption ==
    /\ SavedNames \cup DOMAIN Declared \cup DOMAIN Parameters \cup DOMAIN Release \cup {"WORKSPACE"}
           \subseteq ToSet(VarOrder)
    /\ VarOrder \in Seq(ToSet(VarOrder)) /\ \A n \in DOMAIN Release : Release[n] \in Seq(ToSet(Release[n]))
    /\ "WORKSPACE" \notin DOMAIN Release

VARIABLES
    envVars,  \* the rows of env_vars in the order of their identifiers
    run,      \* the build: its phase, what is masked and its environment
    edited,   \* history: the rows have changed since the build was configured
    saved,    \* history: per scope, what each name was saved as last; not after a deletion
    saves

varVars == <<envVars, run, edited, saved, saves>>

Scopes == {"global", "project"}
Waiting == [phase |-> "waiting", masked |-> {}, env |-> <<>>]

VarInit ==
    /\ envVars = <<>> /\ run = Waiting /\ edited = FALSE
    /\ saved = [scope \in Scopes |-> <<>>]
    /\ saves = 0

(***************************************************************************)
(* Reading the table.                                                      *)
(***************************************************************************)
RowsOf(scope, name) == {i \in DOMAIN envVars : envVars[i].scope = scope /\ envVars[i].name = name}
NamesOf(scope) == {envVars[i].name : i \in {j \in DOMAIN envVars : envVars[j].scope = scope}}

Without(map, name) == [n \in DOMAIN map \ {name} |-> map[n]]
Put(map, name, value) == [n \in DOMAIN map \cup {name} |-> IF n = name THEN value ELSE map[n]]
Over(upper, lower) ==
    [n \in DOMAIN upper \cup DOMAIN lower |-> IF n \in DOMAIN upper THEN upper[n] ELSE lower[n]]

\* Rows of one name are read in the order of their identifiers into a map.
Winner(indices) == CHOOSE i \in indices : \A j \in indices : j <= i
Effective(scope) == [n \in NamesOf(scope) |-> envVars[Winner(RowsOf(scope, n))].value]

(***************************************************************************)
(* buildEnvAt                                                              *)
(***************************************************************************)
\* The release selection is merged after the variables.
Authoritative(variables, inherited) == Over(Release, Over(variables, inherited))

\* A name that several layers have is taken from the first one here, which the code
\* merges last; parameters never replace what the pipeline declares.
Configured(workspace) ==
    Over(workspace,
         Authoritative(Over(Effective("project"), Effective("global")), Over(Declared, Parameters)))

Nowhere == <<>>
InWorkspace == [n \in {"WORKSPACE"} |-> Workspace]

\* What a reference in the value of `current` stands for.
Refer(current, reference, resolved, configured) ==
    IF reference = current
    THEN IF reference \in DOMAIN Process THEN Process[reference] ELSE <<reference>>
    ELSE IF reference \in DOMAIN resolved THEN resolved[reference]
    ELSE IF reference \in DOMAIN configured THEN configured[reference]
    ELSE IF reference \in DOMAIN Process THEN Process[reference] ELSE <<reference>>

Substitute(current, resolved, configured) ==
    FlattenSeq([i \in DOMAIN configured[current] |->
        Refer(current, configured[current][i], resolved, configured)])

\* One pass over the names in their order; what a pass has resolved it uses itself.
Resolve(resolved, name, configured) ==
    IF name \in DOMAIN configured THEN Put(resolved, name, Substitute(name, resolved, configured)) ELSE resolved

Resolving(resolved, configured) ==
    LET after[k \in 0..Len(VarOrder)] ==
            IF k = 0 THEN resolved ELSE Resolve(after[k - 1], VarOrder[k], configured)
    IN  after
Pass(resolved, configured) == Resolving(resolved, configured)[Len(VarOrder)]

\* Mutant of Passes: one is enough.
OnePass(configured) == 1

Passes(configured) == Cardinality(DOMAIN configured) + 1

Expanding(configured) ==
    LET after[p \in 0..Passes(configured)] == IF p = 0 THEN <<>> ELSE Pass(after[p - 1], configured) IN after
ExpandConfiguredEnvironment(configured) == Expanding(configured)[Passes(configured)]

(***************************************************************************)
(* collectBuildSecretValues                                                *)
(***************************************************************************)
SecretNames == {envVars[i].name : i \in {j \in DOMAIN envVars : envVars[j].secret}}
ValuesOf(env) == {env[n] : n \in SecretNames \cap DOMAIN env}

\* As they were entered, and expanded, for which there is no workspace yet.
MaskedValues ==
    {envVars[i].value : i \in {j \in DOMAIN envVars : envVars[j].secret}}
    \cup ValuesOf(ExpandConfiguredEnvironment(Configured(Nowhere)))

(***************************************************************************)
(* Actions                                                                 *)
(***************************************************************************)
\* The upsert finds a variable of a project; rows without a project never conflict.
SetEnvVar(scope, name, value, secret) ==
    LET same == RowsOf(scope, name)
        new == [scope |-> scope, name |-> name, value |-> value, secret |-> secret]
    IN  /\ saves < MaxSaves
        /\ saves' = saves + 1
        /\ envVars' = IF scope = "project" /\ same # {}
                      THEN [i \in DOMAIN envVars |-> IF i \in same THEN new ELSE envVars[i]]
                      ELSE Append(envVars, new)
        /\ saved' = [saved EXCEPT ![scope] = Put(@, name, value)]
        /\ edited' = TRUE
        /\ UNCHANGED run

DeleteEnvVar(i) ==
    /\ envVars' = RemoveAt(envVars, i)
    /\ saved' = [saved EXCEPT ![envVars[i].scope] = Without(@, envVars[i].name)]
    /\ edited' = TRUE
    /\ UNCHANGED <<run, saves>>

ConfigureBuildSecretMasker ==
    /\ run.phase = "waiting"
    /\ run' = [Waiting EXCEPT !.phase = "checkout", !.masked = MaskedValues]
    /\ edited' = FALSE
    /\ UNCHANGED <<envVars, saved, saves>>

\* After the slot was acquired and the sources were checked out.
BuildEnvAt ==
    /\ run.phase = "checkout"
    /\ run' = [run EXCEPT !.phase = "running", !.env = ExpandConfiguredEnvironment(Configured(InWorkspace))]
    /\ UNCHANGED <<envVars, edited, saved, saves>>

ClearBuildSecretMasker ==
    /\ run.phase # "waiting"
    /\ run' = Waiting
    /\ UNCHANGED <<envVars, edited, saved, saves>>

VarNext ==
    \/ \E scope \in Scopes, name \in SavedNames, value \in Texts, secret \in BOOLEAN :
           SetEnvVar(scope, name, value, secret)
    \/ \E i \in DOMAIN envVars : DeleteEnvVar(i)
    \/ ConfigureBuildSecretMasker \/ BuildEnvAt \/ ClearBuildSecretMasker

VarSpec == VarInit /\ [][VarNext]_varVars

(***************************************************************************)
(* Properties                                                              *)
(***************************************************************************)
\* What the text of a name refers to; a reference to itself is one to the process.
Refers(configured, name) == (ToSet(configured[name]) \cap DOMAIN configured) \ {name}

\* Names that have all they refer to among them, and no cycle.
Grounded(configured, names) ==
    /\ \A n \in names : Refers(configured, n) \subseteq names
    /\ \A some \in SUBSET names : some = {} \/ \E n \in some : Refers(configured, n) \cap some = {}

\* In a running build every reference that leads into no cycle is followed to the end,
\* in whatever order the names are sorted: each value is its text with the values the
\* build has for what it refers to.
ExpansionIsComplete ==
    run.phase = "running" /\ ~edited =>
        LET configured == Configured(InWorkspace)
        IN  /\ DOMAIN run.env = DOMAIN configured
            /\ \A names \in SUBSET DOMAIN configured :
                   Grounded(configured, names) =>
                       \A n \in names : run.env[n] = Substitute(n, run.env, configured)

\* A build gets what was saved last, of its project before the global one, although
\* every save of a global variable leaves the earlier ones in the table.
LastSaveWins ==
    \A n \in SavedNames \ DOMAIN Release :
        LET of(scope) == n \in DOMAIN saved[scope] /\ Configured(Nowhere)[n] = saved[scope][n]
        IN  IF n \in DOMAIN saved["project"] THEN of("project")
            ELSE n \in DOMAIN saved["global"] /\ n \notin NamesOf("project") => of("global")

\* Nobody replaces the release a build was triggered for, whatever variables are called.
ReleaseIsAuthoritative ==
    run.phase = "running" =>
        \A n \in DOMAIN Release :
            /\ n \in DOMAIN run.env
            /\ ToSet(Release[n]) \cap (ToSet(VarOrder) \cup DOMAIN Process) = {} => run.env[n] = Release[n]

\* Of secrets nobody has edited meanwhile, the values a build gets are the values that
\* are masked, but for those that refer to the workspace, which is not known when they
\* are collected.
InjectedSecretsAreMasked ==
    run.phase = "running" /\ ~edited =>
        LET configured == Configured(InWorkspace)
        IN  \A names \in SUBSET (DOMAIN configured \ {"WORKSPACE"}) :
                Grounded(configured, names) => \A n \in names \cap SecretNames : run.env[n] \in run.masked

\* A build runs with the variables that were configured last, completely expanded, the
\* release it was triggered for, and no secret its log would show.
VariablesAreResolved ==
    /\ ExpansionIsComplete
    /\ LastSaveWins
    /\ ReleaseIsAuthoritative
    /\ InjectedSecretsAreMasked
=============================================================================
