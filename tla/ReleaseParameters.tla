-------------------------- MODULE ReleaseParameters --------------------------
(***************************************************************************)
(* The parameters of a build: declared by the pipeline, supplied by a      *)
(* request, completed with defaults and validated, and for releases bound  *)
(* to the project's catalog of deployment targets (internal/engine/build.go *)
(* and release_targets.go).                                                *)
(*                                                                         *)
(* The functions are pure; the variable form ranges over small inputs.     *)
(* Values are strings: "yes" and "no" are the booleans, "" is blank and    *)
(* "BAD" a string no pattern of the code matches.                          *)
(***************************************************************************)
EXTENDS Naturals, Sequences

CONSTANTS
    Channels, Environments, \* the names a catalog may use, "test" may be one
    MaxTargets              \* bound: entries of a catalog

ASSUME ReleaseAssumption == MaxTargets \in Nat

Names == {"RELEASE_CHANNEL", "RELEASE_ENVIRONMENT", "RELEASE_SHARED_SERVICE",
          "RELEASE_ACTION", "RELEASE_VERSION", "CONFIRM_PUBLISH_LATEST"}

Invalid == [ok |-> FALSE]
Valid(v) == [ok |-> TRUE, value |-> v]

IsString(v) == v \notin {"yes", "no"}
IsBlank(v) == v = ""
ValidEnvironment(v) == v \notin {"", "BAD", "yes", "no"}
At(params, name) == IF name \in DOMAIN params THEN params[name] ELSE ""
Elements(s) == {s[i] : i \in DOMAIN s}

(***************************************************************************)
(* ResolveBuildParameters.  declared maps the declared names to their      *)
(* declarations; default "none" is a nil default.                          *)
(***************************************************************************)
\* The types the reserved names must be declared with, publicly.
TypesOf(name) ==
    CASE name \in {"RELEASE_CHANNEL", "RELEASE_ACTION"} -> {"choice"}
      [] name = "RELEASE_ENVIRONMENT" -> {"choice", "string"}
      [] name \in {"RELEASE_VERSION", "RELEASE_SHARED_SERVICE"} -> {"string"}
      [] name = "CONFIRM_PUBLISH_LATEST" -> {"boolean"}

HasDefault(d) == d.default # "none" \/ d.type = "boolean" \/ (d.type = "choice" /\ d.choices # <<>>)

DefaultOf(d) ==
    IF d.default # "none" THEN d.default ELSE IF d.type = "boolean" THEN "no" ELSE d.choices[1]

\* Mutant of Complete: a default replaces what was supplied.
CompleteOver(declared, supplied) ==
    LET defaulted == {n \in DOMAIN declared : HasDefault(declared[n])}
    IN  [n \in DOMAIN supplied \cup defaulted |->
            IF n \in defaulted THEN DefaultOf(declared[n]) ELSE supplied[n]]

Complete(declared, supplied) ==
    LET defaulted == {n \in DOMAIN declared \ DOMAIN supplied : HasDefault(declared[n])}
    IN  [n \in DOMAIN supplied \cup defaulted |->
            IF n \in DOMAIN supplied THEN supplied[n] ELSE DefaultOf(declared[n])]

HasType(v, d) ==
    CASE d.type = "string" -> IsString(v)
      [] d.type = "choice" -> IsString(v) /\ v \in Elements(d.choices)
      [] d.type = "boolean" -> v \in {"yes", "no"}

ValidateBuildParameters(declared, params) ==
    \A n \in DOMAIN declared :
        /\ declared[n].required => n \in DOMAIN params /\ ~IsBlank(params[n])
        /\ n \in DOMAIN params => HasType(params[n], declared[n])

\* An action names what it does and to which target.
ActionIsComplete(params, shared) ==
    "RELEASE_ACTION" \in DOMAIN params =>
        /\ \/ params["RELEASE_ACTION"] = "publish-latest" /\ At(params, "CONFIRM_PUBLISH_LATEST") = "yes"
           \/ params["RELEASE_ACTION"] = "restart-version" /\ ~IsBlank(At(params, "RELEASE_VERSION"))
        /\ shared \/ \A n \in {"RELEASE_CHANNEL", "RELEASE_ENVIRONMENT"} :
                        IsString(At(params, n)) /\ ~IsBlank(At(params, n))

Shared(declared) == "RELEASE_SHARED_SERVICE" \in DOMAIN declared

ValidatesAction(declared, supplied, resolved) == ActionIsComplete(resolved, Shared(declared))

ResolveBuildParameters(declared, supplied) ==
    LET resolved == Complete(declared, supplied)
    IN  IF /\ \A n \in DOMAIN declared : ~declared[n].secret /\ declared[n].type \in TypesOf(n)
           /\ DOMAIN supplied \subseteq DOMAIN declared
           /\ Shared(declared) => DOMAIN declared \cap {"RELEASE_CHANNEL", "RELEASE_ENVIRONMENT"} = {}
           /\ ValidateBuildParameters(declared, resolved)
           /\ "RELEASE_ENVIRONMENT" \in DOMAIN resolved => ValidEnvironment(resolved["RELEASE_ENVIRONMENT"])
           /\ Shared(declared) => ValidEnvironment(At(resolved, "RELEASE_SHARED_SERVICE"))
           /\ ValidatesAction(declared, supplied, resolved)
        THEN Valid(resolved) ELSE Invalid

(***************************************************************************)
(* The catalog: a sequence of targets.  <<>> is a project without one.     *)
(***************************************************************************)
Scoped(declared) == DOMAIN declared \cap {"RELEASE_CHANNEL", "RELEASE_ENVIRONMENT"} # {}

ParseReleaseTargetCatalog(catalog) ==
    /\ \A t \in Elements(catalog) : ValidEnvironment(t.channel) /\ ValidEnvironment(t.environment)
    /\ \A i, j \in DOMAIN catalog : catalog[i] = catalog[j] => i = j

\* The default channel if the catalog has it, else the first.
ChosenChannel(channels, default) == IF default \in Elements(channels) THEN default ELSE channels[1]

\* Within the channel: test before the declared default before the first one.
ChosenEnvironment(catalog, channel, default) ==
    LET targets == {i \in DOMAIN catalog : catalog[i].channel = channel}
        first == CHOOSE i \in targets : \A j \in targets : i <= j
        environments == {catalog[i].environment : i \in targets}
    IN  IF "test" \in environments THEN "test" ELSE IF default \in environments THEN default
        ELSE catalog[first].environment

\* The declarations with the catalog's choices (here with repetitions, which nothing
\* depends on) and defaults.
ApplyProjectReleaseTargets(declared, catalog) ==
    LET channels == [i \in DOMAIN catalog |-> catalog[i].channel]
        environments == [i \in DOMAIN catalog |-> catalog[i].environment]
        channel == ChosenChannel(channels, declared["RELEASE_CHANNEL"].default)
        environment == ChosenEnvironment(catalog, channel, declared["RELEASE_ENVIRONMENT"].default)
    IN  IF catalog = <<>> THEN Valid(declared)
        ELSE IF /\ ParseReleaseTargetCatalog(catalog)
                /\ ~Shared(declared)
                /\ \A n \in {"RELEASE_CHANNEL", "RELEASE_ENVIRONMENT"} :
                       n \in DOMAIN declared /\ ~declared[n].secret /\ declared[n].type \in TypesOf(n)
        THEN Valid([n \in DOMAIN declared |->
                CASE n = "RELEASE_CHANNEL" -> [declared[n] EXCEPT !.choices = channels, !.default = channel]
                  [] n = "RELEASE_ENVIRONMENT" ->
                       [declared[n] EXCEPT !.choices = environments, !.default = environment]
                  [] OTHER -> declared[n]])
        ELSE Invalid

\* Parameters without a record branch; a pair must be one of the catalog's.
ValidateConfiguredReleaseTarget(declared, catalog, params) ==
    Scoped(declared) =>
        [channel |-> At(params, "RELEASE_CHANNEL"),
         environment |-> At(params, "RELEASE_ENVIRONMENT")] \in Elements(catalog)

\* What a request that creates a build does with its parameters.
RequestedParameters(declared, catalog, supplied) ==
    LET applied == ApplyProjectReleaseTargets(declared, catalog)
        resolved == ResolveBuildParameters(applied.value, supplied)
    IN  IF applied.ok /\ resolved.ok
           /\ ValidateConfiguredReleaseTarget(applied.value, catalog, resolved.value)
        THEN resolved ELSE Invalid

-----------------------------------------------------------------------------
(***************************************************************************)
(* The inputs: declarations, a catalog that grows target by target, and a  *)
(* request that grows parameter by parameter.                              *)
(***************************************************************************)
VARIABLE form

Targets == [channel : Channels, environment : Environments]

Values(name) ==
    CASE name = "RELEASE_CHANNEL" -> Channels
      [] name = "RELEASE_ENVIRONMENT" -> Environments \cup {"BAD"}
      [] name = "RELEASE_SHARED_SERVICE" -> {"gateway", ""}
      [] name = "RELEASE_ACTION" -> {"publish-latest", "restart-version"}
      [] name = "RELEASE_VERSION" -> {"1.0.0", ""}
      [] name = "CONFIRM_PUBLISH_LATEST" -> {"yes", "no"}

Declaration(name, default) ==
    [type |-> CHOOSE t \in TypesOf(name) : t # "choice" \/ TypesOf(name) = {"choice"},
     secret |-> FALSE, required |-> FALSE, default |-> default,
     choices |-> CASE name = "RELEASE_ACTION" -> <<"restart-version", "publish-latest">> [] OTHER -> <<>>]

DeclarationsOf(names, environment) ==
    [n \in names |-> Declaration(n, IF n = "RELEASE_ENVIRONMENT" THEN environment ELSE "none")]

\* Scoped releases, releases of a shared service, and both at once.
Declarations ==
    {DeclarationsOf(names, environment) :
        names \in {Names \ {"RELEASE_SHARED_SERVICE"}, Names \ {"RELEASE_CHANNEL", "RELEASE_ENVIRONMENT"},
                   Names, {"RELEASE_CHANNEL", "RELEASE_ENVIRONMENT"}},
        environment \in Environments \cup {"none"}}

ReleaseInit == form = [declared |-> <<>>, catalog |-> <<>>, supplied |-> <<>>]

ReleaseNext ==
    \/ /\ form.declared = <<>>
       /\ \E d \in Declarations : form' = [form EXCEPT !.declared = d]
    \/ /\ form.declared # <<>>
       /\ form.supplied = <<>>
       /\ Len(form.catalog) < MaxTargets
       /\ \E t \in Targets : form' = [form EXCEPT !.catalog = Append(@, t)]
    \/ /\ form.declared # <<>>
       /\ \E n \in Names \ DOMAIN form.supplied, v \in UNION {Values(m) : m \in Names} :
              /\ v \in Values(n)
              /\ form' = [form EXCEPT !.supplied =
                     [m \in DOMAIN @ \cup {n} |-> IF m = n THEN v ELSE @[m]]]

ReleaseSpec == ReleaseInit /\ [][ReleaseNext]_form

Requested == RequestedParameters(form.declared, form.catalog, form.supplied)
Ready == form.declared # <<>>

(***************************************************************************)
(* Properties                                                              *)
(***************************************************************************)
\* What was accepted and stored is accepted again, unchanged, when the queued build
\* or a retry is validated against the same declarations and catalog: completing and
\* validating is idempotent.
AcceptedStaysAccepted ==
    Ready /\ Requested.ok => RequestedParameters(form.declared, form.catalog, Requested.value) = Requested

\* A catalog makes its own candidates authoritative: the defaults it installs are
\* together one of its targets, so that a build started from them alone (at startup,
\* or by a request that supplies nothing) names a configured target.
DefaultsAreConfigured ==
    LET applied == ApplyProjectReleaseTargets(form.declared, form.catalog)
    IN  Ready /\ form.catalog # <<>> /\ applied.ok =>
            [channel |-> applied.value["RELEASE_CHANNEL"].default,
             environment |-> applied.value["RELEASE_ENVIRONMENT"].default] \in Elements(form.catalog)

\* A supplied value is never replaced by a default.
SuppliedIsKept ==
    Ready /\ Requested.ok => \A n \in DOMAIN form.supplied : Requested.value[n] = form.supplied[n]

\* The parameters of a release build are those of a configured target: as supplied,
\* completed once, and valid as often as they are looked at.
ReleasesAreConfigured ==
    /\ AcceptedStaysAccepted
    /\ DefaultsAreConfigured
    /\ SuppliedIsKept
=============================================================================
