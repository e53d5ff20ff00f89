--------------------------- MODULE ControlProofs ---------------------------
(***************************************************************************)
(* Proofs about the parameters of releases, the order of projects, the     *)
(* retention of builds, how builds come into being and their queue.        *)
(***************************************************************************)
EXTENDS ReleaseParameters, ProjectStore, BuildRetention, Intake, QueueReorder, SequenceTheorems, FiniteSetTheorems,
        WellFoundedInduction, TLAPS

\* A set of natural numbers that is not empty has a least element.
LEMMA LeastNatural ==
  ASSUME NEW S \in SUBSET Nat, S # {}
  PROVE  \E m \in S : \A n \in S : m <= n
<1>1. \E m \in S : \A n \in S : <<n, m>> \notin OpToRel(<, Nat)
  BY NatLessThanWellFounded, WFMin
<1>2. \A n, m \in Nat : n < m => <<n, m>> \in OpToRel(<, Nat)
  <2> TAKE n, m \in Nat
  <2> HAVE n < m
  <2>1. <<n, m>> \in Nat \X Nat /\ <<n, m>>[1] < <<n, m>>[2]
    OBVIOUS
  <2> QED BY <2>1, Zenon DEF OpToRel
<1>3. PICK m \in S : \A n \in S : <<n, m>> \notin OpToRel(<, Nat)
  BY <1>1
<1>4. \A n \in S : ~(n < m)
  BY <1>2, <1>3, Zenon
<1>5. \A a, b \in Nat : ~(a < b) => b <= a
  OBVIOUS
<1> QED BY <1>3, <1>4, <1>5, Zenon

-----------------------------------------------------------------------------
(***************************************************************************)
(* Release parameters.                                                     *)
(***************************************************************************)
\* A declaration has the fields the code reads, and the catalog is a sequence of targets.
FormTypeOK ==
    /\ DOMAIN form = {"declared", "catalog", "supplied"}
    /\ form.catalog \in Seq(Targets)
    /\ \A n \in DOMAIN form.declared : {"default", "choices"} \subseteq DOMAIN form.declared[n]

\* Completing a second time adds nothing: what was completed has every default.
LEMMA CompleteIsIdempotent ==
  ASSUME NEW declared, NEW supplied
  PROVE  Complete(declared, Complete(declared, supplied)) = Complete(declared, supplied)
<1> DEFINE R == Complete(declared, supplied)
           defaulted == {n \in DOMAIN declared \ DOMAIN supplied : HasDefault(declared[n])}
<1>1. DOMAIN R = DOMAIN supplied \cup defaulted
  BY DEF Complete
<1>2. {n \in DOMAIN declared \ DOMAIN R : HasDefault(declared[n])} = {}
  BY <1>1
<1>3. R = [n \in DOMAIN R |-> R[n]]
  BY DEF Complete
<1> HIDE DEF R
<1>4. Complete(declared, R) = [n \in DOMAIN R |-> R[n]]
  BY <1>2, Zenon DEF Complete
<1> QED BY <1>3, <1>4 DEF R

LEMMA ValueOfValid == \A v : Valid(v).value = v /\ Valid(v).ok
BY DEF Valid

\* What resolving answers is the completed parameters, and they resolve to themselves.
LEMMA ResolvedStaysResolved ==
  ASSUME NEW declared, NEW supplied, ResolveBuildParameters(declared, supplied).ok
  PROVE  LET resolved == Complete(declared, supplied)
         IN  /\ ResolveBuildParameters(declared, supplied) = Valid(resolved)
             /\ ResolveBuildParameters(declared, resolved) = Valid(resolved)
<1> DEFINE R == Complete(declared, supplied)
<1>1. Invalid.ok = FALSE
  BY DEF Invalid
<1>2. ResolveBuildParameters(declared, supplied) = Valid(R)
  BY <1>1 DEF ResolveBuildParameters
<1>3. DOMAIN R \subseteq DOMAIN declared
  <2>1. DOMAIN supplied \subseteq DOMAIN declared
    BY <1>1, Zenon DEF ResolveBuildParameters
  <2> QED BY <2>1 DEF Complete
<1>4. ResolveBuildParameters(declared, R) = Valid(R)
  BY <1>1, <1>3, CompleteIsIdempotent, Zenon DEF ResolveBuildParameters, ValidatesAction
<1> QED BY <1>2, <1>4

LEMMA RequestedIsStable ==
  ASSUME NEW declared, NEW catalog, NEW supplied,
         RequestedParameters(declared, catalog, supplied).ok
  PROVE  LET requested == RequestedParameters(declared, catalog, supplied)
         IN  /\ RequestedParameters(declared, catalog, requested.value) = requested
             /\ \A n \in DOMAIN supplied : requested.value[n] = supplied[n]
<1> DEFINE A == ApplyProjectReleaseTargets(declared, catalog)
           R == Complete(A.value, supplied)
<1>1. Invalid.ok = FALSE
  BY DEF Invalid
<1>2. /\ A.ok
      /\ ResolveBuildParameters(A.value, supplied).ok
      /\ ValidateConfiguredReleaseTarget(A.value, catalog, ResolveBuildParameters(A.value, supplied).value)
      /\ RequestedParameters(declared, catalog, supplied) = ResolveBuildParameters(A.value, supplied)
  BY <1>1, Zenon DEF RequestedParameters
<1>3. /\ ResolveBuildParameters(A.value, supplied) = Valid(R)
      /\ ResolveBuildParameters(A.value, R) = Valid(R)
  BY <1>2, ResolvedStaysResolved, Zenon
<1>4. Valid(R).value = R /\ Valid(R).ok
  BY DEF Valid
<1>5. RequestedParameters(declared, catalog, R) = Valid(R)
  BY <1>2, <1>3, <1>4, Zenon DEF RequestedParameters
<1>6. \A n \in DOMAIN supplied : R[n] = supplied[n]
  BY DEF Complete
<1> QED BY <1>2, <1>3, <1>4, <1>5, <1>6, Zenon

\* The environment that is chosen is, with the channel, one of the targets.
LEMMA ChosenIsATarget ==
  ASSUME NEW catalog \in Seq(Targets), NEW default, NEW k \in DOMAIN catalog
  PROVE  [channel |-> catalog[k].channel,
          environment |-> ChosenEnvironment(catalog, catalog[k].channel, default)] \in Elements(catalog)
<1> DEFINE channel == catalog[k].channel
           targets == {i \in DOMAIN catalog : catalog[i].channel = channel}
           first == CHOOSE i \in targets : \A j \in targets : i <= j
           environment == ChosenEnvironment(catalog, channel, default)
<1>1. first \in targets
  <2>1. targets \in SUBSET Nat /\ targets # {}
    OBVIOUS
  <2>2. \E i \in targets : \A j \in targets : i <= j
    BY <2>1, LeastNatural
  <2> QED BY <2>2
<1>2. \E i \in targets : environment = catalog[i].environment
  BY <1>1, Zenon DEF ChosenEnvironment
<1>3. PICK i \in targets : environment = catalog[i].environment
  BY <1>2
<1>4. catalog[i] \in Targets /\ i \in DOMAIN catalog /\ catalog[i].channel = channel
  OBVIOUS
<1>5. catalog[i] = [channel |-> channel, environment |-> environment]
  BY <1>3, <1>4 DEF Targets
<1> QED BY <1>4, <1>5 DEF Elements

LEMMA AppliedIsATarget ==
  ASSUME FormTypeOK
  PROVE  DefaultsAreConfigured
<1> DEFINE declared == form.declared
           catalog == form.catalog
           A == ApplyProjectReleaseTargets(declared, catalog)
           channels == [i \in DOMAIN catalog |-> catalog[i].channel]
           channel == ChosenChannel(channels, declared["RELEASE_CHANNEL"].default)
           environment == ChosenEnvironment(catalog, channel, declared["RELEASE_ENVIRONMENT"].default)
           value == A.value
<1> SUFFICES ASSUME Ready, catalog # <<>>, A.ok
             PROVE  [channel |-> value["RELEASE_CHANNEL"].default,
                     environment |-> value["RELEASE_ENVIRONMENT"].default] \in Elements(catalog)
  BY Zenon DEF DefaultsAreConfigured
<1>1. /\ {"RELEASE_CHANNEL", "RELEASE_ENVIRONMENT"} \subseteq DOMAIN declared
      /\ value["RELEASE_CHANNEL"].default = channel
      /\ value["RELEASE_ENVIRONMENT"].default = environment
  <2> DEFINE environments == [i \in DOMAIN catalog |-> catalog[i].environment]
             applied == [n \in DOMAIN declared |->
                CASE n = "RELEASE_CHANNEL" -> [declared[n] EXCEPT !.choices = channels, !.default = channel]
                  [] n = "RELEASE_ENVIRONMENT" ->
                       [declared[n] EXCEPT !.choices = environments, !.default = environment]
                  [] OTHER -> declared[n]]
  <2>1. A = Valid(applied) /\ {"RELEASE_CHANNEL", "RELEASE_ENVIRONMENT"} \subseteq DOMAIN declared
    <3>1. Invalid.ok = FALSE
      BY DEF Invalid
    <3> QED BY <3>1, Zenon DEF ApplyProjectReleaseTargets
  <2>2. value = applied
    BY <2>1, ValueOfValid, Zenon
  <2>3. \A r : "default" \in DOMAIN r =>
            \A c, d : [r EXCEPT !.choices = c, !.default = d].default = d
    OBVIOUS
  <2>4. /\ applied["RELEASE_CHANNEL"] = [declared["RELEASE_CHANNEL"] EXCEPT !.choices = channels, !.default = channel]
        /\ applied["RELEASE_ENVIRONMENT"] =
              [declared["RELEASE_ENVIRONMENT"] EXCEPT !.choices = environments, !.default = environment]
    BY <2>1
  <2>5. \A n \in DOMAIN declared : "default" \in DOMAIN declared[n]
    BY DEF FormTypeOK
  <2> HIDE DEF channels, channel, environments, environment, value, applied
  <2>6. applied["RELEASE_CHANNEL"].default = channel
    BY <2>1, <2>3, <2>4, <2>5, Zenon
  <2>7. applied["RELEASE_ENVIRONMENT"].default = environment
    BY <2>1, <2>3, <2>4, <2>5, Zenon
  <2> QED BY <2>1, <2>2, <2>6, <2>7, Zenon
<1>2. catalog \in Seq(Targets) /\ 1 \in DOMAIN catalog
  BY DEF FormTypeOK
<1>3. PICK k \in DOMAIN catalog : channel = catalog[k].channel
  BY <1>2 DEF ChosenChannel, Elements
<1> HIDE DEF channel
<1> QED BY <1>1, <1>2, <1>3, ChosenIsATarget, Zenon

\* The declarations, the catalog and the request grow, and keep their form.
LEMMA FormTypeCorrect == ReleaseSpec => []FormTypeOK
<1>1. ReleaseInit => FormTypeOK
  BY DEF ReleaseInit, FormTypeOK
<1>2. FormTypeOK /\ [ReleaseNext]_form => FormTypeOK'
  <2> SUFFICES ASSUME FormTypeOK, [ReleaseNext]_form
               PROVE  FormTypeOK'
    OBVIOUS
  <2> USE DEF FormTypeOK
  <2>1. ASSUME NEW d \in Declarations, form' = [form EXCEPT !.declared = d]
        PROVE  FormTypeOK'
    <3>1. \A n \in DOMAIN d : {"default", "choices"} \subseteq DOMAIN d[n]
      <4>1. \A n, v : {"default", "choices"} \subseteq DOMAIN Declaration(n, v)
        BY DEF Declaration
      <4>2. PICK names, environment : d = DeclarationsOf(names, environment)
        BY <2>1 DEF Declarations
      <4> QED BY <4>1, <4>2 DEF DeclarationsOf
    <3> QED BY <2>1, <3>1
  <2>2. ASSUME NEW t \in Targets, form' = [form EXCEPT !.catalog = Append(@, t)]
        PROVE  FormTypeOK'
    BY <2>2, AppendProperties
  <2>3. ASSUME NEW supplied, form' = [form EXCEPT !.supplied = supplied]
        PROVE  FormTypeOK'
    BY <2>3
  <2>4. CASE UNCHANGED form
    BY <2>4
  <2> QED BY <2>1, <2>2, <2>3, <2>4, Zenon DEF ReleaseNext
<1> QED BY <1>1, <1>2, PTL DEF ReleaseSpec

\* The parameters of a release build are those of a configured target: completed once,
\* with no supplied value replaced, and accepted again unchanged however often they are
\* looked at, for any catalog, channels and environments.
THEOREM ReleasesAreConfiguredHolds == ReleaseSpec => []ReleasesAreConfigured
<1>1. AcceptedStaysAccepted /\ SuppliedIsKept
  BY RequestedIsStable DEF AcceptedStaysAccepted, SuppliedIsKept, Requested
<1>2. FormTypeOK => ReleasesAreConfigured
  BY <1>1, AppliedIsATarget DEF ReleasesAreConfigured
<1> QED BY <1>2, FormTypeCorrect, PTL

-----------------------------------------------------------------------------
(***************************************************************************)
(* Projects.  Identifiers are never given twice: what was there at the     *)
(* last reorder cannot come back, so that what has a place is what was     *)
(* there and still is.                                                     *)
(***************************************************************************)
ProjectInv ==
    /\ created \in Nat /\ reorders \in Nat
    /\ Ids \subseteq 1..created /\ arranged \subseteq 1..created
    /\ view \in Seq(Nat)
    /\ OrderIsComplete

LEMMA IdsAreFinite ==
  ASSUME NEW n \in Nat, NEW S \in SUBSET (1..n)
  PROVE  IsFiniteSet(S)
<1>1. IsFiniteSet(1..n)
  BY FS_Interval
<1> QED BY <1>1, FS_Subset

\* Handlers that write rows of projects that are there.
LEMMA RowsKeepTheOrder ==
  ASSUME ProjectInv, DOMAIN project' = DOMAIN project,
         UNCHANGED <<created, position, view, arranged, reorders>>
  PROVE  ProjectInv' /\ (\A p, q \in Ids : ShownBefore(p, q) => ShownBefore(p, q)')
BY DEF ProjectInv, OrderIsComplete, Ids, ShownBefore

\* Deletions take the same projects from the rows and from the order.
LEMMA DeletionKeepsTheOrder ==
  ASSUME ProjectInv, NEW set, DeletedWith(set),
         UNCHANGED <<created, view, arranged, reorders>>
  PROVE  /\ ProjectInv'
         /\ \A p, q \in Ids \cap DOMAIN project' : ShownBefore(p, q) => ShownBefore(p, q)'
<1>1. /\ DOMAIN project' = Ids \ set
      /\ DOMAIN position' = DOMAIN position \ set
      /\ \A p \in DOMAIN position' : position'[p] = position[p]
  BY DEF DeletedWith, Without, Ids
<1>2. ProjectInv'
  BY <1>1 DEF ProjectInv, OrderIsComplete, Ids
<1> QED BY <1>1, <1>2 DEF ShownBefore

LEMMA CreationKeepsTheOrder ==
  ASSUME ProjectInv, NEW h \in Writers, CreateProject(h)
  PROVE  ProjectInv' /\ (\A p, q \in Ids : ShownBefore(p, q) => ShownBefore(p, q)')
<1>1. /\ DOMAIN project' = Ids \cup {created + 1}
      /\ created' = created + 1
      /\ UNCHANGED <<position, view, arranged, reorders>>
  BY DEF CreateProject
<1>2. created + 1 \notin arranged /\ 1..created \subseteq 1..(created + 1)
  BY DEF ProjectInv
<1>3. OrderIsComplete'
  BY <1>1, <1>2 DEF ProjectInv, OrderIsComplete, Ids
<1>4. ProjectInv'
  BY <1>1, <1>2, <1>3 DEF ProjectInv, Ids
<1> QED BY <1>1, <1>4 DEF ShownBefore

LEMMA ListingKeepsTheOrder ==
  ASSUME ProjectInv, NEW shown \in SUBSET Ids, ListProjects(shown)
  PROVE  ProjectInv' /\ (\A p, q \in Ids : ShownBefore(p, q) => ShownBefore(p, q)')
<1>1. UNCHANGED <<project, created, position, arranged, reorders>>
  BY DEF ListProjects, tables
<1>2. Cardinality(shown) \in Nat
  BY IdsAreFinite, FS_CardinalityType DEF ProjectInv
<1>3. view' \in [1..Cardinality(shown) -> Nat]
  <2>1. view' \in [1..Cardinality(shown) -> shown] /\ shown \subseteq Nat
    BY DEF ListProjects, ProjectInv
  <2> QED BY <2>1
<1>4. view' \in Seq(Nat)
  BY <1>2, <1>3
<1> QED BY <1>1, <1>4 DEF ProjectInv, OrderIsComplete, Ids, ShownBefore

\* A list is accepted when it names every project, and its places are the order.
LEMMA ReorderingIsComplete ==
  ASSUME ProjectInv, ReorderProjects
  PROVE  ProjectInv' /\ reorders' # reorders
<1> DEFINE ids == IF view = <<>> THEN view ELSE <<Last(view)>> \o Front(view)
           place(p) == CHOOSE i \in DOMAIN ids : ids[i] = p
<1>1. ids \in Seq(Nat)
  <2>1. CASE view = <<>>
    BY <2>1
  <2>2. CASE view # <<>>
    <3>1. Last(view) \in Nat
      BY <2>2 DEF Last, ProjectInv
    <3>2. Front(view) \in Seq(Nat)
      BY <2>2 DEF Front, ProjectInv
    <3> QED BY <2>2, <3>1, <3>2
  <2> QED BY <2>1, <2>2
<1>2. /\ reorders' = reorders + 1 /\ arranged' = Ids /\ view' = ids /\ UNCHANGED <<project, created>>
      /\ ToSet(ids) = Ids
      /\ position' = [p \in ToSet(ids) |-> place(p) - 1]
  BY Zenon DEF ReorderProjects, NamesEveryProject
<1> HIDE DEF ids
<1>3. \A p \in ToSet(ids) : place(p) \in DOMAIN ids /\ ids[place(p)] = p
  BY DEF ToSet
<1>4. \A p \in ToSet(ids) : place(p) \in Nat
  BY <1>1, <1>3
<1> HIDE DEF place
<1>5. \A p, q \in ToSet(ids) : position'[p] = position'[q] => p = q
  <2> SUFFICES ASSUME NEW p \in ToSet(ids), NEW q \in ToSet(ids), position'[p] = position'[q]
               PROVE  p = q
    OBVIOUS
  <2>1. place(p) - 1 = place(q) - 1
    BY <1>2, Zenon
  <2>2. place(p) = place(q)
    BY <1>4, <2>1
  <2> QED BY <1>3, <2>2, Zenon
<1>6. OrderIsComplete'
  BY <1>2, <1>5 DEF OrderIsComplete, Ids
<1> QED BY <1>1, <1>2, <1>6 DEF ProjectInv, Ids

LEMMA ProjectStep ==
  ASSUME ProjectInv, [ProjectNext]_projectVars
  PROVE  /\ ProjectInv'
         /\ reorders' = reorders =>
              \A p, q \in Ids \cap DOMAIN project' : ShownBefore(p, q) => ShownBefore(p, q)'
<1>1. ASSUME NEW h \in Writers,
             \/ \E id, mode, text, g, switch : ValidateRequest(h, id, mode, text, g, switch)
             \/ GetProject(h) \/ UpdateProject(h) \/ SetProjectPipelineSource(h)
             \/ GetProjectGroup(h) \/ SetProjectGroup(h) \/ SetProjectHTTPTrigger(h)
      PROVE  DOMAIN project' = DOMAIN project /\ UNCHANGED <<created, position, view, arranged, reorders>>
  <2>1. \A p, row : DOMAIN Updated(p, row) = DOMAIN project
    BY DEF Updated
  <2> QED BY <1>1, <2>1
          DEF ValidateRequest, GetProject, UpdateProject, SetProjectPipelineSource, GetProjectGroup,
              SetProjectGroup, SetProjectHTTPTrigger, tables
<1>2. CASE CreateProjectGroup
  BY <1>2, RowsKeepTheOrder DEF CreateProjectGroup
<1>3. ASSUME NEW p \in Ids, DeleteProject(p)
      PROVE  DeletedWith({p}) /\ UNCHANGED <<created, view, arranged, reorders>>
  BY <1>3 DEF DeleteProject
<1>4. ASSUME NEW g, NEW deleteProjects \in BOOLEAN, DeleteProjectGroupWithProjects(g, deleteProjects)
      PROVE  /\ UNCHANGED <<created, view, arranged, reorders>>
             /\ \/ DeletedWith(Members(g))
                \/ DOMAIN project' = DOMAIN project /\ UNCHANGED position
  BY <1>4 DEF DeleteProjectGroupWithProjects, Ids
<1>5. CASE UNCHANGED projectVars
  BY <1>5, RowsKeepTheOrder DEF projectVars
<1> QED BY <1>1, <1>2, <1>3, <1>4, <1>5, RowsKeepTheOrder, DeletionKeepsTheOrder, CreationKeepsTheOrder,
           ListingKeepsTheOrder, ReorderingIsComplete, Zenon DEF ProjectNext, Ids

\* The list of projects is as it was last arranged, whoever edits, creates or deletes.
THEOREM OrderIsKeptHolds == ProjectSpec => OrderIsKept
<1>1. ProjectInit => ProjectInv
  BY DEF ProjectInit, ProjectInv, OrderIsComplete, Ids
<1>2. ProjectInv /\ [ProjectNext]_projectVars => ProjectInv'
  BY ProjectStep
<1>3. ProjectInv /\ [ProjectNext]_projectVars => [OrderIsComplete']_projectVars
  BY <1>2 DEF ProjectInv
<1>4. ProjectInv /\ [ProjectNext]_projectVars =>
        [reorders' = reorders =>
           \A p, q \in Ids \cap DOMAIN project' : ShownBefore(p, q) => ShownBefore(p, q)']_projectVars
  BY ProjectStep
<1> QED BY <1>1, <1>2, <1>3, <1>4, PTL DEF ProjectSpec, OrderIsKept, OrderIsStable

-----------------------------------------------------------------------------
(***************************************************************************)
(* Build retention.  A build on the list of a pruner has as many newer     *)
(* ones as are retained, whatever the others remove: a build they remove   *)
(* leaves its own newer ones behind.  Automatic retries are counted along  *)
(* the ancestors, which are all there when one more is allowed.            *)
(***************************************************************************)
BuildRow == [status : {"pending", "running", "success", "failed", "cancelled"}, pinned : BOOLEAN,
             parent : Nat, finished : Nat, gone : BOOLEAN,
             children : SUBSET {"events", "records"}, auto : Nat]
Task == [busy : BOOLEAN, removal : [ids : SUBSET Nat, next : 1..3]]

RetentionTypes ==
    /\ build \in Seq(BuildRow)
    /\ finished \in Nat
    /\ due \subseteq DOMAIN build
    /\ cleaner \in [Cleaners -> Task]

RetriesCounted ==
    \A b \in DOMAIN build :
        /\ build[b].auto <= RetryLimit
        /\ IF build[b].parent = 0 THEN build[b].auto = 0
           ELSE /\ build[b].parent \in DOMAIN build
                /\ build[b].auto <= build[build[b].parent].auto + 1

Newer(b) == {a \in Kept : build[a].finished > build[b].finished}

OldAreListed ==
    /\ \A b \in DOMAIN build : build[b].finished <= finished
    /\ \A b \in DOMAIN build : Completed(b) \/ build[b].finished = 0
    /\ \A c \in Cleaners : \A b \in cleaner[c].removal.ids :
           b \in DOMAIN build /\ Completed(b) /\ Cardinality(Newer(b)) >= Retain

\* The build a pruner is at.
IsNext(c, b) == /\ b \in cleaner[c].removal.ids
                /\ \A a \in cleaner[c].removal.ids \ {b} : Newest(b, a)

RecordsAreGone ==
    /\ ChildrenGoFirst
    /\ \A c \in Cleaners : \A b : cleaner[c].removal.next = 3 /\ IsNext(c, b) => "records" \notin build[b].children

RetentionInv == RetentionTypes /\ RetriesCounted /\ OldAreListed /\ RecordsAreGone

-----------------------------------------------------------------------------
LEMMA RowsAreTyped ==
  ASSUME RetentionTypes, NEW b \in DOMAIN build
  PROVE  /\ build[b] \in BuildRow /\ b \in Nat /\ b # 0
         /\ build[b].auto \in Nat /\ build[b].parent \in Nat /\ build[b].finished \in Nat
         /\ build[b].children \in SUBSET {"events", "records"}
<1>1. build[b] \in BuildRow /\ b \in Nat /\ b # 0
  BY DEF RetentionTypes
<1> QED BY <1>1 DEF BuildRow

\* Who may be retried has fewer automatic retries behind it than the limit.
LEMMA RetriesAreLimited ==
  ASSUME RetentionTypes, RetriesCounted, NEW b \in DOMAIN build, RetryLimit > 0, MayRetry(b)
  PROVE  build[b].auto + 1 <= RetryLimit
<1>1. RetryLimit \in Nat
  BY RetentionAssumption
<1>2. PICK depth \in 0..(RetryLimit - 1) : \E line \in [0..depth -> Kept] :
        /\ line[0] = b
        /\ \A i \in 1..depth : line[i] = build[line[i - 1]].parent
        /\ build[line[depth]].parent = 0
  BY DEF MayRetry
<1>3. PICK line \in [0..depth -> Kept] :
        /\ line[0] = b
        /\ \A i \in 1..depth : line[i] = build[line[i - 1]].parent
        /\ build[line[depth]].parent = 0
  BY <1>2
<1>4. depth \in Nat /\ depth + 1 <= RetryLimit
  BY <1>1
<1>5. \A i \in 0..depth : line[i] \in DOMAIN build /\ build[line[i]].auto \in Nat
  <2> TAKE i \in 0..depth
  <2>1. line[i] \in DOMAIN build
    BY DEF Kept
  <2> QED BY <2>1, RowsAreTyped
<1> DEFINE Few(i) == build[line[depth - i]].auto <= i
           bad == {i \in 0..depth : ~Few(i)}
<1>6. bad = {}
  <2>1. SUFFICES ASSUME bad # {} PROVE FALSE
    OBVIOUS
  <2>2. PICK n \in bad : \A i \in bad : n <= i
    <3>1. bad \in SUBSET Nat
      BY <1>4
    <3> HIDE DEF bad
    <3> QED BY <2>1, <3>1, LeastNatural
  <2>3. n \in 0..depth /\ ~Few(n)
    OBVIOUS
  <2>4. n # 0
    <3>1. build[line[depth]].auto = 0
      BY <1>3, <1>4, <1>5 DEF RetriesCounted
    <3>2. Few(0)
      BY <1>4, <3>1
    <3> QED BY <2>3, <3>2
  <2>5. n - 1 \in 0..depth /\ Few(n - 1)
    <3>1. n - 1 \in 0..depth /\ ~(n <= n - 1)
      BY <1>4, <2>3, <2>4
    <3> QED BY <2>2, <3>1
  <2>6. depth - n \in 0..depth /\ depth - (n - 1) \in 1..depth /\ (depth - (n - 1)) - 1 = depth - n
    BY <1>4, <2>3, <2>4
  <2>7. PICK child \in DOMAIN build, parent \in DOMAIN build :
            child = line[depth - n] /\ parent = line[depth - (n - 1)]
    BY <1>5, <2>6
  <2>8. build[child].parent = parent
    BY <1>3, <2>6, <2>7
  <2>9. parent # 0
    BY RowsAreTyped
  <2>10. build[child].auto <= build[parent].auto + 1
    BY <2>8, <2>9 DEF RetriesCounted
  <2>11. build[parent].auto <= n - 1 /\ build[parent].auto \in Nat /\ build[child].auto \in Nat /\ n \in Nat
    BY <1>4, <2>3, <2>5, <2>7, RowsAreTyped
  <2>12. build[child].auto <= n
    BY <2>10, <2>11
  <2> QED BY <2>3, <2>7, <2>12
<1>7. Few(depth)
  <2>1. depth \in 0..depth
    BY <1>4
  <2> QED BY <1>6, <2>1
<1>8. build[b].auto <= depth /\ build[b].auto \in Nat
  <2>1. depth - depth = 0
    BY <1>4
  <2> QED BY <1>3, <1>4, <1>5, <1>7, <2>1
<1> QED BY <1>1, <1>4, <1>8

-----------------------------------------------------------------------------
\* What the steps of builds have in common: completed builds stay completed and finished
\* when they were, and nothing but a pruner removes a row.
RowsGoOn ==
    /\ build' \in Seq(BuildRow)
    /\ DOMAIN build \subseteq DOMAIN build'
    /\ \A b \in DOMAIN build : /\ Completed(b) => Completed(b)' /\ build'[b].finished = build[b].finished
                               /\ build'[b].finished >= build[b].finished
                               /\ build'[b].children \subseteq build[b].children \cup {"events"}
    /\ \A b \in DOMAIN build' : build'[b].finished <= finished' /\ (Completed(b)' \/ build'[b].finished = 0)

NothingIsRemoved == \A b \in Kept : ~build'[b].gone

LEMMA NewerAreFinite ==
  ASSUME RetentionTypes, NEW b
  PROVE  IsFiniteSet(Newer(b)) /\ IsFiniteSet(Kept)
<1>1. DOMAIN build = 1..Len(build) /\ Len(build) \in Nat
  BY DEF RetentionTypes
<1>2. IsFiniteSet(1..Len(build))
  BY <1>1, FS_Interval
<1>3. Kept \subseteq 1..Len(build) /\ Newer(b) \subseteq 1..Len(build)
  BY <1>1 DEF Kept, Newer
<1> QED BY <1>2, <1>3, FS_Subset

LEMMA ListsStay ==
  ASSUME RetentionInv, RowsGoOn, RetentionTypes', \A b \in Kept : b \in Kept',
         \A c \in Cleaners : cleaner'[c].removal.ids \subseteq cleaner[c].removal.ids
  PROVE  OldAreListed'
<1>1. ASSUME NEW c \in Cleaners, NEW b \in cleaner'[c].removal.ids
      PROVE  b \in DOMAIN build' /\ Completed(b)' /\ Cardinality(Newer(b)') >= Retain
  <2>1. b \in DOMAIN build /\ Completed(b) /\ Cardinality(Newer(b)) >= Retain
    BY <1>1 DEF RetentionInv, OldAreListed
  <2>2. b \in DOMAIN build' /\ Completed(b)' /\ build'[b].finished = build[b].finished
    BY <2>1 DEF RowsGoOn
  <2>3. Newer(b) \subseteq Newer(b)'
    <3> SUFFICES ASSUME NEW a \in Newer(b) PROVE a \in Newer(b)'
      OBVIOUS
    <3>1. a \in Kept /\ a \in DOMAIN build /\ a \in Kept' /\ a \in DOMAIN build'
      BY DEF Newer, Kept
    <3>2. build'[a].finished >= build[a].finished /\ build[a].finished > build[b].finished
      BY <3>1 DEF RowsGoOn, Newer
    <3>3. build'[a].finished \in Nat /\ build[a].finished \in Nat /\ build[b].finished \in Nat
      <4>1. build[a].finished \in Nat /\ build[b].finished \in Nat
        BY <2>1, <3>1, RowsAreTyped DEF RetentionInv
      <4>2. build'[a] \in BuildRow
        BY <3>1 DEF RowsGoOn
      <4> QED BY <4>1, <4>2 DEF BuildRow
    <3> QED BY <2>2, <3>1, <3>2, <3>3 DEF Newer
  <2>4. IsFiniteSet(Newer(b)')
    <3>1. DOMAIN build' = 1..Len(build') /\ Len(build') \in Nat
      BY DEF RetentionTypes
    <3>2. IsFiniteSet(1..Len(build'))
      <4>1. \A n \in Nat : IsFiniteSet(1..n)
        BY FS_Interval
      <4> QED BY <3>1, <4>1
    <3>3. Newer(b)' \subseteq 1..Len(build')
      BY <3>1 DEF Kept, Newer
    <3> QED BY <3>2, <3>3, FS_Subset
  <2>5. Cardinality(Newer(b)) <= Cardinality(Newer(b)')
    BY <2>3, <2>4, FS_Subset
  <2>6. Cardinality(Newer(b)) \in Nat /\ Cardinality(Newer(b)') \in Nat /\ Retain \in Nat
    BY <2>4, NewerAreFinite, FS_CardinalityType, RetentionAssumption DEF RetentionInv
  <2> QED BY <2>1, <2>2, <2>5, <2>6
<1>2. \A b \in DOMAIN build' : build'[b].finished <= finished' /\ (Completed(b)' \/ build'[b].finished = 0)
  BY DEF RowsGoOn
<1> QED BY <1>1, <1>2 DEF OldAreListed

\* Nothing gets its records back.
LEMMA RecordsStayGone ==
  ASSUME RetentionInv, RowsGoOn, \A c \in Cleaners : cleaner'[c].removal = cleaner[c].removal,
         \A b \in DOMAIN build' : build'[b].gone => b \in DOMAIN build /\ build[b].gone
  PROVE  RecordsAreGone'
<1>1. ChildrenGoFirst'
  BY DEF RetentionInv, RecordsAreGone, ChildrenGoFirst, RowsGoOn
<1>2. ASSUME NEW c \in Cleaners, NEW b, cleaner'[c].removal.next = 3, IsNext(c, b)'
      PROVE  "records" \notin build'[b].children
  <2>1. \A a \in cleaner[c].removal.ids : a \in DOMAIN build /\ build'[a].finished = build[a].finished
    BY DEF RetentionInv, OldAreListed, RowsGoOn
  <2>2. IsNext(c, b) /\ b \in DOMAIN build
    BY <1>2, <2>1 DEF IsNext, Newest
  <2>3. "records" \notin build[b].children
    BY <1>2, <2>2 DEF RetentionInv, RecordsAreGone
  <2> QED BY <2>2, <2>3 DEF RowsGoOn
<1> QED BY <1>1, <1>2 DEF RecordsAreGone

LEMMA CountsStay ==
  ASSUME RetriesCounted, DOMAIN build' = DOMAIN build,
         \A b \in DOMAIN build : build'[b].parent = build[b].parent /\ build'[b].auto = build[b].auto
  PROVE  RetriesCounted'
BY DEF RetriesCounted

-----------------------------------------------------------------------------
\* A row is inserted: by a trigger, or with a build it retries.
LEMMA RowInserted ==
  ASSUME RetentionInv, NEW parent \in Nat, NEW auto \in Nat,
         build' = Append(build, NewRow(parent, auto)), auto <= RetryLimit,
         IF parent = 0 THEN auto = 0 ELSE parent \in DOMAIN build /\ auto <= build[parent].auto + 1,
         due' \subseteq due, UNCHANGED <<finished, cleaner>>
  PROVE  RetentionInv' /\ NothingIsRemoved
<1>1. PICK row \in BuildRow : row = NewRow(parent, auto)
  BY DEF BuildRow, NewRow
<1>2. /\ row.parent = parent /\ row.auto = auto /\ row.finished = 0 /\ row.children = {"records"}
      /\ row.gone = FALSE /\ row.status = "pending"
  BY <1>1 DEF NewRow
<1>3. build' = Append(build, row) /\ build \in Seq(BuildRow)
  BY <1>1 DEF RetentionInv, RetentionTypes
<1>4. /\ build' \in Seq(BuildRow) /\ DOMAIN build' = DOMAIN build \cup {Len(build) + 1}
      /\ \A b \in DOMAIN build : build'[b] = build[b]
      /\ build'[Len(build) + 1] = row /\ Len(build) + 1 \notin DOMAIN build
  BY <1>3
<1>5. RetentionTypes'
  BY <1>4 DEF RetentionInv, RetentionTypes
<1>6. RowsGoOn
  <2>1. \A b \in DOMAIN build : /\ Completed(b) => Completed(b)' /\ build'[b].finished = build[b].finished
                                /\ build'[b].finished >= build[b].finished
                                /\ build'[b].children \subseteq build[b].children \cup {"events"}
    BY <1>4, RowsAreTyped DEF RetentionInv, Completed
  <2>2. \A b \in DOMAIN build' : build'[b].finished <= finished' /\ (Completed(b)' \/ build'[b].finished = 0)
    BY <1>2, <1>4 DEF RetentionInv, OldAreListed, RetentionTypes, Completed
  <2> QED BY <1>4, <2>1, <2>2 DEF RowsGoOn
<1>7. \A b \in Kept : b \in Kept'
  BY <1>4 DEF Kept
<1>8. OldAreListed'
  BY <1>5, <1>6, <1>7, ListsStay
<1>9. RecordsAreGone'
  <2>1. \A b \in DOMAIN build' : build'[b].gone => b \in DOMAIN build /\ build[b].gone
    BY <1>2, <1>4
  <2> QED BY <1>6, <2>1, RecordsStayGone
<1>10. RetriesCounted'
  BY <1>2, <1>4 DEF RetriesCounted, RetentionInv
<1>11. NothingIsRemoved
  BY <1>7 DEF NothingIsRemoved, Kept
<1> QED BY <1>5, <1>8, <1>9, <1>10, <1>11 DEF RetentionInv

\* A row is written, by anybody but a pruner.
LEMMA RowWritten ==
  ASSUME RetentionInv, NEW b \in DOMAIN build, NEW row \in BuildRow,
         build' = [build EXCEPT ![b] = row],
         row.parent = build[b].parent, row.auto = build[b].auto, row.gone = build[b].gone,
         row.children \subseteq build[b].children \cup {"events"},
         row.finished >= build[b].finished, row.finished <= finished',
         Completed(b) => row.status = build[b].status /\ row.finished = build[b].finished,
         row.status \in {"success", "failed", "cancelled"} \/ row.finished = 0,
         finished' \in Nat, finished' >= finished,
         due' \subseteq due \cup {b},
         \A c \in Cleaners : cleaner'[c].removal = cleaner[c].removal, cleaner' \in [Cleaners -> Task]
  PROVE  RetentionInv' /\ NothingIsRemoved
<1>1. build' \in Seq(BuildRow) /\ DOMAIN build' = DOMAIN build
      /\ \A a \in DOMAIN build : build'[a] = IF a = b THEN row ELSE build[a]
  BY DEF RetentionInv, RetentionTypes
<1>2. RetentionTypes'
  BY <1>1 DEF RetentionInv, RetentionTypes
<1>3. RowsGoOn
  <2>1. \A a \in DOMAIN build : /\ Completed(a) => Completed(a)' /\ build'[a].finished = build[a].finished
                                /\ build'[a].finished >= build[a].finished
                                /\ build'[a].children \subseteq build[a].children \cup {"events"}
    BY <1>1, RowsAreTyped DEF RetentionInv, Completed
  <2>2. \A a \in DOMAIN build' : build'[a].finished <= finished' /\ (Completed(a)' \/ build'[a].finished = 0)
    BY <1>1, RowsAreTyped DEF RetentionInv, OldAreListed, Completed, RetentionTypes
  <2> QED BY <1>1, <2>1, <2>2 DEF RowsGoOn
<1>4. \A a \in Kept : a \in Kept'
  BY <1>1 DEF Kept
<1>5. OldAreListed'
  BY <1>2, <1>3, <1>4, ListsStay
<1>6. RecordsAreGone'
  <2>1. \A a \in DOMAIN build' : build'[a].gone => a \in DOMAIN build /\ build[a].gone
    BY <1>1
  <2> QED BY <1>3, <2>1, RecordsStayGone
<1>7. RetriesCounted'
  BY <1>1, CountsStay DEF RetentionInv
<1>8. NothingIsRemoved
  BY <1>4 DEF NothingIsRemoved, Kept
<1> QED BY <1>2, <1>5, <1>6, <1>7, <1>8 DEF RetentionInv

-----------------------------------------------------------------------------
LEMMA BuildsInserted ==
  ASSUME RetentionInv,
         TriggerRow \/ \E b \in DOMAIN build : RetryRow(b) \/ ScheduleAutomaticRetry(b)
  PROVE  RetentionInv' /\ NothingIsRemoved
<1>1. RetryLimit \in Nat
  BY RetentionAssumption
<1>2. CASE TriggerRow
  BY <1>1, <1>2, RowInserted DEF TriggerRow
<1>3. ASSUME NEW b \in DOMAIN build, RetryRow(b) PROVE RetentionInv' /\ NothingIsRemoved
  <2>1. build[b].auto \in Nat /\ b \in Nat /\ b # 0 /\ build[b].auto <= RetryLimit
    BY RowsAreTyped DEF RetentionInv, RetriesCounted
  <2>2. build' = Append(build, NewRow(b, build[b].auto)) /\ UNCHANGED <<finished, due, cleaner>>
    BY <1>3 DEF RetryRow
  <2> QED BY <2>1, <2>2, RowInserted
<1>4. ASSUME NEW b \in DOMAIN build, ScheduleAutomaticRetry(b) PROVE RetentionInv' /\ NothingIsRemoved
  <2>1. due' = due \ {b} /\ UNCHANGED <<finished, cleaner>>
    BY <1>4 DEF ScheduleAutomaticRetry
  <2>2. CASE RetryLimit > 0 /\ MayRetry(b) /\ Len(build) < MaxBuilds
    <3>1. build' = Append(build, NewRow(b, build[b].auto + 1))
      BY <1>4, <2>2 DEF ScheduleAutomaticRetry
    <3>2. build[b].auto + 1 <= RetryLimit
      BY <2>2, RetriesAreLimited DEF RetentionInv
    <3>3. build[b].auto \in Nat /\ build[b].auto + 1 \in Nat /\ b \in Nat /\ b # 0
      BY RowsAreTyped DEF RetentionInv
    <3> QED BY <2>1, <3>1, <3>2, <3>3, RowInserted
  <2>3. CASE ~(RetryLimit > 0 /\ MayRetry(b) /\ Len(build) < MaxBuilds)
    <3>1. build' = build
      BY <1>4, <2>3, Zenon DEF ScheduleAutomaticRetry
    <3> QED BY <2>1, <3>1 DEF RetentionInv, RetentionTypes, RetriesCounted, OldAreListed, RecordsAreGone,
                              ChildrenGoFirst, Kept, Newer, Completed, IsNext, Newest,
                              NothingIsRemoved
  <2> QED BY <2>2, <2>3
<1> QED BY <1>2, <1>3, <1>4

LEMMA BuildsFinish ==
  ASSUME RetentionInv, NEW b \in DOMAIN build, NEW status \in {"success", "failed", "cancelled"},
         Finish(b, status), ~Completed(b), due' \subseteq due \cup {b},
         \A c \in Cleaners : cleaner'[c].removal = cleaner[c].removal, cleaner' \in [Cleaners -> Task]
  PROVE  RetentionInv' /\ NothingIsRemoved
<1>1. finished \in Nat /\ finished' = finished + 1 /\ build[b].finished = 0
  BY DEF Finish, RetentionInv, RetentionTypes, OldAreListed
<1>2. build[b] \in BuildRow
  BY RowsAreTyped DEF RetentionInv
<1>3. PICK row : row = Ended(b, status)
  OBVIOUS
<1>4. /\ row \in BuildRow /\ row.parent = build[b].parent /\ row.auto = build[b].auto /\ row.gone = build[b].gone
      /\ row.children = build[b].children \cup {"events"} /\ row.finished = finished + 1 /\ row.status = status
  <2>1. build[b].children \cup {"events"} \in SUBSET {"events", "records"} /\ finished + 1 \in Nat
    BY <1>1, RowsAreTyped DEF RetentionInv
  <2> DEFINE New(was, number, children) ==
                 [was EXCEPT !.status = status, !.finished = number, !.children = children]
  <2>2. \A was \in BuildRow : \A number \in Nat : \A children \in SUBSET {"events", "records"} :
            /\ New(was, number, children) \in BuildRow /\ New(was, number, children).parent = was.parent
            /\ New(was, number, children).auto = was.auto /\ New(was, number, children).gone = was.gone
            /\ New(was, number, children).children = children
            /\ New(was, number, children).finished = number /\ New(was, number, children).status = status
    <3> TAKE was \in BuildRow
    <3> TAKE number \in Nat
    <3> TAKE children \in SUBSET {"events", "records"}
    <3>1. PICK new : new = New(was, number, children)
      OBVIOUS
    <3>2. new = [status |-> status, pinned |-> was.pinned, parent |-> was.parent, finished |-> number,
                 gone |-> was.gone, children |-> children, auto |-> was.auto]
      BY <3>1 DEF BuildRow
    <3>3. new \in BuildRow
      BY <3>2 DEF BuildRow
    <3>4. /\ new.parent = was.parent /\ new.auto = was.auto /\ new.gone = was.gone
          /\ new.children = children /\ new.finished = number /\ new.status = status
      BY <3>2
    <3> HIDE DEF New
    <3> QED BY <3>1, <3>3, <3>4
  <2>3. row = New(build[b], finished + 1, build[b].children \cup {"events"})
    BY <1>3 DEF Ended
  <2> HIDE DEF New
  <2> QED BY <1>2, <2>1, <2>2, <2>3
<1>5. build' = [build EXCEPT ![b] = row]
  BY <1>3 DEF Finish
<1>6. /\ row.finished >= build[b].finished /\ row.finished <= finished' /\ finished' \in Nat /\ finished' >= finished
      /\ row.children \subseteq build[b].children \cup {"events"}
  BY <1>1, <1>4
<1> QED BY <1>4, <1>5, <1>6, RowWritten

LEMMA BuildsChange ==
  ASSUME RetentionInv, NEW b \in DOMAIN build,
         \/ RunRow(b) \/ FailThenRetry(b) \/ CancelRow(b) \/ LogEvent(b) \/ PinBuild(b)
         \/ \E c \in Cleaners : SucceedThenClean(b, c)
  PROVE  RetentionInv' /\ NothingIsRemoved
<1>1. build[b] \in BuildRow /\ finished \in Nat /\ cleaner \in [Cleaners -> Task]
      /\ build[b].finished \in Nat /\ build[b].finished <= finished /\ (Completed(b) \/ build[b].finished = 0)
  BY RowsAreTyped DEF RetentionInv, RetentionTypes, OldAreListed
<1>2. CASE RunRow(b)
  <2>1. PICK row : row = [build[b] EXCEPT !.status = "running"]
    OBVIOUS
  <2>2. build' = [build EXCEPT ![b] = row] /\ UNCHANGED <<finished, due, cleaner>> /\ ~Completed(b)
    BY <1>2, <2>1 DEF RunRow, Completed
  <2>3. /\ row \in BuildRow /\ row.parent = build[b].parent /\ row.auto = build[b].auto /\ row.gone = build[b].gone
        /\ row.children = build[b].children /\ row.finished = build[b].finished
    BY <1>1, <2>1 DEF BuildRow
  <2>4. /\ row.finished >= build[b].finished /\ row.finished <= finished' /\ finished' \in Nat /\ finished' >= finished
        /\ Completed(b) => row.status = build[b].status /\ row.finished = build[b].finished
        /\ row.status \in {"success", "failed", "cancelled"} \/ row.finished = 0
        /\ row.children \subseteq build[b].children \cup {"events"}
    BY <1>1, <2>2, <2>3 DEF Completed
  <2>5. /\ due' \subseteq due \cup {b} /\ cleaner' \in [Cleaners -> Task]
        /\ \A c \in Cleaners : cleaner'[c].removal = cleaner[c].removal
    BY <1>1, <2>2
  <2> QED BY <2>2, <2>3, <2>4, <2>5, RowWritten
<1>3. CASE FailThenRetry(b)
  <2>1. Finish(b, "failed") /\ due' = due \cup {b} /\ cleaner' = cleaner /\ ~Completed(b)
    BY <1>3 DEF FailThenRetry, Completed
  <2> QED BY <1>1, <2>1, BuildsFinish
<1>4. CASE CancelRow(b)
  <2>1. Finish(b, "cancelled") /\ due' = due /\ cleaner' = cleaner /\ ~Completed(b)
    BY <1>4 DEF CancelRow, Completed
  <2> QED BY <1>1, <2>1, BuildsFinish
<1>5. CASE LogEvent(b)
  <2>1. PICK row : row = [build[b] EXCEPT !.children = @ \cup {"events"}]
    OBVIOUS
  <2>2. build' = [build EXCEPT ![b] = row] /\ UNCHANGED <<finished, due, cleaner>>
    BY <1>5, <2>1 DEF LogEvent
  <2>3. /\ row \in BuildRow /\ row.parent = build[b].parent /\ row.auto = build[b].auto /\ row.gone = build[b].gone
        /\ row.children = build[b].children \cup {"events"} /\ row.finished = build[b].finished
        /\ row.status = build[b].status
    BY <1>1, <2>1 DEF BuildRow
  <2>4. /\ row.finished >= build[b].finished /\ row.finished <= finished' /\ finished' \in Nat /\ finished' >= finished
        /\ Completed(b) => row.status = build[b].status /\ row.finished = build[b].finished
        /\ row.status \in {"success", "failed", "cancelled"} \/ row.finished = 0
        /\ row.children \subseteq build[b].children \cup {"events"}
    BY <1>1, <2>2, <2>3 DEF Completed
  <2>5. /\ due' \subseteq due \cup {b} /\ cleaner' \in [Cleaners -> Task]
        /\ \A c \in Cleaners : cleaner'[c].removal = cleaner[c].removal
    BY <1>1, <2>2
  <2> QED BY <2>2, <2>3, <2>4, <2>5, RowWritten
<1>6. CASE PinBuild(b)
  <2>1. PICK row : row = [build[b] EXCEPT !.pinned = ~@]
    OBVIOUS
  <2>2. build' = [build EXCEPT ![b] = row] /\ UNCHANGED <<finished, due, cleaner>>
    BY <1>6, <2>1 DEF PinBuild
  <2>3. /\ row \in BuildRow /\ row.parent = build[b].parent /\ row.auto = build[b].auto /\ row.gone = build[b].gone
        /\ row.children = build[b].children /\ row.finished = build[b].finished
        /\ row.status = build[b].status
    BY <1>1, <2>1 DEF BuildRow
  <2>4. /\ row.finished >= build[b].finished /\ row.finished <= finished' /\ finished' \in Nat /\ finished' >= finished
        /\ Completed(b) => row.status = build[b].status /\ row.finished = build[b].finished
        /\ row.status \in {"success", "failed", "cancelled"} \/ row.finished = 0
        /\ row.children \subseteq build[b].children \cup {"events"}
    BY <1>1, <2>2, <2>3 DEF Completed
  <2>5. /\ due' \subseteq due \cup {b} /\ cleaner' \in [Cleaners -> Task]
        /\ \A c \in Cleaners : cleaner'[c].removal = cleaner[c].removal
    BY <1>1, <2>2
  <2> QED BY <2>2, <2>3, <2>4, <2>5, RowWritten
<1>7. ASSUME NEW c \in Cleaners, SucceedThenClean(b, c) PROVE RetentionInv' /\ NothingIsRemoved
  <2>1. Finish(b, "success") /\ due' = due /\ ~Completed(b) /\ cleaner' = [cleaner EXCEPT ![c].busy = TRUE]
    BY <1>7 DEF SucceedThenClean, Completed
  <2>2. cleaner' \in [Cleaners -> Task] /\ \A x \in Cleaners : cleaner'[x].removal = cleaner[x].removal
    BY <1>1, <2>1 DEF Task
  <2> QED BY <1>1, <2>1, <2>2, BuildsFinish
<1> QED BY <1>2, <1>3, <1>4, <1>5, <1>6, <1>7

\* A crash forgets the lists, and what was running waits again.
LEMMA CrashKeeps ==
  ASSUME RetentionInv, CrashAndRecover
  PROVE  RetentionInv' /\ NothingIsRemoved
<1>1. /\ build' = [b \in DOMAIN build |->
           IF build[b].status = "running" THEN [build[b] EXCEPT !.status = "pending"] ELSE build[b]]
      /\ due' = {} /\ finished' = finished
      /\ cleaner' = [c \in Cleaners |-> [busy |-> FALSE, removal |-> NothingToRemove]]
  BY DEF CrashAndRecover
<1>2. \A b \in DOMAIN build :
          /\ build'[b] \in BuildRow /\ build'[b].parent = build[b].parent /\ build'[b].auto = build[b].auto
          /\ build'[b].gone = build[b].gone /\ build'[b].children = build[b].children
          /\ build'[b].finished = build[b].finished
          /\ build[b].status # "running" => build'[b].status = build[b].status
          /\ build[b].status = "running" => build'[b].status = "pending"
  <2> TAKE b \in DOMAIN build
  <2>1. build[b] \in BuildRow
    BY RowsAreTyped DEF RetentionInv
  <2>2. CASE build[b].status = "running"
    <3>1. build'[b] = [build[b] EXCEPT !.status = "pending"]
      BY <1>1, <2>2
    <3> QED BY <2>1, <2>2, <3>1 DEF BuildRow
  <2>3. CASE build[b].status # "running"
    <3>1. build'[b] = build[b]
      BY <1>1, <2>3
    <3> QED BY <2>1, <2>3, <3>1
  <2> QED BY <2>2, <2>3
<1>3. build' \in Seq(BuildRow) /\ DOMAIN build' = DOMAIN build
  <2>1. DOMAIN build = 1..Len(build) /\ Len(build) \in Nat
    BY DEF RetentionInv, RetentionTypes
  <2>2. DOMAIN build' = 1..Len(build)
    BY <1>1, <2>1
  <2>3. build' \in [1..Len(build) -> BuildRow]
    BY <1>1, <1>2, <2>1
  <2> QED BY <2>1, <2>2, <2>3
<1>4. \A c \in Cleaners : cleaner'[c] = [busy |-> FALSE, removal |-> [ids |-> {}, next |-> 1]]
  BY <1>1 DEF NothingToRemove
<1>5. cleaner' \in [Cleaners -> Task]
  BY <1>1 DEF NothingToRemove, Task
<1>6. RetentionTypes'
  BY <1>1, <1>3, <1>5 DEF RetentionInv, RetentionTypes
<1>7. RetriesCounted'
  BY <1>2, <1>3, CountsStay DEF RetentionInv
<1>8. OldAreListed'
  <2>1. \A c \in Cleaners : cleaner'[c].removal.ids = {}
    BY <1>4
  <2> QED BY <1>1, <1>2, <1>3, <2>1 DEF RetentionInv, OldAreListed, Completed
<1>9. RecordsAreGone'
  <2>1. \A c \in Cleaners : cleaner'[c].removal.next = 1
    BY <1>4
  <2>2. ChildrenGoFirst'
    BY <1>2, <1>3 DEF ChildrenGoFirst, RetentionInv, RecordsAreGone
  <2> QED BY <2>1, <2>2 DEF RecordsAreGone
<1>10. NothingIsRemoved
  BY <1>2 DEF NothingIsRemoved, Kept
<1> QED BY <1>6, <1>7, <1>8, <1>9, <1>10 DEF RetentionInv

\* A selection lists what has as many newer ones.
LEMMA SelectionIsOld ==
  ASSUME RetentionInv, NEW c \in Cleaners, SelectCompletedBuilds(c)
  PROVE  RetentionInv'
<1> DEFINE ids == {b \in Kept : Completed(b) /\ ~build[b].pinned}
           old == {b \in ids : Cardinality({a \in ids : Newest(a, b)}) >= Retain}
<1>1. /\ cleaner' = [cleaner EXCEPT ![c] = [busy |-> old # {}, removal |-> [ids |-> old, next |-> 1]]]
      /\ UNCHANGED <<build, finished, due>>
  BY DEF SelectCompletedBuilds
<1>2. old \in SUBSET Nat /\ old \subseteq Kept /\ \A b \in old : Completed(b)
  BY RowsAreTyped DEF Kept, RetentionInv
<1>3. \A b \in old : Cardinality(Newer(b)) >= Retain
  <2> TAKE b \in old
  <2>1. {a \in ids : Newest(a, b)} \subseteq Newer(b)
    BY DEF Newer, Newest
  <2>2. IsFiniteSet(Newer(b))
    BY NewerAreFinite DEF RetentionInv
  <2>3. /\ Cardinality({a \in ids : Newest(a, b)}) <= Cardinality(Newer(b))
        /\ IsFiniteSet({a \in ids : Newest(a, b)})
    BY <2>1, <2>2, FS_Subset
  <2>4. Cardinality({a \in ids : Newest(a, b)}) >= Retain
    OBVIOUS
  <2>5. Cardinality({a \in ids : Newest(a, b)}) \in Nat /\ Cardinality(Newer(b)) \in Nat /\ Retain \in Nat
    BY <2>2, <2>3, FS_CardinalityType, RetentionAssumption
  <2> HIDE DEF old, ids
  <2> QED BY <2>3, <2>4, <2>5
<1> HIDE DEF old, ids
<1>4. cleaner' \in [Cleaners -> Task] /\ cleaner'[c].removal.ids = old /\ cleaner'[c].removal.next = 1
      /\ \A x \in Cleaners : x # c => cleaner'[x] = cleaner[x]
  BY <1>1, <1>2 DEF RetentionInv, RetentionTypes, Task
<1>5. RetentionTypes' /\ RetriesCounted'
  BY <1>1, <1>4 DEF RetentionInv, RetentionTypes, RetriesCounted
<1>6. OldAreListed'
  <2>1. \A b : Newer(b)' = Newer(b) /\ Completed(b)' = Completed(b)
    BY <1>1 DEF Newer, Kept, Completed
  <2>2. /\ \A b \in DOMAIN build' : build'[b].finished <= finished'
        /\ \A b \in DOMAIN build' : Completed(b)' \/ build'[b].finished = 0
    BY <1>1, <2>1 DEF RetentionInv, OldAreListed
  <2>3. ASSUME NEW x \in Cleaners, NEW b \in cleaner'[x].removal.ids
        PROVE  b \in DOMAIN build' /\ Completed(b)' /\ Cardinality(Newer(b)') >= Retain
    <3>1. CASE x = c
      <4>1. b \in old
        BY <1>4, <2>3, <3>1
      <4>2. b \in DOMAIN build /\ Completed(b) /\ Cardinality(Newer(b)) >= Retain
        BY <1>2, <1>3, <4>1 DEF Kept
      <4> QED BY <1>1, <2>1, <4>2
    <3>2. CASE x # c
      <4>1. b \in cleaner[x].removal.ids
        BY <1>4, <2>3, <3>2
      <4>2. b \in DOMAIN build /\ Completed(b) /\ Cardinality(Newer(b)) >= Retain
        BY <4>1 DEF RetentionInv, OldAreListed
      <4> QED BY <1>1, <2>1, <4>2
    <3> QED BY <3>1, <3>2
  <2> QED BY <2>2, <2>3 DEF OldAreListed
<1>7. RecordsAreGone'
  BY <1>1, <1>4 DEF RetentionInv, RecordsAreGone, ChildrenGoFirst, IsNext, Newest
<1> QED BY <1>5, <1>6, <1>7 DEF RetentionInv

\* A build that is removed has its newer ones left, and they are newer than all older ones.
LEMMA RemovalKeeps ==
  ASSUME RetentionInv, NEW c \in Cleaners, RemoveNext(c)
  PROVE  /\ RetentionInv'
         /\ \A b \in Kept : build'[b].gone => Cardinality(Newer(b)) >= Retain
<1> DEFINE ids == cleaner[c].removal.ids
           next == cleaner[c].removal.next
<1>1. PICK b \in ids :
        /\ \A a \in ids \ {b} : Newest(b, a)
        /\ build' = [build EXCEPT ![b] = Deleted(b, Removal[next])]
        /\ cleaner' = [cleaner EXCEPT ![c] =
               IF next < Len(Removal) THEN [busy |-> TRUE, removal |-> [ids |-> ids, next |-> next + 1]]
               ELSE [busy |-> ids # {b}, removal |-> [ids |-> ids \ {b}, next |-> 1]]]
        /\ UNCHANGED <<finished, due>>
  BY DEF RemoveNext
<1>2. /\ b \in DOMAIN build /\ Completed(b) /\ Cardinality(Newer(b)) >= Retain
      /\ next \in 1..3 /\ ids \in SUBSET Nat /\ build[b] \in BuildRow
  BY RowsAreTyped DEF RetentionInv, RetentionTypes, OldAreListed, Task
<1>3. Len(Removal) = 3 /\ Removal[1] = "events" /\ Removal[2] = "records" /\ Removal[3] = "build"
  BY DEF Removal
<1>4. PICK row : row = Deleted(b, Removal[next])
  OBVIOUS
<1>5. /\ row \in BuildRow /\ row.parent = build[b].parent /\ row.auto = build[b].auto
      /\ row.finished = build[b].finished /\ row.status = build[b].status
      /\ next # 3 => row.gone = build[b].gone /\ row.children = build[b].children \ {Removal[next]}
      /\ next = 3 => row.gone = TRUE /\ row.children = build[b].children
  <2>1. CASE next = 3
    <3>1. row = [build[b] EXCEPT !.gone = TRUE]
      BY <1>3, <1>4, <2>1 DEF Deleted
    <3> QED BY <1>2, <2>1, <3>1 DEF BuildRow
  <2>2. CASE next # 3
    <3>1. row = [build[b] EXCEPT !.children = @ \ {Removal[next]}]
      BY <1>2, <1>3, <1>4, <2>2 DEF Deleted
    <3> QED BY <1>2, <2>2, <3>1 DEF BuildRow
  <2> QED BY <2>1, <2>2
<1>6. /\ build' \in Seq(BuildRow) /\ DOMAIN build' = DOMAIN build
      /\ \A a \in DOMAIN build : build'[a] = IF a = b THEN row ELSE build[a]
  <2>1. build' = [build EXCEPT ![b] = row]
    BY <1>1, <1>4
  <2>2. build \in Seq(BuildRow) /\ b \in DOMAIN build /\ row \in BuildRow
    BY <1>2, <1>5 DEF RetentionInv, RetentionTypes
  <2> HIDE DEF ids, next
  <2> QED BY <2>1, <2>2
<1>7. /\ cleaner' \in [Cleaners -> Task] /\ \A x \in Cleaners : x # c => cleaner'[x] = cleaner[x]
      /\ next # 3 => cleaner'[c].removal.ids = ids /\ cleaner'[c].removal.next = next + 1
      /\ next = 3 => cleaner'[c].removal.ids = ids \ {b} /\ cleaner'[c].removal.next = 1
  <2>1. CASE next = 3
    <3>1. cleaner' = [cleaner EXCEPT ![c] = [busy |-> ids # {b}, removal |-> [ids |-> ids \ {b}, next |-> 1]]]
      BY <1>1, <1>3, <2>1
    <3> QED BY <1>2, <2>1, <3>1 DEF RetentionInv, RetentionTypes, Task
  <2>2. CASE next # 3
    <3>1. cleaner' = [cleaner EXCEPT ![c] = [busy |-> TRUE, removal |-> [ids |-> ids, next |-> next + 1]]]
      <4>1. next < Len(Removal)
        BY <1>2, <1>3, <2>2
      <4> QED BY <1>1, <4>1
    <3> QED BY <1>2, <2>2, <3>1 DEF RetentionInv, RetentionTypes, Task
  <2> QED BY <2>1, <2>2
<1>8. RetentionTypes'
  BY <1>1, <1>6, <1>7 DEF RetentionInv, RetentionTypes
<1>9. RetriesCounted'
  BY <1>5, <1>6, CountsStay DEF RetentionInv
<1>10. \A a \in DOMAIN build : build'[a].finished = build[a].finished /\ build'[a].status = build[a].status
                               /\ build'[a].children \subseteq build[a].children
                               /\ (build'[a].gone => build[a].gone \/ (a = b /\ next = 3))
  BY <1>2, <1>5, <1>6
<1>11. \A x \in DOMAIN build : Cardinality(Newer(x)) >= Retain => Cardinality(Newer(x)') >= Retain
  <2> TAKE x \in DOMAIN build
  <2> HAVE Cardinality(Newer(x)) >= Retain
  <2>1. IsFiniteSet(Newer(x)) /\ IsFiniteSet(Newer(b)) /\ Retain \in Nat
    BY NewerAreFinite, RetentionAssumption DEF RetentionInv
  <2>2. Newer(x)' \subseteq Newer(x)
    BY <1>6, <1>10, <1>5 DEF Newer, Kept
  <2>3. IsFiniteSet(Newer(x)')
    BY <2>1, <2>2, FS_Subset
  <2>4. \A a \in Newer(x) : a # b => a \in Newer(x)'
    BY <1>6, <1>10 DEF Newer, Kept
  <2>5. CASE b \notin Newer(x)
    <3>1. Newer(x) = Newer(x)'
      BY <2>2, <2>4, <2>5
    <3> QED BY <3>1
  <2>6. CASE b \in Newer(x)
    <3>1. Newer(b) \subseteq Newer(x)'
      <4> SUFFICES ASSUME NEW a \in Newer(b) PROVE a \in Newer(x)'
        OBVIOUS
      <4>1. a \in DOMAIN build /\ a \in Kept /\ build[a].finished > build[b].finished
        BY DEF Newer, Kept
      <4>2. build[b].finished > build[x].finished
        BY <2>6 DEF Newer
      <4>3. build[a].finished \in Nat /\ build[b].finished \in Nat /\ build[x].finished \in Nat
        BY <1>2, <4>1, RowsAreTyped DEF RetentionInv
      <4>4. a # b /\ build[a].finished > build[x].finished
        BY <4>1, <4>2, <4>3
      <4> QED BY <2>4, <4>1, <4>4 DEF Newer
    <3>2. Cardinality(Newer(b)) <= Cardinality(Newer(x)')
      BY <2>3, <3>1, FS_Subset
    <3>3. Cardinality(Newer(b)) \in Nat /\ Cardinality(Newer(x)') \in Nat
      BY <2>1, <2>3, FS_CardinalityType
    <3> QED BY <1>2, <2>1, <3>2, <3>3
  <2> QED BY <2>5, <2>6
<1>12. OldAreListed'
  <2>1. \A x \in Cleaners : cleaner'[x].removal.ids \subseteq cleaner[x].removal.ids
    BY <1>7
  <2>2. \A x \in Cleaners : \A a \in cleaner'[x].removal.ids :
            a \in DOMAIN build' /\ Completed(a)' /\ Cardinality(Newer(a)') >= Retain
    BY <1>6, <1>10, <1>11, <2>1 DEF RetentionInv, OldAreListed, Completed
  <2>3. \A a \in DOMAIN build' : build'[a].finished <= finished' /\ (Completed(a)' \/ build'[a].finished = 0)
    BY <1>1, <1>6, <1>10 DEF RetentionInv, OldAreListed, Completed
  <2> QED BY <2>2, <2>3 DEF OldAreListed
<1>13. RecordsAreGone'
  <2>1. ChildrenGoFirst'
    <3> SUFFICES ASSUME NEW a \in DOMAIN build', build'[a].gone
                 PROVE  build'[a].children \subseteq {"events"}
      BY DEF ChildrenGoFirst
    <3>1. CASE build[a].gone
      BY <1>6, <1>10, <3>1 DEF RetentionInv, RecordsAreGone, ChildrenGoFirst
    <3>2. CASE a = b /\ next = 3
      <4>1. IsNext(c, b)
        BY <1>1 DEF IsNext
      <4>2. "records" \notin build[b].children
        BY <3>2, <4>1 DEF RetentionInv, RecordsAreGone
      <4>3. build[b].children \subseteq {"events", "records"}
        BY <1>2, RowsAreTyped DEF RetentionInv
      <4> QED BY <1>6, <1>10, <3>2, <4>2, <4>3
    <3> QED BY <1>6, <1>10, <3>1, <3>2
  <2>2. ASSUME NEW x \in Cleaners, NEW a, cleaner'[x].removal.next = 3, IsNext(x, a)'
        PROVE  "records" \notin build'[a].children
    <3>1. CASE x # c
      <4>1. IsNext(x, a) /\ cleaner[x].removal.next = 3
        BY <1>7, <1>10, <2>2, <3>1 DEF IsNext, Newest, RetentionInv, OldAreListed
      <4>2. a \in DOMAIN build /\ "records" \notin build[a].children
        BY <4>1 DEF RetentionInv, RecordsAreGone, OldAreListed, IsNext
      <4> QED BY <1>10, <4>2
    <3>2. CASE x = c
      <4>1. next = 2 /\ cleaner'[c].removal.ids = ids
        BY <1>2, <1>7, <2>2, <3>2
      <4>2. a \in ids /\ (a # b => Newest(a, b)')
        BY <1>1, <2>2, <3>2, <4>1 DEF IsNext
      <4>3. a = b
        <5> SUFFICES ASSUME a # b PROVE FALSE
          OBVIOUS
        <5>1. Newest(b, a) /\ Newest(a, b)'
          BY <1>1, <4>2
        <5>2. a \in DOMAIN build
          BY <4>2 DEF RetentionInv, OldAreListed
        <5>3. build[b].finished > build[a].finished /\ build[a].finished > build[b].finished
          BY <1>2, <1>10, <5>1, <5>2 DEF Newest
        <5>4. build[b].finished \in Nat /\ build[a].finished \in Nat
          BY <1>2, <5>2, RowsAreTyped DEF RetentionInv
        <5> QED BY <5>3, <5>4
      <4>4. build'[b].children = build[b].children \ {"records"}
        BY <1>2, <1>3, <1>5, <1>6, <4>1
      <4> QED BY <4>3, <4>4
    <3> QED BY <3>1, <3>2
  <2> QED BY <2>1, <2>2 DEF RecordsAreGone
<1>14. \A x \in Kept : build'[x].gone => Cardinality(Newer(x)) >= Retain
  BY <1>2, <1>10 DEF Kept
<1> QED BY <1>8, <1>9, <1>12, <1>13, <1>14 DEF RetentionInv

\* Pruning takes the oldest builds with all they own, and nothing the rest rely on, for any
\* builds, pruners, pins, retries and crashes.
THEOREM PruningIsInvisibleHolds == RetentionSpec => PruningIsInvisible
<1> DEFINE Removed == \A b \in Kept :
               build'[b].gone => Cardinality({a \in Kept : build[a].finished > build[b].finished}) >= Retain
<1>1. RetentionInit => RetentionInv
  <2> SUFFICES ASSUME RetentionInit PROVE RetentionInv
    OBVIOUS
  <2>1. build = <<>> /\ finished = 0 /\ due = {}
        /\ cleaner = [c \in Cleaners |-> [busy |-> FALSE, removal |-> [ids |-> {}, next |-> 1]]]
    BY DEF RetentionInit, NothingToRemove
  <2>2. cleaner \in [Cleaners -> Task]
    BY <2>1 DEF Task
  <2>3. \A c \in Cleaners : cleaner[c].removal.ids = {} /\ cleaner[c].removal.next = 1
    BY <2>1
  <2> QED BY <2>1, <2>2, <2>3 DEF RetentionInv, RetentionTypes, RetriesCounted, OldAreListed, RecordsAreGone, ChildrenGoFirst
<1>2. RetentionInv /\ RetentionNext => RetentionInv' /\ Removed
  <2> SUFFICES ASSUME RetentionInv, RetentionNext PROVE RetentionInv' /\ Removed
    OBVIOUS
  <2>1. NothingIsRemoved => Removed
    BY DEF NothingIsRemoved
  <2>2. CASE TriggerRow \/ \E b \in DOMAIN build : RetryRow(b) \/ ScheduleAutomaticRetry(b)
    BY <2>1, <2>2, BuildsInserted
  <2>3. ASSUME NEW b \in DOMAIN build,
               \/ RunRow(b) \/ FailThenRetry(b) \/ CancelRow(b) \/ LogEvent(b) \/ PinBuild(b)
               \/ \E c \in Cleaners : SucceedThenClean(b, c)
        PROVE  RetentionInv' /\ Removed
    BY <2>1, <2>3, BuildsChange
  <2>4. CASE CrashAndRecover
    BY <2>1, <2>4, CrashKeeps
  <2>5. ASSUME NEW c \in Cleaners, SelectCompletedBuilds(c) PROVE RetentionInv' /\ Removed
    <3>1. build' = build
      BY <2>5 DEF SelectCompletedBuilds
    <3>2. NothingIsRemoved
      BY <3>1 DEF NothingIsRemoved, Kept
    <3> QED BY <2>1, <2>5, <3>2, SelectionIsOld
  <2>6. ASSUME NEW c \in Cleaners, RemoveNext(c) PROVE RetentionInv' /\ Removed
    BY <2>6, RemovalKeeps DEF Newer
  <2> QED BY <2>2, <2>3, <2>4, <2>5, <2>6 DEF RetentionNext
<1>3. RetentionInv /\ UNCHANGED retentionVars => RetentionInv'
  BY DEF retentionVars, RetentionInv, RetentionTypes, RetriesCounted, OldAreListed, RecordsAreGone,
         ChildrenGoFirst, Kept, Newer, Completed, IsNext, Newest
<1>4. RetentionInv => RetryLimitSurvivesPruning /\ ChildrenGoFirst
  BY DEF RetentionInv, RetriesCounted, RecordsAreGone, RetryLimitSurvivesPruning
<1>5. RetentionInv /\ [RetentionNext]_retentionVars => RetentionInv' /\ [Removed]_retentionVars
  BY <1>2, <1>3
<1> QED BY <1>1, <1>4, <1>5, PTL DEF RetentionSpec, PruningIsInvisible, NewestAreKept

-----------------------------------------------------------------------------
(***************************************************************************)
(* The ways builds come into being.  The numbers of a project have no      *)
(* gaps: a number that was read and is still free is the next one.  What a *)
(* request has read stays true until it inserts its row.                   *)
(***************************************************************************)
AnyProject == IntakeProjects \cup {0, FirstProject}
Statuses == {"pending", "running", "pending_approval", "success", "failed"}
IntakeRow == [project : AnyProject, number : Nat, trigger : Sources, status : Statuses,
              gated : BOOLEAN, record : BOOLEAN, commit : Nat, release : BOOLEAN, confirmed : BOOLEAN,
              parent : Nat]
IntakeRequest == [project : AnyProject, number : Nat, row : Nat, commit : Nat, release : BOOLEAN,
                  confirmed : BOOLEAN, parent : Nat]
IntakeSteps == {"idle", "number", "insert", "approval", "queue", "remote", "create", "record"}

IntakeTypes ==
    /\ rows \in Seq(IntakeRow)
    /\ head \in Nat /\ lastSeen \in Nat /\ lastSeen <= head
    /\ step \in [Requests -> IntakeSteps] /\ request \in [Requests -> IntakeRequest]
    /\ candidates \subseteq IntakeProjects

\* Every number up to n was given to a build of p.
GivenUpTo(p, n) == \A k \in 1..n : \E a \in RowsOf(p) : rows[a].number = k

Numbered ==
    /\ NumbersFollowCreation
    /\ \A b \in DOMAIN rows : GivenUpTo(rows[b].project, rows[b].number)

Polled ==
    /\ OneBuildPerCommit
    /\ \A b \in DOMAIN rows : rows[b].trigger = "vcs" => rows[b].commit <= lastSeen

Publications == {b \in DOMAIN rows : rows[b].release}

Published ==
    /\ \A b \in DOMAIN rows : rows[b].parent < b
    /\ \A b \in Publications :
           /\ ~RetriedTimes(b, IntakeRetries + 1)
           /\ IF rows[b].parent = 0 THEN rows[b].confirmed
              ELSE /\ rows[b].parent \in Publications
                   /\ rows[rows[b].parent].status = "failed"
                   /\ \A c \in Publications : rows[c].parent = rows[b].parent => c = b

\* What a request at step s knows when it has read q.
RequestOK(r, s, q) ==
    /\ s \in {"number", "insert", "approval"} => Source[r] # "startup"
    /\ s \in {"number", "insert"} =>
           /\ q.release => q.confirmed /\ q.parent = 0 /\ Source[r] # "retry"
           /\ q.parent <= Len(rows)
           /\ Source[r] = "vcs" =>
                  /\ q.commit = lastSeen
                  /\ \A b \in DOMAIN rows : rows[b].trigger = "vcs" => rows[b].commit # lastSeen
    /\ s = "insert" => q.number # 0 /\ GivenUpTo(q.project, q.number - 1)
    /\ s = "remote" => Source[r] = "vcs" /\ q.number = lastSeen
    /\ s = "approval" => q.row \in DOMAIN rows /\ rows[q.row].trigger = Source[r]
    /\ s \in {"create", "record"} => Source[r] = "startup" /\ ~q.release /\ q.parent = 0
    /\ s = "record" =>
           q.row \in DOMAIN rows /\ rows[q.row].trigger = "startup" /\ rows[q.row].gated = q.confirmed

RequestsOK == \A r \in Requests : RequestOK(r, step[r], request[r])

IntakeInv == IntakeTypes /\ Numbered /\ StartupIsHeld /\ Polled /\ Published /\ RequestsOK

-----------------------------------------------------------------------------
LEMMA RowTypes ==
  ASSUME IntakeTypes, NEW b \in DOMAIN rows
  PROVE  /\ rows[b] \in IntakeRow /\ b \in Nat /\ b # 0 /\ b <= Len(rows)
         /\ rows[b].number \in Nat /\ rows[b].parent \in Nat /\ rows[b].commit \in Nat
         /\ rows[b].project \in AnyProject /\ rows[b].trigger \in Sources
         /\ rows[b].status \in Statuses
<1>1. rows[b] \in IntakeRow /\ b \in Nat /\ b # 0 /\ b <= Len(rows)
  BY DEF IntakeTypes
<1> QED BY <1>1 DEF IntakeRow

\* The next number is larger than all that were given, and they were all given.
LEMMA NextIsFree ==
  ASSUME IntakeTypes, Numbered, NEW p
  PROVE  /\ NextBuildNumber(p) \in Nat /\ NextBuildNumber(p) # 0
         /\ \A b \in RowsOf(p) : rows[b].number < NextBuildNumber(p)
         /\ GivenUpTo(p, NextBuildNumber(p) - 1)
<1> DEFINE numbers == {rows[b].number : b \in RowsOf(p)}
<1>1. \A b \in RowsOf(p) : b \in DOMAIN rows /\ b \in Nat /\ b <= Len(rows) /\ rows[b].number \in Nat /\ rows[b].project = p
  BY RowTypes DEF RowsOf
<1>2. CASE RowsOf(p) = {}
  <2>1. NextBuildNumber(p) = 1
    BY <1>2 DEF NextBuildNumber, LargestNumber, Largest
  <2> QED BY <1>2, <2>1 DEF GivenUpTo
<1>3. CASE RowsOf(p) # {}
  <2>1. Len(rows) \in Nat
    BY DEF IntakeTypes
  <2> DEFINE ages == {Len(rows) - b : b \in RowsOf(p)}
  <2>2. ages \in SUBSET Nat /\ ages # {}
    BY <1>1, <1>3, <2>1
  <2>3. PICK age \in ages : \A n \in ages : age <= n
    BY <2>2, LeastNatural
  <2>4. PICK last \in RowsOf(p) : age = Len(rows) - last
    BY <2>3
  <2>5. \A b \in RowsOf(p) : b <= last
    <3> TAKE b \in RowsOf(p)
    <3>1. Len(rows) - last <= Len(rows) - b
      BY <2>3, <2>4
    <3>2. b \in Nat /\ last \in Nat
      BY <1>1
    <3> QED BY <2>1, <3>1, <3>2
  <2>6. \A b \in RowsOf(p) : rows[b].number <= rows[last].number
    <3> TAKE b \in RowsOf(p)
    <3>1. b = last \/ b < last
      BY <1>1, <2>5
    <3> QED BY <1>1, <3>1 DEF Numbered, NumbersFollowCreation
  <2> DEFINE m == rows[last].number
  <2>7. m \in numbers /\ m \in Nat /\ \A n \in numbers : n <= m /\ n \in Nat
    BY <1>1, <2>6
  <2>8. Largest(numbers) = m
    <3>1. numbers # {} /\ \E n \in numbers : \A k \in numbers : k <= n
      BY <2>7
    <3>2. Largest(numbers) \in numbers /\ \A k \in numbers : k <= Largest(numbers)
      BY <3>1 DEF Largest
    <3> HIDE DEF numbers
    <3>3. m <= Largest(numbers) /\ Largest(numbers) <= m /\ Largest(numbers) \in Nat
      BY <2>7, <3>2
    <3> QED BY <2>7, <3>3
  <2>9. NextBuildNumber(p) = m + 1
    BY <2>8 DEF NextBuildNumber, LargestNumber
  <2>10. GivenUpTo(p, m)
    BY <1>1, <2>4 DEF Numbered
  <2>11. NextBuildNumber(p) \in Nat /\ NextBuildNumber(p) # 0 /\ NextBuildNumber(p) - 1 = m
    BY <2>7, <2>9
  <2>12. \A b \in RowsOf(p) : rows[b].number < NextBuildNumber(p)
    BY <1>1, <2>6, <2>7, <2>9
  <2> QED BY <2>10, <2>11, <2>12
<1> QED BY <1>2, <1>3

\* A number that was read and is free is larger than all that were given.
LEMMA FreeIsNext ==
  ASSUME IntakeTypes, Numbered, NEW p, NEW n \in Nat, n # 0, GivenUpTo(p, n - 1), NumberIsFree(p, n)
  PROVE  \A b \in RowsOf(p) : rows[b].number < n
<1> TAKE b \in RowsOf(p)
<1>1. b \in DOMAIN rows /\ rows[b].project = p /\ rows[b].number \in Nat
  BY RowTypes DEF RowsOf
<1>2. ~(n <= rows[b].number)
  <2>1. SUFFICES ASSUME n <= rows[b].number PROVE FALSE
    OBVIOUS
  <2>2. GivenUpTo(p, rows[b].number)
    BY <1>1 DEF Numbered
  <2>3. n \in 1..rows[b].number
    BY <1>1, <2>1
  <2>4. PICK a \in RowsOf(p) : rows[a].number = n
    BY <2>2, <2>3 DEF GivenUpTo
  <2> QED BY <2>4 DEF NumberIsFree
<1> QED BY <1>1, <1>2

-----------------------------------------------------------------------------
\* Rows are there to stay, and all about them but their status and approval is; x is the
\* row a step may add.
Carried(b) ==
    /\ rows'[b].project = rows[b].project /\ rows'[b].number = rows[b].number
    /\ rows'[b].trigger = rows[b].trigger /\ rows'[b].commit = rows[b].commit
    /\ rows'[b].release = rows[b].release /\ rows'[b].confirmed = rows[b].confirmed
    /\ rows'[b].parent = rows[b].parent
    /\ rows[b].status = "failed" => rows'[b].status = "failed"

RowsCarried ==
    /\ rows' \in Seq(IntakeRow)
    /\ Len(rows') \in {Len(rows), Len(rows) + 1}
    /\ \A b \in DOMAIN rows : Carried(b)

Added == rows'[Len(rows) + 1]

AddedOK ==
    /\ Added.number # 0
    /\ \A b \in RowsOf(Added.project) : rows[b].number < Added.number
    /\ GivenUpTo(Added.project, Added.number - 1)
    /\ Added.trigger = "vcs" =>
           /\ Added.commit = lastSeen
           /\ \A b \in DOMAIN rows : rows[b].trigger = "vcs" => rows[b].commit # lastSeen
    /\ Added.parent <= Len(rows)
    /\ Added.release =>
           IF Added.parent = 0 THEN Added.confirmed /\ Added.trigger # "retry"
           ELSE /\ Added.parent \in Publications
                /\ rows'[Added.parent].status = "failed"
                /\ \A c \in Publications : rows[c].parent # Added.parent
                /\ ~RetriedTimes(Added.parent, IntakeRetries)

OnlyAdded == Len(rows') = Len(rows) + 1 => AddedOK

LEMMA Domains ==
  ASSUME IntakeTypes, RowsCarried
  PROVE  /\ Len(rows) \in Nat
         /\ \A b \in DOMAIN rows : b \in DOMAIN rows' /\ b \in Nat /\ b # 0 /\ b <= Len(rows)
         /\ \A b \in Nat : b # 0 /\ b <= Len(rows) => b \in DOMAIN rows
         /\ \A b \in DOMAIN rows' : b \in DOMAIN rows \/ (b = Len(rows) + 1 /\ Len(rows') = Len(rows) + 1)
         /\ \A b \in DOMAIN rows' : /\ b \in Nat /\ rows'[b].number \in Nat /\ rows'[b].parent \in Nat
                                    /\ rows'[b].commit \in Nat
<1>1. Len(rows) \in Nat /\ DOMAIN rows = 1..Len(rows)
  BY DEF IntakeTypes
<1>2. DOMAIN rows' = 1..Len(rows') /\ \A b \in DOMAIN rows' : rows'[b] \in IntakeRow
  BY DEF RowsCarried
<1>3. Len(rows') = Len(rows) \/ Len(rows') = Len(rows) + 1
  BY DEF RowsCarried
<1>4. \A n \in Nat : \A m : m = n \/ m = n + 1 =>
        /\ \A b \in 1..n : b \in 1..m /\ b \in Nat /\ b # 0 /\ b <= n
        /\ \A b \in Nat : b # 0 /\ b <= n => b \in 1..n
        /\ \A b \in 1..m : b \in Nat /\ (b \in 1..n \/ (b = n + 1 /\ m = n + 1))
  OBVIOUS
<1>5. /\ \A b \in DOMAIN rows : b \in DOMAIN rows' /\ b \in Nat /\ b # 0 /\ b <= Len(rows)
      /\ \A b \in Nat : b # 0 /\ b <= Len(rows) => b \in DOMAIN rows
      /\ \A b \in DOMAIN rows' : b \in Nat /\ (b \in DOMAIN rows \/ (b = Len(rows) + 1 /\ Len(rows') = Len(rows) + 1))
  BY <1>1, <1>2, <1>3, <1>4, Zenon
<1>6. \A x \in IntakeRow : x.number \in Nat /\ x.parent \in Nat /\ x.commit \in Nat
  BY DEF IntakeRow
<1> QED BY <1>1, <1>2, <1>5, <1>6, Zenon

LEMMA GivenStays ==
  ASSUME IntakeTypes, RowsCarried, NEW p, NEW n, GivenUpTo(p, n)
  PROVE  GivenUpTo(p, n)'
<1>1. \A a \in RowsOf(p) : a \in DOMAIN rows' /\ rows'[a].project = p /\ rows'[a].number = rows[a].number
  BY Domains DEF RowsCarried, Carried, RowsOf
<1> QED BY <1>1 DEF GivenUpTo, RowsOf

LEMMA NumbersStay ==
  ASSUME IntakeTypes, Numbered, RowsCarried, OnlyAdded
  PROVE  Numbered'
<1>d. /\ Len(rows) \in Nat
      /\ \A b \in DOMAIN rows : b \in DOMAIN rows' /\ b \in Nat /\ b # 0 /\ b <= Len(rows)
      /\ \A b \in Nat : b # 0 /\ b <= Len(rows) => b \in DOMAIN rows
      /\ \A b \in DOMAIN rows' : b \in DOMAIN rows \/ (b = Len(rows) + 1 /\ Len(rows') = Len(rows) + 1)
      /\ \A b \in DOMAIN rows' : /\ b \in Nat /\ rows'[b].number \in Nat /\ rows'[b].parent \in Nat
                                 /\ rows'[b].commit \in Nat
  BY Domains
<1>1. NumbersFollowCreation'
  <2>1. SUFFICES ASSUME NEW a \in DOMAIN rows', NEW b \in DOMAIN rows', a < b,
                        rows'[a].project = rows'[b].project
                 PROVE  rows'[a].number < rows'[b].number
    BY <1>d DEF NumbersFollowCreation
  <2>2. CASE b \in DOMAIN rows
    <3>1. a \in DOMAIN rows
      BY <1>d, <2>1, <2>2
    <3> QED BY <1>d, <2>1, <2>2, <3>1 DEF Numbered, NumbersFollowCreation, RowsCarried, Carried
  <2>3. CASE b \notin DOMAIN rows
    <3>1. b = Len(rows) + 1 /\ a \in DOMAIN rows /\ AddedOK
      BY <1>d, <2>1, <2>3 DEF OnlyAdded
    <3>2. a \in RowsOf(Added.project) /\ rows'[a].number = rows[a].number
      BY <1>d, <2>1, <3>1 DEF RowsOf, Added, RowsCarried, Carried
    <3> QED BY <1>d, <3>1, <3>2 DEF AddedOK, Added
  <2> QED BY <1>d, <2>2, <2>3
<1>2. ASSUME NEW b \in DOMAIN rows' PROVE GivenUpTo(rows[b].project, rows[b].number)'
  <2>1. CASE b \in DOMAIN rows
    <3>1. GivenUpTo(rows[b].project, rows[b].number)
      BY <1>d, <2>1 DEF Numbered
    <3>2. PICK p, n : p = rows[b].project /\ n = rows[b].number
      OBVIOUS
    <3>3. GivenUpTo(p, n)'
      BY <1>d, <3>1, <3>2, GivenStays
    <3>4. rows'[b].project = p /\ rows'[b].number = n
      BY <1>d, <2>1, <3>2 DEF RowsCarried, Carried
    <3> QED BY <1>d, <3>3, <3>4
  <2>2. CASE b \notin DOMAIN rows
    <3>1. b = Len(rows) + 1 /\ AddedOK
      BY <1>d, <2>2 DEF OnlyAdded
    <3>2. PICK p, n : p = Added.project /\ n = Added.number
      OBVIOUS
    <3>3. GivenUpTo(p, n - 1) /\ n \in Nat /\ n # 0
      BY <1>d, <1>2, <3>1, <3>2 DEF AddedOK, Added
    <3>4. GivenUpTo(p, n - 1)'
      BY <1>d, <3>3, GivenStays
    <3>5. b \in RowsOf(p)' /\ rows'[b].number = n
      BY <1>d, <1>2, <3>1, <3>2 DEF RowsOf, Added
    <3>6. \A k \in 1..n : k \in 1..(n - 1) \/ k = n
      BY <1>d, <3>3
    <3>7. GivenUpTo(p, n)'
      BY <1>d, <3>4, <3>5, <3>6 DEF GivenUpTo
    <3>8. rows'[b].project = p
      BY <1>d, <3>5 DEF RowsOf
    <3> QED BY <1>d, <3>5, <3>7, <3>8
  <2> QED BY <1>d, <2>1, <2>2
<1> QED BY <1>d, <1>1, <1>2 DEF Numbered

LEMMA CommitsStay ==
  ASSUME IntakeTypes, Polled, RowsCarried, OnlyAdded,
         lastSeen' \in Nat, lastSeen <= lastSeen'
  PROVE  Polled'
<1>d. /\ Len(rows) \in Nat
      /\ \A b \in DOMAIN rows : b \in DOMAIN rows' /\ b \in Nat /\ b # 0 /\ b <= Len(rows)
      /\ \A b \in Nat : b # 0 /\ b <= Len(rows) => b \in DOMAIN rows
      /\ \A b \in DOMAIN rows' : b \in DOMAIN rows \/ (b = Len(rows) + 1 /\ Len(rows') = Len(rows) + 1)
      /\ \A b \in DOMAIN rows' : /\ b \in Nat /\ rows'[b].number \in Nat /\ rows'[b].parent \in Nat
                                 /\ rows'[b].commit \in Nat
  BY Domains
<1>1. \A b \in DOMAIN rows : rows'[b].trigger = rows[b].trigger /\ rows'[b].commit = rows[b].commit
  BY <1>d DEF RowsCarried, Carried
<1>2. lastSeen \in Nat
  BY <1>d DEF IntakeTypes
<1>3. ASSUME NEW b \in DOMAIN rows', b \notin DOMAIN rows, rows'[b].trigger = "vcs"
      PROVE  /\ rows'[b].commit = lastSeen
             /\ \A a \in DOMAIN rows : rows[a].trigger = "vcs" => rows[a].commit # lastSeen
  BY <1>d, <1>3 DEF OnlyAdded, AddedOK, Added
<1>4. OneBuildPerCommit'
  BY <1>d, <1>1, <1>3 DEF Polled, OneBuildPerCommit
<1>5. \A b \in DOMAIN rows' : rows'[b].trigger = "vcs" => rows'[b].commit <= lastSeen'
  <2> TAKE b \in DOMAIN rows'
  <2> HAVE rows'[b].trigger = "vcs"
  <2>1. rows'[b].commit <= lastSeen
    BY <1>d, <1>1, <1>2, <1>3 DEF Polled
  <2> QED BY <1>d, <1>2, <2>1
<1> QED BY <1>d, <1>4, <1>5 DEF Polled

\* The build a retry repeats, or that made it start, is older.
LEMMA ParentsAreOlder ==
  ASSUME IntakeTypes, Published, RowsCarried, OnlyAdded
  PROVE  \A b \in DOMAIN rows' : rows'[b].parent < b
<1> TAKE b \in DOMAIN rows'
<1>1. /\ b \in DOMAIN rows \/ (b = Len(rows) + 1 /\ Len(rows') = Len(rows) + 1)
      /\ rows'[b].parent \in Nat /\ Len(rows) \in Nat
  BY Domains
<1>2. CASE b \in DOMAIN rows
  <2>1. rows'[b].parent = rows[b].parent /\ rows[b].parent < b
    BY <1>2 DEF Published, RowsCarried, Carried
  <2> QED BY <2>1
<1>3. CASE b = Len(rows) + 1 /\ Len(rows') = Len(rows) + 1
  <2>1. rows'[b].parent <= Len(rows)
    BY <1>3 DEF OnlyAdded, AddedOK, Added
  <2> QED BY <1>1, <1>3, <2>1
<1> QED BY <1>1, <1>2, <1>3

\* Lines of retries grow at their young end only.
LEMMA LinesStay ==
  ASSUME IntakeTypes, Published, RowsCarried, OnlyAdded,
         NEW b \in DOMAIN rows, NEW n \in Nat, RetriedTimes(b, n)'
  PROVE  RetriedTimes(b, n)
<1>d. /\ Len(rows) \in Nat
      /\ \A a \in DOMAIN rows : a \in DOMAIN rows' /\ a \in Nat /\ a # 0 /\ a <= Len(rows)
      /\ \A a \in Nat : a # 0 /\ a <= Len(rows) => a \in DOMAIN rows
      /\ \A a \in DOMAIN rows' : a \in DOMAIN rows \/ (a = Len(rows) + 1 /\ Len(rows') = Len(rows) + 1)
      /\ \A a \in DOMAIN rows' : /\ a \in Nat /\ rows'[a].number \in Nat /\ rows'[a].parent \in Nat
                                 /\ rows'[a].commit \in Nat
  BY Domains
<1>1. PICK line \in [0..n -> DOMAIN rows'] :
        /\ line[0] = b
        /\ \A i \in 1..n : rows'[line[i - 1]].trigger = "retry" /\ line[i] = rows'[line[i - 1]].parent
  BY <1>d DEF RetriedTimes
<1>2. \A a \in DOMAIN rows' : rows'[a].parent < a
  BY ParentsAreOlder
<1>3. ASSUME NEW i \in 0..n PROVE line[i] \in DOMAIN rows
  <2>1. CASE i = 0
    BY <1>d, <1>1, <2>1
  <2>2. CASE i # 0
    <3>1. i \in 1..n /\ i - 1 \in 0..n
      BY <1>d, <2>2
    <3>2. line[i] < line[i - 1] /\ line[i] \in DOMAIN rows' /\ line[i - 1] \in DOMAIN rows'
      BY <1>d, <1>1, <1>2, <3>1
    <3> QED BY <1>d, <3>2
  <2> QED BY <1>d, <2>1, <2>2
<1>4. line \in [0..n -> DOMAIN rows]
  BY <1>d, <1>3
<1>5. \A i \in 1..n : rows[line[i - 1]].trigger = "retry" /\ line[i] = rows[line[i - 1]].parent
  <2> TAKE i \in 1..n
  <2>1. line[i - 1] \in DOMAIN rows
    BY <1>d, <1>3
  <2> QED BY <1>d, <1>1, <2>1 DEF RowsCarried, Carried
<1> QED BY <1>d, <1>1, <1>4, <1>5 DEF RetriedTimes

LEMMA PublicationsStay ==
  ASSUME IntakeTypes, Published, RowsCarried, OnlyAdded
  PROVE  Published'
<1>d. /\ Len(rows) \in Nat
      /\ \A b \in DOMAIN rows : b \in DOMAIN rows' /\ b \in Nat /\ b # 0 /\ b <= Len(rows)
      /\ \A b \in Nat : b # 0 /\ b <= Len(rows) => b \in DOMAIN rows
      /\ \A b \in DOMAIN rows' : b \in DOMAIN rows \/ (b = Len(rows) + 1 /\ Len(rows') = Len(rows) + 1)
      /\ \A b \in DOMAIN rows' : /\ b \in Nat /\ rows'[b].number \in Nat /\ rows'[b].parent \in Nat
                                 /\ rows'[b].commit \in Nat
  BY Domains
<1>0. IntakeRetries \in Nat /\ IntakeRetries + 1 \in Nat
  BY <1>d, IntakeAssumption
<1>1. \A b \in DOMAIN rows' : rows'[b].parent < b
  BY ParentsAreOlder
<1>2. \A b \in DOMAIN rows : b \in DOMAIN rows' /\ (b \in Publications' <=> b \in Publications) /\ rows'[b].parent = rows[b].parent
  BY <1>d DEF Publications, RowsCarried, Carried
<1>3. ASSUME NEW b \in Publications'
      PROVE  /\ ~RetriedTimes(b, IntakeRetries + 1)'
             /\ IF rows'[b].parent = 0 THEN rows'[b].confirmed
                ELSE /\ rows'[b].parent \in Publications'
                     /\ rows'[rows'[b].parent].status = "failed"
                     /\ \A c \in Publications' : rows'[c].parent = rows'[b].parent => c = b
  <2>0. b \in DOMAIN rows' /\ b \in Nat
    BY <1>d DEF Publications
  <2>1. CASE b \in DOMAIN rows
    <3>1. b \in Publications /\ rows'[b].parent = rows[b].parent /\ rows'[b].confirmed = rows[b].confirmed
      BY <1>d, <1>2, <1>3, <2>1 DEF RowsCarried, Carried
    <3>2. ~RetriedTimes(b, IntakeRetries + 1)'
      BY <1>d, <1>0, <2>1, <3>1, LinesStay DEF Published
    <3>3. CASE rows[b].parent = 0
      BY <1>d, <3>1, <3>2, <3>3 DEF Published
    <3>4. CASE rows[b].parent # 0
      <4>1. PICK a : a = rows[b].parent
        OBVIOUS
      <4>2. /\ a \in Publications /\ rows[a].status = "failed"
            /\ \A c \in Publications : rows[c].parent = a => c = b
        BY <1>d, <3>1, <3>4, <4>1 DEF Published
      <4>3. a \in DOMAIN rows /\ a \in Publications' /\ rows'[a].status = "failed"
        BY <1>d, <1>2, <4>2 DEF Publications, RowsCarried, Carried
      <4>4. \A c \in Publications' : rows'[c].parent = a => c = b
        <5> TAKE c \in Publications'
        <5> HAVE rows'[c].parent = a
        <5>1. CASE c \in DOMAIN rows
          BY <1>d, <1>2, <4>2, <5>1
        <5>2. CASE c \notin DOMAIN rows
          <6>1. c = Len(rows) + 1 /\ AddedOK /\ Added.parent = a /\ Added.release
            BY <1>d, <5>2 DEF OnlyAdded, Publications, Added
          <6>2. a # 0
            BY <1>d, <4>3
          <6>3. \A d \in Publications : rows[d].parent # a
            BY <1>d, <6>1, <6>2 DEF AddedOK
          <6> QED BY <1>d, <3>1, <4>1, <6>3
        <5> QED BY <1>d, <5>1, <5>2
      <4> QED BY <1>d, <3>1, <3>2, <3>4, <4>1, <4>3, <4>4
    <3> QED BY <1>d, <3>3, <3>4
  <2>2. CASE b \notin DOMAIN rows
    <3>1. b = Len(rows) + 1 /\ AddedOK /\ Added = rows'[b] /\ Added.release
      BY <1>d, <1>3, <2>0, <2>2 DEF OnlyAdded, Added, Publications
    <3>2. ASSUME RetriedTimes(b, IntakeRetries + 1)'
          PROVE  /\ rows'[b].trigger = "retry" /\ rows'[b].parent \in DOMAIN rows
                 /\ RetriedTimes(rows'[b].parent, IntakeRetries)
      <4> DEFINE n == IntakeRetries + 1
      <4>1. PICK line \in [0..n -> DOMAIN rows'] :
              /\ line[0] = b
              /\ \A i \in 1..n : rows'[line[i - 1]].trigger = "retry" /\ line[i] = rows'[line[i - 1]].parent
        BY <1>d, <3>2 DEF RetriedTimes
      <4>2. 1 \in 1..n /\ 1 \in 0..n /\ 0 \in 0..n /\ 1 - 1 = 0 /\ n - 1 = IntakeRetries /\ n \in Nat
        BY <1>d, <1>0
      <4>3. rows'[b].trigger = "retry" /\ line[1] = rows'[b].parent /\ line[1] \in DOMAIN rows'
        BY <1>d, <4>1, <4>2
      <4>4. PICK a : a = line[1]
        OBVIOUS
      <4>5. a \in DOMAIN rows
        BY <1>d, <1>1, <2>0, <3>1, <4>3, <4>4
      <4> DEFINE tail == [i \in 0..IntakeRetries |-> line[i + 1]]
      <4>6. tail \in [0..IntakeRetries -> DOMAIN rows']
        BY <1>d, <1>0, <4>1, <4>2
      <4>7. tail[0] = a
        BY <1>d, <1>0, <4>4
      <4>8. \A i \in 1..IntakeRetries : rows'[tail[i - 1]].trigger = "retry" /\ tail[i] = rows'[tail[i - 1]].parent
        <5> TAKE i \in 1..IntakeRetries
        <5>1. i + 1 \in 1..n /\ i - 1 \in 0..IntakeRetries /\ i \in 0..IntakeRetries /\ (i - 1) + 1 = (i + 1) - 1
          BY <1>d, <1>0
        <5>2. tail[i - 1] = line[(i + 1) - 1] /\ tail[i] = line[i + 1]
          BY <1>d, <5>1
        <5> QED BY <1>d, <4>1, <5>1, <5>2
      <4>9. RetriedTimes(a, IntakeRetries)'
        <5> HIDE DEF tail
        <5> QED BY <1>d, <4>6, <4>7, <4>8 DEF RetriedTimes
      <4>10. RetriedTimes(a, IntakeRetries)
        BY <1>d, <1>0, <4>5, <4>9, LinesStay
      <4> QED BY <1>d, <4>3, <4>4, <4>5, <4>10
    <3>3. CASE Added.parent = 0
      BY <1>d, <3>1, <3>2, <3>3 DEF AddedOK
    <3>4. CASE Added.parent # 0
      <4>1. PICK a : a = Added.parent
        OBVIOUS
      <4>2. /\ a \in Publications /\ rows'[a].status = "failed" /\ ~RetriedTimes(a, IntakeRetries)
            /\ \A c \in Publications : rows[c].parent # a
        BY <1>d, <3>1, <3>4, <4>1 DEF AddedOK
      <4>3. a \in Publications'
        BY <1>d, <1>2, <4>2 DEF Publications
      <4>4. \A c \in Publications' : rows'[c].parent = a => c = b
        <5> TAKE c \in Publications'
        <5> HAVE rows'[c].parent = a
        <5>1. c \in DOMAIN rows'
          BY <1>d DEF Publications
        <5>2. c \notin DOMAIN rows
          BY <1>d, <1>2, <4>2
        <5> QED BY <1>d, <3>1, <5>1, <5>2
      <4> QED BY <1>d, <3>1, <3>2, <3>4, <4>1, <4>2, <4>3, <4>4
    <3> QED BY <1>d, <3>3, <3>4
  <2> QED BY <1>d, <2>1, <2>2
<1> QED BY <1>d, <1>1, <1>3 DEF Published

-----------------------------------------------------------------------------
\* What a request that does not move knows stays true, unless the step is about the
\* commits of the poller or the approval of its row.
Stays(r) ==
    /\ step'[r] = step[r] /\ request'[r] = request[r]
    /\ Source[r] = "vcs" =>
           lastSeen' = lastSeen /\ \A b \in DOMAIN rows' : b \in DOMAIN rows \/ rows'[b].trigger # "vcs"
    /\ step[r] = "record" => rows'[request[r].row].gated = rows[request[r].row].gated

LEMMA RequestStays ==
  ASSUME IntakeTypes, RequestsOK, RowsCarried, NEW r \in Requests, Stays(r)
  PROVE  RequestOK(r, step[r], request[r])'
<1> PICK s, q : s = step[r] /\ q = request[r]
  OBVIOUS
<1>1. RequestOK(r, s, q)
  BY DEF RequestsOK
<1>2. /\ Len(rows) \in Nat
      /\ \A b \in DOMAIN rows : b \in DOMAIN rows'
      /\ Len(rows') = Len(rows) \/ Len(rows') = Len(rows) + 1
  BY Domains DEF RowsCarried
<1>3. q.parent \in Nat /\ (q.parent <= Len(rows) => q.parent <= Len(rows'))
  <2>1. request[r] \in IntakeRequest
    BY DEF IntakeTypes
  <2>2. q.parent \in Nat
    BY <2>1 DEF IntakeRequest
  <2> QED BY <1>2, <2>2
<1>4. \A b \in DOMAIN rows : rows'[b].trigger = rows[b].trigger /\ rows'[b].commit = rows[b].commit
  BY DEF RowsCarried, Carried
<1>5. GivenUpTo(q.project, q.number - 1) => GivenUpTo(q.project, q.number - 1)'
  <2> PICK p, n : p = q.project /\ n = q.number - 1
    OBVIOUS
  <2>1. GivenUpTo(p, n) => GivenUpTo(p, n)'
    BY GivenStays
  <2> QED BY <2>1
<1>6. s = "insert" => q.number # 0 /\ GivenUpTo(q.project, q.number - 1)'
  BY <1>1, <1>5 DEF RequestOK
<1>7. RequestOK(r, s, q)'
  <2> HIDE DEF GivenUpTo
  <2> QED BY <1>1, <1>2, <1>3, <1>4, <1>6 DEF RequestOK, Stays
<1> QED BY <1>7 DEF Stays

LEMMA StepKeeps ==
  ASSUME IntakeInv, RowsCarried, OnlyAdded, StartupIsHeld',
         step' \in [Requests -> IntakeSteps], request' \in [Requests -> IntakeRequest],
         candidates' \subseteq IntakeProjects,
         head' \in Nat, lastSeen' \in Nat, lastSeen <= lastSeen', lastSeen' <= head',
         NEW moved \in SUBSET Requests,
         \A r \in moved : RequestOK(r, step[r], request[r])',
         \A r \in Requests \ moved : Stays(r)
  PROVE  IntakeInv'
<1>1. IntakeTypes'
  BY DEF IntakeTypes, RowsCarried
<1>2. Numbered'
  BY NumbersStay DEF IntakeInv
<1>3. Polled'
  BY CommitsStay DEF IntakeInv
<1>4. Published'
  BY PublicationsStay DEF IntakeInv
<1>5. RequestsOK'
  <2>1. ASSUME NEW r \in Requests PROVE RequestOK(r, step[r], request[r])'
    <3>1. CASE r \in moved
      BY <3>1
    <3>2. CASE r \notin moved
      BY <3>2, RequestStays DEF IntakeInv
    <3> QED BY <3>1, <3>2
  <2> QED BY <2>1 DEF RequestsOK
<1> QED BY <1>1, <1>2, <1>3, <1>4, <1>5 DEF IntakeInv

\* Rows that stay as they are are carried.
LEMMA SameRows ==
  ASSUME IntakeTypes, rows' = rows
  PROVE  RowsCarried /\ OnlyAdded
<1>1. Len(rows) \in Nat
  BY DEF IntakeTypes
<1>2. Len(rows') # Len(rows) + 1
  BY <1>1
<1> QED BY <1>2 DEF IntakeTypes, RowsCarried, Carried, OnlyAdded

Moves(r, s, q) == step' = [step EXCEPT ![r] = s] /\ request' = [request EXCEPT ![r] = q]

LEMMA MovesOne ==
  ASSUME IntakeTypes, NEW r \in Requests, NEW s \in IntakeSteps, NEW q \in IntakeRequest, Moves(r, s, q)
  PROVE  /\ step' \in [Requests -> IntakeSteps] /\ request' \in [Requests -> IntakeRequest]
         /\ step'[r] = s /\ request'[r] = q
         /\ \A o \in Requests \ {r} : step'[o] = step[o] /\ request'[o] = request[o]
BY DEF IntakeTypes, Moves

\* A request that moves without touching the database.
LEMMA RequestMoves ==
  ASSUME IntakeInv, NEW r \in Requests, NEW s \in IntakeSteps, NEW q \in IntakeRequest,
         Moves(r, s, q), RequestOK(r, s, q),
         rows' = rows, lastSeen' = lastSeen, head' = head, candidates' \subseteq candidates
  PROVE  IntakeInv'
<1>1. IntakeTypes
  BY DEF IntakeInv
<1>2. /\ step' \in [Requests -> IntakeSteps] /\ request' \in [Requests -> IntakeRequest]
      /\ step'[r] = s /\ request'[r] = q
      /\ \A o \in Requests \ {r} : step'[o] = step[o] /\ request'[o] = request[o]
  BY <1>1, MovesOne
<1>3. RowsCarried /\ OnlyAdded
  BY <1>1, SameRows
<1>4. StartupIsHeld'
  BY DEF IntakeInv, StartupIsHeld
<1>5. RequestOK(r, s, q)'
  BY DEF RequestOK, GivenUpTo, RowsOf
<1>6. RequestOK(r, step[r], request[r])'
  BY <1>2, <1>5
<1>7. \A o \in Requests \ {r} : Stays(o)
  BY <1>2 DEF Stays
<1>8. /\ candidates' \subseteq IntakeProjects /\ head' \in Nat /\ lastSeen' \in Nat
      /\ lastSeen <= lastSeen' /\ lastSeen' <= head'
  BY <1>1 DEF IntakeTypes
<1>9. {r} \in SUBSET Requests /\ \A o \in {r} : RequestOK(o, step[o], request[o])'
  BY <1>6
<1> QED BY <1>2, <1>3, <1>4, <1>7, <1>8, <1>9, StepKeeps

\* A step of the rest of the system, which moves no request.
LEMMA SystemMoves ==
  ASSUME IntakeInv, RowsCarried, OnlyAdded, StartupIsHeld', step' = step, request' = request,
         candidates' = candidates, lastSeen' = lastSeen, head' \in Nat, head <= head',
         \A b \in DOMAIN rows' : b \in DOMAIN rows \/ rows'[b].trigger # "vcs",
         \A b \in DOMAIN rows : rows'[b].gated = rows[b].gated
  PROVE  IntakeInv'
<1>1. IntakeTypes /\ RequestsOK
  BY DEF IntakeInv
<1>2. ASSUME NEW r \in Requests PROVE Stays(r)
  <2>1. step[r] = "record" => request[r].row \in DOMAIN rows
    BY <1>1 DEF RequestsOK, RequestOK
  <2> QED BY <2>1 DEF Stays
<1>3. step' \in [Requests -> IntakeSteps] /\ request' \in [Requests -> IntakeRequest] /\ candidates' \subseteq IntakeProjects
  BY <1>1 DEF IntakeTypes
<1>4. lastSeen' \in Nat /\ lastSeen <= lastSeen' /\ lastSeen' <= head'
  BY <1>1 DEF IntakeTypes
<1>5. {} \in SUBSET Requests /\ \A r \in {} : RequestOK(r, step[r], request[r])'
  OBVIOUS
<1>6. \A r \in Requests \ {} : Stays(r)
  BY <1>2
<1> QED BY <1>3, <1>4, <1>5, <1>6, StepKeeps

-----------------------------------------------------------------------------
LEMMA RequestTypes ==
  ASSUME IntakeTypes, NEW r \in Requests
  PROVE  /\ request[r] \in IntakeRequest /\ step[r] \in IntakeSteps
         /\ request[r].project \in AnyProject /\ request[r].number \in Nat /\ request[r].commit \in Nat
         /\ request[r].release \in BOOLEAN /\ request[r].confirmed \in BOOLEAN /\ request[r].parent \in Nat
         /\ Source[r] \in Sources /\ head \in Nat /\ lastSeen \in Nat /\ Len(rows) \in Nat
<1>1. request[r] \in IntakeRequest /\ step[r] \in IntakeSteps /\ head \in Nat /\ lastSeen \in Nat /\ Len(rows) \in Nat
  BY DEF IntakeTypes
<1>2. Source[r] \in Sources
  BY IntakeAssumption
<1> QED BY <1>1, <1>2 DEF IntakeRequest

LEMMA IdleIsARequest == Idle \in IntakeRequest /\ ~Idle.release /\ Idle.parent = 0
BY DEF Idle, IntakeRequest, AnyProject

\* A goroutine that leaves knows nothing.
LEMMA LeavingKeeps ==
  ASSUME IntakeInv, NEW r \in Requests, Leave(r), rows' = rows, lastSeen' = lastSeen, head' = head,
         candidates' \subseteq candidates
  PROVE  IntakeInv'
<1>1. Moves(r, "idle", Idle) /\ "idle" \in IntakeSteps /\ RequestOK(r, "idle", Idle)
  BY DEF Leave, Goto, Moves, IntakeSteps, RequestOK
<1> QED BY <1>1, IdleIsARequest, RequestMoves

LEMMA Beginnings ==
  ASSUME IntakeInv, NEW r \in Requests,
         \/ TriggerBuild(r) \/ ProjectHTTPTriggerBuild(r) \/ HTTPTriggerBuild(r)
         \/ RetryBuild(r) \/ PushReceived(r) \/ CheckCronTriggers(r) \/ HandleBuildFinish(r)
  PROVE  IntakeInv'
<1>1. IntakeTypes
  BY DEF IntakeInv
<1>2. \A p \in AnyProject, c \in Nat, release \in BOOLEAN, b \in Nat :
        \A q : q = [project |-> p, number |-> 0, row |-> 0, commit |-> c, release |-> release,
                   confirmed |-> release, parent |-> b]
              => q \in IntakeRequest /\ q.release = release /\ q.confirmed = release /\ q.parent = b
  BY DEF IntakeRequest
<1>3. ASSUME NEW q \in IntakeRequest, Moves(r, "number", q),
             Source[r] \notin {"startup", "vcs"},
             q.release => q.confirmed /\ q.parent = 0 /\ Source[r] # "retry", q.parent <= Len(rows),
             UNCHANGED <<Database, head, candidates, edits, restarts>>
      PROVE  IntakeInv'
  <2>1. RequestOK(r, "number", q) /\ "number" \in IntakeSteps
    BY <1>3 DEF RequestOK, IntakeSteps
  <2>2. rows' = rows /\ lastSeen' = lastSeen /\ head' = head /\ candidates' \subseteq candidates
    BY <1>3 DEF Database
  <2> QED BY <1>3, <2>1, <2>2, RequestMoves
<1>4. ASSUME NEW p \in AnyProject, NEW c \in Nat, NEW release \in BOOLEAN, NEW b \in Nat, b <= Len(rows),
             Source[r] \notin {"startup", "vcs"}, release => b = 0 /\ Source[r] # "retry",
             step' = [step EXCEPT ![r] = "number"],
             NEW q, request' = [request EXCEPT ![r] = q],
             q = [project |-> p, number |-> 0, row |-> 0, commit |-> c, release |-> release,
                  confirmed |-> release, parent |-> b],
             UNCHANGED <<Database, head, candidates, edits, restarts>>
      PROVE  IntakeInv'
  <2>2. q \in IntakeRequest /\ q.release = release /\ q.confirmed = release /\ q.parent = b
    BY <1>2, <1>4
  <2>3. Moves(r, "number", q)
    BY <1>4 DEF Moves
  <2>4. (q.release => q.confirmed /\ q.parent = 0 /\ Source[r] # "retry") /\ q.parent <= Len(rows)
    BY <1>4, <2>2
  <2> QED BY <1>3, <1>4, <2>2, <2>3, <2>4
<1>5. 0 \in Nat /\ 0 <= Len(rows) /\ head \in Nat /\ FALSE \in BOOLEAN /\ FirstProject \in AnyProject
      /\ IntakeProjects \subseteq AnyProject
  BY <1>1 DEF IntakeTypes, AnyProject
<1>6. CASE TriggerBuild(r) \/ ProjectHTTPTriggerBuild(r) \/ HTTPTriggerBuild(r)
  <2>1. ResolveParameters(r) /\ Source[r] \in {"manual", "http", "api"}
    BY <1>6 DEF TriggerBuild, ProjectHTTPTriggerBuild, HTTPTriggerBuild
  <2>2. PICK p \in IntakeProjects, release \in BOOLEAN :
          request' = [request EXCEPT ![r] = [Idle EXCEPT !.project = p, !.release = release, !.confirmed = release]]
    BY <2>1 DEF ResolveParameters
  <2>3. PICK q : q = [Idle EXCEPT !.project = p, !.release = release, !.confirmed = release]
    OBVIOUS
  <2>r. q = [project |-> p, number |-> 0, row |-> 0, commit |-> 0, release |-> release,
             confirmed |-> release, parent |-> 0]
    BY <2>3 DEF Idle
  <2>4. /\ step' = [step EXCEPT ![r] = "number"]
        /\ UNCHANGED <<Database, head, candidates, edits, restarts>>
    BY <2>1 DEF ResolveParameters, Goto
  <2>5. Source[r] \notin {"startup", "vcs"} /\ Source[r] # "retry"
    BY <2>1
  <2>6. p \in AnyProject /\ request' = [request EXCEPT ![r] = q] /\ release \in BOOLEAN
    BY <1>5, <2>2, <2>3
  <2> QED BY <1>4, <1>5, <2>4, <2>5, <2>6, <2>r
<1>7. CASE RetryBuild(r)
  <2>1. PICK b \in DOMAIN rows :
          /\ RetriesBuild(b)
          /\ request' = [request EXCEPT ![r] =
                 [Idle EXCEPT !.project = rows[b].project, !.release = rows[b].release, !.parent = b]]
    BY <1>7 DEF RetryBuild
  <2>2. rows[b].project \in AnyProject /\ rows[b].release = FALSE /\ b \in Nat /\ b <= Len(rows)
    <3>1. rows[b] \in IntakeRow
      BY <1>1, RowTypes
    <3>2. rows[b].release \in BOOLEAN
      BY <3>1 DEF IntakeRow
    <3> QED BY <1>1, <2>1, <3>2, RowTypes DEF RetriesBuild
  <2>3. PICK q : q = [Idle EXCEPT !.project = rows[b].project, !.release = rows[b].release, !.parent = b]
    OBVIOUS
  <2>r. q = [project |-> rows[b].project, number |-> 0, row |-> 0, commit |-> 0, release |-> FALSE,
             confirmed |-> FALSE, parent |-> b]
    BY <2>2, <2>3 DEF Idle
  <2>4. /\ step' = [step EXCEPT ![r] = "number"] /\ Source[r] \notin {"startup", "vcs"}
        /\ UNCHANGED <<Database, head, candidates, edits, restarts>>
    BY <1>7 DEF RetryBuild, Goto
  <2>5. request' = [request EXCEPT ![r] = q]
    BY <2>1, <2>3
  <2> QED BY <1>4, <1>5, <2>2, <2>4, <2>5, <2>r
<1>8. CASE PushReceived(r)
  <2>1. /\ step' = [step EXCEPT ![r] = "number"] /\ Source[r] \notin {"startup", "vcs"}
        /\ request' = [request EXCEPT ![r] = [Idle EXCEPT !.project = FirstProject, !.commit = head]]
        /\ UNCHANGED <<Database, head, candidates, edits, restarts>>
    BY <1>8 DEF PushReceived, Goto
  <2>2. PICK q : q = [Idle EXCEPT !.project = FirstProject, !.commit = head]
    OBVIOUS
  <2>r. q = [project |-> FirstProject, number |-> 0, row |-> 0, commit |-> head, release |-> FALSE,
             confirmed |-> FALSE, parent |-> 0]
    BY <2>2 DEF Idle
  <2> QED BY <1>4, <1>5, <2>1, <2>2, <2>r
<1>9. CASE CheckCronTriggers(r)
  <2>1. PICK p \in IntakeProjects : request' = [request EXCEPT ![r] = [Idle EXCEPT !.project = p]]
    BY <1>9 DEF CheckCronTriggers
  <2>2. PICK q : q = [Idle EXCEPT !.project = p]
    OBVIOUS
  <2>r. q = [project |-> p, number |-> 0, row |-> 0, commit |-> 0, release |-> FALSE,
             confirmed |-> FALSE, parent |-> 0]
    BY <2>2 DEF Idle
  <2>3. /\ step' = [step EXCEPT ![r] = "number"] /\ Source[r] \notin {"startup", "vcs"}
        /\ UNCHANGED <<Database, head, candidates, edits, restarts>>
    BY <1>9 DEF CheckCronTriggers, Goto
  <2> QED BY <1>4, <1>5, <2>1, <2>2, <2>3, <2>r
<1>10. CASE HandleBuildFinish(r)
  <2>1. PICK b \in DOMAIN rows, p \in IntakeProjects :
          request' = [request EXCEPT ![r] = [Idle EXCEPT !.project = p, !.parent = b]]
    BY <1>10 DEF HandleBuildFinish
  <2>2. PICK q : q = [Idle EXCEPT !.project = p, !.parent = b]
    OBVIOUS
  <2>r. q = [project |-> p, number |-> 0, row |-> 0, commit |-> 0, release |-> FALSE,
             confirmed |-> FALSE, parent |-> b]
    BY <2>2 DEF Idle
  <2>3. /\ step' = [step EXCEPT ![r] = "number"] /\ Source[r] \notin {"startup", "vcs"}
        /\ UNCHANGED <<Database, head, candidates, edits, restarts>>
    BY <1>10 DEF HandleBuildFinish, Goto
  <2>4. b \in Nat /\ b <= Len(rows)
    BY <1>1, RowTypes
  <2> QED BY <1>4, <1>5, <2>1, <2>2, <2>3, <2>4, <2>r
<1> QED BY <1>6, <1>7, <1>8, <1>9, <1>10

\* The poller.
LEMMA PollingKeeps ==
  ASSUME IntakeInv, NEW r \in Requests, ListVCSRoots(r) \/ ListRemote(r)
  PROVE  IntakeInv'
<1>1. IntakeTypes /\ RequestsOK /\ Polled
  BY DEF IntakeInv
<1>2. head \in Nat /\ lastSeen \in Nat /\ lastSeen <= head /\ Len(rows) \in Nat
  BY <1>1 DEF IntakeTypes
<1>3. CASE ListVCSRoots(r)
  <2>1. PICK q : q = [Idle EXCEPT !.number = lastSeen]
    OBVIOUS
  <2>2. q = [project |-> 0, number |-> lastSeen, row |-> 0, commit |-> 0, release |-> FALSE,
             confirmed |-> FALSE, parent |-> 0]
    BY <2>1 DEF Idle
  <2>3. q \in IntakeRequest /\ q.number = lastSeen
    BY <1>2, <2>2 DEF IntakeRequest, AnyProject
  <2>4. Moves(r, "remote", q) /\ "remote" \in IntakeSteps /\ RequestOK(r, "remote", q)
    BY <1>3, <2>1, <2>3 DEF ListVCSRoots, Goto, Moves, IntakeSteps, RequestOK
  <2>5. rows' = rows /\ lastSeen' = lastSeen /\ head' = head /\ candidates' \subseteq candidates
    BY <1>3 DEF ListVCSRoots, Database
  <2> QED BY <2>3, <2>4, <2>5, RequestMoves
<1>4. CASE ListRemote(r) /\ head = request[r].number
  <2>1. Leave(r) /\ rows' = rows /\ lastSeen' = lastSeen /\ head' = head /\ candidates' \subseteq candidates
    BY <1>4 DEF ListRemote
  <2> QED BY <2>1, LeavingKeeps
<1>5. CASE ListRemote(r) /\ head # request[r].number
  <2>1. Source[r] = "vcs" /\ request[r].number = lastSeen
    BY <1>1, <1>5 DEF RequestsOK, RequestOK, ListRemote
  <2>2. lastSeen < head
    BY <1>2, <1>5, <2>1
  <2>3. rows' = rows /\ lastSeen' = head /\ head' = head /\ candidates' = candidates
    BY <1>5 DEF ListRemote, Recorded
  <2>4. RowsCarried /\ OnlyAdded
    BY <1>1, <2>3, SameRows
  <2>5. StartupIsHeld'
    BY <2>3 DEF IntakeInv, StartupIsHeld
  <2>6. PICK q : q = [Idle EXCEPT !.project = FirstProject, !.commit = head]
    OBVIOUS
  <2>7. q = [project |-> FirstProject, number |-> 0, row |-> 0, commit |-> head, release |-> FALSE,
             confirmed |-> FALSE, parent |-> 0]
    BY <2>6 DEF Idle
  <2>8. q \in IntakeRequest /\ q.commit = head /\ q.parent = 0 /\ q.release = FALSE
    BY <1>2, <2>7 DEF IntakeRequest, AnyProject
  <2>9. \A b \in DOMAIN rows : rows[b].trigger = "vcs" => rows[b].commit # head
    <3> TAKE b \in DOMAIN rows
    <3> HAVE rows[b].trigger = "vcs"
    <3>1. rows[b].commit <= lastSeen /\ rows[b].commit \in Nat
      BY <1>1, RowTypes DEF Polled
    <3> QED BY <1>2, <2>2, <3>1
  <2>10. RequestOK(r, "number", q)'
    BY <1>2, <2>1, <2>3, <2>8, <2>9 DEF RequestOK
  <2>11. RequestOK(r, "idle", Idle)'
    BY DEF RequestOK
  <2>12. Moves(r, "idle", Idle) \/ Moves(r, "number", q)
    BY <1>5, <2>6 DEF ListRemote, Leave, Goto, Moves
  <2>13. PICK s, a : /\ s \in IntakeSteps /\ a \in IntakeRequest /\ Moves(r, s, a)
                     /\ RequestOK(r, s, a)'
    <3>1. "idle" \in IntakeSteps /\ "number" \in IntakeSteps
      BY DEF IntakeSteps
    <3> QED BY <2>8, <2>10, <2>11, <2>12, <3>1, IdleIsARequest
  <2>14. /\ step' \in [Requests -> IntakeSteps] /\ request' \in [Requests -> IntakeRequest]
         /\ step'[r] = s /\ request'[r] = a
         /\ \A o \in Requests \ {r} : step'[o] = step[o] /\ request'[o] = request[o]
    BY <1>1, <2>13, MovesOne
  <2>15. RequestOK(r, step[r], request[r])'
    BY <2>13, <2>14
  <2>16. \A o \in Requests \ {r} : Stays(o)
    <3> TAKE o \in Requests \ {r}
    <3>1. Source[o] # "vcs"
      BY <2>1, IntakeAssumption
    <3> QED BY <2>3, <2>14, <3>1 DEF Stays
  <2>17. /\ candidates' \subseteq IntakeProjects /\ head' \in Nat /\ lastSeen' \in Nat
         /\ lastSeen <= lastSeen' /\ lastSeen' <= head'
    BY <1>1, <1>2, <2>3 DEF IntakeTypes
  <2>18. {r} \in SUBSET Requests /\ \A o \in {r} : RequestOK(o, step[o], request[o])'
    BY <2>15
  <2> QED BY <2>4, <2>5, <2>14, <2>16, <2>17, <2>18, StepKeeps
<1> QED BY <1>3, <1>4, <1>5

\* The number that is read: all before it were given.
LEMMA NumberingKeeps ==
  ASSUME IntakeInv, NEW r \in Requests, ReadNumber(r)
  PROVE  IntakeInv'
<1>1. IntakeTypes /\ RequestsOK /\ Numbered
  BY DEF IntakeInv
<1>2. PICK p : p = request[r].project
  OBVIOUS
<1>3. PICK n : n = NextBuildNumber(p)
  OBVIOUS
<1>4. n \in Nat /\ n # 0 /\ GivenUpTo(p, n - 1)
  BY <1>1, <1>3, NextIsFree
<1>5. PICK q : q = [request[r] EXCEPT !.number = n]
  OBVIOUS
<1>6. q \in IntakeRequest /\ q.number = n
  <2>1. request[r] \in IntakeRequest
    BY <1>1, RequestTypes
  <2> QED BY <1>4, <1>5, <2>1 DEF IntakeRequest
<1>7. /\ q.project = p /\ q.commit = request[r].commit /\ q.parent = request[r].parent
      /\ q.release = request[r].release /\ q.confirmed = request[r].confirmed
  <2>1. request[r] \in IntakeRequest
    BY <1>1, RequestTypes
  <2> QED BY <1>2, <1>5, <2>1 DEF IntakeRequest
<1>8. RequestOK(r, "number", request[r])
  BY <1>1 DEF ReadNumber, RequestsOK
<1>9. RequestOK(r, "insert", q)
  <2> HIDE DEF GivenUpTo
  <2> QED BY <1>4, <1>6, <1>7, <1>8 DEF RequestOK
<1>10. Moves(r, "insert", q) /\ "insert" \in IntakeSteps
  BY <1>2, <1>3, <1>5 DEF ReadNumber, Goto, Moves, IntakeSteps
<1>11. rows' = rows /\ lastSeen' = lastSeen /\ head' = head /\ candidates' \subseteq candidates
  BY DEF ReadNumber, Database
<1> QED BY <1>6, <1>9, <1>10, <1>11, RequestMoves

\* A row that is appended, and nothing else about the rows.
LEMMA Appending ==
  ASSUME IntakeTypes, NEW x \in IntakeRow, rows' = Append(rows, x)
  PROVE  /\ RowsCarried /\ Len(rows') = Len(rows) + 1 /\ Added = x /\ Len(rows) \in Nat
         /\ Len(rows) + 1 \in DOMAIN rows' /\ rows'[Len(rows) + 1] = x
         /\ \A b \in DOMAIN rows : rows'[b] = rows[b]
<1>1. rows \in Seq(IntakeRow) /\ Len(rows) \in Nat
  BY DEF IntakeTypes
<1>2. rows' \in Seq(IntakeRow) /\ Len(rows') = Len(rows) + 1 /\ rows'[Len(rows) + 1] = x
  BY <1>1
<1>3. \A b \in DOMAIN rows : rows'[b] = rows[b]
  BY <1>1
<1>4. Len(rows) + 1 \in DOMAIN rows'
  BY <1>1, <1>2
<1> QED BY <1>1, <1>2, <1>3, <1>4 DEF RowsCarried, Carried, Added

LEMMA AppendMoves ==
  ASSUME IntakeInv, NEW r \in Requests, NEW s \in IntakeSteps, NEW q \in IntakeRequest, NEW x \in IntakeRow,
         Moves(r, s, q), RequestOK(r, s, q)',
         rows' = Append(rows, x), AddedOK, x.trigger = Source[r],
         x.trigger = "startup" /\ x.gated /\ ~x.record => x.status = "pending_approval",
         lastSeen' = lastSeen, head' = head, candidates' = candidates
  PROVE  IntakeInv'
<1>1. IntakeTypes /\ RequestsOK
  BY DEF IntakeInv
<1>2. /\ RowsCarried /\ Len(rows') = Len(rows) + 1 /\ Added = x /\ Len(rows) \in Nat
      /\ rows'[Len(rows) + 1] = x /\ \A b \in DOMAIN rows : rows'[b] = rows[b]
  BY <1>1, Appending
<1>3. \A b \in DOMAIN rows' : b \in DOMAIN rows \/ b = Len(rows) + 1
  BY <1>1, <1>2, Domains
<1>4. OnlyAdded
  BY DEF OnlyAdded
<1>5. StartupIsHeld'
  BY <1>2, <1>3 DEF IntakeInv, StartupIsHeld
<1>6. /\ step' \in [Requests -> IntakeSteps] /\ request' \in [Requests -> IntakeRequest]
      /\ step'[r] = s /\ request'[r] = q
      /\ \A o \in Requests \ {r} : step'[o] = step[o] /\ request'[o] = request[o]
  BY <1>1, MovesOne
<1>7. RequestOK(r, step[r], request[r])'
  BY <1>6
<1>8. ASSUME NEW o \in Requests \ {r} PROVE Stays(o)
  <2>1. Source[o] = "vcs" => Source[r] # "vcs"
    BY IntakeAssumption
  <2>2. step[o] = "record" => request[o].row \in DOMAIN rows
    BY <1>1 DEF RequestsOK, RequestOK
  <2> QED BY <1>2, <1>3, <1>6, <2>1, <2>2 DEF Stays
<1>9. /\ candidates' \subseteq IntakeProjects /\ head' \in Nat /\ lastSeen' \in Nat
      /\ lastSeen <= lastSeen' /\ lastSeen' <= head'
  BY <1>1 DEF IntakeTypes
<1>10. {r} \in SUBSET Requests /\ \A o \in {r} : RequestOK(o, step[o], request[o])'
  BY <1>7
<1> QED BY <1>2, <1>4, <1>5, <1>6, <1>8, <1>9, <1>10, StepKeeps

\* A row that is rewritten and keeps what rows keep.
LEMMA Rewriting ==
  ASSUME IntakeTypes, NEW b \in DOMAIN rows, NEW x \in IntakeRow, rows' = [rows EXCEPT ![b] = x],
         x.project = rows[b].project, x.number = rows[b].number, x.trigger = rows[b].trigger,
         x.commit = rows[b].commit, x.release = rows[b].release, x.confirmed = rows[b].confirmed,
         x.parent = rows[b].parent, rows[b].status = "failed" => x.status = "failed"
  PROVE  /\ RowsCarried /\ OnlyAdded /\ rows'[b] = x
         /\ \A a \in DOMAIN rows : a # b => rows'[a] = rows[a]
         /\ \A a \in DOMAIN rows' : a \in DOMAIN rows
<1>1. rows \in Seq(IntakeRow) /\ Len(rows) \in Nat
  BY DEF IntakeTypes
<1>2. rows' \in Seq(IntakeRow) /\ Len(rows') = Len(rows)
  BY <1>1
<1>3. rows'[b] = x /\ \A a \in DOMAIN rows : a # b => rows'[a] = rows[a]
  BY <1>1
<1>4. \A a \in DOMAIN rows' : a \in DOMAIN rows
  BY <1>1
<1>5. Len(rows') # Len(rows) + 1
  <2>1. \A n \in Nat : n # n + 1
    OBVIOUS
  <2> QED BY <1>1, <1>2, <2>1, Zenon
<1> QED BY <1>2, <1>3, <1>4, <1>5 DEF RowsCarried, Carried, OnlyAdded

\* A new status, gate and record of row b.
Reviewed(b, status, gated, record) ==
    [project |-> rows[b].project, number |-> rows[b].number, trigger |-> rows[b].trigger,
     status |-> status, gated |-> gated, record |-> record, commit |-> rows[b].commit,
     release |-> rows[b].release, confirmed |-> rows[b].confirmed, parent |-> rows[b].parent]

LEMMA Reviewing ==
  ASSUME IntakeTypes, NEW b \in DOMAIN rows, NEW status \in Statuses, NEW gated \in BOOLEAN,
         NEW record \in BOOLEAN, rows' = [rows EXCEPT ![b] = Reviewed(b, status, gated, record)],
         rows[b].status = "failed" => status = "failed"
  PROVE  /\ RowsCarried /\ OnlyAdded
         /\ rows'[b].status = status /\ rows'[b].gated = gated /\ rows'[b].record = record
         /\ rows'[b].trigger = rows[b].trigger
         /\ \A a \in DOMAIN rows : a # b => rows'[a] = rows[a]
         /\ \A a \in DOMAIN rows' : a \in DOMAIN rows
<1>1. PICK x : x = Reviewed(b, status, gated, record)
  OBVIOUS
<1>2. rows[b] \in IntakeRow
  BY RowTypes
<1>3. x \in IntakeRow
  BY <1>1, <1>2 DEF Reviewed, IntakeRow
<1>4. /\ x.project = rows[b].project /\ x.number = rows[b].number /\ x.trigger = rows[b].trigger
      /\ x.commit = rows[b].commit /\ x.release = rows[b].release /\ x.confirmed = rows[b].confirmed
      /\ x.parent = rows[b].parent /\ x.status = status /\ x.gated = gated /\ x.record = record
  BY <1>1 DEF Reviewed
<1>5. /\ RowsCarried /\ OnlyAdded /\ rows'[b] = x
      /\ \A a \in DOMAIN rows : a # b => rows'[a] = rows[a]
      /\ \A a \in DOMAIN rows' : a \in DOMAIN rows
  BY <1>1, <1>3, <1>4, Rewriting
<1> QED BY <1>4, <1>5

-----------------------------------------------------------------------------
LEMMA CreatingKeeps ==
  ASSUME IntakeInv, NEW r \in Requests, CreateBuild(r)
  PROVE  IntakeInv'
<1>1. IntakeTypes /\ RequestsOK /\ Numbered
  BY DEF IntakeInv
<1>2. CASE ~NumberIsFree(request[r].project, request[r].number)
  <2>1. Leave(r) /\ rows' = rows /\ lastSeen' = lastSeen /\ head' = head /\ candidates' \subseteq candidates
    BY <1>2 DEF CreateBuild
  <2> QED BY <2>1, LeavingKeeps
<1>3. CASE NumberIsFree(request[r].project, request[r].number)
  <2>1. PICK p, n : p = request[r].project /\ n = request[r].number
    OBVIOUS
  <2>2. RequestOK(r, "insert", request[r])
    BY <1>1 DEF CreateBuild, RequestsOK
  <2>3. /\ request[r] \in IntakeRequest /\ p \in AnyProject /\ n \in Nat /\ Source[r] \in Sources /\ Len(rows) \in Nat
    BY <1>1, <2>1, RequestTypes
  <2>4. PICK x : x = Row(r, n, "pending", FALSE)
    OBVIOUS
  <2>5. x \in IntakeRow
    BY <2>1, <2>3, <2>4 DEF Row, IntakeRow, IntakeRequest, Statuses
  <2>6. /\ x.project = p /\ x.number = n /\ x.trigger = Source[r] /\ x.commit = request[r].commit
        /\ x.release = request[r].release /\ x.confirmed = request[r].confirmed
        /\ x.parent = request[r].parent
    BY <2>1, <2>4 DEF Row
  <2>7. rows' = Append(rows, x)
    BY <1>3, <2>1, <2>4 DEF CreateBuild
  <2>8. /\ Added = x /\ rows'[Len(rows) + 1] = x /\ Len(rows) + 1 \in DOMAIN rows'
    BY <1>1, <2>5, <2>7, Appending
  <2>9. n # 0 /\ GivenUpTo(p, n - 1)
    BY <2>1, <2>2 DEF RequestOK
  <2>10. \A b \in RowsOf(p) : rows[b].number < n
    BY <1>1, <1>3, <2>1, <2>3, <2>9, FreeIsNext
  <2>11. /\ request[r].release => request[r].confirmed /\ request[r].parent = 0 /\ Source[r] # "retry"
         /\ request[r].parent <= Len(rows) /\ Source[r] # "startup"
         /\ Source[r] = "vcs" =>
                /\ request[r].commit = lastSeen
                /\ \A b \in DOMAIN rows : rows[b].trigger = "vcs" => rows[b].commit # lastSeen
    BY <2>2 DEF RequestOK
  <2>12. AddedOK
    <3> HIDE DEF GivenUpTo
    <3> QED BY <2>6, <2>8, <2>9, <2>10, <2>11 DEF AddedOK
  <2>13. PICK q : q = [Idle EXCEPT !.project = p, !.row = Len(rows) + 1]
    OBVIOUS
  <2>14. q = [project |-> p, number |-> 0, row |-> Len(rows) + 1, commit |-> 0, release |-> FALSE,
              confirmed |-> FALSE, parent |-> 0]
    BY <2>13 DEF Idle
  <2>15. q \in IntakeRequest /\ q.row = Len(rows) + 1
    BY <2>3, <2>14 DEF IntakeRequest
  <2>16. Moves(r, "approval", q) /\ "approval" \in IntakeSteps
    BY <1>3, <2>1, <2>13 DEF CreateBuild, Goto, Moves, IntakeSteps
  <2>17. RequestOK(r, "approval", q)'
    BY <2>6, <2>8, <2>11, <2>15 DEF RequestOK
  <2>18. lastSeen' = lastSeen /\ head' = head /\ candidates' = candidates
    BY DEF CreateBuild
  <2>19. x.trigger = "startup" /\ x.gated /\ ~x.record => x.status = "pending_approval"
    BY <2>6, <2>11
  <2> QED BY <2>5, <2>6, <2>7, <2>12, <2>15, <2>16, <2>17, <2>18, <2>19, AppendMoves
<1> QED BY <1>2, <1>3

LEMMA StartupCreationKeeps ==
  ASSUME IntakeInv, NEW r \in Requests, CreateStartupBuild(r)
  PROVE  IntakeInv'
<1>1. IntakeTypes /\ RequestsOK /\ Numbered
  BY DEF IntakeInv
<1>2. CASE ~StartupStillEligible(request[r].project)
  <2>1. Leave(r) /\ rows' = rows /\ lastSeen' = lastSeen /\ head' = head /\ candidates' \subseteq candidates
    BY <1>2 DEF CreateStartupBuild
  <2> QED BY <2>1, LeavingKeeps
<1>3. CASE StartupStillEligible(request[r].project)
  <2>1. PICK p, gated : p = request[r].project /\ gated = request[r].confirmed
    OBVIOUS
  <2>2. RequestOK(r, "create", request[r])
    BY <1>1 DEF CreateStartupBuild, RequestsOK
  <2>3. /\ request[r] \in IntakeRequest /\ p \in AnyProject /\ gated \in BOOLEAN /\ Len(rows) \in Nat
        /\ request[r].commit \in Nat
    BY <1>1, <2>1, RequestTypes
  <2>4. Source[r] = "startup" /\ request[r].release = FALSE /\ request[r].parent = 0
    BY <1>1, <2>2, RequestTypes DEF RequestOK
  <2>5. PICK n : n = NextBuildNumber(p)
    OBVIOUS
  <2>6. n \in Nat /\ n # 0 /\ GivenUpTo(p, n - 1) /\ \A b \in RowsOf(p) : rows[b].number < n
    BY <1>1, <2>5, NextIsFree
  <2>7. PICK x : x = [Row(r, n, StartupStatus(gated), gated) EXCEPT !.confirmed = FALSE]
    OBVIOUS
  <2>8. x = [project |-> p, number |-> n, trigger |-> "startup", status |-> StartupStatus(gated),
             gated |-> gated, record |-> FALSE, commit |-> request[r].commit, release |-> FALSE,
             confirmed |-> FALSE, parent |-> 0]
    BY <2>1, <2>4, <2>7 DEF Row
  <2>9. x \in IntakeRow
    <3>1. StartupStatus(gated) \in Statuses
      BY DEF StartupStatus, Statuses
    <3> QED BY <2>3, <2>6, <2>8, <3>1 DEF IntakeRow, Sources
  <2>10. /\ x.project = p /\ x.number = n /\ x.trigger = "startup" /\ x.release = FALSE /\ x.parent = 0
         /\ x.gated = gated /\ x.status = StartupStatus(gated)
    BY <2>8
  <2>11. rows' = Append(rows, x)
    BY <1>3, <2>1, <2>5, <2>7 DEF CreateStartupBuild
  <2>12. /\ Added = x /\ rows'[Len(rows) + 1] = x /\ Len(rows) + 1 \in DOMAIN rows'
    BY <1>1, <2>9, <2>11, Appending
  <2>13. AddedOK
    <3> HIDE DEF GivenUpTo
    <3>1. 0 <= Len(rows)
      BY <2>3
    <3> QED BY <2>6, <2>10, <2>12, <3>1 DEF AddedOK
  <2>14. PICK q : q = [request[r] EXCEPT !.row = Len(rows) + 1]
    OBVIOUS
  <2>15. /\ q \in IntakeRequest /\ q.row = Len(rows) + 1 /\ q.confirmed = gated /\ q.release = FALSE
         /\ q.parent = 0
    BY <2>1, <2>3, <2>4, <2>14 DEF IntakeRequest
  <2>16. Moves(r, "record", q) /\ "record" \in IntakeSteps
    BY <1>3, <2>1, <2>14 DEF CreateStartupBuild, Goto, Moves, IntakeSteps
  <2>17. RequestOK(r, "record", q)'
    BY <2>4, <2>10, <2>12, <2>15 DEF RequestOK
  <2>18. lastSeen' = lastSeen /\ head' = head /\ candidates' = candidates
    BY DEF CreateStartupBuild
  <2>19. x.trigger = "startup" /\ x.gated /\ ~x.record => x.status = "pending_approval"
    BY <2>10 DEF StartupStatus
  <2>20. x.trigger = Source[r]
    BY <2>4, <2>10
  <2> QED BY <2>9, <2>11, <2>13, <2>15, <2>16, <2>17, <2>18, <2>19, <2>20, AppendMoves
<1> QED BY <1>2, <1>3

\* A request that writes to its row and moves on.
LEMMA ReviewMoves ==
  ASSUME IntakeInv, NEW r \in Requests, NEW s \in IntakeSteps, NEW q \in IntakeRequest,
         Moves(r, s, q), RequestOK(r, s, q)', NEW b \in DOMAIN rows,
         NEW status \in Statuses, NEW gated \in BOOLEAN, NEW record \in BOOLEAN,
         rows' = [rows EXCEPT ![b] = Reviewed(b, status, gated, record)],
         rows[b].status = "failed" => status = "failed",
         gated = rows[b].gated \/ rows[b].trigger # "startup",
         rows[b].trigger = "startup" /\ gated /\ ~record => status = "pending_approval",
         lastSeen' = lastSeen, head' = head, candidates' = candidates
  PROVE  IntakeInv'
<1>1. IntakeTypes /\ RequestsOK
  BY DEF IntakeInv
<1>2. /\ RowsCarried /\ OnlyAdded
      /\ rows'[b].status = status /\ rows'[b].gated = gated /\ rows'[b].record = record
      /\ rows'[b].trigger = rows[b].trigger
      /\ \A a \in DOMAIN rows : a # b => rows'[a] = rows[a]
      /\ \A a \in DOMAIN rows' : a \in DOMAIN rows
  BY <1>1, Reviewing
<1>3. StartupIsHeld'
  BY <1>2 DEF IntakeInv, StartupIsHeld
<1>4. /\ step' \in [Requests -> IntakeSteps] /\ request' \in [Requests -> IntakeRequest]
      /\ step'[r] = s /\ request'[r] = q
      /\ \A o \in Requests \ {r} : step'[o] = step[o] /\ request'[o] = request[o]
  BY <1>1, MovesOne
<1>5. ASSUME NEW o \in Requests \ {r} PROVE Stays(o)
  <2>1. step[o] = "record" => request[o].row \in DOMAIN rows /\ rows[request[o].row].trigger = "startup"
    BY <1>1 DEF RequestsOK, RequestOK
  <2>2. step[o] = "record" => rows'[request[o].row].gated = rows[request[o].row].gated
    BY <1>2, <2>1
  <2> QED BY <1>2, <1>4, <2>2 DEF Stays
<1>6. /\ candidates' \subseteq IntakeProjects /\ head' \in Nat /\ lastSeen' \in Nat
      /\ lastSeen <= lastSeen' /\ lastSeen' <= head'
  BY <1>1 DEF IntakeTypes
<1>7. {r} \in SUBSET Requests /\ \A o \in {r} : RequestOK(o, step[o], request[o])'
  BY <1>4
<1> QED BY <1>2, <1>3, <1>4, <1>5, <1>6, <1>7, StepKeeps

LEMMA ReviewedRow ==
  ASSUME IntakeTypes, NEW b \in DOMAIN rows
  PROVE  /\ rows[b].status \in Statuses /\ rows[b].gated \in BOOLEAN /\ rows[b].record \in BOOLEAN
         /\ rows[b] = Reviewed(b, rows[b].status, rows[b].gated, rows[b].record)
<1>1. rows[b] \in IntakeRow
  BY RowTypes
<1> QED BY <1>1 DEF IntakeRow, Reviewed

LEMMA DecidingKeeps ==
  ASSUME IntakeInv, NEW r \in Requests, DecideApproval(r)
  PROVE  IntakeInv'
<1>1. IntakeTypes /\ RequestsOK
  BY DEF IntakeInv
<1>2. PICK b : b = request[r].row
  OBVIOUS
<1>3. b \in DOMAIN rows /\ rows[b].trigger # "startup"
  BY <1>1, <1>2 DEF DecideApproval, RequestsOK, RequestOK
<1>4. lastSeen' = lastSeen /\ head' = head /\ candidates' = candidates
  BY DEF DecideApproval
<1>5. PICK s, q : s \in IntakeSteps /\ q \in IntakeRequest /\ Moves(r, s, q) /\ s \in {"idle", "queue"}
  <2>1. CASE Leave(r)
    <3>1. Moves(r, "idle", Idle) /\ "idle" \in IntakeSteps
      BY <2>1 DEF Leave, Goto, Moves, IntakeSteps
    <3> QED BY <3>1, IdleIsARequest
  <2>2. CASE Goto(r, "queue") /\ UNCHANGED request
    <3>1. request \in [Requests -> IntakeRequest]
      BY <1>1 DEF IntakeTypes
    <3>2. Moves(r, "queue", request[r]) /\ "queue" \in IntakeSteps /\ request[r] \in IntakeRequest
      BY <2>2, <3>1 DEF Goto, Moves, IntakeSteps
    <3> QED BY <3>2
  <2> QED BY <2>1, <2>2 DEF DecideApproval
<1>6. RequestOK(r, s, q)'
  BY <1>5 DEF RequestOK
<1>7. PICK status, gated, record :
        /\ status \in Statuses /\ gated \in BOOLEAN /\ record \in BOOLEAN
        /\ rows' = [rows EXCEPT ![b] = Reviewed(b, status, gated, record)]
        /\ rows[b].status = "failed" => status = "failed"
  <2>0. rows[b] \in IntakeRow /\ rows \in Seq(IntakeRow)
    BY <1>1, <1>3, RowTypes DEF IntakeTypes
  <2>1. CASE rows' = rows
    <3>1. rows' = [rows EXCEPT ![b] = rows[b]]
      BY <2>0, <2>1
    <3> QED BY <1>1, <1>3, <3>1, ReviewedRow
  <2>2. CASE rows' = [rows EXCEPT ![b].gated = TRUE, ![b].record = TRUE,
                                  ![b].status = IF @ = "pending" THEN "pending_approval" ELSE @]
    <3>1. PICK status : status = IF rows[b].status = "pending" THEN "pending_approval" ELSE rows[b].status
      OBVIOUS
    <3>2. PICK x : x = [[[rows[b] EXCEPT !.gated = TRUE] EXCEPT !.record = TRUE] EXCEPT !.status = status]
      OBVIOUS
    <3>3. x = Reviewed(b, status, TRUE, TRUE)
      BY <2>0, <3>2 DEF Reviewed, IntakeRow
    <3>4. rows' = [rows EXCEPT ![b] = x]
      BY <1>3, <2>0, <2>2, <3>1, <3>2
    <3>5. status \in Statuses /\ (rows[b].status = "failed" => status = "failed")
      BY <1>1, <1>3, <3>1, RowTypes DEF Statuses
    <3> QED BY <3>3, <3>4, <3>5
  <2> QED BY <1>2, <2>1, <2>2 DEF DecideApproval
<1> QED BY <1>3, <1>4, <1>5, <1>6, <1>7, ReviewMoves

LEMMA RecordingKeeps ==
  ASSUME IntakeInv, NEW r \in Requests, RecordStartupApproval(r)
  PROVE  IntakeInv'
<1>1. IntakeTypes /\ RequestsOK /\ StartupIsHeld
  BY DEF IntakeInv
<1>2. PICK b, record : b = request[r].row /\ record = request[r].confirmed
  OBVIOUS
<1>3. b \in DOMAIN rows /\ rows[b].trigger = "startup" /\ rows[b].gated = record /\ Source[r] = "startup"
  BY <1>1, <1>2 DEF RecordStartupApproval, RequestsOK, RequestOK
<1>4. rows[b] \in IntakeRow /\ rows \in Seq(IntakeRow) /\ record \in BOOLEAN
  BY <1>1, <1>2, <1>3, RowTypes, RequestTypes DEF IntakeTypes
<1>5. rows[b].status \in Statuses /\ rows[b].gated \in BOOLEAN
  BY <1>4 DEF IntakeRow
<1>6. rows' = [rows EXCEPT ![b] = Reviewed(b, rows[b].status, rows[b].gated, record)]
  <2>1. PICK x : x = [rows[b] EXCEPT !.record = record]
    OBVIOUS
  <2>2. x = Reviewed(b, rows[b].status, rows[b].gated, record)
    BY <1>4, <2>1 DEF Reviewed, IntakeRow
  <2>3. rows' = [rows EXCEPT ![b] = x]
    BY <1>2, <1>3, <1>4, <2>1 DEF RecordStartupApproval
  <2> QED BY <2>2, <2>3
<1>7. rows[b].trigger = "startup" /\ rows[b].gated /\ ~record => rows[b].status = "pending_approval"
  BY <1>3
<1>8. request \in [Requests -> IntakeRequest]
  BY <1>1 DEF IntakeTypes
<1>9. Moves(r, "queue", request[r]) /\ "queue" \in IntakeSteps /\ request[r] \in IntakeRequest
  BY <1>8 DEF RecordStartupApproval, Goto, Moves, IntakeSteps
<1>11. PICK s, q : s = "queue" /\ q = request[r]
  OBVIOUS
<1>12. s \in IntakeSteps /\ q \in IntakeRequest /\ Moves(r, s, q)
  BY <1>9, <1>11
<1>13. RequestOK(r, s, q)'
  BY <1>11 DEF RequestOK
<1>14. lastSeen' = lastSeen /\ head' = head /\ candidates' = candidates
  BY DEF RecordStartupApproval
<1> QED BY <1>3, <1>4, <1>5, <1>6, <1>7, <1>12, <1>13, <1>14, ReviewMoves

LEMMA LoadingKeeps ==
  ASSUME IntakeInv, NEW r \in Requests, StartupLoad(r)
  PROVE  IntakeInv'
<1>1. IntakeTypes
  BY DEF IntakeInv
<1>2. PICK p \in candidates :
        /\ candidates' = candidates \ {p}
        /\ IF Loads("startup", p) = "error" THEN UNCHANGED <<step, request>>
           ELSE /\ Goto(r, "create")
                /\ request' = [request EXCEPT ![r] =
                       [Idle EXCEPT !.project = p, !.confirmed = (Loads("startup", p) = "gated")]]
  BY DEF StartupLoad
<1>3. rows' = rows /\ lastSeen' = lastSeen /\ head' = head /\ Source[r] = "startup" /\ candidates' \subseteq candidates
  BY <1>2 DEF StartupLoad, Database
<1>4. CASE UNCHANGED <<step, request>>
  <2>1. step \in [Requests -> IntakeSteps] /\ request \in [Requests -> IntakeRequest]
    BY <1>1 DEF IntakeTypes
  <2>2. Moves(r, step[r], request[r]) /\ step[r] \in IntakeSteps /\ request[r] \in IntakeRequest
    BY <1>4, <2>1 DEF Moves
  <2>3. RequestOK(r, step[r], request[r])
    BY DEF IntakeInv, RequestsOK
  <2> QED BY <1>3, <2>2, <2>3, RequestMoves
<1>5. CASE Goto(r, "create") /\ request' = [request EXCEPT ![r] =
             [Idle EXCEPT !.project = p, !.confirmed = (Loads("startup", p) = "gated")]]
  <2>1. PICK gated \in BOOLEAN : gated = (Loads("startup", p) = "gated")
    OBVIOUS
  <2>2. PICK q : q = [Idle EXCEPT !.project = p, !.confirmed = gated]
    OBVIOUS
  <2>3. q = [project |-> p, number |-> 0, row |-> 0, commit |-> 0, release |-> FALSE,
             confirmed |-> gated, parent |-> 0]
    BY <2>2 DEF Idle
  <2>4. q \in IntakeRequest /\ q.release = FALSE /\ q.parent = 0
    BY <1>1, <2>3 DEF IntakeTypes, IntakeRequest, AnyProject
  <2>5. Moves(r, "create", q) /\ "create" \in IntakeSteps /\ RequestOK(r, "create", q)
    BY <1>3, <1>5, <2>1, <2>2, <2>4 DEF Goto, Moves, IntakeSteps, RequestOK
  <2> QED BY <1>3, <2>4, <2>5, RequestMoves
<1> QED BY <1>2, <1>4, <1>5

LEMMA OnlyStatus ==
  ASSUME IntakeTypes, NEW b \in DOMAIN rows, NEW status
  PROVE  [rows EXCEPT ![b].status = status]
           = [rows EXCEPT ![b] = Reviewed(b, status, rows[b].gated, rows[b].record)]
<1>1. rows[b] \in IntakeRow /\ rows \in Seq(IntakeRow)
  BY RowTypes DEF IntakeTypes
<1>2. PICK x : x = [rows[b] EXCEPT !.status = status]
  OBVIOUS
<1>3. x = Reviewed(b, status, rows[b].gated, rows[b].record)
  BY <1>1, <1>2 DEF Reviewed, IntakeRow
<1>4. [rows EXCEPT ![b].status = status] = [rows EXCEPT ![b] = x]
  BY <1>1, <1>2
<1> QED BY <1>3, <1>4

LEMMA OneRow ==
  ASSUME IntakeTypes, NEW b \in DOMAIN rows, NEW y \in IntakeRow, NEW s, s = [rows EXCEPT ![b] = y]
  PROVE  /\ s \in Seq(IntakeRow) /\ Len(s) = Len(rows) /\ s[b] = y
         /\ \A a \in DOMAIN rows : a # b => s[a] = rows[a]
BY DEF IntakeTypes

\* The dispatcher, approvals and the ends of builds.
LEMMA SystemReview ==
  ASSUME IntakeInv, NEW b \in DOMAIN rows, NEW status \in Statuses,
         rows[b].status # "failed", rows[b].status = "pending_approval" => rows[b].record,
         NEW gated \in BOOLEAN, NEW record \in BOOLEAN, gated = rows[b].gated, record = rows[b].record,
         rows' = [rows EXCEPT ![b] = Reviewed(b, status, gated, record)],
         step' = step, request' = request, candidates' = candidates, lastSeen' = lastSeen, head' = head
  PROVE  IntakeInv'
<1>1. IntakeTypes /\ StartupIsHeld
  BY DEF IntakeInv
<1>r. rows[b].status = "failed" => status = "failed"
  OBVIOUS
<1>6. /\ RowsCarried /\ OnlyAdded
      /\ rows'[b].status = status /\ rows'[b].gated = gated /\ rows'[b].record = record
      /\ rows'[b].trigger = rows[b].trigger
      /\ \A a \in DOMAIN rows : a # b => rows'[a] = rows[a]
      /\ \A a \in DOMAIN rows' : a \in DOMAIN rows
  BY <1>1, <1>r, Reviewing
<1>7. StartupIsHeld'
  BY <1>1, <1>6 DEF StartupIsHeld
<1>8. \A a \in DOMAIN rows : rows'[a].gated = rows[a].gated
  BY <1>6
<1>9. head \in Nat /\ head' \in Nat /\ head <= head'
  BY <1>1 DEF IntakeTypes
<1> QED BY <1>6, <1>7, <1>8, <1>9, SystemMoves

\* The one automatic retry of a build that failed.
LEMMA RetryingKeeps ==
  ASSUME IntakeInv, NEW b \in DOMAIN rows, rows[b].status = "running", ~RetriedTimes(b, IntakeRetries),
         NEW failed, failed = [rows EXCEPT ![b].status = "failed"],
         rows' = Append(failed, [rows[b] EXCEPT
                     !.number = NextBuildNumber(rows[b].project), !.trigger = "retry",
                     !.status = "pending", !.gated = FALSE, !.record = FALSE,
                     !.confirmed = FALSE, !.parent = b]),
         step' = step, request' = request, candidates' = candidates, lastSeen' = lastSeen, head' = head
  PROVE  IntakeInv'
<1>1. IntakeTypes /\ StartupIsHeld /\ Numbered /\ Published
  BY DEF IntakeInv
<1>2. rows[b] \in IntakeRow /\ rows \in Seq(IntakeRow) /\ Len(rows) \in Nat /\ b \in Nat /\ b # 0 /\ b <= Len(rows)
  BY <1>1, RowTypes DEF IntakeTypes
<1>3. PICK p, n : p = rows[b].project /\ n = NextBuildNumber(p)
  OBVIOUS
<1>4. n \in Nat /\ n # 0 /\ GivenUpTo(p, n - 1) /\ \A a \in RowsOf(p) : rows[a].number < n
  BY <1>1, <1>3, NextIsFree
<1>5. PICK x : x = [rows[b] EXCEPT !.number = n, !.trigger = "retry", !.status = "pending", !.gated = FALSE,
                                   !.record = FALSE, !.confirmed = FALSE, !.parent = b]
  OBVIOUS
<1>6. x = [project |-> p, number |-> n, trigger |-> "retry", status |-> "pending", gated |-> FALSE,
           record |-> FALSE, commit |-> rows[b].commit, release |-> rows[b].release, confirmed |-> FALSE,
           parent |-> b]
  BY <1>2, <1>3, <1>5 DEF IntakeRow
<1>7. x \in IntakeRow
  BY <1>2, <1>3, <1>4, <1>6 DEF IntakeRow, Sources, Statuses
<1>8. x.project = p /\ x.number = n /\ x.trigger = "retry" /\ x.release = rows[b].release /\ x.parent = b
  BY <1>6
<1>r. PICK status, gated, record : status = "failed" /\ gated = rows[b].gated /\ record = rows[b].record
  OBVIOUS
<1>9. PICK y : y = Reviewed(b, status, gated, record)
  OBVIOUS
<1>10. y \in IntakeRow
  BY <1>2, <1>9, <1>r DEF Reviewed, IntakeRow, Statuses
<1>11. /\ y.project = rows[b].project /\ y.number = rows[b].number /\ y.trigger = rows[b].trigger
       /\ y.commit = rows[b].commit /\ y.release = rows[b].release /\ y.confirmed = rows[b].confirmed
       /\ y.parent = rows[b].parent /\ y.status = "failed" /\ y.gated = rows[b].gated /\ y.record = rows[b].record
  BY <1>9, <1>r DEF Reviewed
<1>12. failed = [rows EXCEPT ![b] = y]
  BY <1>1, <1>9, <1>r, OnlyStatus
<1>13. /\ failed \in Seq(IntakeRow) /\ Len(failed) = Len(rows) /\ failed[b] = y
       /\ \A a \in DOMAIN rows : a # b => failed[a] = rows[a]
  BY <1>1, <1>10, <1>12, OneRow, Zenon
<1>14. rows' = Append(failed, x)
  BY <1>3, <1>5
<1>15. /\ rows' \in Seq(IntakeRow) /\ Len(rows') = Len(rows) + 1 /\ rows'[Len(rows) + 1] = x
       /\ \A a \in 1..Len(rows) : rows'[a] = failed[a]
  <2>1. failed \in Seq(IntakeRow) /\ Len(failed) = Len(rows)
    BY <1>13
  <2>2. /\ Append(failed, x) \in Seq(IntakeRow) /\ Len(Append(failed, x)) = Len(failed) + 1
        /\ Append(failed, x)[Len(failed) + 1] = x /\ \A a \in 1..Len(failed) : Append(failed, x)[a] = failed[a]
    BY <1>7, <2>1
  <2> QED BY <1>14, <2>1, <2>2
<1>16. rows'[b] = y /\ \A a \in DOMAIN rows : a # b => rows'[a] = rows[a]
  BY <1>2, <1>13, <1>15
<1>17. RowsCarried
  BY <1>11, <1>15, <1>16 DEF RowsCarried, Carried
<1>18. Added = x
  BY <1>15 DEF Added
<1>19. x.release => /\ b \in Publications /\ rows'[b].status = "failed"
                    /\ \A c \in Publications : rows[c].parent # b
  <2>1. SUFFICES ASSUME x.release PROVE b \in Publications /\ \A c \in Publications : rows[c].parent # b
    BY <1>11, <1>16
  <2>2. b \in Publications
    BY <1>8, <2>1 DEF Publications
  <2>3. ASSUME NEW c \in Publications, rows[c].parent = b PROVE FALSE
    BY <1>1, <1>2, <2>3 DEF Published
  <2> QED BY <2>2, <2>3
<1>20. AddedOK
  <2> HIDE DEF GivenUpTo
  <2> QED BY <1>2, <1>4, <1>8, <1>18, <1>19 DEF AddedOK
<1>21. \A a \in DOMAIN rows' : a \in DOMAIN rows \/ rows'[a].trigger = "retry"
  BY <1>1, <1>8, <1>15, <1>17, Domains
<1>22. StartupIsHeld'
  <2>1. ASSUME NEW a \in DOMAIN rows', rows'[a].trigger = "startup", rows'[a].gated, ~rows'[a].record
        PROVE  rows'[a].status = "pending_approval"
    <3>1. a \in DOMAIN rows
      BY <1>21, <2>1
    <3>2. a # b
      BY <1>1, <1>11, <1>16, <2>1 DEF StartupIsHeld
    <3> QED BY <1>1, <1>16, <2>1, <3>1, <3>2 DEF StartupIsHeld
  <2> QED BY <2>1 DEF StartupIsHeld
<1>23. OnlyAdded
  BY <1>20 DEF OnlyAdded
<1>24. /\ \A a \in DOMAIN rows : rows'[a].gated = rows[a].gated
       /\ \A a \in DOMAIN rows' : a \in DOMAIN rows \/ rows'[a].trigger # "vcs"
  BY <1>11, <1>16, <1>21
<1>25. head \in Nat /\ head' \in Nat /\ head <= head'
  BY <1>1 DEF IntakeTypes
<1> QED BY <1>17, <1>22, <1>23, <1>24, <1>25, SystemMoves

LEMMA SystemKeeps ==
  ASSUME IntakeInv, NEW b \in DOMAIN rows, StartRow(b) \/ ApproveRow(b) \/ SucceedRow(b) \/ FailRow(b)
  PROVE  IntakeInv'
<1>1. /\ step' = step /\ request' = request /\ candidates' = candidates
      /\ lastSeen' = lastSeen /\ head' = head
  BY DEF StartRow, ApproveRow, SucceedRow, FailRow
<1>2. {"running", "pending", "success", "failed"} \subseteq Statuses
  BY DEF Statuses
<1>r. IntakeTypes
  BY DEF IntakeInv
<1>s. ASSUME NEW status \in {"running", "pending", "success", "failed"},
             rows[b].status # "failed", rows[b].status = "pending_approval" => rows[b].record,
             rows' = [rows EXCEPT ![b].status = status]
      PROVE  IntakeInv'
  <2>1. PICK gated \in BOOLEAN, record \in BOOLEAN : gated = rows[b].gated /\ record = rows[b].record
    BY <1>r, ReviewedRow
  <2>3. rows' = [rows EXCEPT ![b] = Reviewed(b, status, gated, record)]
    BY <1>r, <1>s, <2>1, OnlyStatus
  <2>2. status \in Statuses
    BY <1>2
  <2> QED BY <1>1, <1>s, <2>1, <2>2, <2>3, SystemReview
<1>3. CASE StartRow(b)
  BY <1>s, <1>3 DEF StartRow
<1>4. CASE ApproveRow(b)
  BY <1>s, <1>4 DEF ApproveRow
<1>5. CASE SucceedRow(b)
  BY <1>s, <1>5 DEF SucceedRow
<1>6. CASE FailRow(b)
  <2>1. rows[b].status = "running"
    BY <1>6 DEF FailRow
  <2>2. CASE rows' = [rows EXCEPT ![b].status = "failed"]
    BY <1>s, <2>1, <2>2
  <2>3. CASE ~(RetriedTimes(b, IntakeRetries) \/ Len(rows) = MaxRows)
    <3>1. PICK failed : failed = [rows EXCEPT ![b].status = "failed"]
      OBVIOUS
    <3>2. rows' = Append(failed, [rows[b] EXCEPT
                     !.number = NextBuildNumber(rows[b].project), !.trigger = "retry",
                     !.status = "pending", !.gated = FALSE, !.record = FALSE,
                     !.confirmed = FALSE, !.parent = b])
      BY <1>6, <2>3, <3>1 DEF FailRow
    <3> QED BY <1>1, <2>1, <2>3, <3>1, <3>2, RetryingKeeps
  <2> QED BY <1>6, <2>2, <2>3 DEF FailRow
<1> QED BY <1>3, <1>4, <1>5, <1>6

LEMMA EditingKeeps ==
  ASSUME IntakeInv, Push \/ \E p \in IntakeProjects : EditPipeline(p)
  PROVE  IntakeInv'
<1>1. IntakeTypes
  BY DEF IntakeInv
<1>2. /\ rows' = rows /\ step' = step /\ request' = request /\ candidates' = candidates
      /\ lastSeen' = lastSeen /\ (head' = head \/ head' = head + 1)
  BY DEF Push, EditPipeline, Database
<1>3. RowsCarried /\ OnlyAdded
  BY <1>1, <1>2, SameRows
<1>4. head' \in Nat /\ head <= head'
  BY <1>1, <1>2 DEF IntakeTypes
<1>5. StartupIsHeld'
  BY <1>2 DEF IntakeInv, StartupIsHeld
<1> QED BY <1>2, <1>3, <1>4, <1>5, SystemMoves

LEMMA RestartKeeps ==
  ASSUME IntakeInv, Restart
  PROVE  IntakeInv'
<1>1. IntakeTypes /\ StartupIsHeld
  BY DEF IntakeInv
<1>2. rows' = [b \in DOMAIN rows |->
           IF rows[b].status = "running" THEN [rows[b] EXCEPT !.status = "pending"] ELSE rows[b]]
  BY DEF Restart
<1>3. ASSUME NEW b \in DOMAIN rows
      PROVE  /\ rows'[b] \in IntakeRow /\ Carried(b)
             /\ rows'[b].gated = rows[b].gated /\ rows'[b].record = rows[b].record
             /\ rows'[b].status = rows[b].status \/ rows[b].status = "running"
  <2>1. rows[b] \in IntakeRow
    BY <1>1, <1>3, RowTypes
  <2>2. CASE rows[b].status = "running"
    <3>1. rows'[b] = [rows[b] EXCEPT !.status = "pending"]
      BY <1>2, <1>3, <2>2
    <3>2. PICK x : x = [rows[b] EXCEPT !.status = "pending"]
      OBVIOUS
    <3>3. x \in IntakeRow /\ x.gated = rows[b].gated /\ x.record = rows[b].record
      BY <2>1, <3>2 DEF IntakeRow, Statuses
    <3>4. /\ x.project = rows[b].project /\ x.number = rows[b].number /\ x.trigger = rows[b].trigger
          /\ x.commit = rows[b].commit /\ x.release = rows[b].release /\ x.confirmed = rows[b].confirmed
          /\ x.parent = rows[b].parent
      BY <2>1, <3>2 DEF IntakeRow
    <3> QED BY <2>2, <3>1, <3>2, <3>3, <3>4 DEF Carried
  <2>3. CASE rows[b].status # "running"
    BY <1>2, <1>3, <2>1, <2>3 DEF Carried
  <2> QED BY <2>2, <2>3
<1>4. DOMAIN rows' = DOMAIN rows
  BY <1>2
<1>5. rows' \in Seq(IntakeRow) /\ Len(rows') = Len(rows)
  <2>1. Len(rows) \in Nat /\ DOMAIN rows = 1..Len(rows)
    BY <1>1 DEF IntakeTypes
  <2>2. rows' \in [1..Len(rows) -> IntakeRow]
    BY <1>2, <1>3, <2>1, Zenon
  <2>3. rows' \in Seq(IntakeRow)
    BY <2>1, <2>2, IsASeq
  <2>4. Len(rows') = Len(rows)
    BY <2>1, <2>2, <2>3
  <2> QED BY <2>3, <2>4
<1>6. RowsCarried /\ OnlyAdded
  <2>1. Len(rows) # Len(rows) + 1
    BY <1>1 DEF IntakeTypes
  <2> QED BY <1>3, <1>5, <2>1 DEF RowsCarried, OnlyAdded
<1>7. StartupIsHeld'
  <2>1. \A b \in DOMAIN rows : rows'[b].trigger = rows[b].trigger
    BY <1>3 DEF Carried
  <2> QED BY <1>1, <1>3, <1>4, <2>1 DEF StartupIsHeld
<1>8. step' = [r \in Requests |-> "idle"] /\ request' = [r \in Requests |-> Idle]
  BY DEF Restart
<1>9. step' \in [Requests -> IntakeSteps] /\ request' \in [Requests -> IntakeRequest]
  BY <1>8, IdleIsARequest DEF IntakeSteps
<1>10. /\ candidates' \subseteq IntakeProjects /\ head' \in Nat /\ lastSeen' \in Nat
       /\ lastSeen <= lastSeen' /\ lastSeen' <= head'
  BY <1>1 DEF IntakeTypes, Restart
<1>11. Requests \in SUBSET Requests /\ \A r \in Requests : RequestOK(r, step[r], request[r])'
  BY <1>8 DEF RequestOK
<1>12. \A r \in Requests \ Requests : Stays(r)
  OBVIOUS
<1> QED BY <1>6, <1>7, <1>9, <1>10, <1>11, <1>12, StepKeeps

LEMMA NothingKeeps ==
  ASSUME IntakeInv, UNCHANGED intakeVars
  PROVE  IntakeInv'
<1>1. IntakeTypes /\ StartupIsHeld
  BY DEF IntakeInv
<1>2. /\ rows' = rows /\ step' = step /\ request' = request /\ candidates' = candidates
      /\ lastSeen' = lastSeen /\ head' = head
  BY DEF intakeVars
<1>3. RowsCarried /\ OnlyAdded
  BY <1>1, <1>2, SameRows
<1>4. head' \in Nat /\ head <= head' /\ StartupIsHeld'
  BY <1>1, <1>2 DEF IntakeTypes, StartupIsHeld
<1> QED BY <1>2, <1>3, <1>4, SystemMoves

LEMMA IntakeBegins == IntakeInit => IntakeInv
<1> SUFFICES ASSUME IntakeInit PROVE IntakeInv
  OBVIOUS
<1>1. rows = <<>> /\ DOMAIN rows = {}
  BY DEF IntakeInit
<1>2. IntakeTypes
  <2>1. rows \in Seq(IntakeRow)
    BY <1>1
  <2>2. step \in [Requests -> IntakeSteps] /\ request \in [Requests -> IntakeRequest]
    BY IdleIsARequest DEF IntakeInit, IntakeSteps
  <2> QED BY <2>1, <2>2 DEF IntakeTypes, IntakeInit
<1>3. Numbered /\ StartupIsHeld /\ Polled /\ Published
  BY <1>1 DEF Numbered, NumbersFollowCreation, StartupIsHeld, Polled, OneBuildPerCommit, Published, Publications
<1>4. RequestsOK
  BY DEF IntakeInit, RequestsOK, RequestOK
<1> QED BY <1>2, <1>3, <1>4 DEF IntakeInv

LEMMA IntakeKeeps == IntakeInv /\ [IntakeNext]_intakeVars => IntakeInv'
<1> SUFFICES ASSUME IntakeInv, [IntakeNext]_intakeVars PROVE IntakeInv'
  OBVIOUS
<1>1. CASE UNCHANGED intakeVars
  BY <1>1, NothingKeeps
<1>2. ASSUME NEW r \in Requests,
             \/ TriggerBuild(r) \/ ProjectHTTPTriggerBuild(r) \/ HTTPTriggerBuild(r)
             \/ RetryBuild(r) \/ PushReceived(r) \/ CheckCronTriggers(r) \/ HandleBuildFinish(r)
      PROVE  IntakeInv'
  BY <1>2, Beginnings
<1>3. ASSUME NEW r \in Requests, ListVCSRoots(r) \/ ListRemote(r) PROVE IntakeInv'
  BY <1>3, PollingKeeps
<1>4. ASSUME NEW r \in Requests, ReadNumber(r) PROVE IntakeInv'
  BY <1>4, NumberingKeeps
<1>5. ASSUME NEW r \in Requests, CreateBuild(r) PROVE IntakeInv'
  BY <1>5, CreatingKeeps
<1>6. ASSUME NEW r \in Requests, DecideApproval(r) PROVE IntakeInv'
  BY <1>6, DecidingKeeps
<1>7. ASSUME NEW r \in Requests, Enqueue(r) PROVE IntakeInv'
  <2>1. Leave(r) /\ rows' = rows /\ lastSeen' = lastSeen /\ head' = head /\ candidates' \subseteq candidates
    BY <1>7 DEF Enqueue, Database
  <2> QED BY <2>1, LeavingKeeps
<1>8. ASSUME NEW r \in Requests, StartupLoad(r) PROVE IntakeInv'
  BY <1>8, LoadingKeeps
<1>9. ASSUME NEW r \in Requests, CreateStartupBuild(r) PROVE IntakeInv'
  BY <1>9, StartupCreationKeeps
<1>10. ASSUME NEW r \in Requests, RecordStartupApproval(r) PROVE IntakeInv'
  BY <1>10, RecordingKeeps
<1>11. ASSUME NEW b \in DOMAIN rows, StartRow(b) \/ ApproveRow(b) \/ SucceedRow(b) \/ FailRow(b) PROVE IntakeInv'
  BY <1>11, SystemKeeps
<1>12. CASE Push \/ \E p \in IntakeProjects : EditPipeline(p)
  BY <1>12, EditingKeeps
<1>13. CASE Restart
  BY <1>13, RestartKeeps
<1> QED BY <1>1, <1>2, <1>3, <1>4, <1>5, <1>6, <1>7, <1>8, <1>9, <1>10, <1>11, <1>12, <1>13 DEF IntakeNext

\* Only the statement that finds its project without work adds a startup build.
LEMMA StartupJoinsNoWork ==
  ASSUME IntakeInv, IntakeNext, NEW b \in DOMAIN rows', b \notin DOMAIN rows, rows'[b].trigger = "startup"
  PROVE  Eligible(rows'[b].project)
<1>1. IntakeTypes /\ RequestsOK /\ rows \in Seq(IntakeRow)
  BY DEF IntakeInv, IntakeTypes
<1>2. DOMAIN rows' # DOMAIN rows
  OBVIOUS
<1>3. ASSUME NEW old \in Seq(IntakeRow), Len(old) = Len(rows), NEW x \in IntakeRow, rows' = Append(old, x)
      PROVE  x.trigger = "startup" /\ rows'[b] = x
  BY <1>1, <1>3
<1>4. ASSUME NEW r \in Requests, CreateBuild(r) PROVE Eligible(rows'[b].project)
  <2>1. PICK x : x = Row(r, request[r].number, "pending", FALSE)
    OBVIOUS
  <2>2. rows' = Append(rows, x)
    BY <1>2, <1>4, <2>1 DEF CreateBuild
  <2>3. request[r] \in IntakeRequest /\ Source[r] \in Sources
    BY <1>1, RequestTypes
  <2>4. x \in IntakeRow /\ x.trigger = Source[r]
    BY <2>1, <2>3 DEF Row, IntakeRow, IntakeRequest, Statuses
  <2>5. Source[r] # "startup"
    BY <1>1, <1>4 DEF CreateBuild, RequestsOK, RequestOK
  <2> QED BY <1>1, <1>3, <2>2, <2>4, <2>5
<1>5. ASSUME NEW r \in Requests, CreateStartupBuild(r) PROVE Eligible(rows'[b].project)
  <2>1. PICK p, n, gated : p = request[r].project /\ n = NextBuildNumber(p) /\ gated = request[r].confirmed
    OBVIOUS
  <2>2. PICK x : x = [Row(r, n, StartupStatus(gated), gated) EXCEPT !.confirmed = FALSE]
    OBVIOUS
  <2>3. StartupStillEligible(p) /\ rows' = Append(rows, x)
    BY <1>2, <1>5, <2>1, <2>2 DEF CreateStartupBuild
  <2>4. /\ request[r] \in IntakeRequest /\ p \in AnyProject /\ gated \in BOOLEAN /\ Source[r] \in Sources
        /\ request[r].commit \in Nat /\ request[r].release \in BOOLEAN /\ request[r].parent \in Nat
    BY <1>1, <2>1, RequestTypes
  <2>5. n \in Nat
    BY <1>1, <2>1, NextIsFree DEF IntakeInv
  <2>6. x = [project |-> p, number |-> n, trigger |-> Source[r], status |-> StartupStatus(gated),
             gated |-> gated, record |-> FALSE, commit |-> request[r].commit, release |-> request[r].release,
             confirmed |-> FALSE, parent |-> request[r].parent]
    BY <2>1, <2>2 DEF Row
  <2>7. x \in IntakeRow /\ x.project = p
    <3>1. StartupStatus(gated) \in Statuses
      BY DEF StartupStatus, Statuses
    <3> QED BY <2>4, <2>5, <2>6, <3>1 DEF IntakeRow
  <2>8. rows'[b] = x
    BY <1>1, <1>3, <2>3, <2>7
  <2> QED BY <2>3, <2>7, <2>8 DEF StartupStillEligible
<1>6. ASSUME NEW c \in DOMAIN rows, FailRow(c) PROVE FALSE
  <2>1. PICK old : old = [rows EXCEPT ![c].status = "failed"]
    OBVIOUS
  <2>2. PICK x : x = [rows[c] EXCEPT
                         !.number = NextBuildNumber(rows[c].project), !.trigger = "retry",
                         !.status = "pending", !.gated = FALSE, !.record = FALSE,
                         !.confirmed = FALSE, !.parent = c]
    OBVIOUS
  <2>3. rows' = Append(old, x)
    BY <1>2, <1>6, <2>1, <2>2 DEF FailRow
  <2>4. rows[c] \in IntakeRow /\ c \in Nat
    BY <1>1, <1>6, RowTypes
  <2>5. PICK n : n = NextBuildNumber(rows[c].project) /\ n \in Nat
    BY <1>1, NextIsFree DEF IntakeInv
  <2>6. x \in IntakeRow /\ x.trigger = "retry"
    BY <2>2, <2>4, <2>5 DEF IntakeRow, Sources, Statuses
  <2>7. old \in Seq(IntakeRow) /\ Len(old) = Len(rows)
    <3>1. PICK y : y = [rows[c] EXCEPT !.status = "failed"]
      OBVIOUS
    <3>2. y \in IntakeRow
      BY <2>4, <3>1 DEF IntakeRow, Statuses
    <3>3. old = [rows EXCEPT ![c] = y]
      BY <1>1, <1>6, <2>1, <3>1
    <3> QED BY <1>1, <1>6, <3>2, <3>3, OneRow, Zenon
  <2> QED BY <1>3, <2>3, <2>6, <2>7
<1>7. ASSUME NEW r \in Requests, DecideApproval(r) \/ RecordStartupApproval(r) PROVE FALSE
  BY <1>2, <1>7 DEF DecideApproval, RecordStartupApproval
<1>8. ASSUME NEW c \in DOMAIN rows, StartRow(c) \/ ApproveRow(c) \/ SucceedRow(c) PROVE FALSE
  BY <1>2, <1>8 DEF StartRow, ApproveRow, SucceedRow
<1>9. ~Restart
  BY <1>2 DEF Restart
<1>10. ~Push /\ \A p \in IntakeProjects : ~EditPipeline(p)
  BY <1>2 DEF Push, EditPipeline, Database
<1>11. ASSUME NEW r \in Requests
       PROVE  /\ ~TriggerBuild(r) /\ ~ProjectHTTPTriggerBuild(r) /\ ~HTTPTriggerBuild(r) /\ ~RetryBuild(r)
              /\ ~PushReceived(r) /\ ~CheckCronTriggers(r) /\ ~ListVCSRoots(r) /\ ~ListRemote(r)
              /\ ~HandleBuildFinish(r) /\ ~ReadNumber(r) /\ ~Enqueue(r) /\ ~StartupLoad(r)
  BY <1>2 DEF TriggerBuild, ProjectHTTPTriggerBuild, HTTPTriggerBuild, ResolveParameters, RetryBuild,
     PushReceived, CheckCronTriggers, ListVCSRoots, ListRemote, HandleBuildFinish, ReadNumber, Enqueue,
     StartupLoad, Database
<1> QED BY <1>4, <1>5, <1>6, <1>7, <1>8, <1>9, <1>10, <1>11 DEF IntakeNext

THEOREM OnlyAdmittedBuildsHolds == IntakeSpec => OnlyAdmittedBuilds
<1>1. IntakeInit => IntakeInv
  BY IntakeBegins
<1>2. IntakeInv /\ [IntakeNext]_intakeVars => IntakeInv'
  BY IntakeKeeps
<1>3. IntakeInv => NumbersFollowCreation /\ StartupIsHeld /\ OneBuildPerCommit /\ PublicationIsConfirmed
  <2>1. Published => PublicationIsConfirmed
    BY DEF Published, PublicationIsConfirmed, Publications
  <2> QED BY <2>1 DEF IntakeInv, Numbered, Polled
<1>4. IntakeInv /\ [IntakeNext]_intakeVars
        => [\A b \in DOMAIN rows' \ DOMAIN rows :
              rows'[b].trigger = "startup" => Eligible(rows'[b].project)]_intakeVars
  BY StartupJoinsNoWork DEF intakeVars
<1> QED BY <1>1, <1>2, <1>3, <1>4, PTL DEF IntakeSpec, OnlyAdmittedBuilds, StartupIsAlone

-----------------------------------------------------------------------------
(***************************************************************************)
(* QueueReorder.                                                           *)
(***************************************************************************)
QueueItem == [status : {"none", "queued", "pending_approval", "running", "done"}, priority : Nat, id : Nat]

QueueTypes ==
    /\ state \in [Queued -> {"absent", "pending", "pending_approval", "running", "done"}]
    /\ item \in [Queued -> QueueItem] /\ inserted \in Nat /\ moves \in Nat /\ decided \in Seq(Queued)

\* Items are numbered in the order in which they are inserted.
ItemsAreNumbered ==
    /\ \A b \in Queued : item[b].status # "none" => item[b].id \in 1..inserted
    /\ \A a, b \in Queued : a # b /\ item[a].status # "none" /\ item[b].status # "none" => item[a].id # item[b].id

\* What was decided stands in the rows.
DecidedStands ==
    \A i \in 1..Len(decided) :
        item[decided[i]].status # "none" /\ item[decided[i]].priority = Len(decided) + 1 - i

RunningHasItem == \A b \in Queued : state[b] = "running" => item[b].status # "none"

QueueInv == QueueTypes /\ ItemsAreNumbered /\ DecidedStands /\ RunningHasItem

\* A step that writes a status keeps numbers and priorities.
LEMMA StatusesKeep ==
  ASSUME QueueInv, item' \in [Queued -> QueueItem],
         \A b \in Queued : /\ item'[b].status = "none" <=> item[b].status = "none"
                           /\ item'[b].id = item[b].id /\ item'[b].priority = item[b].priority,
         UNCHANGED <<inserted, decided>>, moves' \in Nat,
         state' \in [Queued -> {"absent", "pending", "pending_approval", "running", "done"}],
         \A b \in Queued : state'[b] = "running" => state[b] = "running" \/ item[b].status # "none"
  PROVE  QueueInv'
<1>1. QueueTypes' /\ ItemsAreNumbered'
  BY DEF QueueInv, QueueTypes, ItemsAreNumbered
<1>2. \A i \in 1..Len(decided) : decided[i] \in Queued
  BY DEF QueueInv, QueueTypes
<1>3. DecidedStands'
  BY <1>2 DEF QueueInv, DecidedStands
<1>4. RunningHasItem'
  BY DEF QueueInv, RunningHasItem
<1> QED BY <1>1, <1>3, <1>4 DEF QueueInv

LEMMA StatusWritten ==
  ASSUME QueueInv, NEW b \in Queued, NEW s \in {"queued", "pending_approval", "running", "done"},
         item[b].status # "none", item' = [item EXCEPT ![b].status = s], UNCHANGED <<inserted, decided, moves>>,
         NEW t \in {"absent", "pending", "pending_approval", "running", "done"},
         state' \in {state, [state EXCEPT ![b] = t]}
  PROVE  QueueInv'
<1>1. PICK q : q = [item[b] EXCEPT !.status = s]
  OBVIOUS
<1>2. item[b] \in QueueItem /\ item' = [item EXCEPT ![b] = q]
  BY <1>1 DEF QueueInv, QueueTypes
<1>3. q \in QueueItem /\ q.status = s /\ q.id = item[b].id /\ q.priority = item[b].priority
  BY <1>1, <1>2 DEF QueueItem
<1>4. item' \in [Queued -> QueueItem] /\ item'[b] = q /\ \A a \in Queued : a # b => item'[a] = item[a]
  BY <1>2, <1>3 DEF QueueInv, QueueTypes
<1>5. \A a \in Queued : /\ item'[a].status = "none" <=> item[a].status = "none"
                        /\ item'[a].id = item[a].id /\ item'[a].priority = item[a].priority
  BY <1>3, <1>4
<1>6. moves' \in Nat
  BY DEF QueueInv, QueueTypes
<1>7. state \in [Queued -> {"absent", "pending", "pending_approval", "running", "done"}]
  BY DEF QueueInv, QueueTypes
<1>8. /\ state' \in [Queued -> {"absent", "pending", "pending_approval", "running", "done"}]
      /\ \A a \in Queued : a # b => state'[a] = state[a]
  BY <1>7
<1>9. \A a \in Queued : state'[a] = "running" => state[a] = "running" \/ item[a].status # "none"
  BY <1>8
<1> QED BY <1>4, <1>5, <1>6, <1>8, <1>9, StatusesKeep

LEMMA InsertKeeps ==
  ASSUME QueueInv, NEW b \in Queued, CreateBuildQueueItem(b)
  PROVE  QueueInv'
<1>1. PICK q : q = [status |-> "queued", priority |-> 0, id |-> inserted + 1]
  OBVIOUS
<1>2. /\ item' = [item EXCEPT ![b] = q] /\ inserted' = inserted + 1 /\ item[b].status = "none"
      /\ UNCHANGED <<state, moves, decided>> /\ inserted \in Nat
  BY <1>1 DEF CreateBuildQueueItem, QueueInv, QueueTypes
<1>3. q \in QueueItem /\ q.status # "none" /\ q.id = inserted + 1
  BY <1>1, <1>2 DEF QueueItem
<1>4. item' \in [Queued -> QueueItem] /\ item'[b] = q /\ \A a \in Queued : a # b => item'[a] = item[a]
  BY <1>2, <1>3 DEF QueueInv, QueueTypes
<1>5. QueueTypes'
  BY <1>2, <1>4 DEF QueueInv, QueueTypes
<1>6. ItemsAreNumbered'
  <2>1. \A a \in Queued : a # b /\ item[a].status # "none" => item[a].id \in 1..inserted
    BY DEF QueueInv, ItemsAreNumbered
  <2>2. \A a \in Queued : item'[a].status # "none" => item'[a].id \in 1..inserted'
    BY <1>2, <1>3, <1>4, <2>1
  <2>3. \A a \in Queued : a # b /\ item'[a].status # "none" => item'[a].id # item'[b].id
    BY <1>2, <1>3, <1>4, <2>1
  <2>4. \A a, d \in Queued : a # b /\ d # b /\ a # d /\ item'[a].status # "none" /\ item'[d].status # "none"
                             => item'[a].id # item'[d].id
    BY <1>4 DEF QueueInv, ItemsAreNumbered
  <2>5. \A a, d \in Queued : a # d /\ item'[a].status # "none" /\ item'[d].status # "none" => item'[a].id # item'[d].id
    BY <2>3, <2>4
  <2> QED BY <2>2, <2>5 DEF ItemsAreNumbered
<1>7. DecidedStands'
  <2>1. \A i \in 1..Len(decided) : decided[i] \in Queued /\ decided[i] # b
    BY <1>2 DEF QueueInv, QueueTypes, DecidedStands
  <2> QED BY <1>2, <1>4, <2>1 DEF QueueInv, DecidedStands
<1>8. RunningHasItem'
  BY <1>2, <1>3, <1>4 DEF QueueInv, RunningHasItem
<1> QED BY <1>5, <1>6, <1>7, <1>8 DEF QueueInv

\* The queue page shows a strict order.
LEMMA QueueIsOrdered ==
  ASSUME QueueInv
  PROVE  /\ \A a \in Movable : ~QueuedBefore(a, a)
         /\ \A a, b \in Movable : a # b => QueuedBefore(a, b) \/ QueuedBefore(b, a)
         /\ \A a, b, c \in Movable : QueuedBefore(a, b) /\ QueuedBefore(b, c) => QueuedBefore(a, c)
<1>1. \A a \in Movable : a \in Queued /\ item[a].priority \in Nat /\ item[a].id \in Nat /\ item[a].status # "none"
  BY DEF QueueInv, QueueTypes, QueueItem, Movable
<1>2. \A a, b \in Movable : a # b => item[a].id # item[b].id
  BY <1>1 DEF QueueInv, ItemsAreNumbered
<1> QED BY <1>1, <1>2 DEF QueuedBefore

LEMMA MovableIsFinite ==
  /\ IsFiniteSet(Movable) /\ Cardinality(Movable) \in Nat
  /\ \A b \in Movable : IsFiniteSet(Ahead(b)) /\ Cardinality(Ahead(b)) \in Nat
<1>1. MaxQueued \in Nat
  BY QueueAssumption
<1>2. IsFiniteSet(Queued)
  BY <1>1, FS_Interval DEF Queued
<1>3. Movable \in SUBSET Queued
  BY DEF Movable
<1>4. IsFiniteSet(Movable)
  BY <1>2, <1>3, FS_Subset
<1>5. \A b \in Movable : IsFiniteSet(Ahead(b))
  <2> TAKE b \in Movable
  <2>1. Ahead(b) \in SUBSET Movable
    BY DEF Ahead
  <2> QED BY <1>4, <2>1, FS_Subset
<1> QED BY <1>4, <1>5, FS_CardinalityType

\* Every movable item has a place of its own, the number of those ahead of it.
LEMMA PlacesAreTaken ==
  ASSUME QueueInv
  PROVE  /\ \A a, b \in Movable : QueuedBefore(a, b) <=> Cardinality(Ahead(a)) < Cardinality(Ahead(b))
         /\ \A b \in Movable : Cardinality(Ahead(b)) \in 0..Cardinality(Movable) - 1
         /\ \A k \in 0..Cardinality(Movable) - 1 : \E b \in Movable : Cardinality(Ahead(b)) = k
<1>1. PICK n : n = Cardinality(Movable)
  OBVIOUS
<1>2. /\ n \in Nat /\ IsFiniteSet(Movable)
      /\ \A b \in Movable : IsFiniteSet(Ahead(b)) /\ Cardinality(Ahead(b)) \in Nat
  BY <1>1, MovableIsFinite
<1>3. ASSUME NEW a \in Movable, NEW b \in Movable, QueuedBefore(a, b)
      PROVE  Cardinality(Ahead(a)) < Cardinality(Ahead(b))
  <2>1. Ahead(a) \in SUBSET Ahead(b)
    BY <1>3, QueueIsOrdered DEF Ahead
  <2>2. a \in Ahead(b) /\ a \notin Ahead(a)
    BY <1>3, QueueIsOrdered DEF Ahead
  <2>3. Cardinality(Ahead(a)) <= Cardinality(Ahead(b)) /\ (Cardinality(Ahead(b)) = Cardinality(Ahead(a)) => Ahead(b) = Ahead(a))
    BY <1>2, <2>1, FS_Subset
  <2>4. Cardinality(Ahead(b)) # Cardinality(Ahead(a))
    BY <2>2, <2>3
  <2> QED BY <1>2, <2>3, <2>4
<1>4. ASSUME NEW b \in Movable PROVE Cardinality(Ahead(b)) \in 0..n - 1
  <2>1. Ahead(b) \in SUBSET (Movable \ {b})
    BY QueueIsOrdered DEF Ahead
  <2>2. IsFiniteSet(Movable \ {b}) /\ Cardinality(Movable \ {b}) = n - 1
    BY <1>1, <1>2, FS_RemoveElement
  <2>3. Cardinality(Ahead(b)) <= n - 1
    BY <2>1, <2>2, FS_Subset
  <2> QED BY <1>2, <2>3
<1>5. \A a, b \in Movable : Cardinality(Ahead(a)) = Cardinality(Ahead(b)) => a = b
  <2> SUFFICES ASSUME NEW a \in Movable, NEW b \in Movable, Cardinality(Ahead(a)) = Cardinality(Ahead(b)), a # b
               PROVE  FALSE
    OBVIOUS
  <2>1. QueuedBefore(a, b) \/ QueuedBefore(b, a)
    BY QueueIsOrdered
  <2> QED BY <1>2, <1>3, <2>1
<1>6. PICK f : f = [b \in Movable |-> Cardinality(Ahead(b))]
  OBVIOUS
<1>7. f \in Injection(Movable, 0..n - 1)
  BY <1>4, <1>5, <1>6 DEF Injection, IsInjective
<1>8. IsFiniteSet(0..n - 1) /\ Cardinality(0..n - 1) = n
  BY <1>2, FS_Interval
<1>9. f \in Surjection(Movable, 0..n - 1)
  BY <1>1, <1>7, <1>8, FS_Injection
<1>10. \A k \in 0..n - 1 : \E b \in Movable : Cardinality(Ahead(b)) = k
  BY <1>6, <1>9 DEF Surjection
<1>11. \A a, b \in Movable : Cardinality(Ahead(a)) < Cardinality(Ahead(b)) => QueuedBefore(a, b)
  <2> SUFFICES ASSUME NEW a \in Movable, NEW b \in Movable, Cardinality(Ahead(a)) < Cardinality(Ahead(b))
               PROVE  QueuedBefore(a, b)
    OBVIOUS
  <2>1. a # b /\ ~QueuedBefore(b, a)
    BY <1>2, <1>3
  <2> QED BY <2>1, QueueIsOrdered
<1> QED BY <1>1, <1>3, <1>4, <1>10, <1>11

LEMMA OrderIs ==
  ASSUME QueueInv
  PROVE  /\ MovableOrder \in Seq(Movable) /\ Len(MovableOrder) = Cardinality(Movable)
         /\ \A i, j \in 1..Len(MovableOrder) : i < j => QueuedBefore(MovableOrder[i], MovableOrder[j])
         /\ \A b \in Movable : \E i \in 1..Len(MovableOrder) : MovableOrder[i] = b
<1>1. PICK n : n = Cardinality(Movable)
  OBVIOUS
<1>2. n \in Nat
  BY <1>1, MovableIsFinite
<1>3. MovableOrder = [i \in 1..n |-> CHOOSE b \in Movable : Cardinality(Ahead(b)) = i - 1]
  BY <1>1 DEF MovableOrder
<1>4. ASSUME NEW i \in 1..n PROVE MovableOrder[i] \in Movable /\ Cardinality(Ahead(MovableOrder[i])) = i - 1
  <2>1. i - 1 \in 0..n - 1
    BY <1>2
  <2>2. \E b \in Movable : Cardinality(Ahead(b)) = i - 1
    BY <1>1, <2>1, PlacesAreTaken
  <2>3. MovableOrder[i] = CHOOSE b \in Movable : Cardinality(Ahead(b)) = i - 1
    BY <1>3
  <2> QED BY <2>2, <2>3
<1>5. MovableOrder \in [1..n -> Movable]
  BY <1>3, <1>4
<1>6. MovableOrder \in Seq(Movable) /\ Len(MovableOrder) = n
  BY <1>2, <1>5, IsASeq
<1>7. ASSUME NEW i \in 1..n, NEW j \in 1..n, i < j PROVE QueuedBefore(MovableOrder[i], MovableOrder[j])
  <2>1. Cardinality(Ahead(MovableOrder[i])) < Cardinality(Ahead(MovableOrder[j]))
    BY <1>2, <1>4, <1>7
  <2> QED BY <1>4, <2>1, PlacesAreTaken
<1>8. ASSUME NEW b \in Movable PROVE \E i \in 1..n : MovableOrder[i] = b
  <2>1. Cardinality(Ahead(b)) \in 0..n - 1
    BY <1>1, PlacesAreTaken
  <2>2. PICK i \in 1..n : Cardinality(Ahead(b)) = i - 1
    BY <1>2, <2>1
  <2>3. Cardinality(Ahead(MovableOrder[i])) = Cardinality(Ahead(b)) /\ MovableOrder[i] \in Movable
    BY <1>4, <2>2
  <2>4. ~QueuedBefore(b, MovableOrder[i]) /\ ~QueuedBefore(MovableOrder[i], b)
    <3>1. Cardinality(Ahead(b)) \in Nat
      BY MovableIsFinite
    <3> QED BY <2>3, <3>1, PlacesAreTaken
  <2> QED BY <2>3, <2>4, QueueIsOrdered
<1> QED BY <1>1, <1>6, <1>7, <1>8

\* Where the element at a place of a sequence comes from, after one was moved.
CameFrom(current, target, i) ==
    LET k == IF i < target + 1 THEN i ELSE i - 1
    IN  IF i = target + 1 THEN current + 1 ELSE IF k < current + 1 THEN k ELSE k + 1

LEMMA CameFromIs ==
  ASSUME NEW n \in Nat, NEW current \in 0..n - 1, NEW target \in 0..n - 1
  PROVE  /\ \A i \in 1..n : CameFrom(current, target, i) \in 1..n
         /\ \A i, j \in 1..n : i # j => CameFrom(current, target, i) # CameFrom(current, target, j)
         /\ \A k \in 1..n : \E i \in 1..n : CameFrom(current, target, i) = k
         /\ \A i, j \in 1..n : i < j /\ i # target + 1 /\ j # target + 1
                               => CameFrom(current, target, i) < CameFrom(current, target, j)
<1>1. /\ \A i \in 1..n : CameFrom(current, target, i) \in 1..n
      /\ \A i, j \in 1..n : i # j => CameFrom(current, target, i) # CameFrom(current, target, j)
      /\ \A i, j \in 1..n : i < j /\ i # target + 1 /\ j # target + 1
                            => CameFrom(current, target, i) < CameFrom(current, target, j)
  BY DEF CameFrom
<1>2. ASSUME NEW k \in 1..n PROVE \E i \in 1..n : CameFrom(current, target, i) = k
  <2>1. CASE k = current + 1
    <3>1. target + 1 \in 1..n /\ CameFrom(current, target, target + 1) = k
      BY <2>1 DEF CameFrom
    <3> QED BY <3>1
  <2>2. CASE k # current + 1
    <3>1. PICK l : l = IF k < current + 1 THEN k ELSE k - 1
      OBVIOUS
    <3>2. PICK i : i = IF l < target + 1 THEN l ELSE l + 1
      OBVIOUS
    <3>3. i \in 1..n /\ CameFrom(current, target, i) = k
      BY <2>2, <3>1, <3>2 DEF CameFrom
    <3> QED BY <3>3
  <2> QED BY <2>1, <2>2
<1> QED BY <1>1, <1>2

LEMMA MovedIs ==
  ASSUME NEW S, NEW order \in Seq(S), NEW current \in 0..Len(order) - 1, NEW target \in 0..Len(order) - 1
  PROVE  /\ Moved(order, current, target) \in Seq(S)
         /\ Len(Moved(order, current, target)) = Len(order)
         /\ \A i \in 1..Len(order) : Moved(order, current, target)[i] = order[CameFrom(current, target, i)]
<1>1. PICK n, c, t : n = Len(order) /\ c = current + 1 /\ t = target + 1
  OBVIOUS
<1>2. n \in Nat /\ c \in 1..n /\ t \in 1..n /\ order[c] \in S
  BY <1>1
<1>3. PICK r : r = RemoveAt(order, c)
  OBVIOUS
<1>4. r \in Seq(S) /\ Len(r) = n - 1 /\ \A k \in 1..n - 1 : r[k] = IF k < c THEN order[k] ELSE order[k + 1]
  <2>1. PICK a, b : a = SubSeq(order, 1, c - 1) /\ b = SubSeq(order, c + 1, n)
    OBVIOUS
  <2>2. a \in Seq(S) /\ Len(a) = c - 1 /\ \A k \in 1..c - 1 : a[k] = order[k]
    BY <1>1, <1>2, <2>1
  <2>3. b \in Seq(S) /\ Len(b) = n - c /\ \A k \in 1..n - c : b[k] = order[c + k]
    BY <1>1, <1>2, <2>1
  <2>4. r = a \o b
    BY <1>1, <1>3, <2>1 DEF RemoveAt
  <2> QED BY <1>2, <2>2, <2>3, <2>4, SMTT(30)
<1>5. PICK m : m = Moved(order, current, target)
  OBVIOUS
<1>6. m = InsertAt(r, t, order[c])
  BY <1>1, <1>3, <1>5 DEF Moved
<1>7. m \in Seq(S) /\ Len(m) = n /\ \A i \in 1..n : m[i] = IF i < t THEN r[i] ELSE IF i = t THEN order[c] ELSE r[i - 1]
  <2>1. PICK a, b, e : a = SubSeq(r, 1, t - 1) /\ b = SubSeq(r, t, Len(r)) /\ e = order[c]
    OBVIOUS
  <2>2. a \in Seq(S) /\ Len(a) = t - 1 /\ \A k \in 1..t - 1 : a[k] = r[k]
    BY <1>2, <1>4, <2>1
  <2>3. b \in Seq(S) /\ Len(b) = n - t /\ \A k \in 1..n - t : b[k] = r[t + k - 1]
    BY <1>2, <1>4, <2>1
  <2>4. <<e>> \in Seq(S) /\ Len(<<e>>) = 1 /\ <<e>>[1] = e
    BY <1>2, <2>1
  <2>5. m = (a \o <<e>>) \o b
    BY <1>6, <2>1 DEF InsertAt
  <2>6. PICK ae : ae = a \o <<e>>
    OBVIOUS
  <2>7. ae \in Seq(S) /\ Len(ae) = t /\ \A k \in 1..t : ae[k] = IF k < t THEN r[k] ELSE e
    BY <1>2, <2>2, <2>4, <2>6
  <2>8. m = ae \o b
    BY <2>5, <2>6
  <2>9. m \in Seq(S) /\ Len(m) = n
    <3>0. ae \in Seq(S) /\ b \in Seq(S)
      BY <2>3, <2>7
    <3>1. Len(m) = Len(ae) + Len(b)
      BY <2>8, <3>0
    <3>2. m \in Seq(S)
      BY <2>3, <2>7, <2>8
    <3>3. Len(ae) + Len(b) = n
      BY <1>2, <2>3, <2>7
    <3> QED BY <3>1, <3>2, <3>3
  <2>10. \A i \in 1..n : m[i] = IF i <= t THEN ae[i] ELSE b[i - t]
    <3>1. ae \in Seq(S) /\ b \in Seq(S) /\ Len(ae) = t /\ Len(b) = n - t /\ n \in Nat /\ t \in Nat
      BY <1>2, <2>3, <2>7
    <3>2. \A i \in 1..Len(ae) + Len(b) : (ae \o b)[i] = IF i <= Len(ae) THEN ae[i] ELSE b[i - Len(ae)]
      BY <3>1
    <3>3. Len(ae) + Len(b) = n
      BY <3>1
    <3> QED BY <2>8, <3>1, <3>2, <3>3
  <2>11. ASSUME NEW i \in 1..n PROVE m[i] = IF i < t THEN r[i] ELSE IF i = t THEN order[c] ELSE r[i - 1]
    <3>1. CASE i <= t
      <4>1. i \in 1..t /\ m[i] = ae[i]
        BY <1>2, <2>10, <3>1
      <4> QED BY <1>2, <2>1, <2>7, <4>1
    <3>2. CASE i > t
      <4>1. i - t \in 1..n - t /\ m[i] = b[i - t] /\ t + (i - t) - 1 = i - 1
        BY <1>2, <2>10, <3>2
      <4>2. b[i - t] = r[t + (i - t) - 1]
        BY <2>3, <4>1
      <4> QED BY <1>2, <3>2, <4>1, <4>2
    <3> QED BY <1>2, <3>1, <3>2
  <2> QED BY <2>9, <2>11
<1>8. ASSUME NEW i \in 1..n PROVE m[i] = order[CameFrom(current, target, i)]
  <2>1. CASE i < t
    <3>1. m[i] = r[i] /\ i \in 1..n - 1
      BY <1>2, <1>7, <2>1
    <3>2. r[i] = IF i < c THEN order[i] ELSE order[i + 1]
      BY <1>4, <3>1
    <3>3. CameFrom(current, target, i) = IF i < c THEN i ELSE i + 1
      BY <1>1, <1>2, <2>1 DEF CameFrom
    <3> QED BY <3>1, <3>2, <3>3
  <2>2. CASE i = t
    <3>1. m[i] = order[c]
      BY <1>2, <1>7, <2>2
    <3>2. CameFrom(current, target, i) = c
      BY <1>1, <2>2 DEF CameFrom
    <3> QED BY <3>1, <3>2
  <2>3. CASE i > t
    <3>1. m[i] = r[i - 1] /\ i - 1 \in 1..n - 1
      BY <1>2, <1>7, <2>3
    <3>2. r[i - 1] = IF i - 1 < c THEN order[i - 1] ELSE order[(i - 1) + 1]
      BY <1>4, <3>1
    <3>3. CameFrom(current, target, i) = IF i - 1 < c THEN i - 1 ELSE (i - 1) + 1
      BY <1>1, <1>2, <2>3 DEF CameFrom
    <3> QED BY <3>1, <3>2, <3>3
  <2> QED BY <1>2, <2>1, <2>2, <2>3
<1> QED BY <1>1, <1>5, <1>7, <1>8

\* What a reorder writes: every movable item once, all but one in the order they had.
ArrangesAll(b, new) ==
    /\ new \in Seq(Movable)
    /\ \A a \in Movable : \E i \in 1..Len(new) : new[i] = a
    /\ \A i, j \in 1..Len(new) : i # j => new[i] # new[j]
    /\ \A i, j \in 1..Len(new) : i < j /\ b \notin {new[i], new[j]} => QueuedBefore(new[i], new[j])

LEMMA ReorderIs ==
  ASSUME QueueInv, NEW b \in Movable, NEW operation \in Operations
  PROVE  ArrangesAll(b, Arranged(b, operation))
<1>0. PICK new : new = Arranged(b, operation)
  OBVIOUS
<1>1. PICK order : order = MovableOrder
  OBVIOUS
<1>2. PICK current : current = Place(order, b) - 1
  OBVIOUS
<1>3. PICK target : target = Clamp(Resolve(operation, current, Len(order)), Len(order))
  OBVIOUS
<1>4. /\ order \in Seq(Movable)
      /\ \A i, j \in 1..Len(order) : i < j => QueuedBefore(order[i], order[j])
      /\ \A a \in Movable : \E i \in 1..Len(order) : order[i] = a
  BY <1>1, OrderIs
<1>5. \A i, j \in 1..Len(order) : i # j => order[i] # order[j]
  <2> SUFFICES ASSUME NEW i \in 1..Len(order), NEW j \in 1..Len(order), i < j PROVE order[i] # order[j]
    BY <1>4
  <2>1. QueuedBefore(order[i], order[j]) /\ order[i] \in Movable
    BY <1>4
  <2> QED BY <2>1, QueueIsOrdered
<1>6. Place(order, b) \in 1..Len(order) /\ order[Place(order, b)] = b
  <2>1. \E i \in DOMAIN order : order[i] = b
    BY <1>4
  <2> QED BY <1>4, <2>1 DEF Place
<1>7. current \in 0..Len(order) - 1 /\ order[current + 1] = b /\ Len(order) \in Nat
  <2>1. Len(order) \in Nat
    BY <1>4
  <2>2. current \in 0..Len(order) - 1 /\ current + 1 = Place(order, b)
    BY <1>2, <1>6, <2>1
  <2> QED BY <1>6, <2>1, <2>2
<1>8. target \in 0..Len(order) - 1
  <2>1. Resolve(operation, current, Len(order)) \in Int
    BY <1>7 DEF Resolve, Operations
  <2> QED BY <1>3, <1>7, <2>1 DEF Clamp
<1>9. CASE target = current
  <2>1. new = order
    BY <1>0, <1>1, <1>2, <1>3, <1>9 DEF Arranged
  <2>2. ArrangesAll(b, new)
    BY <1>4, <1>5, <2>1 DEF ArrangesAll
  <2> QED BY <1>0, <2>2
<1>10. CASE target # current
  <2>1. new = Moved(order, current, target)
    BY <1>0, <1>1, <1>2, <1>3, <1>10 DEF Arranged
  <2>2. /\ new \in Seq(Movable) /\ Len(new) = Len(order)
        /\ \A i \in 1..Len(order) : new[i] = order[CameFrom(current, target, i)]
    <3>1. order \in Seq(Movable)
      BY <1>4
    <3>2. current \in 0..Len(order) - 1 /\ target \in 0..Len(order) - 1
      BY <1>7, <1>8
    <3>3. /\ Moved(order, current, target) \in Seq(Movable)
          /\ Len(Moved(order, current, target)) = Len(order)
          /\ \A i \in 1..Len(order) : Moved(order, current, target)[i] = order[CameFrom(current, target, i)]
      BY <3>1, <3>2, MovedIs
    <3> QED BY <2>1, <3>3
  <2>3. PICK n : n = Len(order)
    OBVIOUS
  <2>4. /\ \A i \in 1..n : CameFrom(current, target, i) \in 1..n
        /\ \A i, j \in 1..n : i # j => CameFrom(current, target, i) # CameFrom(current, target, j)
        /\ \A k \in 1..n : \E i \in 1..n : CameFrom(current, target, i) = k
        /\ \A i, j \in 1..n : i < j /\ i # target + 1 /\ j # target + 1
                              => CameFrom(current, target, i) < CameFrom(current, target, j)
    <3>1. n \in Nat
      BY <1>7, <2>3
    <3>2. current \in 0..n - 1 /\ target \in 0..n - 1
      BY <1>7, <1>8, <2>3
    <3> QED BY <3>1, <3>2, CameFromIs
  <2>5. ASSUME NEW a \in Movable PROVE \E i \in 1..n : new[i] = a
    <3>1. PICK k \in 1..n : order[k] = a
      BY <1>4, <2>3
    <3>2. PICK i \in 1..n : CameFrom(current, target, i) = k
      BY <2>4
    <3> QED BY <2>2, <2>3, <3>1, <3>2
  <2>6. ASSUME NEW i \in 1..n, NEW j \in 1..n, i # j PROVE new[i] # new[j]
    <3>1. CameFrom(current, target, i) # CameFrom(current, target, j)
      BY <2>4, <2>6
    <3>2. CameFrom(current, target, i) \in 1..Len(order) /\ CameFrom(current, target, j) \in 1..Len(order)
      BY <2>3, <2>4
    <3>3. order[CameFrom(current, target, i)] # order[CameFrom(current, target, j)]
      BY <1>5, <3>1, <3>2
    <3>4. new[i] = order[CameFrom(current, target, i)] /\ new[j] = order[CameFrom(current, target, j)]
      BY <2>2, <2>3
    <3> QED BY <3>3, <3>4
  <2>7. ASSUME NEW i \in 1..n, NEW j \in 1..n, i < j, b \notin {new[i], new[j]} PROVE QueuedBefore(new[i], new[j])
    <3>1. \A k \in 1..n : k = target + 1 => new[k] = b
      <4>1. \A k \in 1..n : k = target + 1 => CameFrom(current, target, k) = current + 1
        BY DEF CameFrom
      <4> QED BY <1>7, <2>2, <2>3, <4>1
    <3>2. i # target + 1 /\ j # target + 1
      BY <2>7, <3>1
    <3>3. CameFrom(current, target, i) < CameFrom(current, target, j)
      BY <2>4, <2>7, <3>2
    <3>4. CameFrom(current, target, i) \in 1..Len(order) /\ CameFrom(current, target, j) \in 1..Len(order)
      BY <2>3, <2>4
    <3>5. QueuedBefore(order[CameFrom(current, target, i)], order[CameFrom(current, target, j)])
      BY <1>4, <3>3, <3>4
    <3>6. new[i] = order[CameFrom(current, target, i)] /\ new[j] = order[CameFrom(current, target, j)]
      BY <2>2, <2>3
    <3> QED BY <3>5, <3>6
  <2>8. ArrangesAll(b, new)
    BY <2>2, <2>3, <2>5, <2>6, <2>7 DEF ArrangesAll
  <2> QED BY <1>0, <2>8
<1> QED BY <1>9, <1>10

LEMMA ReorderKeeps ==
  ASSUME QueueInv, NEW b \in Queued, NEW operation \in Operations, ReorderQueuedBuildQueueItem(b, operation)
  PROVE  /\ QueueInv'
         /\ Range(decided') = Movable
         /\ \A i, j \in DOMAIN decided' : i < j /\ b \notin {decided'[i], decided'[j]} => QueuedBefore(decided'[i], decided'[j])
<1>1. PICK new : new = Arranged(b, operation)
  OBVIOUS
<1>2. /\ b \in Movable /\ decided' = new /\ moves' = moves + 1 /\ UNCHANGED <<state, inserted>>
      /\ item' = [a \in Queued |-> IF a \in Movable THEN [item[a] EXCEPT !.priority = Priority(new, a)] ELSE item[a]]
  BY <1>1 DEF ReorderQueuedBuildQueueItem
<1>3. /\ new \in Seq(Movable)
      /\ \A a \in Movable : \E i \in 1..Len(new) : new[i] = a
      /\ \A i, j \in 1..Len(new) : i # j => new[i] # new[j]
      /\ \A i, j \in 1..Len(new) : i < j /\ b \notin {new[i], new[j]} => QueuedBefore(new[i], new[j])
  <2>1. b \in Movable
    BY <1>2
  <2>2. ArrangesAll(b, Arranged(b, operation))
    BY <2>1, ReorderIs
  <2>3. ArrangesAll(b, new)
    BY <1>1, <2>2
  <2> QED BY <2>3 DEF ArrangesAll
<1>4. /\ Movable \in SUBSET Queued /\ Len(new) \in Nat /\ DOMAIN new = 1..Len(new)
      /\ \A a \in Movable : item[a].status # "none"
  BY <1>3 DEF Movable
<1>5. ASSUME NEW i \in 1..Len(new) PROVE Place(new, new[i]) = i
  <2>1. Place(new, new[i]) \in DOMAIN new /\ new[Place(new, new[i])] = new[i]
    BY <1>4 DEF Place
  <2> QED BY <1>3, <1>4, <2>1
<1>6. ASSUME NEW a \in Movable PROVE Priority(new, a) \in Nat
  <2>1. PICK i \in 1..Len(new) : new[i] = a
    BY <1>3
  <2>2. Place(new, a) = i
    BY <1>5, <2>1
  <2> QED BY <1>4, <2>2 DEF Priority
<1>7. ASSUME NEW a \in Queued
      PROVE  /\ item'[a] \in QueueItem /\ item'[a].status = item[a].status /\ item'[a].id = item[a].id
             /\ a \in Movable => item'[a].priority = Priority(new, a)
  <2>1. item[a] \in QueueItem
    BY DEF QueueInv, QueueTypes
  <2>2. CASE a \in Movable
    <3>1. item'[a] = [item[a] EXCEPT !.priority = Priority(new, a)] /\ Priority(new, a) \in Nat
      BY <1>2, <1>6, <2>2
    <3> QED BY <2>1, <3>1 DEF QueueItem
  <2>3. CASE a \notin Movable
    <3>1. item'[a] = item[a]
      BY <1>2, <2>3
    <3> QED BY <2>1, <2>3, <3>1
  <2> QED BY <2>2, <2>3
<1>8. item' \in [Queued -> QueueItem]
  BY <1>2, <1>7
<1>9. decided' \in Seq(Queued)
  BY <1>2, <1>3, <1>4
<1>10. QueueTypes'
  BY <1>2, <1>8, <1>9 DEF QueueInv, QueueTypes
<1>11. ItemsAreNumbered'
  BY <1>2, <1>7 DEF QueueInv, ItemsAreNumbered
<1>12. DecidedStands'
  <2>1. ASSUME NEW i \in 1..Len(new)
        PROVE  item'[new[i]].status # "none" /\ item'[new[i]].priority = Len(new) + 1 - i
    <3>1. new[i] \in Movable /\ new[i] \in Queued
      BY <1>3, <1>4
    <3>2. item'[new[i]].priority = Priority(new, new[i])
      BY <1>7, <3>1
    <3> QED BY <1>4, <1>5, <1>7, <3>1, <3>2 DEF Priority
  <2> QED BY <1>2, <2>1 DEF DecidedStands
<1>13. Range(decided') = Movable
  <2>1. Range(new) = {new[i] : i \in 1..Len(new)}
    BY <1>4 DEF Range
  <2> QED BY <1>2, <1>3, <2>1
<1>14. RunningHasItem'
  BY <1>2, <1>7 DEF QueueInv, RunningHasItem, ReorderQueuedBuildQueueItem
<1> QED BY <1>2, <1>3, <1>4, <1>10, <1>11, <1>12, <1>13, <1>14 DEF QueueInv

LEMMA QueueKeeps ==
  ASSUME QueueInv, [QueueNext]_queueVars
  PROVE  QueueInv'
<1>1. CASE UNCHANGED queueVars
  BY <1>1 DEF QueueInv, QueueTypes, ItemsAreNumbered, DecidedStands, RunningHasItem, queueVars
<1>2. ASSUME NEW b \in Queued, NEW s \in {"absent", "pending", "pending_approval", "done"},
             state' = [state EXCEPT ![b] = s], UNCHANGED <<item, inserted, moves, decided>>
      PROVE  QueueInv'
  <2>1. /\ item' \in [Queued -> QueueItem] /\ moves' \in Nat
        /\ state \in [Queued -> {"absent", "pending", "pending_approval", "running", "done"}]
    BY <1>2 DEF QueueInv, QueueTypes
  <2>2. /\ state' \in [Queued -> {"absent", "pending", "pending_approval", "running", "done"}]
        /\ state'[b] = s /\ \A a \in Queued : a # b => state'[a] = state[a]
    BY <1>2, <2>1
  <2>3. \A a \in Queued : state'[a] = "running" => state[a] = "running" \/ item[a].status # "none"
    BY <2>2
  <2> QED BY <1>2, <2>1, <2>2, <2>3, StatusesKeep
<1>3. ASSUME NEW b \in Queued, InsertRow(b) PROVE QueueInv'
  <2>1. state' = [state EXCEPT ![b] = "pending"] /\ UNCHANGED <<item, inserted, moves, decided>>
    BY <1>3 DEF InsertRow
  <2> QED BY <1>2, <2>1
<1>4. ASSUME NEW b \in Queued, CreateBuildQueueItem(b) PROVE QueueInv'
  BY <1>4, InsertKeeps
<1>5. ASSUME NEW b \in Queued, HoldQueued(b) PROVE QueueInv'
  <2>1. CASE state' = [state EXCEPT ![b] = "pending_approval"] /\ UNCHANGED item
    <3>1. UNCHANGED <<item, inserted, moves, decided>>
      BY <1>5, <2>1 DEF HoldQueued
    <3> QED BY <1>2, <2>1, <3>1
  <2>2. CASE item[b].status = "queued" /\ item' = [item EXCEPT ![b].status = "pending_approval"] /\ UNCHANGED state
    <3>1. item[b].status # "none" /\ UNCHANGED <<inserted, decided, moves>> /\ state' \in {state, [state EXCEPT ![b] = "pending"]}
      BY <1>5, <2>2 DEF HoldQueued
    <3> QED BY <2>2, <3>1, StatusWritten
  <2> QED BY <1>5, <2>1, <2>2 DEF HoldQueued
<1>6. ASSUME NEW b \in Queued, ReleaseQueued(b) PROVE QueueInv'
  <2>1. CASE UNCHANGED item
    <3>1. state' = [state EXCEPT ![b] = "pending"] /\ UNCHANGED <<item, inserted, moves, decided>>
      BY <1>6, <2>1 DEF ReleaseQueued
    <3> QED BY <1>2, <3>1
  <2>2. CASE item[b].status # "none" /\ item' = [item EXCEPT ![b].status = "queued"]
    <3>1. UNCHANGED <<inserted, decided, moves>> /\ state' \in {state, [state EXCEPT ![b] = "pending"]}
      BY <1>6 DEF ReleaseQueued
    <3> QED BY <2>2, <3>1, StatusWritten
  <2> QED BY <1>6, <2>1, <2>2 DEF ReleaseQueued
<1>7. ASSUME NEW b \in Queued, StartQueued(b) PROVE QueueInv'
  <2>1. /\ item[b].status # "none" /\ item' = [item EXCEPT ![b].status = "running"] /\ UNCHANGED <<inserted, decided, moves>>
        /\ state' \in {state, [state EXCEPT ![b] = "running"]}
    BY <1>7 DEF StartQueued
  <2> QED BY <2>1, StatusWritten
<1>8. ASSUME NEW b \in Queued, EndQueued(b) PROVE QueueInv'
  <2>1. item[b].status # "none" /\ UNCHANGED <<inserted, decided, moves>>
    BY <1>8 DEF EndQueued, QueueInv, RunningHasItem
  <2>2. CASE state' = [state EXCEPT ![b] = "done"] /\ item' = [item EXCEPT ![b].status = "done"]
    <3>1. state' \in {state, [state EXCEPT ![b] = "done"]}
      BY <2>2
    <3> QED BY <2>1, <2>2, <3>1, StatusWritten
  <2>3. CASE state' = [state EXCEPT ![b] = "pending"] /\ item' = [item EXCEPT ![b].status = "queued"]
    <3>1. state' \in {state, [state EXCEPT ![b] = "pending"]}
      BY <2>3
    <3> QED BY <2>1, <2>3, <3>1, StatusWritten
  <2> QED BY <1>8, <2>2, <2>3 DEF EndQueued
<1>9. ASSUME NEW b \in Queued, NEW operation \in Operations, ReorderQueuedBuildQueueItem(b, operation) PROVE QueueInv'
  BY <1>9, ReorderKeeps
<1> QED BY <1>1, <1>3, <1>4, <1>5, <1>6, <1>7, <1>8, <1>9 DEF QueueNext

LEMMA QueueInvHolds == QueueSpec => []QueueInv
<1>1. QueueInit => QueueInv
  <2>1. ASSUME QueueInit PROVE QueueInv
    <3>1. PICK q : q = NoItem
      OBVIOUS
    <3>2. q \in QueueItem /\ q.status = "none"
      BY <3>1 DEF NoItem, QueueItem
    <3>3. item = [b \in Queued |-> q] /\ state = [b \in Queued |-> "absent"] /\ inserted = 0 /\ moves = 0 /\ decided = <<>>
      BY <2>1, <3>1 DEF QueueInit
    <3>4. item \in [Queued -> QueueItem] /\ \A b \in Queued : item[b] = q
      BY <3>2, <3>3
    <3>5. QueueTypes
      BY <3>3, <3>4 DEF QueueTypes
    <3>6. ItemsAreNumbered /\ DecidedStands /\ RunningHasItem
      BY <3>2, <3>3, <3>4 DEF ItemsAreNumbered, DecidedStands, RunningHasItem
    <3> QED BY <3>5, <3>6 DEF QueueInv
  <2> QED BY <2>1
<1>2. QueueInv /\ [QueueNext]_queueVars => QueueInv'
  BY QueueKeeps
<1> QED BY <1>1, <1>2, PTL DEF QueueSpec

LEMMA DecidedGoesFirst == QueueInv => ReorderIsObeyed /\ NewcomersGoLast
<1> SUFFICES ASSUME QueueInv PROVE ReorderIsObeyed /\ NewcomersGoLast
  OBVIOUS
<1>1. decided \in Seq(Queued) /\ Len(decided) \in Nat /\ DOMAIN decided = 1..Len(decided)
  BY DEF QueueInv, QueueTypes
<1>2. \A i \in 1..Len(decided) : item[decided[i]].priority = Len(decided) + 1 - i
  BY DEF QueueInv, DecidedStands
<1>3. ASSUME NEW i \in DOMAIN decided, NEW j \in DOMAIN decided, i < j PROVE DispatchedBefore(decided[i], decided[j])
  BY <1>1, <1>2, <1>3 DEF DispatchedBefore
<1>4. ASSUME NEW a \in Range(decided), NEW b \in Waiting, item[b].priority = 0 PROVE DispatchedBefore(a, b)
  <2>1. PICK i \in DOMAIN decided : decided[i] = a
    BY DEF Range
  <2>2. item[a].priority = Len(decided) + 1 - i
    BY <1>1, <1>2, <2>1
  <2> QED BY <1>1, <1>4, <2>2 DEF DispatchedBefore
<1> QED BY <1>3, <1>4 DEF ReorderIsObeyed, NewcomersGoLast

\* The queue page: what the last reorder arranged is what the dispatcher offers, builds
\* queued since come after it, and a reorder moves one build past the others, which keep
\* their order (ReorderQueuedBuildQueueItem and ListPendingBuilds, which sort otherwise).
THEOREM QueueRunsAsArrangedHolds == QueueSpec => QueueRunsAsArranged
<1>1. QueueInv /\ [QueueNext]_queueVars =>
        [moves' # moves =>
           /\ Range(decided') = Movable
           /\ \E b \in Queued : \A i, j \in DOMAIN decided' :
                 i < j /\ b \notin {decided'[i], decided'[j]} => QueuedBefore(decided'[i], decided'[j])]_queueVars
  <2>1. ASSUME QueueInv, QueueNext, moves' # moves
        PROVE  /\ Range(decided') = Movable
               /\ \E b \in Queued : \A i, j \in DOMAIN decided' :
                     i < j /\ b \notin {decided'[i], decided'[j]} => QueuedBefore(decided'[i], decided'[j])
    <3>1. \E b \in Queued, operation \in Operations : ReorderQueuedBuildQueueItem(b, operation)
      BY <2>1 DEF QueueNext, InsertRow, CreateBuildQueueItem, HoldQueued, ReleaseQueued, StartQueued, EndQueued
    <3>2. PICK b \in Queued, operation \in Operations : ReorderQueuedBuildQueueItem(b, operation)
      BY <3>1
    <3>3. /\ Range(decided') = Movable
          /\ \A i, j \in DOMAIN decided' : i < j /\ b \notin {decided'[i], decided'[j]} => QueuedBefore(decided'[i], decided'[j])
      BY <2>1, <3>2, ReorderKeeps
    <3> QED BY <3>3
  <2> QED BY <2>1
<1> QED BY <1>1, QueueInvHolds, DecidedGoesFirst, PTL DEF QueueSpec, QueueRunsAsArranged, OthersKeepTheirOrder
=============================================================================
