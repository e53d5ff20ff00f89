----------------------------- MODULE Migrations -----------------------------
(***************************************************************************)
(* Opening the database (internal/store/migrations.go): a ledger of the    *)
(* migrations that were applied, one transaction per migration, servers of *)
(* several releases that open the same file, crashes between and within    *)
(* the transactions.                                                       *)
(*                                                                         *)
(* The schema is the set of the tables and columns the migrations are      *)
(* about; what they do to rows is kept where a migration rebuilds or       *)
(* backfills something.                                                    *)
(***************************************************************************)
EXTENDS Naturals, Sequences, FiniteSets, SequencesExt

CONSTANTS
    Servers,     \* processes that open the database
    Binaries,    \* schema versions of the releases they are made of
    OldLedgers,  \* how many migrations a database that is found may have had
    MaxCrashes   \* bound: crashes and failed writes

ASSUME MigrationAssumption == MaxCrashes \in Nat

\* The declarations, version by version.
Migrations ==
    <<"reconcile-current-schema", "project-groups-single-level", "binary-plugins-only",
      "user-session-version", "remove-inert-deployment-and-project-hooks",
      "remove-dead-account-ssh-keys", "repair-orphan-project-history-references",
      "project-favorite-quick-access", "project-pipeline-source", "project-enabled",
      "project-display-order", "project-http-trigger", "build-on-startup",
      "build-release-results", "build-release-identities">>
Latest == Len(Migrations)

\* What a version introduces; the first one declares the columns of all but the last
\* two and of the display order as well.
Introduced(version) ==
    CASE version = 1 -> {"tables"}
      [] version = 4 -> {"session_version"}
      [] version = 8 -> {"favorite"}
      [] version = 9 -> {"pipeline_source"}
      [] version = 10 -> {"enabled"}
      [] version = 11 -> {"display_order"}
      [] version = 12 -> {"http_trigger"}
      [] version = 13 -> {"build_on_startup"}
      [] version = 14 -> {"release_results"}
      [] version = 15 -> {"release_identities"}
      [] OTHER -> {}
Removed(version) ==
    CASE version = 2 -> {"group_parent"}
      [] version = 3 -> {"plugin_scripts"}
      [] version = 5 -> {"deployments"}
      [] version = 6 -> {"ssh_keys"}
      [] OTHER -> {}
IntroducedBy(version) == UNION {Introduced(v) : v \in 1..version}
Legacy == UNION {Removed(v) : v \in 1..Latest}

\* Columns an ALTER of the first migration adds to tables that exist.
Reconciled == {"session_version", "favorite"}
\* Columns its CREATE TABLE IF NOT EXISTS gives a table that does not.
Declared == {"pipeline_source", "enabled", "http_trigger", "build_on_startup"}

VARIABLES
    schema,     \* the tables and columns there are
    ledger,     \* schema_migrations, the names in the order of the versions
    plugins,    \* rows of plugins: "go" binaries and "script"s
    orphans,    \* children of builds and projects that are gone
    places,     \* project_display_order, a function on projects
    server,     \* what each process is doing
    binary,     \* the release it is made of
    applied,    \* how many migrations it believes are applied
    crashes

migrationVars == <<schema, ledger, plugins, orphans, places, server, binary, applied, crashes>>
database == <<schema, ledger, plugins, orphans, places>>

\* Three projects; 2 is a favorite and 1 is in the quick access.
Projects == 1..3
Favorite == {2}
QuickAccess == {1}

\* A file that does not exist yet.
MigrationBlank ==
    /\ schema = {} /\ ledger = <<>> /\ plugins = {} /\ orphans = {} /\ places = <<>>
    /\ server = [s \in Servers |-> "down"]
    /\ binary = [s \in Servers |-> 0]
    /\ applied = [s \in Servers |-> 0]
    /\ crashes = 0

(***************************************************************************)
(* The migrations, as functions of the database.                           *)
(***************************************************************************)
PlacedBefore(p, q) ==
    LET rank(x) == IF x \in Favorite THEN 2 ELSE IF x \in QuickAccess THEN 1 ELSE 0
    IN  rank(p) > rank(q) \/ (rank(p) = rank(q) /\ p > q)

Position(p) == Cardinality({q \in Projects : PlacedBefore(q, p)})

\* The last migration has no guard: a column that exists is an error.
UpFails(version) == version = Latest /\ Introduced(version) \subseteq schema

Reconcile(release) ==
    schema \cup Introduced(1)
           \cup ((IF "tables" \in schema THEN Reconciled ELSE Reconciled \cup Declared)
                    \cap IntroducedBy(release))

Up(version, release) ==
    /\ schema' = IF version = 1 THEN Reconcile(release)
                 ELSE (schema \ Removed(version)) \cup Introduced(version)
    /\ plugins' = IF version = 3 /\ "plugin_scripts" \in schema THEN plugins \ {"script"} ELSE plugins
    /\ orphans' = IF version = 7 THEN {} ELSE orphans
    /\ places' = IF version = 11 THEN [p \in Projects |-> Position(p)] ELSE places

(***************************************************************************)
(* Actions                                                                 *)
(***************************************************************************)
\* The first server finds a database an earlier release left: unversioned or with some
\* migrations, or one of a later release or of a fork.
FindDatabase ==
    /\ schema = {}
    /\ \A s \in Servers : server[s] = "down"
    /\ \E n \in OldLedgers, legacy \in {{}, Legacy}, early \in {{}, Reconciled \cup Declared},
          last \in {"none", "other"} :
        /\ schema' = IntroducedBy(n) \cup {"tables"} \cup early
                        \cup (legacy \ UNION {Removed(v) : v \in 1..n})
        /\ ledger' = SubSeq(Migrations, 1, n) \o (IF last = "none" THEN <<>> ELSE <<last>>)
        /\ plugins' = IF n >= 3 THEN {"go"} ELSE {"go", "script"}
        /\ orphans' = {"queue item", "statistics", "event"}
        /\ places' = IF n >= 11 THEN [p \in Projects |-> Position(p)] ELSE <<>>
    /\ UNCHANGED <<server, binary, applied, crashes>>

\* ensureMigrationLedger; IF NOT EXISTS makes it repeatable.
OpenDatabase(s) ==
    /\ server[s] = "down"
    /\ \E release \in Binaries : binary' = [binary EXCEPT ![s] = release]
    /\ server' = [server EXCEPT ![s] = "opened"]
    /\ UNCHANGED <<database, applied, crashes>>

\* Mutant of Supported: only the number of rows is compared.
SupportedByNumber(release) == Len(ledger) <= release

Supported(release) == IsPrefix(ledger, SubSeq(Migrations, 1, release))

\* appliedMigrationCount
AppliedMigrationCount(s) ==
    /\ server[s] = "opened"
    /\ IF Supported(binary[s])
       THEN /\ server' = [server EXCEPT ![s] = "migrating"]
            /\ applied' = [applied EXCEPT ![s] = Len(ledger)]
       ELSE server' = [server EXCEPT ![s] = "refused"] /\ UNCHANGED applied
    /\ UNCHANGED <<database, binary, crashes>>

\* The migration and its row of the ledger are one transaction.
Committed(version, release) ==
    /\ Up(version, release)
    /\ ledger' = Append(ledger, Migrations[version])

\* applySchemaMigration.  The version is the primary key of the ledger: what another
\* server has recorded meanwhile is not recorded, and so not done, again.
ApplySchemaMigration(s) ==
    LET version == applied[s] + 1
    IN  /\ server[s] = "migrating"
        /\ version <= binary[s]
        /\ ~UpFails(version)
        /\ version = Len(ledger) + 1
        /\ Committed(version, binary[s])
        /\ applied' = [applied EXCEPT ![s] = version]
        /\ UNCHANGED <<server, binary, crashes>>

\* A statement of the migration or the insert of its row fails; the rollback leaves
\* nothing behind and the server ends.
RollbackMigration(s) ==
    LET version == applied[s] + 1
    IN  /\ server[s] = "migrating"
        /\ version <= binary[s]
        /\ UpFails(version) \/ version # Len(ledger) + 1
        /\ server' = [server EXCEPT ![s] = IF version # Len(ledger) + 1 THEN "overtaken" ELSE "stuck"]
        /\ UNCHANGED <<database, binary, applied, crashes>>

Serve(s) ==
    /\ server[s] = "migrating"
    /\ applied[s] = binary[s]
    /\ server' = [server EXCEPT ![s] = "serving"]
    /\ UNCHANGED <<database, binary, applied, crashes>>

\* A crash or an error of the file at any moment, and the end of a server that failed.
EndServer(s) ==
    /\ server[s] # "down"
    /\ crashes < MaxCrashes
    /\ crashes' = crashes + 1
    /\ server' = [server EXCEPT ![s] = "down"]
    /\ applied' = [applied EXCEPT ![s] = 0]
    /\ UNCHANGED <<database, binary>>

MigrationNext ==
    \/ FindDatabase
    \/ \E s \in Servers :
        \/ OpenDatabase(s) \/ AppliedMigrationCount(s) \/ ApplySchemaMigration(s)
        \/ RollbackMigration(s) \/ Serve(s) \/ EndServer(s)

(***************************************************************************)
(* Properties                                                              *)
(***************************************************************************)
\* However a database came to be (created now, found without versions or with some,
\* interrupted, migrated by servers of two releases that raced), what a server serves
\* from has everything its release needs and nothing a migration removed, and the
\* latest schema is always the same.
SchemaConverges ==
    \A s \in Servers :
        server[s] = "serving" =>
            /\ IntroducedBy(binary[s]) \subseteq schema
            /\ schema \cap UNION {Removed(v) : v \in 1..binary[s]} = {}
            /\ Len(ledger) = Latest => schema = IntroducedBy(Latest)

\* No interruption leaves a database the next server cannot open: a migration that has
\* taken effect is never tried again, although the last one could not be repeated.
NeverStuck == \A s \in Servers : server[s] # "stuck"

\* A server changes nothing in a database of a later release or of a fork.
UnknownIsUntouched ==
    [][\A s \in Servers :
           applied'[s] # applied[s] /\ schema' # schema => IsPrefix(ledger, Migrations)]_migrationVars

\* The backfilled display order is total, and favorites come first.
OrderIsBackfilled ==
    places # <<>> =>
        /\ {places[p] : p \in Projects} = 0..(Cardinality(Projects) - 1)
        /\ \A p \in Favorite, q \in Projects \ Favorite : places[p] < places[q]

\* Servers of different releases that open one database, and crash doing it, bring it
\* to the schema they need or leave it alone.
MigrationsConverge ==
    /\ []SchemaConverges
    /\ []NeverStuck
    /\ []OrderIsBackfilled
    /\ UnknownIsUntouched
=============================================================================
