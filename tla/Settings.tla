------------------------------- MODULE Settings -------------------------------
(***************************************************************************)
(* Global settings: rows of env_vars in the scope "system", the policy the *)
(* running server has made of them, and the cleanup of build logs, which   *)
(* is one of them.                                                         *)
(*                                                                         *)
(* updateGlobalSettings validates a request as a whole and then writes one *)
(* row per setting; it purges logs and reloads the policy when all were    *)
(* written.  The upsert never finds a row of this scope, because it has no *)
(* project: every save adds a row, and what a setting is depends on which  *)
(* of its rows a reader takes.                                             *)
(***************************************************************************)
EXTENDS Naturals, Sequences, FiniteSets, SequencesExt

CONSTANTS
    Admins,              \* requests at a time
    Numbers,             \* values of a setting that are valid
    DefaultNumber,       \* what is in force without a row
    Builds,              \* finished, running and pinned builds
    MaxSettingWrites,    \* bound: requests
    MaxDay,              \* bound: days
    MaxSettingRestarts   \* bound: restarts

\* Valid values are positive.
ASSUME SettingAssumption == Numbers \cup {DefaultNumber} \subseteq Nat \ {0}

VARIABLES
    setting,   \* rows, in the order of their identifiers
    request,   \* per administrator: what is left to be done, and how the last one ended
    policy,    \* local_agent_concurrency, as the server runs with it
    log,       \* per build: when it started and finished, whether it is pinned, its log
    sweep,     \* the periodic cleanup: what it has read
    day,
    shortest,  \* history: the shortest retention there ever was
    settingWrites, settingRestarts

settingVars == <<setting, request, policy, log, sweep, day, shortest, settingWrites, settingRestarts>>

Retention == "build_log_retention_days"
Capacity == "local_agent_concurrency"
SettingNames == {Retention, Capacity}
Invalid == 0
NoRequest == [step |-> "ready", todo |-> {}, values |-> <<>>, answer |-> "ok"]
NoSweep == [step |-> "ready", days |-> 0]

SettingInit ==
    /\ setting = <<>>
    /\ request = [a \in Admins |-> NoRequest]
    /\ policy = DefaultNumber
    /\ log = [b \in Builds |-> [status |-> "pending", started |-> 0, finished |-> 0, pinned |-> FALSE, log |-> "empty", age |-> 0]]
    /\ sweep = NoSweep
    /\ day = 0 /\ shortest = DefaultNumber
    /\ settingWrites = 0 /\ settingRestarts = 0

(***************************************************************************)
(* Readers of a setting.                                                   *)
(***************************************************************************)
RowsNamed(name) == {i \in DOMAIN setting : setting[i].name = name}

\* GetBuildLogRetentionDays and getBuildQueueCapacity stop at the first row.
FirstOf(name) ==
    IF RowsNamed(name) = {} THEN DefaultNumber
    ELSE setting[CHOOSE i \in RowsNamed(name) : \A j \in RowsNamed(name) : i <= j].value

\* getGlobalSettings and ReloadExecutionPolicy go on to the last one.
LastOf(name) ==
    IF RowsNamed(name) = {} THEN DefaultNumber
    ELSE setting[CHOOSE i \in RowsNamed(name) : \A j \in RowsNamed(name) : j <= i].value

\* ApplyStoredSettings, which leaves what config.yaml says without a row.
Applied == LastOf(Capacity)

(***************************************************************************)
(* updateGlobalSettings                                                    *)
(***************************************************************************)
\* Mutant of Accepted: the last setting that is looked at decides.
AcceptedOne(values) == \E name \in DOMAIN values : values[name] # Invalid

Accepted(values) == \A name \in DOMAIN values : values[name] # Invalid

ValidateGlobalSettings(a, values) ==
    /\ request[a].step = "ready"
    /\ settingWrites < MaxSettingWrites
    /\ settingWrites' = settingWrites + 1
    /\ request' = [request EXCEPT ![a] =
           IF Accepted(values)
           THEN [step |-> "write", todo |-> DOMAIN values, values |-> values, answer |-> "none"]
           ELSE [NoRequest EXCEPT !.answer = "refused"]]
    /\ UNCHANGED <<setting, policy, log, sweep, day, shortest, settingRestarts>>

\* In the order of a map, that is in any; a write that fails ends the request.
WriteSetting(a, name, fails) ==
    /\ request[a].step = "write" /\ name \in request[a].todo
    /\ IF fails
       THEN /\ request' = [request EXCEPT ![a] = [NoRequest EXCEPT !.answer = "error"]]
            /\ UNCHANGED <<setting, shortest>>
       ELSE /\ request' = [request EXCEPT ![a].todo = @ \ {name}]
            /\ setting' = Append(setting, [name |-> name, value |-> request[a].values[name]])
            /\ shortest' = IF name = Retention /\ request[a].values[name] < shortest
                           THEN request[a].values[name] ELSE shortest
    /\ UNCHANGED <<policy, log, sweep, day, settingWrites, settingRestarts>>

\* A build is as old as its end is.
Expired(b, days) == log[b].finished + days < day

Marked(row) == [row EXCEPT !.log = "marker", !.age = day - row.finished]

\* PurgeExpiredBuildLogs, one statement.
Purged(days) ==
    [b \in Builds |->
        IF log[b].status = "finished" /\ ~log[b].pinned /\ log[b].log = "text" /\ Expired(b, days)
        THEN Marked(log[b]) ELSE log[b]]

\* With the value of the request.
PurgeAfterWrites(a) ==
    /\ request[a].step = "write" /\ request[a].todo = {}
    /\ request' = [request EXCEPT ![a].step = "reload"]
    /\ log' = IF Retention \in DOMAIN request[a].values THEN Purged(request[a].values[Retention]) ELSE log
    /\ UNCHANGED <<setting, policy, sweep, day, shortest, settingWrites, settingRestarts>>

\* ReloadExecutionPolicy lists the rows ...
ListForReload(a) ==
    /\ request[a].step = "reload"
    /\ request' = [request EXCEPT ![a] = [step |-> "configure", todo |-> {}, answer |-> "none",
                                          values |-> [name \in {Capacity} |-> LastOf(name)]]]
    /\ UNCHANGED <<setting, policy, log, sweep, day, shortest, settingWrites, settingRestarts>>

\* ... and configures what it has read.
ConfigureExecutionPolicy(a) ==
    /\ request[a].step = "configure"
    /\ policy' = request[a].values[Capacity]
    /\ request' = [request EXCEPT ![a] = NoRequest]
    /\ UNCHANGED <<setting, log, sweep, day, shortest, settingWrites, settingRestarts>>

(***************************************************************************)
(* The cleanup, the server and the builds.                                 *)
(***************************************************************************)
\* At the start and every six hours.
GetBuildLogRetentionDays ==
    /\ sweep.step = "ready"
    /\ sweep' = [step |-> "purge", days |-> FirstOf(Retention)]
    /\ UNCHANGED <<setting, request, policy, log, day, shortest, settingWrites, settingRestarts>>

SweepPurges ==
    /\ sweep.step = "purge"
    /\ log' = Purged(sweep.days)
    /\ sweep' = NoSweep
    /\ UNCHANGED <<setting, request, policy, day, shortest, settingWrites, settingRestarts>>

RestartServer ==
    /\ settingRestarts < MaxSettingRestarts
    /\ settingRestarts' = settingRestarts + 1
    /\ request' = [a \in Admins |-> NoRequest]
    /\ policy' = Applied
    /\ sweep' = NoSweep
    /\ UNCHANGED <<setting, log, day, shortest, settingWrites>>

BuildStarts(b) ==
    /\ log[b].status = "pending"
    /\ log' = [log EXCEPT ![b].status = "running", ![b].started = day, ![b].log = "text"]
    /\ UNCHANGED <<setting, request, policy, sweep, day, shortest, settingWrites, settingRestarts>>

BuildFinishes(b, pinned) ==
    /\ log[b].status = "running"
    /\ log' = [log EXCEPT ![b].status = "finished", ![b].finished = day, ![b].pinned = pinned]
    /\ UNCHANGED <<setting, request, policy, sweep, day, shortest, settingWrites, settingRestarts>>

Midnight ==
    /\ day < MaxDay
    /\ day' = day + 1
    /\ UNCHANGED <<setting, request, policy, log, sweep, shortest, settingWrites, settingRestarts>>

SettingNext ==
    \/ \E a \in Admins :
        \/ \E names \in SUBSET SettingNames : \E values \in [names -> Numbers \cup {Invalid}] :
               ValidateGlobalSettings(a, values)
        \/ \E name \in SettingNames, fails \in BOOLEAN : WriteSetting(a, name, fails)
        \/ PurgeAfterWrites(a) \/ ListForReload(a) \/ ConfigureExecutionPolicy(a)
    \/ GetBuildLogRetentionDays \/ SweepPurges \/ RestartServer \/ Midnight
    \/ \E b \in Builds : BuildStarts(b) \/ (\E pinned \in BOOLEAN : BuildFinishes(b, pinned))

SettingSpec == SettingInit /\ [][SettingNext]_settingVars

(***************************************************************************)
(* Properties                                                              *)
(***************************************************************************)
\* A request that was answered with success is in force, also after requests that failed
\* half-way, and after a restart the server runs with what the settings page shows.
AnsweredIsInForce ==
    (\A a \in Admins : request[a].step = "ready" /\ request[a].answer = "ok") => policy = LastOf(Capacity)

\* A request that is refused has changed nothing, not even the settings it names before
\* the invalid one.
RefusedChangesNothing ==
    [][setting' # setting => \A i \in DOMAIN setting' \ DOMAIN setting : setting'[i].value # Invalid]_settingVars

\* However saves, sweeps and restarts interleave, a log is kept for the shortest retention
\* there ever was, counted from the end of its build, and a pinned or running build
\* keeps it.
NothingYoungIsPurged ==
    \A b \in Builds : log[b].log = "marker" =>
        log[b].status = "finished" /\ ~log[b].pinned /\ log[b].age > shortest

\* What an administrator was told is what the server does, to the logs of builds too.
SettingsAreInForce ==
    /\ []AnsweredIsInForce
    /\ []NothingYoungIsPurged
    /\ RefusedChangesNothing
=============================================================================
