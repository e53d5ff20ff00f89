-------------------------- MODULE MCAdministration --------------------------
(***************************************************************************)
(* Small instances of the modules about who may do what, what they get to  *)
(* see, and what builds are configured with, in one run: `part` says which *)
(* module a behaviour is of; the variables of the others stay as they are. *)
(* Accounts has an instance with two sessions (people), one with API       *)
(* tokens (tokens) and one with several starts (starts); Notifications one *)
(* with deliveries and two tabs (notices) and one with two administrators  *)
(* (channels).                                                             *)
(***************************************************************************)
EXTENDS Accounts, Notifications, SecretMasker, Variables, Settings, Resources, Plugins, TLC

CONSTANTS c1, c2, e1, e2, a1, b1, b2, s1, s2, w1

Statuses == (s1 :> "failed") @@ (s2 :> "success")
OneStatus == s1 :> "failed"

\* Overlapping, nested, padded and too short values, and a character of two bytes.
SecretValues ==
    {<<"a", "b", "a">>, <<"b", "b">>, <<"a">>, <<"space", "lead", "cont", "a">>, <<"space", "b", "space">>}

\* References in both directions of the alphabet, a cycle, and one to the workspace.
NamesInOrder == <<"A", "B", "C", "R", "WORKSPACE">>
EnteredTexts == {<<"x">>, <<"WORKSPACE">>, <<"B">>, <<"y", "C">>, <<"A", "y">>}
OfProcess == "A" :> <<"sys">>
OfPipeline == "C" :> <<"z">>
OfBuild == ("B" :> <<"p">>) @@ ("C" :> <<"p">>) @@ ("R" :> <<"steam">>)
OfRelease == "R" :> <<"steam">>
WorkspacePath == <<"path">>

\* A host, one it is a suffix of, and the credential for every host.
Hosts == << <<"corp">>, <<"b", "corp">>, <<>> >>
LookedUp == { <<"corp">>, <<"b", "corp">>, <<"x">> }
PipelineConfig(a, x, s) == [approval |-> a, exclusive |-> x, abort |-> x, stages |-> s, triggers |-> <<>>]
OfTemplates == {PipelineConfig("lead", TRUE, <<"t">>), PipelineConfig("", FALSE, <<"t">>)}
OfProjects == {PipelineConfig("", FALSE, <<>>), PipelineConfig("own", FALSE, <<"p">>)}

\* The second version of p takes a step type that q declares.
PluginsInOrder == <<"p", "q">>
DeclaredSteps == [n \in {"p", "q"} |-> IF n = "p" THEN <<{"x"}, {"x", "y"}>> ELSE <<{"y"}, {"z"}>>]

VARIABLE part

Minted == INSTANCE Accounts WITH MaxTokens <- 1, MaxVersion <- 1
Starts == INSTANCE Accounts WITH MaxSessions <- 1, MaxStarts <- 2
Edited == INSTANCE Notifications WITH
    Sends <- {s1}, StatusOf <- OneStatus, ChannelEditors <- {e1, e2}, Browsers <- {b1},
    MaxChannels <- 3, MaxChannelEdits <- 2, MaxCrashes <- 0

accessVars == <<accountVars, noticeVars, maskVars>>
configVars == <<varVars, settingVars, resourceVars, pluginVars>>
vars == <<accessVars, configVars, part>>

Init ==
    /\ part \in {"people", "tokens", "starts", "notices", "channels", "masks",
                 "variables", "settings", "resources", "plugins"}
    /\ AccountsInit /\ MaskInit /\ VarInit /\ SettingInit /\ ResourceInit /\ PluginInit
    /\ IF part = "channels" THEN Edited!NoticeInit ELSE NoticeInit

AccessNext ==
    /\ UNCHANGED configVars
    /\ \/ part = "people" /\ AccountsNext /\ UNCHANGED <<noticeVars, maskVars>>
       \/ part = "tokens" /\ Minted!AccountsNext /\ UNCHANGED <<noticeVars, maskVars>>
       \/ part = "starts" /\ Starts!AccountsNext /\ UNCHANGED <<noticeVars, maskVars>>
       \/ part = "notices" /\ NoticeNext /\ UNCHANGED <<accountVars, maskVars>>
       \/ part = "channels" /\ Edited!NoticeNext /\ UNCHANGED <<accountVars, maskVars>>
       \/ part = "masks" /\ MaskNext /\ UNCHANGED <<accountVars, noticeVars>>

ConfigNext ==
    /\ UNCHANGED accessVars
    /\ \/ part = "variables" /\ VarNext /\ UNCHANGED <<settingVars, resourceVars, pluginVars>>
       \/ part = "settings" /\ SettingNext /\ UNCHANGED <<varVars, resourceVars, pluginVars>>
       \/ part = "resources" /\ ResourceNext /\ UNCHANGED <<varVars, settingVars, pluginVars>>
       \/ part = "plugins" /\ PluginNext /\ UNCHANGED <<varVars, settingVars, resourceVars>>

Next == (AccessNext \/ ConfigNext) /\ UNCHANGED part

Spec == Init /\ [][Next]_vars
=============================================================================
