---------------------------- MODULE Notifications ----------------------------
(***************************************************************************)
(* Notification channels, the delivery of build events to them, and the    *)
(* in-app feed with its read marks.                                        *)
(*                                                                         *)
(* SendBuildEvent lists the enabled channels once and delivers to each of  *)
(* them in a goroutine of its own: a row is inserted as pending, the       *)
(* channel is called, the row gets its outcome.  Administrators edit       *)
(* channels meanwhile (a row is read, then written by its identifier), and *)
(* browsers list the feed and move the read mark of their user.            *)
(***************************************************************************)
EXTENDS Naturals, FiniteSets

CONSTANTS
    Sends,           \* calls of SendBuildEvent
    StatusOf,        \* the build status each of them reports
    ChannelEditors,  \* requests of administrators
    Browsers,        \* tabs of the same user
    MaxChannels,     \* bound: channels ever created
    MaxChannelEdits, \* bound: requests that edit a channel
    MaxCrashes       \* bound: restarts of the server

VARIABLES
    channel,    \* rows of notification_channels, a function on identifiers
    channels,   \* AUTOINCREMENT of it
    event,      \* rows of notification_events, in the order of their identifiers
    send,       \* per call: whether it has returned, and its deliveries by channel
    called,     \* history: deliveries a channel has accepted
    channelEditor,     \* what each request has read
    mark,       \* web_notification_reads of the user
    seen,       \* per tab: the largest event it has listed
    channelEdits, crashes

noticeVars == <<channel, channels, event, send, called, channelEditor, mark, seen, channelEdits, crashes>>
editing == <<channel, channels, channelEditor, channelEdits>>
reading == <<mark, seen>>
delivering == <<event, send, called>>

Default == "web"                 \* DefaultWebNotificationChannelName
Conditions == {{}, {"failed"}}   \* statuses; none is every status
Types == {"web", "webhook"}
NoEditor == [op |-> "none", id |-> 0, name |-> "", type |-> "", enabled |-> FALSE]
Idle == [step |-> "idle", delivery |-> <<>>]

\* EnsureDefaultWebNotificationChannel has run.
NoticeInit ==
    /\ channel = [c \in {1} |-> [name |-> Default, type |-> "web", enabled |-> TRUE, statuses |-> {}]]
    /\ channels = 1
    /\ event = <<>> /\ called = {}
    /\ send = [s \in Sends |-> Idle]
    /\ channelEditor = [e \in ChannelEditors |-> NoEditor]
    /\ mark = 0 /\ seen = [b \in Browsers |-> 0]
    /\ channelEdits = 0 /\ crashes = 0

Channels == DOMAIN channel
Web == {c \in Channels : channel[c].type = "web"}

(***************************************************************************)
(* Channels.                                                               *)
(***************************************************************************)
\* createNotificationChannel; names are unique, and a second web channel is refused.
CreateNotificationChannel(name, statuses, enabled) ==
    /\ channels < MaxChannels
    /\ \A c \in Channels : channel[c].name # name
    /\ channels' = channels + 1
    /\ channel' = [c \in Channels \cup {channels + 1} |->
          IF c \in Channels THEN channel[c]
          ELSE [name |-> name, type |-> "webhook", enabled |-> enabled, statuses |-> statuses]]
    /\ UNCHANGED <<channelEditor, channelEdits, delivering, reading, crashes>>

\* What the built-in channel refuses: to be deleted, renamed, disabled or of another type.
Required(c, e) ==
    /\ channel[c].name = Default /\ channel[c].type = "web"
    /\ e.op = "update" => ~e.enabled \/ e.name # Default \/ e.type # "web"

\* UpdateNotificationChannel and DeleteNotificationChannel read the row first.
GetNotificationChannel(e, request) ==
    /\ channelEditor[e] = NoEditor /\ channelEdits < MaxChannelEdits
    /\ channelEdits' = channelEdits + 1
    /\ request.id \in Channels
    /\ channelEditor' = IF Required(request.id, request) THEN channelEditor ELSE [channelEditor EXCEPT ![e] = request]
    /\ UNCHANGED <<channel, channels, delivering, reading, crashes>>

\* Names are unique: an update that takes one fails.
WriteChannel(e) ==
    LET request == channelEditor[e]
        taken == \E c \in Channels \ {request.id} : channel[c].name = request.name
    IN  /\ request # NoEditor
        /\ channelEditor' = [channelEditor EXCEPT ![e] = NoEditor]
        /\ channel' = IF request.id \notin Channels THEN channel
             ELSE IF request.op = "delete" THEN [c \in Channels \ {request.id} |-> channel[c]]
             ELSE IF taken THEN channel
             ELSE [channel EXCEPT ![request.id] = [name |-> request.name, type |-> request.type,
                                  enabled |-> request.enabled, statuses |-> @.statuses]]
        /\ UNCHANGED <<channels, channelEdits, delivering, reading, crashes>>

(***************************************************************************)
(* Deliveries.                                                             *)
(***************************************************************************)
MatchesConditions(c, status) == channel[c].statuses = {} \/ status \in channel[c].statuses

SendBuildEvent(s) ==
    LET targets == {c \in Channels : channel[c].enabled /\ MatchesConditions(c, StatusOf[s])}
    IN  /\ send[s].step = "idle"
        /\ send' = [send EXCEPT ![s] =
               [step |-> "waiting",
                delivery |-> [c \in targets |-> [step |-> "insert", type |-> channel[c].type, event |-> 0]]]]
        /\ UNCHANGED <<editing, event, called, reading, crashes>>

Delivering(s, c, step) ==
    /\ send[s].step = "waiting" /\ c \in DOMAIN send[s].delivery
    /\ send[s].delivery[c].step = step

\* A failed insert ends the delivery.
CreateNotificationEvent(s, c, fails) ==
    LET id == Cardinality(DOMAIN event) + 1
    IN  /\ Delivering(s, c, "insert")
        /\ event' = IF fails THEN event
             ELSE [i \in DOMAIN event \cup {id} |->
                     IF i = id THEN [channel |-> c, send |-> s, status |-> "pending"] ELSE event[i]]
        /\ send' = [send EXCEPT ![s].delivery[c] =
               [step |-> IF fails THEN "unrecorded" ELSE "call", type |-> @.type, event |-> IF fails THEN 0 ELSE id]]
        /\ UNCHANGED <<editing, called, reading, crashes>>

\* The row of a web channel is the delivery; the others are called, and may refuse.
CallChannel(s, c, accepted) ==
    /\ Delivering(s, c, "call")
    /\ send[s].delivery[c].type = "web" => accepted
    /\ called' = IF accepted THEN called \cup {<<s, c>>} ELSE called
    /\ send' = [send EXCEPT ![s].delivery[c].step = IF accepted THEN "accepted" ELSE "refused"]
    /\ UNCHANGED <<editing, event, reading, crashes>>

UpdateNotificationEventStatus(s, c) ==
    /\ \E step \in {"accepted", "refused"} :
        /\ Delivering(s, c, step)
        /\ event' = [event EXCEPT ![send[s].delivery[c].event].status =
                        IF step = "accepted" THEN "delivered" ELSE "failed"]
    /\ send' = [send EXCEPT ![s].delivery[c].step = "recorded"]
    /\ UNCHANGED <<editing, called, reading, crashes>>

\* deliveries.Wait()
AllDelivered(s) == \A c \in DOMAIN send[s].delivery : send[s].delivery[c].step \in {"recorded", "unrecorded"}

SendReturns(s) ==
    /\ send[s].step = "waiting"
    /\ AllDelivered(s)
    /\ send' = [send EXCEPT ![s].step = "returned"]
    /\ UNCHANGED <<editing, event, called, reading, crashes>>

\* Deliveries are not resumed; the next start makes sure of the built-in channel.
Crash ==
    /\ crashes < MaxCrashes
    /\ crashes' = crashes + 1
    /\ send' = [s \in Sends |-> IF send[s].step = "waiting" THEN [send[s] EXCEPT !.step = "lost"] ELSE send[s]]
    /\ channelEditor' = [e \in ChannelEditors |-> NoEditor]
    /\ channel' = [c \in Channels |->
          IF channel[c].name # Default THEN channel[c]
          ELSE [name |-> Default, type |-> "web", enabled |-> TRUE, statuses |-> channel[c].statuses]]
    /\ UNCHANGED <<channels, event, called, reading, channelEdits>>

(***************************************************************************)
(* The feed.                                                               *)
(***************************************************************************)
Feed == {i \in DOMAIN event : event[i].channel \in Web /\ event[i].status = "delivered"}

GetInAppNotificationFeed(b) ==
    /\ Feed # {}
    /\ seen' = [seen EXCEPT ![b] = CHOOSE i \in Feed : \A j \in Feed : j <= i]
    /\ UNCHANGED <<editing, delivering, mark, crashes>>

\* Mutant of Later: the last tab wins.
LaterWrite(old, new) == new

\* ON CONFLICT: the larger of the two marks stays.
Later(old, new) == IF new > old THEN new ELSE old

\* A tab marks what it has listed; an event of a channel that is gone is refused.
MarkInAppNotificationsRead(b) ==
    /\ seen[b] # 0
    /\ mark' = IF event[seen[b]].channel \in Web THEN Later(mark, seen[b]) ELSE mark
    /\ UNCHANGED <<editing, delivering, seen, crashes>>

Requests ==
    [op : {"update"}, id : Channels, name : {Default, "team"}, type : Types, enabled : BOOLEAN]
    \cup [op : {"delete"}, id : Channels, name : {""}, type : {""}, enabled : {FALSE}]

NoticeNext ==
    \/ \E statuses \in Conditions, enabled \in BOOLEAN : CreateNotificationChannel("team", statuses, enabled)
    \/ \E e \in ChannelEditors : (\E request \in Requests : GetNotificationChannel(e, request)) \/ WriteChannel(e)
    \/ \E s \in Sends : SendBuildEvent(s) \/ SendReturns(s)
    \/ \E s \in Sends, c \in 1..channels :
        \/ \E fails \in BOOLEAN : CreateNotificationEvent(s, c, fails)
        \/ \E accepted \in BOOLEAN : CallChannel(s, c, accepted)
        \/ UpdateNotificationEventStatus(s, c)
    \/ Crash
    \/ \E b \in Browsers : GetInAppNotificationFeed(b) \/ MarkInAppNotificationsRead(b)

NoticeSpec == NoticeInit /\ [][NoticeNext]_noticeVars

(***************************************************************************)
(* Properties                                                              *)
(***************************************************************************)
\* "In-app Web notifications are required and must remain enabled": whatever requests
\* overlap and whatever a channel was renamed to, the built-in one is there.
DefaultIsThere ==
    \E c \in Channels : channel[c].name = Default /\ channel[c].type = "web" /\ channel[c].enabled

\* When SendBuildEvent has returned, each of its deliveries has one row, with the outcome
\* the channel gave, whatever the others did; without a row nothing was delivered.
OutcomesAreRecorded ==
    \A s \in DOMAIN send : send[s].step = "returned" =>
        \A c \in DOMAIN send[s].delivery :
            LET ofDelivery == {i \in DOMAIN event : event[i].send = s /\ event[i].channel = c}
            IN  IF send[s].delivery[c].step = "unrecorded" THEN ofDelivery = {} /\ <<s, c>> \notin called
                ELSE /\ Cardinality(ofDelivery) = 1
                     /\ \A i \in ofDelivery : event[i].status = IF <<s, c>> \in called THEN "delivered" ELSE "failed"

\* Of two tabs the slower one makes nothing unread again that was read.
ReadStaysRead == [][mark' >= mark]_noticeVars

\* Notices reach their channels, are on record, and stay read.
NoticesAreKept ==
    /\ []DefaultIsThere
    /\ []OutcomesAreRecorded
    /\ ReadStaysRead
=============================================================================
