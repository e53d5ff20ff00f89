-------------------------------- MODULE WSHub --------------------------------
(***************************************************************************)
(* The WebSocket hub, internal/ws/hub.go: the loop of Hub.Run, the read    *)
(* and write pumps of every client, and BroadcastToRoom, called by run     *)
(* goroutines.  Every critical section of Hub.mu, every channel operation  *)
(* and every use of the connection is one step.                            *)
(***************************************************************************)
EXTENDS Naturals, FiniteSets

CONSTANTS
    Clients,
    Rooms,
    Queue     \* capacity of a client's send channel

ASSUME HubAssumption == IsFiniteSet(Clients) /\ Queue \in Nat \ {0}

VARIABLES
    conn,        \* "none" before the upgrade, "open" or "closed"
    reader,      \* where readPump stands
    writing,     \* clients whose writePump runs
    hubLoop,     \* what Hub.Run works on, Nobody when it is in its select
    clients,     \* Hub.clients
    rooms,       \* Hub.rooms
    room,        \* Client.room
    send,        \* messages in the send channel
    sendClosed,  \* clients whose send channel is closed
    panicked     \* a goroutine sent on a closed channel: the process is gone

hubVars == <<conn, reader, writing, hubLoop, clients, rooms, room, send, sendClosed, panicked>>

Nobody == [job |-> "select"]
Insert(c) == [job |-> "register", client |-> c]
Remove(c) == [job |-> "unregister", client |-> c]
Subscribe(r) == [at |-> "subscribe", room |-> r]
At(step) == [at |-> step]
SomeRoom == CHOOSE r \in Rooms : TRUE

HubInit ==
    /\ conn = [c \in Clients |-> "none"]
    /\ reader = [c \in Clients |-> At("none")]
    /\ writing = {}
    /\ hubLoop = Nobody
    /\ clients = {}
    /\ rooms = [r \in Rooms |-> {}]
    /\ room = [c \in Clients |-> SomeRoom]
    /\ send = [c \in Clients |-> 0]
    /\ sendClosed = {}
    /\ panicked = FALSE

ReaderGoto(c, step) == reader' = [reader EXCEPT ![c] = step]
CloseConn(c) == conn' = [conn EXCEPT ![c] = "closed"]

(***************************************************************************)
(* HandleWebSocket and Hub.Run.                                            *)
(***************************************************************************)
HandleWebSocket(c, r) ==
    /\ conn[c] = "none"
    /\ conn' = [conn EXCEPT ![c] = "open"]
    /\ room' = [room EXCEPT ![c] = r]
    /\ ReaderGoto(c, At("register"))
    /\ UNCHANGED <<writing, hubLoop, clients, rooms, send, sendClosed, panicked>>

\* The unbuffered send succeeds before the client is in the maps.
ReceiveRegister(c) ==
    /\ hubLoop = Nobody
    /\ reader[c] = At("register")
    /\ hubLoop' = Insert(c)
    /\ ReaderGoto(c, At("read"))
    /\ writing' = writing \cup {c}
    /\ UNCHANGED <<conn, clients, rooms, room, send, sendClosed, panicked>>

InsertClient(c) ==
    /\ hubLoop = Insert(c)
    /\ hubLoop' = Nobody
    /\ clients' = clients \cup {c}
    /\ rooms' = [rooms EXCEPT ![room[c]] = @ \cup {c}]
    /\ UNCHANGED <<conn, reader, writing, room, send, sendClosed, panicked>>

\* The deferred calls of readPump: the send, then the close of the connection.
ReceiveUnregister(c) ==
    /\ hubLoop = Nobody
    /\ reader[c] = At("unregister")
    /\ hubLoop' = Remove(c)
    /\ ReaderGoto(c, At("close"))
    /\ UNCHANGED <<conn, writing, clients, rooms, room, send, sendClosed, panicked>>

\* removeClientLocked for each of `gone`.
RemoveClientsLocked(gone) ==
    LET present == gone \cap clients
    IN  /\ clients' = clients \ present
        /\ rooms' = [r \in Rooms |-> rooms[r] \ {c \in present : room[c] = r}]
        /\ sendClosed' = sendClosed \cup present
        /\ panicked' = (present \cap sendClosed # {})

RemoveClient(c) ==
    /\ hubLoop = Remove(c)
    /\ hubLoop' = Nobody
    /\ RemoveClientsLocked({c})
    /\ UNCHANGED <<conn, reader, writing, room, send>>

(***************************************************************************)
(* BroadcastToRoom: a full channel costs the client its place.  A send on a *)
(* closed channel panics whether or not the channel is full.               *)
(***************************************************************************)
BroadcastToRoom(r) ==
    LET full == {c \in rooms[r] : send[c] = Queue}
    IN  /\ rooms[r] # {}
        /\ IF rooms[r] \cap sendClosed # {}
           THEN panicked' = TRUE /\ UNCHANGED <<clients, rooms, send, sendClosed>>
           ELSE /\ send' = [c \in Clients |-> IF c \in rooms[r] \ full THEN send[c] + 1 ELSE send[c]]
                /\ RemoveClientsLocked(full)
        /\ UNCHANGED <<conn, reader, writing, hubLoop, room>>

(***************************************************************************)
(* The pumps.                                                              *)
(***************************************************************************)
\* The browser goes away, or the network fails.
LoseConnection(c) ==
    /\ conn[c] = "open"
    /\ CloseConn(c)
    /\ UNCHANGED <<reader, writing, hubLoop, clients, rooms, room, send, sendClosed, panicked>>

ReadSubscribe(c, r) ==
    /\ reader[c] = At("read")
    /\ conn[c] = "open"
    /\ ReaderGoto(c, Subscribe(r))
    /\ UNCHANGED <<conn, writing, hubLoop, clients, rooms, room, send, sendClosed, panicked>>

\* The critical section of a subscription; nobody asks whether the client was
\* removed since its message was read.
MoveToRoom(c) ==
    /\ reader[c].at = "subscribe"
    /\ LET r == reader[c].room
       IN  /\ rooms' = [[rooms EXCEPT ![room[c]] = @ \ {c}] EXCEPT ![r] = @ \cup {c}]
           /\ room' = [room EXCEPT ![c] = r]
    /\ ReaderGoto(c, At("read"))
    /\ UNCHANGED <<conn, writing, hubLoop, clients, send, sendClosed, panicked>>

ReadFails(c) ==
    /\ reader[c] = At("read")
    /\ conn[c] = "closed"
    /\ ReaderGoto(c, At("unregister"))
    /\ UNCHANGED <<conn, writing, hubLoop, clients, rooms, room, send, sendClosed, panicked>>

LeaveReadPump(c) ==
    /\ reader[c] = At("close")
    /\ CloseConn(c)
    /\ ReaderGoto(c, At("done"))
    /\ UNCHANGED <<writing, hubLoop, clients, rooms, room, send, sendClosed, panicked>>

WriteMessage(c) ==
    /\ c \in writing
    /\ send[c] > 0
    /\ conn[c] = "open"
    /\ send' = [send EXCEPT ![c] = @ - 1]
    /\ UNCHANGED <<conn, reader, writing, hubLoop, clients, rooms, room, sendClosed, panicked>>

\* Mutant of WriterMayEnd: a write pump that ends leaves the connection to the reader.
WriterNeverEnds(c) == FALSE

\* The channel is closed and drained, or a message or a ping cannot be written.
WriterMayEnd(c) == (c \in sendClosed /\ send[c] = 0) \/ conn[c] = "closed"

LeaveWritePump(c) ==
    /\ c \in writing
    /\ WriterMayEnd(c)
    /\ writing' = writing \ {c}
    /\ CloseConn(c)
    /\ UNCHANGED <<reader, hubLoop, clients, rooms, room, send, sendClosed, panicked>>

ClientStep(c) ==
    \/ ReceiveRegister(c) \/ InsertClient(c) \/ ReceiveUnregister(c) \/ RemoveClient(c)
    \/ MoveToRoom(c) \/ ReadFails(c) \/ LeaveReadPump(c) \/ WriteMessage(c) \/ LeaveWritePump(c)

\* A panic in any goroutine ends the process.
HubNext ==
    /\ ~panicked
    /\ \/ \E r \in Rooms : BroadcastToRoom(r)
       \/ \E c \in Clients : \/ ClientStep(c) \/ LoseConnection(c)
                             \/ \E r \in Rooms : HandleWebSocket(c, r) \/ ReadSubscribe(c, r)

HubSpec == HubInit /\ [][HubNext]_hubVars

\* Goroutines run and the select of Hub.Run is fair to everyone that sends to it;
\* a peer need not read, subscribe or leave.
HubFairness ==
    /\ WF_hubVars(~panicked /\ \E c \in Clients : InsertClient(c) \/ RemoveClient(c))
    /\ \A c \in Clients :
        /\ SF_hubVars(~panicked /\ (ReceiveRegister(c) \/ ReceiveUnregister(c)))
        /\ WF_hubVars(~panicked /\ (MoveToRoom(c) \/ ReadFails(c) \/ LeaveReadPump(c)))
        /\ WF_hubVars(~panicked /\ (WriteMessage(c) \/ LeaveWritePump(c)))

-----------------------------------------------------------------------------
(***************************************************************************)
(* Properties                                                              *)
(***************************************************************************)

\* A client that the hub still knows is in exactly the room it asked for last, and
\* its channel is open: neither a removal by a broadcast that races a disconnect nor
\* a subscription that arrives before the registration breaks the maps apart.
ClientsAreRouted ==
    \A c \in clients : c \notin sendClosed /\ {r \in Rooms : c \in rooms[r]} = {room[c]}

\* A client that was removed never comes back into Hub.clients, so its channel is
\* closed only once.
RemovedForGood == [][\A c \in sendClosed : c \notin clients']_hubVars

\* A slow client, or one whose connection is lost, is dropped by both pumps and by the
\* hub.  (A connection is not opened again: one formula for all clients is as strong as
\* one each.)
GoneIsDropped ==
    []<>(panicked \/ \A c \in Clients :
             conn[c] = "closed" => c \notin clients /\ c \notin writing /\ reader[c] = At("done"))

\* A client is served in the room it asked for until it leaves, and leaves once, with
\* both its pumps.
ClientsLeaveOnce ==
    /\ []ClientsAreRouted
    /\ RemovedForGood
    /\ GoneIsDropped
=============================================================================
