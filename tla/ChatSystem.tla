----------------------------- MODULE ChatSystem -----------------------------
(***************************************************************************)
(* One chat room end to end: the devices of ChatRoom, the server of        *)
(* MessageGateway, and between them connections that keep the order of     *)
(* events in each direction until they drop, losing what is in flight.     *)
(***************************************************************************)
EXTENDS ChatRoom

CONSTANTS
    Users, Participants,  \* accounts, and those in the room
    Opened,               \* connections over which a device has the room open
                          \* in the initial state, at most one for each device
    Requests,             \* handlers the server runs at a time
    MaxFaults             \* bound: drops, restarts and failed queries

ASSUME SystemAssumption ==
    /\ Participants \subseteq Users
    /\ None \notin Conns \cup ClientIds
    /\ UserOf \in [Devices -> Users]
    /\ DeviceOf \in [Conns -> Devices]
    /\ Opened \subseteq Conns
    /\ \A c, d \in Opened : DeviceOf[c] = DeviceOf[d] => c = d
    /\ \A c \in Opened : UserOf[DeviceOf[c]] \in Participants
    /\ DrawnBy \in [ClientIds -> Devices]
    /\ MaxTries \in Nat \ {0}
    /\ MaxFaults \in Nat

VARIABLES
    conn, joined, task, rows, clock, receipts, lastRead, out,
    faults                \* how many faults have happened

serverVars == <<conn, joined, task, rows, clock, receipts, lastRead, out>>

vars == <<clientVars, serverVars, faults>>

Owner == [c \in Conns |-> UserOf[DeviceOf[c]]]

\* The server's own environment is not used here: the devices produce its events.
Server == INSTANCE MessageGateway WITH
    ClientEvents <- [c \in Conns |-> {}], MaxQueue <- 0, MaxRows <- 0

Init == InitWith(Opened) /\ Server!InitWith(Opened) /\ faults = 0

-----------------------------------------------------------------------------
(* Steps of the devices *)

\* A device connects with a token of its user; the server puts the connection
\* into user:<id>.
Connected(d, c) == DeviceOf[c] = d /\ LinkUp(d, c) /\ Server!Connect(c)

\* The device finds out that the connection has dropped.
Disconnected(d) ==
    /\ link[d] # None
    /\ conn[link[d]] = "closed"
    /\ LinkDown(d)
    /\ UNCHANGED serverVars

\* GET /chats/:id/messages reads the tables once it has checked participation.
MessagesFetched(d) ==
    /\ UserOf[d] \in Participants
    /\ LoadAnswered(d, Server!GetMessages)
    /\ UNCHANGED serverVars

\* The next event of the connection reaches the device.
Received(d) ==
    /\ link[d] # None
    /\ out[link[d]] # <<>>
    /\ Receive(d, Head(out[link[d]]))
    /\ Server!Take(link[d])

Continue(d) == ContinueSend(d) \/ ContinueNew(d) \/ ContinueRead(d)

\* The optimistic entry takes its time from the device's clock.
Tapped(d, m) ==
    /\ TapSend(d, m, clock + 1)
    /\ clock' = clock + 1
    /\ UNCHANGED <<conn, joined, task, rows, receipts, lastRead, out>>

UserStep(d) == OpenRoom(d) \/ LoadAgain(d) \/ \E m \in ClientIds : Retry(d, m)

DeviceStep(d) ==
    \/ /\ \/ CreateSocket(d) \/ LoadDone(d) \/ Continue(d)
          \/ \E m \in ClientIds : TimerFires(d, m)
          \/ UserStep(d)
       /\ UNCHANGED serverVars
    \/ \E m \in ClientIds : Tapped(d, m)
    \/ \E c \in Conns : Connected(d, c)
    \/ Disconnected(d)
    \/ MessagesFetched(d)
    \/ Received(d)

-----------------------------------------------------------------------------
(* Steps of the server *)

\* The server takes the next event of a connection and starts its handler.
Arrive(c) ==
    LET e == Head(inbox[c]) IN
    /\ inbox[c] # <<>>
    /\ inbox' = [inbox EXCEPT ![c] = Tail(@)]
    /\ \E r \in Requests :
         \/ e.type = "room:join" /\ Server!OnRoomJoin(r, c)
         \/ e.type = "message:send" /\ Server!OnMessageSend(r, c, e.cid)
         \/ e.type = "message:delivered" /\ Server!OnDelivered(r, c, e.row)
         \/ e.type = "chat.read" /\ Server!OnChatRead(r, c, e.row)
    /\ UNCHANGED <<hasSocket, link, sub, view, load, timers, cont, tries, buffer,
                   seen>>

ServerStep ==
    \/ \E c \in Conns : Arrive(c)
    \/ \E r \in Requests : Server!Progress(r) /\ UNCHANGED clientVars

(* Faults *)

FaultStep ==
    \/ /\ \/ \E r \in Requests : Server!Fault(r)
          \/ \E c \in Conns : Server!Disconnect(c)
          \/ Server!Restart
       /\ UNCHANGED clientVars
    \/ \E d \in Devices : LoadFails(d) /\ UNCHANGED serverVars

Next ==
    \/ /\ (\E d \in Devices : DeviceStep(d)) \/ ServerStep
       /\ UNCHANGED faults
    \/ /\ faults < MaxFaults
       /\ FaultStep
       /\ faults' = faults + 1

Spec == Init /\ [][Next]_vars

\* A handler, a continuation and a timer that can go on do so, and an event on a
\* connection that stays up arrives.  Users, drops and failures are not fair.
FairSpec ==
    /\ Spec
    /\ \A d \in Devices :
         /\ WF_vars(Received(d) /\ UNCHANGED faults)
         /\ WF_vars(Continue(d) /\ UNCHANGED <<serverVars, faults>>)
         /\ \A m \in ClientIds :
              WF_vars(TimerFires(d, m) /\ UNCHANGED <<serverVars, faults>>)
    /\ \A c \in Conns : WF_vars(Arrive(c) /\ UNCHANGED faults)
    /\ \A r \in Requests :
         WF_vars(Server!Progress(r) /\ UNCHANGED <<clientVars, faults>>)

-----------------------------------------------------------------------------
(* Properties *)

ClientEvent ==
    [type : {"room:join"}]
    \cup [type : {"message:send"}, cid : ClientIds]
    \cup [type : {"message:delivered", "chat.read"}, row : Nat]

Statuses == {"sending", "sent", "delivered", "read", "failed"}

Entries ==
    [row : Nat, temp : ClientIds \cup {None}, sender : Users, status : Statuses,
     at : Nat, readBy : SUBSET Users]

TypeOK ==
    /\ Server!TypeOK
    /\ hasSocket \in [Devices -> BOOLEAN]
    /\ link \in [Devices -> Conns \cup {None}]
    /\ sub \in [Devices -> {"closed", "waiting", "live"}]
    /\ view \in [Devices -> Seq(Entries)]
    /\ \A d \in Devices : load[d].st \in {"idle", "asked", "answered", "failed"}
    /\ timers \in [Devices -> SUBSET ClientIds]
    /\ tries \in [ClientIds -> 0..MaxTries]
    /\ inbox \in [Conns -> Seq(ClientEvent)]
    /\ buffer \in [Devices -> Seq(ClientEvent)]
    /\ seen \in [Devices -> SUBSET Nat]

Mine(d) == {n \in DOMAIN view[d] : view[d][n].sender = UserOf[d]}

\* The clientMessageId an entry was sent under, as far as anyone knows it.
CidOf(e) == IF e.row # 0 THEN rows[e.row].cid ELSE e.temp

\* A device never shows a message twice: not as a stored message and again as
\* the optimistic entry it began as, whichever of the acknowledgement, the
\* broadcast, the page and a retry's second answer comes first.
ShownOnce ==
    \A d \in Devices : \A k, n \in DOMAIN view[d] :
        /\ view[d][k].sender = view[d][n].sender
        /\ CidOf(view[d][k]) = CidOf(view[d][n])
        => k = n

\* A message shown as sent or delivered is in the messages table, committed,
\* under the id and the sender shown.
SentIsStored ==
    \A d \in Devices : \A n \in DOMAIN view[d] :
        LET e == view[d][n] IN
        e.status \in {"sent", "delivered"} =>
            /\ e.row \in Server!Committed
            /\ rows[e.row].sender = e.sender
            /\ e.temp # None => rows[e.row].cid = e.temp

\* "delivered" means that another participant's device has shown the message.
DeliveredWasShown ==
    \A d \in Devices : \A n \in Mine(d) :
        LET e == view[d][n] IN
        e.status = "delivered" =>
            \E o \in Devices : UserOf[o] # UserOf[d] /\ e.row \in seen[o]

\* Once a device has learned that its message is stored, no timer makes it
\* "failed" or "sending" again, whatever retries were under way.
StoredNeverFails ==
    \A d \in Devices : \A n \in Mine(d) :
        LET e == view[d][n] IN
        e.row # 0 => /\ e.status \notin {"sending", "failed"}
                     /\ e.temp \notin timers[d]

Talk == INSTANCE Conversation WITH
    sent <- {m \in ClientIds : tries[m] # 0},
    stored <- {Server!EntryOf(i) : i \in Server!Committed},
    shown <- seen,
    ticks <- [d \in Devices |->
                {view[d][n].row : n \in {k \in Mine(d) : view[d][k].status = "delivered"}}]

\* The devices and the server together keep what the users are promised: tap,
\* INSERT, list and delivery mark come in this order, each once for a message,
\* although each of them reaches the next over connections that drop, handlers
\* that overlap and retries that are answered late.
KeepsConversation == Talk!Spec

\* A message does not stay "sending": it is acknowledged or becomes "failed".
SendingResolves ==
    \A d \in Devices, m \in ClientIds :
        (\E n \in Mine(d) : view[d][n].temp = m /\ view[d][n].status = "sending")
            ~> ~(\E n \in Mine(d) : /\ view[d][n].temp = m
                                    /\ view[d][n].status = "sending")

\* A message:new written to the connection of a live notifier is shown by its
\* device, unless the connection drops first.
BroadcastIsShown ==
    \A d \in Devices, c \in Conns, i \in 1..Cardinality(ClientIds) :
        (/\ link[d] = c /\ sub[d] = "live"
         /\ \E k \in DOMAIN out[c] : out[c][k].type = "message:new" /\ out[c][k].row = i)
            ~> (i \in seen[d] \/ link[d] # c \/ conn[c] # "open")

-----------------------------------------------------------------------------
(* Claims of the documentation and of comments that the code does not keep *)

\* README.md, line 767: a read is up to lastReadMessageId.  When a chat.read that
\* names a message is applied, nothing newer than that message becomes read.
ReadStopsAtNamed ==
    [][\A d \in Devices :
         LET e == Head(cont[d]) IN
         (cont[d] # <<>> /\ e.type = "chat.read" /\ e.row # 0
            /\ cont'[d] = Tail(cont[d])) =>
             \A n \in DOMAIN view[d] :
                 e.user \in view'[d][n].readBy \ view[d][n].readBy
                     => view[d][n].at <= rows[e.row].at]_vars

\* docs/chat.md, lines 45 to 47: a message received is added to the list.  It
\* does not leave it again.
ReceivedStays ==
    [][\A d \in Devices : Rows(view[d]) \subseteq Rows(view'[d])]_vars

\* lib/core/network/socket_service.dart, lines 18 and 60: onConnect registers
\* the room again.  A device that has the room open and stays connected gets
\* into the server's room.
ConnectedIsJoined ==
    \A d \in Devices, c \in Conns :
        (link[d] = c /\ sub[d] = "live") ~> (c \in joined \/ conn[c] # "open")

=============================================================================
