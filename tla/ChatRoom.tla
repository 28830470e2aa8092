------------------------------ MODULE ChatRoom ------------------------------
(***************************************************************************)
(* The client half of one chat room: ChatRoomNotifier                      *)
(* (lib/features/chat/providers/chat_room_provider.dart) on each device,   *)
(* with the part of SocketService it uses.  Dart runs one event at a time; *)
(* a handler that awaits AuthStorage.getUserId() goes on later, and those  *)
(* reads of the secure storage are answered in order, so what is left to   *)
(* do after them is a queue (cont).  The server is seen through the events *)
(* given to Receive, the page given to LoadAnswered and the clock: a time  *)
(* is a value of the server's clock, with which the clocks of the devices   *)
(* are taken to agree.                                                     *)
(***************************************************************************)
EXTENDS Integers, Sequences, FiniteSets, Functions

CONSTANTS
    Devices,    \* installations of the app, all showing the same room
    UserOf,     \* the account logged in on a device
    Conns,      \* connections
    DeviceOf,   \* the device that opens a connection
    ClientIds,  \* the uuids drawn for messages
    DrawnBy,    \* the device that draws a uuid
    None,       \* absent id or connection
    MaxTries    \* bound: emissions of one message, the first and its retries

VARIABLES
    hasSocket,  \* SocketService.socket is not null
    link,       \* the connection the socket is connected by, or None
    sub,        \* the notifier: "closed" (not created), "waiting" for onConnect,
                \* or "live" (its handlers are registered)
    view,       \* state.messages
    load,       \* loadMessages: "idle", "asked", "answered" (with a page), "failed"
    timers,     \* _sendTimers
    cont,       \* what waits for AuthStorage.getUserId()
    tries,      \* emissions of each message so far
    inbox,      \* events sent on each connection and not yet taken by the server
    buffer,     \* events the socket keeps while it is not connected
    seen        \* history: the stored messages that a device has ever shown

clientVars ==
    <<hasSocket, link, sub, view, load, timers, cont, tries, inbox, buffer, seen>>

-----------------------------------------------------------------------------
(* The list of messages *)

\* An entry of the list.  row is the server's id, 0 while the message only has
\* its clientMessageId; temp is clientTempId.
Entry(row, temp, sender, status, at, readBy) ==
    [row |-> row, temp |-> temp, sender |-> sender, status |-> status,
     at |-> at, readBy |-> readBy]

\* Message.fromJson: the server always says "sent" and sends no clientTempId.
FromServer(m) == Entry(m.row, None, m.sender, "sent", m.at, m.readers)

\* What sorting a list by createdAt may give.  The order of entries of one time is
\* left open: Dart's sort is stable for short lists only.
Chronological(v) ==
    LET InOrder(p) == \A k, n \in DOMAIN v : k < n => v[p[k]].at <= v[p[n]].at IN
    {[n \in DOMAIN v |-> v[p[n]]] : p \in {q \in Bijection(DOMAIN v, DOMAIN v) : InOrder(q)}}

\* indexWhere: the first of the places in ns.
First(ns) == {n \in ns : \A k \in ns : n <= k}

Rows(v) == {v[n].row : n \in DOMAIN v} \ {0}

Temps(v) == {v[n].temp : n \in DOMAIN v} \ {None}

\* The entries at the places in ns get a new status.
SetStatus(v, ns, status) ==
    [n \in DOMAIN v |-> IF n \in ns THEN [v[n] EXCEPT !.status = status] ELSE v[n]]

Marked(v, m, status) == SetStatus(v, {n \in DOMAIN v : v[n].temp = m}, status)

\* Every change of the list goes through copyWith, which clears errorMessage.
Show(d, v) ==
    /\ view' = [view EXCEPT ![d] = v]
    /\ seen' = [seen EXCEPT ![d] = @ \cup Rows(v)]
    /\ load' = [load EXCEPT ![d].st = IF @ = "failed" THEN "idle" ELSE @]

-----------------------------------------------------------------------------
(* Events to the server *)

JoinEvent == [type |-> "room:join"]
SendEvent(m) == [type |-> "message:send", cid |-> m]
DeliveredEvent(i) == [type |-> "message:delivered", row |-> i]

\* _emitMarkRead names the last entry of the list; 0 is no id, or the
\* clientMessageId of a message that the server has not named yet.
MarkReadEvent(v) ==
    [type |-> "chat.read", row |-> IF v = <<>> THEN 0 ELSE v[Len(v)].row]

\* socket?.emit: sent when connected, kept when not, skipped without a socket.
Emit(d, es) ==
    IF link[d] # None
    THEN /\ inbox' = [inbox EXCEPT ![link[d]] = @ \o es]
         /\ UNCHANGED buffer
    ELSE /\ buffer' = [buffer EXCEPT ![d] = IF hasSocket[d] THEN @ \o es ELSE @]
         /\ UNCHANGED inbox

-----------------------------------------------------------------------------
\* A device whose first connection is in opened has the empty room open already:
\* loaded, joined and read.
InitWith(opened) ==
    LET first == [d \in Devices |-> {c \in opened : DeviceOf[c] = d}]
        Already(d) == first[d] # {} IN
    /\ hasSocket = [d \in Devices |-> Already(d)]
    /\ link \in [Devices -> opened \cup {None}]
    /\ \A d \in Devices : IF Already(d) THEN link[d] \in first[d] ELSE link[d] = None
    /\ sub = [d \in Devices |-> IF Already(d) THEN "live" ELSE "closed"]
    /\ view = [d \in Devices |-> <<>>]
    /\ load = [d \in Devices |-> [st |-> "idle", page |-> <<>>]]
    /\ timers = [d \in Devices |-> {}]
    /\ cont = [d \in Devices |-> <<>>]
    /\ tries = [m \in ClientIds |-> 0]
    /\ inbox = [c \in Conns |-> <<>>]
    /\ buffer = [d \in Devices |-> <<>>]
    /\ seen = [d \in Devices |-> {}]

(* The socket *)

\* SocketService.connect, from MainShell: the Socket object exists from now on.
CreateSocket(d) ==
    /\ ~hasSocket[d]
    /\ hasSocket' = [hasSocket EXCEPT ![d] = TRUE]
    /\ UNCHANGED <<link, sub, view, load, timers, cont, tries, inbox, buffer, seen>>

\* The socket connects, for the first time or again: it sends what it kept and
\* runs the onConnect callbacks.  A notifier has one only while it waits for its
\* first connection.
LinkUp(d, c) ==
    /\ hasSocket[d]
    /\ link[d] = None
    /\ link' = [link EXCEPT ![d] = c]
    /\ inbox' = [inbox EXCEPT
                   ![c] = buffer[d] \o IF sub[d] = "waiting" THEN <<JoinEvent>>
                                                             ELSE <<>>]
    /\ buffer' = [buffer EXCEPT ![d] = <<>>]
    /\ sub' = [sub EXCEPT ![d] = IF @ = "waiting" THEN "live" ELSE @]
    /\ UNCHANGED <<hasSocket, view, load, timers, cont, tries, seen>>

\* The device notices that its connection is gone.  What it had sent and the
\* server had not taken is lost.
LinkDown(d) ==
    /\ link[d] # None
    /\ inbox' = [inbox EXCEPT ![link[d]] = <<>>]
    /\ link' = [link EXCEPT ![d] = None]
    /\ UNCHANGED <<hasSocket, sub, view, load, timers, cont, tries, buffer, seen>>

-----------------------------------------------------------------------------
(* Entering the room, and loadMessages *)

\* The notifier's constructor: loadMessages(), then _subscribeToSocket().
OpenRoom(d) ==
    /\ sub[d] = "closed"
    /\ load' = [load EXCEPT ![d].st = "asked"]
    /\ IF link[d] # None
       THEN /\ sub' = [sub EXCEPT ![d] = "live"]
            /\ Emit(d, <<JoinEvent>>)
       ELSE /\ sub' = [sub EXCEPT ![d] = "waiting"]
            /\ UNCHANGED <<inbox, buffer>>
    /\ UNCHANGED <<hasSocket, link, view, timers, cont, tries, seen>>

LoadAnswered(d, page) ==
    /\ load[d].st = "asked"
    /\ load' = [load EXCEPT ![d] = [st |-> "answered", page |-> page]]
    /\ UNCHANGED <<hasSocket, link, sub, view, timers, cont, tries, inbox, buffer,
                   seen>>

LoadFails(d) ==
    /\ load[d].st \in {"asked", "answered"}
    /\ load' = [load EXCEPT ![d] = [st |-> "failed", page |-> <<>>]]
    /\ UNCHANGED <<hasSocket, link, sub, view, timers, cont, tries, inbox, buffer,
                   seen>>

\* The response replaces the list, in the server's order, and the room is marked
\* as read up to the last entry.
LoadDone(d) ==
    LET v == [n \in DOMAIN load[d].page |-> FromServer(load[d].page[n])] IN
    /\ load[d].st = "answered"
    /\ view' = [view EXCEPT ![d] = v]
    /\ seen' = [seen EXCEPT ![d] = @ \cup Rows(v)]
    /\ load' = [load EXCEPT ![d] = [st |-> "idle", page |-> <<>>]]
    /\ Emit(d, <<MarkReadEvent(v)>>)
    /\ UNCHANGED <<hasSocket, link, sub, timers, cont, tries>>

\* The button of an empty room whose load failed.
LoadAgain(d) ==
    /\ load[d].st = "failed"
    /\ view[d] = <<>>
    /\ load' = [load EXCEPT ![d].st = "asked"]
    /\ UNCHANGED <<hasSocket, link, sub, view, timers, cont, tries, inbox, buffer,
                   seen>>

-----------------------------------------------------------------------------
(* Sending *)

\* The user sends a message: sendMessage up to its await.
TapSend(d, m, now) ==
    /\ sub[d] # "closed"
    /\ DrawnBy[m] = d
    /\ tries[m] = 0
    /\ tries' = [tries EXCEPT ![m] = 1]
    /\ cont' = [cont EXCEPT ![d] =
                  Append(@, [type |-> "send", cid |-> m, at |-> now])]
    /\ UNCHANGED <<hasSocket, link, sub, view, load, timers, inbox, buffer, seen>>

\* A bug: no timer is started.
ContinueSendUntimed(d) ==
    LET k == Head(cont[d]) IN
    /\ cont[d] # <<>>
    /\ k.type = "send"
    /\ Show(d, Append(view[d], Entry(0, k.cid, UserOf[d], "sending", k.at, {})))
    /\ Emit(d, <<SendEvent(k.cid)>>)
    /\ cont' = [cont EXCEPT ![d] = Tail(@)]
    /\ UNCHANGED <<hasSocket, link, sub, tries, timers>>

\* The rest of sendMessage: the optimistic entry, the event, the timer.
ContinueSend(d) ==
    LET k == Head(cont[d])
        status == IF hasSocket[d] THEN "sending" ELSE "failed" IN
    /\ cont[d] # <<>>
    /\ k.type = "send"
    /\ Show(d, Append(view[d], Entry(0, k.cid, UserOf[d], status, k.at, {})))
    /\ Emit(d, <<SendEvent(k.cid)>>)
    /\ timers' = [timers EXCEPT ![d] = IF hasSocket[d] THEN @ \cup {k.cid} ELSE @]
    /\ cont' = [cont EXCEPT ![d] = Tail(@)]
    /\ UNCHANGED <<hasSocket, link, sub, tries>>

\* The retry button of a failed entry that still has its clientTempId.
Retry(d, m) ==
    LET status == IF hasSocket[d] THEN "sending" ELSE "failed" IN
    /\ \E n \in DOMAIN view[d] : view[d][n].temp = m /\ view[d][n].status = "failed"
    /\ tries[m] < MaxTries
    /\ tries' = [tries EXCEPT ![m] = @ + 1]
    /\ Show(d, Marked(view[d], m, status))
    /\ Emit(d, <<SendEvent(m)>>)
    /\ timers' = [timers EXCEPT ![d] = IF hasSocket[d] THEN @ \cup {m} ELSE @ \ {m}]
    /\ UNCHANGED <<hasSocket, link, sub, cont>>

\* Ten seconds without an acknowledgement.
TimerFires(d, m) ==
    /\ m \in timers[d]
    /\ timers' = [timers EXCEPT ![d] = @ \ {m}]
    /\ Show(d, Marked(view[d], m, "failed"))
    /\ UNCHANGED <<hasSocket, link, sub, cont, tries, inbox, buffer>>

-----------------------------------------------------------------------------
(* Receiving *)

Defer(d, e) ==
    /\ cont' = [cont EXCEPT ![d] = Append(@, e)]
    /\ UNCHANGED <<view, seen, load, timers>>

\* A bug: the acknowledgement does not cancel the timer.
OnSentKeepsTimer(d, e) ==
    /\ Show(d, [n \in DOMAIN view[d] |->
                  IF view[d][n].temp = e.cid
                  THEN [view[d][n] EXCEPT !.row = e.row, !.status = "sent"]
                  ELSE view[d][n]])
    /\ UNCHANGED <<cont, timers>>

\* A bug: the entry keeps its clientMessageId for an id.
OnSentKeepsId(d, e) ==
    /\ timers' = [timers EXCEPT ![d] = @ \ {e.cid}]
    /\ view' = [view EXCEPT ![d] = [n \in DOMAIN view[d] |->
                  IF view[d][n].temp = e.cid
                  THEN [view[d][n] EXCEPT !.row = e.cid, !.status = "sent"]
                  ELSE view[d][n]]]
    /\ UNCHANGED <<cont, seen, load>>

\* message:status "sent": the acknowledgement of a message:send.
OnSent(d, e) ==
    /\ timers' = [timers EXCEPT ![d] = @ \ {e.cid}]
    /\ Show(d, [n \in DOMAIN view[d] |->
                  IF view[d][n].temp = e.cid
                  THEN [view[d][n] EXCEPT !.row = e.row, !.status = "sent"]
                  ELSE view[d][n]])
    /\ UNCHANGED cont

OnDelivered(d, e) ==
    /\ LET v == view[d]
           these == {n \in DOMAIN v : v[n].row = e.row /\ v[n].status # "read"} IN
       Show(d, SetStatus(v, these, "delivered"))
    /\ UNCHANGED <<cont, timers>>

\* A bug: message:new is acknowledged as it arrives, before the await.
ReceiveAcknowledges(d, e) ==
    /\ CASE sub[d] = "live" /\ e.type \in {"message:new", "chat.read"} -> Defer(d, e)
         [] sub[d] = "live" /\ e.type = "sent" -> OnSent(d, e)
         [] sub[d] = "live" /\ e.type = "delivered" -> OnDelivered(d, e)
         [] OTHER -> UNCHANGED <<view, seen, load, timers, cont>>
    /\ IF sub[d] = "live" /\ e.type = "message:new" /\ e.sender # UserOf[d]
       THEN Emit(d, <<DeliveredEvent(e.row)>>)
       ELSE UNCHANGED <<inbox, buffer>>
    /\ UNCHANGED <<hasSocket, link, sub, tries>>

\* The handlers of an event e.  Without a live notifier, and for "read" and
\* "error", there are none.
Receive(d, e) ==
    /\ CASE sub[d] = "live" /\ e.type \in {"message:new", "chat.read"} -> Defer(d, e)
         [] sub[d] = "live" /\ e.type = "sent" -> OnSent(d, e)
         [] sub[d] = "live" /\ e.type = "delivered" -> OnDelivered(d, e)
         [] OTHER -> UNCHANGED <<view, seen, load, timers, cont>>
    /\ UNCHANGED <<hasSocket, link, sub, tries, inbox, buffer>>

\* A bug: a message is added whether or not the list has it.
ContinueNewAlwaysAdds(d) ==
    LET e == Head(cont[d])
        v == view[d]
        fromMe == e.sender = UserOf[d]
        mine == IF fromMe THEN {n \in DOMAIN v : v[n].temp = e.cid} ELSE {} IN
    /\ cont[d] # <<>>
    /\ e.type = "message:new"
    /\ \/ /\ \E n \in First(mine) :
               \E w \in Chronological([v EXCEPT ![n] = FromServer(e)]) : Show(d, w)
          /\ UNCHANGED <<inbox, buffer>>
       \/ /\ mine = {}
          /\ \E w \in Chronological(Append(v, FromServer(e))) :
               /\ Show(d, w)
               /\ IF fromMe THEN UNCHANGED <<inbox, buffer>>
                            ELSE Emit(d, <<DeliveredEvent(e.row), MarkReadEvent(w)>>)
    /\ cont' = [cont EXCEPT ![d] = Tail(@)]
    /\ UNCHANGED <<hasSocket, link, sub, timers, tries>>

\* A bug: the handler is done once it has looked for the optimistic entry.
ContinueNewReplacesOnly(d) ==
    LET e == Head(cont[d])
        v == view[d]
        mine == {n \in DOMAIN v : v[n].temp = e.cid} IN
    /\ cont[d] # <<>>
    /\ e.type = "message:new"
    /\ \/ /\ mine = {}
          /\ UNCHANGED <<view, seen, load>>
       \/ \E n \in First(mine) :
             \E w \in Chronological([v EXCEPT ![n] = FromServer(e)]) : Show(d, w)
    /\ cont' = [cont EXCEPT ![d] = Tail(@)]
    /\ UNCHANGED <<hasSocket, link, sub, timers, tries, inbox, buffer>>

\* message:new once the device knows whose message it is.  The sender's own
\* optimistic entry is replaced; otherwise a message not in the list is added,
\* and one of another user is acknowledged and marked as read.
ContinueNew(d) ==
    LET e == Head(cont[d])
        v == view[d]
        fromMe == e.sender = UserOf[d]
        mine == IF fromMe THEN {n \in DOMAIN v : v[n].temp = e.cid} ELSE {} IN
    /\ cont[d] # <<>>
    /\ e.type = "message:new"
    /\ \/ /\ \E n \in First(mine) :
               \E w \in Chronological([v EXCEPT ![n] = FromServer(e)]) : Show(d, w)
          /\ UNCHANGED <<inbox, buffer>>
       \/ /\ mine = {} /\ e.row \in Rows(v)
          /\ UNCHANGED <<view, seen, load, inbox, buffer>>
       \/ /\ mine = {} /\ e.row \notin Rows(v)
          /\ \E w \in Chronological(Append(v, FromServer(e))) :
               /\ Show(d, w)
               /\ IF fromMe THEN UNCHANGED <<inbox, buffer>>
                            ELSE Emit(d, <<DeliveredEvent(e.row), MarkReadEvent(w)>>)
    /\ cont' = [cont EXCEPT ![d] = Tail(@)]
    /\ UNCHANGED <<hasSocket, link, sub, timers, tries>>

\* chat.read once the device knows it is another user's: everything of mine
\* created by readAt and not yet read by that user.
ContinueRead(d) ==
    LET e == Head(cont[d])
        v == view[d]
        Covered(x) == /\ x.sender = UserOf[d]
                      /\ x.at <= e.at
                      /\ e.user \notin x.readBy IN
    /\ cont[d] # <<>>
    /\ e.type = "chat.read"
    /\ IF e.user = UserOf[d]
       THEN UNCHANGED <<view, seen, load>>
       ELSE Show(d, [n \in DOMAIN v |->
                       IF Covered(v[n])
                       THEN [v[n] EXCEPT !.status = "read",
                                         !.readBy = @ \cup {e.user}]
                       ELSE v[n]])
    /\ cont' = [cont EXCEPT ![d] = Tail(@)]
    /\ UNCHANGED <<hasSocket, link, sub, timers, tries, inbox, buffer>>

=============================================================================
