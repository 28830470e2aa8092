-------------------------- MODULE ChatSystemProofs --------------------------
(***************************************************************************)
(* The chat end to end, for any number of users, devices, connections,     *)
(* messages and handlers.  Every safety invariant that the chat runs check *)
(* follows from ChatInv, which says of everything under way between two    *)
(* lists of messages (a queued event, a handler, a page, a continuation, a *)
(* timer) what the sender of it knew.                                      *)
(***************************************************************************)
EXTENDS ChatRoomProofs

-----------------------------------------------------------------------------
(* The inductive invariant *)

\* What may wait for AuthStorage.getUserId().
Deferred ==
    [type : {"send"}, cid : ClientIds, at : Nat]
    \cup {e \in Gateway!Event : e.type \in {"message:new", "chat.read"}}

Load == [st : {"idle", "asked", "answered", "failed"}, page : Seq(PageRow)]

ClientTypes ==
    /\ hasSocket \in [Devices -> BOOLEAN]
    /\ link \in [Devices -> Conns \cup {None}]
    /\ sub \in [Devices -> {"closed", "waiting", "live"}]
    /\ view \in [Devices -> Seq(Entries)]
    /\ load \in [Devices -> Load]
    /\ timers \in [Devices -> SUBSET ClientIds]
    /\ cont \in [Devices -> Seq(Deferred)]
    /\ tries \in [ClientIds -> 0..MaxTries]
    /\ inbox \in [Conns -> Seq(ClientEvent)]
    /\ buffer \in [Devices -> Seq(ClientEvent)]
    /\ seen \in [Devices -> SUBSET Nat]

LinksOK == \A d \in Devices : link[d] # None => DeviceOf[link[d]] = d

\* A message whose sendMessage has been called and has not gone on.
Pending(m) ==
    \E n \in DOMAIN cont[DrawnBy[m]] :
        cont[DrawnBy[m]][n].type = "send" /\ cont[DrawnBy[m]][n].cid = m

\* The message has been emitted by its device.
Emitted(m) == tries[m] # 0 /\ ~Pending(m)

ShownByOther(i) == \E o \in Devices : UserOf[o] # rows[i].sender /\ i \in seen[o]

\* An entry without a row is one that its own device has emitted; an entry with
\* one shows that row, and no timer runs for it.
EntryOK(d, x) ==
    /\ x.temp # None => /\ x.sender = UserOf[d]
                        /\ DrawnBy[x.temp] = d
                        /\ Emitted(x.temp)
    /\ x.row = 0 => x.temp # None /\ x.status \in {"sending", "failed", "read"}
    /\ x.row # 0 => /\ x.row \in Gateway!Committed
                    /\ rows[x.row].sender = x.sender
                    /\ x.temp # None => rows[x.row].cid = x.temp
                    /\ x.temp \notin timers[d]
                    /\ x.status \in {"sent", "delivered", "read"}
    /\ x.status = "delivered" => ShownByOther(x.row)

NoneTwice(v) ==
    \A k, n \in DOMAIN v :
        v[k].sender = v[n].sender /\ CidOf(v[k]) = CidOf(v[n]) => k = n

GoodView(d, v) ==
    /\ v \in Seq(Entries)
    /\ \A n \in DOMAIN v : EntryOK(d, v[n])
    /\ NoneTwice(v)

ViewsOK == \A d \in Devices : GoodView(d, view[d])

\* A message:new names a stored message, with its sender and its key.
NewsOK(e) ==
    e.type = "message:new" => /\ e.row \in Gateway!Committed
                              /\ rows[e.row].sender = e.sender
                              /\ rows[e.row].cid = e.cid

EventOK(e) ==
    /\ NewsOK(e)
    /\ e.type = "delivered" => e.row \in Gateway!Committed /\ ShownByOther(e.row)

QueuesOK == \A c \in Conns : \A n \in DOMAIN out[c] : EventOK(out[c][n])

\* A sendMessage that waits is the first of its message, and there is only one.
GoodCont(d, q) ==
    /\ q \in Seq(Deferred)
    /\ \A n \in DOMAIN q :
         /\ q[n].type = "send" => DrawnBy[q[n].cid] = d /\ tries[q[n].cid] # 0
         /\ NewsOK(q[n])
    /\ \A k, n \in DOMAIN q :
         q[k].type = "send" /\ q[n].type = "send" /\ q[k].cid = q[n].cid => k = n

ContOK == \A d \in Devices : GoodCont(d, cont[d])

\* What a device has sent.
SaidOK(d, e) ==
    /\ e.type = "message:send" => DrawnBy[e.cid] = d /\ Emitted(e.cid)
    /\ e.type = "message:delivered" => e.row \in seen[d]

SaidsOK ==
    /\ \A c \in Conns : \A n \in DOMAIN inbox[c] : SaidOK(DeviceOf[c], inbox[c][n])
    /\ \A d \in Devices : \A n \in DOMAIN buffer[d] : SaidOK(d, buffer[d][n])

\* The same of the handlers that have taken it.
HandlerOK(r) ==
    /\ task[r].pc \in Gateway!SendPcs =>
         DrawnBy[task[r].cid] = DeviceOf[task[r].conn] /\ Emitted(task[r].cid)
    /\ task[r].pc = "delivered" => task[r].row \in seen[DeviceOf[task[r].conn]]

HandlersOK == \A r \in Requests : HandlerOK(r)

\* A message was stored for the user of the device that drew its key.
RowsOK ==
    \A i \in DOMAIN rows :
        rows[i].sender = UserOf[DrawnBy[rows[i].cid]] /\ Emitted(rows[i].cid)

PagesOK == \A d \in Devices : load[d].st = "answered" => PageOK(load[d].page)

ClientInv ==
    /\ ClientTypes /\ LinksOK /\ ViewsOK /\ ContOK /\ SaidsOK /\ PagesOK

TrafficInv == QueuesOK /\ HandlersOK /\ RowsOK

ChatInv == Gateway!LedgerInv /\ ClientInv /\ TrafficInv

-----------------------------------------------------------------------------
(* The server's side: every step of the chat is one that its proofs allow *)

LEMMA ClockType ==
    ASSUME Gateway!LedgerInv
    PROVE  clock \in Nat
  BY DEF Gateway!LedgerInv, Gateway!SendInv, Gateway!TypeOK

LEMMA ArriveIsStep ==
    ASSUME ClientTypes, NEW c \in Conns, Arrive(c)
    PROVE  \E r \in Requests : Gateway!AnyArrival(r, c)
  <1>. DEFINE e == Head(inbox[c])
  <1>1. e \in ClientEvent
    BY DEF ClientTypes, Arrive
  <1>2. /\ e.type = "message:send" => e.cid \in ClientIds
        /\ e.type \in {"chat.read", "message:delivered"} => e.row \in Nat
    BY <1>1 DEF ClientEvent
  <1>. HIDE DEF e
  <1>3. PICK r \in Requests :
          \/ e.type = "room:join" /\ Server!OnRoomJoin(r, c)
          \/ e.type = "message:send" /\ Server!OnMessageSend(r, c, e.cid)
          \/ e.type = "message:delivered" /\ Server!OnDelivered(r, c, e.row)
          \/ e.type = "chat.read" /\ Server!OnChatRead(r, c, e.row)
    BY DEF Arrive, e
  <1>4. CASE e.type = "room:join" /\ Server!OnRoomJoin(r, c)
    BY <1>4, SameArrivals DEF Gateway!AnyArrival
  <1>5. CASE e.type = "message:send" /\ Server!OnMessageSend(r, c, e.cid)
    <2>1. Gateway!OnMessageSend(r, c, e.cid)
      BY <1>5, SameArrivals
    <2>. QED BY <1>2, <1>5, <2>1 DEF Gateway!AnyArrival
  <1>6. CASE e.type = "message:delivered" /\ Server!OnDelivered(r, c, e.row)
    <2>1. Gateway!OnDelivered(r, c, e.row)
      BY <1>6, SameArrivals
    <2>. QED BY <1>2, <1>6, <2>1 DEF Gateway!AnyArrival
  <1>7. CASE e.type = "chat.read" /\ Server!OnChatRead(r, c, e.row)
    <2>1. Gateway!OnChatRead(r, c, e.row)
      BY <1>7, SameArrivals
    <2>. QED BY <1>2, <1>7, <2>1 DEF Gateway!AnyArrival
  <1>. QED BY <1>3, <1>4, <1>5, <1>6, <1>7

\* A step of a device is one of its connection, time passing, or none at all.
LEMMA DeviceStepServer ==
    ASSUME Gateway!LedgerInv, ClientTypes, NEW d \in Devices, DeviceStep(d)
    PROVE  [Gateway!Step]_Gateway!vars
  <1>. USE DEF Gateway!vars, serverVars
  <1>1. CASE UNCHANGED serverVars
    BY <1>1
  <1>2. ASSUME NEW m \in ClientIds, Tapped(d, m)
        PROVE  Gateway!Step
    <2>1. Gateway!Tick
      BY <1>2, ClockType DEF Tapped, Gateway!Tick
    <2>. QED BY <2>1 DEF Gateway!Step
  <1>3. ASSUME NEW c \in Conns, Connected(d, c)
        PROVE  Gateway!Step
    BY <1>3, SameConnections DEF Connected, Gateway!Step
  <1>4. CASE Received(d)
    <2>1. link[d] \in Conns /\ Server!Take(link[d])
      BY <1>4 DEF ClientTypes, Received
    <2>2. Gateway!Take(link[d])
      BY <2>1, SameConnections
    <2>. QED BY <2>1, <2>2 DEF Gateway!Step
  <1>. QED BY <1>1, <1>2, <1>3, <1>4 DEF DeviceStep, Disconnected, MessagesFetched

LEMMA SystemStepServer ==
    ASSUME Gateway!LedgerInv, ClientTypes, [Next]_vars
    PROVE  [Gateway!Step]_Gateway!vars
  <1>1. CASE UNCHANGED vars
    BY <1>1 DEF vars, serverVars, Gateway!vars
  <1>2. ASSUME NEW c \in Conns, Arrive(c)
        PROVE  Gateway!Step
    BY <1>2, ArriveIsStep DEF Gateway!Step
  <1>3. ASSUME NEW r \in Requests, Server!Progress(r) \/ Server!Fault(r)
        PROVE  Gateway!Step
    BY <1>3, SameHandlers DEF Gateway!Step
  <1>4. ASSUME NEW c \in Conns, Server!Disconnect(c)
        PROVE  Gateway!Step
    BY <1>4, SameConnections DEF Gateway!Step
  <1>5. CASE Server!Restart
    <2>1. Gateway!Restart
      BY <1>5, SameConnections
    <2>. QED BY <2>1 DEF Gateway!Step
  <1>6. CASE UNCHANGED serverVars
    BY <1>6 DEF serverVars, Gateway!vars
  <1>. QED BY <1>1, <1>2, <1>3, <1>4, <1>5, <1>6, DeviceStepServer
           DEF Next, ServerStep, FaultStep

LEMMA ServerKeeps ==
    ASSUME Gateway!LedgerInv, [Gateway!Step]_Gateway!vars
    PROVE  Gateway!LedgerInv'
  <1>1. Gateway!SendInv'
    BY GatewayUsable, Gateway!SendInvStep DEF Gateway!SendInvStep, Gateway!LedgerInv
  <1>2. Gateway!ReadInv'
    BY GatewayUsable, Gateway!ReadInvStep DEF Gateway!ReadInvStep, Gateway!LedgerInv
  <1>3. Gateway!ToldIsStored'
    BY GatewayUsable, Gateway!ToldIsStoredStep DEF Gateway!ToldIsStoredStep, Gateway!LedgerInv
  <1>. QED BY <1>1, <1>2, <1>3 DEF Gateway!LedgerInv

-----------------------------------------------------------------------------
(* The initial states *)

LEMMA ChatInit == Init => ChatInv
  <1>. SUFFICES ASSUME Init PROVE ChatInv
    OBVIOUS
  <1>. USE SystemAssumption DEF SystemAssumption
  <1>1. Gateway!InitWith(Opened)
    BY DEF Init, Server!InitWith, Gateway!InitWith, Server!Idle, Gateway!Idle
  <1>2. Gateway!LedgerInv
    <2>1. \A c \in Opened : Owner[c] \in Participants
      BY DEF Owner
    <2>2. Gateway!SendInv
      BY <1>1, GatewayUsable, Gateway!InitWithInv DEF Gateway!InitWithInv
    <2>3. Gateway!ReadInv /\ Gateway!ToldIsStored
      BY <1>1, <2>1, GatewayUsable, Gateway!ReadInvInitWith DEF Gateway!ReadInvInitWith
    <2>. QED BY <2>2, <2>3 DEF Gateway!LedgerInv
  <1>3. /\ hasSocket \in [Devices -> BOOLEAN]
        /\ link \in [Devices -> Conns \cup {None}]
        /\ sub \in [Devices -> {"closed", "waiting", "live"}]
        /\ \A d \in Devices : link[d] # None => DeviceOf[link[d]] = d
    BY DEF Init, InitWith
  <1>4. /\ view = [d \in Devices |-> <<>>]
        /\ load = [d \in Devices |-> [st |-> "idle", page |-> <<>>]]
        /\ timers = [d \in Devices |-> {}]
        /\ cont = [d \in Devices |-> <<>>]
        /\ tries = [m \in ClientIds |-> 0]
        /\ inbox = [c \in Conns |-> <<>>]
        /\ buffer = [d \in Devices |-> <<>>]
        /\ seen = [d \in Devices |-> {}]
    BY DEF Init, InitWith
  <1>5. ClientTypes
    BY <1>3, <1>4 DEF ClientTypes, Load
  <1>6. LinksOK /\ ViewsOK /\ ContOK /\ SaidsOK /\ PagesOK
    BY <1>3, <1>4 DEF LinksOK, ViewsOK, GoodView, NoneTwice, ContOK, GoodCont, SaidsOK, PagesOK
  <1>7. TrafficInv
    <2>1. /\ out = [c \in Conns |-> <<>>] /\ rows = <<>>
          /\ \A r \in Requests : task[r].pc = "idle"
      BY <1>1 DEF Gateway!InitWith, Gateway!Idle
    <2>. QED BY <2>1 DEF TrafficInv, QueuesOK, HandlersOK, HandlerOK, RowsOK, Gateway!SendPcs
  <1>. QED BY <1>2, <1>5, <1>6, <1>7 DEF ChatInv, ClientInv

-----------------------------------------------------------------------------
(* What no step takes back *)

RowsKept ==
    \A i \in Gateway!Committed : i \in Gateway!Committed' /\ rows'[i] = rows[i]

EmittedKept == \A m \in ClientIds : Emitted(m) => Emitted(m)'

SeenKept == \A d \in Devices : seen[d] \subseteq seen'[d]

TriesKept == \A m \in ClientIds : tries[m] # 0 => tries'[m] # 0

Kept == RowsKept /\ EmittedKept /\ SeenKept /\ TriesKept

LEMMA CommittedKept ==
    ASSUME Gateway!LedgerInv, [Gateway!Step]_Gateway!vars
    PROVE  RowsKept
  BY GatewayUsable, Gateway!CommittedStays
     DEF Gateway!CommittedStays, RowsKept, Gateway!LedgerInv

\* Committed rows are rows.
LEMMA CommittedRow ==
    ASSUME Gateway!LedgerInv, NEW i \in Gateway!Committed
    PROVE  /\ i \in DOMAIN rows /\ i \in Nat \ {0}
           /\ rows[i] \in Gateway!Row
           /\ rows[i].sender \in Users /\ rows[i].cid \in ClientIds
           /\ rows[i].state = "committed"
  <1>1. rows \in Seq(Gateway!Row) /\ i \in DOMAIN rows /\ rows[i].state = "committed"
    BY DEF Gateway!LedgerInv, Gateway!SendInv, Gateway!TypeOK, Gateway!Committed
  <1>2. rows[i] \in Gateway!Row /\ i \in Nat \ {0}
    BY <1>1
  <1>. QED BY <1>1, <1>2 DEF Gateway!Row

LEMMA ShownStays ==
    ASSUME RowsKept, SeenKept, NEW i \in Gateway!Committed, ShownByOther(i)
    PROVE  ShownByOther(i)'
  BY DEF RowsKept, SeenKept, ShownByOther

LEMMA EntryFields ==
    ASSUME NEW x \in Entries
    PROVE  /\ x.row \in Nat /\ x.temp \in ClientIds \cup {None} /\ x.sender \in Users
           /\ x.status \in Statuses /\ x.at \in Nat /\ x.readBy \in SUBSET Users
  BY DEF Entries

LEMMA NoneIsNoId == None \notin ClientIds /\ None \notin Conns
  BY SystemAssumption DEF SystemAssumption

LEMMA EntryStays ==
    ASSUME Kept, NEW d \in Devices, NEW x \in Entries, EntryOK(d, x),
           x.row # 0 => x.temp \notin timers'[d]
    PROVE  EntryOK(d, x)'
  <1>1. x.temp # None => x.temp \in ClientIds
    BY EntryFields
  <1>2. x.row # 0 => /\ x.row \in Gateway!Committed /\ x.row \in Gateway!Committed'
                     /\ rows'[x.row] = rows[x.row]
    BY DEF EntryOK, Kept, RowsKept
  <1>3. x.status = "delivered" => ShownByOther(x.row)'
    BY <1>2, ShownStays DEF EntryOK, Kept
  <1>. QED BY <1>1, <1>2, <1>3 DEF EntryOK, Kept, EmittedKept

LEMMA NoneTwiceStays ==
    ASSUME RowsKept, NEW v, NoneTwice(v),
           \A n \in DOMAIN v : v[n].row = 0 \/ v[n].row \in Gateway!Committed
    PROVE  NoneTwice(v)'
  <1>1. ASSUME NEW n \in DOMAIN v
        PROVE  CidOf(v[n])' = CidOf(v[n])
    BY DEF RowsKept, CidOf
  <1>. QED BY <1>1 DEF NoneTwice

LEMMA GoodStays ==
    ASSUME Kept, NEW d \in Devices, NEW v, GoodView(d, v), timers'[d] \subseteq timers[d]
    PROVE  GoodView(d, v)'
  <1>1. ASSUME NEW n \in DOMAIN v
        PROVE  EntryOK(d, v[n])' /\ (v[n].row = 0 \/ v[n].row \in Gateway!Committed)
    <2>1. v[n] \in Entries /\ EntryOK(d, v[n])
      BY DEF GoodView
    <2>2. v[n].row # 0 => v[n].temp \notin timers'[d] /\ v[n].row \in Gateway!Committed
      BY <2>1 DEF EntryOK
    <2>. QED BY <2>1, <2>2, EntryStays
  <1>. QED BY <1>1, NoneTwiceStays DEF GoodView, Kept

\* A list that does not change.
LEMMA ViewStays ==
    ASSUME Kept, ViewsOK, NEW d \in Devices, view'[d] = view[d],
           timers'[d] \subseteq timers[d]
    PROVE  GoodView(d, view[d])'
  <1>1. PICK v : v = view[d]
    OBVIOUS
  <1>2. GoodView(d, v)'
    BY <1>1, GoodStays DEF ViewsOK
  <1>. QED BY <1>1, <1>2

LEMMA NewsStays ==
    ASSUME RowsKept, NEW e, NewsOK(e)
    PROVE  NewsOK(e)'
  BY DEF RowsKept, NewsOK

LEMMA EventStays ==
    ASSUME Kept, NEW e, EventOK(e)
    PROVE  EventOK(e)'
  BY NewsStays, ShownStays DEF EventOK, Kept, RowsKept

LEMMA SaidStays ==
    ASSUME Kept, NEW d \in Devices, NEW e \in ClientEvent, SaidOK(d, e)
    PROVE  SaidOK(d, e)'
  <1>1. e.type = "message:send" => e.cid \in ClientIds
    BY DEF ClientEvent
  <1>. QED BY <1>1 DEF SaidOK, Kept, EmittedKept, SeenKept

\* A page shows committed messages, and those do not change.
LEMMA PageStays ==
    ASSUME RowsKept, NEW p, PageOK(p)
    PROVE  PageOK(p)'
  BY DEF RowsKept, PageOK

-----------------------------------------------------------------------------
(* What is under way, after any step *)

LEMMA TaskFields ==
    ASSUME Gateway!LedgerInv, NEW r \in Requests
    PROVE  /\ task[r].pc # "idle" =>
                /\ task[r].conn \in Conns
                /\ DeviceOf[task[r].conn] \in Devices
                /\ Gateway!User(r) = UserOf[DeviceOf[task[r].conn]]
           /\ task[r].pc \in Gateway!SendPcs => task[r].cid \in ClientIds
           /\ task[r].pc = "respond" => Gateway!Holding(r, "committed")
  BY SystemAssumption
     DEF Gateway!LedgerInv, Gateway!SendInv, Gateway!TaskOK, Gateway!User, Owner, SystemAssumption

LEMMA QueuesStep ==
    ASSUME ChatInv, [Gateway!Step]_Gateway!vars, Kept
    PROVE  QueuesOK'
  <1>. SUFFICES ASSUME NEW c \in Conns, NEW n \in DOMAIN out'[c], NEW e, e = out'[c][n]
                PROVE  EventOK(e)'
    BY DEF QueuesOK, EventOK, NewsOK, ShownByOther
  <1>2. e \in Gateway!Queued(c)'
    BY DEF Gateway!Queued
  <1>3. \/ e \in Gateway!Queued(c) \cup {Gateway!ErrorEvent}
        \/ \E r \in Requests : Gateway!SendRespond(r) /\ Gateway!ToldOfSend(r, c, e)
        \/ \E r \in Requests : Gateway!Delivered(r) /\ Gateway!ToldOfDelivery(r, c, e)
        \/ \E r \in Requests : Gateway!ReadAnnounce(r) /\ Gateway!ToldOfRead(r, c, e)
    BY <1>2, GatewayUsable, Gateway!News
       DEF Gateway!News, ChatInv, Gateway!LedgerInv
  <1>4. EventOK(e)
    <2>1. CASE e \in Gateway!Queued(c)
      BY <2>1 DEF ChatInv, TrafficInv, QueuesOK, Gateway!Queued
    <2>2. CASE e = Gateway!ErrorEvent
      BY <2>2 DEF Gateway!ErrorEvent, EventOK, NewsOK
    <2>3. ASSUME NEW r \in Requests, Gateway!SendRespond(r), Gateway!ToldOfSend(r, c, e)
          PROVE  EventOK(e)
      <3>1. /\ task[r].row \in Gateway!Committed
            /\ rows[task[r].row].cid = task[r].cid
        BY <2>3, TaskFields DEF Gateway!SendRespond, Gateway!At, Gateway!Holding,
                                Gateway!Committed, ChatInv
      <3>. QED BY <2>3, <3>1 DEF Gateway!ToldOfSend, Gateway!NewEvent, Gateway!SentEvent,
                                 EventOK, NewsOK
    <2>4. ASSUME NEW r \in Requests, Gateway!Delivered(r), Gateway!ToldOfDelivery(r, c, e)
          PROVE  EventOK(e)
      <3>1. /\ task[r].row \in seen[DeviceOf[task[r].conn]]
            /\ DeviceOf[task[r].conn] \in Devices
            /\ Gateway!User(r) = UserOf[DeviceOf[task[r].conn]]
        BY <2>4, TaskFields
           DEF Gateway!Delivered, Gateway!At, ChatInv, TrafficInv, HandlersOK, HandlerOK
      <3>2. ShownByOther(task[r].row)
        BY <2>4, <3>1 DEF Gateway!ToldOfDelivery, ShownByOther
      <3>. QED BY <2>4, <3>2
               DEF Gateway!ToldOfDelivery, Gateway!DeliveredEvent, EventOK, NewsOK
    <2>5. ASSUME NEW r \in Requests, Gateway!ToldOfRead(r, c, e)
          PROVE  EventOK(e)
      BY <2>5 DEF Gateway!ToldOfRead, Gateway!ChatReadEvent, Gateway!ReadStatus,
                  EventOK, NewsOK
    <2>. QED BY <1>3, <2>1, <2>2, <2>3, <2>4, <2>5
  <1>. QED BY <1>4, EventStays

LEMMA RowsStep ==
    ASSUME ChatInv, [Gateway!Step]_Gateway!vars, Kept
    PROVE  RowsOK'
  <1>. SUFFICES ASSUME NEW i \in DOMAIN rows', NEW m, m = rows'[i].cid
                PROVE  rows'[i].sender = UserOf[DrawnBy[m]] /\ Emitted(m)'
    BY DEF RowsOK, Emitted, Pending
  <1>1. \/ i \in DOMAIN rows /\ Gateway!SameKey(rows'[i], rows[i])
        \/ \E r \in Requests : /\ Gateway!At(r, "insert")
                               /\ rows'[i].sender = Gateway!User(r)
                               /\ rows'[i].cid = task[r].cid
    BY GatewayUsable, Gateway!RowChange DEF Gateway!RowChange, ChatInv, Gateway!LedgerInv
  <1>2. CASE i \in DOMAIN rows /\ Gateway!SameKey(rows'[i], rows[i])
    <2>1. rows[i].cid \in ClientIds
      <3>1. rows \in Seq(Gateway!Row)
        BY DEF ChatInv, Gateway!LedgerInv, Gateway!SendInv, Gateway!TypeOK
      <3>2. rows[i] \in Gateway!Row
        BY <1>2, <3>1
      <3>. QED BY <3>2 DEF Gateway!Row
    <2>2. rows[i].sender = UserOf[DrawnBy[rows[i].cid]] /\ Emitted(rows[i].cid)
      BY <1>2 DEF ChatInv, TrafficInv, RowsOK
    <2>3. m = rows[i].cid /\ rows'[i].sender = rows[i].sender
      BY <1>2 DEF Gateway!SameKey
    <2>. QED BY <2>1, <2>2, <2>3 DEF Kept, EmittedKept
  <1>3. ASSUME NEW r \in Requests, Gateway!At(r, "insert"),
               rows'[i].sender = Gateway!User(r), rows'[i].cid = task[r].cid
        PROVE  rows'[i].sender = UserOf[DrawnBy[m]] /\ Emitted(m)'
    <2>1. task[r].pc \in Gateway!SendPcs /\ task[r].pc # "idle"
      BY <1>3 DEF Gateway!At, Gateway!SendPcs
    <2>2. /\ Gateway!User(r) = UserOf[DrawnBy[task[r].cid]]
          /\ task[r].cid \in ClientIds
          /\ Emitted(task[r].cid)
      BY <2>1, TaskFields DEF ChatInv, TrafficInv, HandlersOK, HandlerOK
    <2>. QED BY <1>3, <2>2 DEF Kept, EmittedKept
  <1>. QED BY <1>1, <1>2, <1>3

\* A handler that goes on is still about what its device has said.
LEMMA HandlerStays ==
    ASSUME ChatInv, Kept, NEW r \in Requests,
           task'[r] = task[r] \/ task'[r] = Gateway!Idle \/ Gateway!GoesOn(r)
    PROVE  HandlerOK(r)'
  <1>. SUFFICES ASSUME NEW m, m = task'[r].cid
                PROVE  /\ task'[r].pc \in Gateway!SendPcs =>
                            DrawnBy[m] = DeviceOf[task'[r].conn] /\ Emitted(m)'
                       /\ task'[r].pc = "delivered" =>
                            task'[r].row \in seen'[DeviceOf[task'[r].conn]]
    BY DEF HandlerOK, Gateway!SendPcs, Emitted, Pending
  <1>1. ASSUME task[r].pc \in Gateway!SendPcs
        PROVE  /\ DrawnBy[task[r].cid] = DeviceOf[task[r].conn]
               /\ task[r].cid \in ClientIds
               /\ Emitted(task[r].cid)
    BY <1>1, TaskFields DEF ChatInv, TrafficInv, HandlersOK, HandlerOK
  <1>2. ASSUME task[r].pc \in Gateway!SendPcs, task'[r].cid = task[r].cid
        PROVE  Emitted(m)'
    BY <1>1, <1>2 DEF Kept, EmittedKept
  <1>3. CASE task'[r] = task[r]
    <2>1. task[r].pc = "delivered" => task[r].row \in seen'[DeviceOf[task[r].conn]]
      BY TaskFields DEF ChatInv, TrafficInv, HandlersOK, HandlerOK, Kept, SeenKept
    <2>. QED BY <1>1, <1>2, <1>3, <2>1
  <1>4. CASE task'[r] = Gateway!Idle
    BY <1>4 DEF Gateway!Idle, Gateway!SendPcs
  <1>5. CASE Gateway!GoesOn(r)
    <2>1. task'[r].pc \in Gateway!SendPcs \cup {"delivered"} =>
            /\ task[r].pc \in Gateway!SendPcs
            /\ task'[r].pc \in Gateway!SendPcs
            /\ task'[r].conn = task[r].conn
            /\ task'[r].cid = task[r].cid
      BY <1>5, GatewayUsable, Gateway!SendGoesOn
         DEF Gateway!SendGoesOn, ChatInv, Gateway!LedgerInv
    <2>2. "delivered" \notin Gateway!SendPcs
      BY DEF Gateway!SendPcs
    <2>. QED BY <1>1, <1>2, <2>1, <2>2
  <1>. QED BY <1>3, <1>4, <1>5

LEMMA ContStays ==
    ASSUME Kept, NEW d \in Devices, NEW q, GoodCont(d, q)
    PROVE  GoodCont(d, q)'
  <1>1. ASSUME NEW n \in DOMAIN q
        PROVE  /\ q[n].type = "send" => DrawnBy[q[n].cid] = d /\ tries'[q[n].cid] # 0
               /\ NewsOK(q[n])'
    <2>1. q[n] \in Deferred
      BY DEF GoodCont
    <2>2. q[n].type = "send" => q[n].cid \in ClientIds
      BY <2>1 DEF Deferred
    <2>. QED BY <2>2, NewsStays DEF GoodCont, Kept, TriesKept
  <1>. QED BY <1>1 DEF GoodCont

\* Nothing new waits.
LEMMA ContSame ==
    ASSUME ChatInv, Kept, cont' = cont
    PROVE  ContOK' /\ cont' \in [Devices -> Seq(Deferred)]
  <1>1. ASSUME NEW d \in Devices
        PROVE  GoodCont(d, cont[d])'
    <2>1. PICK q : q = cont[d]
      OBVIOUS
    <2>2. GoodCont(d, q)'
      BY <2>1, ContStays DEF ChatInv, ClientInv, ContOK
    <2>. QED BY <2>1, <2>2
  <1>. QED BY <1>1 DEF ContOK, ChatInv, ClientInv, ClientTypes

\* A page that was answered stays until it is shown.
LEMMA PagesStep ==
    ASSUME ChatInv, RowsKept,
           \A d \in Devices : load'[d].st = "answered" =>
               load[d].st = "answered" /\ load'[d].page = load[d].page
    PROVE  PagesOK'
  <1>1. ASSUME NEW d \in Devices, load'[d].st = "answered"
        PROVE  PageOK(load[d].page)'
    <2>1. PICK p : p = load[d].page
      OBVIOUS
    <2>2. PageOK(p)'
      BY <1>1, <2>1, PageStays DEF ChatInv, ClientInv, PagesOK
    <2>. QED BY <1>1, <2>1, <2>2
  <1>. QED BY <1>1 DEF PagesOK

LEMMA NothingShown ==
    ASSUME ChatInv, Kept, view' = view, \A d \in Devices : timers'[d] \subseteq timers[d]
    PROVE  ViewsOK' /\ view' \in [Devices -> Seq(Entries)]
  <1>1. \A d \in Devices : GoodView(d, view[d])'
    BY ViewStays DEF ChatInv, ClientInv
  <1>. QED BY <1>1 DEF ViewsOK, ChatInv, ClientInv, ClientTypes

-----------------------------------------------------------------------------
(* The steps of the server *)

\* What is sent and not yet taken becomes less.
LEMMA SaidsStay ==
    ASSUME ChatInv, Kept, inbox' \in [Conns -> Seq(ClientEvent)],
           \A c \in Conns : \A n \in DOMAIN inbox'[c] :
               \E k \in DOMAIN inbox[c] : inbox'[c][n] = inbox[c][k],
           buffer' = buffer
    PROVE  SaidsOK'
  <1>1. ASSUME NEW c \in Conns, NEW n \in DOMAIN inbox'[c], NEW e, e = inbox'[c][n]
        PROVE  SaidOK(DeviceOf[c], e)'
    <2>1. e \in ClientEvent /\ DeviceOf[c] \in Devices
      BY <1>1, SystemAssumption DEF SystemAssumption
    <2>2. SaidOK(DeviceOf[c], e)
      BY <1>1 DEF ChatInv, ClientInv, SaidsOK
    <2>3. PICK d \in Devices : d = DeviceOf[c]
      BY <2>1
    <2>. QED BY <2>1, <2>2, <2>3, SaidStays
  <1>2. ASSUME NEW d \in Devices, NEW n \in DOMAIN buffer[d], NEW e, e = buffer[d][n]
        PROVE  SaidOK(d, e)'
    <2>1. e \in ClientEvent /\ SaidOK(d, e)
      BY <1>2 DEF ChatInv, ClientInv, ClientTypes, SaidsOK
    <2>. QED BY <2>1, SaidStays
  <1>. QED BY <1>1, <1>2 DEF SaidsOK, SaidOK, Emitted, Pending

\* A step of the server, which may take an event from a device.
LEMMA ClientStays ==
    ASSUME ChatInv, RowsKept, inbox' \in [Conns -> Seq(ClientEvent)],
           \A c \in Conns : \A n \in DOMAIN inbox'[c] :
               \E k \in DOMAIN inbox[c] : inbox'[c][n] = inbox[c][k],
           UNCHANGED <<hasSocket, link, sub, view, load, timers, cont, tries, buffer, seen>>
    PROVE  Kept /\ ClientInv'
  <1>1. Kept
    BY DEF Kept, EmittedKept, SeenKept, TriesKept, Emitted, Pending
  <1>2. ClientTypes' /\ LinksOK'
    BY DEF ChatInv, ClientInv, ClientTypes, LinksOK
  <1>3. ViewsOK' /\ ContOK' /\ PagesOK'
    BY <1>1, NothingShown, ContSame, PagesStep DEF Kept
  <1>4. SaidsOK'
    BY <1>1, SaidsStay
  <1>. QED BY <1>1, <1>2, <1>3, <1>4 DEF ClientInv

LEMMA ServerHandlers ==
    ASSUME ChatInv, UNCHANGED clientVars,
           \/ \E r \in Requests : Server!Progress(r) \/ Server!Fault(r)
           \/ \E c \in Conns : Server!Disconnect(c)
           \/ Server!Restart
    PROVE  ChatInv'
  <1>1. [Gateway!Step]_Gateway!vars
    BY SameHandlers, SameConnections DEF Gateway!Step
  <1>2. Gateway!LedgerInv' /\ RowsKept
    BY <1>1, ServerKeeps, CommittedKept DEF ChatInv
  <1>3. Kept /\ ClientInv'
    <2>1. /\ UNCHANGED <<hasSocket, link, sub, view, load, timers, cont, tries, buffer, seen>>
          /\ inbox' = inbox
      BY DEF clientVars
    <2>2. inbox \in [Conns -> Seq(ClientEvent)]
      BY DEF ChatInv, ClientInv, ClientTypes
    <2>. QED BY <1>2, <2>1, <2>2, ClientStays
  <1>4. ASSUME NEW r \in Requests
        PROVE  \/ task'[r] = task[r] \/ task'[r] = Gateway!Idle
               \/ Gateway!GoesOn(r)
    <2>1. ASSUME NEW s \in Requests, Gateway!Handler(s)
          PROVE  \/ task'[r] = task[r] \/ task'[r] = Gateway!Idle
                 \/ Gateway!GoesOn(r)
      BY <2>1, GatewayUsable, Gateway!HandlerChange
         DEF Gateway!HandlerChange, ChatInv, Gateway!LedgerInv
    <2>2. CASE \E c \in Conns : Server!Disconnect(c)
      BY <2>2 DEF Server!Disconnect
    <2>3. CASE Server!Restart
      BY <2>3 DEF Server!Restart, Server!Idle, Gateway!Idle
    <2>. QED BY <2>1, <2>2, <2>3, SameHandlers
  <1>5. QueuesOK' /\ RowsOK'
    BY <1>1, <1>3, QueuesStep, RowsStep
  <1>6. HandlersOK'
    BY <1>3, <1>4, HandlerStays DEF HandlersOK
  <1>. QED BY <1>2, <1>3, <1>5, <1>6 DEF ChatInv, TrafficInv

LEMMA ServerArrive ==
    ASSUME ChatInv, NEW c \in Conns, Arrive(c)
    PROVE  ChatInv'
  <1>0. PICK e : e = Head(inbox[c])
    OBVIOUS
  <1>1. [Gateway!Step]_Gateway!vars
    BY ArriveIsStep DEF Gateway!Step, ChatInv, ClientInv
  <1>2. Gateway!LedgerInv' /\ RowsKept
    BY <1>1, ServerKeeps, CommittedKept DEF ChatInv
  <1>3. /\ inbox \in [Conns -> Seq(ClientEvent)] /\ inbox[c] # <<>>
        /\ inbox' = [inbox EXCEPT ![c] = Tail(@)]
    BY DEF Arrive, ChatInv, ClientInv, ClientTypes
  <1>4. /\ inbox' \in [Conns -> Seq(ClientEvent)]
        /\ \A b \in Conns : \A n \in DOMAIN inbox'[b] :
               \E k \in DOMAIN inbox[b] : inbox'[b][n] = inbox[b][k]
    <2>1. ASSUME NEW n \in DOMAIN Tail(inbox[c])
          PROVE  n + 1 \in DOMAIN inbox[c] /\ Tail(inbox[c])[n] = inbox[c][n + 1]
      BY <1>3
    <2>2. inbox' \in [Conns -> Seq(ClientEvent)]
      BY <1>3
    <2>. QED BY <1>3, <2>1, <2>2
  <1>5. Kept /\ ClientInv'
    BY <1>2, <1>4, ClientStays DEF Arrive
  <1>6. QueuesOK' /\ RowsOK'
    BY <1>1, <1>5, QueuesStep, RowsStep
  <1>7. HandlersOK'
    <2>1. SaidOK(DeviceOf[c], e) /\ DeviceOf[c] \in Devices /\ e \in ClientEvent
      <3>1. 1 \in DOMAIN inbox[c] /\ e = inbox[c][1] /\ e \in ClientEvent
        BY <1>0, <1>3
      <3>. QED BY <3>1, SystemAssumption DEF ChatInv, ClientInv, SaidsOK, SystemAssumption
    <2>2. task \in [Requests -> Gateway!Task]
      BY DEF ChatInv, Gateway!LedgerInv, Gateway!SendInv, Gateway!TypeOK
    <2>. DEFINE Started(r) ==
           /\ \A s \in Requests \ {r} : task'[s] = task[s]
           /\ task'[r].conn = c
           /\ task'[r].pc \in Gateway!SendPcs =>
                  e.type = "message:send" /\ task'[r].cid = e.cid
           /\ task'[r].pc = "delivered" => e.type = "message:delivered" /\ task'[r].row = e.row
    <2>3. PICK r \in Requests :
            \/ e.type = "room:join" /\ Server!OnRoomJoin(r, c)
            \/ e.type = "message:send" /\ Server!OnMessageSend(r, c, e.cid)
            \/ e.type = "message:delivered" /\ Server!OnDelivered(r, c, e.row)
            \/ e.type = "chat.read" /\ Server!OnChatRead(r, c, e.row)
      BY <1>0 DEF Arrive
    <2>4. ASSUME e.type = "room:join", Server!OnRoomJoin(r, c)
          PROVE  Started(r)
      <3>. DEFINE t == [Server!Idle EXCEPT !.pc = "join", !.conn = c]
      <3>1. task' = [task EXCEPT ![r] = t]
        BY <2>4 DEF Server!OnRoomJoin, Server!Start
      <3>2. t.pc = "join" /\ t.conn = c
        BY DEF Server!Idle
      <3>. HIDE DEF t
      <3>. QED BY <2>2, <2>4, <3>1, <3>2 DEF Gateway!SendPcs
    <2>5. ASSUME e.type = "message:send", Server!OnMessageSend(r, c, e.cid)
          PROVE  Started(r)
      <3>. DEFINE t == [Server!Idle EXCEPT !.pc = "lookup", !.conn = c, !.cid = e.cid]
      <3>1. task' = [task EXCEPT ![r] = t]
        BY <2>5 DEF Server!OnMessageSend, Server!Start
      <3>2. t.pc = "lookup" /\ t.conn = c /\ t.cid = e.cid
        BY DEF Server!Idle
      <3>. HIDE DEF t
      <3>. QED BY <2>2, <2>5, <3>1, <3>2 DEF Gateway!SendPcs
    <2>6. ASSUME e.type = "message:delivered", Server!OnDelivered(r, c, e.row)
          PROVE  Started(r)
      <3>. DEFINE t == [Server!Idle EXCEPT !.pc = "delivered", !.conn = c, !.row = e.row]
      <3>1. task' = [task EXCEPT ![r] = t]
        BY <2>6 DEF Server!OnDelivered, Server!Start
      <3>2. t.pc = "delivered" /\ t.conn = c /\ t.row = e.row
        BY DEF Server!Idle
      <3>. HIDE DEF t
      <3>. QED BY <2>2, <2>6, <3>1, <3>2 DEF Gateway!SendPcs
    <2>7. ASSUME e.type = "chat.read", Server!OnChatRead(r, c, e.row)
          PROVE  Started(r)
      <3>. DEFINE t == [Server!Idle EXCEPT !.pc = "member", !.conn = c, !.row = e.row]
      <3>1. task' = [task EXCEPT ![r] = t]
        BY <2>7 DEF Server!OnChatRead, Server!Start
      <3>2. t.pc = "member" /\ t.conn = c
        BY DEF Server!Idle
      <3>. HIDE DEF t
      <3>. QED BY <2>2, <2>7, <3>1, <3>2 DEF Gateway!SendPcs
    <2>8. Started(r)
      <3>. HIDE DEF Started
      <3>. QED BY <2>3, <2>4, <2>5, <2>6, <2>7
    <2>9. HandlerOK(r)'
      <3>1. task'[r].pc \in Gateway!SendPcs => e.cid \in ClientIds
        BY <2>1, <2>8 DEF ClientEvent
      <3>2. /\ task'[r].pc \in Gateway!SendPcs =>
                 DrawnBy[e.cid] = DeviceOf[c] /\ Emitted(e.cid)'
            /\ task'[r].pc = "delivered" => e.row \in seen'[DeviceOf[c]]
        BY <1>5, <2>1, <2>8, <3>1 DEF SaidOK, Kept, EmittedKept, SeenKept
      <3>. QED BY <2>8, <3>2 DEF HandlerOK, Gateway!SendPcs, Emitted, Pending
    <2>10. \A s \in Requests \ {r} : HandlerOK(s)'
      BY <1>5, <2>8, HandlerStays
    <2>. QED BY <2>9, <2>10 DEF HandlersOK
  <1>. QED BY <1>2, <1>5, <1>6, <1>7 DEF ChatInv, TrafficInv

-----------------------------------------------------------------------------
(* What the steps of a device have in common *)

\* The handlers and the tables are not touched: what is under way stays right.
LEMMA DeviceTraffic ==
    ASSUME ChatInv, [Gateway!Step]_Gateway!vars, Kept, task' = task
    PROVE  TrafficInv'
  BY QueuesStep, RowsStep, HandlerStays DEF TrafficInv, HandlersOK

LEMMA NothingTapped ==
    ASSUME cont' = cont, tries' = tries
    PROVE  EmittedKept /\ TriesKept
  BY DEF EmittedKept, TriesKept, Emitted, Pending

LEMMA DeferredFields ==
    ASSUME NEW k \in Deferred
    PROVE  /\ k.type = "send" => k.cid \in ClientIds /\ k.at \in Nat
           /\ k.type = "message:new" =>
                /\ k.row \in Nat /\ k.cid \in ClientIds /\ k.sender \in Users
                /\ k.at \in Nat /\ k.readers \in SUBSET Users
           /\ k.type = "chat.read" => k.user \in Users /\ k.row \in Nat /\ k.at \in Nat
           /\ k.type \in {"send", "message:new", "chat.read"}
  BY DEF Deferred, Gateway!Event

\* The first thing that waits goes on.
LEMMA ContTail ==
    ASSUME ChatInv, RowsKept, NEW d \in Devices, cont[d] # <<>>,
           cont' = [cont EXCEPT ![d] = Tail(@)], tries' = tries
    PROVE  /\ EmittedKept /\ TriesKept
           /\ SeenKept => ContOK'
           /\ cont' \in [Devices -> Seq(Deferred)]
           /\ Head(cont[d]) \in Deferred
           /\ NewsOK(Head(cont[d]))
           /\ \A m \in ClientIds : m = Head(cont[d]).cid /\ Head(cont[d]).type = "send" =>
                  DrawnBy[m] = d /\ ~Emitted(m) /\ Emitted(m)'
  <1>1. PICK q : q = cont[d]
    OBVIOUS
  <1>2. GoodCont(d, q) /\ q \in Seq(Deferred) /\ q # <<>>
    BY <1>1 DEF ChatInv, ClientInv, ContOK, GoodCont
  <1>3. cont \in [Devices -> Seq(Deferred)] /\ tries \in [ClientIds -> 0..MaxTries]
    BY DEF ChatInv, ClientInv, ClientTypes
  <1>4. /\ cont'[d] = Tail(q)
        /\ \A o \in Devices \ {d} : cont'[o] = cont[o]
    BY <1>1, <1>3
  <1>5. /\ 1 \in DOMAIN q /\ Head(q) = q[1] /\ Head(q) \in Deferred
        /\ Tail(q) \in Seq(Deferred)
        /\ \A n \in DOMAIN Tail(q) : /\ n \in Nat \ {0} /\ n + 1 \in DOMAIN q
                                     /\ Tail(q)[n] = q[n + 1]
    BY <1>2
  <1>6. EmittedKept
    <2>1. ASSUME NEW m \in ClientIds, Emitted(m)
          PROVE  Emitted(m)'
      BY <1>1, <1>4, <1>5, <2>1, SystemAssumption DEF Emitted, Pending, SystemAssumption
    <2>. QED BY <2>1 DEF EmittedKept
  <1>7. TriesKept
    BY DEF TriesKept
  <1>8. GoodCont(d, Tail(q))
    <2>1. ASSUME NEW k \in DOMAIN Tail(q), NEW n \in DOMAIN Tail(q),
                 Tail(q)[k].type = "send" /\ Tail(q)[n].type = "send",
                 Tail(q)[k].cid = Tail(q)[n].cid
          PROVE  k = n
      <3>1. k + 1 = n + 1
        BY <1>2, <1>5, <2>1 DEF GoodCont
      <3>. QED BY <1>5, <3>1
    <2>2. \A n \in DOMAIN Tail(q) :
             /\ Tail(q)[n].type = "send" =>
                  DrawnBy[Tail(q)[n].cid] = d /\ tries[Tail(q)[n].cid] # 0
             /\ NewsOK(Tail(q)[n])
      <3>1. ASSUME NEW n \in DOMAIN Tail(q)
            PROVE  /\ Tail(q)[n].type = "send" =>
                        DrawnBy[Tail(q)[n].cid] = d /\ tries[Tail(q)[n].cid] # 0
                   /\ NewsOK(Tail(q)[n])
        <4>1. PICK x : x = Tail(q)[n]
          OBVIOUS
        <4>2. n + 1 \in DOMAIN q /\ x = q[n + 1]
          BY <1>5, <4>1
        <4>. QED BY <1>2, <4>1, <4>2 DEF GoodCont
      <3>. QED BY <3>1
    <2>. QED BY <1>5, <2>1, <2>2 DEF GoodCont
  <1>9. SeenKept => ContOK'
    <2>. SUFFICES ASSUME SeenKept, NEW o \in Devices PROVE GoodCont(o, cont[o])'
      BY DEF ContOK
    <2>1. Kept
      BY <1>6, <1>7 DEF Kept
    <2>2. PICK p : p = IF o = d THEN Tail(q) ELSE cont[o]
      OBVIOUS
    <2>3. GoodCont(o, p)
      BY <1>8, <2>2 DEF ChatInv, ClientInv, ContOK
    <2>4. GoodCont(o, p)'
      BY <2>1, <2>3, ContStays
    <2>5. p = cont'[o]
      BY <1>4, <2>2
    <2>. QED BY <2>4, <2>5
  <1>10. ASSUME NEW m \in ClientIds, m = Head(q).cid, Head(q).type = "send"
         PROVE  DrawnBy[m] = d /\ ~Emitted(m) /\ Emitted(m)'
    <2>1. DrawnBy[m] = d /\ tries[m] # 0
      BY <1>2, <1>5, <1>10 DEF GoodCont
    <2>2. Pending(m)
      BY <1>1, <1>5, <1>10, <2>1 DEF Pending
    <2>3. ~Pending(m)'
      <3>1. ASSUME NEW n \in DOMAIN Tail(q), Tail(q)[n].type = "send", Tail(q)[n].cid = m
            PROVE  FALSE
        <4>1. n + 1 = 1
          BY <1>2, <1>5, <1>10, <3>1 DEF GoodCont
        <4>. QED BY <1>5, <3>1, <4>1
      <3>. QED BY <1>4, <2>1, <3>1 DEF Pending
    <2>. QED BY <2>1, <2>2, <2>3 DEF Emitted
  <1>11. NewsOK(Head(q))
    BY <1>2, <1>5 DEF GoodCont
  <1>12. cont' \in [Devices -> Seq(Deferred)]
    BY <1>1, <1>3, <1>5
  <1>. QED BY <1>1, <1>5, <1>6, <1>7, <1>9, <1>10, <1>11, <1>12

\* Something new waits.
LEMMA ContAppend ==
    ASSUME ChatInv, Kept, NEW d \in Devices, NEW k \in Deferred,
           cont' = [cont EXCEPT ![d] = Append(@, k)],
           NewsOK(k)',
           k.type = "send" => DrawnBy[k.cid] = d /\ tries'[k.cid] # 0 /\ tries[k.cid] = 0
    PROVE  ContOK' /\ cont' \in [Devices -> Seq(Deferred)]
  <1>1. PICK q : q = cont[d]
    OBVIOUS
  <1>2. PICK w : w = Append(q, k)
    OBVIOUS
  <1>3. GoodCont(d, q) /\ q \in Seq(Deferred) /\ cont \in [Devices -> Seq(Deferred)]
    BY <1>1 DEF ChatInv, ClientInv, ContOK, GoodCont, ClientTypes
  <1>4. /\ cont' = [cont EXCEPT ![d] = w]
        /\ cont' \in [Devices -> Seq(Deferred)]
    BY <1>1, <1>2, <1>3
  <1>5. /\ w \in Seq(Deferred)
        /\ \A n \in DOMAIN w : \/ n \in DOMAIN q /\ w[n] = q[n]
                               \/ n = Len(q) + 1 /\ n \notin DOMAIN q /\ w[n] = k
    BY <1>2, <1>3
  <1>6. GoodCont(d, q)'
    BY <1>3, ContStays
  <1>7. GoodCont(d, w)'
    <2>1. ASSUME NEW n \in DOMAIN w
          PROVE  /\ w[n].type = "send" => DrawnBy[w[n].cid] = d /\ tries'[w[n].cid] # 0
                 /\ NewsOK(w[n])'
      BY <1>5, <1>6 DEF GoodCont
    <2>2. ASSUME NEW n \in DOMAIN q, q[n].type = "send", k.type = "send"
          PROVE  q[n].cid # k.cid
      BY <1>3, <2>2 DEF GoodCont
    <2>3. ASSUME NEW j \in DOMAIN w, NEW n \in DOMAIN w,
                 w[j].type = "send" /\ w[n].type = "send", w[j].cid = w[n].cid
          PROVE  j = n
      BY <1>3, <1>5, <2>2, <2>3 DEF GoodCont
    <2>. QED BY <1>5, <2>1, <2>3 DEF GoodCont
  <1>8. ASSUME NEW o \in Devices
        PROVE  GoodCont(o, cont[o])'
    <2>1. PICK p : p = IF o = d THEN w ELSE cont[o]
      OBVIOUS
    <2>2. GoodCont(o, p)'
      BY <1>7, <2>1, ContStays DEF ChatInv, ClientInv, ContOK
    <2>3. p = cont'[o]
      BY <1>3, <1>4, <2>1
    <2>. QED BY <2>2, <2>3
  <1>. QED BY <1>4, <1>8 DEF ContOK

\* What a device emits, it sends or keeps, or it has no socket yet.
LEMMA EmitStep ==
    ASSUME ChatInv, Kept, NEW d \in Devices, NEW es \in Seq(ClientEvent), Emit(d, es),
           \A n \in DOMAIN es : SaidOK(d, es[n])'
    PROVE  /\ SaidsOK'
           /\ inbox' \in [Conns -> Seq(ClientEvent)]
           /\ buffer' \in [Devices -> Seq(ClientEvent)]
  <1>1. /\ inbox \in [Conns -> Seq(ClientEvent)]
        /\ buffer \in [Devices -> Seq(ClientEvent)]
        /\ link[d] # None => link[d] \in Conns /\ DeviceOf[link[d]] = d
    BY DEF ChatInv, ClientInv, ClientTypes, LinksOK
  <1>2. ASSUME NEW q \in Seq(ClientEvent), NEW w, w = q \o es
        PROVE  /\ w \in Seq(ClientEvent)
               /\ \A n \in DOMAIN w : \/ n \in DOMAIN q /\ w[n] = q[n]
                                      \/ \E k \in DOMAIN es : w[n] = es[k]
    <2>1. w \in Seq(ClientEvent)
      BY <1>2
    <2>2. ASSUME NEW n \in DOMAIN w, n <= Len(q)
          PROVE  n \in DOMAIN q /\ w[n] = q[n]
      BY <1>2, <2>2
    <2>3. ASSUME NEW n \in DOMAIN w, ~(n <= Len(q))
          PROVE  n - Len(q) \in DOMAIN es /\ w[n] = es[n - Len(q)]
      BY <1>2, <2>3
    <2>. QED BY <2>1, <2>2, <2>3
  <1>3. ASSUME NEW c \in Conns
        PROVE  \/ inbox'[c] = inbox[c]
               \/ DeviceOf[c] = d /\ inbox'[c] = inbox[c] \o es
    BY <1>1 DEF Emit
  <1>4. ASSUME NEW o \in Devices
        PROVE  buffer'[o] = buffer[o] \/ (o = d /\ buffer'[o] = buffer[o] \o es)
    BY <1>1 DEF Emit
  <1>5. /\ inbox' \in [Conns -> Seq(ClientEvent)]
        /\ buffer' \in [Devices -> Seq(ClientEvent)]
    <2>1. \A c \in Conns : inbox'[c] \in Seq(ClientEvent)
      BY <1>1, <1>2, <1>3
    <2>2. \A o \in Devices : buffer'[o] \in Seq(ClientEvent)
      BY <1>1, <1>2, <1>4
    <2>3. /\ inbox' = [c \in Conns |-> inbox'[c]]
          /\ buffer' = [o \in Devices |-> buffer'[o]]
      BY <1>1 DEF Emit
    <2>. QED BY <2>1, <2>2, <2>3
  <1>6. ASSUME NEW c \in Conns, NEW n \in DOMAIN inbox'[c], NEW e, e = inbox'[c][n]
        PROVE  SaidOK(DeviceOf[c], e)'
    <2>1. PICK o \in Devices : o = DeviceOf[c]
      BY SystemAssumption DEF SystemAssumption
    <2>2. CASE n \in DOMAIN inbox[c] /\ e = inbox[c][n]
      <3>1. e \in ClientEvent /\ SaidOK(o, e)
        BY <1>1, <2>1, <2>2 DEF ChatInv, ClientInv, SaidsOK
      <3>. QED BY <2>1, <3>1, SaidStays
    <2>3. \/ n \in DOMAIN inbox[c] /\ e = inbox[c][n]
          \/ o = d /\ \E k \in DOMAIN es : e = es[k]
      <3>1. PICK q \in Seq(ClientEvent) : q = inbox[c]
        BY <1>1
      <3>2. PICK w : w = inbox'[c]
        OBVIOUS
      <3>3. w = q \/ (o = d /\ w = q \o es)
        BY <1>3, <2>1, <3>1, <3>2
      <3>4. n \in DOMAIN w /\ e = w[n]
        BY <1>6, <3>1, <3>2
      <3>5. CASE w = q
        BY <3>1, <3>2, <3>4, <3>5
      <3>6. CASE o = d /\ w = q \o es
        <4>1. \/ n \in DOMAIN q /\ w[n] = q[n]
              \/ \E k \in DOMAIN es : w[n] = es[k]
          BY <1>2, <3>4, <3>6
        <4>. QED BY <3>1, <3>2, <3>4, <3>6, <4>1
      <3>. QED BY <3>3, <3>5, <3>6
    <2>. QED BY <2>1, <2>2, <2>3
  <1>7. ASSUME NEW o \in Devices, NEW n \in DOMAIN buffer'[o], NEW e, e = buffer'[o][n]
        PROVE  SaidOK(o, e)'
    <2>1. CASE n \in DOMAIN buffer[o] /\ e = buffer[o][n]
      <3>1. e \in ClientEvent /\ SaidOK(o, e)
        BY <1>1, <2>1 DEF ChatInv, ClientInv, SaidsOK
      <3>. QED BY <3>1, SaidStays
    <2>2. \/ n \in DOMAIN buffer[o] /\ e = buffer[o][n]
          \/ o = d /\ \E k \in DOMAIN es : e = es[k]
      <3>1. PICK q \in Seq(ClientEvent) : q = buffer[o]
        BY <1>1
      <3>2. PICK w : w = buffer'[o]
        OBVIOUS
      <3>3. w = q \/ (o = d /\ w = q \o es)
        BY <1>4, <3>1, <3>2
      <3>4. n \in DOMAIN w /\ e = w[n]
        BY <1>7, <3>1, <3>2
      <3>5. CASE w = q
        BY <3>1, <3>2, <3>4, <3>5
      <3>6. CASE o = d /\ w = q \o es
        <4>1. \/ n \in DOMAIN q /\ w[n] = q[n]
              \/ \E k \in DOMAIN es : w[n] = es[k]
          BY <1>2, <3>4, <3>6
        <4>. QED BY <3>1, <3>2, <3>4, <3>6, <4>1
      <3>. QED BY <3>3, <3>5, <3>6
    <2>. QED BY <2>1, <2>2
  <1>. QED BY <1>5, <1>6, <1>7 DEF SaidsOK, SaidOK, Emitted, Pending

LEMMA NothingEmitted ==
    ASSUME ChatInv, Kept, UNCHANGED <<inbox, buffer>>
    PROVE  /\ SaidsOK'
           /\ inbox' \in [Conns -> Seq(ClientEvent)]
           /\ buffer' \in [Devices -> Seq(ClientEvent)]
  <1>1. /\ inbox \in [Conns -> Seq(ClientEvent)]
        /\ buffer \in [Devices -> Seq(ClientEvent)]
    BY DEF ChatInv, ClientInv, ClientTypes
  <1>. QED BY <1>1, SaidsStay

\* One device shows another list.
LEMMA ViewsStep ==
    ASSUME ChatInv, Kept, NEW d \in Devices, NEW w, GoodView(d, w)',
           view' = [view EXCEPT ![d] = w],
           \A o \in Devices \ {d} : timers'[o] = timers[o]
    PROVE  ViewsOK' /\ view' \in [Devices -> Seq(Entries)]
  <1>1. view \in [Devices -> Seq(Entries)] /\ w \in Seq(Entries)
    BY DEF ChatInv, ClientInv, ClientTypes, GoodView
  <1>2. ASSUME NEW o \in Devices
        PROVE  GoodView(o, view[o])'
    <2>1. CASE o = d
      <3>1. w = view'[o]
        BY <1>1, <2>1
      <3>. QED BY <2>1, <3>1
    <2>2. CASE o # d
      <3>1. view'[o] = view[o]
        BY <1>1, <2>2
      <3>. QED BY <2>2, <3>1, ViewStays DEF ChatInv, ClientInv
    <2>. QED BY <2>1, <2>2
  <1>. QED BY <1>1, <1>2 DEF ViewsOK

LEMMA RowsType ==
    ASSUME NEW v \in Seq(Entries)
    PROVE  Rows(v) \subseteq Nat
  <1>1. \A n \in DOMAIN v : v[n] \in Entries
    OBVIOUS
  <1>. QED BY <1>1, EntryFields DEF Rows

LEMMA ShowFacts ==
    ASSUME ChatInv, NEW d \in Devices, NEW w \in Seq(Entries), Show(d, w)
    PROVE  /\ SeenKept
           /\ Rows(w) \subseteq seen'[d]
           /\ view' = [view EXCEPT ![d] = w]
           /\ seen' \in [Devices -> SUBSET Nat]
           /\ load' \in [Devices -> Load]
           /\ \A o \in Devices : load'[o].st = "answered" =>
                  load[o].st = "answered" /\ load'[o].page = load[o].page
  <1>1. seen \in [Devices -> SUBSET Nat] /\ load \in [Devices -> Load]
    BY DEF ChatInv, ClientInv, ClientTypes
  <1>2. seen' = [seen EXCEPT ![d] = @ \cup Rows(w)] /\ Rows(w) \subseteq Nat
    BY RowsType DEF Show
  <1>. DEFINE st == IF load[d].st = "failed" THEN "idle" ELSE load[d].st
  <1>3. /\ load' = [load EXCEPT ![d] = [load[d] EXCEPT !.st = st]]
        /\ load[d] \in Load
    BY <1>1 DEF Show
  <1>4. /\ [load[d] EXCEPT !.st = st] \in Load
        /\ [load[d] EXCEPT !.st = st].st = st
        /\ [load[d] EXCEPT !.st = st].page = load[d].page
    BY <1>3 DEF Load
  <1>5. load' \in [Devices -> Load]
    BY <1>1, <1>3, <1>4
  <1>6. \A o \in Devices : load'[o].st = "answered" =>
                  load[o].st = "answered" /\ load'[o].page = load[o].page
    BY <1>1, <1>3, <1>4
  <1>. QED BY <1>1, <1>2, <1>5, <1>6 DEF Show, SeenKept

-----------------------------------------------------------------------------
(* Lists of messages *)

\* What the server sent of a committed message makes a good entry.
LEMMA ServerEntry ==
    ASSUME ChatInv, NEW d \in Devices, NEW m, m.row \in Gateway!Committed,
           m.sender = rows[m.row].sender, m.at \in Nat, m.readers \in SUBSET Users
    PROVE  /\ FromServer(m) \in Entries
           /\ FromServer(m).row = m.row /\ FromServer(m).row # 0
           /\ FromServer(m).sender = m.sender
           /\ EntryOK(d, FromServer(m))
           /\ CidOf(FromServer(m)) = rows[m.row].cid
  <1>1. /\ m.row \in Nat \ {0} /\ rows[m.row].sender \in Users
    BY CommittedRow DEF ChatInv
  <1>2. PICK x : x = FromServer(m)
    OBVIOUS
  <1>3. /\ x = [row |-> m.row, temp |-> None, sender |-> m.sender, status |-> "sent",
                at |-> m.at, readBy |-> m.readers]
    BY <1>2 DEF FromServer, Entry
  <1>4. x \in Entries
    BY <1>1, <1>3 DEF Entries, Statuses
  <1>5. None \notin timers[d]
    BY NoneIsNoId DEF ChatInv, ClientInv, ClientTypes
  <1>6. EntryOK(d, x) /\ CidOf(x) = rows[m.row].cid
    BY <1>1, <1>3, <1>5 DEF EntryOK, CidOf
  <1>. QED BY <1>1, <1>2, <1>3, <1>4, <1>6

\* An entry with a clientTempId is known by it, also once it has a row.
LEMMA CidOfTemp ==
    ASSUME NEW d \in Devices, NEW x, EntryOK(d, x), x.temp # None
    PROVE  CidOf(x) = x.temp
  BY DEF EntryOK, CidOf

LEMMA RelabelledView ==
    ASSUME NEW d \in Devices, NEW v, GoodView(d, v), NEW w \in Seq(Entries),
           DOMAIN w = DOMAIN v,
           \A n \in DOMAIN v : /\ EntryOK(d, w[n])
                               /\ w[n].sender = v[n].sender
                               /\ CidOf(w[n]) = CidOf(v[n])
    PROVE  GoodView(d, w)
  BY DEF GoodView, NoneTwice

LEMMA AddedView ==
    ASSUME NEW v \in Seq(Entries), NoneTwice(v), NEW x \in Entries,
           \A n \in DOMAIN v : ~(v[n].sender = x.sender /\ CidOf(v[n]) = CidOf(x))
    PROVE  /\ Append(v, x) \in Seq(Entries)
           /\ \A n \in DOMAIN Append(v, x) : \/ n \in DOMAIN v /\ Append(v, x)[n] = v[n]
                                             \/ n = Len(v) + 1 /\ Append(v, x)[n] = x
           /\ Len(v) + 1 \in DOMAIN Append(v, x) /\ Append(v, x)[Len(v) + 1] = x
           /\ NoneTwice(Append(v, x))
  <1>1. PICK w : w = Append(v, x)
    OBVIOUS
  <1>2. /\ w \in Seq(Entries)
        /\ \A n \in DOMAIN w : \/ n \in DOMAIN v /\ w[n] = v[n]
                               \/ n = Len(v) + 1 /\ w[n] = x
        /\ Len(v) + 1 \in DOMAIN w /\ w[Len(v) + 1] = x
    BY <1>1
  <1>3. ASSUME NEW k \in DOMAIN w, NEW n \in DOMAIN w,
               w[k].sender = w[n].sender /\ CidOf(w[k]) = CidOf(w[n])
        PROVE  k = n
    <2>1. CASE k \in DOMAIN v /\ w[k] = v[k] /\ n \in DOMAIN v /\ w[n] = v[n]
      BY <1>3, <2>1 DEF NoneTwice
    <2>2. CASE w[k] = x /\ n \in DOMAIN v /\ w[n] = v[n]
      BY <1>3, <2>2
    <2>3. CASE w[n] = x /\ k \in DOMAIN v /\ w[k] = v[k]
      BY <1>3, <2>3
    <2>. QED BY <1>2, <2>1, <2>2, <2>3
  <1>4. NoneTwice(w)
    BY <1>3 DEF NoneTwice
  <1>. QED BY <1>1, <1>2, <1>4

\* However the sort orders the entries of one time, it neither loses nor repeats a
\* message.
LEMMA SortedView ==
    ASSUME NEW d \in Devices, NEW v, GoodView(d, v), NEW w \in Chronological(v)
    PROVE  GoodView(d, w) /\ Rows(w) = Rows(v)
  <1>1. v \in Seq(Entries) /\ \A n \in DOMAIN v : v[n] \in Entries
    BY DEF GoodView
  <1>2. PICK place \in Bijection(DOMAIN v, DOMAIN v) : w = [n \in DOMAIN v |-> v[place[n]]]
    BY DEF Chronological
  <1>3. /\ place \in [DOMAIN v -> DOMAIN v]
        /\ \A k, n \in DOMAIN v : place[k] = place[n] => k = n
        /\ \A j \in DOMAIN v : \E n \in DOMAIN v : place[n] = j
    BY <1>2 DEF Bijection, Injection, Surjection, IsInjective
  <1>4. /\ DOMAIN w = DOMAIN v
        /\ \A n \in DOMAIN v : w[n] = v[place[n]] /\ place[n] \in DOMAIN v
    BY <1>2, <1>3
  <1>5. w \in Seq(Entries)
    <2>1. DOMAIN v = 1..Len(v) /\ Len(v) \in Nat
      BY <1>1
    <2>2. \A n \in 1..Len(v) : w[n] \in Entries
      BY <1>1, <1>4, <2>1
    <2>3. w = [n \in 1..Len(v) |-> w[n]]
      BY <1>2, <2>1
    <2>. QED BY <2>1, <2>2, <2>3
  <1>6. ASSUME NEW k \in DOMAIN w, NEW n \in DOMAIN w,
               w[k].sender = w[n].sender /\ CidOf(w[k]) = CidOf(w[n])
        PROVE  k = n
    <2>1. place[k] = place[n]
      BY <1>4, <1>6 DEF GoodView, NoneTwice
    <2>. QED BY <1>3, <1>4, <2>1
  <1>7. \A n \in DOMAIN w : EntryOK(d, w[n])
    BY <1>4 DEF GoodView
  <1>8. Rows(w) = Rows(v)
    BY <1>3, <1>4 DEF Rows
  <1>9. GoodView(d, w)
    BY <1>5, <1>6, <1>7 DEF GoodView, NoneTwice
  <1>. QED BY <1>8, <1>9

-----------------------------------------------------------------------------
(* The steps of a device that leave its list alone *)

LEMMA QuietKept ==
    ASSUME ChatInv, RowsKept, UNCHANGED <<view, timers, cont, tries, seen>>
    PROVE  /\ Kept /\ ViewsOK' /\ ContOK'
           /\ view' \in [Devices -> Seq(Entries)]
           /\ timers' \in [Devices -> SUBSET ClientIds]
           /\ cont' \in [Devices -> Seq(Deferred)]
           /\ tries' \in [ClientIds -> 0..MaxTries]
           /\ seen' \in [Devices -> SUBSET Nat]
  <1>1. Kept
    BY NothingTapped DEF Kept, SeenKept
  <1>2. /\ timers \in [Devices -> SUBSET ClientIds]
        /\ tries \in [ClientIds -> 0..MaxTries]
        /\ seen \in [Devices -> SUBSET Nat]
    BY DEF ChatInv, ClientInv, ClientTypes
  <1>. QED BY <1>1, <1>2, NothingShown, ContSame

LEMMA JoinSaid ==
    ASSUME NEW d \in Devices
    PROVE  JoinEvent \in ClientEvent /\ SaidOK(d, JoinEvent)'
  BY DEF JoinEvent, ClientEvent, SaidOK

LEMMA SocketAction ==
    ASSUME ChatInv, RowsKept, NEW d \in Devices, CreateSocket(d)
    PROVE  Kept /\ ClientInv'
  <1>. USE DEF CreateSocket
  <1>1. Kept /\ ViewsOK' /\ ContOK'
    BY QuietKept
  <1>2. SaidsOK' /\ PagesOK'
    BY <1>1, NothingEmitted, PagesStep
  <1>3. ClientTypes' /\ LinksOK'
    BY DEF ChatInv, ClientInv, ClientTypes, LinksOK
  <1>. QED BY <1>1, <1>2, <1>3 DEF ClientInv

LEMMA LoadChange ==
    ASSUME ChatInv, NEW d \in Devices, NEW x \in Load, load' = [load EXCEPT ![d] = x]
    PROVE  /\ load' \in [Devices -> Load]
           /\ load'[d] = x
           /\ \A o \in Devices \ {d} : load'[o] = load[o]
  BY DEF ChatInv, ClientInv, ClientTypes

LEMMA LoadAsked ==
    ASSUME ChatInv, NEW d \in Devices, load' = [load EXCEPT ![d].st = "asked"]
    PROVE  /\ load' \in [Devices -> Load]
           /\ load'[d].st = "asked"
           /\ \A o \in Devices \ {d} : load'[o] = load[o]
  <1>1. load[d] \in Load
    BY DEF ChatInv, ClientInv, ClientTypes
  <1>2. PICK x : x = [load[d] EXCEPT !.st = "asked"]
    OBVIOUS
  <1>3. x \in Load /\ x.st = "asked"
    BY <1>1, <1>2 DEF Load
  <1>. QED BY <1>2, <1>3, LoadChange

LEMMA OpenAction ==
    ASSUME ChatInv, RowsKept, NEW d \in Devices, OpenRoom(d)
    PROVE  Kept /\ ClientInv'
  <1>. USE DEF OpenRoom
  <1>1. Kept /\ ViewsOK' /\ ContOK'
    BY QuietKept
  <1>2. PagesOK' /\ load' \in [Devices -> Load]
    <2>1. /\ load' \in [Devices -> Load]
          /\ load'[d].st = "asked"
          /\ \A o \in Devices \ {d} : load'[o] = load[o]
      BY LoadAsked
    <2>. QED BY <2>1, PagesStep
  <1>3. /\ SaidsOK'
        /\ inbox' \in [Conns -> Seq(ClientEvent)]
        /\ buffer' \in [Devices -> Seq(ClientEvent)]
    <2>1. CASE Emit(d, <<JoinEvent>>)
      <3>1. JoinEvent \in ClientEvent /\ SaidOK(d, JoinEvent)'
        BY JoinSaid
      <3>2. PICK es : es = <<JoinEvent>>
        OBVIOUS
      <3>3. es \in Seq(ClientEvent) /\ \A n \in DOMAIN es : es[n] = JoinEvent
        BY <3>1, <3>2
      <3>4. \A n \in DOMAIN es : SaidOK(d, es[n])'
        BY <3>1, <3>3
      <3>. QED BY <1>1, <2>1, <3>2, <3>3, <3>4, EmitStep
    <2>2. CASE UNCHANGED <<inbox, buffer>>
      BY <1>1, <2>2, NothingEmitted
    <2>. QED BY <2>1, <2>2
  <1>4. ClientTypes' /\ LinksOK'
    BY <1>2, <1>3 DEF ChatInv, ClientInv, ClientTypes, LinksOK
  <1>. QED BY <1>1, <1>2, <1>3, <1>4 DEF ClientInv

LEMMA LoadActions ==
    ASSUME ChatInv, RowsKept, NEW d \in Devices,
           LoadAgain(d) \/ LoadFails(d) \/ MessagesFetched(d)
    PROVE  Kept /\ ClientInv'
  <1>. USE DEF LoadAgain, LoadFails, MessagesFetched, LoadAnswered
  <1>1. Kept /\ ViewsOK' /\ ContOK'
    BY QuietKept
  <1>2. SaidsOK'
    BY <1>1, NothingEmitted
  <1>3. PagesOK' /\ load' \in [Devices -> Load]
    <2>1. CASE LoadAgain(d)
      BY <2>1, LoadAsked, PagesStep
    <2>2. CASE LoadFails(d)
      <3>1. PICK x : x = [st |-> "failed", page |-> <<>>]
        OBVIOUS
      <3>2. x \in Load /\ x.st = "failed" /\ load' = [load EXCEPT ![d] = x]
        BY <2>2, <3>1 DEF Load
      <3>. QED BY <3>2, LoadChange, PagesStep
    <2>3. CASE MessagesFetched(d)
      <3>1. PICK p : p = Server!GetMessages
        OBVIOUS
      <3>2. p \in Seq(PageRow) /\ PageOK(p)
        BY <3>1, PageLists DEF ChatInv, Gateway!LedgerInv
      <3>3. /\ load' \in [Devices -> Load]
            /\ load'[d].page = p
            /\ \A o \in Devices \ {d} : load'[o] = load[o]
        <4>1. PICK x : x = [st |-> "answered", page |-> p]
          OBVIOUS
        <4>2. x \in Load /\ x.page = p /\ load' = [load EXCEPT ![d] = x]
          BY <2>3, <3>1, <3>2, <4>1 DEF Load
        <4>. QED BY <4>2, LoadChange
      <3>4. PageOK(p)'
        BY <3>2, PageStays
      <3>5. ASSUME NEW o \in Devices, load'[o].st = "answered"
            PROVE  PageOK(load[o].page)'
        <4>1. PICK q : q = load'[o].page
          OBVIOUS
        <4>2. CASE o = d
          BY <3>3, <3>4, <4>2
        <4>3. CASE o # d
          <5>1. q = load[o].page /\ load[o].st = "answered"
            BY <3>3, <3>5, <4>1, <4>3
          <5>2. PageOK(q)'
            BY <5>1, PageStays DEF ChatInv, ClientInv, PagesOK
          <5>. QED BY <4>1, <5>2
        <4>. QED BY <4>2, <4>3
      <3>. QED BY <3>3, <3>5 DEF PagesOK
    <2>. QED BY <2>1, <2>2, <2>3
  <1>4. ClientTypes' /\ LinksOK'
    BY <1>3 DEF ChatInv, ClientInv, ClientTypes, LinksOK
  <1>. QED BY <1>1, <1>2, <1>3, <1>4 DEF ClientInv

LEMMA TapAction ==
    ASSUME ChatInv, RowsKept, NEW d \in Devices, NEW m \in ClientIds, Tapped(d, m)
    PROVE  Kept /\ ClientInv'
  <1>. USE DEF Tapped, TapSend
  <1>1. /\ cont \in [Devices -> Seq(Deferred)] /\ tries \in [ClientIds -> 0..MaxTries]
        /\ seen \in [Devices -> SUBSET Nat] /\ MaxTries \in Nat \ {0}
    BY SystemAssumption DEF ChatInv, ClientInv, ClientTypes, SystemAssumption
  <1>2. PICK k : k = [type |-> "send", cid |-> m, at |-> clock + 1]
    OBVIOUS
  <1>3. k \in Deferred /\ k.type = "send" /\ k.cid = m
    BY <1>2, ClockType DEF ChatInv, Deferred
  <1>4. /\ cont' = [cont EXCEPT ![d] = Append(@, k)]
        /\ DrawnBy[m] = d /\ tries[m] = 0
        /\ tries' = [tries EXCEPT ![m] = 1]
    BY <1>2
  <1>5. Kept
    <2>1. ASSUME NEW p \in ClientIds, Emitted(p)
          PROVE  Emitted(p)'
      <3>1. p # m /\ tries'[p] = tries[p]
        BY <1>1, <1>4, <2>1 DEF Emitted
      <3>2. ~Pending(p)'
        <4>. SUFFICES ASSUME NEW n \in DOMAIN cont'[DrawnBy[p]],
                             cont'[DrawnBy[p]][n].type = "send",
                             cont'[DrawnBy[p]][n].cid = p
                      PROVE  FALSE
          BY DEF Pending
        <4>1. PICK q \in Seq(Deferred) : q = cont[DrawnBy[p]]
          BY <1>1, SystemAssumption DEF SystemAssumption
        <4>2. cont'[DrawnBy[p]] = q \/ cont'[DrawnBy[p]] = Append(q, k)
          BY <1>1, <1>4, <4>1, SystemAssumption DEF SystemAssumption
        <4>3. \/ n \in DOMAIN q /\ cont'[DrawnBy[p]][n] = q[n]
              \/ cont'[DrawnBy[p]][n] = k
          BY <4>2
        <4>. QED BY <1>3, <2>1, <3>1, <4>1, <4>3 DEF Emitted, Pending
      <3>. QED BY <2>1, <3>1, <3>2 DEF Emitted
    <2>2. TriesKept
      BY <1>1, <1>4 DEF TriesKept
    <2>. QED BY <2>1, <2>2 DEF Kept, EmittedKept, SeenKept
  <1>6. ContOK' /\ cont' \in [Devices -> Seq(Deferred)]
    <2>1. NewsOK(k)'
      BY <1>3 DEF NewsOK
    <2>2. tries'[m] # 0
      BY <1>1, <1>4
    <2>. QED BY <1>3, <1>4, <1>5, <2>1, <2>2, ContAppend
  <1>7. ViewsOK'
    BY <1>5, NothingShown
  <1>8. SaidsOK' /\ PagesOK'
    BY <1>5, NothingEmitted, PagesStep
  <1>9. tries' \in [ClientIds -> 0..MaxTries]
    BY <1>1, <1>4
  <1>10. ClientTypes' /\ LinksOK'
    BY <1>6, <1>9 DEF ChatInv, ClientInv, ClientTypes, LinksOK
  <1>. QED BY <1>5, <1>6, <1>7, <1>8, <1>10 DEF ClientInv

LEMMA ConnectedAction ==
    ASSUME ChatInv, RowsKept, NEW d \in Devices, NEW c \in Conns, Connected(d, c)
    PROVE  Kept /\ ClientInv'
  <1>. USE DEF Connected, LinkUp
  <1>0. /\ inbox \in [Conns -> Seq(ClientEvent)] /\ buffer \in [Devices -> Seq(ClientEvent)]
        /\ link \in [Devices -> Conns \cup {None}]
        /\ sub \in [Devices -> {"closed", "waiting", "live"}]
    BY DEF ChatInv, ClientInv, ClientTypes
  <1>1. Kept /\ ViewsOK' /\ ContOK'
    BY QuietKept
  <1>2. PagesOK'
    BY PagesStep
  <1>3. PICK q \in Seq(ClientEvent) : q = buffer[d]
    BY <1>0
  <1>4. PICK w : w = inbox'[c]
    OBVIOUS
  <1>5. /\ w \in Seq(ClientEvent)
        /\ \A n \in DOMAIN w : (n \in DOMAIN q /\ w[n] = q[n]) \/ w[n] = JoinEvent
    <2>1. w = q \o <<JoinEvent>> \/ w = q \o <<>>
      BY <1>0, <1>3, <1>4
    <2>2. q \o <<>> = q
      OBVIOUS
    <2>3. ASSUME w = q \o <<JoinEvent>>
          PROVE  /\ w \in Seq(ClientEvent)
                 /\ \A n \in DOMAIN w : (n \in DOMAIN q /\ w[n] = q[n]) \/ w[n] = JoinEvent
      BY <2>3, JoinSaid
    <2>. QED BY <2>1, <2>2, <2>3
  <1>6. /\ inbox' = [inbox EXCEPT ![c] = w]
        /\ buffer' = [buffer EXCEPT ![d] = <<>>]
        /\ inbox' \in [Conns -> Seq(ClientEvent)]
        /\ buffer' \in [Devices -> Seq(ClientEvent)]
    BY <1>0, <1>3, <1>4, <1>5
  <1>7. SaidsOK'
    <2>1. ASSUME NEW b \in Conns, NEW n \in DOMAIN inbox'[b], NEW e, e = inbox'[b][n]
          PROVE  SaidOK(DeviceOf[b], e)'
      <3>1. PICK o \in Devices : o = DeviceOf[b]
        BY SystemAssumption DEF SystemAssumption
      <3>2. CASE b # c
        <4>1. e \in ClientEvent /\ SaidOK(o, e)
          BY <1>0, <1>6, <2>1, <3>1, <3>2 DEF ChatInv, ClientInv, SaidsOK
        <4>. QED BY <1>1, <3>1, <4>1, SaidStays
      <3>3. CASE b = c /\ n \in DOMAIN q /\ e = q[n]
        <4>1. e \in ClientEvent /\ SaidOK(o, e)
          BY <1>3, <3>1, <3>3 DEF ChatInv, ClientInv, SaidsOK
        <4>. QED BY <1>1, <3>1, <4>1, SaidStays
      <3>4. CASE e = JoinEvent
        BY <3>1, <3>4, JoinSaid
      <3>. QED BY <1>4, <1>5, <2>1, <3>2, <3>3, <3>4
    <2>2. ASSUME NEW o \in Devices, NEW n \in DOMAIN buffer'[o], NEW e, e = buffer'[o][n]
          PROVE  SaidOK(o, e)'
      <3>1. e \in ClientEvent /\ SaidOK(o, e)
        BY <1>0, <1>6, <2>2 DEF ChatInv, ClientInv, SaidsOK
      <3>. QED BY <1>1, <3>1, SaidStays
    <2>. QED BY <2>1, <2>2 DEF SaidsOK, SaidOK, Emitted, Pending
  <1>8. LinksOK' /\ link' \in [Devices -> Conns \cup {None}]
    BY <1>0 DEF ChatInv, ClientInv, LinksOK
  <1>9. sub' \in [Devices -> {"closed", "waiting", "live"}]
    BY <1>0
  <1>10. ClientTypes'
    BY <1>6, <1>8, <1>9 DEF ChatInv, ClientInv, ClientTypes
  <1>. QED BY <1>1, <1>2, <1>7, <1>8, <1>10 DEF ClientInv

LEMMA DisconnectedAction ==
    ASSUME ChatInv, RowsKept, NEW d \in Devices, Disconnected(d)
    PROVE  Kept /\ ClientInv'
  <1>. USE DEF Disconnected, LinkDown
  <1>0. /\ inbox \in [Conns -> Seq(ClientEvent)]
        /\ link \in [Devices -> Conns \cup {None}]
    BY DEF ChatInv, ClientInv, ClientTypes
  <1>1. Kept /\ ViewsOK' /\ ContOK'
    BY QuietKept
  <1>2. PagesOK'
    BY PagesStep
  <1>3. /\ inbox' \in [Conns -> Seq(ClientEvent)]
        /\ \A c \in Conns : \A n \in DOMAIN inbox'[c] :
               \E k \in DOMAIN inbox[c] : inbox'[c][n] = inbox[c][k]
    BY <1>0
  <1>4. SaidsOK'
    BY <1>1, <1>3, SaidsStay
  <1>5. LinksOK' /\ link' \in [Devices -> Conns \cup {None}]
    BY <1>0 DEF ChatInv, ClientInv, LinksOK
  <1>6. ClientTypes'
    BY <1>3, <1>5 DEF ChatInv, ClientInv, ClientTypes
  <1>. QED BY <1>1, <1>2, <1>4, <1>5, <1>6 DEF ClientInv

-----------------------------------------------------------------------------
(* The steps of a device that change its list *)

LEMMA EmitOne ==
    ASSUME ChatInv, Kept, NEW d \in Devices, NEW e \in ClientEvent, Emit(d, <<e>>),
           SaidOK(d, e)'
    PROVE  /\ SaidsOK'
           /\ inbox' \in [Conns -> Seq(ClientEvent)]
           /\ buffer' \in [Devices -> Seq(ClientEvent)]
  <1>1. PICK es : es = <<e>>
    OBVIOUS
  <1>2. es \in Seq(ClientEvent) /\ \A n \in DOMAIN es : es[n] = e
    BY <1>1
  <1>. QED BY <1>1, <1>2, EmitStep

LEMMA MarkReadSaid ==
    ASSUME NEW d \in Devices, NEW v \in Seq(Entries), NEW e, e = MarkReadEvent(v)
    PROVE  e \in ClientEvent /\ e.type = "chat.read" /\ SaidOK(d, e)'
  <1>1. v # <<>> => v[Len(v)] \in Entries
    OBVIOUS
  <1>2. v # <<>> => v[Len(v)].row \in Nat
    BY <1>1, EntryFields
  <1>3. e \in ClientEvent /\ e.type = "chat.read"
    BY <1>2 DEF MarkReadEvent, ClientEvent
  <1>. QED BY <1>3 DEF SaidOK

LEMMA ShowStep ==
    ASSUME ChatInv, Kept, NEW d \in Devices, NEW w, Show(d, w), GoodView(d, w)',
           \A o \in Devices \ {d} : timers'[o] = timers[o]
    PROVE  /\ ViewsOK' /\ PagesOK'
           /\ view' \in [Devices -> Seq(Entries)]
           /\ seen' \in [Devices -> SUBSET Nat]
           /\ load' \in [Devices -> Load]
  <1>1. w \in Seq(Entries)
    BY DEF GoodView
  <1>. QED BY <1>1, ShowFacts, ViewsStep, PagesStep DEF Kept

LEMMA PageView ==
    ASSUME ChatInv, NEW d \in Devices, NEW p \in Seq(PageRow), PageOK(p),
           NEW w, w = [n \in DOMAIN p |-> FromServer(p[n])]
    PROVE  GoodView(d, w)
  <1>1. ASSUME NEW n \in DOMAIN p
        PROVE  /\ w[n] \in Entries /\ EntryOK(d, w[n])
               /\ w[n].sender = rows[p[n].row].sender
               /\ CidOf(w[n]) = rows[p[n].row].cid
               /\ p[n].row \in Gateway!Committed
    <2>1. PICK m \in PageRow : m = p[n]
      OBVIOUS
    <2>2. /\ m.row \in Gateway!Committed /\ m.sender = rows[m.row].sender
          /\ m.at \in Nat /\ m.readers \in SUBSET Users
      BY <2>1 DEF PageOK, PageRow
    <2>3. w[n] = FromServer(m)
      BY <2>1
    <2>. QED BY <2>1, <2>2, <2>3, ServerEntry
  <1>2. ASSUME NEW k \in DOMAIN w, NEW n \in DOMAIN w,
               w[k].sender = w[n].sender /\ CidOf(w[k]) = CidOf(w[n])
        PROVE  k = n
    <2>1. k \in DOMAIN p /\ n \in DOMAIN p
      OBVIOUS
    <2>2. p[k].row = p[n].row
      <3>1. /\ rows[p[k].row].sender = rows[p[n].row].sender
            /\ rows[p[k].row].cid = rows[p[n].row].cid
            /\ p[k].row \in Gateway!Committed /\ p[n].row \in Gateway!Committed
        BY <1>1, <1>2, <2>1
      <3>. QED BY <3>1 DEF Gateway!Committed, Gateway!OneRowPerSend, ChatInv,
                           Gateway!LedgerInv, Gateway!SendInv
    <2>. QED BY <2>1, <2>2 DEF PageOK
  <1>3. w \in Seq(Entries)
    <2>1. DOMAIN p = 1..Len(p) /\ Len(p) \in Nat
      OBVIOUS
    <2>2. \A n \in 1..Len(p) : w[n] \in Entries
      BY <1>1, <2>1
    <2>3. w = [n \in 1..Len(p) |-> w[n]]
      BY <2>1
    <2>. QED BY <2>1, <2>2, <2>3
  <1>. QED BY <1>1, <1>2, <1>3 DEF GoodView, NoneTwice

LEMMA LoadDoneAction ==
    ASSUME ChatInv, RowsKept, NEW d \in Devices, LoadDone(d)
    PROVE  Kept /\ ClientInv'
  <1>1. PICK p : p = load[d].page
    OBVIOUS
  <1>2. PICK w : w = [n \in DOMAIN p |-> FromServer(p[n])]
    OBVIOUS
  <1>3. /\ load[d].st = "answered"
        /\ view' = [view EXCEPT ![d] = w]
        /\ seen' = [seen EXCEPT ![d] = @ \cup Rows(w)]
        /\ load' = [load EXCEPT ![d] = [st |-> "idle", page |-> <<>>]]
        /\ Emit(d, <<MarkReadEvent(w)>>)
        /\ UNCHANGED <<hasSocket, link, sub, timers, cont, tries>>
    BY <1>1, <1>2 DEF LoadDone
  <1>4. p \in Seq(PageRow) /\ PageOK(p)
    <2>1. load[d] \in Load
      BY DEF ChatInv, ClientInv, ClientTypes
    <2>. QED BY <1>1, <1>3, <2>1 DEF ChatInv, ClientInv, PagesOK, Load
  <1>5. GoodView(d, w) /\ w \in Seq(Entries)
    BY <1>2, <1>4, PageView DEF GoodView
  <1>6. Kept /\ seen' \in [Devices -> SUBSET Nat]
    <2>1. seen \in [Devices -> SUBSET Nat] /\ Rows(w) \subseteq Nat
      BY <1>5, RowsType DEF ChatInv, ClientInv, ClientTypes
    <2>2. SeenKept /\ seen' \in [Devices -> SUBSET Nat]
      BY <1>3, <2>1 DEF SeenKept
    <2>. QED BY <1>3, <2>2, NothingTapped DEF Kept
  <1>7. ViewsOK' /\ view' \in [Devices -> Seq(Entries)]
    <2>1. GoodView(d, w)'
      BY <1>3, <1>5, <1>6, GoodStays
    <2>. QED BY <1>3, <1>6, <2>1, ViewsStep
  <1>8. PagesOK' /\ load' \in [Devices -> Load]
    <2>1. PICK x : x = [st |-> "idle", page |-> <<>>]
      OBVIOUS
    <2>2. x \in Load /\ x.st = "idle" /\ load' = [load EXCEPT ![d] = x]
      BY <1>3, <2>1 DEF Load
    <2>. QED BY <2>2, LoadChange, PagesStep
  <1>9. /\ SaidsOK'
        /\ inbox' \in [Conns -> Seq(ClientEvent)]
        /\ buffer' \in [Devices -> Seq(ClientEvent)]
    <2>1. PICK e : e = MarkReadEvent(w)
      OBVIOUS
    <2>2. e \in ClientEvent /\ SaidOK(d, e)'
      BY <1>5, <2>1, MarkReadSaid
    <2>. QED BY <1>3, <1>6, <2>1, <2>2, EmitOne
  <1>10. ContOK' /\ LinksOK'
    BY <1>3, <1>6, ContSame DEF ChatInv, ClientInv, LinksOK
  <1>11. ClientTypes'
    BY <1>3, <1>6, <1>7, <1>8, <1>9 DEF ChatInv, ClientInv, ClientTypes
  <1>. QED BY <1>6, <1>7, <1>8, <1>9, <1>10, <1>11 DEF ClientInv

\* Everything that a device shows has been emitted, by whichever device.
LEMMA ShownIsEmitted ==
    ASSUME ChatInv, NEW d \in Devices, NEW n \in DOMAIN view[d], NEW m,
           m = CidOf(view[d][n]) \/ (m = view[d][n].temp /\ m # None)
    PROVE  Emitted(m)
  <1>1. PICK x : x = view[d][n]
    OBVIOUS
  <1>2. EntryOK(d, x)
    BY <1>1 DEF ChatInv, ClientInv, ViewsOK, GoodView
  <1>3. CASE m = x.temp /\ m # None
    BY <1>2, <1>3 DEF EntryOK
  <1>4. CASE m = CidOf(x) /\ x.row = 0
    BY <1>2, <1>4 DEF EntryOK, CidOf
  <1>5. CASE m = CidOf(x) /\ x.row # 0
    <2>1. m = rows[x.row].cid /\ x.row \in Gateway!Committed
      BY <1>2, <1>5 DEF EntryOK, CidOf
    <2>. QED BY <2>1 DEF ChatInv, TrafficInv, RowsOK, Gateway!Committed
  <1>. QED BY <1>1, <1>3, <1>4, <1>5

LEMMA SendAction ==
    ASSUME ChatInv, RowsKept, NEW d \in Devices, ContinueSend(d)
    PROVE  Kept /\ ClientInv'
  <1>1. PICK k : k = Head(cont[d])
    OBVIOUS
  <1>2. PICK m : m = k.cid
    OBVIOUS
  <1>3. PICK st \in {"sending", "failed"} : st = IF hasSocket[d] THEN "sending" ELSE "failed"
    OBVIOUS
  <1>4. PICK v : v = view[d]
    OBVIOUS
  <1>5. PICK x : x = Entry(0, m, UserOf[d], st, k.at, {})
    OBVIOUS
  <1>6. PICK w : w = Append(v, x)
    OBVIOUS
  <1>7. /\ cont[d] # <<>> /\ k.type = "send"
        /\ Show(d, w)
        /\ Emit(d, <<SendEvent(m)>>)
        /\ timers' = [timers EXCEPT ![d] = IF hasSocket[d] THEN @ \cup {m} ELSE @]
        /\ cont' = [cont EXCEPT ![d] = Tail(@)]
        /\ UNCHANGED <<hasSocket, link, sub, tries>>
    BY <1>1, <1>2, <1>3, <1>4, <1>5, <1>6 DEF ContinueSend
  <1>8. k \in Deferred /\ m \in ClientIds /\ k.at \in Nat
    BY <1>1, <1>2, <1>7, ContTail, DeferredFields
  <1>9. /\ EmittedKept /\ TriesKept
        /\ SeenKept => ContOK'
        /\ cont' \in [Devices -> Seq(Deferred)]
        /\ DrawnBy[m] = d /\ ~Emitted(m) /\ Emitted(m)'
    BY <1>1, <1>2, <1>7, <1>8, ContTail
  <1>10. /\ x = [row |-> 0, temp |-> m, sender |-> UserOf[d], status |-> st, at |-> k.at,
                 readBy |-> {}]
         /\ x \in Entries /\ CidOf(x) = m
    <2>1. UserOf[d] \in Users
      BY SystemAssumption DEF SystemAssumption
    <2>2. x = [row |-> 0, temp |-> m, sender |-> UserOf[d], status |-> st, at |-> k.at,
               readBy |-> {}]
      BY <1>5 DEF Entry
    <2>. QED BY <1>8, <2>1, <2>2 DEF Entries, Statuses, CidOf
  <1>11. GoodView(d, v) /\ v \in Seq(Entries) /\ NoneTwice(v)
    BY <1>4 DEF ChatInv, ClientInv, ViewsOK, GoodView
  <1>12. /\ w \in Seq(Entries) /\ NoneTwice(w)
         /\ \A n \in DOMAIN w : (n \in DOMAIN v /\ w[n] = v[n]) \/ w[n] = x
    <2>1. \A n \in DOMAIN v : CidOf(v[n]) # m
      BY <1>4, <1>9, ShownIsEmitted
    <2>. QED BY <1>6, <1>10, <1>11, <2>1, AddedView
  <1>13. Kept
    BY <1>7, <1>9, <1>12, ShowFacts DEF Kept
  <1>14. GoodView(d, w)'
    <2>1. EntryOK(d, x)'
      BY <1>8, <1>9, <1>10, NoneIsNoId DEF EntryOK
    <2>2. ASSUME NEW n \in DOMAIN v
          PROVE  EntryOK(d, v[n])' /\ (v[n].row = 0 \/ v[n].row \in Gateway!Committed)
      <3>1. v[n] \in Entries /\ EntryOK(d, v[n])
        BY <1>11 DEF GoodView
      <3>2. v[n].temp # m
        BY <1>4, <1>8, <1>9, NoneIsNoId, ShownIsEmitted
      <3>3. timers \in [Devices -> SUBSET ClientIds]
        BY DEF ChatInv, ClientInv, ClientTypes
      <3>4. v[n].row # 0 => v[n].temp \notin timers'[d]
        BY <1>7, <3>1, <3>2, <3>3 DEF EntryOK
      <3>5. v[n].row # 0 => v[n].row \in Gateway!Committed
        BY <3>1 DEF EntryOK
      <3>. QED BY <1>13, <3>1, <3>4, <3>5, EntryStays
    <2>3. \A n \in DOMAIN w : EntryOK(d, w[n])'
      BY <1>12, <2>1, <2>2
    <2>4. NoneTwice(w)'
      BY <1>10, <1>12, <2>2, NoneTwiceStays
    <2>. QED BY <1>12, <2>3, <2>4 DEF GoodView
  <1>15. timers' \in [Devices -> SUBSET ClientIds] /\ \A o \in Devices \ {d} : timers'[o] = timers[o]
    BY <1>7, <1>8 DEF ChatInv, ClientInv, ClientTypes
  <1>16. /\ ViewsOK' /\ PagesOK'
         /\ view' \in [Devices -> Seq(Entries)]
         /\ seen' \in [Devices -> SUBSET Nat]
         /\ load' \in [Devices -> Load]
    BY <1>7, <1>13, <1>14, <1>15, ShowStep
  <1>17. /\ SaidsOK'
         /\ inbox' \in [Conns -> Seq(ClientEvent)]
         /\ buffer' \in [Devices -> Seq(ClientEvent)]
    <2>1. PICK e : e = SendEvent(m)
      OBVIOUS
    <2>2. e \in ClientEvent /\ SaidOK(d, e)'
      BY <1>8, <1>9, <2>1 DEF SendEvent, ClientEvent, SaidOK
    <2>. QED BY <1>7, <1>13, <2>1, <2>2, EmitOne
  <1>18. ContOK' /\ LinksOK'
    BY <1>7, <1>9, <1>13 DEF Kept, ChatInv, ClientInv, LinksOK
  <1>19. ClientTypes'
    BY <1>7, <1>9, <1>15, <1>16, <1>17 DEF ChatInv, ClientInv, ClientTypes
  <1>. QED BY <1>13, <1>16, <1>17, <1>18, <1>19 DEF ClientInv

\* A device shows a good list of messages, and no timer starts.
LEMMA ShowGood ==
    ASSUME ChatInv, Kept, NEW d \in Devices, NEW w, Show(d, w), GoodView(d, w),
           timers'[d] \subseteq timers[d],
           \A o \in Devices \ {d} : timers'[o] = timers[o]
    PROVE  /\ ViewsOK' /\ PagesOK'
           /\ view' \in [Devices -> Seq(Entries)]
           /\ seen' \in [Devices -> SUBSET Nat]
           /\ load' \in [Devices -> Load]
  <1>1. GoodView(d, w)'
    BY GoodStays
  <1>. QED BY <1>1, ShowStep

\* An entry of the message that a message:new brings either shows its row, or
\* is the optimistic entry of it on the device that sent it.
LEMMA NewsEntry ==
    ASSUME ChatInv, NEW d \in Devices, NEW e, e.row \in Gateway!Committed,
           rows[e.row].sender = e.sender, rows[e.row].cid = e.cid,
           NEW x, EntryOK(d, x), x.sender = e.sender, CidOf(x) = e.cid
    PROVE  x.row = e.row \/ (x.temp = e.cid /\ e.sender = UserOf[d])
  <1>1. CASE x.row = 0
    BY <1>1 DEF EntryOK, CidOf
  <1>2. CASE x.row # 0
    <2>1. /\ x.row \in Gateway!Committed
          /\ rows[x.row].sender = rows[e.row].sender
          /\ rows[x.row].cid = rows[e.row].cid
      BY <1>2 DEF EntryOK, CidOf
    <2>. QED BY <2>1 DEF Gateway!Committed, Gateway!OneRowPerSend, ChatInv,
                         Gateway!LedgerInv, Gateway!SendInv
  <1>. QED BY <1>1, <1>2

\* The optimistic entry of a message gives way to what the server sent of it.
LEMMA ReplacedView ==
    ASSUME ChatInv, NEW d \in Devices, NEW v, GoodView(d, v), NEW e,
           e.row \in Gateway!Committed, rows[e.row].sender = e.sender,
           rows[e.row].cid = e.cid, e.at \in Nat, e.readers \in SUBSET Users,
           e.cid \in ClientIds, e.sender = UserOf[d],
           NEW k \in DOMAIN v, v[k].temp = e.cid,
           NEW w, w = [v EXCEPT ![k] = FromServer(e)]
    PROVE  GoodView(d, w)
  <1>0. v \in Seq(Entries)
    BY DEF GoodView
  <1>1. PICK x : x = FromServer(e)
    OBVIOUS
  <1>2. x \in Entries /\ EntryOK(d, x) /\ x.sender = UserOf[d] /\ CidOf(x) = e.cid
    BY <1>1, ServerEntry
  <1>3. ASSUME NEW n \in DOMAIN v
        PROVE  /\ w[n] \in Entries
               /\ EntryOK(d, w[n])
               /\ w[n].sender = v[n].sender
               /\ CidOf(w[n]) = CidOf(v[n])
    <2>1. v[n] \in Entries /\ EntryOK(d, v[n])
      BY DEF GoodView
    <2>2. CASE n = k
      <3>1. v[n].temp # None
        BY <2>2, NoneIsNoId
      <3>2. v[n].sender = UserOf[d] /\ CidOf(v[n]) = e.cid
        BY <2>1, <2>2, <3>1, CidOfTemp DEF EntryOK
      <3>3. w[n] = x
        BY <1>1, <1>0, <2>2
      <3>. QED BY <1>2, <3>2, <3>3
    <2>3. CASE n # k
      BY <1>0, <2>1, <2>3
    <2>. QED BY <2>2, <2>3
  <1>4. w \in Seq(Entries) /\ DOMAIN w = DOMAIN v
    BY <1>0, <1>1, <1>2
  <1>. QED BY <1>3, <1>4, RelabelledView

\* A message that the list does not have is added.
LEMMA NewsView ==
    ASSUME ChatInv, NEW d \in Devices, NEW v, GoodView(d, v), NEW e,
           e.row \in Gateway!Committed, rows[e.row].sender = e.sender,
           rows[e.row].cid = e.cid, e.at \in Nat, e.readers \in SUBSET Users,
           e.row \notin Rows(v),
           e.sender = UserOf[d] => \A n \in DOMAIN v : v[n].temp # e.cid,
           NEW w, w = Append(v, FromServer(e))
    PROVE  GoodView(d, w) /\ e.row \in Rows(w)
  <1>1. PICK x : x = FromServer(e)
    OBVIOUS
  <1>2. /\ x \in Entries /\ EntryOK(d, x)
        /\ x.sender = e.sender /\ CidOf(x) = e.cid /\ x.row = e.row /\ x.row # 0
    BY <1>1, ServerEntry
  <1>3. /\ v \in Seq(Entries) /\ NoneTwice(v)
        /\ \A n \in DOMAIN v : EntryOK(d, v[n])
    BY DEF GoodView
  <1>4. ASSUME NEW n \in DOMAIN v, v[n].sender = x.sender, CidOf(v[n]) = CidOf(x)
        PROVE  FALSE
    <2>1. PICK y : y = v[n]
      OBVIOUS
    <2>2. y.row = e.row \/ (y.temp = e.cid /\ e.sender = UserOf[d])
      BY <1>2, <1>3, <1>4, <2>1, NewsEntry
    <2>. QED BY <1>2, <2>1, <2>2 DEF Rows
  <1>5. /\ w \in Seq(Entries) /\ NoneTwice(w)
        /\ \A n \in DOMAIN w : (n \in DOMAIN v /\ w[n] = v[n]) \/ w[n] = x
        /\ Len(v) + 1 \in DOMAIN w /\ w[Len(v) + 1] = x
    BY <1>1, <1>2, <1>3, <1>4, AddedView
  <1>6. e.row \in Rows(w)
    BY <1>2, <1>5 DEF Rows
  <1>. QED BY <1>2, <1>3, <1>5, <1>6 DEF GoodView

LEMMA NewAction ==
    ASSUME ChatInv, RowsKept, NEW d \in Devices, ContinueNew(d)
    PROVE  Kept /\ ClientInv'
  <1>1. PICK e : e = Head(cont[d])
    OBVIOUS
  <1>2. PICK v : v = view[d]
    OBVIOUS
  <1>3. PICK mine : mine = IF e.sender = UserOf[d] THEN {n \in DOMAIN v : v[n].temp = e.cid}
                                                   ELSE {}
    OBVIOUS
  <1>6. /\ cont[d] # <<>> /\ e.type = "message:new"
        /\ cont' = [cont EXCEPT ![d] = Tail(@)]
        /\ UNCHANGED <<hasSocket, link, sub, timers, tries>>
        /\ \/ /\ \E n \in mine :
                   \E w \in Chronological([v EXCEPT ![n] = FromServer(e)]) : Show(d, w)
              /\ UNCHANGED <<inbox, buffer>>
           \/ UNCHANGED <<view, seen, load, inbox, buffer>>
           \/ /\ mine = {} /\ e.row \notin Rows(v)
              /\ \E w \in Chronological(Append(v, FromServer(e))) :
                   /\ Show(d, w)
                   /\ \/ UNCHANGED <<inbox, buffer>>
                      \/ Emit(d, <<DeliveredEvent(e.row), MarkReadEvent(w)>>)
    BY <1>1, <1>2, <1>3 DEF ContinueNew, First
  <1>7. /\ EmittedKept /\ TriesKept
        /\ SeenKept => ContOK'
        /\ cont' \in [Devices -> Seq(Deferred)]
        /\ e \in Deferred /\ NewsOK(e)
    BY <1>1, <1>6, ContTail
  <1>8. /\ e.row \in Gateway!Committed /\ rows[e.row].sender = e.sender
        /\ rows[e.row].cid = e.cid
        /\ e.cid \in ClientIds /\ e.at \in Nat /\ e.readers \in SUBSET Users
        /\ e.row \in Nat
    BY <1>6, <1>7, DeferredFields DEF NewsOK
  <1>9. GoodView(d, v)
    BY <1>2 DEF ChatInv, ClientInv, ViewsOK
  <1>10. /\ timers' \in [Devices -> SUBSET ClientIds]
         /\ LinksOK'
    BY <1>6 DEF ChatInv, ClientInv, ClientTypes, LinksOK
  <1>. DEFINE Listed == /\ ViewsOK' /\ PagesOK'
                        /\ view' \in [Devices -> Seq(Entries)]
                        /\ seen' \in [Devices -> SUBSET Nat]
                        /\ load' \in [Devices -> Load]
              Said == /\ SaidsOK'
                      /\ inbox' \in [Conns -> Seq(ClientEvent)]
                      /\ buffer' \in [Devices -> Seq(ClientEvent)]
  <1>11. ASSUME NEW n \in mine, NEW w \in Chronological([v EXCEPT ![n] = FromServer(e)]),
                Show(d, w), UNCHANGED <<inbox, buffer>>
         PROVE  Kept /\ Listed /\ Said
    <2>1. n \in DOMAIN v /\ v[n].temp = e.cid /\ e.sender = UserOf[d]
      BY <1>3, <1>11
    <2>2. GoodView(d, w)
      <3>1. PICK a : a = [v EXCEPT ![n] = FromServer(e)]
        OBVIOUS
      <3>2. GoodView(d, a)
        BY <1>8, <1>9, <2>1, <3>1, ReplacedView
      <3>. QED BY <1>11, <3>1, <3>2, SortedView
    <2>3. Kept
      BY <1>7, <1>11, <2>2, ShowFacts DEF Kept, GoodView
    <2>. QED BY <1>6, <1>11, <2>2, <2>3, ShowGood, NothingEmitted
  <1>12. ASSUME UNCHANGED <<view, seen, load, inbox, buffer>>
         PROVE  Kept /\ Listed /\ Said
    <2>1. Kept
      BY <1>7, <1>12 DEF Kept, SeenKept
    <2>2. Listed
      BY <1>6, <1>12, <2>1, NothingShown, PagesStep DEF ChatInv, ClientInv, ClientTypes
    <2>. QED BY <1>12, <2>1, <2>2, NothingEmitted
  <1>13. ASSUME mine = {}, e.row \notin Rows(v),
                NEW w \in Chronological(Append(v, FromServer(e))), Show(d, w),
                \/ UNCHANGED <<inbox, buffer>>
                \/ Emit(d, <<DeliveredEvent(e.row), MarkReadEvent(w)>>)
         PROVE  Kept /\ Listed /\ Said
    <2>1. PICK a : a = Append(v, FromServer(e))
      OBVIOUS
    <2>2. GoodView(d, a) /\ e.row \in Rows(a)
      <3>1. e.sender = UserOf[d] => \A n \in DOMAIN v : v[n].temp # e.cid
        BY <1>3, <1>13
      <3>. QED BY <1>8, <1>9, <1>13, <2>1, <3>1, NewsView
    <2>3. GoodView(d, w) /\ e.row \in Rows(w)
      BY <1>13, <2>1, <2>2, SortedView
    <2>4. Kept /\ e.row \in seen'[d]
      BY <1>7, <1>13, <2>3, ShowFacts DEF Kept, GoodView
    <2>5. Listed
      BY <1>6, <1>13, <2>3, <2>4, ShowGood
    <2>6. ASSUME Emit(d, <<DeliveredEvent(e.row), MarkReadEvent(w)>>)
          PROVE  Said
      <3>1. PICK a1, a2 : a1 = DeliveredEvent(e.row) /\ a2 = MarkReadEvent(w)
        OBVIOUS
      <3>2. PICK es : es = <<a1, a2>>
        OBVIOUS
      <3>3. a1 \in ClientEvent /\ SaidOK(d, a1)'
        BY <1>8, <2>4, <3>1 DEF DeliveredEvent, ClientEvent, SaidOK
      <3>4. a2 \in ClientEvent /\ SaidOK(d, a2)'
        BY <2>3, <3>1, MarkReadSaid DEF GoodView
      <3>5. es \in Seq(ClientEvent) /\ \A n \in DOMAIN es : es[n] = a1 \/ es[n] = a2
        BY <3>2, <3>3, <3>4
      <3>6. \A n \in DOMAIN es : SaidOK(d, es[n])'
        BY <3>3, <3>4, <3>5
      <3>. QED BY <2>4, <2>6, <3>1, <3>2, <3>5, <3>6, EmitStep
    <2>. QED BY <1>13, <2>4, <2>5, <2>6, NothingEmitted
  <1>14. Kept /\ Listed /\ Said
    <2>. HIDE DEF Listed, Said
    <2>. QED BY <1>6, <1>11, <1>12, <1>13
  <1>15. ContOK'
    BY <1>7, <1>14 DEF Kept
  <1>16. ClientTypes'
    BY <1>6, <1>7, <1>10, <1>14 DEF ChatInv, ClientInv, ClientTypes
  <1>. QED BY <1>10, <1>14, <1>15, <1>16 DEF ClientInv

\* An entry may get a status that goes with having a row or not.
Fits(x, status) ==
    \/ status = "read"
    \/ x.row = 0 /\ status \in {"sending", "failed"}
    \/ x.row # 0 /\ status = "delivered" /\ ShownByOther(x.row)

LEMMA RestatedView ==
    ASSUME NEW d \in Devices, NEW v, GoodView(d, v), NEW w, w = [n \in DOMAIN v |-> w[n]],
           \A n \in DOMAIN v :
               \/ w[n] = v[n]
               \/ /\ w[n] \in Entries
                  /\ w[n].row = v[n].row /\ w[n].temp = v[n].temp
                  /\ w[n].sender = v[n].sender
                  /\ Fits(v[n], w[n].status)
    PROVE  GoodView(d, w)
  <1>1. ASSUME NEW n \in DOMAIN v
        PROVE  /\ w[n] \in Entries
               /\ EntryOK(d, w[n])
               /\ w[n].sender = v[n].sender
               /\ CidOf(w[n]) = CidOf(v[n])
    <2>1. PICK x, y : x = v[n] /\ y = w[n]
      OBVIOUS
    <2>2. x \in Entries /\ EntryOK(d, x)
      BY <2>1 DEF GoodView
    <2>3. CASE y = x
      BY <2>1, <2>2, <2>3
    <2>4. CASE /\ y \in Entries /\ y.row = x.row /\ y.temp = x.temp
               /\ y.sender = x.sender /\ Fits(x, y.status)
      BY <2>1, <2>2, <2>4 DEF Fits, EntryOK, CidOf
    <2>. QED BY <2>1, <2>3, <2>4
  <1>2. w \in Seq(Entries) /\ DOMAIN w = DOMAIN v
    <2>1. v \in Seq(Entries)
      BY DEF GoodView
    <2>2. DOMAIN v = 1..Len(v) /\ Len(v) \in Nat
      BY <2>1
    <2>3. w = [n \in 1..Len(v) |-> w[n]] /\ \A n \in 1..Len(v) : w[n] \in Entries
      BY <1>1, <2>2
    <2>. QED BY <2>2, <2>3
  <1>. QED BY <1>1, <1>2, RelabelledView

LEMMA StatusEntry ==
    ASSUME NEW x \in Entries, NEW status \in Statuses, NEW y, y = [x EXCEPT !.status = status]
    PROVE  /\ y \in Entries /\ y.row = x.row /\ y.temp = x.temp /\ y.sender = x.sender
           /\ y.status = status
  BY DEF Entries

LEMMA StatusView ==
    ASSUME NEW d \in Devices, NEW v, GoodView(d, v), NEW ns, NEW status \in Statuses,
           \A n \in DOMAIN v : n \in ns => Fits(v[n], status)
    PROVE  GoodView(d, SetStatus(v, ns, status))
  <1>1. PICK w : w = SetStatus(v, ns, status)
    OBVIOUS
  <1>2. /\ w = [n \in DOMAIN v |-> w[n]]
        /\ \A n \in DOMAIN v : w[n] = IF n \in ns THEN [v[n] EXCEPT !.status = status] ELSE v[n]
    BY <1>1 DEF SetStatus
  <1>3. ASSUME NEW n \in DOMAIN v
        PROVE  \/ w[n] = v[n]
               \/ /\ w[n] \in Entries
                  /\ w[n].row = v[n].row /\ w[n].temp = v[n].temp
                  /\ w[n].sender = v[n].sender
                  /\ Fits(v[n], w[n].status)
    <2>1. PICK x, y : x = v[n] /\ y = w[n]
      OBVIOUS
    <2>2. x \in Entries
      BY <2>1 DEF GoodView
    <2>3. CASE n \in ns
      <3>1. y = [x EXCEPT !.status = status]
        BY <1>2, <2>1, <2>3
      <3>. QED BY <2>1, <2>2, <2>3, <3>1, StatusEntry
    <2>4. CASE n \notin ns
      BY <1>2, <2>4
    <2>. QED BY <2>3, <2>4
  <1>. QED BY <1>1, <1>2, <1>3, RestatedView

LEMMA ReadAction ==
    ASSUME ChatInv, RowsKept, NEW d \in Devices, ContinueRead(d)
    PROVE  Kept /\ ClientInv'
  <1>1. PICK e : e = Head(cont[d])
    OBVIOUS
  <1>2. PICK v : v = view[d]
    OBVIOUS
  <1>. DEFINE Covered(x) == x.sender = UserOf[d] /\ x.at <= e.at /\ e.user \notin x.readBy
              Read(x) == [x EXCEPT !.status = "read", !.readBy = @ \cup {e.user}]
  <1>3. PICK w : w = [n \in DOMAIN v |-> IF Covered(v[n]) THEN Read(v[n]) ELSE v[n]]
    OBVIOUS
  <1>4. /\ cont[d] # <<>> /\ e.type = "chat.read"
        /\ cont' = [cont EXCEPT ![d] = Tail(@)]
        /\ UNCHANGED <<hasSocket, link, sub, timers, tries, inbox, buffer>>
        /\ Show(d, w) \/ UNCHANGED <<view, seen, load>>
    BY <1>1, <1>2, <1>3 DEF ContinueRead
  <1>5. /\ EmittedKept /\ TriesKept
        /\ SeenKept => ContOK'
        /\ cont' \in [Devices -> Seq(Deferred)]
        /\ e \in Deferred
    BY <1>1, <1>4, ContTail
  <1>6. e.user \in Users
    BY <1>4, <1>5, DeferredFields
  <1>7. GoodView(d, w)
    <2>1. GoodView(d, v)
      BY <1>2 DEF ChatInv, ClientInv, ViewsOK
    <2>2. ASSUME NEW x \in Entries, NEW y, y = Read(x)
          PROVE  /\ y \in Entries /\ y.row = x.row /\ y.temp = x.temp /\ y.sender = x.sender
                 /\ y.status = "read"
      BY <1>6, <2>2 DEF Entries, Statuses
    <2>. HIDE DEF Covered, Read
    <2>3. ASSUME NEW n \in DOMAIN v
          PROVE  \/ w[n] = v[n]
                 \/ /\ w[n] \in Entries
                    /\ w[n].row = v[n].row /\ w[n].temp = v[n].temp
                    /\ w[n].sender = v[n].sender
                    /\ Fits(v[n], w[n].status)
      <3>1. v[n] \in Entries
        BY <2>1 DEF GoodView
      <3>2. w[n] = Read(v[n]) \/ w[n] = v[n]
        BY <1>3
      <3>. QED BY <2>2, <3>1, <3>2 DEF Fits
    <2>4. w = [n \in DOMAIN v |-> w[n]]
      BY <1>3
    <2>. QED BY <2>1, <2>3, <2>4, RestatedView
  <1>. HIDE DEF Covered, Read
  <1>8. Kept
    <2>1. CASE Show(d, w)
      BY <1>5, <1>7, <2>1, ShowFacts DEF Kept, GoodView
    <2>2. CASE UNCHANGED <<view, seen, load>>
      BY <1>5, <2>2 DEF Kept, SeenKept
    <2>. QED BY <1>4, <2>1, <2>2
  <1>9. /\ ViewsOK' /\ PagesOK'
        /\ view' \in [Devices -> Seq(Entries)]
        /\ seen' \in [Devices -> SUBSET Nat]
        /\ load' \in [Devices -> Load]
    <2>1. CASE Show(d, w)
      BY <1>4, <1>7, <1>8, <2>1, ShowGood
    <2>2. CASE UNCHANGED <<view, seen, load>>
      BY <1>4, <1>8, <2>2, NothingShown, PagesStep DEF ChatInv, ClientInv, ClientTypes
    <2>. QED BY <1>4, <2>1, <2>2
  <1>10. SaidsOK'
    BY <1>4, <1>8, NothingEmitted
  <1>11. ContOK' /\ LinksOK'
    BY <1>4, <1>5, <1>8 DEF Kept, ChatInv, ClientInv, LinksOK
  <1>12. ClientTypes'
    BY <1>4, <1>5, <1>9 DEF ChatInv, ClientInv, ClientTypes
  <1>. QED BY <1>8, <1>9, <1>10, <1>11, <1>12 DEF ClientInv

LEMMA TimerAction ==
    ASSUME ChatInv, RowsKept, NEW d \in Devices, NEW m \in ClientIds, TimerFires(d, m)
    PROVE  Kept /\ ClientInv'
  <1>1. PICK v : v = view[d]
    OBVIOUS
  <1>2. PICK w : w = Marked(v, m, "failed")
    OBVIOUS
  <1>3. /\ m \in timers[d]
        /\ timers' = [timers EXCEPT ![d] = @ \ {m}]
        /\ Show(d, w)
        /\ UNCHANGED <<hasSocket, link, sub, cont, tries, inbox, buffer>>
    BY <1>1, <1>2 DEF TimerFires
  <1>4. /\ timers' \in [Devices -> SUBSET ClientIds]
        /\ timers'[d] \subseteq timers[d]
        /\ \A o \in Devices \ {d} : timers'[o] = timers[o]
    BY <1>3 DEF ChatInv, ClientInv, ClientTypes
  <1>5. GoodView(d, w)
    <2>1. GoodView(d, v)
      BY <1>1 DEF ChatInv, ClientInv, ViewsOK
    <2>2. \A n \in DOMAIN v : v[n].temp = m => Fits(v[n], "failed")
      BY <1>3, <2>1 DEF GoodView, EntryOK, Fits
    <2>3. "failed" \in Statuses
      BY DEF Statuses
    <2>. QED BY <1>2, <2>1, <2>2, <2>3, StatusView DEF Marked
  <1>6. Kept
    BY <1>3, <1>5, ShowFacts, NothingTapped DEF Kept, GoodView
  <1>7. /\ ViewsOK' /\ PagesOK'
        /\ view' \in [Devices -> Seq(Entries)]
        /\ seen' \in [Devices -> SUBSET Nat]
        /\ load' \in [Devices -> Load]
    BY <1>3, <1>4, <1>5, <1>6, ShowGood
  <1>8. SaidsOK' /\ ContOK' /\ LinksOK'
    BY <1>3, <1>6, NothingEmitted, ContSame DEF ChatInv, ClientInv, LinksOK
  <1>9. ClientTypes'
    BY <1>3, <1>4, <1>7 DEF ChatInv, ClientInv, ClientTypes
  <1>. QED BY <1>6, <1>7, <1>8, <1>9 DEF ClientInv

\* A list stays good, whatever timers start, if they are not for stored messages.
LEMMA GoodTimed ==
    ASSUME Kept, NEW d \in Devices, NEW v, GoodView(d, v),
           \A n \in DOMAIN v : v[n].row # 0 => v[n].temp \notin timers'[d]
    PROVE  GoodView(d, v)'
  <1>1. ASSUME NEW n \in DOMAIN v
        PROVE  EntryOK(d, v[n])' /\ (v[n].row = 0 \/ v[n].row \in Gateway!Committed)
    <2>1. v[n] \in Entries /\ EntryOK(d, v[n])
      BY DEF GoodView
    <2>2. v[n].row # 0 => v[n].row \in Gateway!Committed
      BY <2>1 DEF EntryOK
    <2>. QED BY <2>1, <2>2, EntryStays
  <1>. QED BY <1>1, NoneTwiceStays DEF GoodView, Kept

\* The entry that the retry button belongs to is the only one with its
\* clientTempId, and has no row.
LEMMA FailedEntry ==
    ASSUME NEW d \in Devices, NEW v, GoodView(d, v), NEW m \in ClientIds,
           \E n \in DOMAIN v : v[n].temp = m /\ v[n].status = "failed"
    PROVE  /\ DrawnBy[m] = d /\ Emitted(m)
           /\ \A n \in DOMAIN v : v[n].temp = m => v[n].row = 0
  <1>1. PICK k \in DOMAIN v : v[k].temp = m /\ v[k].status = "failed"
    OBVIOUS
  <1>2. ASSUME NEW n \in DOMAIN v, v[n].temp = m
        PROVE  EntryOK(d, v[n]) /\ v[n].sender = UserOf[d] /\ CidOf(v[n]) = m
    <2>1. PICK x : x = v[n]
      OBVIOUS
    <2>2. EntryOK(d, x) /\ x.temp = m /\ m # None
      BY <1>2, <2>1, NoneIsNoId DEF GoodView
    <2>. QED BY <2>1, <2>2, CidOfTemp DEF EntryOK
  <1>3. EntryOK(d, v[k]) /\ m # None
    BY <1>1, <1>2, NoneIsNoId
  <1>4. v[k].row = 0 /\ DrawnBy[m] = d /\ Emitted(m)
    BY <1>1, <1>3 DEF EntryOK
  <1>5. ASSUME NEW n \in DOMAIN v, v[n].temp = m
        PROVE  n = k
    BY <1>1, <1>2, <1>5 DEF GoodView, NoneTwice
  <1>. QED BY <1>4, <1>5

LEMMA RetryAction ==
    ASSUME ChatInv, RowsKept, NEW d \in Devices, NEW m \in ClientIds, Retry(d, m)
    PROVE  Kept /\ ClientInv'
  <1>1. PICK v : v = view[d]
    OBVIOUS
  <1>2. PICK st \in {"sending", "failed"} : st = IF hasSocket[d] THEN "sending" ELSE "failed"
    OBVIOUS
  <1>3. PICK w : w = Marked(v, m, st)
    OBVIOUS
  <1>4. /\ \E n \in DOMAIN v : v[n].temp = m /\ v[n].status = "failed"
        /\ tries[m] < MaxTries
        /\ tries' = [tries EXCEPT ![m] = @ + 1]
        /\ Show(d, w)
        /\ Emit(d, <<SendEvent(m)>>)
        /\ timers' = [timers EXCEPT ![d] = IF hasSocket[d] THEN @ \cup {m} ELSE @ \ {m}]
        /\ UNCHANGED <<hasSocket, link, sub, cont>>
    BY <1>1, <1>2, <1>3 DEF Retry
  <1>5. GoodView(d, v)
    BY <1>1 DEF ChatInv, ClientInv, ViewsOK
  <1>6. /\ DrawnBy[m] = d /\ Emitted(m)
        /\ \A n \in DOMAIN v : v[n].temp = m => v[n].row = 0
    BY <1>4, <1>5, FailedEntry
  <1>7. /\ timers' \in [Devices -> SUBSET ClientIds]
        /\ timers'[d] \subseteq timers[d] \cup {m}
        /\ \A o \in Devices \ {d} : timers'[o] = timers[o]
    BY <1>4 DEF ChatInv, ClientInv, ClientTypes
  <1>8. GoodView(d, w)
    <2>1. \A n \in DOMAIN v : v[n].temp = m => Fits(v[n], st)
      BY <1>6 DEF Fits
    <2>2. st \in Statuses
      BY DEF Statuses
    <2>. QED BY <1>3, <1>5, <2>1, <2>2, StatusView DEF Marked
  <1>9. /\ EmittedKept /\ TriesKept
        /\ tries' \in [ClientIds -> 0..MaxTries]
    <2>1. tries \in [ClientIds -> 0..MaxTries] /\ MaxTries \in Nat
      BY SystemAssumption DEF SystemAssumption, ChatInv, ClientInv, ClientTypes
    <2>2. tries' \in [ClientIds -> 0..MaxTries]
      BY <1>4, <2>1
    <2>3. TriesKept
      BY <1>4, <2>1 DEF TriesKept
    <2>4. EmittedKept
      BY <1>4, <2>3 DEF EmittedKept, TriesKept, Emitted, Pending
    <2>. QED BY <2>2, <2>3, <2>4
  <1>10. Kept
    BY <1>4, <1>8, <1>9, ShowFacts DEF Kept, GoodView
  <1>11. GoodView(d, w)'
    <2>1. \A n \in DOMAIN v : EntryOK(d, v[n])
      BY <1>5 DEF GoodView
    <2>2. ASSUME NEW n \in DOMAIN w
          PROVE  w[n].row # 0 => w[n].temp \notin timers'[d]
      <3>1. PICK y : y = w[n]
        OBVIOUS
      <3>2. EntryOK(d, y)
        BY <1>8, <3>1 DEF GoodView
      <3>3. y.temp = m => y.row = 0
        <4>1. PICK x : x = v[n]
          OBVIOUS
        <4>2. n \in DOMAIN v /\ y = IF x.temp = m THEN [x EXCEPT !.status = st] ELSE x
          BY <1>3, <3>1, <4>1 DEF Marked, SetStatus
        <4>3. x \in Entries
          BY <1>5, <4>1, <4>2 DEF GoodView
        <4>4. y.row = x.row /\ y.temp = x.temp
          BY <4>2, <4>3, StatusEntry DEF Statuses
        <4>. QED BY <1>6, <4>1, <4>2, <4>4
      <3>. QED BY <1>7, <3>1, <3>2, <3>3 DEF EntryOK
    <2>. QED BY <1>8, <1>10, <2>2, GoodTimed
  <1>12. /\ ViewsOK' /\ PagesOK'
         /\ view' \in [Devices -> Seq(Entries)]
         /\ seen' \in [Devices -> SUBSET Nat]
         /\ load' \in [Devices -> Load]
    BY <1>4, <1>7, <1>10, <1>11, ShowStep
  <1>13. /\ SaidsOK'
         /\ inbox' \in [Conns -> Seq(ClientEvent)]
         /\ buffer' \in [Devices -> Seq(ClientEvent)]
    <2>1. PICK e : e = SendEvent(m)
      OBVIOUS
    <2>2. Emitted(m)'
      BY <1>6, <1>9 DEF EmittedKept
    <2>3. e \in ClientEvent /\ SaidOK(d, e)'
      BY <1>6, <2>1, <2>2 DEF SendEvent, ClientEvent, SaidOK
    <2>. QED BY <1>4, <1>10, <2>1, <2>3, EmitOne
  <1>14. ContOK' /\ LinksOK'
    BY <1>4, <1>10, ContSame DEF ChatInv, ClientInv, LinksOK
  <1>15. ClientTypes'
    BY <1>4, <1>7, <1>9, <1>12, <1>13 DEF ChatInv, ClientInv, ClientTypes
  <1>. QED BY <1>10, <1>12, <1>13, <1>14, <1>15 DEF ClientInv

\* The next event of a connection is one that the server has sent.
LEMMA NextEvent ==
    ASSUME ChatInv, NEW d \in Devices, link[d] # None, out[link[d]] # <<>>,
           NEW e, e = Head(out[link[d]])
    PROVE  /\ e \in Gateway!Event /\ EventOK(e)
           /\ e.type = "sent" => /\ e.row \in Gateway!Committed
                                 /\ rows[e.row].sender = UserOf[d]
                                 /\ rows[e.row].cid = e.cid
                                 /\ e.cid \in ClientIds
  <1>1. PICK c \in Conns : c = link[d] /\ DeviceOf[c] = d
    BY DEF ChatInv, ClientInv, ClientTypes, LinksOK
  <1>2. out \in [Conns -> Seq(Gateway!Event)]
    BY DEF ChatInv, Gateway!LedgerInv, Gateway!SendInv, Gateway!TypeOK
  <1>3. 1 \in DOMAIN out[c] /\ e = out[c][1] /\ e \in Gateway!Event
    BY <1>1, <1>2
  <1>4. EventOK(e)
    BY <1>3 DEF ChatInv, TrafficInv, QueuesOK
  <1>5. ASSUME e.type = "sent"
        PROVE  /\ e.row \in Gateway!Committed
               /\ rows[e.row].sender = Owner[c]
               /\ rows[e.row].cid = e.cid
    <2>1. e \in Gateway!Queued(c)
      BY <1>3 DEF Gateway!Queued
    <2>. QED BY <1>5, <2>1 DEF ChatInv, Gateway!LedgerInv, Gateway!ToldIsStored
  <1>6. Owner[c] = UserOf[d]
    BY <1>1 DEF Owner
  <1>7. e.type = "sent" => e.cid \in ClientIds
    BY <1>5, CommittedRow DEF ChatInv
  <1>. QED BY <1>3, <1>4, <1>5, <1>6, <1>7

\* What the steps that receive an event have in common.
LEMMA ReceiveKept ==
    ASSUME RowsKept, SeenKept, NEW d \in Devices, NEW e, Receive(d, e), cont' = cont
    PROVE  Kept
  BY NothingTapped DEF Receive, Kept

Acknowledged(x, e) ==
    IF x.temp = e.cid THEN [x EXCEPT !.row = e.row, !.status = "sent"] ELSE x

LEMMA AcknowledgedView ==
    ASSUME ChatInv, NEW d \in Devices, NEW v, GoodView(d, v), NEW e,
           e.row \in Gateway!Committed, rows[e.row].sender = UserOf[d],
           rows[e.row].cid = e.cid, e.cid \in ClientIds,
           NEW w, w = [n \in DOMAIN v |-> Acknowledged(v[n], e)]
    PROVE  /\ w \in Seq(Entries) /\ NoneTwice(w)
           /\ \A n \in DOMAIN w :
                  \/ n \in DOMAIN v /\ w[n] = v[n] /\ v[n].temp # e.cid
                  \/ /\ w[n] \in Entries
                     /\ w[n].row = e.row /\ w[n].temp = e.cid
                     /\ w[n].sender = UserOf[d] /\ w[n].status = "sent"
                     /\ DrawnBy[e.cid] = d /\ Emitted(e.cid)
  <1>1. e.row \in Nat \ {0} /\ e.cid # None
    BY CommittedRow, NoneIsNoId DEF ChatInv
  <1>2. ASSUME NEW n \in DOMAIN v
        PROVE  /\ v[n] \in Entries /\ w[n] \in Entries
               /\ w[n].sender = v[n].sender /\ CidOf(w[n]) = CidOf(v[n])
               /\ \/ w[n] = v[n] /\ v[n].temp # e.cid
                  \/ /\ w[n].row = e.row /\ w[n].temp = e.cid
                     /\ w[n].sender = UserOf[d] /\ w[n].status = "sent"
                     /\ DrawnBy[e.cid] = d /\ Emitted(e.cid)
    <2>1. PICK x, y : x = v[n] /\ y = w[n]
      OBVIOUS
    <2>2. x \in Entries /\ EntryOK(d, x)
      BY <2>1 DEF GoodView
    <2>3. CASE x.temp = e.cid
      <3>1. y = [x EXCEPT !.row = e.row, !.status = "sent"]
        BY <2>1, <2>3 DEF Acknowledged
      <3>2. /\ y \in Entries /\ y.row = e.row /\ y.temp = e.cid /\ y.status = "sent"
            /\ y.sender = x.sender
        BY <1>1, <2>2, <2>3, <3>1 DEF Entries, Statuses
      <3>3. x.sender = UserOf[d] /\ CidOf(x) = e.cid /\ DrawnBy[e.cid] = d /\ Emitted(e.cid)
        BY <1>1, <2>2, <2>3, CidOfTemp DEF EntryOK
      <3>4. CidOf(y) = e.cid
        BY <1>1, <3>2 DEF CidOf
      <3>. QED BY <2>1, <2>2, <3>2, <3>3, <3>4
    <2>4. CASE x.temp # e.cid
      BY <2>1, <2>2, <2>4 DEF Acknowledged
    <2>. QED BY <2>3, <2>4
  <1>3. w \in Seq(Entries) /\ DOMAIN w = DOMAIN v
    <2>1. v \in Seq(Entries)
      BY DEF GoodView
    <2>2. DOMAIN v = 1..Len(v) /\ Len(v) \in Nat
      BY <2>1
    <2>3. w = [n \in 1..Len(v) |-> w[n]] /\ \A n \in 1..Len(v) : w[n] \in Entries
      BY <1>2, <2>2
    <2>. QED BY <2>2, <2>3
  <1>4. NoneTwice(w)
    BY <1>2, <1>3 DEF GoodView, NoneTwice
  <1>. QED BY <1>2, <1>3, <1>4

\* The acknowledgement of a message gives its entry the row, and ends its timer.
LEMMA SentView ==
    ASSUME ChatInv, Kept, NEW d \in Devices, NEW e,
           e.row \in Gateway!Committed, rows[e.row].sender = UserOf[d],
           rows[e.row].cid = e.cid, e.cid \in ClientIds, OnSent(d, e)
    PROVE  /\ ViewsOK' /\ PagesOK'
           /\ view' \in [Devices -> Seq(Entries)]
           /\ seen' \in [Devices -> SUBSET Nat]
           /\ load' \in [Devices -> Load]
           /\ timers' \in [Devices -> SUBSET ClientIds]
  <1>1. PICK v : v = view[d]
    OBVIOUS
  <1>2. PICK w : w = [n \in DOMAIN v |-> Acknowledged(v[n], e)]
    OBVIOUS
  <1>3. timers' = [timers EXCEPT ![d] = @ \ {e.cid}] /\ Show(d, w)
    BY <1>1, <1>2 DEF OnSent, Acknowledged
  <1>4. GoodView(d, v)
    BY <1>1 DEF ChatInv, ClientInv, ViewsOK
  <1>5. /\ w \in Seq(Entries) /\ NoneTwice(w)
        /\ \A n \in DOMAIN w :
               \/ n \in DOMAIN v /\ w[n] = v[n] /\ v[n].temp # e.cid
               \/ /\ w[n] \in Entries
                  /\ w[n].row = e.row /\ w[n].temp = e.cid
                  /\ w[n].sender = UserOf[d] /\ w[n].status = "sent"
                  /\ DrawnBy[e.cid] = d /\ Emitted(e.cid)
    BY <1>2, <1>4, AcknowledgedView
  <1>6. /\ timers' \in [Devices -> SUBSET ClientIds]
        /\ timers'[d] = timers[d] \ {e.cid}
        /\ \A o \in Devices \ {d} : timers'[o] = timers[o]
    BY <1>3 DEF ChatInv, ClientInv, ClientTypes
  <1>7. /\ e.row \in Gateway!Committed' /\ rows'[e.row] = rows[e.row]
        /\ e.row # 0
    BY CommittedRow DEF ChatInv, Kept, RowsKept
  <1>8. ASSUME NEW n \in DOMAIN w
        PROVE  EntryOK(d, w[n])' /\ (w[n].row = 0 \/ w[n].row \in Gateway!Committed)
    <2>1. PICK y : y = w[n]
      OBVIOUS
    <2>2. CASE n \in DOMAIN v /\ y = v[n]
      <3>1. y \in Entries /\ EntryOK(d, y)
        BY <1>4, <2>2 DEF GoodView
      <3>2. y.row # 0 => y.temp \notin timers'[d] /\ y.row \in Gateway!Committed
        BY <1>6, <3>1 DEF EntryOK
      <3>. QED BY <2>1, <3>1, <3>2, EntryStays
    <2>3. CASE /\ y \in Entries
               /\ y.row = e.row /\ y.temp = e.cid
               /\ y.sender = UserOf[d] /\ y.status = "sent"
               /\ DrawnBy[e.cid] = d /\ Emitted(e.cid)
      <3>1. Emitted(y.temp)'
        BY <2>3 DEF Kept, EmittedKept
      <3>2. EntryOK(d, y)'
        BY <1>6, <1>7, <2>3, <3>1 DEF EntryOK
      <3>. QED BY <2>1, <2>3, <3>2
    <2>. QED BY <1>5, <2>1, <2>2, <2>3
  <1>9. GoodView(d, w)'
    BY <1>5, <1>8, NoneTwiceStays DEF GoodView, Kept
  <1>. QED BY <1>3, <1>6, <1>9, ShowStep

LEMMA DeliveredView ==
    ASSUME ChatInv, NEW d \in Devices, NEW v, GoodView(d, v), NEW i \in Gateway!Committed,
           ShownByOther(i), NEW ns, \A n \in DOMAIN v : n \in ns => v[n].row = i
    PROVE  GoodView(d, SetStatus(v, ns, "delivered"))
  <1>1. i # 0
    BY CommittedRow DEF ChatInv
  <1>2. \A n \in DOMAIN v : n \in ns => Fits(v[n], "delivered")
    BY <1>1 DEF Fits
  <1>3. "delivered" \in Statuses
    BY DEF Statuses
  <1>. QED BY <1>2, <1>3, StatusView

LEMMA ReceivedAction ==
    ASSUME ChatInv, RowsKept, NEW d \in Devices, Received(d)
    PROVE  Kept /\ ClientInv'
  <1>1. PICK e : e = Head(out[link[d]])
    OBVIOUS
  <1>2. /\ link[d] # None /\ out[link[d]] # <<>>
        /\ Receive(d, e)
    BY <1>1 DEF Received
  <1>3. /\ e \in Gateway!Event /\ EventOK(e)
        /\ e.type = "sent" => /\ e.row \in Gateway!Committed
                              /\ rows[e.row].sender = UserOf[d]
                              /\ rows[e.row].cid = e.cid
                              /\ e.cid \in ClientIds
    BY <1>1, <1>2, NextEvent
  <1>4. UNCHANGED <<hasSocket, link, sub, tries, inbox, buffer>>
    BY <1>2 DEF Receive
  <1>. DEFINE Listed == /\ ViewsOK' /\ PagesOK' /\ ContOK'
                        /\ view' \in [Devices -> Seq(Entries)]
                        /\ seen' \in [Devices -> SUBSET Nat]
                        /\ load' \in [Devices -> Load]
                        /\ timers' \in [Devices -> SUBSET ClientIds]
                        /\ cont' \in [Devices -> Seq(Deferred)]
  <1>5. timers \in [Devices -> SUBSET ClientIds] /\ load \in [Devices -> Load]
    BY DEF ChatInv, ClientInv, ClientTypes
  <1>6. CASE Defer(d, e) /\ e.type \in {"message:new", "chat.read"}
    <2>1. /\ cont' = [cont EXCEPT ![d] = Append(@, e)]
          /\ UNCHANGED <<view, seen, load, timers>>
      BY <1>6 DEF Defer
    <2>2. e \in Deferred /\ e.type # "send"
      BY <1>3, <1>6 DEF Deferred
    <2>3. EmittedKept
      <3>1. ASSUME NEW p \in ClientIds, Emitted(p)
            PROVE  Emitted(p)'
        <4>1. tries'[p] # 0
          BY <1>4, <3>1 DEF Emitted
        <4>2. ~Pending(p)'
          <5>. SUFFICES ASSUME NEW n \in DOMAIN cont'[DrawnBy[p]],
                               cont'[DrawnBy[p]][n].type = "send",
                               cont'[DrawnBy[p]][n].cid = p
                        PROVE  FALSE
            BY DEF Pending
          <5>1. DrawnBy[p] \in Devices /\ cont \in [Devices -> Seq(Deferred)]
            BY SystemAssumption DEF SystemAssumption, ChatInv, ClientInv, ClientTypes
          <5>2. PICK q \in Seq(Deferred) : q = cont[DrawnBy[p]]
            BY <5>1
          <5>3. cont'[DrawnBy[p]] = q \/ cont'[DrawnBy[p]] = Append(q, e)
            BY <2>1, <5>1, <5>2
          <5>4. \/ n \in DOMAIN q /\ cont'[DrawnBy[p]][n] = q[n]
                \/ cont'[DrawnBy[p]][n] = e
            BY <5>3
          <5>. QED BY <2>2, <3>1, <5>2, <5>4 DEF Emitted, Pending
        <4>. QED BY <4>1, <4>2 DEF Emitted
      <3>. QED BY <3>1 DEF EmittedKept
    <2>4. Kept
      BY <1>4, <2>1, <2>3 DEF Kept, SeenKept, TriesKept
    <2>5. NewsOK(e)'
      BY <1>3, NewsStays DEF EventOK
    <2>6. ContOK' /\ cont' \in [Devices -> Seq(Deferred)]
      BY <2>1, <2>2, <2>4, <2>5, ContAppend
    <2>7. Listed
      BY <1>5, <2>1, <2>4, <2>6, NothingShown, PagesStep DEF ChatInv, ClientInv, ClientTypes
    <2>8. ClientTypes' /\ LinksOK' /\ SaidsOK'
      BY <1>4, <2>4, <2>7, NothingEmitted DEF ChatInv, ClientInv, ClientTypes, LinksOK
    <2>. QED BY <2>4, <2>7, <2>8 DEF ClientInv
  <1>7. CASE \/ OnSent(d, e) /\ e.type = "sent"
             \/ OnDelivered(d, e) /\ e.type = "delivered"
             \/ UNCHANGED <<view, seen, load, timers, cont>>
    <2>1. cont' = cont
      BY <1>7 DEF OnSent, OnDelivered
    <2>2. ASSUME OnSent(d, e), e.type = "sent"
          PROVE  Kept /\ Listed
      <3>1. PICK v : v = view[d]
        OBVIOUS
      <3>2. PICK w : w = [n \in DOMAIN v |-> Acknowledged(v[n], e)]
        OBVIOUS
      <3>3. Show(d, w)
        BY <2>2, <3>1, <3>2 DEF OnSent, Acknowledged
      <3>4. w \in Seq(Entries)
        <4>1. GoodView(d, v)
          BY <3>1 DEF ChatInv, ClientInv, ViewsOK
        <4>. QED BY <1>3, <2>2, <3>2, <4>1, AcknowledgedView
      <3>5. Kept
        BY <1>2, <2>1, <3>3, <3>4, ShowFacts, ReceiveKept
      <3>. QED BY <1>3, <2>1, <2>2, <3>5, SentView, ContSame
    <2>3. ASSUME OnDelivered(d, e), e.type = "delivered"
          PROVE  Kept /\ Listed
      <3>1. PICK v : v = view[d]
        OBVIOUS
      <3>2. PICK these : these = {n \in DOMAIN v : v[n].row = e.row /\ v[n].status # "read"}
        OBVIOUS
      <3>3. PICK w : w = SetStatus(v, these, "delivered")
        OBVIOUS
      <3>4. Show(d, w) /\ timers' = timers
        BY <2>3, <3>1, <3>2, <3>3 DEF OnDelivered
      <3>5. GoodView(d, w)
        <4>1. GoodView(d, v)
          BY <3>1 DEF ChatInv, ClientInv, ViewsOK
        <4>2. e.row \in Gateway!Committed /\ ShownByOther(e.row)
          BY <1>3, <2>3 DEF EventOK
        <4>3. \A n \in DOMAIN v : n \in these => v[n].row = e.row
          BY <3>2
        <4>. QED BY <3>3, <4>1, <4>2, <4>3, DeliveredView
      <3>6. Kept
        BY <1>2, <2>1, <3>4, <3>5, ShowFacts, ReceiveKept DEF GoodView
      <3>. QED BY <1>5, <2>1, <3>4, <3>5, <3>6, ShowGood, ContSame
    <2>4. ASSUME UNCHANGED <<view, seen, load, timers, cont>>
          PROVE  Kept /\ Listed
      <3>1. Kept
        BY <1>2, <2>4, ReceiveKept DEF SeenKept
      <3>. QED BY <1>5, <2>4, <3>1, NothingShown, PagesStep, ContSame
               DEF ChatInv, ClientInv, ClientTypes
    <2>5. Kept /\ Listed
      <3>. HIDE DEF Listed
      <3>. QED BY <1>7, <2>2, <2>3, <2>4
    <2>6. ClientTypes' /\ LinksOK' /\ SaidsOK'
      BY <1>4, <2>5, NothingEmitted DEF ChatInv, ClientInv, ClientTypes, LinksOK
    <2>. QED BY <2>5, <2>6 DEF ClientInv
  <1>. QED BY <1>2, <1>6, <1>7 DEF Receive

-----------------------------------------------------------------------------
(* Every step *)

LEMMA DeviceKeeps ==
    ASSUME ChatInv, NEW d \in Devices, DeviceStep(d) \/ (LoadFails(d) /\ UNCHANGED serverVars)
    PROVE  ChatInv'
  <1>1. [Gateway!Step]_Gateway!vars
    BY DeviceStepServer DEF ChatInv, ClientInv, serverVars, Gateway!vars
  <1>2. Gateway!LedgerInv' /\ RowsKept
    BY <1>1, ServerKeeps, CommittedKept DEF ChatInv
  <1>3. task' = task
    BY DEF DeviceStep, serverVars, Tapped, Connected, Disconnected, MessagesFetched, Received,
           Server!Connect, Server!Take
  <1>4. Kept /\ ClientInv'
    BY <1>2, SocketAction, LoadDoneAction, SendAction, NewAction, ReadAction, TimerAction,
       OpenAction, LoadActions, RetryAction, TapAction, ConnectedAction, DisconnectedAction,
       ReceivedAction
       DEF DeviceStep, Continue, UserStep
  <1>. QED BY <1>1, <1>2, <1>3, <1>4, DeviceTraffic DEF ChatInv

LEMMA ChatInvStep == ChatInv /\ [Next]_vars => ChatInv'
  <1>. SUFFICES ASSUME ChatInv, [Next]_vars PROVE ChatInv'
    OBVIOUS
  <1>1. CASE UNCHANGED vars
    <2>1. UNCHANGED <<serverVars, clientVars>>
      BY <1>1 DEF vars
    <2>2. [Gateway!Step]_Gateway!vars
      BY <2>1 DEF serverVars, Gateway!vars
    <2>3. Gateway!LedgerInv' /\ RowsKept
      BY <2>2, ServerKeeps, CommittedKept DEF ChatInv
    <2>4. Kept /\ ClientInv'
      <3>1. inbox \in [Conns -> Seq(ClientEvent)] /\ inbox' = inbox
        BY <2>1 DEF ChatInv, ClientInv, ClientTypes, clientVars
      <3>. QED BY <2>1, <2>3, <3>1, ClientStays DEF clientVars
    <2>. QED BY <2>1, <2>2, <2>3, <2>4, DeviceTraffic DEF ChatInv, serverVars
  <1>2. CASE \E d \in Devices : DeviceStep(d) \/ (LoadFails(d) /\ UNCHANGED serverVars)
    BY <1>2, DeviceKeeps
  <1>3. CASE ServerStep
    BY <1>3, ServerArrive, ServerHandlers DEF ServerStep
  <1>4. CASE FaultStep
    BY <1>2, <1>4, ServerHandlers DEF FaultStep
  <1>. QED BY <1>1, <1>2, <1>3, <1>4 DEF Next

LEMMA ChatSpecInv == Spec => []ChatInv
  BY ChatInit, ChatInvStep, PTL DEF Spec

-----------------------------------------------------------------------------
(* What follows for every reachable state *)

\* The devices, the connections and the server keep their types: in particular a
\* list of messages never holds an entry with an id that is not one, whatever
\* the order of the acknowledgement, the broadcast and the page.
THEOREM TypeCorrect == Spec => []TypeOK
  <1>1. ChatInv => TypeOK
    <2>. SUFFICES ASSUME ChatInv PROVE TypeOK
      OBVIOUS
    <2>1. Server!TypeOK
      BY SameState DEF ChatInv, Gateway!LedgerInv, Gateway!SendInv
    <2>2. \A d \in Devices : load[d].st \in {"idle", "asked", "answered", "failed"}
      <3>1. \A d \in Devices : load[d] \in Load
        BY DEF ChatInv, ClientInv, ClientTypes
      <3>. QED BY <3>1 DEF Load
    <2>. QED BY <2>1, <2>2 DEF TypeOK, ChatInv, ClientInv, ClientTypes
  <1>. QED BY <1>1, ChatSpecInv, PTL

\* However many devices, retries, reconnections and restarts: _handleNewMessage,
\* the acknowledgement and loadMessages together never list a message twice.
THEOREM NoMessageTwice == Spec => []ShownOnce
  <1>1. ChatInv => ShownOnce
    BY DEF ChatInv, ClientInv, ViewsOK, GoodView, NoneTwice, ShownOnce
  <1>. QED BY <1>1, ChatSpecInv, PTL

\* The timer of sendMessage never runs for a message that its device knows to be
\* stored, so that it cannot make it "failed" again.
THEOREM NoFailureOnceStored == Spec => []StoredNeverFails
  <1>1. ChatInv => StoredNeverFails
    <2>. SUFFICES ASSUME ChatInv, NEW d \in Devices, NEW n \in Mine(d), view[d][n].row # 0
                  PROVE  /\ view[d][n].status \notin {"sending", "failed"}
                         /\ view[d][n].temp \notin timers[d]
      BY DEF StoredNeverFails
    <2>1. EntryOK(d, view[d][n])
      BY DEF ChatInv, ClientInv, ViewsOK, GoodView, Mine
    <2>. QED BY <2>1 DEF EntryOK
  <1>. QED BY <1>1, ChatSpecInv, PTL

\* "sent" and "delivered" are shown for committed rows of the messages table only,
\* with their sender and under the clientMessageId of the entry.
THEOREM ShownAsSentIsStored == Spec => []SentIsStored
  <1>1. ChatInv => SentIsStored
    <2>. SUFFICES ASSUME ChatInv, NEW d \in Devices, NEW n \in DOMAIN view[d], NEW e,
                         e = view[d][n], e.status \in {"sent", "delivered"}
                  PROVE  /\ e.row \in Server!Committed
                         /\ rows[e.row].sender = e.sender
                         /\ e.temp # None => rows[e.row].cid = e.temp
      BY DEF SentIsStored
    <2>1. EntryOK(d, e)
      BY DEF ChatInv, ClientInv, ViewsOK, GoodView
    <2>. QED BY <2>1, SameState DEF EntryOK
  <1>. QED BY <1>1, ChatSpecInv, PTL

\* A message is "delivered" to its sender only once a device of somebody else has
\* had it in its list: the acknowledgement follows the change of the list, and it
\* outlives neither a restart nor a rollback.
THEOREM DeliveredHasBeenShown == Spec => []DeliveredWasShown
  <1>1. ChatInv => DeliveredWasShown
    <2>. SUFFICES ASSUME ChatInv, NEW d \in Devices, NEW n \in Mine(d), NEW e,
                         e = view[d][n], e.status = "delivered"
                  PROVE  \E o \in Devices : UserOf[o] # UserOf[d] /\ e.row \in seen[o]
      BY DEF DeliveredWasShown
    <2>1. EntryOK(d, e) /\ e.sender = UserOf[d]
      BY DEF ChatInv, ClientInv, ViewsOK, GoodView, Mine
    <2>. QED BY <2>1 DEF EntryOK, ShownByOther
  <1>. QED BY <1>1, ChatSpecInv, PTL

\* What the server promises any client, it keeps towards these devices: one row
\* for each message however often it is sent again, no news of what is not
\* committed, and none of it for users who are not in the room.
THEOREM ServerKeepsItsPromises ==
    Spec => [](/\ Gateway!OneRowPerSend /\ Gateway!ToldIsStored /\ Gateway!RoomIsPrivate
               /\ Gateway!ReceiptsAreGenuine /\ Gateway!ReadIsReceipted)
  <1>1. ChatInv => /\ Gateway!OneRowPerSend /\ Gateway!ToldIsStored /\ Gateway!RoomIsPrivate
                   /\ Gateway!ReceiptsAreGenuine /\ Gateway!ReadIsReceipted
    BY DEF ChatInv, Gateway!LedgerInv, Gateway!SendInv, Gateway!ReadInv
  <1>. QED BY <1>1, ChatSpecInv, PTL

\* The whole chat implements the ledger: with these devices, whatever they send
\* again, a message is entered once and only entries are told of.
THEOREM ChatImplementsLedger == Spec => Gateway!ImplementsLedger
  <1>1. Init => Gateway!Ledger!Init
    <2>1. Init => Gateway!InitWith(Opened)
      BY DEF Init, Server!InitWith, Gateway!InitWith, Server!Idle, Gateway!Idle
    <2>2. Gateway!InitWith(Opened) => Gateway!Ledger!Init
      <3>. SUFFICES ASSUME Gateway!InitWith(Opened) PROVE Gateway!Ledger!Init
        OBVIOUS
      <3>1. Gateway!Committed = {} /\ \A c \in Conns : Gateway!Queued(c) = {}
        BY DEF Gateway!InitWith, Gateway!Committed, Gateway!Queued
      <3>2. \A c \in Conns : Gateway!NoticesTo(c) = {}
        BY <3>1 DEF Gateway!NoticesTo
      <3>. QED BY <3>1, <3>2 DEF Gateway!Ledger!Init
    <2>. QED BY <2>1, <2>2
  <1>2. ChatInv /\ ChatInv' /\ [Next]_vars
            => [Gateway!Ledger!Next]_<<{Gateway!EntryOf(i) : i \in Gateway!Committed},
                                       UNION {Gateway!NoticesTo(c) : c \in Conns}>>
    <2>. SUFFICES ASSUME ChatInv, ChatInv', [Next]_vars
                  PROVE  Gateway!Ledger!Next
      OBVIOUS
    <2>1. [Gateway!Step]_Gateway!vars
      BY SystemStepServer DEF ChatInv, ClientInv
    <2>. QED BY <2>1, GatewayUsable, Gateway!LedgerStep DEF ChatInv, Gateway!LedgerStep
  <1>. QED BY <1>1, <1>2, ChatSpecInv, PTL DEF Spec, Gateway!ImplementsLedger, Gateway!Ledger!Spec

-----------------------------------------------------------------------------
(* The chat implements the conversation *)

TalkVars ==
    <<{m \in ClientIds : tries[m] # 0},
      {Server!EntryOf(i) : i \in Server!Committed},
      seen,
      [d \in Devices |->
          {view[d][n].row : n \in {k \in Mine(d) : view[d][k].status = "delivered"}}]>>

LEMMA TalkInit == Init => Talk!Init
  <1>. SUFFICES ASSUME Init PROVE Talk!Init
    OBVIOUS
  <1>1. Server!Committed = {}
    BY DEF Init, Server!InitWith, Server!Committed
  <1>2. /\ view = [d \in Devices |-> <<>>]
        /\ tries = [m \in ClientIds |-> 0]
        /\ seen = [d \in Devices |-> {}]
    BY DEF Init, InitWith
  <1>. QED BY <1>1, <1>2 DEF Talk!Init, Mine

\* What is shown as one's own and delivered has been shown by another user.
LEMMA TicksBacked ==
    ChatInv => \A d \in Devices : \A n \in Mine(d) :
        view[d][n].status = "delivered" =>
            /\ view[d][n].row \in Gateway!Committed
            /\ rows[view[d][n].row].sender = UserOf[d]
            /\ ShownByOther(view[d][n].row)
  <1>. SUFFICES ASSUME ChatInv, NEW d \in Devices,
                       NEW n \in Mine(d), view[d][n].status = "delivered"
                PROVE  /\ view[d][n].row \in Gateway!Committed
                       /\ rows[view[d][n].row].sender = UserOf[d]
                       /\ ShownByOther(view[d][n].row)
    OBVIOUS
  <1>1. view[d][n] \in Entries /\ EntryOK(d, view[d][n]) /\ view[d][n].sender = UserOf[d]
    BY DEF ChatInv, ClientInv, ViewsOK, GoodView, Mine
  <1>. QED BY <1>1, EntryFields DEF EntryOK

\* What is shown of rows is committed.
LEMMA RowsStored ==
    ChatInv => \A d \in Devices : Rows(view[d]) \subseteq Gateway!Committed
  BY DEF ChatInv, ClientInv, ViewsOK, GoodView, EntryOK, Rows

\* A committed row was sent by the device that drew its key.
LEMMA StoredWasSent ==
    ChatInv => \A i \in Gateway!Committed :
        /\ rows[i].cid \in ClientIds
        /\ rows[i].sender = UserOf[DrawnBy[rows[i].cid]]
        /\ tries[rows[i].cid] # 0
  BY CommittedRow DEF ChatInv, TrafficInv, RowsOK, Emitted

\* The three of them, before and after a step.
TalkFacts ==
    /\ \A d \in Devices : \A n \in Mine(d) :
         view[d][n].status = "delivered" =>
            /\ view[d][n].row \in Gateway!Committed
            /\ rows[view[d][n].row].sender = UserOf[d]
            /\ ShownByOther(view[d][n].row)
    /\ \A d \in Devices : Rows(view[d]) \subseteq Gateway!Committed
    /\ \A i \in Gateway!Committed :
        /\ rows[i].cid \in ClientIds
        /\ rows[i].sender = UserOf[DrawnBy[rows[i].cid]]
        /\ tries[rows[i].cid] # 0

LEMMA TalkFactsNext == ChatInv' => TalkFacts'
  <1>1. ChatInv => TalkFacts
    BY TicksBacked, RowsStored, StoredWasSent DEF TalkFacts
  <1>. QED BY <1>1, PTL

\* A change of one device's list is a look at stored messages.
LEMMA TalkLook ==
    ASSUME ChatInv, ChatInv', NEW d \in Devices, rows' = rows, SeenKept,
           \A o \in Devices \ {d} : view'[o] = view[o] /\ seen'[o] = seen[o],
           seen'[d] \subseteq seen[d] \cup Rows(view'[d]),
           \A m \in ClientIds : tries'[m] # 0 <=> tries[m] # 0
    PROVE  Talk!Look(d)
  <1>. DEFINE Stored == {Server!EntryOf(i) : i \in Server!Committed}
              Ids == {x.id : x \in Stored}
              Mines == {x \in Stored : x.sender = UserOf[d]}
              Ticks(o) == {view[o][n].row : n \in {k \in Mine(o) : view[o][k].status = "delivered"}}
  <1>1. Gateway!Committed' = Gateway!Committed /\ Server!Committed' = Server!Committed
    BY DEF Gateway!Committed, Server!Committed
  <1>2. \A i \in Gateway!Committed :
          /\ Server!EntryOf(i) \in Stored
          /\ Server!EntryOf(i).id = i
          /\ Server!EntryOf(i).sender = rows[i].sender
    BY SameState DEF Server!EntryOf
  <1>3. PICK new \in SUBSET Ids : seen' = [seen EXCEPT ![d] = seen[d] \cup new]
    <2>. DEFINE new == seen'[d] \ seen[d]
    <2>1. Rows(view'[d]) \subseteq Gateway!Committed
      <3>1. (Rows(view[d]) \subseteq Gateway!Committed)'
        BY TalkFactsNext DEF TalkFacts
      <3>. QED BY <1>1, <3>1
    <2>2. new \in SUBSET Ids
      BY <1>2, <2>1
    <2>3. seen \in [Devices -> SUBSET Nat] /\ seen' \in [Devices -> SUBSET Nat]
      BY DEF ChatInv, ClientInv, ClientTypes
    <2>4. seen'[d] = seen[d] \cup new
      BY DEF SeenKept
    <2>5. seen' = [seen EXCEPT ![d] = seen[d] \cup new]
      BY <2>3, <2>4
    <2>. QED BY <2>2, <2>5
  <1>4. Ticks(d)' \in SUBSET {x.id : x \in {y \in Mines : Talk!Delivered(y)}}
    <2>. SUFFICES ASSUME NEW n \in Mine(d)', view'[d][n].status = "delivered",
                         NEW i, i = view'[d][n].row
                  PROVE  \E x \in Mines : Talk!Delivered(x) /\ x.id = i
      OBVIOUS
    <2>1. (/\ view[d][n].row \in Gateway!Committed
           /\ rows[view[d][n].row].sender = UserOf[d]
           /\ ShownByOther(view[d][n].row))'
      BY TalkFactsNext DEF TalkFacts
    <2>2. i \in Gateway!Committed /\ rows[i].sender = UserOf[d]
      BY <1>1, <2>1
    <2>3. PICK o \in Devices : UserOf[o] # UserOf[d] /\ i \in seen'[o]
      BY <2>1, <2>2 DEF ShownByOther
    <2>4. i \in seen[o]
      BY <2>3
    <2>. QED BY <1>2, <2>2, <2>3, <2>4 DEF Talk!Delivered
  <1>5. [o \in Devices |-> Ticks(o)]' = [[o \in Devices |-> Ticks(o)] EXCEPT ![d] = Ticks(d)']
    <2>1. \A o \in Devices \ {d} : Ticks(o)' = Ticks(o)
      BY DEF Mine
    <2>2. [o \in Devices |-> Ticks(o)]' = [o \in Devices |-> Ticks(o)']
      OBVIOUS
    <2>. HIDE DEF Ticks
    <2>. QED BY <2>1, <2>2
  <1>6. UNCHANGED <<{m \in ClientIds : tries[m] # 0}, Stored>>
    <2>1. Stored' = Stored
      BY <1>1 DEF Server!EntryOf
    <2>. QED BY <2>1
  <1>. QED BY <1>3, <1>4, <1>5, <1>6 DEF Talk!Look

\* The list of a device changes, or none does, and nothing is sent or stored.
Looks(d) ==
    /\ rows' = rows
    /\ \A m \in ClientIds : tries'[m] # 0 <=> tries[m] # 0
    /\ \/ UNCHANGED <<view, seen>>
       \/ \E w : /\ view' = [view EXCEPT ![d] = w]
                 /\ seen' = [seen EXCEPT ![d] = @ \cup Rows(w)]

LEMMA LooksAreSeen ==
    ASSUME ChatInv, ChatInv', NEW d \in Devices, Looks(d)
    PROVE  Talk!Next
  <1>1. /\ view \in [Devices -> Seq(Entries)] /\ view' \in [Devices -> Seq(Entries)]
        /\ seen \in [Devices -> SUBSET Nat]
    BY DEF ChatInv, ClientInv, ClientTypes
  <1>2. /\ SeenKept
        /\ \A o \in Devices \ {d} : view'[o] = view[o] /\ seen'[o] = seen[o]
        /\ seen'[d] \subseteq seen[d] \cup Rows(view'[d])
    <2>1. CASE UNCHANGED <<view, seen>>
      BY <2>1 DEF SeenKept
    <2>2. ASSUME NEW w, view' = [view EXCEPT ![d] = w],
                 seen' = [seen EXCEPT ![d] = @ \cup Rows(w)]
          PROVE  /\ SeenKept
                 /\ \A o \in Devices \ {d} : view'[o] = view[o] /\ seen'[o] = seen[o]
                 /\ seen'[d] \subseteq seen[d] \cup Rows(view'[d])
      BY <1>1, <2>2 DEF SeenKept
    <2>. QED BY <2>1, <2>2 DEF Looks
  <1>3. Talk!Look(d)
    BY <1>2, TalkLook DEF Looks
  <1>. QED BY <1>3 DEF Talk!Next

LEMMA ShowLooks ==
    ASSUME NEW d \in Devices, NEW w, Show(d, w), rows' = rows,
           \A m \in ClientIds : tries'[m] # 0 <=> tries[m] # 0
    PROVE  Looks(d)
  BY DEF Show, Looks

LEMMA QuietLooks ==
    ASSUME NEW d \in Devices, UNCHANGED <<rows, view, seen, tries>>
    PROVE  Looks(d)
  BY DEF Looks

LEMMA ReadLooks ==
    ASSUME NEW d \in Devices, ContinueRead(d), rows' = rows
    PROVE  Looks(d)
  <1>1. PICK e : e = Head(cont[d])
    OBVIOUS
  <1>2. PICK v : v = view[d]
    OBVIOUS
  <1>. DEFINE Covered(x) == x.sender = UserOf[d] /\ x.at <= e.at /\ e.user \notin x.readBy
              Read(x) == [x EXCEPT !.status = "read", !.readBy = @ \cup {e.user}]
  <1>3. PICK w : w = [n \in DOMAIN v |-> IF Covered(v[n]) THEN Read(v[n]) ELSE v[n]]
    OBVIOUS
  <1>4. /\ tries' = tries
        /\ Show(d, w) \/ UNCHANGED <<view, seen, load>>
    BY <1>1, <1>2, <1>3 DEF ContinueRead
  <1>. HIDE DEF Covered, Read
  <1>. QED BY <1>4, ShowLooks, QuietLooks

\* Whatever a device does but send a message.
LEMMA DeviceLooks ==
    ASSUME ChatInv, NEW d \in Devices,
           DeviceStep(d) \/ (LoadFails(d) /\ UNCHANGED serverVars),
           ~\E m \in ClientIds : Tapped(d, m)
    PROVE  Looks(d)
  <1>1. CASE CreateSocket(d) /\ UNCHANGED serverVars
    BY <1>1, QuietLooks DEF CreateSocket, serverVars
  <1>2. CASE LoadDone(d) /\ UNCHANGED serverVars
    BY <1>2 DEF LoadDone, serverVars, Looks
  <1>3. CASE ContinueSend(d) /\ UNCHANGED serverVars
    BY <1>3, ShowLooks DEF ContinueSend, serverVars
  <1>4. CASE ContinueNew(d) /\ UNCHANGED serverVars
    <2>1. /\ tries' = tries /\ rows' = rows
          /\ (\E w : Show(d, w)) \/ UNCHANGED <<view, seen>>
      BY <1>4, Zenon DEF ContinueNew, serverVars
    <2>. QED BY <2>1, ShowLooks, QuietLooks
  <1>5. CASE ContinueRead(d) /\ UNCHANGED serverVars
    BY <1>5, ReadLooks DEF serverVars
  <1>6. ASSUME NEW m \in ClientIds, TimerFires(d, m), UNCHANGED serverVars
        PROVE  Looks(d)
    BY <1>6, ShowLooks DEF TimerFires, serverVars
  <1>7. CASE (OpenRoom(d) \/ LoadAgain(d) \/ LoadFails(d)) /\ UNCHANGED serverVars
    BY <1>7, QuietLooks DEF OpenRoom, LoadAgain, LoadFails, serverVars
  <1>8. ASSUME NEW m \in ClientIds, Retry(d, m), UNCHANGED serverVars
        PROVE  Looks(d)
    <2>1. tries \in [ClientIds -> 0..MaxTries] /\ tries' = [tries EXCEPT ![m] = @ + 1]
      BY <1>8 DEF Retry, ChatInv, ClientInv, ClientTypes
    <2>2. \E n \in DOMAIN view[d] : view[d][n].temp = m /\ view[d][n] \in Entries
                                      /\ EntryOK(d, view[d][n])
      BY <1>8 DEF Retry, ChatInv, ClientInv, ClientTypes, ViewsOK, GoodView
    <2>3. tries[m] # 0
      BY <2>2, NoneIsNoId DEF EntryOK, Emitted
    <2>4. \A k \in ClientIds : tries'[k] # 0 <=> tries[k] # 0
      BY <2>1, <2>3, SystemAssumption DEF SystemAssumption
    <2>. QED BY <1>8, <2>4, ShowLooks DEF Retry, serverVars
  <1>9. ASSUME NEW c \in Conns, Connected(d, c)
        PROVE  Looks(d)
    BY <1>9, QuietLooks DEF Connected, LinkUp, Server!Connect
  <1>10. CASE Disconnected(d) \/ MessagesFetched(d)
    BY <1>10, QuietLooks DEF Disconnected, LinkDown, MessagesFetched, LoadAnswered, serverVars
  <1>11. CASE Received(d)
    <2>. DEFINE e == Head(out[link[d]])
    <2>1. Receive(d, e) /\ rows' = rows
      BY <1>11 DEF Received, Server!Take
    <2>. HIDE DEF e
    <2>2. tries' = tries
      BY <2>1 DEF Receive
    <2>3. \/ Defer(d, e) \/ OnSent(d, e) \/ OnDelivered(d, e)
          \/ UNCHANGED <<view, seen>>
      BY <2>1 DEF Receive
    <2>4. CASE OnSent(d, e)
      <3>1. \E w : Show(d, w)
        BY <2>4, Zenon DEF OnSent
      <3>. QED BY <2>1, <2>2, <3>1, ShowLooks
    <2>5. CASE OnDelivered(d, e)
      <3>1. \E w : Show(d, w)
        BY <2>5, Zenon DEF OnDelivered
      <3>. QED BY <2>1, <2>2, <3>1, ShowLooks
    <2>. QED BY <2>1, <2>2, <2>3, <2>4, <2>5, QuietLooks DEF Defer
  <1>. QED BY <1>1, <1>2, <1>3, <1>4, <1>5, <1>6, <1>7, <1>8, <1>9, <1>10, <1>11
           DEF DeviceStep, Continue, UserStep

\* A tap sends a message; nothing else on a device does.
LEMMA TalkDevice ==
    ASSUME ChatInv, ChatInv', NEW d \in Devices,
           DeviceStep(d) \/ (LoadFails(d) /\ UNCHANGED serverVars)
    PROVE  Talk!Next
  <1>1. ASSUME NEW m \in ClientIds, Tapped(d, m)
        PROVE  Talk!Next
    <2>1. /\ UNCHANGED <<rows, view, seen>>
          /\ tries' = [tries EXCEPT ![m] = 1]
          /\ tries \in [ClientIds -> 0..MaxTries]
      BY <1>1 DEF Tapped, TapSend, ChatInv, ClientInv, ClientTypes
    <2>2. {k \in ClientIds : tries'[k] # 0} = {k \in ClientIds : tries[k] # 0} \cup {m}
      BY <2>1
    <2>3. Talk!Send(m)
      BY <2>1, <2>2 DEF Talk!Send, Server!EntryOf, Server!Committed, Mine
    <2>. QED BY <2>3 DEF Talk!Next
  <1>2. CASE ~\E m \in ClientIds : Tapped(d, m)
    BY <1>2, DeviceLooks, LooksAreSeen
  <1>. QED BY <1>1, <1>2

\* The server stores a message at most once, and only one that was sent.
LEMMA TalkServer ==
    ASSUME ChatInv, ChatInv', [Gateway!Step]_Gateway!vars, UNCHANGED <<view, seen, tries>>
    PROVE  [Talk!Next]_TalkVars
  <1>. DEFINE Stored == {Server!EntryOf(i) : i \in Server!Committed}
  <1>1. Server!Committed = Gateway!Committed /\ Server!Committed' = Gateway!Committed'
    BY DEF Server!Committed, Gateway!Committed
  <1>2. /\ Stored = {Gateway!EntryOf(i) : i \in Gateway!Committed}
        /\ Stored' = {Gateway!EntryOf(i) : i \in Gateway!Committed}'
    BY <1>1 DEF Server!EntryOf, Gateway!EntryOf
  <1>3. Gateway!Ledger!Next
    BY GatewayUsable, Gateway!LedgerStep DEF ChatInv, Gateway!LedgerStep
  <1>4. Stored' = Stored \/ \E x \in Stored' \ Stored : Gateway!Ledger!Enter(x)
    BY <1>2, <1>3 DEF Gateway!Ledger!Next, Gateway!Ledger!Tell, Gateway!Ledger!Forget
  <1>5. CASE Stored' = Stored
    BY <1>5 DEF TalkVars, Mine
  <1>6. ASSUME NEW x \in Stored' \ Stored, Gateway!Ledger!Enter(x)
        PROVE  Talk!Next
    <2>1. /\ x \in [id : Nat, sender : Participants, cid : ClientIds]
          /\ Stored' = Stored \cup {x}
          /\ ~\E y \in Stored : y.id = x.id \/ (y.sender = x.sender /\ y.cid = x.cid)
      BY <1>2, <1>6 DEF Gateway!Ledger!Enter, Gateway!Ledger!Entry
    <2>2. ASSUME NEW y \in Stored'
          PROVE  y.cid \in ClientIds /\ y.sender = UserOf[DrawnBy[y.cid]] /\ tries[y.cid] # 0
      <3>1. PICK i \in Gateway!Committed' : y = Gateway!EntryOf(i)'
        BY <1>2
      <3>2. /\ rows'[i].cid \in ClientIds /\ tries'[rows'[i].cid] # 0
            /\ rows'[i].sender = UserOf[DrawnBy[rows'[i].cid]]
        BY TalkFactsNext DEF TalkFacts
      <3>. QED BY <3>1, <3>2 DEF Gateway!EntryOf
    <2>3. ~\E y \in Stored : y.cid = x.cid
      BY <2>1, <2>2
    <2>4. Talk!Store(x)
      BY <2>1, <2>2, <2>3 DEF Talk!Store, Mine
    <2>. QED BY <1>6, <2>4 DEF Talk!Next
  <1>. QED BY <1>4, <1>5, <1>6

LEMMA TalkStep == ChatInv /\ ChatInv' /\ [Next]_vars => [Talk!Next]_TalkVars
  <1>. SUFFICES ASSUME ChatInv, ChatInv', [Next]_vars PROVE [Talk!Next]_TalkVars
    OBVIOUS
  <1>1. [Gateway!Step]_Gateway!vars
    BY SystemStepServer DEF ChatInv, ClientInv
  <1>2. CASE UNCHANGED vars
    BY <1>1, <1>2, TalkServer DEF vars, clientVars
  <1>3. CASE \E d \in Devices : DeviceStep(d) \/ (LoadFails(d) /\ UNCHANGED serverVars)
    BY <1>3, TalkDevice
  <1>4. CASE ServerStep
    <2>1. UNCHANGED <<view, seen, tries>>
      BY <1>4 DEF ServerStep, Arrive, clientVars
    <2>. QED BY <1>1, <2>1, TalkServer
  <1>5. CASE FaultStep
    <2>1. UNCHANGED clientVars \/ \E d \in Devices : LoadFails(d) /\ UNCHANGED serverVars
      BY <1>5 DEF FaultStep
    <2>2. CASE UNCHANGED clientVars
      BY <1>1, <2>2, TalkServer DEF clientVars
    <2>. QED BY <1>3, <2>1, <2>2
  <1>. QED BY <1>2, <1>3, <1>4, <1>5 DEF Next

\* The promise to the users holds of the whole chat: what a list shows and what it
\* marks as delivered comes after the INSERT, and this after the tap, whatever
\* happens to the connections and the handlers between them.
THEOREM ChatKeepsConversation == Spec => KeepsConversation
  <1>. QED BY TalkInit, TalkStep, ChatSpecInv, PTL
           DEF Spec, KeepsConversation, Talk!Spec, TalkVars

=============================================================================
