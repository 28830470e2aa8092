------------------------ MODULE MessageGatewaySafety ------------------------
(***************************************************************************)
(* What clients are told, and what reading leaves in the tables: the        *)
(* remaining safety properties of MessageGateway, on top of the invariant   *)
(* of the send path.                                                        *)
(*                                                                          *)
(* The argument has two halves.  Committed messages and receipts only grow, *)
(* so what was true of an event when it was written stays true.  And each   *)
(* event other than an error is written by one of three steps, at which the *)
(* handler knows enough about its message for the property to hold.         *)
(***************************************************************************)
EXTENDS MessageGatewayProofs

-----------------------------------------------------------------------------
(* What grows *)

\* A committed message is never changed or taken back.
LEMMA CommittedStays ==
    ASSUME SendInv, [Step]_vars, NEW i \in Committed
    PROVE  i \in Committed' /\ rows'[i] = rows[i]
  <1>. USE DEF SendInv
  <1>1. i \in DOMAIN rows /\ rows[i].state = "committed"
    BY DEF Committed
  <1>2. CASE rows' = rows
    BY <1>1, <1>2 DEF Committed
  <1>3. ASSUME NEW r \in Requests, SendInsert(r), rows' = Append(rows, NewRow(r))
        PROVE  i \in Committed' /\ rows'[i] = rows[i]
    <2>1. i \in DOMAIN rows' /\ rows'[i] = rows[i]
      BY <1>1, <1>3 DEF TypeOK
    <2>. QED BY <1>1, <2>1 DEF Committed
  <1>4. ASSUME NEW r \in Requests, At(r, "commit"),
               NEW state \in RowStates, SetRow(r, state)
        PROVE  i \in Committed' /\ rows'[i] = rows[i]
    BY <1>1, <1>4, SetRowFacts DEF Committed
  <1>5. CASE Restart
    <2>1. /\ DOMAIN rows' = DOMAIN rows
          /\ rows'[i] = [rows[i] EXCEPT !.state = "committed"]
      BY <1>1, <1>5 DEF Restart
    <2>2. rows'[i] = rows[i]
      BY <1>1, <2>1, RowType DEF Row
    <2>. QED BY <1>1, <2>1, <2>2 DEF Committed
  <1>6. ASSUME NEW r \in Requests, Handler(r)
        PROVE  i \in Committed' /\ rows'[i] = rows[i]
    <2>1. CASE SendInsert(r)
      BY <1>2, <1>3, <2>1 DEF SendInsert
    <2>2. CASE SendCommit(r)
      BY <1>4, <2>2 DEF SendCommit, RowStates
    <2>3. CASE SendCommitFails(r)
      BY <1>4, <2>3 DEF SendCommitFails, RowStates
    <2>4. CASE \/ SendRejected(r) \/ SendLookup(r) \/ SendRespond(r) \/ ReadStep(r)
               \/ RoomJoin(r) \/ Delivered(r) \/ SendQueryFails(r) \/ ReadFails(r)
               \/ JoinOrDeliveredFails(r)
      BY <1>2, <2>4
         DEF SendRejected, SendLookup, SendRespond, ReadStep, ReadMember, ReadTarget,
             ReadUpdate, ReadScan, ReadReceipts, ReadAnnounce, RoomJoin, Delivered,
             SendQueryFails, ReadFails, JoinOrDeliveredFails
    <2>. QED BY <1>6, <2>1, <2>2, <2>3, <2>4 DEF Handler, Progress, Fault, SendStep
  <1>7. ASSUME NEW c \in Conns,
               \/ Connect(c) \/ Disconnect(c) \/ Take(c) \/ OnRoomLeave(c)
               \/ OnBadMessageSend(c) \/ \E r \in Requests : AnyArrival(r, c)
        PROVE  rows' = rows
    BY <1>7 DEF Connect, Disconnect, Take, OnRoomLeave, OnBadMessageSend, AnyArrival,
                OnRoomJoin, OnMessageSend, OnChatRead, OnDelivered
  <1>8. CASE Tick \/ UNCHANGED vars
    BY <1>2, <1>8 DEF Tick, vars
  <1>. QED BY <1>2, <1>5, <1>6, <1>7, <1>8 DEF Step

\* A receipt is never taken back.
LEMMA ReceiptsStay ==
    ASSUME [Step]_vars
    PROVE  receipts \subseteq receipts'
  BY DEF Step, Tick, vars, Connect, Disconnect, Take, OnRoomLeave, OnBadMessageSend,
         AnyArrival, OnRoomJoin, OnMessageSend, OnChatRead, OnDelivered, Restart, Handler, Progress,
         Fault, SendStep, ReadStep, SendRejected, SendLookup, SendInsert, SendCommit,
         SendRespond, ReadMember, ReadTarget, ReadUpdate, ReadScan, ReadReceipts,
         ReadAnnounce, RoomJoin, Delivered, SendCommitFails, SendQueryFails, ReadFails,
         JoinOrDeliveredFails

-----------------------------------------------------------------------------
(* Where events come from *)

LEMMA AppendElements ==
    ASSUME NEW S, NEW q \in Seq(S), NEW e \in S, NEW n \in DOMAIN Append(q, e)
    PROVE  (n \in DOMAIN q /\ Append(q, e)[n] = q[n]) \/ Append(q, e)[n] = e
  OBVIOUS

LEMMA TailElements ==
    ASSUME NEW S, NEW q \in Seq(S), q # <<>>, NEW n \in DOMAIN Tail(q)
    PROVE  n + 1 \in DOMAIN q /\ Tail(q)[n] = q[n + 1]
  OBVIOUS

\* After a Push, a queue holds what it held, and the event if it is one of the
\* open queues that were meant.
LEMMA PushElements ==
    ASSUME TypeOK, NEW cs, NEW e \in Event, NEW c \in Conns,
           NEW n \in DOMAIN Push(cs, e)[c]
    PROVE  \/ Push(cs, e)[c][n] \in Queued(c)
           \/ Push(cs, e)[c][n] = e /\ c \in cs \cap Open
  <1>1. out[c] \in Seq(Event)
    BY DEF TypeOK
  <1>2. CASE c \in cs \cap Open
    <2>1. Push(cs, e)[c] = Append(out[c], e)
      BY <1>2 DEF Push
    <2>. QED BY <1>1, <1>2, <2>1, AppendElements DEF Queued
  <1>3. CASE c \notin cs \cap Open
    BY <1>3 DEF Push, Queued
  <1>. QED BY <1>2, <1>3

\* What handler r tells connection c of when its send is answered,
ToldOfSend(r, c, e) ==
    \/ c \in joined /\ e = NewEvent(task[r].row, task[r].cid, task[r].readers)
    \/ c = task[r].conn /\ e = SentEvent(task[r].row, task[r].cid)

\* when its message:delivered is passed on,
ToldOfDelivery(r, c, e) ==
    /\ task[r].row \in Committed
    /\ rows[task[r].row].sender # User(r)
    /\ c \in UserRoom(rows[task[r].row].sender)
    /\ e = DeliveredEvent(task[r].row)

\* and when its reading is announced.
ToldOfRead(r, c, e) ==
    \/ c \in joined /\ e = ChatReadEvent(User(r), task[r].row, task[r].at)
    \/ /\ Owner[c] \in {rows[i].sender : i \in task[r].found}
       /\ e = ReadStatus(User(r), task[r].row)

LEMMA RespondNews ==
    ASSUME SendInv, NEW r \in Requests, SendRespond(r), NEW c \in Conns,
           NEW n \in DOMAIN out'[c]
    PROVE  out'[c][n] \in Queued(c) \/ ToldOfSend(r, c, out'[c][n])
  <1>. DEFINE t == task[r]
              e == NewEvent(t.row, t.cid, t.readers)
              new == Push(joined, e)
  <1>1. /\ t.row \in DOMAIN rows /\ t.cid \in ClientIds
        /\ t.readers \in SUBSET Users
    BY TaskType DEF SendInv, TaskOK, Holding, SendRespond, At, SendPcs, Task
  <1>2. e \in Event
    BY <1>1, NewEventType DEF SendInv
  <1>3. SentEvent(t.row, t.cid) \in Event
    BY <1>1, RowType DEF SentEvent, Event, SendInv
  <1>4. new \in [Conns -> Seq(Event)]
    BY <1>2, PushType DEF SendInv
  <1>5. \A k \in DOMAIN new[c] : new[c][k] \in Queued(c) \/ (new[c][k] = e /\ c \in joined)
    BY <1>2, PushElements DEF SendInv
  <1>6. out'[c] = IF c \in {t.conn} \cap Open
                  THEN Append(new[c], SentEvent(t.row, t.cid)) ELSE new[c]
    BY DEF SendRespond
  <1>. HIDE DEF new, e
  <1>7. CASE c \in {t.conn} \cap Open
    <2>1. \/ n \in DOMAIN new[c] /\ out'[c][n] = new[c][n]
          \/ out'[c][n] = SentEvent(t.row, t.cid)
      BY <1>3, <1>4, <1>6, <1>7, AppendElements
    <2>. QED BY <1>5, <1>7, <2>1 DEF ToldOfSend, e
  <1>8. CASE c \notin {t.conn} \cap Open
    BY <1>5, <1>6, <1>8 DEF ToldOfSend, e
  <1>. QED BY <1>7, <1>8

LEMMA DeliveredNews ==
    ASSUME SendInv, NEW r \in Requests, Delivered(r), NEW c \in Conns,
           NEW n \in DOMAIN out'[c]
    PROVE  out'[c][n] \in Queued(c) \/ ToldOfDelivery(r, c, out'[c][n])
  <1>. DEFINE i == task[r].row
  <1>1. DeliveredEvent(i) \in Event
    BY TaskType DEF Task, DeliveredEvent, Event
  <1>2. CASE UNCHANGED out
    BY <1>2 DEF Queued
  <1>3. CASE /\ i \in Committed /\ rows[i].sender # User(r)
             /\ out' = Push(UserRoom(rows[i].sender), DeliveredEvent(i))
    <2>1. \/ out'[c][n] \in Queued(c)
          \/ out'[c][n] = DeliveredEvent(i) /\ c \in UserRoom(rows[i].sender)
      BY <1>1, <1>3, PushElements DEF SendInv
    <2>. QED BY <1>3, <2>1 DEF ToldOfDelivery
  <1>. QED BY <1>2, <1>3 DEF Delivered, Emit

LEMMA AnnounceNews ==
    ASSUME SendInv, NEW r \in Requests, ReadAnnounce(r), NEW c \in Conns,
           NEW n \in DOMAIN out'[c]
    PROVE  out'[c][n] \in Queued(c) \/ ToldOfRead(r, c, out'[c][n])
  <1>. DEFINE t == task[r]
              u == User(r)
              e == ChatReadEvent(u, t.row, t.at)
              read == Push(joined, e)
              senders == {rows[i].sender : i \in t.found}
  <1>1. u \in Users /\ t.row \in Nat /\ t.at \in Nat
    BY TaskType, UserType DEF SendInv, TaskOK, ReadAnnounce, At, Task
  <1>2. e \in Event /\ ReadStatus(u, t.row) \in Event
    BY <1>1 DEF ChatReadEvent, ReadStatus, Event
  <1>3. read \in [Conns -> Seq(Event)]
    BY <1>2, PushType DEF SendInv
  <1>4. \A k \in DOMAIN read[c] : read[c][k] \in Queued(c) \/ (read[c][k] = e /\ c \in joined)
    BY <1>2, PushElements DEF SendInv
  <1>5. out'[c] = IF c \in Open /\ Owner[c] \in senders \ {u}
                  THEN Append(read[c], ReadStatus(u, t.row)) ELSE read[c]
    BY DEF ReadAnnounce
  <1>. HIDE DEF read, e, senders
  <1>6. CASE c \in Open /\ Owner[c] \in senders \ {u}
    <2>1. \/ n \in DOMAIN read[c] /\ out'[c][n] = read[c][n]
          \/ out'[c][n] = ReadStatus(u, t.row)
      BY <1>2, <1>3, <1>5, <1>6, AppendElements
    <2>. QED BY <1>4, <1>6, <2>1 DEF ToldOfRead, e, senders
  <1>7. CASE ~(c \in Open /\ Owner[c] \in senders \ {u})
    BY <1>4, <1>5, <1>7 DEF ToldOfRead, e
  <1>. QED BY <1>6, <1>7

\* Every event in a queue was there before, or is an error, or was written by
\* one of the three steps that announce something.
LEMMA News ==
    ASSUME SendInv, [Step]_vars, NEW c \in Conns, NEW e \in Queued(c)'
    PROVE  \/ e \in Queued(c) \cup {ErrorEvent}
           \/ \E r \in Requests : SendRespond(r) /\ ToldOfSend(r, c, e)
           \/ \E r \in Requests : Delivered(r) /\ ToldOfDelivery(r, c, e)
           \/ \E r \in Requests : ReadAnnounce(r) /\ ToldOfRead(r, c, e)
  <1>. USE DEF SendInv
  <1>0. PICK n \in DOMAIN out'[c] : e = out'[c][n]
    BY DEF Queued
  <1>1. ASSUME out' = out
        PROVE  e \in Queued(c)
    BY <1>0, <1>1 DEF Queued
  <1>2. ASSUME NEW d, Emit({d}, ErrorEvent)
        PROVE  e \in Queued(c) \cup {ErrorEvent}
    <2>1. out' = Push({d}, ErrorEvent)
      BY <1>2 DEF Emit
    <2>. QED BY <1>0, <2>1, PushElements, ErrorType
  <1>3. ASSUME NEW r \in Requests, Progress(r)
        PROVE  \/ e \in Queued(c) \cup {ErrorEvent}
               \/ SendRespond(r) /\ ToldOfSend(r, c, e)
               \/ Delivered(r) /\ ToldOfDelivery(r, c, e)
               \/ ReadAnnounce(r) /\ ToldOfRead(r, c, e)
    <2>1. CASE SendRespond(r)
      BY <1>0, <2>1, RespondNews
    <2>2. CASE Delivered(r)
      BY <1>0, <2>2, DeliveredNews
    <2>3. CASE ReadAnnounce(r)
      BY <1>0, <2>3, AnnounceNews
    <2>4. CASE SendRejected(r) \/ SendInsert(r)
      <3>1. out' = out \/ Emit({task[r].conn}, ErrorEvent)
        BY <2>4 DEF SendRejected, SendInsert, FailSend
      <3>. QED BY <1>1, <1>2, <3>1
    <2>5. CASE \/ SendLookup(r) \/ SendCommit(r) \/ ReadMember(r) \/ ReadTarget(r)
               \/ ReadUpdate(r) \/ ReadScan(r) \/ ReadReceipts(r) \/ RoomJoin(r)
      BY <1>1, <2>5 DEF SendLookup, SendCommit, ReadMember, ReadTarget, ReadUpdate,
                        ReadScan, ReadReceipts, RoomJoin
    <2>. QED BY <1>3, <2>1, <2>2, <2>3, <2>4, <2>5 DEF Progress, SendStep, ReadStep
  <1>4. ASSUME NEW r \in Requests, Fault(r)
        PROVE  e \in Queued(c) \cup {ErrorEvent}
    <2>1. out' = out \/ Emit({task[r].conn}, ErrorEvent)
      BY <1>4 DEF Fault, SendCommitFails, SendQueryFails, FailSend, ReadFails,
                  JoinOrDeliveredFails
    <2>. QED BY <1>1, <1>2, <2>1
  <1>5. ASSUME NEW d \in Conns, Take(d) \/ Disconnect(d)
        PROVE  e \in Queued(c)
    <2>1. CASE c # d
      <3>1. out'[c] = out[c]
        BY <1>5, <2>1 DEF Take, Disconnect, TypeOK
      <3>. QED BY <1>0, <3>1 DEF Queued
    <2>2. CASE c = d /\ Take(d)
      <3>1. out'[c] = Tail(out[c]) /\ out[c] \in Seq(Event) /\ out[c] # <<>>
        BY <2>2 DEF Take, TypeOK
      <3>. QED BY <1>0, <3>1, TailElements DEF Queued
    <2>3. CASE c = d /\ Disconnect(d)
      BY <1>0, <2>3 DEF Disconnect, TypeOK
    <2>. QED BY <1>5, <2>1, <2>2, <2>3
  <1>6. CASE Restart
    BY <1>0, <1>6 DEF Restart
  <1>7. ASSUME NEW d \in Conns, Connect(d) \/ OnRoomLeave(d) \/ OnBadMessageSend(d)
        PROVE  e \in Queued(c) \cup {ErrorEvent}
    <2>1. out' = out \/ Emit({d}, ErrorEvent)
      BY <1>7 DEF Connect, OnRoomLeave, OnBadMessageSend
    <2>. QED BY <1>1, <1>2, <2>1
  <1>8. ASSUME NEW r \in Requests, NEW d \in Conns, AnyArrival(r, d)
        PROVE  e \in Queued(c)
    BY <1>1, <1>8 DEF AnyArrival, OnRoomJoin, OnMessageSend, OnChatRead, OnDelivered
  <1>9. CASE Tick \/ UNCHANGED vars
    BY <1>1, <1>9 DEF Tick, vars
  <1>. QED BY <1>3, <1>4, <1>5, <1>6, <1>7, <1>8, <1>9 DEF Step, Handler

-----------------------------------------------------------------------------
(* What clients are told of is stored *)

LEMMA ToldIsStoredStep == SendInv /\ ToldIsStored /\ [Step]_vars => ToldIsStored'
  <1>. SUFFICES ASSUME SendInv, ToldIsStored, [Step]_vars,
                       NEW c \in Conns, NEW e \in Queued(c)',
                       e.type \in {"message:new", "sent", "delivered"}
                PROVE  /\ e.row \in Committed'
                       /\ e.type = "sent" => rows'[e.row].sender = Owner[c]
                       /\ e.type # "delivered" => rows'[e.row].cid = e.cid
    BY DEF ToldIsStored
  <1>1. SUFFICES /\ e.row \in Committed
                 /\ e.type = "sent" => rows[e.row].sender = Owner[c]
                 /\ e.type # "delivered" => rows[e.row].cid = e.cid
    BY CommittedStays
  <1>2. CASE e \in Queued(c)
    BY <1>2 DEF ToldIsStored
  <1>3. ASSUME NEW r \in Requests, SendRespond(r), ToldOfSend(r, c, e)
        PROVE  /\ e.row = task[r].row /\ e.cid = task[r].cid
               /\ e.row \in Committed /\ rows[e.row].cid = e.cid
               /\ e.type = "sent" => rows[e.row].sender = Owner[c]
    <2>1. Holding(r, "committed")
      BY <1>3 DEF SendInv, TaskOK, SendRespond, At
    <2>2. /\ e.row = task[r].row /\ e.cid = task[r].cid
          /\ e.type = "sent" => c = task[r].conn
      BY <1>3 DEF ToldOfSend, NewEvent, SentEvent
    <2>. QED BY <2>1, <2>2 DEF Holding, Committed, User
  <1>4. ASSUME NEW r \in Requests, ToldOfDelivery(r, c, e)
        PROVE  e.row \in Committed /\ e.type = "delivered"
    BY <1>4 DEF ToldOfDelivery, DeliveredEvent
  <1>5. ASSUME NEW r \in Requests, ToldOfRead(r, c, e)
        PROVE  FALSE
    BY <1>5 DEF ToldOfRead, ChatReadEvent, ReadStatus
  <1>6. e # ErrorEvent
    BY DEF ErrorEvent
  <1>. QED BY <1>2, <1>3, <1>4, <1>5, <1>6, News

\* Whatever rolls back, restarts or is sent twice: a message that a client was
\* told of stays stored, and an acknowledgement names the message it answers.
THEOREM ToldStays == Spec => []ToldIsStored
  <1>1. Init => SendInv /\ ToldIsStored
    BY InitInv DEF Init, InitWith, ToldIsStored, Queued
  <1>2. SendInv /\ ToldIsStored /\ [Next]_vars => (SendInv /\ ToldIsStored)'
    BY NextIsStep, SendInvStep, ToldIsStoredStep
  <1>. QED BY <1>1, <1>2, PTL DEF Spec

-----------------------------------------------------------------------------
(* How handlers and rows change *)

EntryPcs == {"idle", "join", "lookup", "member", "delivered"}

\* A handler that goes on to its next await.
GoesOn(r) ==
    \/ SendLookup(r) \/ SendInsert(r) \/ SendCommit(r)
    \/ ReadMember(r) \/ ReadTarget(r) \/ ReadUpdate(r) \/ ReadScan(r) \/ ReadReceipts(r)

\* A step of one handler ends it or takes it to its next await, and leaves the
\* other slots alone.
LEMMA HandlerChange ==
    ASSUME SendInv, NEW s \in Requests, Handler(s), NEW r \in Requests
    PROVE  task'[r] = task[r] \/ task'[r] = Idle \/ (r = s /\ GoesOn(r))
  <1>. task \in [Requests -> Task]
    BY DEF SendInv, TypeOK
  <1>1. CASE Finish(s)
    BY <1>1 DEF Finish
  <1>2. ASSUME GoesOn(s), s # r
        PROVE  task'[r] = task[r]
    BY <1>2
       DEF GoesOn, SendLookup, SendInsert, FailSend, SendCommit, ReadMember, ReadTarget,
           ReadUpdate, ReadScan, ReadReceipts, Finish
  <1>3. GoesOn(s) \/ Finish(s)
    BY DEF Handler, Progress, Fault, SendStep, ReadStep, GoesOn, SendRejected,
           SendRespond, ReadAnnounce, RoomJoin, Delivered, SendCommitFails,
           SendQueryFails, FailSend, ReadFails, JoinOrDeliveredFails
  <1>. QED BY <1>1, <1>2, <1>3

\* A slot keeps its handler, or is at the beginning of one, or goes on.
LEMMA SlotChange ==
    ASSUME SendInv, [Step]_vars, NEW r \in Requests
    PROVE  task'[r] = task[r] \/ task'[r].pc \in EntryPcs \/ GoesOn(r)
  <1>. USE DEF SendInv
  <1>0. task \in [Requests -> Task] /\ Idle.pc \in EntryPcs
    BY DEF TypeOK, Idle, EntryPcs
  <1>1. ASSUME NEW s \in Requests, NEW c \in Conns, AnyArrival(s, c)
        PROVE  task'[r] = task[r] \/ task'[r].pc \in EntryPcs
    <2>1. PICK t : task' = [task EXCEPT ![s] = t] /\ t.pc \in EntryPcs
      BY <1>1 DEF AnyArrival, OnRoomJoin, OnMessageSend, OnChatRead, OnDelivered, Start,
                  Idle, EntryPcs
    <2>. QED BY <1>0, <2>1
  <1>2. CASE Restart
    BY <1>0, <1>2 DEF Restart
  <1>3. ASSUME NEW c \in Conns,
               Connect(c) \/ Disconnect(c) \/ Take(c) \/ OnRoomLeave(c) \/ OnBadMessageSend(c)
        PROVE  task'[r] = task[r]
    BY <1>3 DEF Connect, Disconnect, Take, OnRoomLeave, OnBadMessageSend
  <1>4. CASE Tick \/ UNCHANGED vars
    BY <1>4 DEF Tick, vars
  <1>. QED BY <1>0, <1>1, <1>2, <1>3, <1>4, HandlerChange DEF Step

\* A row was there before, from the same sender under the same clientMessageId, or
\* a handler inserts it.
SameKey(x, y) == x.sender = y.sender /\ x.cid = y.cid

LEMMA RowChange ==
    ASSUME SendInv, [Step]_vars, NEW i \in DOMAIN rows'
    PROVE  \/ i \in DOMAIN rows /\ SameKey(rows'[i], rows[i])
           \/ \E r \in Requests : /\ At(r, "insert")
                                  /\ rows'[i].sender = User(r)
                                  /\ rows'[i].cid = task[r].cid
  <1>. USE DEF SendInv, SameKey
  <1>1. CASE rows' = rows
    BY <1>1
  <1>2. ASSUME NEW r \in Requests, SendInsert(r), rows' = Append(rows, NewRow(r))
        PROVE  \/ i \in DOMAIN rows /\ SameKey(rows'[i], rows[i])
               \/ /\ At(r, "insert")
                  /\ rows'[i].sender = User(r)
                  /\ rows'[i].cid = task[r].cid
    <2>1. \/ i \in DOMAIN rows /\ rows'[i] = rows[i]
          \/ rows'[i] = NewRow(r)
      BY <1>2 DEF TypeOK
    <2>. QED BY <1>2, <2>1 DEF SendInsert, NewRow
  <1>3. ASSUME NEW r \in Requests, At(r, "commit"),
               NEW state \in RowStates, SetRow(r, state)
        PROVE  i \in DOMAIN rows /\ SameKey(rows'[i], rows[i])
    <2>1. /\ DOMAIN rows' = DOMAIN rows
          /\ rows'[i] = rows[i] \/ rows'[i] = [rows[i] EXCEPT !.state = state]
      BY <1>3, SetRowFacts
    <2>. QED BY <2>1, RowType DEF Row
  <1>4. CASE Restart
    BY <1>4, RowType DEF Restart, Row
  <1>5. ASSUME NEW r \in Requests, Handler(r)
        PROVE  \/ rows' = rows
               \/ SendInsert(r) /\ rows' = Append(rows, NewRow(r))
               \/ At(r, "commit") /\ \E state \in RowStates : SetRow(r, state)
    BY <1>5 DEF Handler, Progress, Fault, SendStep, ReadStep, SendRejected, SendLookup,
                SendInsert, SendCommit, SendRespond, ReadMember, ReadTarget, ReadUpdate,
                ReadScan, ReadReceipts, ReadAnnounce, RoomJoin, Delivered,
                SendCommitFails, SendQueryFails, ReadFails, JoinOrDeliveredFails,
                RowStates
  <1>6. ASSUME NEW c \in Conns,
               \/ Connect(c) \/ Disconnect(c) \/ Take(c) \/ OnRoomLeave(c)
               \/ OnBadMessageSend(c) \/ \E r \in Requests : AnyArrival(r, c)
        PROVE  rows' = rows
    BY <1>6 DEF Connect, Disconnect, Take, OnRoomLeave, OnBadMessageSend,
                AnyArrival, OnRoomJoin, OnMessageSend, OnChatRead, OnDelivered
  <1>7. CASE Tick \/ UNCHANGED vars
    BY <1>1, <1>7 DEF Tick, vars
  <1>. QED BY <1>1, <1>2, <1>3, <1>4, <1>5, <1>6, <1>7 DEF Step

-----------------------------------------------------------------------------
(* The invariant of the read path *)

\* Rows come from participants, and past its check a handler acts for one.
MembersOnly ==
    /\ \A i \in DOMAIN rows : rows[i].sender \in Participants
    /\ \A r \in Requests :
           task[r].pc \in {"insert", "commit", "respond"} \cup (ReadPcs \ {"member"})
               => IsMember(r)

\* The reader that handler r serves has nothing left to read in its message.
NamedReceipted(r) ==
    \/ rows[task[r].row].sender = User(r)
    \/ <<task[r].row, User(r)>> \in receipts

\* What a chat.read knows at each await: the named message is stored and not
\* later than readUntil, so that it is among the unread ones found by the scan
\* unless the reader is done with it already.
ReadOK(r) ==
    /\ task[r].pc \in {"update", "scan", "receipts", "announce"} /\ task[r].row # 0 =>
           task[r].row \in Committed
    /\ task[r].pc \in {"update", "scan"} /\ task[r].row # 0 =>
           rows[task[r].row].at <= task[r].until
    /\ task[r].pc \in {"receipts", "announce"} =>
           \A i \in task[r].found : i \in Committed /\ rows[i].sender # User(r)
    /\ task[r].pc = "receipts" /\ task[r].row # 0 =>
           NamedReceipted(r) \/ task[r].row \in task[r].found
    /\ task[r].pc = "announce" /\ task[r].row # 0 => NamedReceipted(r)

\* A message that a read is announced of is stored.
ReadIsStored ==
    \A c \in Conns : \A e \in Queued(c) :
        e.type = "chat.read" /\ e.row # 0 => e.row \in Committed

ReadInv ==
    /\ MembersOnly
    /\ \A r \in Requests : ReadOK(r)
    /\ ReadIsStored
    /\ RoomIsPrivate
    /\ ReceiptsAreGenuine
    /\ ReadIsReceipted

\* Connections may be in the room from the start, if they are of participants.
LEMMA ReadInvInitWith ==
    ASSUME NEW opened \in SUBSET Conns, InitWith(opened),
           \A c \in opened : Owner[c] \in Participants
    PROVE  ReadInv /\ ToldIsStored
  <1>1. \A r \in Requests : task[r].pc = "idle"
    BY DEF InitWith, Idle
  <1>2. /\ rows = <<>> /\ receipts = {} /\ \A c \in Conns : Queued(c) = {}
        /\ joined = opened /\ \A c \in opened : conn[c] = "open"
    BY DEF InitWith, Queued
  <1>. QED BY <1>1, <1>2
          DEF ReadInv, MembersOnly, ReadOK, ReadPcs, ReadIsStored, RoomIsPrivate,
              ReceiptsAreGenuine, ReadIsReceipted, ToldIsStored

LEMMA ReadInvInit == Init => ReadInv
  BY ReadInvInitWith DEF Init

\* A handler that goes on works for the same user, and past the check of the
\* participation only if that user is a participant.
LEMMA GoesOnUser ==
    ASSUME SendInv, NEW r \in Requests, GoesOn(r), task'[r].pc # "idle"
    PROVE  /\ task'[r].conn = task[r].conn
           /\ task[r].pc \in {"insert", "commit"} \cup ReadPcs \/ IsMember(r)
           /\ task[r].pc = "member" => IsMember(r)
  <1>. /\ task \in [Requests -> Task] /\ task[r] \in Task
       /\ Idle.pc = "idle"
    BY DEF SendInv, TypeOK, Idle
  <1>. USE DEF At, ReadPcs
  <1>1. CASE SendLookup(r)
    <2>1. IsMember(r) /\ task[r].pc = "lookup"
      BY <1>1 DEF SendLookup
    <2>2. CASE task' = [task EXCEPT ![r].pc = "insert"]
      BY <2>1, <2>2 DEF Task
    <2>3. ASSUME NEW i, task' = [task EXCEPT ![r].pc = "respond", ![r].row = i,
                                             ![r].readers = ReadersOf(i)]
          PROVE  task'[r].conn = task[r].conn
      BY <2>3 DEF Task
    <2>. QED BY <1>1, <2>1, <2>2, <2>3 DEF SendLookup
  <1>2. CASE SendInsert(r)
    <2>1. ~FailSend(r)
      BY DEF FailSend, Finish
    <2>2. task' = [task EXCEPT ![r].pc = "commit", ![r].row = Len(rows) + 1]
      BY <1>2, <2>1 DEF SendInsert
    <2>. QED BY <1>2, <2>2 DEF SendInsert, Task
  <1>3. CASE SendCommit(r)
    BY <1>3 DEF SendCommit, Task
  <1>4. CASE ReadMember(r)
    <2>1. /\ IsMember(r)
          /\ task' = [task EXCEPT ![r].pc = "target", ![r].until = clock]
      BY <1>4 DEF ReadMember, Finish
    <2>. QED BY <1>4, <2>1 DEF Task
  <1>5. CASE ReadTarget(r)
    BY <1>5 DEF ReadTarget, Task
  <1>6. CASE ReadUpdate(r) \/ ReadReceipts(r)
    BY <1>6 DEF ReadUpdate, ReadReceipts, Task
  <1>7. CASE ReadScan(r)
    BY <1>7 DEF ReadScan, Task
  <1>. QED BY <1>1, <1>2, <1>3, <1>4, <1>5, <1>6, <1>7 DEF GoesOn

\* A handler of message:send that goes on does so for the same connection and
\* the same clientMessageId.
LEMMA SendGoesOn ==
    ASSUME SendInv, NEW r \in Requests, GoesOn(r),
           task'[r].pc \in SendPcs \cup {"delivered"}
    PROVE  /\ task[r].pc \in SendPcs
           /\ task'[r].pc \in SendPcs
           /\ task'[r].conn = task[r].conn
           /\ task'[r].cid = task[r].cid
  <1>. /\ task \in [Requests -> Task] /\ task[r] \in Task
       /\ Idle.pc = "idle"
    BY DEF SendInv, TypeOK, Idle
  <1>. USE DEF At, SendPcs
  <1>1. CASE SendLookup(r)
    <2>1. task[r].pc = "lookup"
      BY <1>1 DEF SendLookup
    <2>2. CASE task' = [task EXCEPT ![r].pc = "insert"]
      BY <2>1, <2>2 DEF Task
    <2>3. ASSUME NEW i, task' = [task EXCEPT ![r].pc = "respond", ![r].row = i,
                                             ![r].readers = ReadersOf(i)]
          PROVE  /\ task'[r].conn = task[r].conn /\ task'[r].cid = task[r].cid
                 /\ task'[r].pc = "respond"
      BY <2>3 DEF Task
    <2>. QED BY <1>1, <2>1, <2>2, <2>3 DEF SendLookup
  <1>2. CASE SendInsert(r)
    <2>1. ~FailSend(r)
      BY DEF FailSend, Finish
    <2>2. task' = [task EXCEPT ![r].pc = "commit", ![r].row = Len(rows) + 1]
      BY <1>2, <2>1 DEF SendInsert
    <2>. QED BY <1>2, <2>2 DEF SendInsert, Task
  <1>3. CASE SendCommit(r)
    BY <1>3 DEF SendCommit, Task
  <1>4. CASE \/ ReadMember(r) \/ ReadTarget(r) \/ ReadUpdate(r) \/ ReadScan(r)
             \/ ReadReceipts(r)
    <2>1. task'[r].pc \in {"idle"} \cup ReadPcs
      <3>1. CASE ReadTarget(r)
        BY <3>1 DEF ReadTarget, Task, ReadPcs
      <3>2. CASE ReadScan(r)
        BY <3>2 DEF ReadScan, Task, ReadPcs
      <3>3. CASE ReadMember(r)
        BY <3>3 DEF ReadMember, Finish, Task, ReadPcs
      <3>4. CASE ReadUpdate(r) \/ ReadReceipts(r)
        BY <3>4 DEF ReadUpdate, ReadReceipts, Task, ReadPcs
      <3>. QED BY <1>4, <3>1, <3>2, <3>3, <3>4
    <2>. QED BY <2>1 DEF ReadPcs
  <1>. QED BY <1>1, <1>2, <1>3, <1>4 DEF GoesOn

LEMMA MembersStep == SendInv /\ MembersOnly /\ [Step]_vars => MembersOnly'
  <1>. SUFFICES ASSUME SendInv, MembersOnly, [Step]_vars
                PROVE  MembersOnly'
    OBVIOUS
  <1>1. ASSUME NEW i \in DOMAIN rows'
        PROVE  rows'[i].sender \in Participants
    BY <1>1, RowChange DEF MembersOnly, IsMember, At, SameKey
  <1>2. ASSUME NEW r \in Requests,
               task'[r].pc \in {"insert", "commit", "respond"} \cup (ReadPcs \ {"member"})
        PROVE  Owner[task'[r].conn] \in Participants
    <2>1. task'[r].pc \notin EntryPcs
      BY <1>2 DEF EntryPcs, ReadPcs
    <2>2. CASE task'[r] = task[r]
      BY <1>2, <2>2 DEF MembersOnly, IsMember, User
    <2>3. CASE GoesOn(r)
      <3>1. /\ task'[r].conn = task[r].conn
            /\ IsMember(r)
        BY <2>1, <2>3, GoesOnUser DEF EntryPcs, MembersOnly
      <3>. QED BY <3>1 DEF IsMember, User
    <2>. QED BY <2>1, <2>2, <2>3, SlotChange
  <1>. QED BY <1>1, <1>2 DEF MembersOnly, IsMember, User

\* A handler of chat.read learns one thing at each await.
LEMMA ReadOKStep ==
    ASSUME SendInv, [Step]_vars, NEW r \in Requests, ReadOK(r)
    PROVE  ReadOK(r)'
  <1>. /\ task \in [Requests -> Task] /\ task[r] \in Task
    BY DEF SendInv, TypeOK
  <1>. DEFINE i == task[r].row
  <1>1. \A k \in Committed : k \in Committed' /\ rows'[k] = rows[k]
    BY CommittedStays
  <1>2. receipts \subseteq receipts'
    BY ReceiptsStay
  <1>3. 0 \notin Committed
    BY RowType DEF Committed, SendInv
  <1>4. CASE task'[r].pc \notin {"update", "scan", "receipts", "announce"}
    BY <1>4 DEF ReadOK
  <1>5. CASE task'[r] = task[r]
    BY <1>1, <1>2, <1>5 DEF ReadOK, NamedReceipted, User
  <1>6. CASE ReadTarget(r)
    <2>. DEFINE until == IF i \in Committed THEN rows[i].at ELSE task[r].until
                row == IF i \in Committed THEN i ELSE 0
                t == [task[r] EXCEPT !.pc = "update", !.until = until,
                                     !.row = row, !.at = clock]
    <2>1. task'[r] = t
      BY <1>6 DEF ReadTarget
    <2>2. t.pc = "update" /\ t.row = row /\ t.until = until
      BY DEF Task
    <2>3. \A k \in Committed : rows[k].at \in Nat
      BY RowType DEF Committed, SendInv
    <2>. HIDE DEF t
    <2>. QED BY <1>1, <2>1, <2>2, <2>3 DEF ReadOK
  <1>7. CASE ReadUpdate(r)
    <2>1. /\ task[r].pc = "update" /\ task'[r] = [task[r] EXCEPT !.pc = "scan"]
      BY <1>7 DEF ReadUpdate, At
    <2>2. task'[r].pc = "scan" /\ task'[r].row = i /\ task'[r].until = task[r].until
      BY <2>1 DEF Task
    <2>. QED BY <1>1, <2>1, <2>2 DEF ReadOK
  <1>8. CASE ReadScan(r)
    <2>. DEFINE found == Unread(User(r), task[r].until)
                pc == IF found = {} THEN "announce" ELSE "receipts"
                t == [task[r] EXCEPT !.found = found, !.pc = pc]
    <2>1. task[r].pc = "scan" /\ task'[r] = t
      BY <1>8 DEF ReadScan, At
    <2>2. t.pc = pc /\ t.row = i /\ t.conn = task[r].conn /\ t.found = found
      BY DEF Task
    <2>3. \A k \in found : k \in Committed /\ rows[k].sender # User(r)
      BY DEF Unread
    <2>4. i # 0 => i \in Committed /\ rows[i].at <= task[r].until
      BY <2>1 DEF ReadOK
    <2>5. i # 0 => NamedReceipted(r) \/ i \in found
      BY <2>4 DEF Unread, NamedReceipted
    <2>6. pc \in {"announce", "receipts"} /\ (pc = "announce" => found = {})
      OBVIOUS
    <2>. HIDE DEF t, found, pc
    <2>. QED BY <1>1, <1>2, <2>1, <2>2, <2>3, <2>4, <2>5, <2>6
            DEF ReadOK, NamedReceipted, User
  <1>9. CASE ReadReceipts(r)
    <2>1. /\ task[r].pc = "receipts" /\ task'[r] = [task[r] EXCEPT !.pc = "announce"]
          /\ receipts' = receipts \cup (task[r].found \X {User(r)})
      BY <1>9 DEF ReadReceipts, At
    <2>2. /\ task'[r].pc = "announce" /\ task'[r].row = i
          /\ task'[r].conn = task[r].conn /\ task'[r].found = task[r].found
      BY <2>1 DEF Task
    <2>. QED BY <1>1, <1>2, <2>1, <2>2 DEF ReadOK, NamedReceipted, User
  <1>10. CASE SendLookup(r) \/ SendInsert(r) \/ SendCommit(r) \/ ReadMember(r)
    <2>1. task'[r].pc \in {"idle", "insert", "respond", "commit", "target"}
      <3>. Idle.pc = "idle"
        BY DEF Idle
      <3>1. CASE SendLookup(r)
        <4>1. CASE task' = [task EXCEPT ![r].pc = "insert"]
          BY <4>1 DEF Task
        <4>2. ASSUME NEW k, task' = [task EXCEPT ![r].pc = "respond", ![r].row = k,
                                                 ![r].readers = ReadersOf(k)]
              PROVE  task'[r].pc = "respond"
          BY <4>2 DEF Task
        <4>. QED BY <3>1, <4>1, <4>2 DEF SendLookup
      <3>2. CASE SendInsert(r)
        BY <3>2 DEF SendInsert, FailSend, Finish, Task
      <3>3. CASE SendCommit(r)
        BY <3>3 DEF SendCommit, Task
      <3>4. CASE ReadMember(r)
        BY <3>4 DEF ReadMember, Finish, Task
      <3>. QED BY <1>10, <3>1, <3>2, <3>3, <3>4
    <2>. QED BY <1>4, <2>1
  <1>. QED BY <1>4, <1>5, <1>6, <1>7, <1>8, <1>9, <1>10, SlotChange
          DEF EntryPcs, GoesOn

LEMMA ReadIsStoredStep ==
    SendInv /\ (\A r \in Requests : ReadOK(r)) /\ ReadIsStored /\ [Step]_vars
        => ReadIsStored'
  <1>. SUFFICES ASSUME SendInv, \A r \in Requests : ReadOK(r), ReadIsStored, [Step]_vars,
                       NEW c \in Conns, NEW e \in Queued(c)',
                       e.type = "chat.read", e.row # 0
                PROVE  e.row \in Committed
    BY CommittedStays DEF ReadIsStored
  <1>1. CASE e \in Queued(c)
    BY <1>1 DEF ReadIsStored
  <1>2. ASSUME NEW r \in Requests, ReadAnnounce(r), ToldOfRead(r, c, e)
        PROVE  e.row \in Committed
    BY <1>2 DEF ToldOfRead, ChatReadEvent, ReadStatus, ReadAnnounce, At, ReadOK
  <1>3. ASSUME NEW r \in Requests, ToldOfSend(r, c, e) \/ ToldOfDelivery(r, c, e)
        PROVE  FALSE
    BY <1>3 DEF ToldOfSend, ToldOfDelivery, NewEvent, SentEvent, DeliveredEvent
  <1>4. e # ErrorEvent
    BY DEF ErrorEvent
  <1>. QED BY <1>1, <1>2, <1>3, <1>4, News

\* Connections enter the room after the check, and while they are open.
LEMMA JoinedStep ==
    ASSUME SendInv, RoomIsPrivate, [Step]_vars, NEW c \in joined'
    PROVE  conn'[c] = "open" /\ Owner[c] \in Participants
  <1>. conn \in [Conns -> {"idle", "open", "closed"}] /\ joined \in SUBSET Conns
    BY DEF SendInv, TypeOK
  <1>1. CASE UNCHANGED <<conn, joined>>
    BY <1>1 DEF RoomIsPrivate
  <1>2. ASSUME NEW d \in Conns, Connect(d)
        PROVE  conn'[c] = "open" /\ Owner[c] \in Participants
    BY <1>2 DEF Connect, RoomIsPrivate
  <1>3. ASSUME NEW d \in Conns, Disconnect(d)
        PROVE  conn'[c] = "open" /\ Owner[c] \in Participants
    BY <1>3 DEF Disconnect, RoomIsPrivate
  <1>4. ASSUME NEW d \in Conns, OnRoomLeave(d)
        PROVE  conn'[c] = "open" /\ Owner[c] \in Participants
    BY <1>4 DEF OnRoomLeave, RoomIsPrivate
  <1>5. ASSUME NEW r \in Requests, RoomJoin(r)
        PROVE  conn'[c] = "open" /\ Owner[c] \in Participants
    BY <1>5 DEF RoomJoin, RoomIsPrivate, Open, IsMember, User
  <1>6. CASE Restart
    BY <1>6 DEF Restart
  <1>7. ASSUME NEW d \in Conns,
               Take(d) \/ OnBadMessageSend(d) \/ \E r \in Requests : AnyArrival(r, d)
        PROVE  UNCHANGED <<conn, joined>>
    BY <1>7 DEF Take, OnBadMessageSend, AnyArrival, OnRoomJoin, OnMessageSend, OnChatRead,
                OnDelivered
  <1>8. ASSUME NEW r \in Requests, Handler(r), ~RoomJoin(r)
        PROVE  UNCHANGED <<conn, joined>>
    BY <1>8 DEF Handler, Progress, Fault, SendStep, ReadStep, SendRejected, SendLookup,
                SendInsert, SendCommit, SendRespond, ReadMember, ReadTarget, ReadUpdate,
                ReadScan, ReadReceipts, ReadAnnounce, Delivered, SendCommitFails,
                SendQueryFails, ReadFails, JoinOrDeliveredFails
  <1>9. CASE Tick \/ UNCHANGED vars
    BY <1>1, <1>9 DEF Tick, vars
  <1>. QED BY <1>1, <1>2, <1>3, <1>4, <1>5, <1>6, <1>7, <1>8, <1>9 DEF Step

LEMMA RoomIsPrivateStep ==
    SendInv /\ ReadInv /\ [Step]_vars => RoomIsPrivate'
  <1>. SUFFICES ASSUME SendInv, ReadInv, [Step]_vars
                PROVE  RoomIsPrivate'
    OBVIOUS
  <1>. USE DEF ReadInv
  <1>1. ASSUME NEW c \in Conns, NEW e \in Queued(c)', e.type # "error"
        PROVE  Owner[c] \in Participants
    <2>1. CASE e \in Queued(c)
      BY <1>1, <2>1 DEF RoomIsPrivate
    <2>2. CASE c \in joined
      BY <2>2 DEF RoomIsPrivate
    <2>3. ASSUME NEW r \in Requests, SendRespond(r), c = task[r].conn
          PROVE  Owner[c] \in Participants
      BY <2>3 DEF SendRespond, At, MembersOnly, IsMember, User
    <2>4. ASSUME NEW i \in Committed, Owner[c] = rows[i].sender
          PROVE  Owner[c] \in Participants
      BY <2>4 DEF MembersOnly, Committed
    <2>5. ASSUME NEW r \in Requests, ToldOfDelivery(r, c, e)
          PROVE  Owner[c] \in Participants
      BY <2>4, <2>5 DEF ToldOfDelivery, UserRoom
    <2>6. ASSUME NEW r \in Requests, ReadAnnounce(r),
                 Owner[c] \in {rows[i].sender : i \in task[r].found}
          PROVE  Owner[c] \in Participants
      <3>1. \A i \in task[r].found : i \in Committed
        BY <2>6 DEF ReadAnnounce, At, ReadOK
      <3>. QED BY <2>4, <2>6, <3>1
    <2>7. e # ErrorEvent
      BY <1>1 DEF ErrorEvent
    <2>. QED BY <2>1, <2>2, <2>3, <2>5, <2>6, <2>7, News DEF ToldOfSend, ToldOfRead
  <1>. QED BY <1>1, JoinedStep DEF RoomIsPrivate

LEMMA ReceiptsAreGenuineStep ==
    SendInv /\ ReadInv /\ [Step]_vars => ReceiptsAreGenuine'
  <1>. SUFFICES ASSUME SendInv, ReadInv, [Step]_vars, NEW p \in receipts'
                PROVE  /\ p[1] \in Committed'
                       /\ p[2] \in Participants
                       /\ rows'[p[1]].sender # p[2]
    BY DEF ReceiptsAreGenuine
  <1>. USE DEF ReadInv
  <1>1. SUFFICES /\ p[1] \in Committed
                 /\ p[2] \in Participants
                 /\ rows[p[1]].sender # p[2]
    BY CommittedStays
  <1>2. CASE p \in receipts
    BY <1>2 DEF ReceiptsAreGenuine
  <1>3. ASSUME NEW r \in Requests, ReadReceipts(r)
        PROVE  p \in receipts \/ (p[1] \in task[r].found /\ p[2] = User(r))
    BY <1>3 DEF ReadReceipts
  <1>4. ASSUME NEW r \in Requests, ReadReceipts(r), p[1] \in task[r].found, p[2] = User(r)
        PROVE  p[1] \in Committed /\ p[2] \in Participants /\ rows[p[1]].sender # p[2]
    BY <1>4 DEF ReadReceipts, At, ReadOK, MembersOnly, IsMember, ReadPcs
  <1>5. CASE \A r \in Requests : ~ReadReceipts(r)
    <2>1. receipts' = receipts
      BY <1>5 DEF Step, Tick, vars, Connect, Disconnect, Take, OnRoomLeave, OnBadMessageSend,
                  AnyArrival, OnRoomJoin, OnMessageSend, OnChatRead, OnDelivered, Restart,
                  Handler, Progress, Fault, SendStep, ReadStep, SendRejected, SendLookup,
                  SendInsert, SendCommit, SendRespond, ReadMember, ReadTarget, ReadUpdate,
                  ReadScan, ReadAnnounce, RoomJoin, Delivered, SendCommitFails,
                  SendQueryFails, ReadFails, JoinOrDeliveredFails
    <2>. QED BY <1>2, <2>1
  <1>. QED BY <1>2, <1>3, <1>4, <1>5

LEMMA ReadIsReceiptedStep ==
    SendInv /\ ReadInv /\ [Step]_vars => ReadIsReceipted'
  <1>. SUFFICES ASSUME SendInv, ReadInv, [Step]_vars,
                       NEW c \in Conns, NEW e \in Queued(c)',
                       e.type = "chat.read", e.row # 0
                PROVE  \/ rows'[e.row].sender = e.user
                       \/ <<e.row, e.user>> \in receipts'
    BY DEF ReadIsReceipted
  <1>. USE DEF ReadInv
  <1>1. SUFFICES /\ e.row \in Committed
                 /\ rows[e.row].sender = e.user \/ <<e.row, e.user>> \in receipts
    BY CommittedStays, ReceiptsStay
  <1>2. CASE e \in Queued(c)
    BY <1>2 DEF ReadIsReceipted, ReadIsStored
  <1>3. ASSUME NEW r \in Requests, ReadAnnounce(r), ToldOfRead(r, c, e)
        PROVE  /\ e.row \in Committed
               /\ rows[e.row].sender = e.user \/ <<e.row, e.user>> \in receipts
    <2>1. e.row = task[r].row /\ e.user = User(r)
      BY <1>3 DEF ToldOfRead, ChatReadEvent, ReadStatus
    <2>. QED BY <1>3, <2>1 DEF ReadAnnounce, At, ReadOK, NamedReceipted
  <1>4. ASSUME NEW r \in Requests, ToldOfSend(r, c, e) \/ ToldOfDelivery(r, c, e)
        PROVE  FALSE
    BY <1>4 DEF ToldOfSend, ToldOfDelivery, NewEvent, SentEvent, DeliveredEvent
  <1>5. e # ErrorEvent
    BY DEF ErrorEvent
  <1>. QED BY <1>2, <1>3, <1>4, <1>5, News

LEMMA ReadInvStep == SendInv /\ ReadInv /\ [Step]_vars => ReadInv'
  BY MembersStep, ReadOKStep, ReadIsStoredStep, RoomIsPrivateStep,
     ReceiptsAreGenuineStep, ReadIsReceiptedStep
     DEF ReadInv

\* Both invariants hold in every state.
THEOREM ReadPath == Spec => [](SendInv /\ ReadInv)
  <1>1. Init => SendInv /\ ReadInv
    BY InitInv, ReadInvInit
  <1>2. SendInv /\ ReadInv /\ [Next]_vars => (SendInv /\ ReadInv)'
    BY NextIsStep, SendInvStep, ReadInvStep
  <1>. QED BY <1>1, <1>2, PTL DEF Spec

\* Only participants are in the room or hear of what happens in it, whatever
\* overtakes the check of a room:join.
THEOREM Privacy == Spec => []RoomIsPrivate
  <1>1. ReadInv => RoomIsPrivate
    BY DEF ReadInv
  <1>. QED BY <1>1, ReadPath, PTL

\* Receipts are for stored messages, from participants who did not send them.
THEOREM GenuineReceipts == Spec => []ReceiptsAreGenuine
  <1>1. ReadInv => ReceiptsAreGenuine
    BY DEF ReadInv
  <1>. QED BY <1>1, ReadPath, PTL

\* A chat.read that clients have yet to take names a message whose receipt is in
\* the table, however many readers and writers there are.
THEOREM ReceiptBeforeNews == Spec => []ReadIsReceipted
  <1>1. ReadInv => ReadIsReceipted
    BY DEF ReadInv
  <1>. QED BY <1>1, ReadPath, PTL

=============================================================================
