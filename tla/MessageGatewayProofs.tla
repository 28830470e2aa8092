------------------------ MODULE MessageGatewayProofs ------------------------
(***************************************************************************)
(* The safety of MessageGateway, proved for any sets of users, connections *)
(* and handlers.  The invariant of the send path says what a handler knows *)
(* about its message at each await: between its INSERT and the end of the  *)
(* transaction the row is its own and open, and once it answers the row is *)
(* committed and is the one its client asked for.                          *)
(***************************************************************************)
EXTENDS MessageGateway, TLAPS

\* The message of the handler in slot r is stored in the given state, under the
\* sender and the clientMessageId that the handler serves.
Holding(r, state) ==
    /\ task[r].row \in DOMAIN rows
    /\ rows[task[r].row].state = state
    /\ rows[task[r].row].sender = User(r)
    /\ rows[task[r].row].cid = task[r].cid

TaskOK ==
    \A r \in Requests :
        /\ task[r].pc # "idle" => task[r].conn \in Conns
        /\ task[r].pc \in SendPcs => task[r].cid \in ClientIds
        /\ task[r].pc = "commit" => Holding(r, "open")
        /\ task[r].pc = "respond" => Holding(r, "committed")

\* No two handlers hold the same open transaction.
OwnTransaction ==
    \A r, s \in Requests :
        /\ task[r].pc = "commit"
        /\ task[s].pc = "commit"
        /\ task[r].row = task[s].row
        => r = s

SendInv == TypeOK /\ TaskOK /\ OwnTransaction /\ OneRowPerSend

\* Any event of a client, whatever it names.
AnyArrival(r, c) ==
    \/ OnRoomJoin(r, c)
    \/ \E m \in ClientIds : OnMessageSend(r, c, m)
    \/ \E i \in Nat : OnChatRead(r, c, i) \/ OnDelivered(r, c, i)

\* Time passes for a reason outside of the gateway.
Tick ==
    /\ clock' \in Nat
    /\ clock' > clock
    /\ UNCHANGED <<conn, joined, task, rows, receipts, lastRead, out>>

\* What the gateway may do when nothing is assumed of its clients: Next without
\* its bounds.  The lemmas are about these steps, so that they hold wherever the
\* gateway is used.
Step ==
    \/ \E c \in Conns :
         Connect(c) \/ Disconnect(c) \/ Take(c) \/ OnRoomLeave(c) \/ OnBadMessageSend(c)
    \/ \E r \in Requests, c \in Conns : AnyArrival(r, c)
    \/ \E r \in Requests : Handler(r)
    \/ Restart
    \/ Tick

-----------------------------------------------------------------------------
(* Events and queues *)

\* What Push writes to the queues are events, if what it is given is one.
LEMMA PushType ==
    ASSUME TypeOK, NEW cs, NEW e \in Event
    PROVE  Push(cs, e) \in [Conns -> Seq(Event)]
  BY DEF TypeOK, Push

LEMMA IdleType == Idle \in Task
  BY DEF Idle, Task, Pcs

LEMMA ErrorType == ErrorEvent \in Event
  BY DEF ErrorEvent, Event

LEMMA RowType ==
    ASSUME TypeOK, NEW i \in DOMAIN rows
    PROVE  /\ i \in Nat \ {0}
           /\ rows[i] \in Row
           /\ rows[i].sender \in Users /\ rows[i].cid \in ClientIds
           /\ rows[i].at \in Nat
  <1>1. i \in Nat \ {0} /\ rows[i] \in Row
    BY DEF TypeOK
  <1>. QED BY <1>1 DEF Row

LEMMA NewEventType ==
    ASSUME TypeOK, NEW i \in DOMAIN rows, NEW m \in ClientIds,
           NEW readers \in SUBSET Users
    PROVE  NewEvent(i, m, readers) \in Event
  BY RowType DEF NewEvent, Event

LEMMA UserType ==
    ASSUME NEW r \in Requests, task[r].conn \in Conns
    PROVE  User(r) \in Users
  BY GatewayAssumption DEF User, GatewayAssumption

-----------------------------------------------------------------------------
(* Type correctness, one lemma for each group of actions *)

\* Connections may be in the room from the start.
LEMMA InitWithInv ==
    ASSUME NEW opened \in SUBSET Conns, InitWith(opened)
    PROVE  SendInv
  <1>. USE DEF InitWith
  <1>1. TypeOK
    BY IdleType DEF TypeOK
  <1>2. TaskOK /\ OwnTransaction
    BY DEF TaskOK, OwnTransaction, Idle, SendPcs
  <1>3. OneRowPerSend
    BY DEF OneRowPerSend
  <1>. QED BY <1>1, <1>2, <1>3 DEF SendInv

LEMMA InitInv == Init => SendInv
  BY InitWithInv DEF Init

-----------------------------------------------------------------------------
(* Steps that give one handler a new state and leave the messages alone *)

\* A handler that does not enter "commit", and answers only for a message that
\* is stored, disturbs no other handler.
LEMMA TaskChange ==
    ASSUME SendInv, NEW r \in Requests, NEW t \in Task,
           task' = [task EXCEPT ![r] = t], rows' = rows,
           t.pc # "idle" => t.conn \in Conns,
           t.pc \in SendPcs => t.cid \in ClientIds,
           t.pc # "commit",
           t.pc = "respond" => /\ t.row \in DOMAIN rows
                               /\ rows[t.row].state = "committed"
                               /\ rows[t.row].sender = Owner[t.conn]
                               /\ rows[t.row].cid = t.cid
    PROVE  /\ (task \in [Requests -> Task])'
           /\ TaskOK'
           /\ OwnTransaction'
           /\ OneRowPerSend'
  <1>. task \in [Requests -> Task]
    BY DEF SendInv, TypeOK
  <1>1. (task \in [Requests -> Task])'
    OBVIOUS
  <1>2. ASSUME NEW s \in Requests
        PROVE  task'[s] = IF s = r THEN t ELSE task[s]
    OBVIOUS
  <1>3. TaskOK'
    BY <1>2 DEF TaskOK, SendInv, Holding, User
  <1>4. OwnTransaction'
    BY <1>2 DEF OwnTransaction, SendInv
  <1>5. OneRowPerSend'
    BY DEF OneRowPerSend, SendInv
  <1>. QED BY <1>1, <1>3, <1>4, <1>5

LEMMA FinishStep ==
    ASSUME SendInv, NEW r \in Requests, Finish(r), rows' = rows
    PROVE  /\ (task \in [Requests -> Task])'
           /\ TaskOK'
           /\ OwnTransaction'
           /\ OneRowPerSend'
  <1>1. task' = [task EXCEPT ![r] = Idle]
    BY DEF Finish
  <1>2. Idle.pc = "idle"
    BY DEF Idle
  <1>. QED BY <1>1, <1>2, IdleType, TaskChange DEF SendPcs

\* Steps of connections: the handlers and the tables do not change.
LEMMA ConnectionStep ==
    ASSUME SendInv, task' = task, rows' = rows
    PROVE  TaskOK' /\ OwnTransaction' /\ OneRowPerSend'
  <1>. QED BY DEF SendInv, TaskOK, Holding, User, OwnTransaction, OneRowPerSend

LEMMA ConnectionActions ==
    ASSUME SendInv, NEW c \in Conns,
           Connect(c) \/ Disconnect(c) \/ Take(c) \/ OnRoomLeave(c) \/ OnBadMessageSend(c)
    PROVE  SendInv'
  <1>. USE DEF SendInv
  <1>1. task' = task /\ rows' = rows
    BY DEF Connect, Disconnect, Take, OnRoomLeave, OnBadMessageSend
  <1>2. TypeOK'
    <2>1. CASE Connect(c)
      BY <2>1 DEF Connect, TypeOK
    <2>2. CASE Disconnect(c)
      BY <2>2 DEF Disconnect, TypeOK
    <2>3. CASE Take(c)
      <3>1. Tail(out[c]) \in Seq(Event)
        BY <2>3 DEF Take, TypeOK
      <3>. QED BY <2>3, <3>1 DEF Take, TypeOK
    <2>4. CASE OnRoomLeave(c)
      BY <2>4 DEF OnRoomLeave, TypeOK
    <2>5. CASE OnBadMessageSend(c)
      <3>1. out' \in [Conns -> Seq(Event)]
        BY <2>5, PushType, ErrorType DEF OnBadMessageSend, Emit
      <3>. QED BY <2>5, <3>1 DEF OnBadMessageSend, TypeOK
    <2>. QED BY <2>1, <2>2, <2>3, <2>4, <2>5
  <1>. QED BY <1>1, <1>2, ConnectionStep

-----------------------------------------------------------------------------
(* Each action of a handler preserves the invariant of the send path *)

\* A slot whose handler goes on, with the type of what it then holds.
LEMMA TaskType ==
    ASSUME SendInv, NEW r \in Requests
    PROVE  task[r] \in Task
  BY DEF SendInv, TypeOK

LEMMA ArrivalActions ==
    ASSUME SendInv, NEW r \in Requests, NEW c \in Conns,
           \/ OnRoomJoin(r, c)
           \/ \E m \in ClientIds : OnMessageSend(r, c, m)
           \/ \E i \in Nat : OnChatRead(r, c, i) \/ OnDelivered(r, c, i)
    PROVE  SendInv'
  <1>1. PICK t \in Task :
          /\ task' = [task EXCEPT ![r] = t]
          /\ t.conn \in Conns
          /\ t.pc \in SendPcs => t.cid \in ClientIds
          /\ t.pc \notin {"commit", "respond"}
    <2>1. CASE OnRoomJoin(r, c)
      <3>. DEFINE t == [Idle EXCEPT !.pc = "join", !.conn = c]
      <3>1. t \in Task /\ t.conn = c /\ t.pc = "join"
        BY DEF Idle, Task, Pcs
      <3>. QED BY <2>1, <3>1 DEF OnRoomJoin, Start, SendPcs
    <2>2. CASE \E m \in ClientIds : OnMessageSend(r, c, m)
      <3>1. PICK m \in ClientIds : OnMessageSend(r, c, m)
        BY <2>2
      <3>. DEFINE t == [Idle EXCEPT !.pc = "lookup", !.conn = c, !.cid = m]
      <3>2. t \in Task /\ t.conn = c /\ t.pc = "lookup" /\ t.cid = m
        BY DEF Idle, Task, Pcs, SendPcs
      <3>. QED BY <3>1, <3>2 DEF OnMessageSend, Start
    <2>3. CASE \E i \in Nat : OnChatRead(r, c, i)
      <3>1. PICK i \in Nat : OnChatRead(r, c, i)
        BY <2>3
      <3>. DEFINE t == [Idle EXCEPT !.pc = "member", !.conn = c, !.row = i]
      <3>2. t \in Task /\ t.conn = c /\ t.pc = "member"
        BY DEF Idle, Task, Pcs, ReadPcs
      <3>. QED BY <3>1, <3>2 DEF OnChatRead, Start, SendPcs
    <2>4. CASE \E i \in Nat : OnDelivered(r, c, i)
      <3>1. PICK i \in Nat : OnDelivered(r, c, i)
        BY <2>4
      <3>. DEFINE t == [Idle EXCEPT !.pc = "delivered", !.conn = c, !.row = i]
      <3>2. t \in Task /\ t.conn = c /\ t.pc = "delivered"
        BY DEF Idle, Task, Pcs
      <3>. QED BY <3>1, <3>2 DEF OnDelivered, Start, SendPcs
    <2>. QED BY <2>1, <2>2, <2>3, <2>4
  <1>2. UNCHANGED <<conn, joined, rows, clock, receipts, lastRead, out>>
    BY DEF OnRoomJoin, OnMessageSend, OnChatRead, OnDelivered
  <1>3. /\ (task \in [Requests -> Task])'
        /\ TaskOK' /\ OwnTransaction' /\ OneRowPerSend'
    BY <1>1, <1>2, TaskChange
  <1>. QED BY <1>2, <1>3 DEF SendInv, TypeOK

\* Steps that end a handler: what they do besides keeps the types.
LEMMA EndingActions ==
    ASSUME SendInv, NEW r \in Requests,
           \/ RoomJoin(r) \/ SendRejected(r) \/ SendQueryFails(r) \/ ReadFails(r)
           \/ JoinOrDeliveredFails(r)
    PROVE  SendInv'
  <1>1. Finish(r) /\ rows' = rows
    BY DEF RoomJoin, SendRejected, SendQueryFails, FailSend, ReadFails,
           JoinOrDeliveredFails
  <1>2. /\ (task \in [Requests -> Task])'
        /\ TaskOK' /\ OwnTransaction' /\ OneRowPerSend'
    BY <1>1, FinishStep
  <1>. USE DEF SendInv
  <1>3. TypeOK'
    <2>1. CASE RoomJoin(r)
      BY <2>1, <1>2 DEF RoomJoin, Open, TypeOK
    <2>2. CASE SendRejected(r) \/ SendQueryFails(r)
      <3>1. out' \in [Conns -> Seq(Event)]
        BY <2>2, PushType, ErrorType DEF SendRejected, SendQueryFails, FailSend, Emit
      <3>. QED BY <2>2, <3>1, <1>2 DEF SendRejected, SendQueryFails, TypeOK
    <2>3. CASE ReadFails(r) \/ JoinOrDeliveredFails(r)
      BY <2>3, <1>2 DEF ReadFails, JoinOrDeliveredFails, TypeOK
    <2>. QED BY <2>1, <2>2, <2>3
  <1>. QED BY <1>2, <1>3

LEMMA DeliveredAction ==
    ASSUME SendInv, NEW r \in Requests, Delivered(r)
    PROVE  SendInv'
  <1>. DEFINE i == task[r].row
  <1>1. /\ (task \in [Requests -> Task])'
        /\ TaskOK' /\ OwnTransaction' /\ OneRowPerSend'
    BY FinishStep DEF Delivered
  <1>2. i \in Nat
    BY TaskType DEF Task
  <1>3. DeliveredEvent(i) \in Event
    BY <1>2 DEF DeliveredEvent, Event
  <1>4. out' \in [Conns -> Seq(Event)]
    BY <1>3, PushType DEF Delivered, Emit, SendInv, TypeOK
  <1>. QED BY <1>1, <1>4 DEF Delivered, SendInv, TypeOK

LEMMA ReadActions ==
    ASSUME SendInv, NEW r \in Requests,
           \/ ReadMember(r) \/ ReadTarget(r) \/ ReadUpdate(r) \/ ReadScan(r)
           \/ ReadReceipts(r)
    PROVE  SendInv'
  <1>. USE DEF SendInv
  <1>0. task[r] \in Task /\ task[r].conn \in Conns
    BY TaskType DEF TaskOK, ReadMember, ReadTarget, ReadUpdate, ReadScan, ReadReceipts, At
  <1>1. User(r) \in Users
    BY <1>0, UserType
  <1>2. Committed \subseteq Nat /\ \A i \in Committed : rows[i].at \in Nat
    BY RowType DEF Committed
  <1>3. PICK t \in Task :
          /\ task' = [task EXCEPT ![r] = t]
          /\ t.pc # "idle" => t.conn \in Conns
          /\ t.pc \notin SendPcs
    <2>1. CASE ReadMember(r)
      <3>1. CASE IsMember(r)
        <4>. DEFINE t == [task[r] EXCEPT !.pc = "target", !.until = clock]
        <4>1. t \in Task /\ t.conn \in Conns /\ t.pc \notin SendPcs
          BY <1>0 DEF Task, TypeOK, Pcs, ReadPcs, SendPcs
        <4>2. task' = [task EXCEPT ![r] = t]
          BY <2>1, <3>1 DEF ReadMember, TypeOK
        <4>. QED BY <4>1, <4>2
      <3>2. CASE ~IsMember(r)
        <4>1. Idle.pc = "idle"
          BY DEF Idle
        <4>. QED BY <2>1, <3>2, <4>1, IdleType DEF ReadMember, Finish, SendPcs
      <3>. QED BY <3>1, <3>2
    <2>2. CASE ReadTarget(r)
      <3>. DEFINE i == task[r].row
                  until == IF i \in Committed THEN rows[i].at ELSE task[r].until
                  row == IF i \in Committed THEN i ELSE 0
                  t == [task[r] EXCEPT !.pc = "update", !.until = until,
                                       !.row = row, !.at = clock]
      <3>1. until \in Nat /\ row \in Nat
        BY <1>0, <1>2 DEF Task
      <3>2. t \in Task /\ t.conn \in Conns /\ t.pc \notin SendPcs
        BY <1>0, <3>1 DEF Task, TypeOK, Pcs, ReadPcs, SendPcs
      <3>3. task' = [task EXCEPT ![r] = t]
        BY <2>2 DEF ReadTarget, TypeOK
      <3>. QED BY <3>2, <3>3
    <2>3. CASE ReadUpdate(r)
      <3>. DEFINE t == [task[r] EXCEPT !.pc = "scan"]
      <3>1. t \in Task /\ t.conn \in Conns /\ t.pc \notin SendPcs
        BY <1>0 DEF Task, Pcs, ReadPcs, SendPcs
      <3>2. task' = [task EXCEPT ![r] = t]
        BY <2>3 DEF ReadUpdate, TypeOK
      <3>. QED BY <3>1, <3>2
    <2>4. CASE ReadScan(r)
      <3>. DEFINE found == Unread(User(r), task[r].until)
                  pc == IF found = {} THEN "announce" ELSE "receipts"
                  t == [task[r] EXCEPT !.found = found, !.pc = pc]
      <3>1. found \in SUBSET Nat /\ pc \in {"announce", "receipts"}
        BY <1>2 DEF Unread
      <3>2. t \in Task /\ t.conn \in Conns /\ t.pc \notin SendPcs
        <4>. HIDE DEF found, pc
        <4>. QED BY <1>0, <3>1 DEF Task, Pcs, ReadPcs, SendPcs
      <3>3. task' = [task EXCEPT ![r] = t]
        BY <2>4 DEF ReadScan, TypeOK
      <3>. QED BY <3>2, <3>3
    <2>5. CASE ReadReceipts(r)
      <3>. DEFINE t == [task[r] EXCEPT !.pc = "announce"]
      <3>1. t \in Task /\ t.conn \in Conns /\ t.pc \notin SendPcs
        BY <1>0 DEF Task, Pcs, ReadPcs, SendPcs
      <3>2. task' = [task EXCEPT ![r] = t]
        BY <2>5 DEF ReadReceipts, TypeOK
      <3>. QED BY <3>1, <3>2
    <2>. QED BY <2>1, <2>2, <2>3, <2>4, <2>5
  <1>4. UNCHANGED <<conn, joined, rows, clock, out>>
    BY DEF ReadMember, ReadTarget, ReadUpdate, ReadScan, ReadReceipts
  <1>5. /\ (task \in [Requests -> Task])'
        /\ TaskOK' /\ OwnTransaction' /\ OneRowPerSend'
    BY <1>3, <1>4, TaskChange DEF SendPcs
  <1>6. lastRead' \in [Participants -> Nat]
    BY <1>0 DEF ReadMember, ReadTarget, ReadUpdate, ReadScan, ReadReceipts, TypeOK, Task
  <1>7. receipts' \in SUBSET (Nat \X Users)
    <2>1. CASE ReadReceipts(r)
      <3>1. task[r].found \X {User(r)} \subseteq Nat \X Users
        BY <1>0, <1>1 DEF Task
      <3>. QED BY <2>1, <3>1 DEF ReadReceipts, TypeOK
    <2>2. CASE receipts' = receipts
      BY <2>2 DEF TypeOK
    <2>. QED BY <2>1, <2>2 DEF ReadMember, ReadTarget, ReadUpdate, ReadScan
  <1>. QED BY <1>4, <1>5, <1>6, <1>7 DEF TypeOK

LEMMA LookupAction ==
    ASSUME SendInv, NEW r \in Requests, SendLookup(r)
    PROVE  SendInv'
  <1>. USE DEF SendInv
  <1>0. /\ task[r] \in Task /\ task[r].conn \in Conns
        /\ task[r].cid \in ClientIds
    BY TaskType DEF TaskOK, SendLookup, At, SendPcs
  <1>. DEFINE found == Holders(User(r), task[r].cid) \cap Committed
  <1>1. PICK t \in Task :
          /\ task' = [task EXCEPT ![r] = t]
          /\ t.conn \in Conns /\ t.cid \in ClientIds /\ t.pc # "commit"
          /\ t.pc = "respond" => /\ t.row \in DOMAIN rows
                                 /\ rows[t.row].state = "committed"
                                 /\ rows[t.row].sender = Owner[t.conn]
                                 /\ rows[t.row].cid = t.cid
    <2>1. CASE found = {}
      <3>. DEFINE t == [task[r] EXCEPT !.pc = "insert"]
      <3>1. /\ t \in Task /\ t.conn = task[r].conn /\ t.cid = task[r].cid
            /\ t.pc = "insert"
        BY <1>0 DEF Task, Pcs, SendPcs
      <3>2. task' = [task EXCEPT ![r] = t]
        BY <2>1 DEF SendLookup, TypeOK
      <3>. QED BY <1>0, <3>1, <3>2
    <2>2. CASE found # {}
      <3>1. PICK i \in found :
              task' = [task EXCEPT ![r].pc = "respond", ![r].row = i,
                                   ![r].readers = ReadersOf(i)]
        BY <2>2 DEF SendLookup
      <3>. DEFINE t == [task[r] EXCEPT !.pc = "respond", !.row = i,
                                       !.readers = ReadersOf(i)]
      <3>2. /\ i \in DOMAIN rows /\ rows[i].state = "committed"
            /\ rows[i].sender = Owner[task[r].conn] /\ rows[i].cid = task[r].cid
        BY DEF Holders, Committed, User
      <3>3. i \in Nat /\ ReadersOf(i) \in SUBSET Users
        BY <3>2, RowType DEF ReadersOf
      <3>4. /\ t \in Task /\ t.conn = task[r].conn /\ t.cid = task[r].cid
            /\ t.pc = "respond" /\ t.row = i
        BY <1>0, <3>3 DEF Task, Pcs, SendPcs
      <3>5. task' = [task EXCEPT ![r] = t]
        BY <3>1 DEF TypeOK
      <3>. QED BY <1>0, <3>2, <3>4, <3>5
    <2>. QED BY <2>1, <2>2
  <1>2. UNCHANGED <<conn, joined, rows, clock, receipts, lastRead, out>>
    BY DEF SendLookup
  <1>3. /\ (task \in [Requests -> Task])'
        /\ TaskOK' /\ OwnTransaction' /\ OneRowPerSend'
    BY <1>1, <1>2, TaskChange
  <1>. QED BY <1>2, <1>3 DEF TypeOK

\* The INSERT: the unique index admits the row only when no other row counts
\* for its key.
LEMMA InsertAction ==
    ASSUME SendInv, NEW r \in Requests, SendInsert(r)
    PROVE  SendInv'
  <1>. USE DEF SendInv
  <1>0. /\ task[r] \in Task /\ task[r].conn \in Conns
        /\ task[r].cid \in ClientIds /\ User(r) \in Users
    BY TaskType, UserType DEF TaskOK, SendInsert, At, SendPcs
  <1>1. CASE rows' = rows /\ FailSend(r)
    <2>1. /\ (task \in [Requests -> Task])'
          /\ TaskOK' /\ OwnTransaction' /\ OneRowPerSend'
      BY <1>1, FinishStep DEF FailSend
    <2>2. out' \in [Conns -> Seq(Event)]
      BY <1>1, PushType, ErrorType DEF FailSend, Emit
    <2>. QED BY <1>1, <2>1, <2>2 DEF SendInsert, TypeOK
  <1>2. CASE /\ Holders(User(r), task[r].cid) = {}
             /\ clock' = clock + 1
             /\ rows' = Append(rows, NewRow(r))
             /\ task' = [task EXCEPT ![r].pc = "commit", ![r].row = Len(rows) + 1]
             /\ UNCHANGED out
    <2>. DEFINE n == Len(rows) + 1
                t == [task[r] EXCEPT !.pc = "commit", !.row = n]
    <2>1. /\ NewRow(r) \in Row /\ NewRow(r).sender = User(r)
          /\ NewRow(r).cid = task[r].cid /\ NewRow(r).state = "open"
      BY <1>0 DEF NewRow, Row, RowStates, TypeOK
    <2>2. /\ rows' \in Seq(Row) /\ n \in Nat /\ n \in DOMAIN rows'
          /\ DOMAIN rows' = 1..n /\ DOMAIN rows = 1..(n - 1)
          /\ rows'[n] = NewRow(r)
          /\ \A i \in DOMAIN rows : rows'[i] = rows[i]
      BY <1>2, <2>1 DEF TypeOK
    <2>3. t \in Task /\ t.pc = "commit" /\ t.row = n /\ t.conn = task[r].conn
          /\ t.cid = task[r].cid
      BY <1>0, <2>2 DEF Task, Pcs, SendPcs
    <2>4. task' = [task EXCEPT ![r] = t]
      BY <1>2 DEF TypeOK
    <2>. HIDE DEF n, t
    <2>5. \A s \in Requests : task'[s] = IF s = r THEN t ELSE task[s]
      BY <2>4 DEF TypeOK
    <2>6. TaskOK'
      <3>. SUFFICES ASSUME NEW s \in Requests
                    PROVE  /\ task'[s].pc # "idle" => task'[s].conn \in Conns
                           /\ task'[s].pc \in SendPcs => task'[s].cid \in ClientIds
                           /\ task'[s].pc = "commit" => Holding(s, "open")'
                           /\ task'[s].pc = "respond" => Holding(s, "committed")'
        BY DEF TaskOK
      <3>1. CASE s = r
        BY <1>0, <2>1, <2>2, <2>3, <2>5, <3>1 DEF Holding, User
      <3>2. CASE s # r
        BY <2>2, <2>5, <3>2 DEF TaskOK, Holding, User
      <3>. QED BY <3>1, <3>2
    <2>7. OwnTransaction'
      BY <2>2, <2>3, <2>5 DEF OwnTransaction, TaskOK, Holding
    <2>8. OneRowPerSend'
      BY <1>2, <2>1, <2>2 DEF OneRowPerSend, Holders
    <2>9. TypeOK'
      <3>1. task' \in [Requests -> Task]
        BY <2>3, <2>4 DEF TypeOK
      <3>2. clock' \in Nat
        BY <1>2 DEF TypeOK
      <3>3. UNCHANGED <<conn, joined, receipts, lastRead, out>>
        BY <1>2 DEF SendInsert
      <3>. QED BY <2>2, <3>1, <3>2, <3>3 DEF TypeOK
    <2>. QED BY <2>6, <2>7, <2>8, <2>9
  <1>. QED BY <1>1, <1>2 DEF SendInsert

\* The end of the transaction of handler r.
LEMMA SetRowFacts ==
    ASSUME SendInv, NEW r \in Requests, At(r, "commit"),
           NEW state \in RowStates, SetRow(r, state)
    PROVE  /\ rows' \in Seq(Row)
           /\ DOMAIN rows' = DOMAIN rows
           /\ task[r].row \in DOMAIN rows
           /\ rows[task[r].row].state = "open"
           /\ rows'[task[r].row] = [rows[task[r].row] EXCEPT !.state = state]
           /\ \A i \in DOMAIN rows : i # task[r].row => rows'[i] = rows[i]
  <1>. DEFINE i == task[r].row
              new == [rows[i] EXCEPT !.state = state]
  <1>1. i \in DOMAIN rows /\ rows[i].state = "open"
    BY DEF SendInv, TaskOK, Holding, At
  <1>2. new \in Row
    BY <1>1, RowType DEF Row, SendInv
  <1>3. rows' = [rows EXCEPT ![i] = new]
    BY DEF SetRow
  <1>. QED BY <1>1, <1>2, <1>3 DEF SendInv, TypeOK

\* What the other handlers hold outlives it, and no second row counts for a key.
LEMMA SetRowKeeps ==
    ASSUME SendInv, NEW r \in Requests, At(r, "commit"),
           NEW state \in RowStates, SetRow(r, state)
    PROVE  /\ OneRowPerSend'
           /\ \A s \in Requests \ {r} :
                  /\ task[s].pc = "commit" =>
                        /\ rows'[task[s].row] = rows[task[s].row]
                        /\ task[s].row # task[r].row
                  /\ task[s].pc = "respond" => rows'[task[s].row] = rows[task[s].row]
  <1>. DEFINE i == task[r].row
  <1>1. /\ DOMAIN rows' = DOMAIN rows /\ i \in DOMAIN rows
        /\ rows[i].state = "open"
        /\ rows'[i] = [rows[i] EXCEPT !.state = state]
        /\ \A k \in DOMAIN rows : k # i => rows'[k] = rows[k]
    BY SetRowFacts
  <1>2. \A k \in DOMAIN rows : /\ rows'[k].sender = rows[k].sender
                               /\ rows'[k].cid = rows[k].cid
                               /\ rows'[k].state # "aborted" => rows[k].state # "aborted"
    BY <1>1, RowType DEF SendInv, Row
  <1>3. OneRowPerSend'
    BY <1>1, <1>2 DEF OneRowPerSend, SendInv
  <1>4. ASSUME NEW s \in Requests \ {r}
        PROVE  /\ task[s].pc = "commit" => task[s].row \in DOMAIN rows /\ task[s].row # i
               /\ task[s].pc = "respond" => task[s].row \in DOMAIN rows /\ task[s].row # i
    BY <1>1 DEF SendInv, TaskOK, OwnTransaction, Holding, At
  <1>. QED BY <1>1, <1>3, <1>4

LEMMA CommitAction ==
    ASSUME SendInv, NEW r \in Requests, SendCommit(r)
    PROVE  SendInv'
  <1>. USE DEF SendInv
  <1>. DEFINE i == task[r].row
              t == [task[r] EXCEPT !.pc = "respond"]
  <1>0. At(r, "commit") /\ "committed" \in RowStates /\ SetRow(r, "committed")
    BY DEF SendCommit, RowStates
  <1>1. /\ rows' \in Seq(Row) /\ DOMAIN rows' = DOMAIN rows /\ i \in DOMAIN rows
        /\ rows'[i] = [rows[i] EXCEPT !.state = "committed"]
    BY <1>0, SetRowFacts
  <1>2. task[r] \in Task /\ task[r].conn \in Conns /\ task[r].cid \in ClientIds
    BY <1>0, TaskType DEF TaskOK, At, SendPcs
  <1>3. t \in Task /\ t.pc = "respond" /\ t.row = i /\ t.conn = task[r].conn
        /\ t.cid = task[r].cid
    BY <1>2 DEF Task, Pcs, SendPcs
  <1>4. \A s \in Requests : task'[s] = IF s = r THEN t ELSE task[s]
    BY DEF SendCommit, TypeOK
  <1>5. task' \in [Requests -> Task]
    BY <1>3 DEF SendCommit, TypeOK
  <1>6. /\ rows'[i].state = "committed" /\ rows'[i].sender = User(r)
        /\ rows'[i].cid = task[r].cid
    BY <1>0, <1>1, RowType DEF Row, TaskOK, Holding, At
  <1>. HIDE DEF t
  <1>7. TaskOK'
    <2>. SUFFICES ASSUME NEW s \in Requests
                  PROVE  /\ task'[s].pc # "idle" => task'[s].conn \in Conns
                         /\ task'[s].pc \in SendPcs => task'[s].cid \in ClientIds
                         /\ task'[s].pc = "commit" => Holding(s, "open")'
                         /\ task'[s].pc = "respond" => Holding(s, "committed")'
      BY DEF TaskOK
    <2>1. CASE s = r
      BY <1>1, <1>2, <1>3, <1>4, <1>6, <2>1 DEF Holding, User
    <2>2. CASE s # r
      BY <1>0, <1>1, <1>4, <2>2, SetRowKeeps DEF TaskOK, Holding, User
    <2>. QED BY <2>1, <2>2
  <1>8. OwnTransaction'
    BY <1>3, <1>4 DEF OwnTransaction
  <1>9. OneRowPerSend'
    BY <1>0, SetRowKeeps
  <1>10. TypeOK'
    BY <1>1, <1>5 DEF SendCommit, TypeOK
  <1>. QED BY <1>7, <1>8, <1>9, <1>10

LEMMA CommitFailsAction ==
    ASSUME SendInv, NEW r \in Requests, SendCommitFails(r)
    PROVE  SendInv'
  <1>. USE DEF SendInv
  <1>0. At(r, "commit")
    BY DEF SendCommitFails
  <1>1. PICK state \in {"committed", "aborted"} : SetRow(r, state)
    BY DEF SendCommitFails
  <1>2. state \in RowStates
    BY DEF RowStates
  <1>3. rows' \in Seq(Row) /\ DOMAIN rows' = DOMAIN rows
    BY <1>0, <1>1, <1>2, SetRowFacts
  <1>4. task' = [task EXCEPT ![r] = Idle] /\ Idle.pc = "idle"
    BY DEF SendCommitFails, FailSend, Finish, Idle
  <1>5. \A s \in Requests : task'[s] = IF s = r THEN Idle ELSE task[s]
    BY <1>4 DEF TypeOK
  <1>6. TaskOK'
    <2>. SUFFICES ASSUME NEW s \in Requests
                  PROVE  /\ task'[s].pc # "idle" => task'[s].conn \in Conns
                         /\ task'[s].pc \in SendPcs => task'[s].cid \in ClientIds
                         /\ task'[s].pc = "commit" => Holding(s, "open")'
                         /\ task'[s].pc = "respond" => Holding(s, "committed")'
      BY DEF TaskOK
    <2>1. CASE s = r
      BY <1>4, <1>5, <2>1 DEF SendPcs
    <2>2. CASE s # r
      BY <1>0, <1>1, <1>2, <1>3, <1>5, <2>2, SetRowKeeps DEF TaskOK, Holding, User
    <2>. QED BY <2>1, <2>2
  <1>7. OwnTransaction'
    BY <1>4, <1>5 DEF OwnTransaction
  <1>8. OneRowPerSend'
    BY <1>0, <1>1, <1>2, SetRowKeeps
  <1>9. out' \in [Conns -> Seq(Event)]
    BY PushType, ErrorType DEF SendCommitFails, FailSend, Emit
  <1>10. TypeOK'
    BY <1>3, <1>4, <1>9, IdleType DEF SendCommitFails, TypeOK
  <1>. QED BY <1>6, <1>7, <1>8, <1>10

\* The two answers of a send: the broadcast and the status.
LEMMA RespondAction ==
    ASSUME SendInv, NEW r \in Requests, SendRespond(r)
    PROVE  SendInv'
  <1>. DEFINE t == task[r]
              new == Push(joined, NewEvent(t.row, t.cid, t.readers))
  <1>1. /\ (task \in [Requests -> Task])'
        /\ TaskOK' /\ OwnTransaction' /\ OneRowPerSend'
    BY FinishStep DEF SendRespond
  <1>2. /\ t.row \in DOMAIN rows /\ t.cid \in ClientIds
        /\ t.readers \in SUBSET Users
    BY TaskType DEF SendInv, TaskOK, Holding, SendRespond, At, SendPcs, Task
  <1>3. NewEvent(t.row, t.cid, t.readers) \in Event
    BY <1>2, NewEventType DEF SendInv
  <1>4. SentEvent(t.row, t.cid) \in Event
    BY <1>2, RowType DEF SentEvent, Event, SendInv
  <1>5. new \in [Conns -> Seq(Event)]
    BY <1>3, PushType DEF SendInv
  <1>. HIDE DEF new
  <1>6. out' \in [Conns -> Seq(Event)]
    BY <1>4, <1>5 DEF SendRespond, new
  <1>. QED BY <1>1, <1>6 DEF SendRespond, SendInv, TypeOK

LEMMA AnnounceAction ==
    ASSUME SendInv, NEW r \in Requests, ReadAnnounce(r)
    PROVE  SendInv'
  <1>. DEFINE t == task[r]
              u == User(r)
              read == Push(joined, ChatReadEvent(u, t.row, t.at))
  <1>1. /\ (task \in [Requests -> Task])'
        /\ TaskOK' /\ OwnTransaction' /\ OneRowPerSend'
    BY FinishStep DEF ReadAnnounce
  <1>2. u \in Users /\ t.row \in Nat /\ t.at \in Nat
    BY TaskType, UserType DEF SendInv, TaskOK, ReadAnnounce, At, Task
  <1>3. ChatReadEvent(u, t.row, t.at) \in Event /\ ReadStatus(u, t.row) \in Event
    BY <1>2 DEF ChatReadEvent, ReadStatus, Event
  <1>4. read \in [Conns -> Seq(Event)]
    BY <1>3, PushType DEF SendInv
  <1>. HIDE DEF read
  <1>5. out' \in [Conns -> Seq(Event)]
    BY <1>3, <1>4 DEF ReadAnnounce, read
  <1>. QED BY <1>1, <1>5 DEF ReadAnnounce, SendInv, TypeOK

\* A restart leaves no handler, and aborts the transactions that were open.
LEMMA RestartAction ==
    ASSUME SendInv, Restart
    PROVE  SendInv'
  <1>. USE DEF SendInv
  <1>1. \A i \in DOMAIN rows :
          /\ rows'[i] \in Row
          /\ rows'[i].sender = rows[i].sender /\ rows'[i].cid = rows[i].cid
          /\ rows'[i].state # "aborted" => rows[i].state # "aborted"
    BY RowType DEF Restart, Row, RowStates
  <1>2. DOMAIN rows' = DOMAIN rows /\ rows' \in Seq(Row)
    <2>1. PICK n \in Nat : DOMAIN rows = 1..n
      BY DEF TypeOK
    <2>2. rows' = [i \in 1..n |-> rows'[i]]
      BY <2>1 DEF Restart
    <2>. QED BY <1>1, <2>1, <2>2
  <1>3. \A s \in Requests : task'[s] = Idle
    BY DEF Restart
  <1>4. TaskOK' /\ OwnTransaction'
    BY <1>3 DEF TaskOK, OwnTransaction, Idle, SendPcs
  <1>5. OneRowPerSend'
    BY <1>1, <1>2 DEF OneRowPerSend
  <1>6. TypeOK'
    BY <1>2, IdleType DEF Restart, TypeOK
  <1>. QED BY <1>4, <1>5, <1>6

-----------------------------------------------------------------------------
(* The send path *)

LEMMA StutterStep == SendInv /\ UNCHANGED vars => SendInv'
  BY DEF vars, SendInv, TypeOK, TaskOK, Holding, User, OwnTransaction, OneRowPerSend

LEMMA SendInvStep == SendInv /\ [Step]_vars => SendInv'
  <1>. SUFFICES ASSUME SendInv, [Step]_vars PROVE SendInv'
    OBVIOUS
  <1>1. ASSUME NEW c \in Conns,
               Connect(c) \/ Disconnect(c) \/ Take(c) \/ OnRoomLeave(c) \/ OnBadMessageSend(c)
        PROVE  SendInv'
    BY <1>1, ConnectionActions
  <1>2. ASSUME NEW r \in Requests, NEW c \in Conns, AnyArrival(r, c)
        PROVE  SendInv'
    BY <1>2, ArrivalActions DEF AnyArrival
  <1>3. ASSUME Tick
        PROVE  SendInv'
    BY <1>3, ConnectionStep DEF Tick, SendInv, TypeOK
  <1>4. ASSUME NEW r \in Requests, Handler(r)
        PROVE  SendInv'
    <2>1. CASE SendStep(r)
      BY <2>1, EndingActions, LookupAction, InsertAction, CommitAction, RespondAction
         DEF SendStep
    <2>2. CASE ReadStep(r)
      BY <2>2, ReadActions, AnnounceAction DEF ReadStep
    <2>3. CASE RoomJoin(r) \/ Delivered(r)
      BY <2>3, EndingActions, DeliveredAction
    <2>4. CASE Fault(r)
      BY <2>4, EndingActions, CommitFailsAction DEF Fault
    <2>. QED BY <1>4, <2>1, <2>2, <2>3, <2>4 DEF Handler, Progress
  <1>. QED BY <1>1, <1>2, <1>3, <1>4, RestartAction, StutterStep DEF Step

\* The bounds of Next only leave steps out.
LEMMA NextIsStep == SendInv /\ [Next]_vars => [Step]_vars
  <1>. SUFFICES ASSUME SendInv, Next PROVE Step
    OBVIOUS
  <1>1. ASSUME NEW r \in Requests, NEW c \in Conns, Arrival(r, c)
        PROVE  AnyArrival(r, c)
    <2>1. DOMAIN rows \subseteq Nat /\ 0..Len(rows) \subseteq Nat
      BY RowType DEF SendInv, TypeOK
    <2>. QED BY <1>1, <2>1 DEF Arrival, AnyArrival
  <1>. QED BY <1>1 DEF Next, Step

\* The state of every handler, table and queue keeps its type.
THEOREM TypeCorrect == Spec => []TypeOK
  <1>1. Init => SendInv
    BY InitInv
  <1>2. SendInv /\ [Next]_vars => SendInv'
    BY NextIsStep, SendInvStep
  <1>3. SendInv => TypeOK
    BY DEF SendInv
  <1>. QED BY <1>1, <1>2, <1>3, PTL DEF Spec

\* However many handlers, devices and retries there are, and whatever fails: at
\* most one row counts for each sender and clientMessageId.
THEOREM Idempotent == Spec => []OneRowPerSend
  <1>1. Init => SendInv
    BY InitInv
  <1>2. SendInv /\ [Next]_vars => SendInv'
    BY NextIsStep, SendInvStep
  <1>3. SendInv => OneRowPerSend
    BY DEF SendInv
  <1>. QED BY <1>1, <1>2, <1>3, PTL DEF Spec

=============================================================================
