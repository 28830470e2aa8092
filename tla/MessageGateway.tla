--------------------------- MODULE MessageGateway ---------------------------
(***************************************************************************)
(* The server half of one chat room: the Socket.IO gateway                 *)
(* (server/src/websocket/websocket.gateway.ts) and the service it calls    *)
(* (server/src/messages/messages.service.ts), over the three tables they   *)
(* write: messages, message_read_receipts and room_participants.           *)
(*                                                                         *)
(* Every handler is async.  NestJS starts one for each event as it arrives *)
(* and never waits for the previous one, so a handler is a task of its     *)
(* own, and each of its awaits is a point where any other step may run.    *)
(* A task is cut into one action per await; what the code does between two *)
(* awaits is one atomic step.                                              *)
(*                                                                         *)
(* rows[i] is the i-th INSERT into messages and i the message's id.  Times *)
(* are values of clock, which ticks with every INSERT, so that createdAt   *)
(* grows with the id and a new Date() lies after every INSERT made so far. *)
(***************************************************************************)
EXTENDS Integers, Sequences, FiniteSets

CONSTANTS
    Users,         \* the accounts
    Participants,  \* those with a row in room_participants for this room
    Conns,         \* Socket.IO connections; each one is opened at most once
    Owner,         \* the user whose token a connection presents
    ClientIds,     \* clientMessageId values
    Requests,      \* slots for handler invocations in progress
    None,          \* absent connection or id
    ClientEvents,  \* the events that Next makes up for each connection; one
                   \* is a "bad message:send", which the validation rejects
    MaxQueue,      \* bounds on Next: it makes up no client event while some
    MaxRows        \* queue holds MaxQueue events, and no message:send once
                   \* MaxRows rows have been inserted

ASSUME GatewayAssumption ==
    /\ Participants \subseteq Users
    /\ Owner \in [Conns -> Users]
    /\ None \notin Conns \cup ClientIds
    /\ MaxQueue \in Nat
    /\ MaxRows \in Nat

VARIABLES
    conn,      \* each connection: "idle", then "open", then "closed"
    joined,    \* the connections in the Socket.IO room room:<id>
    task,      \* the handler running in each request slot
    rows,      \* the messages table
    clock,     \* the time of the latest event that a timestamp was taken of
    receipts,  \* the message_read_receipts table: <<message, reader>>
    lastRead,  \* room_participants.lastReadAt, 0 for null
    out        \* events written to each connection and not yet taken by it

vars == <<conn, joined, task, rows, clock, receipts, lastRead, out>>

-----------------------------------------------------------------------------
(* The tables *)

RowStates == {"open", "committed", "aborted"}

Row == [sender : Users, cid : ClientIds, at : Nat, state : RowStates]

Committed == {i \in DOMAIN rows : rows[i].state = "committed"}

\* The rows that the unique index on (roomId, senderId, clientMessageId) holds
\* for key <<u, m>>: committed ones, and those of transactions still open.
Holders(u, m) ==
    {i \in DOMAIN rows : /\ rows[i].sender = u
                         /\ rows[i].cid = m
                         /\ rows[i].state # "aborted"}

ReadersOf(i) == {u \in Users : <<i, u>> \in receipts}

\* What GET /chats/:id/messages returns for a room that fits in one page: every
\* committed message, newest first, with the users who have a receipt for it.
PageLength == Cardinality(Committed)

GetMessages ==
    [n \in 1..PageLength |->
        LET i == CHOOSE j \in Committed :
                     Cardinality({k \in Committed : k > j}) = n - 1
        IN  [row |-> i, sender |-> rows[i].sender, at |-> rows[i].at,
             readers |-> ReadersOf(i)]]

-----------------------------------------------------------------------------
(* Handlers in progress *)

SendPcs == {"lookup", "insert", "commit", "respond"}
ReadPcs == {"member", "target", "update", "scan", "receipts", "announce"}
Pcs == {"idle", "join", "delivered"} \cup SendPcs \cup ReadPcs

\* row: the message a task is about.  until, at, found: readUntil, readAt and
\* unreadMessages of markRead.  readers: readReceipts of the message answered.
Task == [pc : Pcs, conn : Conns \cup {None}, cid : ClientIds \cup {None},
         row : Nat, until : Nat, at : Nat,
         found : SUBSET Nat, readers : SUBSET Users]

Idle == [pc |-> "idle", conn |-> None, cid |-> None, row |-> 0, until |-> 0,
         at |-> 0, found |-> {}, readers |-> {}]

Start(r, t) ==
    /\ task[r].pc = "idle"
    /\ conn[t.conn] = "open"
    /\ task' = [task EXCEPT ![r] = t]

Finish(r) == task' = [task EXCEPT ![r] = Idle]

At(r, pc) == task[r].pc = pc

User(r) == Owner[task[r].conn]

IsMember(r) == User(r) \in Participants

-----------------------------------------------------------------------------
(* Events to clients *)

NewEvent(i, m, readers) ==
    [type |-> "message:new", row |-> i, cid |-> m, sender |-> rows[i].sender,
     at |-> rows[i].at, readers |-> readers]
SentEvent(i, m) == [type |-> "sent", row |-> i, cid |-> m]
DeliveredEvent(i) == [type |-> "delivered", row |-> i]
ReadStatus(u, i) == [type |-> "read", user |-> u, row |-> i]
ChatReadEvent(u, i, t) == [type |-> "chat.read", user |-> u, row |-> i, at |-> t]
ErrorEvent == [type |-> "error"]

Event ==
    [type : {"message:new"}, row : Nat, cid : ClientIds, sender : Users,
     at : Nat, readers : SUBSET Users]
    \cup [type : {"sent"}, row : Nat, cid : ClientIds]
    \cup [type : {"delivered"}, row : Nat]
    \cup [type : {"read"}, user : Users, row : Nat]
    \cup [type : {"chat.read"}, user : Users, row : Nat, at : Nat]
    \cup [type : {"error"}]

Open == {c \in Conns : conn[c] = "open"}

\* The connections in the Socket.IO room user:<id>, joined on connection.
UserRoom(u) == {c \in Open : Owner[c] = u}

\* Append es to the queue of every connection in cs; a closed connection gets
\* nothing.
Push(cs, e) ==
    [c \in Conns |-> IF c \in cs \cap Open THEN Append(out[c], e) ELSE out[c]]

Emit(cs, e) == out' = Push(cs, e)

-----------------------------------------------------------------------------
\* The connections in opened are already open and in the room.
InitWith(opened) ==
    /\ conn = [c \in Conns |-> IF c \in opened THEN "open" ELSE "idle"]
    /\ joined = opened
    /\ task = [r \in Requests |-> Idle]
    /\ rows = <<>>
    /\ clock = 0
    /\ receipts = {}
    /\ lastRead = [u \in Participants |-> 0]
    /\ out = [c \in Conns |-> <<>>]

Init == InitWith({})

(* Connections *)

Connect(c) ==
    /\ conn[c] = "idle"
    /\ conn' = [conn EXCEPT ![c] = "open"]
    /\ UNCHANGED <<joined, task, rows, clock, receipts, lastRead, out>>

\* Socket.IO takes a closed connection out of all its rooms.  Handlers that it
\* started go on; what they emit to it is dropped.
Disconnect(c) ==
    /\ conn[c] = "open"
    /\ conn' = [conn EXCEPT ![c] = "closed"]
    /\ joined' = joined \ {c}
    /\ out' = [out EXCEPT ![c] = <<>>]
    /\ UNCHANGED <<task, rows, clock, receipts, lastRead>>

OnRoomJoin(r, c) ==
    /\ Start(r, [Idle EXCEPT !.pc = "join", !.conn = c])
    /\ UNCHANGED <<conn, joined, rows, clock, receipts, lastRead, out>>

\* A bug: any account may enter the room.
RoomJoinUnchecked(r) ==
    /\ At(r, "join")
    /\ joined' = joined \cup ({task[r].conn} \cap Open)
    /\ Finish(r)
    /\ UNCHANGED <<conn, rows, clock, receipts, lastRead, out>>

\* Joining a connection that has closed meanwhile has no effect in Socket.IO.
RoomJoin(r) ==
    /\ At(r, "join")
    /\ joined' = IF IsMember(r) THEN joined \cup ({task[r].conn} \cap Open)
                                ELSE joined
    /\ Finish(r)
    /\ UNCHANGED <<conn, rows, clock, receipts, lastRead, out>>

\* The one handler without an await.
OnRoomLeave(c) ==
    /\ conn[c] = "open"
    /\ joined' = joined \ {c}
    /\ UNCHANGED <<conn, task, rows, clock, receipts, lastRead, out>>

-----------------------------------------------------------------------------
(* message:send *)

OnMessageSend(r, c, m) ==
    /\ Start(r, [Idle EXCEPT !.pc = "lookup", !.conn = c, !.cid = m])
    /\ UNCHANGED <<conn, joined, rows, clock, receipts, lastRead, out>>

\* A blank content or a missing id is answered with an error at once.
OnBadMessageSend(c) ==
    /\ conn[c] = "open"
    /\ Emit({c}, ErrorEvent)
    /\ UNCHANGED <<conn, joined, task, rows, clock, receipts, lastRead>>

\* A bug: the catch block only logs.
FailSendSilently(r) == Finish(r) /\ UNCHANGED out

\* The catch block of the handler: an error event that does not say which
\* message it is about.
FailSend(r) ==
    /\ Emit({task[r].conn}, ErrorEvent)
    /\ Finish(r)

SendRejected(r) ==
    /\ At(r, "lookup")
    /\ ~IsMember(r)
    /\ FailSend(r)
    /\ UNCHANGED <<conn, joined, rows, clock, receipts, lastRead>>

\* The idempotence check: a message already stored under the key is answered
\* as if it had just been created.
SendLookup(r) ==
    LET found == Holders(User(r), task[r].cid) \cap Committed IN
    /\ At(r, "lookup")
    /\ IsMember(r)
    /\ IF found = {}
       THEN task' = [task EXCEPT ![r].pc = "insert"]
       ELSE \E i \in found :
              task' = [task EXCEPT ![r].pc = "respond", ![r].row = i,
                                   ![r].readers = ReadersOf(i)]
    /\ UNCHANGED <<conn, joined, rows, clock, receipts, lastRead, out>>

\* A bug: the sender is taken from the socket and not from its user.
NewRowOfSocket(r) ==
    [sender |-> task[r].conn, cid |-> task[r].cid, at |-> clock + 1, state |-> "open"]

NewRow(r) == [sender |-> User(r), cid |-> task[r].cid, at |-> clock + 1,
              state |-> "open"]

\* A bug: the table has no unique index on the key.
SendInsertNoIndex(r) ==
    /\ At(r, "insert")
    /\ clock' = clock + 1
    /\ rows' = Append(rows, NewRow(r))
    /\ task' = [task EXCEPT ![r].pc = "commit", ![r].row = Len(rows) + 1]
    /\ UNCHANGED <<conn, joined, receipts, lastRead, out>>

\* A bug: the message is announced before its transaction has committed.
SendInsertEarlyAnswer(r) ==
    LET holders == Holders(User(r), task[r].cid) IN
    /\ At(r, "insert")
    /\ holders = {}
    /\ clock' = clock + 1
    /\ rows' = Append(rows, NewRow(r))
    /\ task' = [task EXCEPT ![r].pc = "respond", ![r].row = Len(rows) + 1]
    /\ UNCHANGED <<conn, joined, receipts, lastRead, out>>

\* message.create inside the transaction.  An INSERT whose key belongs to an
\* open transaction waits for it; one whose key is committed violates the
\* unique index, and the exception is answered with an error.
SendInsert(r) ==
    LET holders == Holders(User(r), task[r].cid) IN
    /\ At(r, "insert")
    /\ holders \subseteq Committed
    /\ \/ /\ holders = {}
          /\ clock' = clock + 1
          /\ rows' = Append(rows, NewRow(r))
          /\ task' = [task EXCEPT ![r].pc = "commit", ![r].row = Len(rows) + 1]
          /\ UNCHANGED out
       \/ /\ holders # {}
          /\ FailSend(r)
          /\ UNCHANGED <<rows, clock>>
    /\ UNCHANGED <<conn, joined, receipts, lastRead>>

SetRow(r, state) == rows' = [rows EXCEPT ![task[r].row].state = state]

\* chatRoom.update, then COMMIT.
SendCommit(r) ==
    /\ At(r, "commit")
    /\ SetRow(r, "committed")
    /\ task' = [task EXCEPT ![r].pc = "respond"]
    /\ UNCHANGED <<conn, joined, clock, receipts, lastRead, out>>

\* The transaction is rolled back, or it commits and the answer of the database
\* is lost: the handler sees an exception either way.
SendCommitFails(r) ==
    /\ At(r, "commit")
    /\ \E state \in {"committed", "aborted"} : SetRow(r, state)
    /\ FailSend(r)
    /\ UNCHANGED <<conn, joined, clock, receipts, lastRead>>

\* One of the queries before the transaction's INSERT fails.
SendQueryFails(r) ==
    /\ task[r].pc \in {"lookup", "insert"}
    /\ FailSend(r)
    /\ UNCHANGED <<conn, joined, rows, clock, receipts, lastRead>>

\* message:new to the room, then message:status to the sender's connection.
SendRespond(r) ==
    LET t == task[r]
        new == Push(joined, NewEvent(t.row, t.cid, t.readers)) IN
    /\ At(r, "respond")
    /\ out' = [c \in Conns |-> IF c \in {t.conn} \cap Open
                               THEN Append(new[c], SentEvent(t.row, t.cid))
                               ELSE new[c]]
    /\ Finish(r)
    /\ UNCHANGED <<conn, joined, rows, clock, receipts, lastRead>>

-----------------------------------------------------------------------------
(* chat.read.  Its catch block only writes a log line: a failed step leaves    *)
(* what the steps before it have done.                                         *)

\* i is the message named by lastReadMessageId; 0 stands for no id and for an
\* id that is not a message of this room.
OnChatRead(r, c, i) ==
    /\ Start(r, [Idle EXCEPT !.pc = "member", !.conn = c, !.row = i])
    /\ UNCHANGED <<conn, joined, rows, clock, receipts, lastRead, out>>

ReadMember(r) ==
    /\ At(r, "member")
    /\ IF IsMember(r)
       THEN task' = [task EXCEPT ![r].pc = "target", ![r].until = clock]
       ELSE Finish(r)
    /\ UNCHANGED <<conn, joined, rows, clock, receipts, lastRead, out>>

ReadTarget(r) ==
    LET i == task[r].row IN
    /\ At(r, "target")
    /\ task' = [task EXCEPT
                  ![r].pc    = "update",
                  ![r].until = IF i \in Committed THEN rows[i].at ELSE @,
                  ![r].row   = IF i \in Committed THEN i ELSE 0,
                  ![r].at    = clock]
    /\ UNCHANGED <<conn, joined, rows, clock, receipts, lastRead, out>>

ReadUpdate(r) ==
    /\ At(r, "update")
    /\ lastRead' = [lastRead EXCEPT ![User(r)] = task[r].until]
    /\ task' = [task EXCEPT ![r].pc = "scan"]
    /\ UNCHANGED <<conn, joined, rows, clock, receipts, out>>

\* A bug: createdAt < readUntil where the code has <=.
UnreadBefore(u, until) ==
    {i \in Committed : rows[i].at < until /\ rows[i].sender # u /\ <<i, u>> \notin receipts}

\* A bug: the reader's own messages are not left out.
UnreadOwnToo(u, until) ==
    {i \in Committed : rows[i].at <= until /\ <<i, u>> \notin receipts}

Unread(u, until) ==
    {i \in Committed : rows[i].at <= until /\ rows[i].sender # u /\ <<i, u>> \notin receipts}

ReadScan(r) ==
    LET found == Unread(User(r), task[r].until) IN
    /\ At(r, "scan")
    /\ task' = [task EXCEPT ![r].found = found,
                            ![r].pc = IF found = {} THEN "announce" ELSE "receipts"]
    /\ UNCHANGED <<conn, joined, rows, clock, receipts, lastRead, out>>

\* createMany with skipDuplicates.
ReadReceipts(r) ==
    /\ At(r, "receipts")
    /\ receipts' = receipts \cup (task[r].found \X {User(r)})
    /\ task' = [task EXCEPT ![r].pc = "announce"]
    /\ UNCHANGED <<conn, joined, rows, clock, lastRead, out>>

\* chat.read to the room, then message:status "read" to the senders' own rooms.
ReadAnnounce(r) ==
    LET t == task[r]
        u == User(r)
        read == Push(joined, ChatReadEvent(u, t.row, t.at))
        senders == {rows[i].sender : i \in t.found} \ {u} IN
    /\ At(r, "announce")
    /\ out' = [c \in Conns |-> IF c \in Open /\ Owner[c] \in senders
                               THEN Append(read[c], ReadStatus(u, t.row))
                               ELSE read[c]]
    /\ Finish(r)
    /\ UNCHANGED <<conn, joined, rows, clock, receipts, lastRead>>

ReadFails(r) ==
    /\ task[r].pc \in ReadPcs \ {"announce"}
    /\ Finish(r)
    /\ UNCHANGED <<conn, joined, rows, clock, receipts, lastRead, out>>

-----------------------------------------------------------------------------
(* message:delivered *)

OnDelivered(r, c, i) ==
    /\ Start(r, [Idle EXCEPT !.pc = "delivered", !.conn = c, !.row = i])
    /\ UNCHANGED <<conn, joined, rows, clock, receipts, lastRead, out>>

Delivered(r) ==
    LET i == task[r].row IN
    /\ At(r, "delivered")
    /\ IF IsMember(r) /\ i \in Committed /\ rows[i].sender # User(r)
       THEN Emit(UserRoom(rows[i].sender), DeliveredEvent(i))
       ELSE UNCHANGED out
    /\ Finish(r)
    /\ UNCHANGED <<conn, joined, rows, clock, receipts, lastRead>>

\* A failed query of room:join or of message:delivered is only logged.
JoinOrDeliveredFails(r) ==
    /\ task[r].pc \in {"join", "delivered"}
    /\ Finish(r)
    /\ UNCHANGED <<conn, joined, rows, clock, receipts, lastRead, out>>

-----------------------------------------------------------------------------
(* The process stops and starts again: connections, rooms and handlers are      *)
(* gone, and the database rolls back the transactions still open.               *)

Restart ==
    /\ conn' = [c \in Conns |-> IF conn[c] = "open" THEN "closed" ELSE conn[c]]
    /\ joined' = {}
    /\ task' = [r \in Requests |-> Idle]
    /\ rows' = [i \in DOMAIN rows |->
                  [rows[i] EXCEPT !.state = IF @ = "open" THEN "aborted" ELSE @]]
    /\ out' = [c \in Conns |-> <<>>]
    /\ UNCHANGED <<clock, receipts, lastRead>>

\* The client at the other end takes the next event.
Take(c) ==
    /\ out[c] # <<>>
    /\ out' = [out EXCEPT ![c] = Tail(@)]
    /\ UNCHANGED <<conn, joined, task, rows, clock, receipts, lastRead>>

-----------------------------------------------------------------------------
(* Clients of every kind: any event of the protocol, at any time. *)

SendStep(r) ==
    SendRejected(r) \/ SendLookup(r) \/ SendInsert(r) \/ SendCommit(r) \/ SendRespond(r)

ReadStep(r) ==
    \/ ReadMember(r) \/ ReadTarget(r) \/ ReadUpdate(r) \/ ReadScan(r)
    \/ ReadReceipts(r) \/ ReadAnnounce(r)

\* A handler goes on,
Progress(r) == SendStep(r) \/ ReadStep(r) \/ RoomJoin(r) \/ Delivered(r)

\* or one of its queries fails.
Fault(r) ==
    SendCommitFails(r) \/ SendQueryFails(r) \/ ReadFails(r) \/ JoinOrDeliveredFails(r)

Handler(r) == Progress(r) \/ Fault(r)

Arrival(r, c) ==
    \/ "room:join" \in ClientEvents[c] /\ OnRoomJoin(r, c)
    \/ /\ "message:send" \in ClientEvents[c]
       /\ Len(rows) < MaxRows
       /\ \E m \in ClientIds : OnMessageSend(r, c, m)
    \/ /\ "chat.read" \in ClientEvents[c]
       /\ \E i \in 0..Len(rows) : OnChatRead(r, c, i)
    \/ /\ "message:delivered" \in ClientEvents[c]
       /\ \E i \in DOMAIN rows : OnDelivered(r, c, i)

Quiet == \A c \in Conns : Len(out[c]) < MaxQueue

Next ==
    \/ \E c \in Conns : Connect(c) \/ Disconnect(c) \/ Take(c)
    \/ \E c \in Conns : "room:leave" \in ClientEvents[c] /\ OnRoomLeave(c)
    \/ Quiet /\ \E r \in Requests, c \in Conns : Arrival(r, c)
    \/ /\ Quiet
       /\ \E c \in Conns : "bad message:send" \in ClientEvents[c] /\ OnBadMessageSend(c)
    \/ \E r \in Requests : Handler(r)
    \/ Restart

Spec == Init /\ [][Next]_vars

\* A handler that has begun runs to its end: the database answers its queries,
\* and node resumes it.
FairSpec == Spec /\ \A r \in Requests : WF_vars(Progress(r))

-----------------------------------------------------------------------------
(* Properties *)

Queued(c) == {out[c][n] : n \in DOMAIN out[c]}

TypeOK ==
    /\ conn \in [Conns -> {"idle", "open", "closed"}]
    /\ joined \in SUBSET Conns
    /\ task \in [Requests -> Task]
    /\ rows \in Seq(Row)
    /\ clock \in Nat
    /\ receipts \in SUBSET (Nat \X Users)
    /\ lastRead \in [Participants -> Nat]
    /\ out \in [Conns -> Seq(Event)]

\* A retry, a second device or a duplicated event never stores a message twice:
\* at most one row that counts for each sender and clientMessageId, whatever
\* the interleaving of the lookups and inserts of concurrent handlers.
OneRowPerSend ==
    \A i, j \in DOMAIN rows :
        /\ rows[i].state # "aborted"
        /\ rows[j].state # "aborted"
        /\ rows[i].sender = rows[j].sender
        /\ rows[i].cid = rows[j].cid
        => i = j

\* No client hears of a message before its transaction has committed, so a
\* rollback or a restart can never take back what was shown; and the id in an
\* acknowledgement is that of the very message its receiver sent.
ToldIsStored ==
    \A c \in Conns : \A e \in Queued(c) :
        e.type \in {"message:new", "sent", "delivered"} =>
            /\ e.row \in Committed
            /\ e.type = "sent" => rows[e.row].sender = Owner[c]
            /\ e.type # "delivered" => rows[e.row].cid = e.cid

\* Only open connections of participants are ever in the room, and only
\* participants are told of its messages and reads, even when the connection
\* closes while its room:join is waiting for the database.
RoomIsPrivate ==
    /\ \A c \in joined : conn[c] = "open" /\ Owner[c] \in Participants
    /\ \A c \in Conns : \A e \in Queued(c) :
           e.type # "error" => Owner[c] \in Participants

\* A receipt is for a stored message, from a participant who did not send it.
ReceiptsAreGenuine ==
    \A p \in receipts :
        /\ p[1] \in Committed
        /\ p[2] \in Participants
        /\ rows[p[1]].sender # p[2]

\* When the room is told that a user has read up to a message, the receipt of
\* that message is already in the table, unless the user sent it.
ReadIsReceipted ==
    \A c \in Conns : \A e \in Queued(c) :
        e.type = "chat.read" /\ e.row # 0 =>
            \/ rows[e.row].sender = e.user
            \/ <<e.row, e.user>> \in receipts

\* A message:send is answered on the connection it came from, by a status or by
\* an error, unless the connection closes first: an INSERT that waits for
\* another transaction is not forgotten.
SendIsAnswered ==
    \A r \in Requests, c \in Conns :
        (task[r].pc \in SendPcs /\ task[r].conn = c)
            ~> \/ conn[c] # "open"
               \/ \E e \in Queued(c) : e.type \in {"sent", "error"}

\* The entries of the ledger are the committed rows, and its notices are the
\* message:new and status "sent" events that wait for connection c.
EntryOf(i) == [id |-> i, sender |-> rows[i].sender, cid |-> rows[i].cid]

NoticesTo(c) ==
    {[to |-> Owner[c],
      entry |-> [id |-> e.row, sender |-> rows[e.row].sender, cid |-> e.cid]] :
        e \in {f \in Queued(c) : f.type \in {"message:new", "sent"}}}

Ledger == INSTANCE MessageLedger WITH
    Members <- Participants,
    entries <- {EntryOf(i) : i \in Committed},
    notices <- UNION {NoticesTo(c) : c \in Conns}

\* The gateway implements the ledger: no step of any handler, no failure and no
\* restart enters a message twice, removes one that was stored or announces one
\* under another id.
ImplementsLedger == Ledger!Spec

\* The claim below is the documentation's, and the code does not keep it.

\* README.md, line 204: markRead is one transaction.  Whoever looks at the
\* tables finds a receipt for every message up to lastReadAt.
ReadIsAtomic ==
    \A u \in Participants : \A i \in Committed :
        rows[i].at <= lastRead[u] /\ rows[i].sender # u => <<i, u>> \in receipts

=============================================================================
