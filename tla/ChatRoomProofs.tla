--------------------------- MODULE ChatRoomProofs ---------------------------
(***************************************************************************)
(* Lemmas about the operators that the chat of ChatSystem is built from:   *)
(* the page of messages that the server answers, and the steps of the      *)
(* server as steps of its own proofs.                                      *)
(***************************************************************************)
EXTENDS ChatSystem, FiniteSetTheorems, TLAPS

-----------------------------------------------------------------------------
(* Places by counting *)

\* In a finite set whose elements are in a strict order, lower[j] being those
\* below j, every number below the size of the set counts the elements below
\* exactly one element.
LEMMA Ranks ==
    ASSUME NEW S, IsFiniteSet(S), NEW lower \in [S -> SUBSET S],
           \A j \in S : j \notin lower[j],
           \A j, k \in S : j # k =>
               \/ j \in lower[k] /\ lower[j] \subseteq lower[k]
               \/ k \in lower[j] /\ lower[k] \subseteq lower[j]
    PROVE  /\ \A j \in S : Cardinality(lower[j]) \in Nat
           /\ \A j, k \in S : Cardinality(lower[j]) = Cardinality(lower[k]) => j = k
           /\ \A j, k \in S : Cardinality(lower[j]) < Cardinality(lower[k])
                                  => j \in lower[k]
           /\ \A n \in 1..Cardinality(S) : \E j \in S : Cardinality(lower[j]) = n - 1
  <1>. DEFINE N == Cardinality(S)
              rank == [j \in S |-> Cardinality(lower[j])]
  <1>0. N \in Nat
    BY FS_CardinalityType
  <1>1. ASSUME NEW j \in S
        PROVE  /\ IsFiniteSet(lower[j])
               /\ rank[j] \in Nat
               /\ rank[j] < N
    <2>1. lower[j] \in SUBSET S /\ lower[j] # S
      OBVIOUS
    <2>2. /\ IsFiniteSet(lower[j])
          /\ Cardinality(lower[j]) <= N
          /\ N = Cardinality(lower[j]) => S = lower[j]
      BY <2>1, FS_Subset
    <2>3. Cardinality(lower[j]) \in Nat
      BY <2>2, FS_CardinalityType
    <2>. QED BY <1>0, <2>1, <2>2, <2>3
  <1>2. ASSUME NEW j \in S, NEW k \in S, j \in lower[k], lower[j] \subseteq lower[k]
        PROVE  rank[j] < rank[k]
    <2>1. lower[j] # lower[k]
      BY <1>2
    <2>2. IsFiniteSet(lower[k]) /\ lower[j] \in SUBSET lower[k]
      BY <1>1, <1>2
    <2>3. /\ Cardinality(lower[j]) <= Cardinality(lower[k])
          /\ Cardinality(lower[k]) = Cardinality(lower[j]) => lower[k] = lower[j]
      BY <2>2, FS_Subset
    <2>4. rank[j] = Cardinality(lower[j]) /\ rank[k] = Cardinality(lower[k])
      OBVIOUS
    <2>. QED BY <1>1, <2>1, <2>3, <2>4
  <1>3. ASSUME NEW j \in S, NEW k \in S
        PROVE  /\ rank[j] = rank[k] => j = k
               /\ rank[j] < rank[k] => j \in lower[k]
    <2>. rank[j] \in Nat /\ rank[k] \in Nat
      BY <1>1
    <2>1. CASE j = k
      BY <2>1
    <2>2. CASE j \in lower[k] /\ lower[j] \subseteq lower[k]
      BY <1>2, <2>2
    <2>3. CASE k \in lower[j] /\ lower[k] \subseteq lower[j]
      <3>1. rank[k] < rank[j]
        BY <1>2, <2>3
      <3>. QED BY <3>1
    <2>. QED BY <2>1, <2>2, <2>3
  <1>4. rank \in Surjection(S, 0..(N - 1))
    <2>1. rank \in [S -> 0..(N - 1)]
      <3>1. \A j \in S : rank[j] \in 0..(N - 1)
        BY <1>0, <1>1
      <3>. QED BY <3>1
    <2>2. rank \in Injection(S, 0..(N - 1))
      BY <1>3, <2>1 DEF Injection, IsInjective
    <2>3. IsFiniteSet(0..(N - 1)) /\ Cardinality(0..(N - 1)) = N
      BY <1>0, FS_Interval
    <2>. QED BY <2>2, <2>3, FS_Injection
  <1>5. ASSUME NEW n \in 1..N
        PROVE  \E j \in S : rank[j] = n - 1
    <2>1. n - 1 \in 0..(N - 1)
      BY <1>0
    <2>. QED BY <1>4, <2>1 DEF Surjection
  <1>. QED BY <1>1, <1>3, <1>5

-----------------------------------------------------------------------------
(* The server.  Gateway is Server again, with the lemmas that its own proofs   *)
(* provide: they are about the steps of a gateway whose clients may do         *)
(* anything, and so about those that the devices make it do.                   *)

Gateway == INSTANCE MessageGatewayRefinement WITH
    ClientEvents <- [c \in Conns |-> {}], MaxQueue <- 0, MaxRows <- 0

\* The constants of the chat meet the assumption of the gateway.
LEMMA GatewayUsable == Gateway!GatewayAssumption
  BY SystemAssumption DEF SystemAssumption, Gateway!GatewayAssumption, Owner

\* FiniteSets is instantiated along with the gateway.
LEMMA SameCardinality ==
    ASSUME NEW S
    PROVE  /\ Server!Cardinality(S) = Cardinality(S)
           /\ Gateway!Cardinality(S) = Cardinality(S)
  BY DEF Server!Cardinality, Gateway!Cardinality, Cardinality

LEMMA SameState ==
    /\ Server!Event = Gateway!Event
    /\ Server!Committed = Gateway!Committed
    /\ Server!TypeOK = Gateway!TypeOK
  <1>1. Server!Event = Gateway!Event
    BY DEF Server!Event, Gateway!Event
  <1>2. Server!Committed = Gateway!Committed
    BY DEF Server!Committed, Gateway!Committed
  <1>3. Server!Task = Gateway!Task
    BY DEF Server!Task, Gateway!Task, Server!Pcs, Gateway!Pcs, Server!SendPcs,
           Gateway!SendPcs, Server!ReadPcs, Gateway!ReadPcs
  <1>4. Server!Row = Gateway!Row
    BY DEF Server!Row, Gateway!Row, Server!RowStates, Gateway!RowStates
  <1>5. Server!TypeOK = Gateway!TypeOK
    BY <1>1, <1>3, <1>4 DEF Server!TypeOK, Gateway!TypeOK
  <1>. QED BY <1>1, <1>2, <1>5

LEMMA SameArrivals ==
    ASSUME NEW r, NEW c, NEW m
    PROVE  /\ Server!OnRoomJoin(r, c) => Gateway!OnRoomJoin(r, c)
           /\ Server!OnMessageSend(r, c, m) => Gateway!OnMessageSend(r, c, m)
           /\ Server!OnChatRead(r, c, m) => Gateway!OnChatRead(r, c, m)
           /\ Server!OnDelivered(r, c, m) => Gateway!OnDelivered(r, c, m)
  <1>. USE DEF Server!Start, Gateway!Start, Server!Idle, Gateway!Idle
  <1>1. Server!OnRoomJoin(r, c) => Gateway!OnRoomJoin(r, c)
    BY DEF Server!OnRoomJoin, Gateway!OnRoomJoin
  <1>2. Server!OnMessageSend(r, c, m) => Gateway!OnMessageSend(r, c, m)
    BY DEF Server!OnMessageSend, Gateway!OnMessageSend
  <1>3. Server!OnChatRead(r, c, m) => Gateway!OnChatRead(r, c, m)
    BY DEF Server!OnChatRead, Gateway!OnChatRead
  <1>4. Server!OnDelivered(r, c, m) => Gateway!OnDelivered(r, c, m)
    BY DEF Server!OnDelivered, Gateway!OnDelivered
  <1>. QED BY <1>1, <1>2, <1>3, <1>4

LEMMA SameConnections ==
    ASSUME NEW c
    PROVE  /\ Server!Connect(c) => Gateway!Connect(c)
           /\ Server!Disconnect(c) => Gateway!Disconnect(c)
           /\ Server!Take(c) => Gateway!Take(c)
           /\ Server!Restart => Gateway!Restart
  BY DEF Server!Connect, Gateway!Connect, Server!Disconnect, Gateway!Disconnect, Server!Take,
         Gateway!Take, Server!Restart, Gateway!Restart, Server!Idle, Gateway!Idle

LEMMA SameHandlers ==
    ASSUME NEW r
    PROVE  Server!Progress(r) \/ Server!Fault(r) => Gateway!Handler(r)
  <1>. USE DEF Server!At, Gateway!At, Server!User, Gateway!User, Server!IsMember, Gateway!IsMember,
           Server!Finish, Gateway!Finish, Server!Idle, Gateway!Idle, Server!Emit, Gateway!Emit,
           Server!FailSend, Gateway!FailSend, Server!SetRow, Gateway!SetRow
  <1>1. Server!Committed = Gateway!Committed /\ Server!Open = Gateway!Open
    BY SameState DEF Server!Open, Gateway!Open
  <1>2. \A cs, e : Server!Push(cs, e) = Gateway!Push(cs, e)
    BY <1>1 DEF Server!Push, Gateway!Push
  <1>3. \A u, m : Server!Holders(u, m) = Gateway!Holders(u, m)
    BY DEF Server!Holders, Gateway!Holders
  <1>4. \A i : Server!ReadersOf(i) = Gateway!ReadersOf(i)
    BY DEF Server!ReadersOf, Gateway!ReadersOf
  <1>5. Server!ErrorEvent = Gateway!ErrorEvent
    BY DEF Server!ErrorEvent, Gateway!ErrorEvent
  <1>6. Server!SendRejected(r) => Gateway!SendRejected(r)
    BY <1>2, <1>5 DEF Server!SendRejected, Gateway!SendRejected
  <1>7. Server!SendLookup(r) => Gateway!SendLookup(r)
    BY <1>1, <1>3, <1>4 DEF Server!SendLookup, Gateway!SendLookup
  <1>8. Server!SendInsert(r) => Gateway!SendInsert(r)
    BY <1>1, <1>2, <1>3, <1>5
       DEF Server!SendInsert, Gateway!SendInsert, Server!NewRow, Gateway!NewRow
  <1>9. Server!SendCommit(r) => Gateway!SendCommit(r)
    BY DEF Server!SendCommit, Gateway!SendCommit
  <1>10. Server!SendCommitFails(r) => Gateway!SendCommitFails(r)
    BY <1>2, <1>5 DEF Server!SendCommitFails, Gateway!SendCommitFails
  <1>11. Server!SendQueryFails(r) => Gateway!SendQueryFails(r)
    BY <1>2, <1>5 DEF Server!SendQueryFails, Gateway!SendQueryFails
  <1>12. Server!SendRespond(r) => Gateway!SendRespond(r)
    <2>1. \A i, m, u : Server!NewEvent(i, m, u) = Gateway!NewEvent(i, m, u)
      BY DEF Server!NewEvent, Gateway!NewEvent
    <2>2. \A i, m : Server!SentEvent(i, m) = Gateway!SentEvent(i, m)
      BY DEF Server!SentEvent, Gateway!SentEvent
    <2>. QED BY <1>1, <1>2, <2>1, <2>2 DEF Server!SendRespond, Gateway!SendRespond
  <1>13. /\ Server!ReadMember(r) => Gateway!ReadMember(r)
         /\ Server!ReadUpdate(r) => Gateway!ReadUpdate(r)
         /\ Server!ReadReceipts(r) => Gateway!ReadReceipts(r)
    BY DEF Server!ReadMember, Gateway!ReadMember, Server!ReadUpdate, Gateway!ReadUpdate,
           Server!ReadReceipts, Gateway!ReadReceipts
  <1>14. Server!ReadTarget(r) => Gateway!ReadTarget(r)
    BY <1>1 DEF Server!ReadTarget, Gateway!ReadTarget
  <1>15. Server!ReadScan(r) => Gateway!ReadScan(r)
    BY <1>1 DEF Server!ReadScan, Gateway!ReadScan, Server!Unread, Gateway!Unread
  <1>16. Server!ReadAnnounce(r) => Gateway!ReadAnnounce(r)
    <2>1. \A i, m, u : Server!ChatReadEvent(i, m, u) = Gateway!ChatReadEvent(i, m, u)
      BY DEF Server!ChatReadEvent, Gateway!ChatReadEvent
    <2>2. \A i, m : Server!ReadStatus(i, m) = Gateway!ReadStatus(i, m)
      BY DEF Server!ReadStatus, Gateway!ReadStatus
    <2>. QED BY <1>1, <1>2, <2>1, <2>2 DEF Server!ReadAnnounce, Gateway!ReadAnnounce
  <1>17. Server!ReadFails(r) => Gateway!ReadFails(r)
    BY DEF Server!ReadFails, Gateway!ReadFails, Server!ReadPcs, Gateway!ReadPcs
  <1>18. Server!RoomJoin(r) => Gateway!RoomJoin(r)
    BY <1>1 DEF Server!RoomJoin, Gateway!RoomJoin
  <1>19. Server!Delivered(r) => Gateway!Delivered(r)
    <2>1. \A i : Server!DeliveredEvent(i) = Gateway!DeliveredEvent(i)
      BY DEF Server!DeliveredEvent, Gateway!DeliveredEvent
    <2>2. \A u : Server!UserRoom(u) = Gateway!UserRoom(u)
      BY <1>1 DEF Server!UserRoom, Gateway!UserRoom
    <2>. QED BY <1>1, <1>2, <2>1, <2>2 DEF Server!Delivered, Gateway!Delivered
  <1>20. Server!JoinOrDeliveredFails(r) => Gateway!JoinOrDeliveredFails(r)
    BY DEF Server!JoinOrDeliveredFails, Gateway!JoinOrDeliveredFails
  <1>. QED BY <1>6, <1>7, <1>8, <1>9, <1>10, <1>11, <1>12, <1>13, <1>14, <1>15, <1>16,
              <1>17, <1>18, <1>19, <1>20
          DEF Server!Progress, Server!Fault, Server!SendStep, Server!ReadStep,
              Gateway!Handler, Gateway!Progress, Gateway!Fault, Gateway!SendStep, Gateway!ReadStep

-----------------------------------------------------------------------------
(* The page *)

PageRow == [row : Nat, sender : Users, at : Nat, readers : SUBSET Users]

\* A page lists committed messages, under their senders, and none of them twice.
PageOK(p) ==
    /\ \A n \in DOMAIN p : /\ p[n].row \in Gateway!Committed
                            /\ p[n].sender = rows[p[n].row].sender
    /\ \A k, n \in DOMAIN p : p[k].row = p[n].row => k = n

LEMMA PageLists ==
    ASSUME Gateway!SendInv
    PROVE  Server!GetMessages \in Seq(PageRow) /\ PageOK(Server!GetMessages)
  <1>. DEFINE C == Gateway!Committed
              newer == [j \in C |-> {k \in C : k > j}]
              pick == [n \in 1..Cardinality(C) |->
                         CHOOSE j \in C : Cardinality({k \in C : k > j}) = n - 1]
              page == Server!GetMessages
  <1>1. /\ rows \in Seq(Gateway!Row)
        /\ C \subseteq DOMAIN rows
        /\ DOMAIN rows = 1..Len(rows) /\ Len(rows) \in Nat
    BY DEF Gateway!SendInv, Gateway!TypeOK, Gateway!Committed
  <1>2. \A j \in C : j \in Nat /\ rows[j].sender \in Users /\ rows[j].at \in Nat
    <2>1. \A j \in C : rows[j] \in Gateway!Row /\ j \in Nat
      <3>. HIDE DEF C
      <3>. QED BY <1>1
    <2>. QED BY <2>1 DEF Gateway!Row
  <1>3. IsFiniteSet(C) /\ Cardinality(C) \in Nat
    <2>1. IsFiniteSet(1..Len(rows)) /\ C \in SUBSET (1..Len(rows))
      BY <1>1, FS_Interval
    <2>. HIDE DEF C
    <2>. QED BY <2>1, FS_Subset, FS_CardinalityType
  <1>4. \A n \in 1..Cardinality(C) : \E j \in C : Cardinality(newer[j]) = n - 1
    <2>. HIDE DEF C
    <2>1. newer \in [C -> SUBSET C] /\ \A j \in C : j \notin newer[j]
      BY <1>2
    <2>2. \A j, k \in C : j # k => \/ j \in newer[k] /\ newer[j] \subseteq newer[k]
                                   \/ k \in newer[j] /\ newer[k] \subseteq newer[j]
      BY <1>2
    <2>. HIDE DEF newer
    <2>. QED BY <1>3, <2>1, <2>2, Ranks
  <1>5. ASSUME NEW n \in 1..Cardinality(C)
        PROVE  pick[n] \in C /\ Cardinality({k \in C : k > pick[n]}) = n - 1
    <2>1. \E j \in C : Cardinality({k \in C : k > j}) = n - 1
      <3>1. PICK j \in C : Cardinality(newer[j]) = n - 1
        BY <1>4
      <3>2. newer[j] = {k \in C : k > j}
        OBVIOUS
      <3>. QED BY <3>1, <3>2
    <2>. HIDE DEF C
    <2>. QED BY <2>1
  <1>6. page = [n \in 1..Cardinality(C) |->
                  [row |-> pick[n], sender |-> rows[pick[n]].sender,
                   at |-> rows[pick[n]].at, readers |-> Server!ReadersOf(pick[n])]]
    <2>1. C = Server!Committed
      BY SameState
    <2>2. \A S : Server!Cardinality(S) = Cardinality(S)
      BY SameCardinality
    <2>. HIDE DEF C
    <2>. QED BY <2>1, <2>2 DEF Server!GetMessages, Server!PageLength
  <1>. HIDE DEF page, pick, C
  <1>7. ASSUME NEW n \in 1..Cardinality(C)
        PROVE  /\ page[n] \in PageRow
               /\ page[n].row = pick[n]
               /\ page[n].sender = rows[pick[n]].sender
    <2>1. Server!ReadersOf(pick[n]) \in SUBSET Users
      BY DEF Server!ReadersOf
    <2>. QED BY <1>2, <1>5, <1>6, <2>1 DEF PageRow
  <1>8. page \in Seq(PageRow) /\ DOMAIN page = 1..Cardinality(C)
    BY <1>3, <1>6, <1>7
  <1>9. ASSUME NEW k \in DOMAIN page, NEW n \in DOMAIN page, page[k].row = page[n].row
        PROVE  k = n
    <2>1. k - 1 = n - 1
      BY <1>5, <1>7, <1>8, <1>9
    <2>. QED BY <1>3, <1>8, <2>1
  <1>. QED BY <1>5, <1>7, <1>8, <1>9 DEF PageOK, page, C

=============================================================================
