---------------------- MODULE MessageGatewayRefinement ----------------------
(***************************************************************************)
(* The gateway implements the ledger: every step of every handler, every   *)
(* failure and every restart enters one message, tells members of one, or  *)
(* loses news.  The commit of a transaction is the one step that enters,   *)
(* and the answer of a message:send the one that tells.                    *)
(***************************************************************************)
EXTENDS MessageGatewaySafety

Entries == {EntryOf(i) : i \in Committed}

Notices == UNION {NoticesTo(c) : c \in Conns}

\* What the refinement needs to know of a state.
LedgerInv == SendInv /\ ReadInv /\ ToldIsStored

NoticeOf(c, e) ==
    [to |-> Owner[c],
     entry |-> [id |-> e.row, sender |-> rows[e.row].sender, cid |-> e.cid]]

LEMMA NoticeMeaning ==
    ASSUME NEW n
    PROVE  n \in Notices <=>
             \E c \in Conns : \E e \in Queued(c) :
                 e.type \in {"message:new", "sent"} /\ n = NoticeOf(c, e)
  BY DEF Notices, NoticesTo, NoticeOf

\* What has been entered stays entered, and news of it keeps its meaning.
LEMMA EntriesStay ==
    ASSUME SendInv, [Step]_vars
    PROVE  Entries \subseteq Entries'
  BY CommittedStays DEF Entries, EntryOf

\* A step that commits nothing enters nothing.
LEMMA EntriesSame ==
    ASSUME SendInv, [Step]_vars, Committed' \subseteq Committed
    PROVE  Entries' = Entries
  BY CommittedStays DEF Entries, EntryOf

\* The only steps that commit are the two ends of a transaction.
LEMMA CommitSteps ==
    ASSUME SendInv, [Step]_vars
    PROVE  \/ Committed' \subseteq Committed
           \/ \E r \in Requests : /\ SendCommit(r) \/ SendCommitFails(r)
                                  /\ SetRow(r, "committed")
  <1>. USE DEF SendInv
  <1>1. CASE rows' = rows
    BY <1>1 DEF Committed
  <1>2. ASSUME NEW r \in Requests, SendInsert(r), rows' = Append(rows, NewRow(r))
        PROVE  Committed' \subseteq Committed
    <2>1. \A i \in DOMAIN rows' : \/ i \in DOMAIN rows /\ rows'[i] = rows[i]
                                  \/ rows'[i] = NewRow(r)
      BY <1>2 DEF TypeOK
    <2>2. NewRow(r).state = "open"
      BY DEF NewRow
    <2>. QED BY <2>1, <2>2 DEF Committed
  <1>3. ASSUME NEW r \in Requests, At(r, "commit"), SetRow(r, "aborted")
        PROVE  Committed' \subseteq Committed
    <2>1. /\ DOMAIN rows' = DOMAIN rows
          /\ \A i \in DOMAIN rows : rows'[i] = rows[i]
                                    \/ rows'[i] = [rows[i] EXCEPT !.state = "aborted"]
      BY <1>3, SetRowFacts DEF RowStates
    <2>. QED BY <2>1, RowType DEF Committed, Row
  <1>4. CASE Restart
    <2>1. \A i \in DOMAIN rows : rows'[i].state = "committed" => rows[i].state = "committed"
      BY <1>4, RowType DEF Restart, Row
    <2>. QED BY <1>4, <2>1 DEF Restart, Committed
  <1>5. ASSUME NEW r \in Requests, Handler(r)
        PROVE  \/ rows' = rows
               \/ SendInsert(r) /\ rows' = Append(rows, NewRow(r))
               \/ At(r, "commit") /\ SetRow(r, "aborted")
               \/ (SendCommit(r) \/ SendCommitFails(r)) /\ SetRow(r, "committed")
    BY <1>5 DEF Handler, Progress, Fault, SendStep, ReadStep, SendRejected, SendLookup,
                SendInsert, SendCommit, SendRespond, ReadMember, ReadTarget, ReadUpdate,
                ReadScan, ReadReceipts, ReadAnnounce, RoomJoin, Delivered,
                SendCommitFails, SendQueryFails, ReadFails, JoinOrDeliveredFails
  <1>6. ASSUME NEW c \in Conns,
               \/ Connect(c) \/ Disconnect(c) \/ Take(c) \/ OnRoomLeave(c)
               \/ OnBadMessageSend(c) \/ \E r \in Requests : AnyArrival(r, c)
        PROVE  rows' = rows
    BY <1>6 DEF Connect, Disconnect, Take, OnRoomLeave, OnBadMessageSend, AnyArrival,
                OnRoomJoin, OnMessageSend, OnChatRead, OnDelivered
  <1>7. CASE Tick \/ UNCHANGED vars
    BY <1>1, <1>7 DEF Tick, vars
  <1>. QED BY <1>1, <1>2, <1>3, <1>4, <1>5, <1>6, <1>7 DEF Step

-----------------------------------------------------------------------------
(* News *)

\* News that was on its way before a step is about the same entry after it.
LEMMA NoticeStays ==
    ASSUME LedgerInv, [Step]_vars, NEW c \in Conns, NEW e \in Queued(c),
           e.type \in {"message:new", "sent"}
    PROVE  NoticeOf(c, e)' = NoticeOf(c, e) /\ NoticeOf(c, e) \in Notices
  <1>1. e.row \in Committed
    BY DEF LedgerInv, ToldIsStored
  <1>2. rows'[e.row] = rows[e.row]
    BY <1>1, CommittedStays DEF LedgerInv
  <1>. QED BY <1>2, NoticeMeaning DEF NoticeOf

\* The entry that the answer of handler r is about.
Told(r) == EntryOf(task[r].row)

LEMMA NewNotices ==
    ASSUME LedgerInv, [Step]_vars, NEW n \in Notices'
    PROVE  \/ n \in Notices
           \/ \E r \in Requests : /\ SendRespond(r)
                                  /\ Told(r) \in Entries
                                  /\ n \in [to : Participants, entry : {Told(r)}]
  <1>0. PICK c \in Conns : n \in NoticesTo(c)'
    BY DEF Notices
  <1>1. PICK e \in Queued(c)' :
          e.type \in {"message:new", "sent"} /\ n = NoticeOf(c, e)'
    BY <1>0 DEF NoticesTo, NoticeOf
  <1>2. CASE e \in Queued(c)
    BY <1>1, <1>2, NoticeStays
  <1>3. ASSUME NEW r \in Requests, SendRespond(r), ToldOfSend(r, c, e)
        PROVE  Told(r) \in Entries /\ n \in [to : Participants, entry : {Told(r)}]
    <2>1. Holding(r, "committed")
      BY <1>3 DEF LedgerInv, SendInv, TaskOK, SendRespond, At
    <2>2. task[r].row \in Committed
      BY <2>1 DEF Holding, Committed
    <2>3. e.row = task[r].row /\ e.cid = rows[e.row].cid
      BY <1>3, <2>1 DEF ToldOfSend, NewEvent, SentEvent, Holding
    <2>4. rows'[e.row] = rows[e.row]
      BY <2>2, <2>3, CommittedStays DEF LedgerInv
    <2>5. Owner[c] \in Participants
      BY <1>1, RoomIsPrivateStep DEF LedgerInv, RoomIsPrivate
    <2>6. n = [to |-> Owner[c], entry |-> Told(r)]
      BY <1>1, <2>3, <2>4 DEF NoticeOf, Told, EntryOf
    <2>. QED BY <2>2, <2>5, <2>6 DEF Entries, Told
  <1>4. ASSUME NEW r \in Requests, ToldOfDelivery(r, c, e) \/ ToldOfRead(r, c, e)
        PROVE  FALSE
    BY <1>1, <1>4 DEF ToldOfDelivery, ToldOfRead, DeliveredEvent, ChatReadEvent, ReadStatus
  <1>5. e # ErrorEvent
    BY <1>1 DEF ErrorEvent
  <1>. QED BY <1>2, <1>3, <1>4, <1>5, News DEF LedgerInv

\* One handler answers at a time.
LEMMA OneAnswer ==
    ASSUME SendInv, NEW r \in Requests, NEW s \in Requests,
           SendRespond(r), SendRespond(s)
    PROVE  r = s
  BY DEF SendRespond, Finish, At, Idle, SendInv, TypeOK

\* A step that ends a transaction tells nobody of a message, and loses no news.
LEMMA CommitTellsNobody ==
    ASSUME LedgerInv, [Step]_vars, NEW r \in Requests,
           SendCommit(r) \/ SendCommitFails(r)
    PROVE  Notices' = Notices
  <1>1. Notices' \subseteq Notices
    <2>1. task[r].pc = "commit" /\ task'[r].pc \in {"respond", "idle"}
      BY DEF SendCommit, SendCommitFails, FailSend, Finish, At, Idle, LedgerInv, SendInv,
             TypeOK, Task
    <2>2. ASSUME NEW s \in Requests, SendRespond(s)
          PROVE  FALSE
      BY <2>1, <2>2 DEF SendRespond, Finish, At, LedgerInv, SendInv, TypeOK
    <2>. QED BY <2>2, NewNotices
  <1>2. \A c \in Conns : Queued(c) \subseteq Queued(c)'
    <2>. SUFFICES ASSUME NEW c \in Conns, NEW n \in DOMAIN out[c]
                  PROVE  n \in DOMAIN out'[c] /\ out'[c][n] = out[c][n]
      BY DEF Queued
    <2>1. out[c] \in Seq(Event)
      BY DEF LedgerInv, SendInv, TypeOK
    <2>2. out'[c] = out[c] \/ out'[c] = Append(out[c], ErrorEvent)
      BY DEF SendCommit, SendCommitFails, FailSend, Emit, Push
    <2>. QED BY <2>1, <2>2, ErrorType
  <1>3. ASSUME NEW n \in Notices
        PROVE  n \in Notices'
    <2>0. PICK c \in Conns :
            \E e \in Queued(c) : e.type \in {"message:new", "sent"} /\ n = NoticeOf(c, e)
      BY NoticeMeaning
    <2>1. PICK e \in Queued(c) :
            e.type \in {"message:new", "sent"} /\ n = NoticeOf(c, e)
      BY <2>0
    <2>2. n = NoticeOf(c, e)' /\ e \in Queued(c)'
      BY <1>2, <2>1, NoticeStays
    <2>3. n \in NoticesTo(c)'
      BY <2>1, <2>2 DEF NoticesTo, NoticeOf
    <2>. QED BY <2>3 DEF Notices
  <1>. QED BY <1>1, <1>3

-----------------------------------------------------------------------------
(* Each step of the gateway is a step of the ledger *)

\* The commit of a message enters it.
LEMMA CommitEnters ==
    ASSUME LedgerInv, LedgerInv', [Step]_vars, NEW r \in Requests,
           SendCommit(r) \/ SendCommitFails(r), SetRow(r, "committed")
    PROVE  \E e \in Entries' \ Entries : Ledger!Enter(e)
  <1>. USE DEF LedgerInv, SendInv
  <1>1. PICK i \in DOMAIN rows :
          /\ DOMAIN rows' = DOMAIN rows
          /\ rows[i].state = "open"
          /\ rows'[i] = [rows[i] EXCEPT !.state = "committed"]
          /\ \A k \in DOMAIN rows : k # i => rows'[k] = rows[k]
    BY SetRowFacts DEF SendCommit, SendCommitFails, RowStates
  <1>. DEFINE new == EntryOf(i)'
  <1>2. rows'[i].state = "committed" /\ rows'[i].sender = rows[i].sender
    BY <1>1, RowType DEF Row
  <1>3. i \in Committed' /\ i \notin Committed
    BY <1>1, <1>2 DEF Committed
  <1>4. Committed' = Committed \cup {i}
    BY <1>1, <1>3 DEF Committed
  <1>5. Entries' = Entries \cup {new}
    <2>1. \A k \in Committed : EntryOf(k)' = EntryOf(k)
      BY CommittedStays DEF EntryOf
    <2>. QED BY <1>4, <2>1 DEF Entries
  <1>6. new \in [id : Nat, sender : Participants, cid : ClientIds]
    <2>1. i \in Nat /\ rows'[i].cid \in ClientIds
      BY <1>1, RowType
    <2>2. rows'[i].sender \in Participants
      BY <1>1, <1>2 DEF ReadInv, MembersOnly
    <2>. QED BY <2>1, <2>2 DEF EntryOf
  <1>7. ASSUME NEW f \in Entries,
               f.id = new.id \/ (f.sender = new.sender /\ f.cid = new.cid)
        PROVE  FALSE
    <2>1. PICK k \in Committed : f = EntryOf(k)
      BY DEF Entries
    <2>2. k # i /\ k \in DOMAIN rows /\ rows[k].state = "committed" /\ rows'[k] = rows[k]
      BY <1>1, <1>3 DEF Committed
    <2>3. rows'[k].sender = rows'[i].sender /\ rows'[k].cid = rows'[i].cid
      BY <1>7, <2>1, <2>2 DEF EntryOf
    <2>. QED BY <1>1, <1>2, <2>2, <2>3 DEF OneRowPerSend
  <1>8. new \in Entries' \ Entries
    BY <1>5, <1>7
  <1>9. Notices' = Notices
    BY CommitTellsNobody
  <1>. HIDE DEF new
  <1>. QED BY <1>5, <1>6, <1>7, <1>8, <1>9
          DEF Ledger!Enter, Ledger!Entry, Entries, Notices

LEMMA LedgerStep ==
    LedgerInv /\ LedgerInv' /\ [Step]_vars => Ledger!Next
  <1>. SUFFICES ASSUME LedgerInv, LedgerInv', [Step]_vars PROVE Ledger!Next
    OBVIOUS
  <1>1. ASSUME NEW r \in Requests, SendCommit(r) \/ SendCommitFails(r),
               SetRow(r, "committed")
        PROVE  Ledger!Next
    BY <1>1, CommitEnters DEF Ledger!Next, Entries
  <1>2. ASSUME Committed' \subseteq Committed, NEW r \in Requests, SendRespond(r),
               Told(r) \in Entries
        PROVE  Ledger!Next
    <2>1. Entries' = Entries
      BY <1>2, EntriesSame DEF LedgerInv
    <2>2. Notices' \subseteq Notices \cup [to : Participants, entry : {Told(r)}]
      BY <1>2, NewNotices, OneAnswer DEF LedgerInv
    <2>3. Ledger!Tell(Told(r))
      BY <2>1, <2>2 DEF Ledger!Tell, Entries, Notices
    <2>. QED BY <1>2, <2>3 DEF Ledger!Next, Entries
  <1>3. ASSUME Committed' \subseteq Committed,
               ~\E r \in Requests : SendRespond(r) /\ Told(r) \in Entries
        PROVE  Ledger!Next
    <2>1. Entries' = Entries
      BY <1>3, EntriesSame DEF LedgerInv
    <2>2. Notices' \subseteq Notices
      BY <1>3, NewNotices
    <2>. QED BY <2>1, <2>2 DEF Ledger!Next, Ledger!Forget, Entries, Notices
  <1>. QED BY <1>1, <1>2, <1>3, CommitSteps DEF LedgerInv

LEMMA LedgerInit == Init => Ledger!Init
  <1>. SUFFICES ASSUME Init PROVE Ledger!Init
    OBVIOUS
  <1>1. Committed = {} /\ \A c \in Conns : Queued(c) = {}
    BY DEF Init, InitWith, Committed, Queued
  <1>2. \A c \in Conns : NoticesTo(c) = {}
    BY <1>1 DEF NoticesTo
  <1>. QED BY <1>1, <1>2 DEF Ledger!Init

\* Whatever the interleaving of handlers, retries, faults and restarts, the send
\* path does no more than keep the ledger.
THEOREM Refinement == Spec => ImplementsLedger
  <1>1. Spec => []LedgerInv
    BY ReadPath, ToldStays, PTL DEF LedgerInv
  <1>2. LedgerInv /\ LedgerInv' /\ [Next]_vars
            => [Ledger!Next]_<<{EntryOf(i) : i \in Committed},
                               UNION {NoticesTo(c) : c \in Conns}>>
    BY NextIsStep, LedgerStep DEF LedgerInv
  <1>. QED BY <1>1, <1>2, LedgerInit, PTL DEF Spec, ImplementsLedger, Ledger!Spec

=============================================================================
