---------------------------- MODULE RoomsProofs ----------------------------
(***************************************************************************)
(* The properties of Rooms, proved for any sets of users, phone books and  *)
(* requests.  That a pair has no more rooms than there are requests at a   *)
(* time takes counting: a request that finds no room when it begins will   *)
(* make one room at most, and the rooms there are together with the ones   *)
(* such requests may still make never outnumber the slots.                 *)
(***************************************************************************)
EXTENDS Rooms, FiniteSetTheorems, TLAPS

\* What a request knows at each await.
TaskOK ==
    \A r \in Requests :
        /\ task[r].pc # "idle" => task[r].user \in Users
        /\ task[r].pc = "befriend" => task[r].user \notin task[r].matched
        /\ task[r].pc \in {"find", "create"} =>
               task[r].other \in Users

\* A late request has a room to find until it looks for it.
LateOK ==
    \A r \in Requests :
        At(r, "find") /\ task[r].late => DirectRooms(task[r].user, task[r].other) # {}

\* The requests that may still make a room for the pair.
Making(u, v) ==
    {r \in Requests : /\ task[r].pc \in {"find", "create"}
                      /\ ~task[r].late
                      /\ {task[r].user, task[r].other} = {u, v}}

Counted ==
    \A u, v \in Users :
        /\ IsFiniteSet(DirectRooms(u, v))
        /\ Cardinality(DirectRooms(u, v)) + Cardinality(Making(u, v)) <= Cardinality(Requests)

SafeInv == TypeOK /\ TaskOK

RoomsInv == SafeInv /\ LateOK /\ LateRequestFindsRoom /\ Counted

-----------------------------------------------------------------------------
(* Types *)

LEMMA IdleType == Idle \in Task
  BY DEF Idle, Task

LEMMA InitSafe == Init => SafeInv
  <1>. SUFFICES ASSUME Init PROVE SafeInv
    OBVIOUS
  <1>. USE DEF Init
  <1>1. TypeOK
    BY IdleType DEF TypeOK, Friends
  <1>2. TaskOK
    BY DEF TaskOK, Idle
  <1>. QED BY <1>1, <1>2 DEF SafeInv

\* A request goes on or ends.
LEMMA TaskChange ==
    ASSUME SafeInv, NEW r \in Requests, NEW t \in Task,
           task' = [task EXCEPT ![r] = t],
           t.pc # "idle" => t.user \in Users,
           t.pc = "befriend" => t.user \notin t.matched,
           t.pc \in {"find", "create"} => t.other \in Users
    PROVE  (task \in [Requests -> Task])' /\ TaskOK'
  <1>. task \in [Requests -> Task]
    BY DEF SafeInv, TypeOK
  <1>1. (task \in [Requests -> Task])'
    OBVIOUS
  <1>2. ASSUME NEW s \in Requests
        PROVE  /\ task'[s].pc # "idle" => task'[s].user \in Users
               /\ task'[s].pc = "befriend" => task'[s].user \notin task'[s].matched
               /\ task'[s].pc \in {"find", "create"} => task'[s].other \in Users
    <2>1. CASE s = r
      BY <2>1
    <2>2. CASE s # r
      <3>1. task'[s] = task[s]
        BY <2>2
      <3>. QED BY <3>1 DEF SafeInv, TaskOK
    <2>. QED BY <2>1, <2>2
  <1>3. TaskOK'
    BY <1>2 DEF TaskOK
  <1>. QED BY <1>1, <1>3

LEMMA EndChange ==
    ASSUME SafeInv, NEW r \in Requests, End(r)
    PROVE  (task \in [Requests -> Task])' /\ TaskOK'
  BY IdleType, TaskChange DEF End, Idle

LEMMA MatchContactsSafe ==
    ASSUME SafeInv, NEW r \in Requests, NEW u \in Users, NEW book \in SUBSET Users,
           MatchContacts(r, u, book)
    PROVE  SafeInv'
  <1>. DEFINE t == [Idle EXCEPT !.pc = "befriend", !.user = u, !.matched = OthersIn(book, u)]
  <1>1. t \in Task /\ t.pc = "befriend" /\ t.user = u /\ t.user \notin t.matched
    BY DEF Idle, Task, OthersIn
  <1>2. task' = [task EXCEPT ![r] = t] /\ friend' = friend /\ rooms' = rooms
    BY DEF MatchContacts, Begin
  <1>. HIDE DEF t
  <1>3. (task \in [Requests -> Task])' /\ TaskOK'
    BY <1>1, <1>2, TaskChange
  <1>. QED BY <1>2, <1>3 DEF SafeInv, TypeOK, Friends

LEMMA BefriendSafe ==
    ASSUME SafeInv, NEW r \in Requests, Befriend(r)
    PROVE  SafeInv'
  <1>1. PICK u \in Users, m \in SUBSET Users : task[r].user = u /\ task[r].matched = m /\ u \notin m
    BY DEF SafeInv, TypeOK, TaskOK, Befriend, At, Task
  <1>2. friend' = [friend EXCEPT ![u] =
                     [v \in Users |-> IF v \in m /\ @[v] = "none" THEN "accepted" ELSE @[v]]]
    BY <1>1 DEF Befriend
  <1>. friend \in [Users -> [Users -> {"none", "accepted", "blocked"}]]
    BY DEF SafeInv, TypeOK
  <1>3. (friend \in [Users -> [Users -> {"none", "accepted", "blocked"}]])'
    BY <1>2
  <1>4. (\A w \in Users : w \notin Friends(w))'
    BY <1>1, <1>2 DEF SafeInv, TypeOK, Friends
  <1>5. (task \in [Requests -> Task])' /\ TaskOK'
    BY EndChange DEF Befriend
  <1>. QED BY <1>3, <1>4, <1>5 DEF SafeInv, TypeOK, Befriend

LEMMA BlockUserSafe ==
    ASSUME SafeInv, NEW u \in Users, NEW v \in Users, BlockUser(u, v)
    PROVE  SafeInv'
  <1>. friend \in [Users -> [Users -> {"none", "accepted", "blocked"}]]
    BY DEF SafeInv, TypeOK
  <1>1. friend' = [friend EXCEPT ![u][v] = "blocked"] /\ rooms' = rooms /\ task' = task
    BY DEF BlockUser
  <1>2. (friend \in [Users -> [Users -> {"none", "accepted", "blocked"}]])'
    BY <1>1
  <1>3. (\A w \in Users : w \notin Friends(w))'
    BY <1>1 DEF SafeInv, TypeOK, Friends
  <1>4. TaskOK'
    BY <1>1 DEF SafeInv, TaskOK
  <1>. QED BY <1>1, <1>2, <1>3, <1>4 DEF SafeInv, TypeOK

LEMMA CheckFriendSafe ==
    ASSUME SafeInv, NEW r \in Requests, NEW u \in Users, NEW v \in Users,
           CheckFriend(r, u, v)
    PROVE  SafeInv'
  <1>. DEFINE t == [Idle EXCEPT !.pc = "find", !.user = u, !.other = v,
                                !.late = DirectRooms(u, v) # {}]
  <1>1. t \in Task /\ t.pc = "find" /\ t.user = u /\ t.other = v
    BY DEF Idle, Task
  <1>2. task' = [task EXCEPT ![r] = t] /\ friend' = friend /\ rooms' = rooms
    BY DEF CheckFriend, Begin
  <1>. HIDE DEF t
  <1>3. (task \in [Requests -> Task])' /\ TaskOK'
    BY <1>1, <1>2, TaskChange
  <1>. QED BY <1>2, <1>3 DEF SafeInv, TypeOK, Friends

LEMMA FindRoomSafe ==
    ASSUME SafeInv, NEW r \in Requests, FindRoom(r)
    PROVE  SafeInv'
  <1>1. friend' = friend /\ rooms' = rooms
    BY DEF FindRoom
  <1>2. CASE End(r)
    BY <1>1, <1>2, EndChange DEF SafeInv, TypeOK, Friends
  <1>3. CASE task' = [task EXCEPT ![r].pc = "create"]
    <2>. DEFINE t == [task[r] EXCEPT !.pc = "create"]
    <2>1. task \in [Requests -> Task] /\ task[r] \in Task /\ task[r].pc = "find"
      BY DEF SafeInv, TypeOK, FindRoom, At
    <2>2. t \in Task /\ t.pc = "create" /\ t.user = task[r].user /\ t.other = task[r].other
      BY <2>1 DEF Task
    <2>3. task' = [task EXCEPT ![r] = t]
      BY <1>3, <2>1
    <2>4. t.user \in Users /\ t.other \in Users
      BY <1>1, <2>1, <2>2 DEF SafeInv, TaskOK
    <2>. HIDE DEF t
    <2>5. (task \in [Requests -> Task])' /\ TaskOK'
      BY <2>2, <2>3, <2>4, TaskChange
    <2>. QED BY <1>1, <2>5 DEF SafeInv, TypeOK, Friends
  <1>. QED BY <1>2, <1>3 DEF FindRoom

\* The room that r makes.
LEMMA CreateRoomMakes ==
    ASSUME SafeInv, NEW r \in Requests, CreateRoom(r)
    PROVE  \E u, v \in Users :
               /\ task[r].user = u /\ task[r].other = v
               /\ rooms' = Append(rooms, [owner |-> u, member |-> v])
  BY DEF SafeInv, TaskOK, CreateRoom, At

LEMMA CreateRoomSafe ==
    ASSUME SafeInv, NEW r \in Requests, CreateRoom(r)
    PROVE  SafeInv'
  <1>1. friend' = friend /\ End(r)
    BY DEF CreateRoom
  <1>2. PICK u \in Users, v \in Users : rooms' = Append(rooms, [owner |-> u, member |-> v])
    BY CreateRoomMakes
  <1>3. (task \in [Requests -> Task])' /\ TaskOK'
    BY <1>1, EndChange
  <1>. rooms \in Seq(Room) /\ [owner |-> u, member |-> v] \in Room
    BY DEF SafeInv, TypeOK, Room
  <1>4. (rooms \in Seq(Room))'
    BY <1>2
  <1>. QED BY <1>1, <1>3, <1>4 DEF SafeInv, TypeOK, Friends

LEMMA FailSafe ==
    ASSUME SafeInv, NEW r \in Requests, Fail(r)
    PROVE  SafeInv'
  BY EndChange DEF Fail, SafeInv, TypeOK, Friends

LEMMA StutterSafe ==
    ASSUME SafeInv, UNCHANGED vars
    PROVE  SafeInv'
  BY DEF SafeInv, TypeOK, TaskOK, Friends, vars

LEMMA NextSafe ==
    ASSUME SafeInv, [Next]_vars
    PROVE  SafeInv'
  <1>. \A u \in Users : Contacts[u] \in SUBSET Users
    BY RoomsAssumption DEF RoomsAssumption
  <1>1. ASSUME NEW r \in Requests, NEW u \in Users, NEW book \in SUBSET Contacts[u],
               MatchContacts(r, u, book)
        PROVE  SafeInv'
    BY <1>1, MatchContactsSafe
  <1>2. ASSUME NEW r \in Requests, NEW u \in Users, NEW v \in Contacts[u],
               CheckFriend(r, u, v)
        PROVE  SafeInv'
    BY <1>2, CheckFriendSafe
  <1>3. ASSUME NEW u \in Users, NEW v \in Contacts[u], BlockUser(u, v)
        PROVE  SafeInv'
    BY <1>3, BlockUserSafe
  <1>4. ASSUME NEW r \in Requests, Befriend(r) \/ FindRoom(r) \/ CreateRoom(r) \/ Fail(r)
        PROVE  SafeInv'
    BY <1>4, BefriendSafe, FindRoomSafe, CreateRoomSafe, FailSafe
  <1>. QED BY <1>1, <1>2, <1>3, <1>4, StutterSafe DEF Next

\* Friends, rooms and requests keep their types, and nobody is a friend of
\* oneself (contacts.service.ts:22), for any users, phone books and requests.
THEOREM TypeCorrect == Spec => []TypeOK
  <1>1. SafeInv => TypeOK
    BY DEF SafeInv
  <1>. QED BY InitSafe, NextSafe, <1>1, PTL DEF Spec

-----------------------------------------------------------------------------
(* Blocks *)

LEMMA NextKeepsBlocks ==
    ASSUME SafeInv, [Next]_vars, friend' # friend, NEW u \in Users, NEW v \in Users,
           friend[u][v] = "blocked"
    PROVE  friend'[u][v] = "blocked"
  <1>. friend \in [Users -> [Users -> {"none", "accepted", "blocked"}]]
    BY DEF SafeInv, TypeOK
  <1>1. ASSUME NEW r \in Requests, Befriend(r)
        PROVE  friend'[u][v] = "blocked"
    BY <1>1 DEF Befriend
  <1>2. ASSUME NEW w \in Users, NEW x \in Users, BlockUser(w, x)
        PROVE  friend'[u][v] = "blocked"
    BY <1>2 DEF BlockUser
  <1>. \A w \in Users : Contacts[w] \in SUBSET Users
    BY RoomsAssumption DEF RoomsAssumption
  <1>. QED
    BY <1>1, <1>2 DEF Next, vars, MatchContacts, CheckFriend, FindRoom, CreateRoom, Fail

\* A sync that found a user before the user was blocked does not undo the block
\* (contacts.service.ts:43).
THEOREM BlocksStand == Spec => BlockStands
  <1>1. SafeInv /\ [Next]_vars
        => [\A u, v \in Users : friend[u][v] = "blocked" => friend'[u][v] = "blocked"]_friend
    BY NextKeepsBlocks
  <1>. QED BY InitSafe, NextSafe, <1>1, PTL DEF Spec, BlockStands

-----------------------------------------------------------------------------
(* Friends only: what a user has under way or has opened with another one *)

Openings(u, v) == Cardinality(Opening(u, v)) + Cardinality(Opened(u, v))

LEMMA OpeningsFinite ==
    ASSUME SafeInv, NEW u, NEW v
    PROVE  /\ IsFiniteSet(Opening(u, v)) /\ Cardinality(Opening(u, v)) \in Nat
           /\ IsFiniteSet(Opened(u, v)) /\ Cardinality(Opened(u, v)) \in Nat
  <1>1. rooms \in Seq(Room) /\ IsFiniteSet(1..Len(rooms))
    BY FS_Interval DEF SafeInv, TypeOK
  <1>2. Opened(u, v) \in SUBSET (1..Len(rooms)) /\ Opening(u, v) \in SUBSET Requests
    BY <1>1 DEF Opened, Opening
  <1>. QED BY <1>1, <1>2, RoomsAssumption, FS_Subset, FS_CardinalityType DEF RoomsAssumption

\* No room is made, and nobody is about to make one who was not before.
LEMMA NoneOpened ==
    ASSUME SafeInv, NEW u, NEW v, rooms' = rooms, Opening(u, v)' \subseteq Opening(u, v)
    PROVE  Openings(u, v)' <= Openings(u, v)
  <1>1. Opened(u, v)' = Opened(u, v)
    BY DEF Opened
  <1>2. Opening(u, v)' \in SUBSET Opening(u, v)
    OBVIOUS
  <1>3. Cardinality(Opening(u, v)') <= Cardinality(Opening(u, v))
        /\ Cardinality(Opening(u, v)') \in Nat
    BY <1>2, OpeningsFinite, FS_Subset, FS_CardinalityType
  <1>. QED BY <1>1, <1>3, OpeningsFinite DEF Openings

\* A request that makes a room is not under way any more.
LEMMA CreateOpens ==
    ASSUME SafeInv, NEW r \in Requests, CreateRoom(r), NEW w \in Users, NEW x \in Users
    PROVE  Openings(w, x)' <= Openings(w, x)
  <1>1. PICK u \in Users, v \in Users :
               /\ task[r].user = u /\ task[r].other = v
               /\ rooms' = Append(rooms, [owner |-> u, member |-> v])
    BY CreateRoomMakes
  <1>2. task'[r] = Idle /\ (\A s \in Requests \ {r} : task'[s] = task[s]) /\ task[r].pc = "create"
    BY DEF CreateRoom, End, At, SafeInv, TypeOK
  <1>. DEFINE n == Len(rooms) + 1
  <1>3. /\ n \notin DOMAIN rooms /\ DOMAIN rooms' = DOMAIN rooms \cup {n}
        /\ rooms'[n] = [owner |-> u, member |-> v]
        /\ \A i \in DOMAIN rooms : rooms'[i] = rooms[i]
    BY <1>1 DEF SafeInv, TypeOK
  <1>. HIDE DEF n
  <1>4. Opening(w, x)' = Opening(w, x) \ {r}
    BY <1>2 DEF Opening, Idle
  <1>5. /\ Cardinality(Opening(w, x)') =
               IF r \in Opening(w, x) THEN Cardinality(Opening(w, x)) - 1
                                      ELSE Cardinality(Opening(w, x))
    BY <1>4, OpeningsFinite, FS_RemoveElement
  <1>6. CASE u = w /\ v = x
    <2>1. r \in Opening(w, x)
      BY <1>1, <1>2, <1>6 DEF Opening
    <2>2. Opened(w, x)' = Opened(w, x) \cup {n} /\ n \notin Opened(w, x)
      BY <1>3, <1>6 DEF Opened
    <2>3. Cardinality(Opened(w, x)') = Cardinality(Opened(w, x)) + 1
      BY <2>2, OpeningsFinite, FS_AddElement
    <2>. QED BY <1>5, <2>1, <2>3, OpeningsFinite DEF Openings
  <1>7. CASE ~(u = w /\ v = x)
    <2>1. Opened(w, x)' = Opened(w, x)
      BY <1>3, <1>7 DEF Opened
    <2>. QED BY <1>5, <2>1, OpeningsFinite DEF Openings
  <1>. QED BY <1>6, <1>7

LEMMA NextOpens ==
    ASSUME SafeInv, [Next]_vars, NEW u \in Users, NEW v \in Users, v \notin Friends(u)
    PROVE  Openings(u, v)' <= Openings(u, v)
  <1>. task \in [Requests -> Task]
    BY DEF SafeInv, TypeOK
  <1>1. ASSUME NEW r \in Requests, NEW t, task' = [task EXCEPT ![r] = t], rooms' = rooms,
               t.pc \in {"find", "create"} /\ t.user = u /\ t.other = v => r \in Opening(u, v)
        PROVE  Openings(u, v)' <= Openings(u, v)
    <2>1. Opening(u, v)' \subseteq Opening(u, v)
      BY <1>1 DEF Opening
    <2>. QED BY <1>1, <2>1, NoneOpened
  <1>2. ASSUME NEW r \in Requests, NEW w \in Users, NEW book, MatchContacts(r, w, book)
        PROVE  Openings(u, v)' <= Openings(u, v)
    <2>. DEFINE t == [Idle EXCEPT !.pc = "befriend", !.user = w, !.matched = OthersIn(book, w)]
    <2>1. task' = [task EXCEPT ![r] = t] /\ rooms' = rooms /\ t.pc = "befriend"
      BY <1>2 DEF MatchContacts, Begin, Idle
    <2>. HIDE DEF t
    <2>. QED BY <1>1, <2>1
  <1>3. ASSUME NEW r \in Requests, NEW w \in Users, NEW x \in Users, CheckFriend(r, w, x)
        PROVE  Openings(u, v)' <= Openings(u, v)
    <2>. DEFINE t == [Idle EXCEPT !.pc = "find", !.user = w, !.other = x,
                                  !.late = DirectRooms(w, x) # {}]
    <2>1. task' = [task EXCEPT ![r] = t] /\ rooms' = rooms /\ t.user = w /\ t.other = x
      BY <1>3 DEF CheckFriend, Begin, Idle
    <2>2. x \in Friends(w)
      BY <1>3 DEF CheckFriend, MayOpen
    <2>. HIDE DEF t
    <2>. QED BY <1>1, <2>1, <2>2
  <1>4. ASSUME NEW r \in Requests, End(r), rooms' = rooms
        PROVE  Openings(u, v)' <= Openings(u, v)
    BY <1>1, <1>4 DEF End, Idle
  <1>5. ASSUME NEW r \in Requests, FindRoom(r)
        PROVE  Openings(u, v)' <= Openings(u, v)
    <2>. DEFINE t == [task[r] EXCEPT !.pc = "create"]
    <2>1. CASE End(r)
      BY <1>4, <1>5, <2>1 DEF FindRoom
    <2>2. CASE task' = [task EXCEPT ![r].pc = "create"]
      <3>1. /\ task' = [task EXCEPT ![r] = t] /\ rooms' = rooms
            /\ t.user = task[r].user /\ t.other = task[r].other /\ task[r].pc = "find"
        BY <1>5, <2>2 DEF FindRoom, At, Task
      <3>. HIDE DEF t
      <3>2. t.user = u /\ t.other = v => r \in Opening(u, v)
        BY <3>1 DEF Opening
      <3>. QED BY <1>1, <3>1, <3>2
    <2>. QED BY <1>5, <2>1, <2>2 DEF FindRoom
  <1>6. ASSUME rooms' = rooms, task' = task
        PROVE  Openings(u, v)' <= Openings(u, v)
    BY <1>6, NoneOpened DEF Opening
  <1>. \A w \in Users : Contacts[w] \in SUBSET Users
    BY RoomsAssumption DEF RoomsAssumption
  <1>. QED
    BY <1>2, <1>3, <1>4, <1>5, <1>6, CreateOpens
    DEF Next, vars, Befriend, BlockUser, Fail

\* Nobody opens a room but with a friend (rooms.service.ts:117-123): while the
\* status is not 'accepted', what is under way and what there is do not grow.
THEOREM FriendsOnly == Spec => RoomsRestOnFriendship
  <1>1. SafeInv /\ [Next]_vars
        => [\A u, v \in Users :
              v \notin Friends(u) =>
                  Cardinality(Opening(u, v)') + Cardinality(Opened(u, v)')
                      <= Cardinality(Opening(u, v)) + Cardinality(Opened(u, v))]_vars
    BY NextOpens DEF Openings
  <1>. QED BY InitSafe, NextSafe, <1>1, PTL DEF Spec, RoomsRestOnFriendship

-----------------------------------------------------------------------------
(* Rooms of a pair, counted *)

LEMMA InitCount == Init => LateOK /\ LateRequestFindsRoom /\ Counted
  <1>. SUFFICES ASSUME Init PROVE LateOK /\ LateRequestFindsRoom /\ Counted
    OBVIOUS
  <1>1. LateOK /\ LateRequestFindsRoom
    BY DEF Init, LateOK, LateRequestFindsRoom, At, Idle
  <1>2. \A u, v \in Users : DirectRooms(u, v) = {} /\ Making(u, v) = {}
    BY DEF Init, DirectRooms, Making, Idle
  <1>3. Cardinality(Requests) \in Nat
    BY RoomsAssumption, FS_CardinalityType DEF RoomsAssumption
  <1>4. \A u, v \in Users : /\ IsFiniteSet(DirectRooms(u, v))
                            /\ Cardinality(DirectRooms(u, v)) = 0
                            /\ Cardinality(Making(u, v)) = 0
    BY <1>2, FS_EmptySet
  <1>. QED BY <1>1, <1>3, <1>4 DEF Counted

\* A step that makes no room, and after which nobody is about to make one who was
\* not before.
LEMMA CountStays ==
    ASSUME RoomsInv, rooms' = rooms, NEW u \in Users, NEW v \in Users,
           Making(u, v)' \subseteq Making(u, v)
    PROVE  /\ IsFiniteSet(DirectRooms(u, v)')
           /\ Cardinality(DirectRooms(u, v)') + Cardinality(Making(u, v)') <= Cardinality(Requests)
  <1>1. DirectRooms(u, v)' = DirectRooms(u, v)
    BY DEF DirectRooms, Members
  <1>2. IsFiniteSet(Making(u, v))
    BY RoomsAssumption, FS_Subset DEF RoomsAssumption, Making
  <1>3. /\ Cardinality(Making(u, v)') <= Cardinality(Making(u, v))
        /\ Cardinality(Making(u, v)') \in Nat /\ Cardinality(Making(u, v)) \in Nat
    BY <1>2, FS_Subset, FS_CardinalityType
  <1>4. /\ IsFiniteSet(DirectRooms(u, v))
        /\ Cardinality(DirectRooms(u, v)) + Cardinality(Making(u, v)) <= Cardinality(Requests)
    BY DEF RoomsInv, Counted
  <1>5. Cardinality(DirectRooms(u, v)) \in Nat /\ Cardinality(Requests) \in Nat
    BY <1>4, FS_CardinalityType, RoomsAssumption DEF RoomsAssumption
  <1>. QED BY <1>1, <1>3, <1>4, <1>5

\* Such a step of one request, which is late only if there is a room.
LEMMA TaskCount ==
    ASSUME RoomsInv, rooms' = rooms, NEW r \in Requests, NEW t \in Task,
           task' = [task EXCEPT ![r] = t],
           t.pc \in {"find", "create"} /\ ~t.late =>
               r \in Making(task[r].user, task[r].other)
               /\ t.user = task[r].user /\ t.other = task[r].other,
           t.pc = "find" /\ t.late => DirectRooms(t.user, t.other) # {},
           t.pc = "create" => ~t.late
    PROVE  LateOK' /\ LateRequestFindsRoom' /\ Counted'
  <1>. task \in [Requests -> Task]
    BY DEF RoomsInv, SafeInv, TypeOK
  <1>1. \A u, v : DirectRooms(u, v)' = DirectRooms(u, v)
    BY DEF DirectRooms, Members
  <1>2. task'[r] = t /\ \A s \in Requests \ {r} : task'[s] = task[s]
    OBVIOUS
  <1>3. LateOK'
    BY <1>1, <1>2 DEF LateOK, At, RoomsInv
  <1>4. LateRequestFindsRoom'
    BY <1>2 DEF LateRequestFindsRoom, At, RoomsInv
  <1>5. ASSUME NEW u \in Users, NEW v \in Users
        PROVE  Making(u, v)' \subseteq Making(u, v)
    BY <1>2 DEF Making
  <1>6. Counted'
    BY <1>5, CountStays DEF Counted
  <1>. QED BY <1>3, <1>4, <1>6

LEMMA EndCount ==
    ASSUME RoomsInv, rooms' = rooms, NEW r \in Requests, End(r)
    PROVE  LateOK' /\ LateRequestFindsRoom' /\ Counted'
  BY IdleType, TaskCount DEF End, Idle

\* A request that begins when there is no room for its pair: until now there were
\* fewer requests about to make one than slots.
LEMMA CheckFriendCount ==
    ASSUME RoomsInv, NEW r \in Requests, NEW u \in Users, NEW v \in Users,
           CheckFriend(r, u, v)
    PROVE  LateOK' /\ LateRequestFindsRoom' /\ Counted'
  <1>. DEFINE t == [Idle EXCEPT !.pc = "find", !.user = u, !.other = v,
                                !.late = DirectRooms(u, v) # {}]
  <1>1. t \in Task /\ t.pc = "find" /\ t.user = u /\ t.other = v /\ t.late = (DirectRooms(u, v) # {})
    BY DEF Idle, Task
  <1>2. task' = [task EXCEPT ![r] = t] /\ rooms' = rooms /\ task \in [Requests -> Task]
    BY DEF CheckFriend, Begin, RoomsInv, SafeInv, TypeOK
  <1>. HIDE DEF t
  <1>3. CASE DirectRooms(u, v) # {}
    BY <1>1, <1>2, <1>3, TaskCount
  <1>4. CASE DirectRooms(u, v) = {}
    <2>1. task'[r] = t /\ \A s \in Requests \ {r} : task'[s] = task[s]
      BY <1>2
    <2>2. \A w, x : DirectRooms(w, x)' = DirectRooms(w, x)
      BY <1>2 DEF DirectRooms, Members
    <2>3. LateOK' /\ LateRequestFindsRoom'
      BY <1>1, <1>4, <2>1, <2>2 DEF LateOK, LateRequestFindsRoom, At, RoomsInv
    <2>4. ASSUME NEW w \in Users, NEW x \in Users
          PROVE  /\ IsFiniteSet(DirectRooms(w, x)')
                 /\ Cardinality(DirectRooms(w, x)') + Cardinality(Making(w, x)')
                        <= Cardinality(Requests)
      <3>1. ASSUME {u, v} = {w, x}
            PROVE  /\ IsFiniteSet(DirectRooms(w, x)')
                   /\ Cardinality(DirectRooms(w, x)') + Cardinality(Making(w, x)')
                          <= Cardinality(Requests)
        <4>. DirectRooms(w, x) = {}
          BY <1>4, <3>1 DEF DirectRooms
        <4>1. DirectRooms(w, x)' = {}
          BY <2>2
        <4>2. Making(w, x)' \subseteq Requests
          BY DEF Making
        <4>3. Cardinality(Making(w, x)') <= Cardinality(Requests)
              /\ Cardinality(Making(w, x)') \in Nat
          BY <4>2, RoomsAssumption, FS_Subset, FS_CardinalityType DEF RoomsAssumption
        <4>. QED BY <4>1, <4>3, FS_EmptySet
      <3>2. ASSUME {u, v} # {w, x}
            PROVE  Making(w, x)' \subseteq Making(w, x)
        BY <1>1, <2>1, <3>2 DEF Making
      <3>. QED BY <1>2, <3>1, <3>2, CountStays
    <2>5. Counted'
      BY <2>4 DEF Counted
    <2>. QED BY <2>3, <2>5
  <1>. QED BY <1>3, <1>4

LEMMA FindRoomCount ==
    ASSUME RoomsInv, NEW r \in Requests, FindRoom(r)
    PROVE  LateOK' /\ LateRequestFindsRoom' /\ Counted'
  <1>1. rooms' = rooms /\ task[r].pc = "find" /\ task[r] \in Task /\ task \in [Requests -> Task]
    BY DEF FindRoom, At, RoomsInv, SafeInv, TypeOK
  <1>2. CASE End(r)
    BY <1>1, <1>2, EndCount
  <1>3. ASSUME DirectRooms(task[r].user, task[r].other) = {},
               task' = [task EXCEPT ![r].pc = "create"]
        PROVE  LateOK' /\ LateRequestFindsRoom' /\ Counted'
    <2>. DEFINE t == [task[r] EXCEPT !.pc = "create"]
    <2>1. /\ t \in Task /\ t.pc = "create"
          /\ t.user = task[r].user /\ t.other = task[r].other /\ t.late = task[r].late
      BY <1>1 DEF Task
    <2>2. task' = [task EXCEPT ![r] = t]
      BY <1>1, <1>3
    <2>3. ~task[r].late
      BY <1>1, <1>3 DEF RoomsInv, LateOK, At
    <2>4. r \in Making(task[r].user, task[r].other)
      BY <1>1, <2>3 DEF Making
    <2>. HIDE DEF t
    <2>. QED BY <1>1, <2>1, <2>2, <2>3, <2>4, TaskCount
  <1>. QED BY <1>2, <1>3 DEF FindRoom

\* A room is made by a request that was counted until now.
LEMMA CreateRoomCount ==
    ASSUME RoomsInv, NEW r \in Requests, CreateRoom(r)
    PROVE  LateOK' /\ LateRequestFindsRoom' /\ Counted'
  <1>1. PICK u \in Users, v \in Users :
               /\ task[r].user = u /\ task[r].other = v
               /\ rooms' = Append(rooms, [owner |-> u, member |-> v])
    BY CreateRoomMakes DEF RoomsInv
  <1>2. task'[r] = Idle /\ \A s \in Requests \ {r} : task'[s] = task[s]
    BY DEF CreateRoom, End, RoomsInv, SafeInv, TypeOK
  <1>. DEFINE n == Len(rooms) + 1
  <1>3. /\ n \notin DOMAIN rooms /\ DOMAIN rooms' = DOMAIN rooms \cup {n}
        /\ rooms'[n] = [owner |-> u, member |-> v]
        /\ \A i \in DOMAIN rooms : rooms'[i] = rooms[i]
    BY <1>1 DEF RoomsInv, SafeInv, TypeOK
  <1>. HIDE DEF n
  <1>4. ASSUME NEW w, NEW x
        PROVE  DirectRooms(w, x)' = IF {u, v} = {w, x} THEN DirectRooms(w, x) \cup {n}
                                                       ELSE DirectRooms(w, x)
    BY <1>3 DEF DirectRooms, Members
  <1>5. LateOK'
    BY <1>2, <1>4 DEF LateOK, At, Idle, RoomsInv
  <1>6. LateRequestFindsRoom'
    BY <1>2 DEF LateRequestFindsRoom, At, Idle, RoomsInv
  <1>7. ASSUME NEW w \in Users, NEW x \in Users
        PROVE  /\ IsFiniteSet(DirectRooms(w, x)')
               /\ Cardinality(DirectRooms(w, x)') + Cardinality(Making(w, x)')
                      <= Cardinality(Requests)
    <2>1. /\ IsFiniteSet(DirectRooms(w, x))
          /\ Cardinality(DirectRooms(w, x)) + Cardinality(Making(w, x)) <= Cardinality(Requests)
      BY DEF RoomsInv, Counted
    <2>2. IsFiniteSet(Making(w, x)) /\ IsFiniteSet(Requests)
      BY RoomsAssumption, FS_Subset DEF RoomsAssumption, Making
    <2>3. /\ Cardinality(DirectRooms(w, x)) \in Nat /\ Cardinality(Making(w, x)) \in Nat
          /\ Cardinality(Requests) \in Nat
      BY <2>1, <2>2, FS_CardinalityType
    <2>4. Making(w, x)' = Making(w, x) \ {r}
      BY <1>2 DEF Making, Idle
    <2>5. CASE {u, v} = {w, x}
      <3>1. r \in Making(w, x)
        BY <1>1, <2>5 DEF Making, CreateRoom, At, RoomsInv, LateRequestFindsRoom
      <3>2. Cardinality(Making(w, x)') = Cardinality(Making(w, x)) - 1
        BY <2>2, <2>4, <3>1, FS_RemoveElement
      <3>3. DirectRooms(w, x)' = DirectRooms(w, x) \cup {n} /\ n \notin DirectRooms(w, x)
        BY <1>3, <1>4, <2>5 DEF DirectRooms
      <3>4. /\ IsFiniteSet(DirectRooms(w, x)')
            /\ Cardinality(DirectRooms(w, x)') = Cardinality(DirectRooms(w, x)) + 1
        BY <2>1, <3>3, FS_AddElement
      <3>. QED BY <2>1, <2>3, <3>2, <3>4
    <2>6. CASE {u, v} # {w, x}
      <3>1. DirectRooms(w, x)' = DirectRooms(w, x)
        BY <1>4, <2>6
      <3>2. Cardinality(Making(w, x)') <= Cardinality(Making(w, x))
            /\ Cardinality(Making(w, x)') \in Nat
        BY <2>2, <2>4, FS_Subset, FS_CardinalityType
      <3>. QED BY <2>1, <2>3, <3>1, <3>2
    <2>. QED BY <2>5, <2>6
  <1>8. Counted'
    BY <1>7 DEF Counted
  <1>. QED BY <1>5, <1>6, <1>8

LEMMA NextCount ==
    ASSUME RoomsInv, [Next]_vars
    PROVE  RoomsInv'
  <1>1. SafeInv'
    BY NextSafe DEF RoomsInv
  <1>. \A u \in Users : Contacts[u] \in SUBSET Users
    BY RoomsAssumption DEF RoomsAssumption
  <1>2. ASSUME NEW r \in Requests, NEW u \in Users, NEW book \in SUBSET Users,
               MatchContacts(r, u, book)
        PROVE  LateOK' /\ LateRequestFindsRoom' /\ Counted'
    <2>. DEFINE t == [Idle EXCEPT !.pc = "befriend", !.user = u, !.matched = OthersIn(book, u)]
    <2>1. t \in Task /\ t.pc = "befriend"
      BY DEF Idle, Task, OthersIn
    <2>2. task' = [task EXCEPT ![r] = t] /\ rooms' = rooms
      BY <1>2 DEF MatchContacts, Begin
    <2>. HIDE DEF t
    <2>. QED BY <2>1, <2>2, TaskCount
  <1>3. ASSUME NEW r \in Requests, Befriend(r) \/ Fail(r)
        PROVE  LateOK' /\ LateRequestFindsRoom' /\ Counted'
    BY <1>3, EndCount DEF Befriend, Fail
  <1>4. ASSUME NEW r \in Requests, FindRoom(r) \/ CreateRoom(r)
        PROVE  LateOK' /\ LateRequestFindsRoom' /\ Counted'
    BY <1>4, FindRoomCount, CreateRoomCount
  <1>5. ASSUME rooms' = rooms, task' = task
        PROVE  LateOK' /\ LateRequestFindsRoom' /\ Counted'
    <2>1. \A u, v : DirectRooms(u, v)' = DirectRooms(u, v) /\ Making(u, v)' = Making(u, v)
      BY <1>5 DEF DirectRooms, Members, Making
    <2>. QED BY <1>5, <2>1 DEF RoomsInv, LateOK, LateRequestFindsRoom, Counted, At
  <1>6. LateOK' /\ LateRequestFindsRoom' /\ Counted'
    BY <1>2, <1>3, <1>4, <1>5, CheckFriendCount DEF Next, vars, BlockUser
  <1>. QED BY <1>1, <1>6 DEF RoomsInv

\* A request to open a room that begins when the pair has one makes none
\* (rooms.service.ts:162), for any number of requests.
THEOREM LateMakesNone == Spec => []LateRequestFindsRoom
  <1>1. Init => RoomsInv
    BY InitSafe, InitCount DEF RoomsInv
  <1>2. RoomsInv => LateRequestFindsRoom
    BY DEF RoomsInv
  <1>. QED BY <1>1, <1>2, NextCount, PTL DEF Spec

LEMMA CountBound ==
    ASSUME RoomsInv
    PROVE  RoomsWithinOverlap
  <1>. SUFFICES ASSUME NEW u \in Users, NEW v \in Users
               PROVE  Cardinality(DirectRooms(u, v)) <= Cardinality(Requests)
    BY DEF RoomsWithinOverlap
  <1>1. IsFiniteSet(Making(u, v)) /\ IsFiniteSet(Requests)
    BY RoomsAssumption, FS_Subset DEF RoomsAssumption, Making
  <1>2. /\ Cardinality(DirectRooms(u, v)) \in Nat /\ Cardinality(Making(u, v)) \in Nat
        /\ Cardinality(Requests) \in Nat
    BY <1>1, FS_CardinalityType DEF RoomsInv, Counted
  <1>. QED BY <1>2 DEF RoomsInv, Counted

\* A pair never has more rooms than there are requests at a time, for any number
\* of them and any order of their queries.
THEOREM NoMoreRoomsThanRequests == Spec => []RoomsWithinOverlap
  <1>1. Init => RoomsInv
    BY InitSafe, InitCount DEF RoomsInv
  <1>. QED BY <1>1, NextCount, CountBound, PTL DEF Spec

=============================================================================
