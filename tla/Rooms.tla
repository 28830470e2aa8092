------------------------------- MODULE Rooms -------------------------------
(***************************************************************************)
(* Friends and direct rooms: syncContacts (contacts.service.ts), blockUser *)
(* and getFriends (users.service.ts), and createDirectRoom                 *)
(* (rooms.service.ts).  A request is a task, cut at its awaits.  Nothing   *)
(* in the server unfriends, unblocks, leaves or deletes a room, makes a    *)
(* group, or changes the status of a user.                                 *)
(***************************************************************************)
EXTENDS Naturals, Sequences, FiniteSets

CONSTANTS
    Users,
    Contacts,   \* the users each user has in the phone book; Next has nobody
                \* ask for anyone else
    Requests,   \* slots for requests in progress
    None

ASSUME RoomsAssumption ==
    /\ None \notin Users
    /\ Contacts \in [Users -> SUBSET Users]
    /\ IsFiniteSet(Requests)

VARIABLES
    friend,  \* the table friends: the status of each user's row for another
    rooms,   \* chat_rooms with their room_participants, in order of creation
    task     \* the request running in each slot

vars == <<friend, rooms, task>>

-----------------------------------------------------------------------------
Room == [owner : Users, member : Users]

\* matched: the users found for a list of hashes.  late: there was a room for
\* the pair when the request began; kept for the properties.
Task == [pc : {"idle", "befriend", "find", "create"}, user : Users \cup {None},
         other : Users \cup {None}, matched : SUBSET Users, late : BOOLEAN]

Idle == [pc |-> "idle", user |-> None, other |-> None, matched |-> {}, late |-> FALSE]

At(r, pc) == task[r].pc = pc

Begin(r, t) == At(r, "idle") /\ task' = [task EXCEPT ![r] = t]

End(r) == task' = [task EXCEPT ![r] = Idle]

Members(i) == {rooms[i].owner, rooms[i].member}

\* The rooms that createDirectRoom looks for.
DirectRooms(u, v) == {i \in DOMAIN rooms : Members(i) = {u, v}}

\* getFriends
Friends(u) == {v \in Users : friend[u][v] = "accepted"}

\* The requests of u that may still open a room with v, and the rooms opened so.
Opening(u, v) == {r \in Requests : /\ task[r].pc \in {"find", "create"}
                                  /\ task[r].user = u
                                  /\ task[r].other = v}
Opened(u, v) == {i \in DOMAIN rooms : rooms[i] = [owner |-> u, member |-> v]}

Init ==
    /\ friend = [u \in Users |-> [v \in Users |-> "none"]]
    /\ rooms = <<>>
    /\ task = [r \in Requests |-> Idle]

-----------------------------------------------------------------------------
(* syncContacts *)

\* A bug: the user is not left out.
AnybodyIn(book, u) == book

\* Those of the phone book whom user.findMany finds for user u.
OthersIn(book, u) == book \ {u}

\* user.findMany; nothing is written when nobody else is found.
MatchContacts(r, u, book) ==
    LET matched == OthersIn(book, u) IN
    /\ matched # {}
    /\ Begin(r, [Idle EXCEPT !.pc = "befriend", !.user = u, !.matched = matched])
    /\ UNCHANGED <<friend, rooms>>

\* A bug: the upserts set the status.
BefriendAnew(r) ==
    LET t == task[r] IN
    /\ At(r, "befriend")
    /\ friend' = [friend EXCEPT ![t.user] =
                    [v \in Users |-> IF v \in t.matched THEN "accepted" ELSE @[v]]]
    /\ End(r)
    /\ UNCHANGED rooms

\* The upserts, in one transaction: they leave a row that exists as it is.
Befriend(r) ==
    LET t == task[r] IN
    /\ At(r, "befriend")
    /\ friend' = [friend EXCEPT ![t.user] =
                    [v \in Users |-> IF v \in t.matched /\ @[v] = "none"
                                     THEN "accepted" ELSE @[v]]]
    /\ End(r)
    /\ UNCHANGED rooms

BlockUser(u, v) ==
    /\ friend' = [friend EXCEPT ![u][v] = "blocked"]
    /\ UNCHANGED <<rooms, task>>

-----------------------------------------------------------------------------
(* createDirectRoom *)

\* A bug: the status of the row is not looked at.
MayOpenAnyRow(u, v) == friend[u][v] # "none"

MayOpen(u, v) == v \in Friends(u)

\* friend.findFirst.  A request to oneself or to somebody who is not a friend is
\* refused.
CheckFriend(r, u, v) ==
    /\ u # v
    /\ MayOpen(u, v)
    /\ Begin(r, [Idle EXCEPT !.pc = "find", !.user = u, !.other = v,
                             !.late = DirectRooms(u, v) # {}])
    /\ UNCHANGED <<friend, rooms>>

\* A bug: only rooms that the user made are looked at.
FindOwnRoom(r) ==
    LET t == task[r] IN
    /\ At(r, "find")
    /\ IF \E i \in DirectRooms(t.user, t.other) : rooms[i].owner = t.user
       THEN End(r)
       ELSE task' = [task EXCEPT ![r].pc = "create"]
    /\ UNCHANGED <<friend, rooms>>

\* chatRoom.findMany and find: a room of the pair is answered, if there is one.
FindRoom(r) ==
    LET t == task[r] IN
    /\ At(r, "find")
    /\ IF DirectRooms(t.user, t.other) # {}
       THEN End(r)
       ELSE task' = [task EXCEPT ![r].pc = "create"]
    /\ UNCHANGED <<friend, rooms>>

\* chatRoom.create with both participants.
CreateRoom(r) ==
    LET t == task[r] IN
    /\ At(r, "create")
    /\ rooms' = Append(rooms, [owner |-> t.user, member |-> t.other])
    /\ End(r)
    /\ UNCHANGED friend

\* A query fails: a transaction has no effect, and the request is over.
Fail(r) ==
    /\ ~At(r, "idle")
    /\ End(r)
    /\ UNCHANGED <<friend, rooms>>

Next ==
    \/ \E r \in Requests, u \in Users :
         \/ \E book \in SUBSET Contacts[u] : MatchContacts(r, u, book)
         \/ \E v \in Contacts[u] : CheckFriend(r, u, v)
    \/ \E u \in Users : \E v \in Contacts[u] : BlockUser(u, v)
    \/ \E r \in Requests : Befriend(r) \/ FindRoom(r) \/ CreateRoom(r) \/ Fail(r)

Spec == Init /\ [][Next]_vars

-----------------------------------------------------------------------------
(* Properties *)

TypeOK ==
    /\ friend \in [Users -> [Users -> {"none", "accepted", "blocked"}]]
    /\ rooms \in Seq(Room)
    /\ task \in [Requests -> Task]
    /\ \A u \in Users : u \notin Friends(u)

\* A block is final: no sync of the phone book makes a friend again of somebody
\* who was blocked after the sync had found them.
BlockStands ==
    [][\A u, v \in Users : friend[u][v] = "blocked" => friend'[u][v] = "blocked"]_friend

\* A pair gets a second room only from requests that overlapped: one that began
\* when there was a room for the pair makes none.
LateRequestFindsRoom ==
    \A r \in Requests : At(r, "create") => ~task[r].late

\* However the requests of a pair overlap, the pair never has more rooms than
\* there were requests at a time.
RoomsWithinOverlap ==
    \A u, v \in Users : Cardinality(DirectRooms(u, v)) <= Cardinality(Requests)

\* Only a friend is a way into a room: while somebody is no friend of u, never
\* befriended or blocked, u gets no further request about them under way, and those
\* that a block has overtaken make one room each at most.
RoomsRestOnFriendship ==
    [][\A u, v \in Users :
         v \notin Friends(u) =>
             Cardinality(Opening(u, v)') + Cardinality(Opened(u, v)')
                 <= Cardinality(Opening(u, v)) + Cardinality(Opened(u, v))]_vars

\* A pair has one room.
PairHasOneRoom == \A u, v \in Users : Cardinality(DirectRooms(u, v)) <= 1

=============================================================================
