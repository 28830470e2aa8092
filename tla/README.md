# Verification of ringtalk

TLA+ models of ringtalk (링톡), a messenger with a NestJS server (`server/`), code shared
by both sides (`shared/`) and a Flutter client (`lib/`), with the TLC runs that check them
and the TLAPS proofs about them. The project covers what the program is for, a chat room:
a message is sent, stored once, told to the room, shown, delivered, read, retried when the
answer does not come; connections drop, the server restarts. Around it, it covers the way
into the room: logging in by a one-time code, the sessions and tokens of an account, and
how friends and rooms come to be.

Paths below are relative to the repository. A `file:line` points at the code or the
document meant.

## 1. The system and its parts

| Part | State | Operations | Speaks to |
|---|---|---|---|
| WebSocket gateway (`server/src/websocket`) | Socket.IO rooms `room:<id>` and `user:<id>` | connection, `room:join`, `room:leave`, `message:send`, `chat.read`, `message:delivered` | messages service, Prisma, clients |
| Messages service (`server/src/messages`) | tables `messages`, `message_read_receipts`, `room_participants.lastReadAt` | `sendMessage`, `markRead`, `getMessages` | PostgreSQL |
| Chat room notifier (`lib/features/chat/providers/chat_room_provider.dart`) | the list of messages, send timers, an onConnect callback | constructor, `loadMessages`, `sendMessage`, `retryMessage`, handlers of `message:new`, `message:status`, `chat.read` | socket service, REST, secure storage |
| Socket service (`lib/core/network/socket_service.dart`) | the socket, the onConnect callbacks | `connect`, `disconnect`, `reconnect` | Socket.IO |
| Auth service (`server/src/auth`, `common/redis`) | OTP and counters in Redis, `user_sessions` | `requestOtp`, `verifyOtp`, `refresh`, `logout`, `revokeSession` | Redis, PostgreSQL |
| Client auth (`api_client.dart`, `auth_storage.dart`, `app_router.dart`, auth screens, settings) | tokens in the secure storage, the router's auth flag | 401 interceptor, login, logout, redirects | auth service, socket service |
| Rooms service (`server/src/rooms`) | tables `chat_rooms`, `room_participants` | `getRooms`, `createDirectRoom` | PostgreSQL |
| Room list notifier (`rooms_provider.dart`) | rooms with unread counts | `fetchRooms`, `message:new`, `markRoomAsRead`, `getOrCreateDirectRoom` | rooms service, socket service |
| Contacts and friends | `friends` table; sync progress and the friends list on the client | `syncContacts`, progress events, `fetchFriends` | contacts service |
| Phone numbers (`shared/src/utils/phone.ts`, `phone_utils.dart`) | none | normalise, hash | contacts, auth |
| Users, attachments, HTTP plumbing, screens | single rows, object storage, none | read, update, presign | - |

How they interact: a device keeps one Socket.IO connection and makes REST calls. The
gateway starts a handler for each event as it arrives, and a handler awaits the database
several times. Answers to the sender (`message:status`, `error`) go to its connection,
news to the Socket.IO room. On the device, Dart runs one callback at a time, but the
handlers of `message:new` and `chat.read`, and `sendMessage` itself, await the secure
storage before they touch the list.

What is hard here:

- handlers of one client, of its other devices and of its retries interleave at every await;
- the transaction of `sendMessage` can fail after its INSERT, and its outcome can be lost;
- a list of messages on a device is written by six kinds of event in any order: the page,
  the optimistic entry, the acknowledgement, the broadcast, the timer, the read receipt;
- a connection drops with events in flight both ways, and Socket.IO keeps what is emitted
  while it is down;
- reading is spread over four statements without a transaction;
- the one-time codes and their counters are Redis keys that expire by themselves between
  the reads and writes of a request, and no read is atomic with the write that follows it;
- an app renews its tokens by itself, for each refused request alone, and takes every
  failure on the way for the end of its session;
- a room for a pair is looked for and made in two steps, and no index keeps it unique.

What makes each part correct: see the properties in section 3. Every hazard, with its
line and the property that covers it, is in `PROJECT.json`.

## 2. Modules

| Module | Models |
|---|---|
| `MessageLedger` | What the send path promises: entries are added once per sender and `clientMessageId`, never changed or removed, and members hear of entries only. |
| `Conversation` | What the users of a room are promised: what is sent is stored at most once, what is shown is stored, and what is marked as delivered has been shown by another user. |
| `MessageGateway` | The server's side of one room: gateway and messages service, one action per await. |
| `ChatRoom` | The device's side: the notifier, and the socket as it uses it. |
| `ChatSystem` | Devices, connections and the server together (`ChatRoom` extended, `MessageGateway` by INSTANCE). |
| `MessageGatewayProofs` | Type correctness and idempotence of `MessageGateway`, proved. |
| `MessageGatewaySafety` | What clients are told and what reading leaves behind, proved. |
| `MessageGatewayRefinement` | `MessageGateway` implements `MessageLedger`, proved. |
| `ChatRoomProofs` | Lemmas about what `ChatSystem` is built from: the page, and the server's steps as steps of the gateway's proofs. |
| `ChatSystemProofs` | Every safety property of the chat end to end, and that it implements `MessageLedger` and `Conversation`, proved. |
| `RedisService` | Keys with a value and an expiry, as `redis.service.ts` uses them; operators only. |
| `Otp` | `requestOtp` and `verifyOtp` with their counters, up to the session. |
| `Sessions` | The sessions of one account, the guard, and the apps' login, storage and renewal of tokens. |
| `Rooms` | Contact sync, blocks and direct rooms. |
| `OtpProofs`, `SessionsProofs`, `RoomsProofs` | The safety properties of these three, proved. |
| `MCMessageGateway`, `MCChatSystem`, `MCOtp`, `MCSessions`, `MCRooms` | Small instances for TLC. |

### MessageGateway

`task[r]` is a handler in progress: the await it stands at (`pc`) and its local variables.
`OnMessageSend` starts `handleMessageSend`; `SendLookup` is the idempotence check
(`messages.service.ts:64`), `SendInsert` the INSERT inside `$transaction` (line 77),
`SendCommit` its end, `SendRespond` the broadcast and the acknowledgement
(`websocket.gateway.ts:176-186`). Every failure of a query is an action too
(`SendQueryFails`, `SendCommitFails`, `ReadFails`, `JoinOrDeliveredFails`), and a failed
COMMIT may or may not have taken effect. `chat.read` is cut at the six awaits of `markRead`
and the gateway. `rows` is the table: a row is `open` until its transaction ends. The
unique index (`schema.prisma:192`) makes an INSERT wait for an open holder of its key and
fail on a committed one. `Restart` is a crash of the process: handlers and rooms are gone,
open transactions are rolled back. `clock` gives `createdAt`, `readUntil` and `readAt`.

Left out: rooms other than one; the check that the room exists is merged with the check of
participation, since nothing in the code deletes a room or sets `leftAt`; messages that
share a millisecond on the server; pages after the first, so that `hasMore` and `nextCursor`
have no counterpart and the first page has every committed message (an instance has fewer
than 50); the check of the token and the `authenticated` event of a connection.

### ChatRoom and ChatSystem

`view[d]` is `state.messages`; an entry has the server's id (`row`, 0 before it is known)
and its `clientTempId` (`temp`). `cont[d]` holds what waits for `AuthStorage.getUserId()`,
answered in order. `link`, `inbox` and `buffer` are the socket: connected by a connection,
events on the way to the server, events kept while disconnected (what
`socket_io_client` does; it is outside the repository and modelled from its use).
`LinkUp` flushes the buffer and runs the onConnect callbacks. In `ChatSystem` the server
sees an event when it takes it (`Arrive`), the device when it takes it (`Received`); order
is kept on a connection, and a drop loses what is in flight. The device's clock agrees
with the server's. An optimistic entry may have the time of a row; Dart's `List.sort` is
stable for short lists only, so `Chronological` is the set of all sorted rearrangements and
a broadcast may show any of them. A broadcast replaces the first entry of its
`clientTempId` (`First`, the code's `indexWhere`), whether or not there are others.

Left out: `dispose` (the provider is a family without autoDispose, so nothing calls it),
`SocketService.disconnect` (the sign-out's) and `reconnect` (nothing calls it),
`markRoomAsRead` (the room list's), a missing user id.

### Otp

A request is a task, cut at the awaits of `auth.service.ts:51-117` and `226-284`; one that
is refused without a write has no action. Two Redis commands under one `Promise.all` are
one step: they leave on one connection, back to back. `Set` follows `redis.service.ts:31`:
a time of 0 is falsy and stores the key without an expiry, and SETEX refuses a negative
one, so a failed guess in the last moment of a code makes it permanent, and one after it
fails. Times are units; `Tick` may come between any two steps. `Fail` ends a request at
any await with what it has done.

`answered`, `welcomed` and `stranded` are kept for the properties: how many guesses were
answered right or wrong since the phone's latest code was stored, how often `isNewUser` was
answered, and which phones' requests failed between INCR and EXPIRE. Left out: the controller's `@Throttle`, which only makes fewer
requests; the code's delivery, which `sendOtp` does not do yet; the session that
`verifyOtp` creates at its end, which is `Login` in `Sessions`.

### Sessions

One account, whose deviceIds and token pairs are numbered in the order they are made up
and signed. `row` is `user_sessions`, `app` an installation: the token and the deviceId in
its storage and whether the router's flag is set (`main`), the code screen is open
(`code`) or another one of the login (`start`). A request is a task that passes from the
app to the server and back:

| Actions | Code |
|---|---|
| `Submit`, `Login`, `CreateSession`, `SaveLogin`, `Back` | `phone_screen.dart:45`, `otp_screen.dart:98`, `auth.service.ts:307-336` |
| `Request`, `Guard`, `Refuse` | `api_client.dart:22`, `jwt.strategy.ts` |
| `Logout`, `FindSession`, `DeleteSession` | `auth.service.ts:167-204` |
| `ReadToken`, `Refresh`, `RotateTokens`, `SaveTokens`, `SendAgain`, `ClearTokens` | the interceptor (`api_client.dart:29-59`), `auth.service.ts:121-163`, `338-356` |
| `SignOut`, `Restart`, `Expire`, `LoseRequest`, `LoseRefresh` | `settings_screen.dart:12`, the system |

Three things in the code shape the model. The phone screen makes up a new deviceId at each
submit, which stays in the storage when the tokens are cleared; a renewal sends whatever
deviceId is there. The router's flag is set by the code screen and at the start of the app
only: after a sign-out or a failed renewal the app stays on its main screens, without
tokens, until it is restarted. And `bcryptjs` hashes the first 72 bytes, which for a
refresh token are the header and the beginning of the user's id: the comparison at
`auth.service.ts:154` tells no two tokens of an account apart (`Hash`). Rotation therefore
does not retire the old token; the row's existence and the times do the checking. The
property `NoNeedlessSignOut` depends on this: with a hash of the whole token (`HashWhole`, the property's
mutant) two overlapping renewals sign the app out.

A logout or a revocation may answer with a failure although the row is gone, when the
deletion of the Redis key beside it fails (`Ended`); for a request that was sent again, the
interceptor then clears the tokens. Two simplifications are about time. A pair is one number
and `SaveTokens` one step: `Future.wait` issues the two writes of the storage with no await
between them, and the storage takes them in that order, so nothing else of the app is stored
between the two. And a request that is sent again with a session to its name is not refused
(`Refuse`): its access token was signed a moment ago and lives for fifteen minutes, while
the guard looks at nothing but the row and that time. Without the row it is refused again
as in the code.

Left out: the Redis keys `rt:` and `session:`, which are written or deleted and never
read; the profile screen; the answer to the user of a request that fails. The app calls
neither `POST /auth/logout` nor `DELETE /auth/sessions`; they are requests here all the
same, as the server offers them.

### Rooms

`friend` is the table `friends`, one row for each ordered pair, `rooms` the direct rooms
with their two participants. A sync finds users (`MatchContacts`) and upserts them in a
transaction (`Befriend`); `createDirectRoom` checks the friendship (`CheckFriend`), looks
for a room (`FindRoom`) and makes one (`CreateRoom`). Nothing in the server unfriends,
unblocks, leaves or deletes a room or changes a user's status, so there are no such
actions. Left out: the users' names and the lists' order; who has whom in the phone book
is a constant.

## 3. Properties and runs

Runs that pass:

| Run | Shows | Bounds |
|---|---|---|
| `gateway_send` | `OneRowPerSend`, `ToldIsStored`, `SendIsAnswered`, and that the gateway implements the ledger (`ImplementsLedger`) | two devices of one user, one `clientMessageId` (the key all conflict on), two handlers at a time, two INSERTs (the first may be rolled back), two queued events; restarts and failures without bound |
| `gateway_read` | `RoomIsPrivate`, `ReceiptsAreGenuine`, `ReadIsReceipted` | a writer, a participant who writes and reads with overlapping handlers, an account outside the room that tries both; up to two INSERTs; a `chat.read` may name any message or none |
| `chat` | `ShownOnce`, `StoredNeverFails`, `SentIsStored`, `DeliveredWasShown`, and that devices and server together implement `Conversation` (`KeepsConversation`) | the reader creates its socket, connects, enters and loads while one message is emitted up to twice; two faults, the sender may reconnect, one handler at a time |
| `chat_live` | `SendingResolves`, `BroadcastIsShown` under fairness | one message, two emissions, one fault |
| `otp` | `LimitsAreExceededByOverlapOnly`, `PhoneCounterExpires`, `AnswersPerCode`, `UntriedCodeExpires`, `WelcomedOnce` | two requests at a time, two phones behind one address of which one tries codes, two codes, keys that live for one unit, two attempts, a limit of one request |
| `sessions` | `TokensKeepTheirDevice`, `NoNeedlessSignOut`, `OnlyLoginOpensSession`, `OnlyNamedSessionEnds`, and `RequestEnds` under fairness | one installation that logs in under two deviceIds, two requests at a time, logins and requests until three pairs are signed (renewals go on signing), one expiry; restarts, sign-outs and failures without bound |
| `rooms` | `LateRequestFindsRoom`, `RoomsWithinOverlap`, `RoomsRestOnFriendship`, `BlockStands` | two users who know each other, a third one, two requests at a time; rooms without bound |

Why these bounds are enough: the conflicts of the send path are about one key, so one
`clientMessageId` makes all of them happen; a third handler could only repeat what the
second does to the first. Two messages, one of them the reader's own, are what it takes for
a target to be older than the newest and for a scan to have something to leave out. In the list, one message already meets its own page, broadcasts,
acknowledgements and timers; faults are few because each drop leaves the system in a state
from which the same runs start again. In `chat` one handler runs at a time: two about one key
are what `gateway_send` is about, and the theorems about the chat hold for any number. `MaxQueue`, `MaxRows`, `MaxTries`, `MaxFaults` are
bounds of the instances and not of the code. The chat runs may stop (messages and
connections run out), hence `CHECK_DEADLOCK FALSE`; the gateway runs check deadlock.

In `otp`, two requests are what every hazard of the code takes, and one unit of time is
enough for a key to expire between any two of their steps; a smaller limit and fewer
attempts only make the limits come sooner. In `sessions`, three pairs are a login and a
renewal by each of two requests, or a second login; the two deviceIds are one
installation's, which meets all that two installations could do to each other's rows,
since requests name the rows by the token or the id. The phone "logs out" and "revokes";
a request that leaves the sessions alone is a logout whose answer is lost at the first
await. `MaxDevices`, `MaxTokens` and `MaxExpired` bound the instance, not the code, and
the run may stop when they are reached. In `rooms`, the number of rooms is bounded because
a late request makes none, which is what the run shows. The runs of `Otp` and `Rooms` with
more than one slot use the symmetry of the slots, as they have no liveness property.

What the properties of these runs mean, where the code keeps less than one may think:

- The limit of three requests within ten minutes (`shared/src/constants/index.ts:11`) can be
  passed, as the counter is read before the code is made and raised after it
  (`auth.service.ts:231`), but by no more than the requests in flight: with one request at a
  time `LimitsAreExceededByOverlapOnly` is the limit itself, and with two a phone's counter
  reaches one more.
- Guesses that overlap are not counted one by one, and a failed guess can put back a used
  code or an older count. `AnswersPerCode` says how far this goes, with no exception for
  overlaps and failures: between two stored codes no more guesses are answered, right or
  wrong, than there are ladders, the non-increasing functions from `1..MaxAttempts` to the
  number of slots. With one request at a time this is the five attempts, a success among
  them; with two at a time it is at most twenty answers (all ladders but one), with any
  number finitely many.
- A code without a failed guess expires (`UntriedCodeExpires`). A failed guess whose `ttl`
  rounds to 0 stores it with no expiry (`auth.service.ts:101`, `redis.service.ts:32`),
  although a code is to live for three minutes (`shared/src/constants/index.ts:8`); it then
  stays until it is used or its attempts are spent, as `AnswersPerCode` holds of it too.
- A phone's counter always expires, unless a request failed between INCR and EXPIRE
  (`PhoneCounterExpires`), which the property excuses: the counter that is left then is
  what the code makes of it. The address's counter is left without an expiry even by one
  request at a time and with no failure, as its expiry is set only with a phone's first count
  (`auth.service.ts:258`, against the comment above it): a phone that asks again from another
  address makes a counter that stays for ever, and an address whose counter has reached the
  limit is refused for good.
- An app drops its tokens for one of the reasons in `NoNeedlessSignOut` only. Among them
  is any failure of a renewal or of the request sent again, a lost answer included: the
  interceptor's `catch` does not tell a dead network from a dead session.
- The tokens and the deviceId in an app's storage belong together (`TokensKeepTheirDevice`)
  unless the device is `disturbed`, as it is when a code was asked for during a login or
  with tokens kept: the phone screen then replaces the deviceId under them.
- A pair may have two rooms (run `rooms_unique`), but only from requests that were both
  under way before there was one (`LateRequestFindsRoom`), and never more than the slots
  (`RoomsWithinOverlap`).
- A block does not stop a request that has passed the check of the friendship.
  `RoomsRestOnFriendship` says that it stops every other one: while the row is not
  `accepted`, the requests past the check and the rooms they made do not grow in number,
  so none is added and each that was there makes one room at most.

Fairness. `MessageGateway!FairSpec`: a handler whose query can be answered goes on (node
and the database). `ChatSystem!FairSpec`: the same, and an event on a connection that
stays up arrives, a continuation runs, a timer that has been started fires. Users,
connections, drops and failures are not fair; nothing relies on a retry or a reconnection.
`Sessions!FairSpec`: a request that has begun goes on, on the server and in the app.

### Where the code does something else than it says

| Run | Property | What happens |
|---|---|---|
| `gateway_read_atomic` | `ReadIsAtomic` | `README.md:204` puts read handling in a `$transaction`; `markRead` has none, so `lastReadAt` is visible, and stays after a failure, without its receipts. |
| `chat_read_named` | `ReadStopsAtNamed` | `README.md:767`: a read is up to the message named. The sender's device goes by `readAt` (`chat_room_provider.dart:209`), so newer messages turn to read. |
| `chat_stale_page` | `ReceivedStays` | `docs/chat.md:47`: a message received is added. A page asked for earlier then replaces the list without it (`chat_room_provider.dart:69`). |
| `chat_rejoin` | `ConnectedIsJoined` | `socket_service.dart:60`: callbacks on connection resubscribe to the room. The notifier's callback is gone after its first use, so a reconnection does not join (`README.md:606` lists it as open). |
| `rooms_unique` | `PairHasOneRoom` | `rooms.service.ts:106` and `README.md:562` call the participants unique. Two requests that both find no room make two (`rooms.service.ts:132`); no index stops the second. |

Also seen while modelling, not kept as runs: the page comes newest first and is shown as
it comes, so after a load the newest message stands on top, and `_emitMarkRead` names the
oldest one as the last read, until a broadcast sorts the list; a message still `sending`
or `failed` is turned to `read` by a `chat.read` (`chat_room_provider.dart:207`) and then
has no retry button, against `README.md:762-763`; a late broadcast of one's own message
puts a `delivered` or `read` entry back to `sent` (line 133); `message:send` does not ask
for a `room:join`, which `docs/chat.md:37` requires.

## 4. Proofs

`tlapm` checks eight proof modules without a gap. Each assumes the one assumption of the
module it is about, and nothing else:

| Assumption | Says |
|---|---|
| `GatewayAssumption` | Participants are users, every connection has an owner, `None` is no connection and no id. |
| `SystemAssumption` | Participants are users; every device has a user, every connection a device and every uuid the device that draws it; `None` is no connection and no id; at most one connection of a device has the room open at the start, and it is a participant's; a message may be emitted at least once. `GatewayAssumption` follows from it (`GatewayUsable`). |
| `OtpAssumption` | The times and limits are positive, the slots for requests finite, the phones whose codes are tried are phones, `None` is no phone, address or code. |
| `SessionsAssumption` | What each app asks for is one of the operations; the bounds of the instance are numbers. |
| `RoomsAssumption` | Phone books hold users, the slots for requests are finite, `None` is no user. |

So the theorems hold for any number of users, devices, connections, apps, requests in progress,
messages, phones, tokens, failures and restarts, any limits and times, and whatever events
clients send.

| Theorem | Module | Says |
|---|---|---|
| `TypeCorrect` | `MessageGatewayProofs` | `Spec => []TypeOK` |
| `Idempotent` | `MessageGatewayProofs` | `Spec => []OneRowPerSend` |
| `ToldStays` | `MessageGatewaySafety` | `Spec => []ToldIsStored` |
| `Privacy` | `MessageGatewaySafety` | `Spec => []RoomIsPrivate` |
| `GenuineReceipts` | `MessageGatewaySafety` | `Spec => []ReceiptsAreGenuine` |
| `ReceiptBeforeNews` | `MessageGatewaySafety` | `Spec => []ReadIsReceipted` |
| `Refinement` | `MessageGatewayRefinement` | `Spec => ImplementsLedger` |
| `TypeCorrect` | `ChatSystemProofs` | `Spec => []TypeOK` |
| `NoMessageTwice` | `ChatSystemProofs` | `Spec => []ShownOnce` |
| `NoFailureOnceStored` | `ChatSystemProofs` | `Spec => []StoredNeverFails` |
| `ShownAsSentIsStored` | `ChatSystemProofs` | `Spec => []SentIsStored` |
| `DeliveredHasBeenShown` | `ChatSystemProofs` | `Spec => []DeliveredWasShown` |
| `ServerKeepsItsPromises` | `ChatSystemProofs` | the gateway's invariants hold in the chat |
| `ChatImplementsLedger` | `ChatSystemProofs` | `Spec => Gateway!ImplementsLedger` |
| `ChatKeepsConversation` | `ChatSystemProofs` | `Spec => KeepsConversation` |
| `TypeCorrect` | `OtpProofs` | `Spec => []TypeOK` |
| `PhonesAreReleased` | `OtpProofs` | `Spec => []PhoneCounterExpires` |
| `FreshCodesExpire` | `OtpProofs` | `Spec => []UntriedCodeExpires` |
| `NewUsersAreWelcomedOnce` | `OtpProofs` | `Spec => []WelcomedOnce` |
| `LimitsHoldWithinOverlap` | `OtpProofs` | `Spec => []LimitsAreExceededByOverlapOnly` |
| `AnswersAreBounded` | `OtpProofs` | `Spec => []AnswersPerCode` |
| `TypeCorrect` | `SessionsProofs` | `Spec => []TypeOK` |
| `DevicesKeepTheirTokens` | `SessionsProofs` | `Spec => []TokensKeepTheirDevice` |
| `LoginsOpenSessions` | `SessionsProofs` | `Spec => OnlyLoginOpensSession` |
| `NamedSessionsEnd` | `SessionsProofs` | `Spec => OnlyNamedSessionEnds` |
| `NobodyIsSignedOutInVain` | `SessionsProofs` | `Spec => []NoNeedlessSignOut` |
| `TypeCorrect` | `RoomsProofs` | `Spec => []TypeOK` |
| `FriendsOnly` | `RoomsProofs` | `Spec => RoomsRestOnFriendship` |
| `BlocksStand` | `RoomsProofs` | `Spec => BlockStands` |
| `LateMakesNone` | `RoomsProofs` | `Spec => []LateRequestFindsRoom` |
| `NoMoreRoomsThanRequests` | `RoomsProofs` | `Spec => []RoomsWithinOverlap` |

### The gateway

The argument in three steps:

1. `SendInv` = `TypeOK` with `TaskOK`, `OwnTransaction` and `OneRowPerSend`. Uniqueness
   alone is not inductive: when a transaction commits, one must know that the row is still
   open and is the handler's own. `TaskOK` says so for every handler at its `commit`
   await, and `OwnTransaction` that no two handlers hold the same row, so that one
   handler's commit or rollback leaves another's row alone. At `respond` the row is
   committed and is the one asked for, which also gives the events their types.
2. Committed rows and receipts only grow (`CommittedStays`, `ReceiptsStay`), and an event
   in a queue was there before, is an error, or was written by one of three steps (`News`). What is true
   of an event when it is written therefore stays true. `ReadInv` adds what a `chat.read`
   knows at each await: past the check its user is a participant, the named message is
   stored and not later than `readUntil`, so the scan finds it unless the reader is its
   sender or has its receipt (`ReadOK`). Without this, `ReadIsReceipted` would say nothing
   about the handler that is about to announce. The same module has the privacy of the
   room: senders of rows, and users of handlers past their check, are participants.
3. The ledger's entries are the committed rows. A commit, whether or not its answer
   reaches the handler, is `Enter` (no other entry under the key, by `OneRowPerSend`); the
   answer of a send is `Tell` (its entry is in the table, by `TaskOK`, and its receivers
   are participants, by `RoomIsPrivate`); every other step only loses news.

The lemmas are not about the gateway's own `Next` but about `Step`: a step of a handler or
of a connection, any event of a client (`AnyArrival`), or time passing for another reason
(`Tick`). `NextIsStep` says that the gateway's steps are such steps; so are those that the
devices of the chat make it do.

### The chat end to end

`ChatSystem` takes the gateway by INSTANCE, and `ChatRoomProofs` takes it once more with its
proofs (`Gateway`). Definition by definition the two are the same (`SameState`,
`SameArrivals`, `SameConnections`, `SameHandlers`), so every step of the chat is a `Step`
of the gateway or leaves it alone (`SystemStepServer`), and `Gateway!LedgerInv`, the
gateway's whole invariant, holds in the chat without being proved again.

None of the five properties of the chat is inductive. Whether a broadcast makes the list
show a message twice depends on what the event carries, which depends on the handler that
wrote it, which depends on what the device sent. `ChatInv` adds to `LedgerInv` what is
known of everything between two lists of messages:

- `ViewsOK`: an entry without a row is one that its own device has emitted (`Emitted`: its
  `sendMessage` was called and has gone on); an entry with a row shows that committed row,
  with its sender and its `clientMessageId`, and has no timer; a delivered one has been
  shown by somebody else's device; and no list has two entries of the same sender and
  `clientMessageId`.
- `ContOK`: a `sendMessage` that waits for the user id is the only one of its message and
  has emitted nothing, so the optimistic entry it will add is new to every list and table;
  a `message:new` that waits names a stored message, with its sender and its key.
- `SaidsOK`, `HandlersOK`, `RowsOK`: what a device has sent, what a handler is about and
  what is in the table was emitted by the device that drew its uuid, and a
  `message:delivered` is about a message its device has shown.
- `QueuesOK`, `PagesOK`: an event on its way, and a page that was answered and not shown
  yet, say of a message what its row says.

What makes it inductive is that four things are never taken back (`Kept`): committed rows,
what has been emitted, what a device has ever shown, and that a message has been tapped.
What an event says when it is sent is therefore still true when it is received, whatever
came between. The steps then fall into three: those of the server (`ServerHandlers`,
`ServerArrive`), which leave the lists alone; those of a device that leave its list alone;
and those that change it, each of which relabels entries (`RelabelledView`,
`RestatedView`), replaces the optimistic entry (`ReplacedView`), adds a message that is not
there (`NewsView`), or shows a page (`PageView`). The two cases that a test would hardly
reach are the broadcast that finds neither its optimistic entry nor its row (then, by the
gateway's `OneRowPerSend`, no entry has its key: `NewsEntry`), and the retry (the entry is the only one
of its message and has no row, so the timer it starts is for no stored message:
`FailedEntry`). TLC checks `ChatInv` as an invariant of the instances of `chat` and
`chat_stale_page`.

`Conversation` is the chat as its users see it: the messages that were tapped (`tries` is
not 0), the committed rows, what each device has ever shown, and the own messages it shows
as delivered. `ChatKeepsConversation` says that every step of the chat is one of its steps
or none. A step of the server leaves the lists alone and is a step of the ledger, so it
stores at most one message; `RowsOK` says that this was tapped, by the user it is stored for,
and hence that the ledger's key of sender and `clientMessageId` is the latter alone
(`TalkServer`). A tap is `Send`. Every other step of a device changes its own list at most
(`DeviceLooks`), and whatever the list is then, `ViewsOK` holds of it: its rows are
committed and its delivery marks are backed (`TalkLook`).

Of the sort the proofs use only that the result is a rearrangement: whatever order entries
of one time end up in, none is lost or repeated (`SortedView`). For the page, `Ranks` says
that in a strict order of a finite set each number below the size counts the elements below
exactly one, so the page lists every committed row once (`PageLists`).

### The one-time codes

Four invariants, each on top of the types (`TypeInv`):

- `ExpiryInv`: the counter of an absent key is 0 (`CountersOK`), so the INCR that makes the
  key answers 1, and that request is at its `expire` await until it sets the time or fails.
- `UsersInv`: a phone that is in no row of `users` was never answered `isNewUser`. The
  unique index on the phone number does the rest.
- `LimitInv` counts: a counter's value and the requests that have passed its check and have
  not counted yet (`PhonePending`, `IpPending`) are together within the limit and the number
  of slots. A request joins the pending ones only below the limit; it leaves them as it
  counts.
- `AnswersInv` is a potential. A slot is on rung n of a phone's ladder if it may still have
  a guess answered with n attempts left or more, by the code that is stored or by the one it
  has read (`Answerable`). An answer takes its slot off the rung of the attempts it had
  read, and what it writes back raises no rung above; nothing but a new code, with which
  `answered` starts anew, puts a slot on a rung otherwise. So each answer makes the ladder
  lower, the highest rung that changes deciding (`Below`), and there are finitely many
  ladders below the first (`LaddersFinite`): the answers so far and the ladders still below
  are together fewer than all (`Accounted`).

### The sessions

1. `TypeInv` says of each request, at each await, what it holds (`GoodTask`): a pair that
   was signed was signed for the device of the request, and a request with tokens to renew
   has a device. With `RowMoves`, which says how a row may change in one step, the two action
   properties follow. `TokensKeepTheirDevice` needs `QuietInv` as well, for what is in the
   storage.
2. `QuietInv`, for `NobodyIsSignedOutInVain`: a device is disturbed or has what a renewal
   needs. An app's device has a row if its app holds a token, and the token is the
   device's (`QuietApp`); an app on its main screen has a token at all. A request at
   `check`, `rotate` or `save` has a row to find, and is about the device that its app has
   now, because the app cannot change its device while it shows its main screen
   (`QuietTask`). Tokens that have expired belong to disturbed devices. A renewal then
   passes its check whatever the other requests have rotated meanwhile, since the hash
   comparison does not fail; this is the step that is lost with `HashWhole`. An app that
   begins a login while it has tokens, or while another login is under way, gets a
   disturbed device: this is the one case the code does not keep apart.

### The rooms

`SafeInv` gives the types and what a request knows at each await. `FriendsOnly` counts the
requests past the check and the rooms such requests have made: the check adds to the first
for a friend only, and the INSERT takes one from the first and adds one to the second.
`RoomsInv` counts: the rooms of a pair, and the requests that began before
it had one and may still make one (`Making`), are together no more than the slots. A
request that begins when the pair has a room has it to find (`LateOK`), because no room is
ever deleted.

### Only model-checked

The liveness properties (`SendIsAnswered`, `SendingResolves`, `BroadcastIsShown`,
`RequestEnds`), which the prover does not treat. Every other property of a passing run is
the statement of a theorem.

## 5. Plan

1. `ChatSystem`, continued: a sign-out while the room is open. `SocketService.disconnect`
   (`socket_service.dart:71`) drops the callbacks and the socket, the user id disappears
   under the continuations that wait for it, and nothing connects again until the app is
   started anew, since the router returns to the mounted main screen.
2. A property for `chat.read` on entries that are still sending or failed.

## 6. Not modelled

The room list (`rooms_provider.dart`, `getRooms`): a count per room which a fetch, each
broadcast and `markRoomAsRead` overwrite in turn. A model of it needs the messages, the
page of the open room and the connection at once, a product with `ChatSystem` that is
beyond TLC. Reading it showed: a fetch that was started before a broadcast overwrites the
count; a `message:new` raises the count also while its room is open, against the comment
in `rooms_provider.dart`; the server counts a room's unread as 1 when its last message is
one's own (`rooms.service.ts:60-68`).

The client's half of the contact sync (`contacts_repository.dart`, `friends_provider.dart`):
batches and progress events that show numbers; the list is loaded anew when it is done.

Phone normalisation: rewriting of strings. The app uses one normaliser for the login and
for the contacts; the one in `shared/src/utils/phone.ts` is called by nothing on the server.

Not planned: attachments (presigned uploads to object storage, one request each), user
profiles (single-row reads and updates), HTTP plumbing (filters, guards other than the
session's, validation, configuration), the screens' layout and the database's own
internals, of which the models use the unique indexes, READ COMMITTED and the rollback of
open transactions.
