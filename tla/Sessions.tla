------------------------------ MODULE Sessions ------------------------------
(***************************************************************************)
(* The sessions of one account: createSession, refresh, logout and         *)
(* revokeSession of server/src/auth/auth.service.ts, the guard in front of *)
(* every other request (jwt.strategy.ts), and the apps' side of it: the    *)
(* phone and code screens, which log in under a new deviceId each time,    *)
(* the router's flag, and the interceptor of                               *)
(* lib/core/network/api_client.dart, which renews the tokens after a 401   *)
(* and sends the request again.  A request is a task that passes from the  *)
(* app to the server and back, cut at the awaits of both.                  *)
(*                                                                         *)
(* Devices and tokens are numbered as they are made up and signed; a       *)
(* token's number stands for the pair of an access and a refresh token.    *)
(* The Redis keys rt: and session: are left out: nothing reads them.       *)
(***************************************************************************)
EXTENDS Naturals, Sequences

CONSTANTS
    Apps,       \* installations
    Requests,   \* slots for requests in progress
    None,
    Operations, \* what each app asks for: "logout", "revoke", and "get" for all
                \* requests that leave the sessions alone
    MaxDevices, MaxTokens, MaxExpired
                \* bounds on Next: it makes up no further deviceId, starts neither
                \* a login nor a request once so many tokens have been signed, and
                \* lets no further token expire

ASSUME SessionsAssumption ==
    /\ None \notin Apps
    /\ Operations \in [Apps -> SUBSET {"get", "logout", "revoke"}]
    /\ MaxDevices \in Nat
    /\ MaxTokens \in Nat
    /\ MaxExpired \in Nat

VARIABLES
    row,      \* user_sessions: the row of each deviceId
    tokens,   \* the deviceId each token was signed for
    expired,  \* the tokens 1..expired are older than 30 days
    app,      \* each app's AuthStorage and its router's flag
    task,     \* the request running in each slot
    \* Kept for the properties:
    disturbed \* the devices whose session or token has ended or expired, that had a
              \* renewal or a request sent again fail, or were made up during a login

vars == <<row, tokens, expired, app, task, disturbed>>

-----------------------------------------------------------------------------
\* A row: its id, for which its first token's number stands, and the token
\* whose hash and expiry it has.
Row == [id : Nat, token : Nat]
NoRow == [id |-> 0, token |-> 0]

\* 0 stands for no token and no deviceId.  main: the router's flag is set, code:
\* the code screen is open for the device, start: another screen of the login.
App == [token : Nat, device : Nat, screen : {"start", "code", "main"}]

ServerPcs == {"upsert", "guard", "logout", "find", "delete", "check", "rotate"}
AppPcs == {"signedIn", "read", "save", "send", "clear"}

\* op: what is asked for, id: the session to revoke, token: the token sent, or
\* the pair signed, device: the deviceId sent, again: how often the request was
\* sent again, each time from within the handling of the answer before.
\* The app is None once it has been restarted.
Task == [pc : {"idle"} \cup ServerPcs \cup AppPcs, app : Apps \cup {None},
         op : {"get", "logout", "revoke"}, id : Nat, token : Nat, device : Nat,
         again : Nat]

Idle == [pc |-> "idle", app |-> None, op |-> "get", id |-> 0, token |-> 0,
         device |-> 0, again |-> 0]

At(r, pc) == task[r].pc = pc

Begin(r, t) == At(r, "idle") /\ task' = [task EXCEPT ![r] = t]

Go(r, pc) == task' = [task EXCEPT ![r].pc = pc]

End(r) == task' = [task EXCEPT ![r] = Idle]

\* The app goes on with the answer, unless it has been restarted.
Answer(r, pc) == IF task[r].app = None THEN End(r) ELSE Go(r, pc)

HasRow(d) == row[d] # NoRow

Valid(t) == t > expired

\* A bug: the pair that is handed out is not the one that was signed.
SkippedToken == Len(tokens) + 2

\* The pair that generateTokenPair signs next.
NewToken == Len(tokens) + 1

\* A bug: a pair signed meanwhile for another request is taken for one's own.
LastSigned(r) == Len(tokens)

\* The pair signed for a request.
Signed(r) == task[r].token

Init ==
    /\ row = <<>>
    /\ tokens = <<>>
    /\ expired = 0
    /\ app = [a \in Apps |-> [token |-> 0, device |-> 0, screen |-> "start"]]
    /\ task = [r \in Requests |-> Idle]
    /\ disturbed = {}

-----------------------------------------------------------------------------
(* Logging in.  The router shows these screens while its flag is not set. *)

LoggingIn(a) == \E r \in Requests : task[r].app = a /\ task[r].pc \in {"upsert", "signedIn"}

\* The phone screen makes up a deviceId and keeps it in the storage.
Submit(a) ==
    LET d == Len(row) + 1 IN
    /\ app[a].screen = "start"
    /\ row' = Append(row, NoRow)
    /\ app' = [app EXCEPT ![a].device = d, ![a].screen = "code"]
    /\ disturbed' = IF app[a].token # 0 \/ LoggingIn(a) THEN disturbed \cup {d} ELSE disturbed
    /\ UNCHANGED <<tokens, expired, task>>

\* The code screen sends a code; verifyOtp has found the user and
\* generateTokenPair signs a pair.
Login(r, a) ==
    LET d == app[a].device IN
    /\ app[a].screen = "code"
    /\ tokens' = Append(tokens, d)
    /\ Begin(r, [Idle EXCEPT !.pc = "upsert", !.app = a, !.token = NewToken, !.device = d])
    /\ UNCHANGED <<row, expired, app, disturbed>>

\* userSession.upsert keeps the id of an existing row.
CreateSession(r) ==
    LET d == task[r].device IN
    /\ At(r, "upsert")
    /\ row' = [row EXCEPT ![d] = [id |-> IF HasRow(d) THEN @.id ELSE Signed(r),
                                  token |-> Signed(r)]]
    /\ Answer(r, "signedIn")
    /\ UNCHANGED <<tokens, expired, app, disturbed>>

\* The code screen stores the pair, and has the flag set if it is still open.
SaveLogin(r) ==
    LET a == task[r].app
        open == app[a].screen = "code" /\ app[a].device = task[r].device IN
    /\ At(r, "signedIn")
    /\ app' = [app EXCEPT ![a].token = Signed(r), ![a].screen = IF open THEN "main" ELSE @]
    /\ End(r)
    /\ UNCHANGED <<row, tokens, expired, disturbed>>

\* The user leaves the code screen.
Back(a) ==
    /\ app[a].screen = "code"
    /\ app' = [app EXCEPT ![a].screen = "start"]
    /\ UNCHANGED <<row, tokens, expired, task, disturbed>>

\* The settings screen clears the storage.  It tells the server nothing, and the
\* flag stays as it is.
SignOut(a) ==
    /\ app[a].screen = "main"
    /\ app[a].token # 0
    /\ app' = [app EXCEPT ![a].token = 0]
    /\ disturbed' = disturbed \cup {app[a].device}
    /\ UNCHANGED <<row, tokens, expired, task>>

\* The app stops with what it has in progress, and starts with its storage.
Restart(a) ==
    /\ app' = [app EXCEPT ![a].screen = IF app[a].token # 0 THEN "main" ELSE "start"]
    /\ task' = [r \in Requests |->
                   CASE task[r].app # a -> task[r]
                     [] task[r].pc \in AppPcs -> Idle
                     [] task[r].pc \in ServerPcs -> [task[r] EXCEPT !.app = None]]
    /\ UNCHANGED <<row, tokens, expired, disturbed>>

-----------------------------------------------------------------------------
(* A guarded request *)

\* It carries the access token in the storage, if there is one.
Request(r, a, op, id) ==
    /\ app[a].screen = "main"
    /\ Begin(r, [Idle EXCEPT !.pc = "guard", !.app = a, !.op = op, !.id = id,
                             !.token = app[a].token])
    /\ UNCHANGED <<row, tokens, expired, app, disturbed>>

HasSession(r) == task[r].token # 0 /\ HasRow(tokens[task[r].token])

\* JwtStrategy.validate: the session is in the table.
Guard(r) ==
    /\ At(r, "guard")
    /\ HasSession(r)
    /\ task[r].again = 0 => Valid(task[r].token)
    /\ CASE task[r].op = "get" -> End(r)
         [] task[r].op = "logout" -> Go(r, "logout")
         [] task[r].op = "revoke" -> Go(r, "find")
    /\ UNCHANGED <<row, tokens, expired, app, disturbed>>

\* 401: it is not, or the access token has expired, which it has not when it
\* was renewed a moment ago.
Refuse(r) ==
    /\ At(r, "guard")
    /\ HasSession(r) => task[r].again = 0
    /\ Answer(r, "read")
    /\ UNCHANGED <<row, tokens, expired, app, disturbed>>

\* A bug: deleteMany of all the user's sessions.
LogoutEverywhere(r) ==
    /\ At(r, "logout")
    /\ row' = [d \in DOMAIN row |-> NoRow]
    /\ End(r)
    /\ disturbed' = DOMAIN row
    /\ UNCHANGED <<tokens, expired, app>>

\* A request fails: a query of it does, or the network, after it has ended the
\* sessions of the devices in ended.  The interceptor takes the failure of one
\* sent again for the end of the session, each time it sent it.
RequestFails(r, ended) ==
    IF task[r].again = 0 \/ task[r].app = None
    THEN End(r) /\ disturbed' = disturbed \cup ended
    ELSE /\ task' = [task EXCEPT ![r].pc = "clear", ![r].again = @ - 1]
         /\ disturbed' = disturbed \cup ended \cup {task[r].device}

\* The row has gone; the deletion in Redis or the answer may still fail.
Ended(r, ended) ==
    \/ End(r) /\ disturbed' = disturbed \cup ended
    \/ RequestFails(r, ended)

\* deleteMany of the device's session
Logout(r) ==
    LET d == tokens[task[r].token] IN
    /\ At(r, "logout")
    /\ row' = [row EXCEPT ![d] = NoRow]
    /\ Ended(r, {d})
    /\ UNCHANGED <<tokens, expired, app>>

Named(id) == {d \in DOMAIN row : HasRow(d) /\ row[d].id = id}

\* findFirst; a session that is not there is not an error.
FindSession(r) ==
    /\ At(r, "find")
    /\ IF Named(task[r].id) = {} THEN End(r) ELSE Go(r, "delete")
    /\ UNCHANGED <<row, tokens, expired, app, disturbed>>

\* delete by id, which fails if the row has gone meanwhile.
DeleteSession(r) ==
    LET named == Named(task[r].id) IN
    /\ At(r, "delete")
    /\ IF named = {}
       THEN RequestFails(r, {}) /\ UNCHANGED row
       ELSE /\ row' = [d \in DOMAIN row |-> IF d \in named THEN NoRow ELSE row[d]]
            /\ Ended(r, named)
    /\ UNCHANGED <<tokens, expired, app>>

-----------------------------------------------------------------------------
(* Renewing the tokens *)

\* The interceptor reads the storage and sends the refresh token and the
\* deviceId, if there is a token.
ReadToken(r) ==
    LET a == app[task[r].app] IN
    /\ At(r, "read")
    /\ task' = [task EXCEPT ![r].token = a.token, ![r].device = a.device,
                            ![r].pc = IF a.token = 0 THEN "clear" ELSE "check"]
    /\ UNCHANGED <<row, tokens, expired, app, disturbed>>

\* A bug, or rather the intention: the hash depends on the whole token.
HashWhole(t) == t

\* bcrypt takes the first 72 bytes of what it is given.  Those of a refresh
\* token are the header and the start of the user's id, the same in all tokens
\* of the account.
Hash(t) == 0

Accepted(t, d) ==
    /\ Valid(t)
    /\ tokens[t] = d
    /\ HasRow(d)
    /\ Valid(row[d].token)
    /\ Hash(t) = Hash(row[d].token)

\* refresh up to its compare; then rotateTokens signs a new pair.
Refresh(r) ==
    LET d == task[r].device IN
    /\ At(r, "check")
    /\ IF Accepted(task[r].token, d)
       THEN /\ tokens' = Append(tokens, d)
            /\ task' = [task EXCEPT ![r].pc = "rotate", ![r].token = NewToken]
       ELSE /\ Answer(r, "clear")
            /\ UNCHANGED tokens
    /\ UNCHANGED <<row, expired, app, disturbed>>

\* A bug: upsert for update.
RotateUpsert(r) ==
    LET d == task[r].device IN
    /\ At(r, "rotate")
    /\ row' = [row EXCEPT ![d] = [id |-> IF HasRow(d) THEN @.id ELSE Signed(r),
                                  token |-> Signed(r)]]
    /\ Answer(r, "save")
    /\ UNCHANGED <<tokens, expired, app, disturbed>>

\* userSession.update fails if the row has gone.
RotateTokens(r) ==
    LET d == task[r].device IN
    /\ At(r, "rotate")
    /\ IF HasRow(d)
       THEN row' = [row EXCEPT ![d].token = Signed(r)] /\ Answer(r, "save")
       ELSE Answer(r, "clear") /\ UNCHANGED row
    /\ UNCHANGED <<tokens, expired, app, disturbed>>

\* The interceptor stores the new pair ...
SaveTokens(r) ==
    /\ At(r, "save")
    /\ app' = [app EXCEPT ![task[r].app].token = Signed(r)]
    /\ Go(r, "send")
    /\ UNCHANGED <<row, tokens, expired, disturbed>>

\* ... and sends the request again, through itself: with the token that is in
\* the storage by now, or with the new one.
SendAgain(r) ==
    LET t == app[task[r].app].token IN
    /\ At(r, "send")
    /\ task' = [task EXCEPT ![r].pc = "guard", ![r].again = @ + 1,
                            ![r].token = IF t # 0 THEN t ELSE @]
    /\ UNCHANGED <<row, tokens, expired, app, disturbed>>

\* A bug: the request is sent again although the renewal has failed.
ClearAndRetry(r) ==
    /\ At(r, "clear")
    /\ app' = [app EXCEPT ![task[r].app].token = 0]
    /\ task' = [task EXCEPT ![r].pc = "guard", ![r].token = 0]
    /\ UNCHANGED <<row, tokens, expired, disturbed>>

\* AuthStorage.clear, whatever the storage holds by now; once for each time the
\* request was sent, from the last to the first.  The flag stays as it is.
ClearTokens(r) ==
    /\ At(r, "clear")
    /\ app' = [app EXCEPT ![task[r].app].token = 0]
    /\ IF task[r].again > 0 THEN task' = [task EXCEPT ![r].again = @ - 1] ELSE End(r)
    /\ UNCHANGED <<row, tokens, expired, disturbed>>

-----------------------------------------------------------------------------
(* Failures: the network loses a request or an answer, or a query fails. *)

LoseRequest(r) ==
    /\ task[r].pc \in {"upsert", "signedIn", "guard", "logout", "find", "delete"}
    /\ RequestFails(r, {})
    /\ UNCHANGED <<row, tokens, expired, app>>

\* The interceptor takes this for the end of the session, too.
LoseRefresh(r) ==
    /\ task[r].pc \in {"check", "rotate", "save"}
    /\ Answer(r, "clear")
    /\ disturbed' = IF task[r].app = None THEN disturbed ELSE disturbed \cup {task[r].device}
    /\ UNCHANGED <<row, tokens, expired, app>>

Fail(r) == LoseRequest(r) \/ LoseRefresh(r)

\* 30 days have passed since some more tokens were signed.
Expire ==
    /\ expired < Len(tokens)
    /\ expired' = expired + 1
    /\ disturbed' = disturbed \cup {tokens[expired + 1]}
    /\ UNCHANGED <<row, tokens, app, task>>

Step(r) ==
    \/ CreateSession(r) \/ SaveLogin(r)
    \/ Guard(r) \/ Refuse(r) \/ Logout(r) \/ FindSession(r) \/ DeleteSession(r)
    \/ ReadToken(r) \/ Refresh(r) \/ RotateTokens(r)
    \/ SaveTokens(r) \/ SendAgain(r) \/ ClearTokens(r)

\* The sessions that GET /auth/sessions lists.
Listed == {row[d].id : d \in {e \in DOMAIN row : HasRow(e)}}

Next ==
    \/ \E r \in Requests, a \in Apps :
         /\ Len(tokens) < MaxTokens
         /\ \/ Login(r, a)
            \/ \E op \in Operations[a] \ {"revoke"} : Request(r, a, op, 0)
            \/ "revoke" \in Operations[a] /\ \E id \in Listed : Request(r, a, "revoke", id)
    \/ \E a \in Apps : Len(row) < MaxDevices /\ Submit(a)
    \/ \E a \in Apps : Back(a) \/ SignOut(a) \/ Restart(a)
    \/ \E r \in Requests : Step(r) \/ Fail(r)
    \/ expired < MaxExpired /\ Expire

Spec == Init /\ [][Next]_vars

\* The server and the app go on with a request that has begun.
FairSpec == Spec /\ \A r \in Requests : WF_vars(Step(r))

-----------------------------------------------------------------------------
(* Properties *)

TypeOK ==
    /\ row \in Seq(Row)
    /\ tokens \in Seq(DOMAIN row)
    /\ expired \in 0..Len(tokens)
    /\ app \in [Apps -> App]
    /\ \A a \in Apps : app[a].token <= Len(tokens) /\ app[a].device <= Len(row)
    /\ task \in [Requests -> Task]
    /\ \A r \in Requests : task[r].token <= Len(tokens) /\ task[r].device <= Len(row)
    /\ disturbed \in SUBSET DOMAIN row

\* The tokens that a row, a pair on its way to an app or the app's storage holds
\* were signed for the device that the row, the request or the storage names, so
\* that no renewal mixes up two devices.  In the storage it may be otherwise once a
\* code was asked for during a login, or after what ends a session anyway.
TokensKeepTheirDevice ==
    /\ \A d \in DOMAIN row :
           HasRow(d) => tokens[row[d].token] = d /\ tokens[row[d].id] = d
    /\ \A r \in Requests :
           task[r].pc \in {"upsert", "signedIn", "rotate", "save"} =>
               tokens[task[r].token] = task[r].device
    /\ \A a \in Apps :
           app[a].token # 0 /\ app[a].device \notin disturbed =>
               tokens[app[a].token] = app[a].device

\* A session that was logged out or revoked comes back by a login only: a
\* renewal that had passed its checks before does not bring it back.
OnlyLoginOpensSession ==
    [][\A d \in DOMAIN row :
          ~HasRow(d) /\ HasRow(d)' =>
              \E r \in Requests : At(r, "upsert") /\ task[r].device = d]_vars

\* A session ends by a logout with a token of its device or by a revocation
\* that names it, never by one that names an earlier session of the device.
OnlyNamedSessionEnds ==
    [][\A d \in DOMAIN row :
          HasRow(d) /\ ~HasRow(d)' =>
              \E r \in Requests :
                  \/ At(r, "logout") /\ tokens[task[r].token] = d
                  \/ At(r, "delete") /\ task[r].id = row[d].id]_vars

\* Renewals, logins and restarts never sign an app out between them: however
\* they overlap, and whichever pair the row and the storage end up with, an app
\* drops its tokens only after its session or a token has ended, its user has
\* signed out, a renewal or the request sent again has failed, or a code was asked
\* for during a login.
NoNeedlessSignOut ==
    \A r \in Requests : At(r, "clear") => task[r].device \in disturbed

\* A request ends: the interceptor sends it again through itself, but does not
\* go on renewing for ever.
RequestEnds == \A r \in Requests : ~At(r, "idle") ~> At(r, "idle")

=============================================================================
