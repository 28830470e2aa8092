--------------------------- MODULE SessionsProofs ---------------------------
(***************************************************************************)
(* The safety properties of Sessions, proved for any number of apps,       *)
(* requests, devices, logins and renewals, and whatever expires when.      *)
(***************************************************************************)
EXTENDS Sessions, SequenceTheorems, TLAPS

\* A token there is of a device that was made up.
Issued(t) == t # 0 /\ t <= Len(tokens)

GoodRow(d) ==
    HasRow(d) => /\ Issued(row[d].token) /\ tokens[row[d].token] = d
                 /\ Issued(row[d].id) /\ tokens[row[d].id] = d

\* An app past its phone screen has made up a deviceId.
GoodApp(a) ==
    /\ app[a].token <= Len(tokens)
    /\ app[a].device <= Len(row)
    /\ app[a].screen # "start" \/ app[a].token # 0 => app[a].device # 0

LoginPcs == {"upsert", "signedIn"}
SignedPcs == {"upsert", "signedIn", "rotate", "save"}
RenewPcs == {"check", "rotate", "save", "send", "clear"}

\* What a request t knows at each await.
GoodTask(t) ==
    /\ t \in Task
    /\ t.token <= Len(tokens)
    /\ t.device <= Len(row)
    /\ t.pc = "idle" => t.app = None
    /\ t.pc \in AppPcs => t.app \in Apps
    /\ t.app \in Apps => app[t.app].device # 0
    /\ t.pc \in SignedPcs => t.token # 0 /\ tokens[t.token] = t.device
    /\ t.pc \in {"check", "send", "logout", "find", "delete"} => t.token # 0
    /\ t.pc \in RenewPcs \/ t.again > 0 => t.device # 0
    /\ t.pc \in LoginPcs => t.again = 0

Shape ==
    /\ row \in Seq(Row)
    /\ tokens \in Seq(DOMAIN row)
    /\ expired \in 0..Len(tokens)
    /\ app \in [Apps -> App]
    /\ task \in [Requests -> Task]
    /\ disturbed \in SUBSET DOMAIN row

TypeInv ==
    /\ Shape
    /\ \A d \in DOMAIN row : GoodRow(d)
    /\ \A a \in Apps : GoodApp(a)
    /\ \A r \in Requests : GoodTask(task[r])

\* Devices and tokens are only added, and no app loses its deviceId.
Grows ==
    /\ Len(row) <= Len(row)'
    /\ Len(tokens) <= Len(tokens)'
    /\ \A t \in DOMAIN tokens : tokens'[t] = tokens[t]
    /\ \A a \in Apps : app[a].device # 0 => app'[a].device # 0

-----------------------------------------------------------------------------
LEMMA Facts ==
    ASSUME TypeInv
    PROVE  /\ Len(row) \in Nat /\ DOMAIN row = 1..Len(row)
           /\ Len(tokens) \in Nat /\ DOMAIN tokens = 1..Len(tokens)
           /\ \A d \in 1..Len(row) : row[d] \in Row
           /\ \A t \in 1..Len(tokens) : tokens[t] \in 1..Len(row)
           /\ \A a \in Apps : app[a] \in App
           /\ \A r \in Requests : task[r] \in Task
           /\ None \notin Apps
  <1>1. row \in Seq(Row) /\ tokens \in Seq(DOMAIN row)
    BY DEF TypeInv, Shape
  <1>2. Len(row) \in Nat /\ DOMAIN row = 1..Len(row)
        /\ Len(tokens) \in Nat /\ DOMAIN tokens = 1..Len(tokens)
    BY <1>1, LenProperties
  <1>3. \A d \in 1..Len(row) : row[d] \in Row
    BY <1>1, ElementOfSeq
  <1>4. \A t \in 1..Len(tokens) : tokens[t] \in 1..Len(row)
    BY <1>1, <1>2, ElementOfSeq
  <1>. QED BY <1>2, <1>3, <1>4, SessionsAssumption DEF SessionsAssumption, TypeInv, Shape

LEMMA IdleType == Idle \in Task /\ Idle.pc = "idle" /\ Idle.app = None
  BY DEF Idle, Task

LEMMA InitType == Init => TypeInv
  <1>. SUFFICES ASSUME Init PROVE TypeInv
    OBVIOUS
  <1>1. Len(row) = 0 /\ Len(tokens) = 0 /\ DOMAIN row = {}
    <2>1. row = <<>> /\ tokens = <<>>
      BY DEF Init
    <2>2. row \in Seq(Row) /\ Len(row) = 0
      BY <2>1, EmptySeq
    <2>. QED BY <2>1, <2>2, LenProperties
  <1>2. row \in Seq(Row) /\ tokens \in Seq(DOMAIN row)
    <2>1. \A S : <<>> \in Seq(S)
      BY EmptySeq
    <2>2. row = <<>> /\ tokens = <<>>
      BY DEF Init
    <2>. QED BY <2>1, <2>2
  <1>3. Shape
    <2>1. app \in [Apps -> App] /\ task \in [Requests -> Task]
      BY IdleType DEF Init, App
    <2>2. expired \in 0..Len(tokens) /\ disturbed \in SUBSET DOMAIN row
      BY <1>1 DEF Init
    <2>. QED BY <1>2, <2>1, <2>2 DEF Shape
  <1>4. \A a \in Apps : GoodApp(a)
    <2>1. \A a \in Apps : app[a].token = 0 /\ app[a].device = 0 /\ app[a].screen = "start"
      BY DEF Init
    <2>2. 0 <= Len(row) /\ 0 <= Len(tokens)
      BY <1>1
    <2>. QED BY <2>1, <2>2 DEF GoodApp
  <1>5. GoodTask(Idle)
    BY <1>1, IdleType, SessionsAssumption
    DEF SessionsAssumption, GoodTask, Idle, AppPcs, SignedPcs, RenewPcs, LoginPcs
  <1>6. \A r \in Requests : GoodTask(task[r])
    BY <1>5 DEF Init
  <1>. QED BY <1>1, <1>3, <1>4, <1>6 DEF TypeInv

\* What was good stays good.
LEMMA TaskStays ==
    ASSUME TypeInv, Grows, Len(row)' \in Nat, Len(tokens)' \in Nat, NEW t, GoodTask(t)
    PROVE  GoodTask(t)'
  <1>1. t.token \in Nat /\ t.device \in Nat /\ t.app \in Apps \cup {None}
        /\ Len(row) \in Nat /\ Len(tokens) \in Nat /\ DOMAIN tokens = 1..Len(tokens)
    BY Facts DEF GoodTask, Task
  <1>2. t.token # 0 => tokens'[t.token] = tokens[t.token]
    BY <1>1 DEF GoodTask, Grows
  <1>3. t.token <= Len(tokens)' /\ t.device <= Len(row)'
    BY <1>1 DEF GoodTask, Grows
  <1>. QED BY <1>1, <1>2, <1>3 DEF GoodTask, Grows

LEMMA IdleGood ==
    ASSUME TypeInv
    PROVE  GoodTask(Idle)
  BY Facts, IdleType DEF GoodTask, Idle, AppPcs, SignedPcs, RenewPcs, LoginPcs

\* One request goes on with t.
LEMMA TasksStep ==
    ASSUME TypeInv, Grows, Len(row)' \in Nat, Len(tokens)' \in Nat,
           NEW r \in Requests, NEW t, task' = [task EXCEPT ![r] = t], GoodTask(t)'
    PROVE  /\ task' \in [Requests -> Task]
           /\ (\A s \in Requests : GoodTask(task[s]))'
  <1>1. task \in [Requests -> Task] /\ t \in Task
    BY DEF TypeInv, Shape, GoodTask
  <1>2. ASSUME NEW s \in Requests
        PROVE  GoodTask(task[s])'
    <2>1. CASE s = r
      <3>1. task'[s] = t
        BY <1>1, <2>1
      <3>. QED BY <3>1 DEF GoodTask
    <2>2. CASE s # r
      <3>1. PICK u : u = task[s] /\ GoodTask(u)
        BY DEF TypeInv
      <3>2. GoodTask(u)'
        BY <3>1, TaskStays
      <3>3. task'[s] = u
        BY <1>1, <2>2, <3>1
      <3>. QED BY <3>2, <3>3 DEF GoodTask
    <2>. QED BY <2>1, <2>2
  <1>. QED BY <1>1, <1>2

LEMMA StepKeeps ==
    ASSUME TypeInv, Grows,
           row' \in Seq(Row), tokens' \in Seq(DOMAIN row'), expired' \in 0..Len(tokens'),
           app' \in [Apps -> App], disturbed' \in SUBSET DOMAIN row',
           (\A d \in DOMAIN row : GoodRow(d))', (\A a \in Apps : GoodApp(a))',
           NEW r \in Requests, NEW t, task' = [task EXCEPT ![r] = t], GoodTask(t)'
    PROVE  TypeInv'
  <1>1. Len(row') \in Nat /\ Len(tokens') \in Nat
    BY LenProperties
  <1>2. task' \in [Requests -> Task] /\ (\A s \in Requests : GoodTask(task[s]))'
    BY <1>1, TasksStep
  <1>. QED BY <1>2 DEF TypeInv, Shape

\* Only the request, and the disturbed devices, change.
LEMMA TaskOnly ==
    ASSUME TypeInv, row' = row, tokens' = tokens, expired' = expired, app' = app,
           disturbed' \in SUBSET DOMAIN row,
           NEW r \in Requests, NEW t, task' = [task EXCEPT ![r] = t], GoodTask(t)
    PROVE  TypeInv'
  <1>1. Grows
    BY Facts DEF Grows
  <1>2. GoodTask(t)'
    BY DEF GoodTask
  <1>3. (\A d \in DOMAIN row : GoodRow(d))'
    BY DEF TypeInv, GoodRow, HasRow, Issued
  <1>4. (\A a \in Apps : GoodApp(a))'
    BY DEF TypeInv, GoodApp
  <1>. QED BY <1>1, <1>2, <1>3, <1>4, StepKeeps DEF TypeInv, Shape

\* An app's token or screen changes, too.
LEMMA AppAndTask ==
    ASSUME TypeInv, row' = row, tokens' = tokens, expired' = expired,
           disturbed' \in SUBSET DOMAIN row,
           NEW a \in Apps, NEW x \in App, app' = [app EXCEPT ![a] = x],
           x.device = app[a].device, x.token <= Len(tokens),
           x.screen # "start" \/ x.token # 0 => x.device # 0,
           NEW r \in Requests, NEW t, task' = [task EXCEPT ![r] = t], GoodTask(t)
    PROVE  TypeInv'
  <1>0. app \in [Apps -> App] /\ \A b \in Apps : GoodApp(b)
    BY DEF TypeInv, Shape
  <1>1. Grows
    BY <1>0, Facts DEF Grows
  <1>2. \A b \in Apps : app'[b].device = app[b].device
    BY <1>0
  <1>3. GoodTask(t)'
    BY <1>2 DEF GoodTask
  <1>4. (\A d \in DOMAIN row : GoodRow(d))'
    BY DEF TypeInv, GoodRow, HasRow, Issued
  <1>5. (\A b \in Apps : GoodApp(b))'
    BY <1>0 DEF GoodApp
  <1>6. app' \in [Apps -> App]
    BY <1>0
  <1>. QED BY <1>1, <1>3, <1>4, <1>5, <1>6, StepKeeps DEF TypeInv, Shape

\* A row changes, too.
LEMMA RowAndTask ==
    ASSUME TypeInv, tokens' = tokens, expired' = expired, app' = app,
           row' \in Seq(Row), Len(row') = Len(row), disturbed' \in SUBSET DOMAIN row,
           \A d \in DOMAIN row : row'[d] # NoRow =>
               /\ Issued(row'[d].token) /\ tokens[row'[d].token] = d
               /\ Issued(row'[d].id) /\ tokens[row'[d].id] = d,
           NEW r \in Requests, NEW t, task' = [task EXCEPT ![r] = t], GoodTask(t)
    PROVE  TypeInv'
  <1>1. DOMAIN row' = DOMAIN row
    BY LenProperties DEF TypeInv, Shape
  <1>2. Grows
    BY Facts DEF Grows
  <1>3. GoodTask(t)'
    BY DEF GoodTask
  <1>4. (\A d \in DOMAIN row : GoodRow(d))'
    BY <1>1 DEF GoodRow, HasRow, Issued
  <1>5. (\A b \in Apps : GoodApp(b))'
    BY DEF TypeInv, GoodApp
  <1>. QED BY <1>1, <1>2, <1>3, <1>4, <1>5, StepKeeps DEF TypeInv, Shape

\* A request goes on at pc with what it has.
LEMMA PcGood ==
    ASSUME TypeInv, NEW r \in Requests, NEW pc \in ServerPcs \cup AppPcs,
           task[r].pc # "idle",
           pc \in AppPcs => task[r].app \in Apps,
           pc \in SignedPcs => task[r].pc \in SignedPcs,
           pc \in {"check", "send", "logout", "find", "delete"} => task[r].token # 0,
           pc \in RenewPcs => task[r].device # 0,
           pc \in LoginPcs => task[r].pc \in LoginPcs
    PROVE  GoodTask([task[r] EXCEPT !.pc = pc])
  <1>1. PICK t : t = [task[r] EXCEPT !.pc = pc]
    OBVIOUS
  <1>2. GoodTask(task[r]) /\ task[r] \in Task
    BY Facts DEF TypeInv
  <1>3. /\ t \in Task /\ t.pc = pc /\ t.app = task[r].app /\ t.token = task[r].token
        /\ t.device = task[r].device /\ t.again = task[r].again
    BY <1>1, <1>2 DEF Task
  <1>4. pc # "idle"
    BY DEF ServerPcs, AppPcs
  <1>5. t.token <= Len(tokens) /\ t.device <= Len(row) /\ (t.app \in Apps => app[t.app].device # 0)
    BY <1>2, <1>3 DEF GoodTask
  <1>6. pc \in SignedPcs => t.token # 0 /\ tokens[t.token] = t.device
    BY <1>2, <1>3 DEF GoodTask
  <1>7. /\ pc \in RenewPcs \/ t.again > 0 => t.device # 0
        /\ pc \in LoginPcs => t.again = 0
    BY <1>2, <1>3 DEF GoodTask
  <1>8. GoodTask(t)
    BY <1>3, <1>4, <1>5, <1>6, <1>7 DEF GoodTask
  <1>. QED BY <1>1, <1>8

LEMMA ServedBy ==
    ASSUME TypeInv, NEW r \in Requests
    PROVE  /\ task[r].pc \in AppPcs => task[r].app \in Apps
           /\ task[r].app # None => task[r].app \in Apps
           /\ task[r].app \in Apps => app[task[r].app].device # 0
           /\ GoodTask(task[r]) /\ task[r] \in Task /\ task \in [Requests -> Task]
           /\ disturbed \in SUBSET DOMAIN row
  BY DEF TypeInv, Shape, GoodTask, Task

\* The answer of r reaches the app, or r ends.
LEMMA AnswerGood ==
    ASSUME TypeInv, NEW r \in Requests, NEW pc \in AppPcs, task[r].pc # "idle", Answer(r, pc),
           pc \in SignedPcs => task[r].pc \in SignedPcs,
           pc = "send" => task[r].token # 0,
           pc \in RenewPcs => task[r].device # 0,
           pc \in LoginPcs => task[r].pc \in LoginPcs
    PROVE  \E t : task' = [task EXCEPT ![r] = t] /\ GoodTask(t)
  <1>1. CASE task[r].app = None
    BY <1>1, IdleGood DEF Answer, End
  <1>2. CASE task[r].app # None
    <2>1. task' = [task EXCEPT ![r] = [task[r] EXCEPT !.pc = pc]]
      BY <1>2 DEF Answer, Go
    <2>2. task[r].app \in Apps
      BY <1>2, ServedBy
    <2>3. pc \in {"check", "send", "logout", "find", "delete"} => task[r].token # 0
      BY DEF AppPcs
    <2>4. GoodTask([task[r] EXCEPT !.pc = pc])
      BY <2>2, <2>3, PcGood
    <2>. QED BY <2>1, <2>4
  <1>. QED BY <1>1, <1>2

-----------------------------------------------------------------------------
(* Each action keeps the types. *)

LEMMA RequestType ==
    ASSUME TypeInv, NEW r \in Requests, NEW a \in Apps, NEW op \in {"get", "logout", "revoke"},
           NEW id \in Nat, Request(r, a, op, id)
    PROVE  TypeInv'
  <1>1. PICK t : t = [Idle EXCEPT !.pc = "guard", !.app = a, !.op = op, !.id = id,
                                  !.token = app[a].token]
    OBVIOUS
  <1>2. GoodApp(a) /\ app[a] \in App /\ Len(row) \in Nat /\ Len(tokens) \in Nat
    BY Facts DEF TypeInv
  <1>3. /\ t \in Task /\ t.pc = "guard" /\ t.app = a /\ t.token = app[a].token
        /\ t.device = 0 /\ t.again = 0
    BY <1>1, <1>2 DEF Idle, Task, App, ServerPcs
  <1>4. GoodTask(t)
    BY <1>2, <1>3
    DEF Request, GoodApp, GoodTask, AppPcs, SignedPcs, RenewPcs, LoginPcs
  <1>5. task' = [task EXCEPT ![r] = t]
    BY <1>1 DEF Request, Begin
  <1>. QED BY <1>4, <1>5, ServedBy, TaskOnly DEF Request

LEMMA GuardType ==
    ASSUME TypeInv, NEW r \in Requests, Guard(r)
    PROVE  TypeInv'
  <1>1. task[r].token # 0 /\ task[r].pc = "guard"
    BY DEF Guard, HasSession, At
  <1>2. GoodTask([task[r] EXCEPT !.pc = "logout"]) /\ GoodTask([task[r] EXCEPT !.pc = "find"])
    BY <1>1, PcGood DEF ServerPcs, AppPcs, SignedPcs, RenewPcs, LoginPcs
  <1>3. \E t : task' = [task EXCEPT ![r] = t] /\ GoodTask(t)
    <2>1. CASE task[r].op = "get"
      BY <2>1, IdleGood DEF Guard, End
    <2>2. CASE task[r].op = "logout"
      <3>1. task' = [task EXCEPT ![r] = [task[r] EXCEPT !.pc = "logout"]]
        BY <2>2 DEF Guard, Go
      <3>. QED BY <1>2, <3>1
    <2>3. CASE task[r].op = "revoke"
      <3>1. task' = [task EXCEPT ![r] = [task[r] EXCEPT !.pc = "find"]]
        BY <2>3 DEF Guard, Go
      <3>. QED BY <1>2, <3>1
    <2>. QED BY <2>1, <2>2, <2>3, ServedBy DEF Task
  <1>. QED BY <1>3, ServedBy, TaskOnly DEF Guard

LEMMA RefuseType ==
    ASSUME TypeInv, NEW r \in Requests, Refuse(r)
    PROVE  TypeInv'
  <1>1. \E t : task' = [task EXCEPT ![r] = t] /\ GoodTask(t)
    BY AnswerGood DEF Refuse, At, AppPcs, SignedPcs, RenewPcs, LoginPcs
  <1>. QED BY <1>1, ServedBy, TaskOnly DEF Refuse

LEMMA FindSessionType ==
    ASSUME TypeInv, NEW r \in Requests, FindSession(r)
    PROVE  TypeInv'
  <1>1. task[r].pc = "find" /\ task[r].token # 0
    BY ServedBy DEF FindSession, At, GoodTask
  <1>2. GoodTask([task[r] EXCEPT !.pc = "delete"])
    BY <1>1, PcGood DEF ServerPcs, AppPcs, SignedPcs, RenewPcs, LoginPcs
  <1>3. \/ task' = [task EXCEPT ![r] = Idle]
        \/ task' = [task EXCEPT ![r] = [task[r] EXCEPT !.pc = "delete"]]
    BY DEF FindSession, Go, End
  <1>. QED BY <1>2, <1>3, IdleGood, ServedBy, TaskOnly DEF FindSession

LEMMA ReadTokenType ==
    ASSUME TypeInv, NEW r \in Requests, ReadToken(r)
    PROVE  TypeInv'
  <1>1. PICK a \in Apps : task[r].app = a
    BY ServedBy DEF ReadToken, At, AppPcs
  <1>2. /\ task[r].pc = "read" /\ GoodTask(task[r]) /\ task[r] \in Task /\ app[a].device # 0
        /\ GoodApp(a) /\ app[a] \in App
    BY <1>1, ServedBy, Facts DEF ReadToken, At, TypeInv
  <1>3. PICK pc \in {"clear", "check"} : pc = IF app[a].token = 0 THEN "clear" ELSE "check"
    OBVIOUS
  <1>4. PICK t : t = [task[r] EXCEPT !.token = app[a].token, !.device = app[a].device, !.pc = pc]
    OBVIOUS
  <1>5. task' = [task EXCEPT ![r] = t]
    BY <1>1, <1>3, <1>4 DEF ReadToken
  <1>6. /\ t \in Task /\ t.pc = pc /\ t.app = a /\ t.token = app[a].token
        /\ t.device = app[a].device /\ t.again = task[r].again
    BY <1>1, <1>2, <1>4 DEF Task, App, ServerPcs, AppPcs
  <1>7. GoodTask(t)
    BY <1>2, <1>3, <1>6 DEF GoodTask, GoodApp, AppPcs, SignedPcs, LoginPcs
  <1>. QED BY <1>5, <1>7, ServedBy, TaskOnly DEF ReadToken

LEMMA SendAgainType ==
    ASSUME TypeInv, NEW r \in Requests, SendAgain(r)
    PROVE  TypeInv'
  <1>1. PICK a \in Apps : task[r].app = a
    BY ServedBy DEF SendAgain, At, AppPcs
  <1>2. /\ task[r].pc = "send" /\ GoodTask(task[r]) /\ task[r] \in Task
        /\ GoodApp(a) /\ app[a] \in App
    BY ServedBy, Facts DEF SendAgain, At, TypeInv
  <1>3. PICK k \in Nat : k = (IF app[a].token # 0 THEN app[a].token ELSE task[r].token)
                         /\ k <= Len(tokens)
    BY <1>2 DEF App, Task, GoodApp, GoodTask
  <1>8. PICK n \in Nat : n = task[r].again + 1
    BY <1>2 DEF Task
  <1>4. PICK t : t = [task[r] EXCEPT !.pc = "guard", !.again = n, !.token = k]
    OBVIOUS
  <1>5. task' = [task EXCEPT ![r] = t]
    BY <1>1, <1>3, <1>4, <1>8 DEF SendAgain
  <1>6. /\ t \in Task /\ t.pc = "guard" /\ t.app = a /\ t.token = k
        /\ t.device = task[r].device
    BY <1>1, <1>2, <1>4 DEF Task, ServerPcs, AppPcs
  <1>7. GoodTask(t)
    BY <1>1, <1>2, <1>3, <1>6 DEF GoodTask, AppPcs, SignedPcs, RenewPcs, LoginPcs
  <1>. QED BY <1>5, <1>7, ServedBy, TaskOnly DEF SendAgain

\* A request of a server's await fails: it ends, or its app clears its tokens.
LEMMA RequestFailsGood ==
    ASSUME TypeInv, NEW r \in Requests, NEW ended \in SUBSET DOMAIN row,
           RequestFails(r, ended), task[r].pc # "idle"
    PROVE  /\ \E t : task' = [task EXCEPT ![r] = t] /\ GoodTask(t)
           /\ disturbed' \in SUBSET DOMAIN row
  <1>1. CASE task[r].again = 0 \/ task[r].app = None
    BY <1>1, IdleGood, ServedBy DEF RequestFails, End
  <1>2. CASE ~(task[r].again = 0 \/ task[r].app = None)
    <2>1. /\ task[r].app \in Apps /\ GoodTask(task[r]) /\ task[r] \in Task
          /\ task[r].again \in Nat \ {0} /\ task[r].device # 0
          /\ app[task[r].app].device # 0
      BY <1>2, ServedBy DEF Task, GoodTask
    <2>7. PICK n \in Nat : n = task[r].again - 1
      BY <2>1
    <2>2. PICK t : t = [task[r] EXCEPT !.pc = "clear", !.again = n]
      OBVIOUS
    <2>3. /\ task' = [task EXCEPT ![r] = t]
          /\ disturbed' = disturbed \cup ended \cup {task[r].device}
      BY <1>2, <2>2, <2>7 DEF RequestFails
    <2>4. /\ t \in Task /\ t.pc = "clear" /\ t.app = task[r].app /\ t.token = task[r].token
          /\ t.device = task[r].device
      BY <2>1, <2>2 DEF Task, AppPcs
    <2>5. GoodTask(t)
      BY <2>1, <2>4 DEF GoodTask, AppPcs, SignedPcs, LoginPcs
    <2>6. task[r].device \in DOMAIN row
      BY <2>1, Facts DEF GoodTask, Task
    <2>. QED BY <2>3, <2>5, <2>6, ServedBy
  <1>. QED BY <1>1, <1>2

LEMMA EndedGood ==
    ASSUME TypeInv, NEW r \in Requests, NEW ended \in SUBSET DOMAIN row,
           Ended(r, ended), task[r].pc # "idle"
    PROVE  /\ \E t : task' = [task EXCEPT ![r] = t] /\ GoodTask(t)
           /\ disturbed' \in SUBSET DOMAIN row
  BY IdleGood, RequestFailsGood, ServedBy DEF Ended, End

LEMMA FailType ==
    ASSUME TypeInv, NEW r \in Requests, Fail(r)
    PROVE  TypeInv'
  <1>1. CASE LoseRequest(r)
    <2>1. task[r].pc # "idle" /\ RequestFails(r, {})
      BY <1>1 DEF LoseRequest
    <2>. QED BY <1>1, <2>1, RequestFailsGood, TaskOnly DEF LoseRequest
  <1>2. CASE LoseRefresh(r)
    <2>1. task[r].pc \in {"check", "rotate", "save"}
      BY <1>2 DEF LoseRefresh
    <2>2. task[r].device # 0 /\ task[r].device \in DOMAIN row
      BY <2>1, ServedBy, Facts DEF GoodTask, RenewPcs, Task
    <2>3. \E t : task' = [task EXCEPT ![r] = t] /\ GoodTask(t)
      BY <1>2, <2>1, <2>2, AnswerGood DEF LoseRefresh, AppPcs, SignedPcs, LoginPcs
    <2>4. disturbed' \in SUBSET DOMAIN row
      BY <1>2, <2>2, ServedBy DEF LoseRefresh
    <2>. QED BY <1>2, <2>3, <2>4, TaskOnly DEF LoseRefresh
  <1>. QED BY <1>1, <1>2 DEF Fail

LEMMA CreateSessionType ==
    ASSUME TypeInv, NEW r \in Requests, CreateSession(r)
    PROVE  TypeInv'
  <1>1. /\ task[r].pc = "upsert" /\ GoodTask(task[r]) /\ task[r] \in Task
        /\ row \in Seq(Row) /\ Len(row) \in Nat /\ DOMAIN row = 1..Len(row)
    BY ServedBy, Facts DEF CreateSession, At, TypeInv, Shape
  <1>2. PICK k \in Nat : k = Signed(r) /\ Issued(k) /\ tokens[k] = task[r].device
    BY <1>1 DEF GoodTask, SignedPcs, Issued, Signed, Task
  <1>3. PICK d \in 1..Len(row) : d = task[r].device
    BY <1>1, <1>2, Facts DEF Issued
  <1>4. PICK i \in Nat : i = (IF HasRow(d) THEN row[d].id ELSE k) /\ Issued(i) /\ tokens[i] = d
    BY <1>1, <1>2, <1>3, Facts DEF TypeInv, GoodRow, Row
  <1>5. PICK x \in Row : x = [id |-> i, token |-> k]
    BY DEF Row
  <1>6. row' = [row EXCEPT ![d] = x]
    BY <1>2, <1>3, <1>4, <1>5 DEF CreateSession
  <1>7. row' \in Seq(Row) /\ Len(row') = Len(row)
        /\ \A e \in 1..Len(row) : row'[e] = IF e = d THEN x ELSE row[e]
    BY <1>1, <1>6, ExceptSeq
  <1>8. \A e \in DOMAIN row : row'[e] # NoRow =>
               /\ Issued(row'[e].token) /\ tokens[row'[e].token] = e
               /\ Issued(row'[e].id) /\ tokens[row'[e].id] = e
    BY <1>1, <1>2, <1>3, <1>4, <1>5, <1>7 DEF TypeInv, GoodRow, HasRow
  <1>9. \E t : task' = [task EXCEPT ![r] = t] /\ GoodTask(t)
    BY <1>1, AnswerGood DEF CreateSession, AppPcs, SignedPcs, RenewPcs, LoginPcs
  <1>. QED BY <1>7, <1>8, <1>9, ServedBy, RowAndTask DEF CreateSession

LEMMA RotateTokensType ==
    ASSUME TypeInv, NEW r \in Requests, RotateTokens(r)
    PROVE  TypeInv'
  <1>1. /\ task[r].pc = "rotate" /\ GoodTask(task[r]) /\ task[r] \in Task
        /\ row \in Seq(Row) /\ Len(row) \in Nat /\ DOMAIN row = 1..Len(row)
    BY ServedBy, Facts DEF RotateTokens, At, TypeInv, Shape
  <1>2. PICK k \in Nat : k = Signed(r) /\ Issued(k) /\ tokens[k] = task[r].device
    BY <1>1 DEF GoodTask, SignedPcs, Issued, Signed, Task
  <1>3. PICK d \in 1..Len(row) : d = task[r].device
    BY <1>1, <1>2, Facts DEF Issued
  <1>4. task[r].device # 0
    BY <1>3
  <1>5. CASE HasRow(d)
    <2>6. row[d] \in Row
      BY <1>3, Facts
    <2>1. PICK x : x = [row[d] EXCEPT !.token = k]
      OBVIOUS
    <2>7. x \in Row /\ x.id = row[d].id /\ x.token = k
      BY <2>1, <2>6 DEF Row
    <2>2. row' = [row EXCEPT ![d] = x]
      BY <1>2, <1>3, <1>5, <2>1 DEF RotateTokens
    <2>3. row' \in Seq(Row) /\ Len(row') = Len(row)
          /\ \A e \in 1..Len(row) : row'[e] = IF e = d THEN x ELSE row[e]
      BY <1>1, <2>2, <2>7, ExceptSeq
    <2>8. /\ Issued(x.token) /\ tokens[x.token] = d
          /\ Issued(x.id) /\ tokens[x.id] = d
      BY <1>1, <1>2, <1>3, <1>5, <2>7 DEF TypeInv, GoodRow
    <2>4. \A e \in DOMAIN row : row'[e] # NoRow =>
                 /\ Issued(row'[e].token) /\ tokens[row'[e].token] = e
                 /\ Issued(row'[e].id) /\ tokens[row'[e].id] = e
      BY <1>1, <2>3, <2>8 DEF TypeInv, GoodRow, HasRow
    <2>5. \E t : task' = [task EXCEPT ![r] = t] /\ GoodTask(t)
      BY <1>1, <1>3, <1>4, <1>5, AnswerGood
      DEF RotateTokens, AppPcs, SignedPcs, RenewPcs, LoginPcs
    <2>. QED BY <2>3, <2>4, <2>5, ServedBy, RowAndTask DEF RotateTokens
  <1>6. CASE ~HasRow(d)
    <2>1. \E t : task' = [task EXCEPT ![r] = t] /\ GoodTask(t)
      BY <1>1, <1>3, <1>4, <1>6, AnswerGood
      DEF RotateTokens, AppPcs, SignedPcs, RenewPcs, LoginPcs
    <2>. QED BY <1>3, <1>6, <2>1, ServedBy, TaskOnly DEF RotateTokens
  <1>. QED BY <1>5, <1>6

LEMMA LogoutType ==
    ASSUME TypeInv, NEW r \in Requests, Logout(r)
    PROVE  TypeInv'
  <1>1. /\ task[r].pc = "logout" /\ GoodTask(task[r]) /\ task[r] \in Task
        /\ row \in Seq(Row) /\ Len(row) \in Nat /\ DOMAIN row = 1..Len(row)
    BY ServedBy, Facts DEF Logout, At, TypeInv, Shape
  <1>2. task[r].token \in 1..Len(tokens)
    BY <1>1, Facts DEF GoodTask, Task
  <1>3. PICK d \in 1..Len(row) : d = tokens[task[r].token]
    BY <1>2, Facts
  <1>4. PICK x \in Row : x = NoRow
    BY DEF Row, NoRow
  <1>5. row' = [row EXCEPT ![d] = x]
    BY <1>3, <1>4 DEF Logout
  <1>6. row' \in Seq(Row) /\ Len(row') = Len(row)
        /\ \A e \in 1..Len(row) : row'[e] = IF e = d THEN x ELSE row[e]
    BY <1>1, <1>5, ExceptSeq
  <1>7. \A e \in DOMAIN row : row'[e] # NoRow =>
               /\ Issued(row'[e].token) /\ tokens[row'[e].token] = e
               /\ Issued(row'[e].id) /\ tokens[row'[e].id] = e
    BY <1>1, <1>4, <1>6 DEF TypeInv, GoodRow, HasRow
  <1>8. PICK t : /\ task' = [task EXCEPT ![r] = t] /\ GoodTask(t)
                 /\ disturbed' \in SUBSET DOMAIN row
    <2>1. PICK ended \in SUBSET DOMAIN row : ended = {d}
      BY <1>1
    <2>2. Ended(r, ended)
      BY <1>3, <2>1 DEF Logout
    <2>. QED BY <1>1, <2>2, EndedGood
  <1>. QED BY <1>6, <1>7, <1>8, RowAndTask DEF Logout

LEMMA DeleteSessionType ==
    ASSUME TypeInv, NEW r \in Requests, DeleteSession(r)
    PROVE  TypeInv'
  <1>1. /\ task[r].pc = "delete"
        /\ row \in Seq(Row) /\ Len(row) \in Nat /\ DOMAIN row = 1..Len(row)
    BY Facts DEF DeleteSession, At, TypeInv, Shape
  <1>2. CASE Named(task[r].id) = {}
    <2>1. RequestFails(r, {}) /\ row' = row
      BY <1>2 DEF DeleteSession
    <2>. QED BY <1>1, <2>1, RequestFailsGood, TaskOnly DEF DeleteSession
  <1>3. CASE Named(task[r].id) # {}
    <2>1. PICK D \in SUBSET DOMAIN row : D = Named(task[r].id)
      BY DEF Named
    <2>2. row' = [d \in 1..Len(row) |-> IF d \in D THEN NoRow ELSE row[d]]
      BY <1>1, <1>3, <2>1 DEF DeleteSession
    <2>3. \A d \in 1..Len(row) : (IF d \in D THEN NoRow ELSE row[d]) \in Row
      BY Facts DEF Row, NoRow
    <2>4. row' \in [1..Len(row) -> Row]
      BY <2>2, <2>3
    <2>5. row' \in Seq(Row) /\ Len(row') = Len(row)
      BY <1>1, <2>4
    <2>6. \A e \in DOMAIN row : row'[e] # NoRow =>
                 /\ Issued(row'[e].token) /\ tokens[row'[e].token] = e
                 /\ Issued(row'[e].id) /\ tokens[row'[e].id] = e
      BY <1>1, <2>2 DEF TypeInv, GoodRow, HasRow
    <2>7. PICK t : /\ task' = [task EXCEPT ![r] = t] /\ GoodTask(t)
                   /\ disturbed' \in SUBSET DOMAIN row
      <3>1. Ended(r, D)
        BY <1>3, <2>1 DEF DeleteSession
      <3>. QED BY <1>1, <3>1, EndedGood
    <2>. QED BY <2>5, <2>6, <2>7, RowAndTask DEF DeleteSession
  <1>. QED BY <1>2, <1>3

LEMMA SaveLoginType ==
    ASSUME TypeInv, NEW r \in Requests, SaveLogin(r)
    PROVE  TypeInv'
  <1>1. PICK a \in Apps : task[r].app = a
    BY ServedBy DEF SaveLogin, At, AppPcs
  <1>2. /\ GoodTask(task[r]) /\ task[r] \in Task /\ app[a].device # 0
        /\ GoodApp(a) /\ app[a] \in App
    BY <1>1, ServedBy, Facts DEF TypeInv
  <1>3. PICK k \in Nat : k = Signed(r) /\ k <= Len(tokens)
    BY <1>2 DEF Signed, Task, GoodTask
  <1>4. PICK sc \in {"start", "code", "main"} :
            sc = IF app[a].screen = "code" /\ app[a].device = task[r].device THEN "main"
                 ELSE app[a].screen
    BY <1>2 DEF App
  <1>5. PICK x : x = [app[a] EXCEPT !.token = k, !.screen = sc]
    OBVIOUS
  <1>6. x \in App /\ x.device = app[a].device /\ x.token = k
    BY <1>2, <1>5 DEF App
  <1>7. app' = [app EXCEPT ![a] = x]
    BY <1>1, <1>3, <1>4, <1>5 DEF SaveLogin
  <1>8. task' = [task EXCEPT ![r] = Idle]
    BY DEF SaveLogin, End
  <1>. QED BY <1>2, <1>3, <1>6, <1>7, <1>8, IdleGood, ServedBy, AppAndTask DEF SaveLogin

LEMMA SaveTokensType ==
    ASSUME TypeInv, NEW r \in Requests, SaveTokens(r)
    PROVE  TypeInv'
  <1>1. PICK a \in Apps : task[r].app = a
    BY ServedBy DEF SaveTokens, At, AppPcs
  <1>2. /\ GoodTask(task[r]) /\ task[r] \in Task /\ app[a].device # 0
        /\ GoodApp(a) /\ app[a] \in App /\ task[r].pc = "save"
    BY <1>1, ServedBy, Facts DEF TypeInv, SaveTokens, At
  <1>3. PICK k \in Nat : k = Signed(r) /\ k <= Len(tokens)
    BY <1>2 DEF Signed, Task, GoodTask
  <1>5. PICK x : x = [app[a] EXCEPT !.token = k]
    OBVIOUS
  <1>6. x \in App /\ x.device = app[a].device /\ x.token = k
    BY <1>2, <1>5 DEF App
  <1>7. app' = [app EXCEPT ![a] = x]
    BY <1>1, <1>3, <1>5 DEF SaveTokens
  <1>8. task' = [task EXCEPT ![r] = [task[r] EXCEPT !.pc = "send"]]
    BY DEF SaveTokens, Go
  <1>9. GoodTask([task[r] EXCEPT !.pc = "send"])
    <2>1. task[r].token # 0 /\ task[r].device # 0
      BY <1>2 DEF GoodTask, SignedPcs, RenewPcs
    <2>. QED
      BY <1>1, <1>2, <2>1, PcGood DEF ServerPcs, AppPcs, SignedPcs, RenewPcs, LoginPcs
  <1>. QED BY <1>2, <1>3, <1>6, <1>7, <1>8, <1>9, ServedBy, AppAndTask DEF SaveTokens

LEMMA ClearTokensType ==
    ASSUME TypeInv, NEW r \in Requests, ClearTokens(r)
    PROVE  TypeInv'
  <1>1. PICK a \in Apps : task[r].app = a
    BY ServedBy DEF ClearTokens, At, AppPcs
  <1>2. /\ GoodTask(task[r]) /\ task[r] \in Task /\ app[a].device # 0
        /\ GoodApp(a) /\ app[a] \in App /\ task[r].pc = "clear"
    BY <1>1, ServedBy, Facts DEF TypeInv, ClearTokens, At
  <1>3. PICK x : x = [app[a] EXCEPT !.token = 0]
    OBVIOUS
  <1>4. x \in App /\ x.device = app[a].device /\ x.token = 0 /\ 0 <= Len(tokens)
    BY <1>2, <1>3, Facts DEF App
  <1>5. app' = [app EXCEPT ![a] = x]
    BY <1>1, <1>3 DEF ClearTokens
  <1>6. \E t : task' = [task EXCEPT ![r] = t] /\ GoodTask(t)
    <2>1. CASE task[r].again > 0
      <3>1. PICK n \in Nat : n = task[r].again - 1
        BY <1>2, <2>1 DEF Task
      <3>2. PICK t : t = [task[r] EXCEPT !.again = n]
        OBVIOUS
      <3>3. task' = [task EXCEPT ![r] = t]
        BY <2>1, <3>1, <3>2 DEF ClearTokens
      <3>4. /\ t \in Task /\ t.pc = "clear" /\ t.app = task[r].app /\ t.token = task[r].token
            /\ t.device = task[r].device
        BY <1>2, <3>2 DEF Task
      <3>5. GoodTask(t)
        BY <1>2, <3>4 DEF GoodTask, AppPcs, SignedPcs, RenewPcs, LoginPcs
      <3>. QED BY <3>3, <3>5
    <2>2. CASE ~(task[r].again > 0)
      BY <2>2, IdleGood DEF ClearTokens, End
    <2>. QED BY <2>1, <2>2
  <1>. QED BY <1>2, <1>4, <1>5, <1>6, ServedBy, AppAndTask DEF ClearTokens

\* A token is signed for a device d.
LEMMA TokenSigned ==
    ASSUME TypeInv, NEW d \in DOMAIN row, tokens' = Append(tokens, d), row' = row, app' = app
    PROVE  /\ tokens' \in Seq(DOMAIN row) /\ Len(tokens') = Len(tokens) + 1
           /\ \A t \in 1..Len(tokens) : tokens'[t] = tokens[t]
           /\ tokens'[Len(tokens) + 1] = d
           /\ Grows
           /\ (\A e \in DOMAIN row : GoodRow(e))'
           /\ (\A a \in Apps : GoodApp(a))'
  <1>1. /\ tokens' \in Seq(DOMAIN row) /\ Len(tokens') = Len(tokens) + 1
        /\ \A t \in 1..Len(tokens) : tokens'[t] = tokens[t]
        /\ tokens'[Len(tokens) + 1] = d
    BY AppendProperties DEF TypeInv, Shape
  <1>2. Len(tokens) \in Nat /\ DOMAIN tokens = 1..Len(tokens) /\ Len(row) \in Nat
        /\ (\A e \in DOMAIN row : row[e] \in Row) /\ \A a \in Apps : app[a] \in App
    BY Facts
  <1>3. Grows
    BY <1>1, <1>2 DEF Grows
  <1>4. \A t \in Nat : Issued(t) => Issued(t)' /\ tokens'[t] = tokens[t]
    BY <1>1, <1>2 DEF Issued
  <1>5. (\A e \in DOMAIN row : GoodRow(e))'
    BY <1>2, <1>4 DEF TypeInv, GoodRow, HasRow, Row
  <1>6. (\A a \in Apps : GoodApp(a))'
    BY <1>1, <1>2 DEF TypeInv, GoodApp, App
  <1>. QED BY <1>1, <1>3, <1>5, <1>6

LEMMA RefreshType ==
    ASSUME TypeInv, NEW r \in Requests, Refresh(r)
    PROVE  TypeInv'
  <1>1. /\ task[r].pc = "check" /\ GoodTask(task[r]) /\ task[r] \in Task
        /\ task[r].token # 0 /\ task[r].device # 0
    BY ServedBy DEF Refresh, At, GoodTask, RenewPcs
  <1>2. CASE Accepted(task[r].token, task[r].device)
    <2>1. PICK d \in DOMAIN row : d = task[r].device
      BY <1>1, Facts DEF GoodTask, Task
    <2>2. PICK k \in Nat : k = NewToken
      BY Facts DEF NewToken
    <2>3. PICK t : t = [task[r] EXCEPT !.pc = "rotate", !.token = k]
      OBVIOUS
    <2>4. task' = [task EXCEPT ![r] = t] /\ tokens' = Append(tokens, d)
          /\ row' = row /\ app' = app /\ expired' = expired /\ disturbed' = disturbed
      BY <1>2, <2>1, <2>2, <2>3 DEF Refresh
    <2>5. /\ t \in Task /\ t.pc = "rotate" /\ t.app = task[r].app /\ t.token = k
          /\ t.device = d
      BY <1>1, <2>1, <2>3 DEF Task, ServerPcs
    <2>6. k <= Len(tokens') /\ k # 0 /\ tokens'[k] = d
      BY <2>2, <2>4, TokenSigned, Facts DEF NewToken
    <2>7. GoodTask(t)'
      BY <1>1, <2>1, <2>4, <2>5, <2>6 DEF GoodTask, AppPcs, SignedPcs, LoginPcs
    <2>8. expired' \in 0..Len(tokens') /\ row' \in Seq(Row) /\ app' \in [Apps -> App]
          /\ disturbed' \in SUBSET DOMAIN row' /\ tokens' \in Seq(DOMAIN row')
      BY <2>4, TokenSigned, Facts DEF TypeInv, Shape
    <2>. QED BY <2>4, <2>7, <2>8, TokenSigned, StepKeeps
  <1>3. CASE ~Accepted(task[r].token, task[r].device)
    <2>1. \E t : task' = [task EXCEPT ![r] = t] /\ GoodTask(t)
      BY <1>1, <1>3, AnswerGood DEF Refresh, AppPcs, SignedPcs, LoginPcs
    <2>. QED BY <1>3, <2>1, ServedBy, TaskOnly DEF Refresh
  <1>. QED BY <1>2, <1>3

LEMMA LoginType ==
    ASSUME TypeInv, NEW r \in Requests, NEW a \in Apps, Login(r, a)
    PROVE  TypeInv'
  <1>1. PICK d \in DOMAIN row : d = app[a].device
    BY Facts DEF Login, TypeInv, GoodApp, App
  <1>2. PICK k \in Nat : k = NewToken
    BY Facts DEF NewToken
  <1>3. PICK t : t = [Idle EXCEPT !.pc = "upsert", !.app = a, !.token = k, !.device = d]
    OBVIOUS
  <1>4. task' = [task EXCEPT ![r] = t] /\ tokens' = Append(tokens, d)
        /\ row' = row /\ app' = app /\ expired' = expired /\ disturbed' = disturbed
    BY <1>1, <1>2, <1>3 DEF Login, Begin
  <1>5. /\ t \in Task /\ t.pc = "upsert" /\ t.app = a /\ t.token = k
        /\ t.device = d /\ t.again = 0 /\ d # 0 /\ d <= Len(row)
    <2>1. d \in Nat /\ d # 0 /\ d <= Len(row)
      BY <1>1, Facts
    <2>. QED BY <1>2, <1>3, <2>1 DEF Idle, Task, ServerPcs
  <1>6. k <= Len(tokens') /\ k # 0 /\ tokens'[k] = d
    BY <1>2, <1>4, TokenSigned, Facts DEF NewToken
  <1>7. GoodTask(t)'
    BY <1>1, <1>4, <1>5, <1>6 DEF GoodTask, AppPcs, RenewPcs
  <1>8. expired' \in 0..Len(tokens') /\ row' \in Seq(Row) /\ app' \in [Apps -> App]
        /\ disturbed' \in SUBSET DOMAIN row' /\ tokens' \in Seq(DOMAIN row')
    BY <1>4, TokenSigned, Facts DEF TypeInv, Shape
  <1>. QED BY <1>4, <1>7, <1>8, TokenSigned, StepKeeps

\* The requests stay as they are.
LEMMA TasksStay ==
    ASSUME TypeInv, Grows, Len(row') \in Nat, Len(tokens') \in Nat, task' = task
    PROVE  (\A s \in Requests : GoodTask(task[s]))'
  <1>. SUFFICES ASSUME NEW s \in Requests PROVE GoodTask(task[s])'
    OBVIOUS
  <1>1. PICK u : u = task[s] /\ GoodTask(u)
    BY DEF TypeInv
  <1>2. GoodTask(u)'
    BY <1>1, TaskStays
  <1>. QED BY <1>1, <1>2 DEF GoodTask

LEMMA SubmitType ==
    ASSUME TypeInv, NEW a \in Apps, Submit(a)
    PROVE  /\ TypeInv'
           /\ Len(row') = Len(row) + 1 /\ \A e \in 1..Len(row) : row'[e] = row[e]
           /\ row'[Len(row) + 1] = NoRow
  <1>1. NoRow \in Row /\ row \in Seq(Row) /\ row' = Append(row, NoRow) /\ tokens' = tokens
        /\ expired' = expired /\ task' = task /\ app \in [Apps -> App]
    BY DEF NoRow, Row, TypeInv, Shape, Submit
  <1>2. /\ row' \in Seq(Row) /\ Len(row') = Len(row) + 1
        /\ \A e \in 1..Len(row) : row'[e] = row[e]
        /\ row'[Len(row) + 1] = NoRow
    BY <1>1, AppendProperties
  <1>3. DOMAIN row' = 1..Len(row') /\ DOMAIN row = 1..Len(row) /\ Len(row) \in Nat
        /\ Len(tokens) \in Nat /\ DOMAIN tokens = 1..Len(tokens)
    BY <1>2, LenProperties, Facts
  <1>4. PICK d \in DOMAIN row' : d = Len(row) + 1
    BY <1>2, <1>3
  <1>5. PICK x : x = [app[a] EXCEPT !.device = d, !.screen = "code"]
    OBVIOUS
  <1>6. x \in App /\ x.device = d /\ x.screen = "code" /\ x.token = app[a].token
    <2>1. d \in Nat /\ app[a] \in App
      BY <1>1, <1>3, <1>4
    <2>. QED BY <1>5, <2>1 DEF App
  <1>7. app' = [app EXCEPT ![a] = x]
    BY <1>4, <1>5 DEF Submit
  <1>8. app' \in [Apps -> App] /\ \A b \in Apps \ {a} : app'[b] = app[b]
    BY <1>1, <1>6, <1>7
  <1>9. app'[a] = x
    BY <1>1, <1>7
  <1>10. Grows
    BY <1>1, <1>2, <1>3, <1>4, <1>6, <1>8, <1>9 DEF Grows
  <1>11. (\A e \in DOMAIN row : GoodRow(e))'
    BY <1>1, <1>2, <1>3 DEF TypeInv, GoodRow, HasRow, Issued
  <1>12. (\A b \in Apps : GoodApp(b))'
    <2>1. GoodApp(a)'
      BY <1>1, <1>2, <1>3, <1>4, <1>6, <1>9 DEF TypeInv, GoodApp
    <2>2. ASSUME NEW b \in Apps, b # a PROVE GoodApp(b)'
      <3>1. GoodApp(b) /\ app[b] \in App
        BY <1>1 DEF TypeInv
      <3>. QED BY <1>1, <1>2, <1>3, <1>8, <2>2, <3>1 DEF GoodApp, App
    <2>. QED BY <2>1, <2>2
  <1>13. (\A s \in Requests : GoodTask(task[s]))'
    BY <1>1, <1>2, <1>3, <1>10, TasksStay
  <1>14. tokens' \in Seq(DOMAIN row')
    <2>1. \A t \in 1..Len(tokens) : tokens[t] \in DOMAIN row'
      BY <1>2, <1>3, Facts
    <2>2. tokens \in Seq(DOMAIN row) /\ tokens \in [1..Len(tokens) -> DOMAIN row]
      BY LenProperties DEF TypeInv, Shape
    <2>3. tokens \in [1..Len(tokens) -> DOMAIN row']
      BY <2>1, <2>2
    <2>. QED BY <1>1, <1>3, <2>3
  <1>15. disturbed' \in SUBSET DOMAIN row'
    <2>1. disturbed \in SUBSET DOMAIN row'
      BY <1>2, <1>3, ServedBy DEF TypeInv, Shape
    <2>. QED BY <1>4, <2>1 DEF Submit
  <1>. QED BY <1>1, <1>2, <1>8, <1>11, <1>12, <1>13, <1>14, <1>15 DEF TypeInv, Shape

\* An app alone changes.
LEMMA AppOnly ==
    ASSUME TypeInv, row' = row, tokens' = tokens, expired' = expired, task' = task,
           disturbed' \in SUBSET DOMAIN row,
           NEW a \in Apps, NEW x \in App, app' = [app EXCEPT ![a] = x],
           x.device = app[a].device, x.token <= Len(tokens),
           x.screen # "start" \/ x.token # 0 => x.device # 0
    PROVE  TypeInv'
  <1>0. app \in [Apps -> App] /\ \A b \in Apps : GoodApp(b)
    BY DEF TypeInv, Shape
  <1>1. Grows
    BY <1>0, Facts DEF Grows
  <1>2. (\A s \in Requests : GoodTask(task[s]))'
    BY <1>1, Facts, TasksStay
  <1>3. (\A d \in DOMAIN row : GoodRow(d))'
    BY DEF TypeInv, GoodRow, HasRow, Issued
  <1>4. (\A b \in Apps : GoodApp(b))'
    BY <1>0 DEF GoodApp
  <1>5. app' \in [Apps -> App]
    BY <1>0
  <1>. QED BY <1>2, <1>3, <1>4, <1>5 DEF TypeInv, Shape

LEMMA BackType ==
    ASSUME TypeInv, NEW a \in Apps, Back(a)
    PROVE  TypeInv'
  <1>1. GoodApp(a) /\ app[a] \in App /\ app[a].screen = "code"
    BY Facts DEF TypeInv, Back
  <1>2. PICK x : x = [app[a] EXCEPT !.screen = "start"]
    OBVIOUS
  <1>3. x \in App /\ x.device = app[a].device /\ x.token = app[a].token
    BY <1>1, <1>2 DEF App
  <1>4. app' = [app EXCEPT ![a] = x]
    BY <1>2 DEF Back
  <1>. QED BY <1>1, <1>3, <1>4, AppOnly DEF Back, GoodApp, TypeInv, Shape

LEMMA SignOutType ==
    ASSUME TypeInv, NEW a \in Apps, SignOut(a)
    PROVE  TypeInv'
  <1>1. GoodApp(a) /\ app[a] \in App /\ app[a].token # 0
    BY Facts DEF TypeInv, SignOut
  <1>2. PICK x : x = [app[a] EXCEPT !.token = 0]
    OBVIOUS
  <1>3. x \in App /\ x.device = app[a].device /\ x.token = 0 /\ 0 <= Len(tokens)
    BY <1>1, <1>2, Facts DEF App
  <1>4. app' = [app EXCEPT ![a] = x]
    BY <1>2 DEF SignOut
  <1>5. app[a].device \in DOMAIN row /\ app[a].device # 0
    BY <1>1, Facts DEF GoodApp, App
  <1>6. disturbed' \in SUBSET DOMAIN row
    BY <1>5, ServedBy DEF SignOut, TypeInv, Shape
  <1>. QED BY <1>1, <1>3, <1>4, <1>5, <1>6, AppOnly DEF SignOut

\* A restart leaves each request as it is, ends it, or takes its app away.
LEMMA RestartTasks ==
    ASSUME TypeInv, NEW a \in Apps, Restart(a), NEW r \in Requests
    PROVE  \/ task'[r] = task[r] /\ task[r].app # a
           \/ task'[r] = Idle
           \/ task'[r] = [task[r] EXCEPT !.app = None] /\ task[r].pc \in ServerPcs
  <1>. DEFINE ended == [task[r] EXCEPT !.app = None]
  <1>1. GoodTask(task[r]) /\ task[r] \in Task /\ None # a
    BY ServedBy, Facts
  <1>2. task'[r] = CASE task[r].app # a -> task[r]
                     [] task[r].pc \in AppPcs -> Idle
                     [] task[r].pc \in ServerPcs -> ended
    BY DEF Restart
  <1>. HIDE DEF ended
  <1>3. ASSUME task[r].app = a PROVE task[r].pc # "idle"
    BY <1>1, <1>3 DEF GoodTask
  <1>4. CASE task[r].app # a
    <2>. QED BY <1>4 DEF Restart
  <1>5. CASE task[r].app = a /\ task[r].pc \in AppPcs
    <2>1. task[r].pc \notin ServerPcs
      BY <1>5 DEF AppPcs, ServerPcs
    <2>. QED BY <1>2, <1>5, <2>1
  <1>6. CASE task[r].app = a /\ task[r].pc \in ServerPcs
    <2>1. task[r].pc \notin AppPcs
      BY <1>6 DEF AppPcs, ServerPcs
    <2>. QED BY <1>2, <1>6, <2>1 DEF ended
  <1>7. task[r].pc \in {"idle"} \cup ServerPcs \cup AppPcs
    BY <1>1 DEF Task
  <1>. QED BY <1>3, <1>4, <1>5, <1>6, <1>7

LEMMA RestartType ==
    ASSUME TypeInv, NEW a \in Apps, Restart(a)
    PROVE  TypeInv'
  <1>1. GoodApp(a) /\ app[a] \in App /\ app \in [Apps -> App]
        /\ row' = row /\ tokens' = tokens /\ expired' = expired /\ disturbed' = disturbed
    BY DEF TypeInv, Shape, Restart
  <1>2. PICK sc \in {"start", "main"} : sc = IF app[a].token # 0 THEN "main" ELSE "start"
    OBVIOUS
  <1>3. PICK x : x = [app[a] EXCEPT !.screen = sc]
    OBVIOUS
  <1>4. x \in App /\ x.device = app[a].device /\ x.token = app[a].token /\ x.screen = sc
    BY <1>1, <1>2, <1>3 DEF App
  <1>5. app' = [app EXCEPT ![a] = x]
    BY <1>2, <1>3 DEF Restart
  <1>6. Grows
    BY <1>1, <1>4, <1>5, Facts DEF Grows
  <1>7. (\A d \in DOMAIN row : GoodRow(d))'
    BY <1>1 DEF TypeInv, GoodRow, HasRow, Issued
  <1>8. (\A b \in Apps : GoodApp(b))' /\ app' \in [Apps -> App]
    <2>1. GoodApp(a)'
      BY <1>1, <1>2, <1>4, <1>5 DEF GoodApp
    <2>2. ASSUME NEW b \in Apps, b # a PROVE GoodApp(b)'
      <3>1. GoodApp(b)
        BY DEF TypeInv
      <3>. QED BY <1>1, <1>5, <2>2, <3>1 DEF GoodApp
    <2>. QED BY <1>1, <1>4, <1>5, <2>1, <2>2
  <1>9. ASSUME NEW r \in Requests
        PROVE  GoodTask(task[r])' /\ task'[r] \in Task
    <2>1. PICK u : u = task'[r]
      OBVIOUS
    <2>2. GoodTask(u)
      <3>1. CASE u = task[r]
        BY <3>1, ServedBy
      <3>2. CASE u = Idle
        BY <3>2, IdleGood
      <3>3. CASE u = [task[r] EXCEPT !.app = None] /\ task[r].pc \in ServerPcs
        <4>1. GoodTask(task[r]) /\ task[r] \in Task /\ None \notin Apps
          BY ServedBy, Facts
        <4>2. /\ u \in Task /\ u.pc = task[r].pc /\ u.app = None /\ u.token = task[r].token
              /\ u.device = task[r].device /\ u.again = task[r].again
          BY <3>3, <4>1 DEF Task
        <4>3. u.pc \notin AppPcs /\ u.pc # "idle"
          BY <3>3, <4>2 DEF ServerPcs, AppPcs
        <4>. QED BY <4>1, <4>2, <4>3 DEF GoodTask
      <3>. QED BY <2>1, <3>1, <3>2, <3>3, RestartTasks
    <2>3. GoodTask(u)'
      BY <1>1, <1>6, <2>2, Facts, TaskStays
    <2>. QED BY <2>1, <2>3 DEF GoodTask
  <1>10. task' \in [Requests -> Task]
    <2>. DEFINE after(r) == CASE task[r].app # a -> task[r]
                              [] task[r].pc \in AppPcs -> Idle
                              [] task[r].pc \in ServerPcs -> [task[r] EXCEPT !.app = None]
    <2>1. task' = [r \in Requests |-> after(r)]
      BY DEF Restart
    <2>. HIDE DEF after
    <2>2. \A r \in Requests : after(r) \in Task
      BY <1>9, <2>1
    <2>. QED BY <2>1, <2>2
  <1>. QED BY <1>1, <1>7, <1>8, <1>9, <1>10 DEF TypeInv, Shape

LEMMA ExpireType ==
    ASSUME TypeInv, Expire
    PROVE  TypeInv'
  <1>1. expired + 1 \in 1..Len(tokens) /\ expired \in Nat
    BY Facts DEF TypeInv, Shape, Expire
  <1>2. tokens[expired + 1] \in DOMAIN row
    BY <1>1, Facts
  <1>3. Grows
    BY Facts DEF Expire, Grows
  <1>4. (\A s \in Requests : GoodTask(task[s]))'
    BY <1>3, Facts, TasksStay DEF Expire
  <1>5. (\A d \in DOMAIN row : GoodRow(d))' /\ (\A b \in Apps : GoodApp(b))'
    BY DEF TypeInv, GoodRow, HasRow, Issued, GoodApp, Expire
  <1>6. disturbed' \in SUBSET DOMAIN row /\ expired' \in 0..Len(tokens)
    BY <1>1, <1>2, ServedBy DEF Expire, TypeInv, Shape
  <1>. QED BY <1>4, <1>5, <1>6 DEF TypeInv, Shape, Expire

LEMMA StutterType ==
    ASSUME TypeInv, UNCHANGED vars
    PROVE  TypeInv'
  BY DEF TypeInv, Shape, GoodRow, GoodApp, GoodTask, HasRow, Issued, vars

LEMMA NextType ==
    ASSUME TypeInv, [Next]_vars
    PROVE  TypeInv'
  <1>1. ASSUME NEW r \in Requests, Step(r)
        PROVE  TypeInv'
    BY <1>1, CreateSessionType, SaveLoginType, GuardType, RefuseType, LogoutType,
       FindSessionType, DeleteSessionType, ReadTokenType, RefreshType, RotateTokensType,
       SaveTokensType, SendAgainType, ClearTokensType DEF Step
  <1>2. ASSUME NEW r \in Requests, NEW a \in Apps, NEW op \in Operations[a], Request(r, a, op, 0)
        PROVE  TypeInv'
    BY <1>2, RequestType, SessionsAssumption DEF SessionsAssumption
  <1>3. ASSUME NEW r \in Requests, NEW a \in Apps, NEW id \in Listed, Request(r, a, "revoke", id)
        PROVE  TypeInv'
    <2>1. id \in Nat
      BY Facts DEF Listed, Row
    <2>. QED BY <1>3, <2>1, RequestType
  <1>. QED
    BY <1>1, <1>2, <1>3, LoginType, SubmitType, BackType, SignOutType, RestartType, FailType,
       ExpireType, StutterType DEF Next

\* Rows, tokens, apps and requests keep their types; no token, row or request
\* refers to a device that was not made up.
THEOREM TypeCorrect == Spec => []TypeOK
  <1>1. Init => TypeInv
    BY InitType
  <1>2. TypeInv => TypeOK
    BY DEF TypeInv, TypeOK, Shape, GoodApp, GoodTask
  <1>. QED BY <1>1, <1>2, NextType, PTL DEF Spec

-----------------------------------------------------------------------------
(* How sessions begin and end *)

LEMMA RowChanges ==
    ASSUME [Next]_vars
    PROVE  \/ row' = row
           \/ \E r \in Requests : CreateSession(r) \/ RotateTokens(r) \/ Logout(r) \/ DeleteSession(r)
           \/ \E a \in Apps : Submit(a)
  <1>1. ASSUME NEW r \in Requests, Step(r)
        PROVE  row' = row \/ CreateSession(r) \/ RotateTokens(r) \/ Logout(r) \/ DeleteSession(r)
    BY <1>1 DEF Step, SaveLogin, Guard, Refuse, FindSession, ReadToken, Refresh, SaveTokens,
                SendAgain, ClearTokens
  <1>. QED
    BY <1>1 DEF Next, vars, Login, Request, Back, SignOut, Restart, Fail, LoseRequest,
                LoseRefresh, Expire

\* A row stays, is made at the end of a login, or ends as it should.
LEMMA RowMoves ==
    ASSUME TypeInv, [Next]_vars, NEW d \in DOMAIN row
    PROVE  \/ HasRow(d)' <=> HasRow(d)
           \/ HasRow(d)' /\ \E r \in Requests : At(r, "upsert") /\ task[r].device = d
           \/ /\ ~HasRow(d)'
              /\ d \in disturbed'
              /\ \E r \in Requests :
                     \/ At(r, "logout") /\ tokens[task[r].token] = d
                     \/ At(r, "delete") /\ task[r].id = row[d].id
  <1>1. ASSUME NEW r \in Requests, CreateSession(r)
        PROVE  \/ HasRow(d)' <=> HasRow(d)
               \/ HasRow(d)' /\ At(r, "upsert") /\ task[r].device = d
    <2>1. CASE task[r].device = d
      <3>1. PICK i : row'[d] = [id |-> i, token |-> Signed(r)]
        BY <1>1, <2>1 DEF CreateSession
      <3>2. Signed(r) # 0
        BY <1>1, ServedBy DEF CreateSession, At, GoodTask, SignedPcs, Signed
      <3>. QED BY <1>1, <2>1, <3>1, <3>2 DEF CreateSession, HasRow, NoRow
    <2>2. CASE task[r].device # d
      BY <1>1, <2>2 DEF CreateSession, HasRow
    <2>. QED BY <2>1, <2>2
  <1>2. ASSUME NEW r \in Requests, RotateTokens(r)
        PROVE  HasRow(d)' <=> HasRow(d)
    <2>1. CASE row' = row
      BY <2>1 DEF HasRow
    <2>2. CASE row' = [row EXCEPT ![task[r].device].token = Signed(r)] /\ HasRow(task[r].device)
      <3>1. CASE task[r].device = d
        <4>1. Signed(r) # 0
          BY <1>2, ServedBy DEF RotateTokens, At, GoodTask, SignedPcs, Signed
        <4>2. row[d] \in Row
          BY Facts
        <4>3. row'[d] = [row[d] EXCEPT !.token = Signed(r)]
          BY <2>2, <3>1
        <4>4. row'[d].token = Signed(r)
          BY <4>2, <4>3 DEF Row
        <4>. QED BY <2>2, <3>1, <4>1, <4>4 DEF HasRow, NoRow
      <3>2. CASE task[r].device # d
        BY <2>2, <3>2 DEF HasRow
      <3>. QED BY <3>1, <3>2
    <2>. QED BY <1>2, <2>1, <2>2 DEF RotateTokens
  <1>3. ASSUME NEW r \in Requests, Logout(r)
        PROVE  \/ HasRow(d)' <=> HasRow(d)
               \/ /\ ~HasRow(d)' /\ d \in disturbed'
                  /\ At(r, "logout") /\ tokens[task[r].token] = d
    <2>1. CASE tokens[task[r].token] = d
      BY <1>3, <2>1 DEF Logout, HasRow, Ended, RequestFails
    <2>2. CASE tokens[task[r].token] # d
      BY <1>3, <2>2 DEF Logout, HasRow
    <2>. QED BY <2>1, <2>2
  <1>4. ASSUME NEW r \in Requests, DeleteSession(r)
        PROVE  \/ HasRow(d)' <=> HasRow(d)
               \/ ~HasRow(d)' /\ d \in disturbed' /\ At(r, "delete") /\ task[r].id = row[d].id
    <2>1. CASE d \in Named(task[r].id)
      <3>1. row'[d] = NoRow /\ d \in disturbed' /\ task[r].id = row[d].id
        BY <1>4, <2>1 DEF DeleteSession, Named, Ended, RequestFails
      <3>. QED BY <1>4, <3>1 DEF DeleteSession, HasRow
    <2>2. CASE d \notin Named(task[r].id)
      <3>1. row'[d] = row[d]
        BY <1>4, <2>2 DEF DeleteSession
      <3>. QED BY <3>1 DEF HasRow
    <2>. QED BY <2>1, <2>2
  <1>5. ASSUME NEW a \in Apps, Submit(a)
        PROVE  HasRow(d)' <=> HasRow(d)
    BY <1>5, SubmitType, Facts DEF HasRow
  <1>6. ASSUME row' = row
        PROVE  HasRow(d)' <=> HasRow(d)
    BY <1>6 DEF HasRow
  <1>. QED BY <1>1, <1>2, <1>3, <1>4, <1>5, <1>6, RowChanges

\* A renewal that passed its checks before a logout or a revocation does not
\* bring the session back (auth.service.ts:338-356).
THEOREM LoginsOpenSessions == Spec => OnlyLoginOpensSession
  <1>1. Init => TypeInv
    BY InitType
  <1>2. TypeInv /\ [Next]_vars =>
            [\A d \in DOMAIN row :
                ~HasRow(d) /\ HasRow(d)' =>
                    \E r \in Requests : At(r, "upsert") /\ task[r].device = d]_vars
    BY RowMoves
  <1>. QED BY <1>1, <1>2, NextType, PTL DEF Spec, OnlyLoginOpensSession

\* A logout or a revocation ends the session it is for and no other
\* (auth.service.ts:167-173, 194-204).
THEOREM NamedSessionsEnd == Spec => OnlyNamedSessionEnds
  <1>1. Init => TypeInv
    BY InitType
  <1>2. TypeInv /\ [Next]_vars =>
            [\A d \in DOMAIN row :
                HasRow(d) /\ ~HasRow(d)' =>
                    \E r \in Requests :
                        \/ At(r, "logout") /\ tokens[task[r].token] = d
                        \/ At(r, "delete") /\ task[r].id = row[d].id]_vars
    BY RowMoves
  <1>. QED BY <1>1, <1>2, NextType, PTL DEF Spec, OnlyNamedSessionEnds

-----------------------------------------------------------------------------
(* Nobody is signed out in vain: while nothing has disturbed an app's device, *)
(* the app has tokens of that device and the device has a row.                *)

GuardedPcs ==
    {"guard", "logout", "find", "delete", "read", "check", "rotate", "save", "send", "clear"}

QuietApp(a) ==
    \/ app[a].device \in disturbed
    \/ /\ app[a].token # 0 =>
              tokens[app[a].token] = app[a].device /\ HasRow(app[a].device)
       /\ app[a].screen = "main" => app[a].token # 0

QuietTask(t) ==
    /\ t.pc \in LoginPcs /\ t.app \in Apps =>
           t.device = app[t.app].device \/ app[t.app].device \in disturbed
    /\ t.pc \in {"signedIn", "check", "rotate", "save"} =>
           t.device \in disturbed \/ HasRow(t.device)
    /\ t.pc = "check" => t.device \in disturbed \/ tokens[t.token] = t.device
    /\ t.pc \in GuardedPcs /\ t.app \in Apps =>
           /\ app[t.app].screen = "main"
           /\ t.pc \in RenewPcs \/ t.again > 0 => t.device = app[t.app].device
    /\ t.pc = "clear" => t.device \in disturbed

QuietInv ==
    /\ TypeInv
    /\ \A t \in 1..expired : tokens[t] \in disturbed
    /\ \A a \in Apps : QuietApp(a)
    /\ \A r \in Requests : QuietTask(task[r])

LEMMA InitQuiet == Init => QuietInv
  <1>. SUFFICES ASSUME Init PROVE QuietInv
    OBVIOUS
  <1>1. expired = 0
    BY DEF Init
  <1>2. \A a \in Apps : app[a].token = 0 /\ app[a].screen = "start"
    BY DEF Init
  <1>3. \A a \in Apps : QuietApp(a)
    BY <1>2 DEF QuietApp
  <1>4. \A r \in Requests : task[r].pc = "idle"
    BY IdleType DEF Init
  <1>5. \A r \in Requests : QuietTask(task[r])
    BY <1>4 DEF QuietTask, LoginPcs, GuardedPcs
  <1>. QED BY <1>1, <1>3, <1>5, InitType DEF QuietInv

LEMMA DisturbedGrows ==
    ASSUME [Next]_vars
    PROVE  disturbed \subseteq disturbed'
  <1>1. ASSUME NEW r \in Requests, NEW ended, RequestFails(r, ended) \/ Ended(r, ended)
        PROVE  disturbed \subseteq disturbed'
    BY <1>1 DEF RequestFails, Ended
  <1>2. ASSUME NEW r \in Requests, Step(r)
        PROVE  disturbed \subseteq disturbed'
    BY <1>1, <1>2 DEF Step, CreateSession, SaveLogin, Guard, Refuse, Logout, FindSession,
       DeleteSession, ReadToken, Refresh, RotateTokens, SaveTokens, SendAgain, ClearTokens
  <1>. QED
    BY <1>1, <1>2 DEF Next, vars, Login, Request, Submit, Back, SignOut, Restart, Fail,
       LoseRequest, LoseRefresh, Expire

\* A device that is not disturbed keeps its row, and the tokens keep their devices.
LEMMA QuietRows ==
    ASSUME QuietInv, [Next]_vars
    PROVE  /\ \A d \in DOMAIN row : HasRow(d) => HasRow(d)' \/ d \in disturbed'
           /\ disturbed \subseteq disturbed'
           /\ TypeInv'
  BY RowMoves, NextType, DisturbedGrows DEF QuietInv

LEMMA TokensGrow ==
    ASSUME TypeInv, [Next]_vars
    PROVE  \A t \in 1..Len(tokens) : tokens'[t] = tokens[t]
  <1>1. CASE tokens' = tokens
    BY <1>1
  <1>2. CASE \E d \in DOMAIN row : tokens' = Append(tokens, d)
    BY <1>2, AppendProperties DEF TypeInv, Shape
  <1>3. ASSUME NEW r \in Requests, NEW a \in Apps, Login(r, a)
        PROVE  \E d \in DOMAIN row : tokens' = Append(tokens, d)
    <2>1. app[a].device \in DOMAIN row
      BY <1>3, Facts DEF Login, TypeInv, GoodApp, App
    <2>. QED BY <1>3, <2>1 DEF Login
  <1>4. ASSUME NEW r \in Requests, Refresh(r)
        PROVE  tokens' = tokens \/ \E d \in DOMAIN row : tokens' = Append(tokens, d)
    <2>1. task[r].device \in DOMAIN row
      BY <1>4, ServedBy, Facts DEF Refresh, At, GoodTask, RenewPcs, Task
    <2>. QED BY <1>4, <2>1 DEF Refresh
  <1>5. ASSUME NEW r \in Requests, Step(r)
        PROVE  tokens' = tokens \/ \E d \in DOMAIN row : tokens' = Append(tokens, d)
    BY <1>4, <1>5 DEF Step, CreateSession, SaveLogin, Guard, Refuse, Logout, FindSession,
       DeleteSession, ReadToken, RotateTokens, SaveTokens, SendAgain, ClearTokens
  <1>6. tokens' = tokens \/ \E d \in DOMAIN row : tokens' = Append(tokens, d)
    BY <1>3, <1>5 DEF Next, vars, Request, Submit, Back, SignOut, Restart, Fail,
       LoseRequest, LoseRefresh, Expire
  <1>. QED BY <1>1, <1>2, <1>6

\* What a request knows of its device stays so, or the device is disturbed.
LEMMA QuietDevice ==
    ASSUME QuietInv, [Next]_vars, NEW u, GoodTask(u), QuietTask(u)
    PROVE  /\ u.pc \in {"signedIn", "check", "rotate", "save"} =>
                  u.device \in disturbed' \/ HasRow(u.device)'
           /\ u.pc = "check" => u.device \in disturbed' \/ tokens'[u.token] = u.device
           /\ u.pc = "clear" => u.device \in disturbed'
  <1>1. /\ \A d \in DOMAIN row : HasRow(d) => HasRow(d)' \/ d \in disturbed'
        /\ disturbed \subseteq disturbed'
        /\ \A t \in 1..Len(tokens) : tokens'[t] = tokens[t]
    BY QuietRows, TokensGrow DEF QuietInv
  <1>2. /\ u.token \in Nat /\ u.device \in Nat /\ u.token <= Len(tokens) /\ u.device <= Len(row)
        /\ Len(row) \in Nat /\ DOMAIN row = 1..Len(row) /\ Len(tokens) \in Nat
    BY Facts DEF QuietInv, GoodTask, Task
  <1>3. u.pc \in {"signedIn", "check", "rotate", "save"} => u.device \in DOMAIN row
    <2>1. u.pc \in RenewPcs => u.device # 0
      BY DEF GoodTask
    <2>2. u.pc \in SignedPcs => u.token # 0 /\ tokens[u.token] = u.device
      BY DEF GoodTask
    <2>3. u.pc \in SignedPcs => u.device \in DOMAIN row
      BY <1>2, <2>2, Facts DEF QuietInv
    <2>. QED BY <1>2, <2>1, <2>3 DEF RenewPcs, SignedPcs
  <1>4. u.pc \in {"signedIn", "check", "rotate", "save"} =>
            u.device \in disturbed' \/ HasRow(u.device)'
    BY <1>1, <1>3 DEF QuietTask
  <1>5. u.pc = "check" => u.device \in disturbed' \/ tokens'[u.token] = u.device
    <2>1. u.pc = "check" => u.token \in 1..Len(tokens)
      BY <1>2 DEF GoodTask
    <2>. QED BY <1>1, <2>1 DEF QuietTask
  <1>. QED BY <1>1, <1>4, <1>5 DEF QuietTask

\* Another request is as quiet as it was while its app's device and screen stay.
LEMMA QuietStays ==
    ASSUME QuietInv, [Next]_vars, NEW u, GoodTask(u), QuietTask(u),
           u.app \in Apps => /\ app'[u.app].device = app[u.app].device
                             /\ app[u.app].screen = "main" => app'[u.app].screen = "main"
    PROVE  QuietTask(u)'
  <1>1. disturbed \subseteq disturbed'
    BY QuietRows
  <1>2. /\ u.pc \in LoginPcs /\ u.app \in Apps =>
              u.device = app'[u.app].device \/ app'[u.app].device \in disturbed'
        /\ u.pc \in GuardedPcs /\ u.app \in Apps =>
              /\ app'[u.app].screen = "main"
              /\ u.pc \in RenewPcs \/ u.again > 0 => u.device = app'[u.app].device
    BY <1>1 DEF QuietTask
  <1>. QED BY <1>2, QuietDevice DEF QuietTask

LEMMA AppQuietStays ==
    ASSUME QuietInv, [Next]_vars, NEW b \in Apps, app'[b] = app[b]
    PROVE  QuietApp(b)'
  <1>1. /\ \A d \in DOMAIN row : HasRow(d) => HasRow(d)' \/ d \in disturbed'
        /\ disturbed \subseteq disturbed'
        /\ \A t \in 1..Len(tokens) : tokens'[t] = tokens[t]
        /\ QuietApp(b)
    BY QuietRows, TokensGrow DEF QuietInv
  <1>2. app[b].token # 0 => app[b].token \in 1..Len(tokens) /\ app[b].device \in DOMAIN row
    BY Facts DEF QuietInv, TypeInv, GoodApp, App
  <1>. QED BY <1>1, <1>2 DEF QuietApp

LEMMA ExpiredStayDisturbed ==
    ASSUME QuietInv, [Next]_vars, expired' = expired
    PROVE  \A k \in 1..expired' : tokens'[k] \in disturbed'
  <1>1. /\ disturbed \subseteq disturbed'
        /\ \A k \in 1..Len(tokens) : tokens'[k] = tokens[k]
    BY QuietRows, TokensGrow DEF QuietInv
  <1>2. /\ \A k \in 1..expired : tokens[k] \in disturbed
        /\ expired \in 0..Len(tokens) /\ Len(tokens) \in Nat
    BY Facts DEF QuietInv, TypeInv, Shape
  <1>3. \A k \in 1..expired : k \in 1..Len(tokens)
    BY <1>2
  <1>. QED BY <1>1, <1>2, <1>3

\* One request goes on with t; no app's device changes, and no app leaves main.
LEMMA QuietStep ==
    ASSUME QuietInv, [Next]_vars, expired' = expired,
           NEW r \in Requests, NEW t, task' = [task EXCEPT ![r] = t], QuietTask(t)',
           \A b \in Apps : /\ app'[b].device = app[b].device
                           /\ app[b].screen = "main" => app'[b].screen = "main",
           (\A b \in Apps : QuietApp(b))'
    PROVE  QuietInv'
  <1>1. TypeInv'
    BY QuietRows
  <1>2. \A k \in 1..expired' : tokens'[k] \in disturbed'
    BY ExpiredStayDisturbed
  <1>3. ASSUME NEW s \in Requests
        PROVE  QuietTask(task[s])'
    <2>0. task \in [Requests -> Task]
      BY DEF QuietInv, TypeInv, Shape
    <2>1. CASE s = r
      <3>1. task'[s] = t
        BY <2>0, <2>1
      <3>. QED BY <3>1 DEF QuietTask
    <2>2. CASE s # r
      <3>1. PICK u : u = task[s] /\ GoodTask(u) /\ QuietTask(u)
        BY DEF QuietInv, TypeInv
      <3>2. QuietTask(u)'
        BY <3>1, QuietStays
      <3>3. task'[s] = u
        BY <2>0, <2>2, <3>1
      <3>. QED BY <3>2, <3>3 DEF QuietTask
    <2>. QED BY <2>1, <2>2
  <1>. QED BY <1>1, <1>2, <1>3 DEF QuietInv

LEMMA IdleQuiet == QuietTask(Idle)'
  BY IdleType DEF QuietTask, LoginPcs, GuardedPcs

\* A guarded request goes on as t.
LEMMA QuietGoes ==
    ASSUME QuietInv, [Next]_vars, NEW r \in Requests, NEW t,
           task[r].pc \in GuardedPcs, t.pc \in GuardedPcs,
           t.app = task[r].app, t.device = task[r].device,
           t.pc \in RenewPcs \/ t.again > 0 => task[r].pc \in RenewPcs \/ task[r].again > 0,
           t.pc \in {"rotate", "save"} => t.device \in disturbed' \/ HasRow(t.device)',
           t.pc = "clear" => t.device \in disturbed',
           t.pc # "check",
           t.app \in Apps => /\ app'[t.app].device = app[t.app].device
                             /\ app[t.app].screen = "main" => app'[t.app].screen = "main"
    PROVE  QuietTask(t)'
  <1>1. QuietTask(task[r])
    BY DEF QuietInv
  <1>2. t.pc \notin LoginPcs /\ t.pc # "signedIn"
    BY DEF GuardedPcs, LoginPcs
  <1>3. t.app \in Apps => /\ app'[t.app].screen = "main"
                          /\ t.pc \in RenewPcs \/ t.again > 0 => t.device = app'[t.app].device
    BY <1>1 DEF QuietTask
  <1>. QED BY <1>2, <1>3 DEF QuietTask

\* One request goes on with t, and its app does not change.
LEMMA QuietTaskStep ==
    ASSUME QuietInv, [Next]_vars, expired' = expired, app' = app,
           NEW r \in Requests, NEW t, task' = [task EXCEPT ![r] = t], QuietTask(t)'
    PROVE  QuietInv'
  <1>1. (\A b \in Apps : QuietApp(b))'
    BY AppQuietStays
  <1>. QED BY <1>1, QuietStep

\* One request ends, and its app does not change.
LEMMA QuietEnd ==
    ASSUME QuietInv, [Next]_vars, expired' = expired, app' = app,
           NEW r \in Requests, End(r)
    PROVE  QuietInv'
  BY IdleQuiet, QuietTaskStep DEF End

\* A guarded request goes on at pc.
LEMMA QuietGo ==
    ASSUME QuietInv, [Next]_vars, expired' = expired, app' = app,
           NEW r \in Requests, NEW pc \in GuardedPcs \ {"check"}, Go(r, pc),
           task[r].pc \in GuardedPcs, NEW d, d = task[r].device,
           pc \in RenewPcs => task[r].pc \in RenewPcs \/ task[r].again > 0,
           pc \in {"rotate", "save"} => d \in disturbed' \/ HasRow(d)',
           pc = "clear" => d \in disturbed'
    PROVE  QuietInv'
  <1>1. PICK t : t = [task[r] EXCEPT !.pc = pc]
    OBVIOUS
  <1>2. task[r] \in Task
    BY ServedBy DEF QuietInv
  <1>3. /\ t.pc = pc /\ t.app = task[r].app /\ t.device = task[r].device
        /\ t.again = task[r].again
    BY <1>1, <1>2 DEF Task
  <1>4. t.device = d
    BY <1>3
  <1>5. /\ t.pc \in {"rotate", "save"} => t.device \in disturbed' \/ HasRow(t.device)'
        /\ t.pc = "clear" => t.device \in disturbed'
    BY <1>3, <1>4
  <1>6. QuietTask(t)'
    BY <1>3, <1>5, QuietGoes
  <1>7. task' = [task EXCEPT ![r] = t]
    BY <1>1 DEF Go
  <1>. QED BY <1>6, <1>7, QuietTaskStep

\* The answer of a guarded request reaches its app, or the request ends.
LEMMA QuietAnswer ==
    ASSUME QuietInv, [Next]_vars, expired' = expired, app' = app,
           NEW r \in Requests, NEW pc \in GuardedPcs \ {"check"}, Answer(r, pc),
           task[r].pc \in GuardedPcs, NEW d, d = task[r].device,
           pc \in RenewPcs => task[r].pc \in RenewPcs \/ task[r].again > 0,
           task[r].app # None /\ pc \in {"rotate", "save"} => d \in disturbed' \/ HasRow(d)',
           task[r].app # None /\ pc = "clear" => d \in disturbed'
    PROVE  QuietInv'
  <1>1. CASE task[r].app = None
    BY <1>1, QuietEnd DEF Answer
  <1>2. CASE task[r].app # None
    BY <1>2, QuietGo DEF Answer
  <1>. QED BY <1>1, <1>2

LEMMA QuietFails ==
    ASSUME QuietInv, [Next]_vars, expired' = expired, app' = app,
           NEW r \in Requests, NEW ended, RequestFails(r, ended),
           task[r].pc \in LoginPcs \cup GuardedPcs
    PROVE  QuietInv'
  <1>1. CASE task[r].again = 0 \/ task[r].app = None
    BY <1>1, QuietEnd DEF RequestFails
  <1>2. CASE ~(task[r].again = 0 \/ task[r].app = None)
    <2>1. GoodTask(task[r]) /\ task[r] \in Task /\ task[r].again \in Nat \ {0}
      BY <1>2, ServedBy DEF QuietInv, Task
    <2>2. task[r].pc \in GuardedPcs
      BY <2>1 DEF GoodTask
    <2>3. PICK n \in Nat : n = task[r].again - 1
      BY <2>1
    <2>4. PICK t : t = [task[r] EXCEPT !.pc = "clear", !.again = n]
      OBVIOUS
    <2>5. /\ task' = [task EXCEPT ![r] = t]
          /\ disturbed' = disturbed \cup ended \cup {task[r].device}
      BY <1>2, <2>3, <2>4 DEF RequestFails
    <2>6. /\ t.pc = "clear" /\ t.app = task[r].app /\ t.device = task[r].device
      BY <2>1, <2>4 DEF Task
    <2>7. t.pc \in GuardedPcs /\ t.pc # "check" /\ t.pc \notin {"rotate", "save"}
      BY <2>6 DEF GuardedPcs
    <2>8. t.device \in disturbed' /\ task[r].again > 0
      BY <2>1, <2>5, <2>6
    <2>9. QuietTask(t)'
      BY <2>2, <2>6, <2>7, <2>8, QuietGoes
    <2>. QED BY <2>5, <2>9, QuietTaskStep
  <1>. QED BY <1>1, <1>2

LEMMA FailQuiet ==
    ASSUME QuietInv, [Next]_vars, NEW r \in Requests, Fail(r)
    PROVE  QuietInv'
  <1>1. CASE LoseRequest(r)
    <2>1. task[r].pc \in LoginPcs \cup GuardedPcs
      BY <1>1 DEF LoseRequest, LoginPcs, GuardedPcs
    <2>. QED BY <1>1, <2>1, QuietFails DEF LoseRequest
  <1>2. CASE LoseRefresh(r)
    <2>1. task[r].pc \in {"check", "rotate", "save"} /\ Answer(r, "clear")
          /\ expired' = expired /\ app' = app
      BY <1>2 DEF LoseRefresh
    <2>2. PICK d : d = task[r].device
      OBVIOUS
    <2>3. task[r].app # None => d \in disturbed'
      BY <1>2, <2>2 DEF LoseRefresh
    <2>4. task[r].pc \in GuardedPcs /\ task[r].pc \in RenewPcs
          /\ "clear" \in GuardedPcs \ {"check"}
      BY <2>1 DEF GuardedPcs, RenewPcs
    <2>. QED BY <2>1, <2>2, <2>3, <2>4, QuietAnswer
  <1>. QED BY <1>1, <1>2 DEF Fail

LEMMA LoginQuiet ==
    ASSUME QuietInv, [Next]_vars, NEW r \in Requests, NEW a \in Apps, Login(r, a)
    PROVE  QuietInv'
  <1>1. PICK t : t = [Idle EXCEPT !.pc = "upsert", !.app = a, !.token = NewToken,
                                  !.device = app[a].device]
    OBVIOUS
  <1>2. task' = [task EXCEPT ![r] = t] /\ app' = app /\ expired' = expired
    BY <1>1 DEF Login, Begin
  <1>3. t.pc = "upsert" /\ t.app = a /\ t.device = app[a].device
    BY <1>1 DEF Idle
  <1>4. QuietTask(t)'
    BY <1>2, <1>3 DEF QuietTask, GuardedPcs
  <1>. QED BY <1>2, <1>4, QuietTaskStep

LEMMA CreateSessionQuiet ==
    ASSUME QuietInv, [Next]_vars, NEW r \in Requests, CreateSession(r)
    PROVE  QuietInv'
  <1>1. /\ app' = app /\ expired' = expired /\ task[r].pc = "upsert"
        /\ GoodTask(task[r]) /\ task[r] \in Task /\ QuietTask(task[r])
        /\ disturbed' = disturbed
    BY ServedBy DEF CreateSession, At, QuietInv
  <1>2. CASE task[r].app = None
    BY <1>1, <1>2, QuietEnd DEF CreateSession, Answer
  <1>3. CASE task[r].app # None
    <2>1. PICK t : t = [task[r] EXCEPT !.pc = "signedIn"]
      OBVIOUS
    <2>2. task' = [task EXCEPT ![r] = t]
      BY <1>3, <2>1 DEF CreateSession, Answer, Go
    <2>3. t.pc = "signedIn" /\ t.app = task[r].app /\ t.device = task[r].device
      BY <1>1, <2>1 DEF Task
    <2>4. Signed(r) # 0 /\ tokens[Signed(r)] = t.device /\ Signed(r) \in 1..Len(tokens)
      BY <1>1, <2>3, Facts DEF GoodTask, SignedPcs, Signed, Task, QuietInv
    <2>5. t.device \in DOMAIN row
      BY <2>4, Facts DEF QuietInv
    <2>6. PICK i : row'[t.device] = [id |-> i, token |-> Signed(r)]
      BY <2>3, <2>5 DEF CreateSession
    <2>7. HasRow(t.device)'
      BY <2>4, <2>6 DEF HasRow, NoRow
    <2>8. t.app \in Apps =>
              t.device = app'[t.app].device \/ app'[t.app].device \in disturbed'
      BY <1>1, <2>3 DEF QuietTask, LoginPcs
    <2>9. QuietTask(t)'
      BY <2>3, <2>7, <2>8 DEF QuietTask, GuardedPcs, LoginPcs
    <2>. QED BY <1>1, <2>2, <2>9, QuietTaskStep
  <1>. QED BY <1>2, <1>3

LEMMA RequestQuiet ==
    ASSUME QuietInv, [Next]_vars, NEW r \in Requests, NEW a \in Apps, NEW op, NEW id,
           Request(r, a, op, id)
    PROVE  QuietInv'
  <1>1. PICK t : t = [Idle EXCEPT !.pc = "guard", !.app = a, !.op = op, !.id = id,
                                  !.token = app[a].token]
    OBVIOUS
  <1>2. task' = [task EXCEPT ![r] = t] /\ app' = app /\ expired' = expired
        /\ app[a].screen = "main"
    BY <1>1 DEF Request, Begin
  <1>3. t.pc = "guard" /\ t.app = a /\ t.again = 0
    BY <1>1 DEF Idle
  <1>4. QuietTask(t)'
    BY <1>2, <1>3 DEF QuietTask, LoginPcs, RenewPcs
  <1>. QED BY <1>2, <1>4, QuietTaskStep

LEMMA ServeQuiet ==
    ASSUME QuietInv, [Next]_vars, NEW r \in Requests,
           Guard(r) \/ Refuse(r) \/ Logout(r) \/ FindSession(r) \/ DeleteSession(r)
    PROVE  QuietInv'
  <1>1. expired' = expired /\ app' = app
    BY DEF Guard, Refuse, Logout, FindSession, DeleteSession
  <1>2. task[r].pc \in {"guard", "logout", "find", "delete"} /\ task[r].pc \in GuardedPcs
    BY DEF Guard, Refuse, Logout, FindSession, DeleteSession, At, GuardedPcs
  <1>3. CASE End(r)
    BY <1>1, <1>3, QuietEnd
  <1>4. ASSUME NEW pc \in {"logout", "find", "delete"}, Go(r, pc)
        PROVE  QuietInv'
    <2>1. pc \in GuardedPcs \ {"check"} /\ pc \notin RenewPcs /\ pc \notin {"rotate", "save"}
          /\ pc # "clear"
      BY DEF GuardedPcs, RenewPcs
    <2>2. PICK d : d = task[r].device
      OBVIOUS
    <2>. QED BY <1>1, <1>2, <1>4, <2>1, <2>2, QuietGo
  <1>5. CASE Answer(r, "read")
    <2>1. "read" \in GuardedPcs \ {"check"} /\ "read" \notin RenewPcs
      BY DEF GuardedPcs, RenewPcs
    <2>2. PICK d : d = task[r].device
      OBVIOUS
    <2>. QED BY <1>1, <1>2, <1>5, <2>1, <2>2, QuietAnswer
  <1>6. ASSUME NEW ended, RequestFails(r, ended)
        PROVE  QuietInv'
    BY <1>1, <1>2, <1>6, QuietFails
  <1>7. CASE Guard(r)
    <2>1. task[r].op \in {"get", "logout", "revoke"}
      BY ServedBy DEF QuietInv, Task
    <2>2. \/ End(r)
          \/ \E pc \in {"logout", "find", "delete"} : Go(r, pc)
      BY <1>7, <2>1 DEF Guard
    <2>. QED BY <1>3, <1>4, <2>2
  <1>8. CASE FindSession(r)
    BY <1>3, <1>4, <1>8 DEF FindSession
  <1>9. CASE DeleteSession(r)
    BY <1>3, <1>6, <1>9 DEF DeleteSession, Ended
  <1>10. CASE Logout(r)
    BY <1>3, <1>6, <1>10 DEF Logout, Ended
  <1>11. CASE Refuse(r)
    BY <1>5, <1>11 DEF Refuse
  <1>. QED BY <1>7, <1>8, <1>9, <1>10, <1>11

\* The app of a guarded request shows its main screen, and its device is the one
\* that the request renews the tokens of.
LEMMA GuardedApp ==
    ASSUME QuietInv, NEW r \in Requests, task[r].pc \in GuardedPcs \cap AppPcs
    PROVE  \E a \in Apps : /\ task[r].app = a /\ app[a].screen = "main" /\ app[a] \in App
                           /\ GoodApp(a) /\ QuietApp(a) /\ app \in [Apps -> App]
                           /\ task[r].pc \in RenewPcs \/ task[r].again > 0 =>
                                  task[r].device = app[a].device
                           /\ GoodTask(task[r]) /\ QuietTask(task[r]) /\ task[r] \in Task
  <1>1. PICK a \in Apps : task[r].app = a
    BY ServedBy DEF QuietInv
  <1>2. /\ GoodTask(task[r]) /\ QuietTask(task[r]) /\ task[r] \in Task
        /\ GoodApp(a) /\ QuietApp(a) /\ app \in [Apps -> App]
    BY ServedBy DEF QuietInv, TypeInv, Shape
  <1>. QED BY <1>1, <1>2 DEF QuietTask

LEMMA ReadTokenQuiet ==
    ASSUME QuietInv, [Next]_vars, NEW r \in Requests, ReadToken(r)
    PROVE  QuietInv'
  <1>1. /\ app' = app /\ expired' = expired /\ row' = row /\ tokens' = tokens
        /\ disturbed' = disturbed /\ task[r].pc = "read"
    BY DEF ReadToken, At
  <1>2. task[r].pc \in GuardedPcs \cap AppPcs
    BY <1>1 DEF GuardedPcs, AppPcs
  <1>3. PICK a \in Apps : /\ task[r].app = a /\ app[a].screen = "main" /\ app[a] \in App
                          /\ GoodApp(a) /\ QuietApp(a) /\ task[r] \in Task
    BY <1>2, GuardedApp
  <1>4. PICK pc \in {"clear", "check"} : pc = IF app[a].token = 0 THEN "clear" ELSE "check"
    OBVIOUS
  <1>5. PICK t : t = [task[r] EXCEPT !.token = app[a].token, !.device = app[a].device, !.pc = pc]
    OBVIOUS
  <1>6. task' = [task EXCEPT ![r] = t]
    BY <1>3, <1>4, <1>5 DEF ReadToken
  <1>7. t.pc = pc /\ t.app = a /\ t.token = app[a].token /\ t.device = app[a].device
    BY <1>3, <1>5 DEF Task
  <1>8. \/ app[a].device \in disturbed
        \/ pc = "check" /\ tokens[app[a].token] = app[a].device /\ HasRow(app[a].device)
    BY <1>3, <1>4 DEF QuietApp
  <1>9. \/ t.device \in disturbed'
        \/ t.pc = "check" /\ tokens'[t.token] = t.device /\ HasRow(t.device)'
    BY <1>1, <1>7, <1>8 DEF HasRow
  <1>10. t.pc \notin LoginPcs
    BY <1>7 DEF LoginPcs
  <1>11. QuietTask(t)'
    BY <1>1, <1>3, <1>7, <1>9, <1>10 DEF QuietTask
  <1>. QED BY <1>1, <1>6, <1>11, QuietTaskStep

LEMMA RefreshQuiet ==
    ASSUME QuietInv, [Next]_vars, NEW r \in Requests, Refresh(r)
    PROVE  QuietInv'
  <1>1. /\ app' = app /\ expired' = expired /\ row' = row /\ disturbed' = disturbed
        /\ task[r].pc = "check" /\ task[r].pc \in GuardedPcs /\ task[r].pc \in RenewPcs
    BY DEF Refresh, At, GuardedPcs, RenewPcs
  <1>2. PICK d : d = task[r].device
    OBVIOUS
  <1>3. /\ GoodTask(task[r]) /\ QuietTask(task[r]) /\ task[r] \in Task
        /\ task[r].token \in 1..Len(tokens) /\ d \in DOMAIN row
    BY <1>1, <1>2, ServedBy, Facts DEF QuietInv, GoodTask, Task
  <1>4. CASE Accepted(task[r].token, d)
    <2>1. HasRow(d)'
      BY <1>1, <1>4 DEF Accepted, HasRow
    <2>2. PICK t : t = [task[r] EXCEPT !.pc = "rotate", !.token = NewToken]
      OBVIOUS
    <2>3. task' = [task EXCEPT ![r] = t]
      BY <1>2, <1>4, <2>2 DEF Refresh
    <2>4. /\ t.pc = "rotate" /\ t.app = task[r].app /\ t.device = d /\ t.device = task[r].device
          /\ t.pc \in GuardedPcs /\ t.pc # "check" /\ t.pc # "clear"
      BY <1>2, <1>3, <2>2 DEF Task, GuardedPcs
    <2>5. HasRow(t.device)'
      BY <2>1, <2>4
    <2>6. QuietTask(t)'
      BY <1>1, <2>4, <2>5, QuietGoes
    <2>. QED BY <1>1, <2>3, <2>6, QuietTaskStep
  <1>5. CASE ~Accepted(task[r].token, d)
    <2>1. Answer(r, "clear")
      BY <1>2, <1>5 DEF Refresh
    <2>2. ASSUME d \notin disturbed
          PROVE  Accepted(task[r].token, d)
      <3>1. HasRow(d) /\ tokens[task[r].token] = d
        BY <1>1, <1>2, <2>2 DEF QuietTask, QuietInv
      <3>2. row[d].token \in 1..Len(tokens) /\ tokens[row[d].token] = d
        BY <1>3, <3>1, Facts DEF QuietInv, TypeInv, GoodRow, Issued, Row
      <3>3. expired \in Nat /\ \A t \in 1..expired : tokens[t] \in disturbed
        BY Facts DEF QuietInv, TypeInv, Shape
      <3>4. Valid(task[r].token) /\ Valid(row[d].token)
        BY <1>3, <2>2, <3>1, <3>2, <3>3, Facts DEF Valid, QuietInv
      <3>. QED BY <3>1, <3>4 DEF Accepted, Hash
    <2>3. d \in disturbed'
      BY <1>1, <1>5, <2>2
    <2>4. "clear" \in GuardedPcs \ {"check"}
      BY DEF GuardedPcs
    <2>. QED BY <1>1, <1>2, <2>1, <2>3, <2>4, QuietAnswer
  <1>. QED BY <1>4, <1>5

LEMMA RotateTokensQuiet ==
    ASSUME QuietInv, [Next]_vars, NEW r \in Requests, RotateTokens(r)
    PROVE  QuietInv'
  <1>1. /\ app' = app /\ expired' = expired /\ disturbed' = disturbed
        /\ task[r].pc = "rotate" /\ task[r].pc \in GuardedPcs /\ task[r].pc \in RenewPcs
        /\ {"save", "clear"} \subseteq GuardedPcs \ {"check"}
    BY DEF RotateTokens, At, GuardedPcs, RenewPcs
  <1>2. PICK d : d = task[r].device
    OBVIOUS
  <1>3. /\ GoodTask(task[r]) /\ QuietTask(task[r]) /\ task[r] \in Task /\ d \in DOMAIN row
    BY <1>1, <1>2, ServedBy, Facts DEF QuietInv, GoodTask, Task
  <1>4. d \in disturbed \/ HasRow(d)
    BY <1>1, <1>2, <1>3 DEF QuietTask
  <1>5. CASE HasRow(d)
    <2>1. Answer(r, "save")
      BY <1>2, <1>5 DEF RotateTokens
    <2>2. d \in disturbed' \/ HasRow(d)'
      BY <1>3, <1>5, QuietRows
    <2>. QED BY <1>1, <1>2, <2>1, <2>2, QuietAnswer
  <1>6. CASE ~HasRow(d)
    <2>1. Answer(r, "clear") /\ d \in disturbed'
      BY <1>1, <1>2, <1>4, <1>6 DEF RotateTokens
    <2>. QED BY <1>1, <1>2, <2>1, QuietAnswer
  <1>. QED BY <1>5, <1>6

\* An app stores or drops tokens with its request, and keeps its device.
LEMMA QuietAppStep ==
    ASSUME QuietInv, [Next]_vars, expired' = expired,
           NEW r \in Requests, NEW t, task' = [task EXCEPT ![r] = t], QuietTask(t)',
           NEW a \in Apps, NEW x, app' = [app EXCEPT ![a] = x],
           x.device = app[a].device, app[a].screen = "main" => x.screen = "main",
           \/ x.device \in disturbed'
           \/ /\ x.token # 0 => tokens'[x.token] = x.device /\ HasRow(x.device)'
              /\ x.screen = "main" => x.token # 0
    PROVE  QuietInv'
  <1>1. app \in [Apps -> App]
    BY DEF QuietInv, TypeInv, Shape
  <1>2. \A b \in Apps : /\ app'[b].device = app[b].device
                        /\ app[b].screen = "main" => app'[b].screen = "main"
    BY <1>1
  <1>3. QuietApp(a)'
    <2>1. app'[a] = x
      BY <1>1
    <2>. QED BY <2>1 DEF QuietApp, HasRow
  <1>4. \A b \in Apps \ {a} : app'[b] = app[b]
    BY <1>1
  <1>5. (\A b \in Apps : QuietApp(b))'
    BY <1>3, <1>4, AppQuietStays
  <1>. QED BY <1>2, <1>5, QuietStep

LEMMA SaveTokensQuiet ==
    ASSUME QuietInv, [Next]_vars, NEW r \in Requests, SaveTokens(r)
    PROVE  QuietInv'
  <1>1. /\ row' = row /\ tokens' = tokens /\ expired' = expired /\ disturbed' = disturbed
        /\ task[r].pc = "save" /\ task[r].pc \in GuardedPcs /\ task[r].pc \in RenewPcs
    BY DEF SaveTokens, At, GuardedPcs, RenewPcs
  <1>2. task[r].pc \in GuardedPcs \cap AppPcs
    BY <1>1 DEF AppPcs
  <1>3. PICK a \in Apps : /\ task[r].app = a /\ app[a].screen = "main" /\ app[a] \in App
                          /\ app \in [Apps -> App] /\ task[r].device = app[a].device
                          /\ GoodTask(task[r]) /\ QuietTask(task[r]) /\ task[r] \in Task
    BY <1>1, <1>2, GuardedApp
  <1>4. PICK k : k = Signed(r) /\ k # 0 /\ tokens[k] = app[a].device
    BY <1>1, <1>3 DEF GoodTask, SignedPcs, Signed
  <1>5. PICK x : x = [app[a] EXCEPT !.token = k]
    OBVIOUS
  <1>6. app' = [app EXCEPT ![a] = x]
    BY <1>3, <1>4, <1>5 DEF SaveTokens
  <1>7. x.device = app[a].device /\ x.screen = "main" /\ x.token = k
    BY <1>3, <1>5 DEF App
  <1>8. PICK t : t = [task[r] EXCEPT !.pc = "send"]
    OBVIOUS
  <1>9. task' = [task EXCEPT ![r] = t]
    BY <1>8 DEF SaveTokens, Go
  <1>10. /\ t.pc = "send" /\ t.app = a /\ t.app = task[r].app /\ t.device = task[r].device
         /\ t.pc \in GuardedPcs
    BY <1>3, <1>8 DEF Task, GuardedPcs
  <1>11. app'[a] = x
    BY <1>3, <1>6
  <1>12. QuietTask(t)'
    BY <1>1, <1>7, <1>10, <1>11, QuietGoes
  <1>13. x.device \in disturbed' \/ HasRow(x.device)'
    BY <1>1, <1>3, <1>7 DEF QuietTask, HasRow
  <1>. QED BY <1>1, <1>4, <1>6, <1>7, <1>9, <1>12, <1>13, QuietAppStep

LEMMA SendAgainQuiet ==
    ASSUME QuietInv, [Next]_vars, NEW r \in Requests, SendAgain(r)
    PROVE  QuietInv'
  <1>1. /\ app' = app /\ expired' = expired
        /\ task[r].pc = "send" /\ task[r].pc \in GuardedPcs /\ task[r].pc \in RenewPcs
        /\ task[r] \in Task
    BY ServedBy DEF SendAgain, At, GuardedPcs, RenewPcs, QuietInv
  <1>2. PICK n : n = task[r].again + 1
    OBVIOUS
  <1>3. PICK k : k = IF app[task[r].app].token # 0 THEN app[task[r].app].token ELSE task[r].token
    OBVIOUS
  <1>4. PICK t : t = [task[r] EXCEPT !.pc = "guard", !.again = n, !.token = k]
    OBVIOUS
  <1>5. task' = [task EXCEPT ![r] = t]
    BY <1>2, <1>3, <1>4 DEF SendAgain
  <1>6. t.pc = "guard" /\ t.app = task[r].app /\ t.device = task[r].device /\ t.pc \in GuardedPcs
    BY <1>1, <1>4 DEF Task, GuardedPcs
  <1>7. QuietTask(t)'
    BY <1>1, <1>6, QuietGoes
  <1>. QED BY <1>1, <1>5, <1>7, QuietTaskStep

LEMMA ClearTokensQuiet ==
    ASSUME QuietInv, [Next]_vars, NEW r \in Requests, ClearTokens(r)
    PROVE  QuietInv'
  <1>1. /\ expired' = expired /\ disturbed' = disturbed
        /\ task[r].pc = "clear" /\ task[r].pc \in GuardedPcs /\ task[r].pc \in RenewPcs
    BY DEF ClearTokens, At, GuardedPcs, RenewPcs
  <1>2. task[r].pc \in GuardedPcs \cap AppPcs
    BY <1>1 DEF AppPcs
  <1>3. PICK a \in Apps : /\ task[r].app = a /\ app[a].screen = "main" /\ app[a] \in App
                          /\ app \in [Apps -> App] /\ task[r].device = app[a].device
                          /\ QuietTask(task[r]) /\ task[r] \in Task
    BY <1>1, <1>2, GuardedApp
  <1>4. PICK x : x = [app[a] EXCEPT !.token = 0]
    OBVIOUS
  <1>5. app' = [app EXCEPT ![a] = x]
    BY <1>3, <1>4 DEF ClearTokens
  <1>6. x.device = app[a].device /\ x.screen = "main"
    BY <1>3, <1>4 DEF App
  <1>7. x.device \in disturbed'
    BY <1>1, <1>3, <1>6 DEF QuietTask
  <1>8. app'[a] = x
    BY <1>3, <1>5
  <1>9. \E t : task' = [task EXCEPT ![r] = t] /\ QuietTask(t)'
    <2>1. CASE task[r].again > 0
      <3>1. PICK n : n = task[r].again - 1
        OBVIOUS
      <3>2. PICK t : t = [task[r] EXCEPT !.again = n]
        OBVIOUS
      <3>3. task' = [task EXCEPT ![r] = t]
        BY <2>1, <3>1, <3>2 DEF ClearTokens
      <3>4. /\ t.pc = "clear" /\ t.app = task[r].app /\ t.device = task[r].device
            /\ t.app = a /\ t.pc \in GuardedPcs /\ t.device \in disturbed'
        BY <1>1, <1>3, <1>6, <1>7, <3>2 DEF Task
      <3>5. QuietTask(t)'
        BY <1>1, <1>6, <1>8, <3>4, QuietGoes
      <3>. QED BY <3>3, <3>5
    <2>2. CASE ~(task[r].again > 0)
      BY <2>2, IdleQuiet DEF ClearTokens, End
    <2>. QED BY <2>1, <2>2
  <1>10. PICK t : task' = [task EXCEPT ![r] = t] /\ QuietTask(t)'
    BY <1>9
  <1>. QED BY <1>1, <1>5, <1>6, <1>7, <1>10, QuietAppStep

LEMMA SaveLoginQuiet ==
    ASSUME QuietInv, [Next]_vars, NEW r \in Requests, SaveLogin(r)
    PROVE  QuietInv'
  <1>1. /\ row' = row /\ tokens' = tokens /\ expired' = expired /\ disturbed' = disturbed
        /\ task[r].pc = "signedIn" /\ task' = [task EXCEPT ![r] = Idle]
    BY DEF SaveLogin, At, End
  <1>2. PICK a \in Apps : task[r].app = a
    BY <1>1, ServedBy DEF QuietInv, AppPcs
  <1>3. /\ GoodTask(task[r]) /\ QuietTask(task[r]) /\ app[a] \in App /\ app \in [Apps -> App]
    BY ServedBy, Facts DEF QuietInv, TypeInv, Shape
  <1>4. PICK k : k = Signed(r) /\ k # 0 /\ tokens[k] = task[r].device
    BY <1>1, <1>3 DEF GoodTask, SignedPcs, Signed
  <1>5. PICK sc : sc = IF app[a].screen = "code" /\ app[a].device = task[r].device THEN "main"
                       ELSE app[a].screen
    OBVIOUS
  <1>6. PICK x : x = [app[a] EXCEPT !.token = k, !.screen = sc]
    OBVIOUS
  <1>7. app' = [app EXCEPT ![a] = x]
    BY <1>2, <1>4, <1>5, <1>6 DEF SaveLogin
  <1>8. x.device = app[a].device /\ x.screen = sc /\ x.token = k
    BY <1>3, <1>6 DEF App
  <1>9. app[a].screen = "main" => x.screen = "main"
    BY <1>5, <1>8
  <1>10. task[r].device = app[a].device \/ app[a].device \in disturbed
    BY <1>1, <1>2, <1>3 DEF QuietTask, LoginPcs
  <1>11. task[r].device \in disturbed \/ HasRow(task[r].device)
    BY <1>1, <1>3 DEF QuietTask
  <1>12. \/ x.device \in disturbed'
         \/ tokens'[x.token] = x.device /\ HasRow(x.device)'
    BY <1>1, <1>4, <1>8, <1>10, <1>11 DEF HasRow
  <1>. QED BY <1>1, <1>4, <1>7, <1>8, <1>9, <1>12, IdleQuiet, QuietAppStep

\* An app alone changes; its device and its main screen stay.
LEMMA QuietAppOnly ==
    ASSUME QuietInv, [Next]_vars, expired' = expired, task' = task,
           NEW a \in Apps, NEW x, app' = [app EXCEPT ![a] = x],
           x.device = app[a].device, app[a].screen = "main" => x.screen = "main",
           QuietApp(a)'
    PROVE  QuietInv'
  <1>1. app \in [Apps -> App]
    BY DEF QuietInv, TypeInv, Shape
  <1>2. \A b \in Apps : /\ app'[b].device = app[b].device
                        /\ app[b].screen = "main" => app'[b].screen = "main"
    BY <1>1
  <1>3. \A b \in Apps \ {a} : app'[b] = app[b]
    BY <1>1
  <1>4. (\A b \in Apps : QuietApp(b))'
    BY <1>3, AppQuietStays
  <1>5. ASSUME NEW s \in Requests
        PROVE  QuietTask(task[s])'
    <2>1. PICK u : u = task[s] /\ GoodTask(u) /\ QuietTask(u)
      BY DEF QuietInv, TypeInv
    <2>2. QuietTask(u)'
      BY <1>2, <2>1, QuietStays
    <2>. QED BY <2>1, <2>2 DEF QuietTask
  <1>. QED BY <1>4, <1>5, ExpiredStayDisturbed, QuietRows DEF QuietInv

LEMMA BackQuiet ==
    ASSUME QuietInv, [Next]_vars, NEW a \in Apps, Back(a)
    PROVE  QuietInv'
  <1>1. PICK x : x = [app[a] EXCEPT !.screen = "start"]
    OBVIOUS
  <1>2. /\ app' = [app EXCEPT ![a] = x] /\ expired' = expired /\ task' = task /\ row' = row
        /\ tokens' = tokens /\ disturbed' = disturbed /\ app[a].screen = "code"
    BY <1>1 DEF Back
  <1>3. /\ app \in [Apps -> App] /\ app[a] \in App /\ QuietApp(a)
    BY DEF QuietInv, TypeInv, Shape
  <1>4. x.device = app[a].device /\ x.token = app[a].token /\ x.screen = "start" /\ app'[a] = x
    BY <1>1, <1>2, <1>3 DEF App
  <1>5. QuietApp(a)'
    BY <1>2, <1>3, <1>4 DEF QuietApp, HasRow
  <1>. QED BY <1>2, <1>4, <1>5, QuietAppOnly

LEMMA SignOutQuiet ==
    ASSUME QuietInv, [Next]_vars, NEW a \in Apps, SignOut(a)
    PROVE  QuietInv'
  <1>1. PICK x : x = [app[a] EXCEPT !.token = 0]
    OBVIOUS
  <1>2. /\ app' = [app EXCEPT ![a] = x] /\ expired' = expired /\ task' = task
        /\ app[a].device \in disturbed'
    BY <1>1 DEF SignOut
  <1>3. app \in [Apps -> App] /\ app[a] \in App
    BY DEF QuietInv, TypeInv, Shape
  <1>4. x.device = app[a].device /\ x.screen = app[a].screen /\ app'[a] = x
    BY <1>1, <1>2, <1>3 DEF App
  <1>5. QuietApp(a)'
    BY <1>2, <1>4 DEF QuietApp
  <1>. QED BY <1>2, <1>4, <1>5, QuietAppOnly

\* A new device is disturbed if tokens of an earlier one are there, or may come.
LEMMA SubmitQuiet ==
    ASSUME QuietInv, [Next]_vars, NEW a \in Apps, Submit(a)
    PROVE  QuietInv'
  <1>1. PICK d : d = Len(row) + 1
    OBVIOUS
  <1>2. PICK x : x = [app[a] EXCEPT !.device = d, !.screen = "code"]
    OBVIOUS
  <1>3. /\ app' = [app EXCEPT ![a] = x] /\ expired' = expired /\ task' = task
        /\ app[a].screen = "start"
        /\ app[a].token # 0 \/ LoggingIn(a) => d \in disturbed'
    BY <1>1, <1>2 DEF Submit
  <1>4. app \in [Apps -> App] /\ app[a] \in App
    BY DEF QuietInv, TypeInv, Shape
  <1>5. /\ x.device = d /\ x.screen = "code" /\ x.token = app[a].token
        /\ app'[a] = x /\ \A b \in Apps \ {a} : app'[b] = app[b]
    BY <1>2, <1>3, <1>4 DEF App
  <1>6. QuietApp(a)'
    BY <1>3, <1>5 DEF QuietApp
  <1>7. (\A b \in Apps : QuietApp(b))'
    BY <1>5, <1>6, AppQuietStays
  <1>8. ASSUME NEW s \in Requests
        PROVE  QuietTask(task[s])'
    <2>1. PICK u : u = task[s] /\ GoodTask(u) /\ QuietTask(u)
      BY DEF QuietInv, TypeInv
    <2>2. QuietTask(u)'
      <3>1. CASE u.app # a
        BY <1>5, <2>1, <3>1, QuietStays
      <3>2. CASE u.app = a
        <4>1. u.pc \in LoginPcs => app'[u.app].device \in disturbed'
          BY <1>3, <1>5, <2>1, <3>2 DEF LoggingIn, LoginPcs
        <4>2. u.pc \notin GuardedPcs
          BY <1>3, <2>1, <3>2 DEF QuietTask
        <4>. QED BY <2>1, <4>1, <4>2, QuietDevice DEF QuietTask
      <3>. QED BY <3>1, <3>2
    <2>. QED BY <1>3, <2>1, <2>2 DEF QuietTask
  <1>. QED BY <1>3, <1>7, <1>8, ExpiredStayDisturbed, QuietRows DEF QuietInv

LEMMA RestartQuiet ==
    ASSUME QuietInv, [Next]_vars, NEW a \in Apps, Restart(a)
    PROVE  QuietInv'
  <1>1. PICK sc : sc = IF app[a].token # 0 THEN "main" ELSE "start"
    OBVIOUS
  <1>2. PICK x : x = [app[a] EXCEPT !.screen = sc]
    OBVIOUS
  <1>3. /\ app' = [app EXCEPT ![a] = x] /\ expired' = expired /\ row' = row
        /\ tokens' = tokens /\ disturbed' = disturbed
    BY <1>1, <1>2 DEF Restart
  <1>4. app \in [Apps -> App] /\ app[a] \in App /\ QuietApp(a) /\ None \notin Apps
    BY Facts DEF QuietInv, TypeInv, Shape
  <1>5. /\ x.device = app[a].device /\ x.token = app[a].token /\ x.screen = sc
        /\ app'[a] = x /\ \A b \in Apps \ {a} : app'[b] = app[b]
    BY <1>2, <1>3, <1>4 DEF App
  <1>6. QuietApp(a)'
    BY <1>1, <1>3, <1>4, <1>5 DEF QuietApp, HasRow
  <1>7. (\A b \in Apps : QuietApp(b))'
    BY <1>5, <1>6, AppQuietStays
  <1>8. ASSUME NEW s \in Requests
        PROVE  QuietTask(task[s])'
    <2>1. PICK u : u = task[s] /\ GoodTask(u) /\ QuietTask(u) /\ u \in Task
      BY ServedBy DEF QuietInv, TypeInv
    <2>2. PICK v : v = task'[s]
      OBVIOUS
    <2>3. QuietTask(v)'
      <3>1. CASE v = u /\ u.app # a
        BY <1>5, <2>1, <3>1, QuietStays
      <3>2. CASE v = Idle
        BY <3>2, IdleQuiet DEF QuietTask
      <3>3. CASE v = [u EXCEPT !.app = None]
        <4>1. v.pc = u.pc /\ v.app = None /\ v.token = u.token /\ v.device = u.device
          BY <2>1, <3>3 DEF Task
        <4>2. /\ u.pc \in {"signedIn", "check", "rotate", "save"} =>
                    u.device \in disturbed' \/ HasRow(u.device)'
              /\ u.pc = "check" => u.device \in disturbed' \/ tokens'[u.token] = u.device
              /\ u.pc = "clear" => u.device \in disturbed'
          BY <2>1, QuietDevice
        <4>3. /\ v.pc \in {"signedIn", "check", "rotate", "save"} =>
                    v.device \in disturbed' \/ HasRow(v.device)'
              /\ v.pc = "check" => v.device \in disturbed' \/ tokens'[v.token] = v.device
              /\ v.pc = "clear" => v.device \in disturbed'
          BY <4>1, <4>2 DEF HasRow
        <4>. QED BY <1>4, <4>1, <4>3 DEF QuietTask
      <3>. QED BY <2>1, <2>2, <3>1, <3>2, <3>3, RestartTasks DEF QuietInv
    <2>. QED BY <2>2, <2>3 DEF QuietTask
  <1>9. \A k \in 1..expired' : tokens'[k] \in disturbed'
    BY <1>3, ExpiredStayDisturbed
  <1>. QED BY <1>7, <1>8, <1>9, QuietRows DEF QuietInv

\* Nothing but the time and the disturbed devices change, or nothing.
LEMMA AllStayQuiet ==
    ASSUME QuietInv, [Next]_vars, app' = app, task' = task,
           \A k \in 1..expired' : tokens'[k] \in disturbed'
    PROVE  QuietInv'
  <1>1. (\A b \in Apps : QuietApp(b))'
    BY AppQuietStays
  <1>2. ASSUME NEW s \in Requests
        PROVE  QuietTask(task[s])'
    <2>1. PICK u : u = task[s] /\ GoodTask(u) /\ QuietTask(u)
      BY DEF QuietInv, TypeInv
    <2>2. QuietTask(u)'
      BY <2>1, QuietStays
    <2>. QED BY <2>1, <2>2 DEF QuietTask
  <1>. QED BY <1>1, <1>2, QuietRows DEF QuietInv

LEMMA ExpireQuiet ==
    ASSUME QuietInv, [Next]_vars, Expire
    PROVE  QuietInv'
  <1>1. /\ expired \in Nat /\ expired' = expired + 1 /\ tokens' = tokens
        /\ disturbed' = disturbed \cup {tokens[expired + 1]} /\ app' = app /\ task' = task
    BY DEF Expire, QuietInv, TypeInv, Shape
  <1>2. \A k \in 1..expired' : k \in 1..expired \/ k = expired + 1
    BY <1>1
  <1>3. \A k \in 1..expired' : tokens'[k] \in disturbed'
    BY <1>1, <1>2 DEF QuietInv
  <1>. QED BY <1>1, <1>3, AllStayQuiet

LEMMA NextQuiet ==
    ASSUME QuietInv, [Next]_vars
    PROVE  QuietInv'
  <1>1. ASSUME NEW r \in Requests, Step(r)
        PROVE  QuietInv'
    BY <1>1, CreateSessionQuiet, SaveLoginQuiet, ServeQuiet, ReadTokenQuiet, RefreshQuiet,
       RotateTokensQuiet, SaveTokensQuiet, SendAgainQuiet, ClearTokensQuiet DEF Step
  <1>2. CASE UNCHANGED vars
    <2>1. app' = app /\ task' = task /\ expired' = expired
      BY <1>2 DEF vars
    <2>. QED BY <2>1, ExpiredStayDisturbed, AllStayQuiet
  <1>3. ASSUME NEW r \in Requests, NEW a \in Apps, NEW op, NEW id, Request(r, a, op, id)
        PROVE  QuietInv'
    BY <1>3, RequestQuiet
  <1>. QED
    BY <1>1, <1>2, <1>3, LoginQuiet, SubmitQuiet, BackQuiet, SignOutQuiet, RestartQuiet, FailQuiet,
       ExpireQuiet DEF Next

\* However logins, renewals and restarts overlap, a row, a pair on its way to an app
\* and the app's storage hold tokens that were signed for their device
\* (auth.service.ts:121-163, phone_screen.dart:61, api_client.dart:29-52).
THEOREM DevicesKeepTheirTokens == Spec => []TokensKeepTheirDevice
  <1>1. Init => QuietInv
    BY InitQuiet
  <1>2. QuietInv /\ [Next]_vars => QuietInv'
    BY NextQuiet
  <1>3. QuietInv => TokensKeepTheirDevice
    BY DEF QuietInv, QuietApp, TypeInv, TokensKeepTheirDevice, GoodRow, GoodTask, SignedPcs
  <1>. QED BY <1>1, <1>2, <1>3, PTL DEF Spec

\* An app drops its tokens only after something has happened to its device's
\* session, its tokens or one of its requests: overlapping renewals, whose hash
\* comparison never fails, and overlapping logins do no harm
\* (auth.service.ts:121-163, api_client.dart's interceptor).
THEOREM NobodyIsSignedOutInVain == Spec => []NoNeedlessSignOut
  <1>1. Init => QuietInv
    BY InitQuiet
  <1>2. QuietInv /\ [Next]_vars => QuietInv'
    BY NextQuiet
  <1>3. QuietInv => NoNeedlessSignOut
    BY DEF QuietInv, QuietTask, NoNeedlessSignOut, At
  <1>. QED BY <1>1, <1>2, <1>3, PTL DEF Spec

=============================================================================
