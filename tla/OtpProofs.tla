----------------------------- MODULE OtpProofs -----------------------------
(***************************************************************************)
(* The properties of Otp, proved for any numbers of phones, addresses,     *)
(* codes and requests, any limits and any expiry times.                    *)
(***************************************************************************)
EXTENDS Otp, FiniteSetTheorems, TLAPS

\* The awaits of a request that goes on to answer a guess.
AnswerPcs == {"ttl", "write", "consume"}

\* What a request knows at each await.
TaskOK ==
    \A r \in Requests :
        /\ task[r].pc # "idle" => task[r].phone \in Phones
        /\ task[r].pc \in RequestPcs => task[r].ip \in Ips
        /\ task[r].pc \in AnswerPcs =>
               task[r].seen \in Stored /\ ~Spent(task[r].seen)

\* A counter that is not there counts from 0.
CountersOK == \A p \in Phones : ~Exists(phoneRate[p]) => phoneRate[p].value = 0

TypeInv == TypeOK /\ TaskOK

-----------------------------------------------------------------------------
(* Keys of Redis *)

LEMMA AbsentType ==
    ASSUME NEW V, NEW v \in V, NEW n \in Nat
    PROVE  Absent(v) \in Keys(V, n)
  BY DEF Absent, Keys, Gone

LEMMA SetType ==
    ASSUME NEW V, NEW v \in V, NEW n \in Nat, NEW k \in 0..n
    PROVE  Set(v, k) \in Keys(V, n)
  BY DEF Set, Keys, Gone, Persistent

LEMMA IncrType ==
    ASSUME NEW n \in Nat, NEW key \in Keys(Nat, n)
    PROVE  Incr(key) \in Keys(Nat, n)
  BY DEF Incr, Keys, Gone, Persistent, Exists

LEMMA ExpireType ==
    ASSUME NEW V, NEW n \in Nat, NEW key \in Keys(V, n)
    PROVE  Expire(key, n) \in Keys(V, n)
  BY DEF Expire, Keys, Gone

\* Time takes a key away or leaves its value alone, and never gives a key an
\* expiry or takes it.
LEMMA ElapseType ==
    ASSUME NEW V, NEW v \in V, NEW n \in Nat, NEW key \in Keys(V, n)
    PROVE  /\ Elapse(key, v) \in Keys(V, n)
           /\ \/ Elapse(key, v) = Absent(v) /\ ~Exists(Elapse(key, v))
              \/ /\ Elapse(key, v).value = key.value
                 /\ Exists(Elapse(key, v)) <=> Exists(key)
           /\ Elapse(key, v).ttl = Persistent <=> key.ttl = Persistent
           /\ Elapse(key, v).ttl >= 0 => key.ttl >= 0
  <1>1. CASE key.ttl > 0
    BY <1>1 DEF Elapse, Keys, Gone, Persistent, Exists
  <1>2. CASE key.ttl = 0
    BY <1>2 DEF Elapse, Keys, Gone, Persistent, Exists, Absent
  <1>3. CASE key.ttl < 0
    BY <1>3 DEF Elapse, Keys, Gone, Persistent, Exists
  <1>. QED BY <1>1, <1>2, <1>3 DEF Keys, Gone

-----------------------------------------------------------------------------
(* Types *)

LEMMA NoCodeType == NoCode \notin Stored /\ NoCode.attempts = 0
  BY OtpAssumption DEF OtpAssumption, NoCode, Stored

LEMMA IdleType == Idle \in Task /\ Idle.pc = "idle"
  BY OtpAssumption DEF OtpAssumption, Idle, Task, Gone

LEMMA InitType == Init => TypeInv /\ CountersOK
  <1>. SUFFICES ASSUME Init PROVE TypeInv /\ CountersOK
    OBVIOUS
  <1>. USE DEF Init
  <1>1. Absent(NoCode) \in Keys(Stored \cup {NoCode}, OtpExpiresIn) /\ ~Exists(Absent(NoCode))
        /\ Absent(NoCode).value = NoCode
    BY AbsentType, OtpAssumption DEF OtpAssumption, Exists, Absent, Gone
  <1>2. Absent(0) \in Keys(Nat, RateLimitWindow) /\ Absent(0).value = 0
    BY AbsentType, OtpAssumption DEF OtpAssumption, Absent
  <1>3. TypeOK
    BY <1>1, <1>2, IdleType DEF TypeOK
  <1>4. TaskOK
    BY IdleType DEF TaskOK, RequestPcs, AnswerPcs
  <1>5. CountersOK
    BY <1>2 DEF CountersOK
  <1>. QED BY <1>3, <1>4, <1>5 DEF TypeInv

\* One request goes on with t.
LEMMA TaskChange ==
    ASSUME TypeInv, NEW r \in Requests, NEW t \in Task, task' = [task EXCEPT ![r] = t],
           t.pc # "idle" => t.phone \in Phones,
           t.pc \in RequestPcs => t.ip \in Ips,
           t.pc \in AnswerPcs => t.seen \in Stored /\ ~Spent(t.seen)
    PROVE  (task \in [Requests -> Task])' /\ TaskOK'
  <1>. task \in [Requests -> Task]
    BY DEF TypeInv, TypeOK
  <1>1. ASSUME NEW s \in Requests
        PROVE  /\ task'[s].pc # "idle" => task'[s].phone \in Phones
               /\ task'[s].pc \in RequestPcs => task'[s].ip \in Ips
               /\ task'[s].pc \in AnswerPcs =>
                      task'[s].seen \in Stored /\ ~Spent(task'[s].seen)
    BY DEF TypeInv, TaskOK
  <1>. QED BY <1>1 DEF TaskOK

LEMMA EndChange ==
    ASSUME TypeInv, NEW r \in Requests, End(r)
    PROVE  (task \in [Requests -> Task])' /\ TaskOK'
  BY IdleType, TaskChange DEF End, RequestPcs, AnswerPcs

\* A request goes on at another await with what it knows.
LEMMA GoChange ==
    ASSUME TypeInv, NEW r \in Requests, NEW pc \in RequestPcs \cup VerifyPcs, Go(r, pc),
           ~At(r, "idle"), pc \in RequestPcs => At(r, "store") \/ At(r, "count"),
           pc \notin AnswerPcs
    PROVE  (task \in [Requests -> Task])' /\ TaskOK'
  <1>. DEFINE t == [task[r] EXCEPT !.pc = pc]
  <1>1. task \in [Requests -> Task] /\ task[r] \in Task
    BY DEF TypeInv, TypeOK
  <1>2. t \in Task /\ t.pc = pc /\ t.phone = task[r].phone /\ t.ip = task[r].ip
    BY <1>1 DEF Task
  <1>3. task' = [task EXCEPT ![r] = t]
    BY <1>1 DEF Go
  <1>4. t.phone \in Phones /\ (pc \in RequestPcs => t.ip \in Ips)
    BY <1>2 DEF TypeInv, TaskOK, At, RequestPcs
  <1>. HIDE DEF t
  <1>. QED BY <1>2, <1>3, <1>4, TaskChange

\* The other conjuncts of TypeInv, each for the actions that leave it alone.
LEMMA OtherTypes ==
    ASSUME TypeInv, (task \in [Requests -> Task])', TaskOK'
    PROVE  /\ otp \in [Phones -> Keys(Stored \cup {NoCode}, OtpExpiresIn)]
           /\ \A p \in Phones : Exists(otp[p]) <=> otp[p].value # NoCode
           /\ phoneRate \in [Phones -> Keys(Nat, RateLimitWindow)]
           /\ ipRate \in [Ips -> Keys(Nat, RateLimitWindow)]
           /\ users \in SUBSET Phones
           /\ answered \in [Phones -> Nat]
           /\ welcomed \in [Phones -> Nat]
           /\ stranded \in SUBSET Phones
           /\ OtpExpiresIn \in Nat /\ RateLimitWindow \in Nat
  BY OtpAssumption DEF OtpAssumption, TypeInv, TypeOK

LEMMA RequestOtpType ==
    ASSUME TypeInv, NEW r \in Requests, NEW p \in Phones, NEW i \in Ips, RequestOtp(r, p, i)
    PROVE  TypeInv'
  <1>. DEFINE t == [Idle EXCEPT !.pc = "store", !.phone = p, !.ip = i]
  <1>1. t \in Task /\ t.pc = "store" /\ t.phone = p /\ t.ip = i
    BY IdleType DEF Idle, Task, RequestPcs
  <1>2. task' = [task EXCEPT ![r] = t]
    BY DEF RequestOtp, Begin
  <1>. HIDE DEF t
  <1>3. (task \in [Requests -> Task])' /\ TaskOK'
    BY <1>1, <1>2, TaskChange DEF AnswerPcs
  <1>. QED BY <1>3 DEF TypeInv, TypeOK, RequestOtp

\* A code is written for a phone.
LEMMA CodeType ==
    ASSUME TypeInv, NEW p \in Phones, NEW v \in Stored, NEW k \in 0..OtpExpiresIn,
           otp' = [otp EXCEPT ![p] = Set(v, k)]
    PROVE  /\ (otp \in [Phones -> Keys(Stored \cup {NoCode}, OtpExpiresIn)])'
           /\ (\A q \in Phones : Exists(otp[q]) <=> otp[q].value # NoCode)'
  <1>1. Set(v, k) \in Keys(Stored \cup {NoCode}, OtpExpiresIn)
    BY SetType, OtpAssumption DEF OtpAssumption
  <1>2. Exists(Set(v, k)) /\ Set(v, k).value # NoCode
    BY NoCodeType, OtpAssumption DEF OtpAssumption, Set, Exists, Gone, Persistent
  <1>. QED BY <1>1, <1>2 DEF TypeInv, TypeOK

LEMMA DeleteType ==
    ASSUME TypeInv, NEW p \in Phones, Delete(p)
    PROVE  /\ (otp \in [Phones -> Keys(Stored \cup {NoCode}, OtpExpiresIn)])'
           /\ (\A q \in Phones : Exists(otp[q]) <=> otp[q].value # NoCode)'
  <1>1. Absent(NoCode) \in Keys(Stored \cup {NoCode}, OtpExpiresIn)
    BY AbsentType, OtpAssumption DEF OtpAssumption
  <1>2. ~Exists(Absent(NoCode)) /\ Absent(NoCode).value = NoCode
    BY DEF Absent, Exists, Gone
  <1>. QED BY <1>1, <1>2 DEF TypeInv, TypeOK, Delete

LEMMA StoreOtpType ==
    ASSUME TypeInv, NEW r \in Requests, StoreOtp(r)
    PROVE  TypeInv'
  <1>1. PICK p \in Phones : task[r].phone = p
    BY DEF TypeInv, TaskOK, StoreOtp, At
  <1>2. PICK c \in Codes : otp' = [otp EXCEPT ![p] = Set([hash |-> c, attempts |-> 0], OtpExpiresIn)]
    BY <1>1, OtpAssumption DEF StoreOtp, OtpAssumption
  <1>3. [hash |-> c, attempts |-> 0] \in Stored /\ OtpExpiresIn \in 0..OtpExpiresIn
    BY OtpAssumption DEF OtpAssumption, Stored
  <1>4. /\ (otp \in [Phones -> Keys(Stored \cup {NoCode}, OtpExpiresIn)])'
        /\ (\A q \in Phones : Exists(otp[q]) <=> otp[q].value # NoCode)'
    BY <1>2, <1>3, CodeType
  <1>5. (task \in [Requests -> Task])' /\ TaskOK'
    BY GoChange DEF StoreOtp, RequestPcs, VerifyPcs, AnswerPcs, At
  <1>6. (answered \in [Phones -> Nat])'
    BY <1>1 DEF StoreOtp, TypeInv, TypeOK
  <1>. QED BY <1>4, <1>5, <1>6 DEF TypeInv, TypeOK, StoreOtp

LEMMA IncrementRateLimitType ==
    ASSUME TypeInv, NEW r \in Requests, IncrementRateLimit(r)
    PROVE  TypeInv'
  <1>1. PICK p \in Phones, i \in Ips : task[r].phone = p /\ task[r].ip = i
    BY DEF TypeInv, TaskOK, IncrementRateLimit, At, RequestPcs
  <1>2. (phoneRate \in [Phones -> Keys(Nat, RateLimitWindow)])'
    BY <1>1, IncrType, OtpAssumption DEF OtpAssumption, IncrementRateLimit, TypeInv, TypeOK
  <1>3. (ipRate \in [Ips -> Keys(Nat, RateLimitWindow)])'
    BY <1>1, IncrType, OtpAssumption DEF OtpAssumption, IncrementRateLimit, TypeInv, TypeOK
  <1>4. (task \in [Requests -> Task])' /\ TaskOK'
    BY GoChange, EndChange DEF IncrementRateLimit, RequestPcs, VerifyPcs, AnswerPcs, At
  <1>. QED BY <1>2, <1>3, <1>4 DEF TypeInv, TypeOK, IncrementRateLimit

LEMMA ExpireRateLimitType ==
    ASSUME TypeInv, NEW r \in Requests, ExpireRateLimit(r)
    PROVE  TypeInv'
  <1>1. PICK p \in Phones, i \in Ips : task[r].phone = p /\ task[r].ip = i
    BY DEF TypeInv, TaskOK, ExpireRateLimit, At, RequestPcs
  <1>2. (phoneRate \in [Phones -> Keys(Nat, RateLimitWindow)])'
    BY <1>1, ExpireType, OtpAssumption DEF OtpAssumption, ExpireRateLimit, TypeInv, TypeOK
  <1>3. (ipRate \in [Ips -> Keys(Nat, RateLimitWindow)])'
    BY <1>1, ExpireType, OtpAssumption DEF OtpAssumption, ExpireRateLimit, TypeInv, TypeOK
  <1>4. (task \in [Requests -> Task])' /\ TaskOK'
    BY EndChange DEF ExpireRateLimit
  <1>. QED BY <1>2, <1>3, <1>4 DEF TypeInv, TypeOK, ExpireRateLimit

\* The task that verifyOtp begins.
Verifying(p, typed) ==
    [Idle EXCEPT !.pc = CASE Spent(otp[p].value) -> "discard"
                          [] ~Spent(otp[p].value) /\ typed # otp[p].value.hash -> "ttl"
                          [] OTHER -> "consume",
                 !.phone = p, !.seen = otp[p].value]

LEMMA VerifyingType ==
    ASSUME TypeInv, NEW p \in Phones, NEW typed, Exists(otp[p])
    PROVE  /\ Verifying(p, typed) \in Task
           /\ Verifying(p, typed).pc \in {"discard", "ttl", "consume"}
           /\ Verifying(p, typed).phone = p
           /\ Verifying(p, typed).seen = otp[p].value /\ otp[p].value \in Stored
           /\ Verifying(p, typed).pc # "discard" => ~Spent(otp[p].value)
  <1>1. otp[p].value \in Stored
    BY DEF TypeInv, TypeOK, Keys
  <1>2. PICK pc \in {"discard", "ttl", "consume"} :
            /\ pc = CASE Spent(otp[p].value) -> "discard"
                      [] ~Spent(otp[p].value) /\ typed # otp[p].value.hash -> "ttl"
                      [] OTHER -> "consume"
            /\ pc # "discard" => ~Spent(otp[p].value)
    OBVIOUS
  <1>3. Verifying(p, typed) = [Idle EXCEPT !.pc = pc, !.phone = p, !.seen = otp[p].value]
    BY <1>2 DEF Verifying
  <1>. QED BY <1>1, <1>2, <1>3, IdleType DEF Idle, Task, VerifyPcs

LEMMA VerifyOtpType ==
    ASSUME TypeInv, NEW r \in Requests, NEW p \in Phones, NEW typed \in Codes,
           VerifyOtp(r, p, typed)
    PROVE  TypeInv'
  <1>1. task' = [task EXCEPT ![r] = Verifying(p, typed)] /\ Exists(otp[p])
    BY DEF VerifyOtp, Begin, Verifying
  <1>2. (task \in [Requests -> Task])' /\ TaskOK'
    BY <1>1, VerifyingType, TaskChange DEF RequestPcs, AnswerPcs
  <1>. QED BY <1>2 DEF TypeInv, TypeOK, VerifyOtp

LEMMA DiscardOtpType ==
    ASSUME TypeInv, NEW r \in Requests, DiscardOtp(r)
    PROVE  TypeInv'
  <1>1. task[r].phone \in Phones
    BY DEF TypeInv, TaskOK, DiscardOtp, At
  <1>2. (task \in [Requests -> Task])' /\ TaskOK'
    BY EndChange DEF DiscardOtp
  <1>. QED BY <1>1, <1>2, DeleteType DEF TypeInv, TypeOK, DiscardOtp

LEMMA ReadTtlType ==
    ASSUME TypeInv, NEW r \in Requests, ReadTtl(r)
    PROVE  TypeInv'
  <1>. DEFINE t == [task[r] EXCEPT !.pc = "write", !.left = Ttl(otp[task[r].phone])]
  <1>1. /\ task \in [Requests -> Task] /\ task[r] \in Task /\ task[r].pc = "ttl"
        /\ task[r].phone \in Phones /\ task[r].seen \in Stored /\ ~Spent(task[r].seen)
    BY DEF TypeInv, TypeOK, TaskOK, AnswerPcs, ReadTtl, At
  <1>2. Ttl(otp[task[r].phone]) \in Gone..OtpExpiresIn
    BY <1>1 DEF TypeInv, TypeOK, Keys, Ttl
  <1>3. t \in Task /\ t.pc = "write" /\ t.phone = task[r].phone /\ t.seen = task[r].seen
    BY <1>1, <1>2 DEF Task, VerifyPcs
  <1>4. task' = [task EXCEPT ![r] = t]
    BY <1>1 DEF ReadTtl
  <1>. HIDE DEF t
  <1>5. (task \in [Requests -> Task])' /\ TaskOK'
    BY <1>1, <1>3, <1>4, TaskChange DEF RequestPcs
  <1>. QED BY <1>5 DEF TypeInv, TypeOK, ReadTtl

LEMMA CountAttemptType ==
    ASSUME TypeInv, NEW r \in Requests, CountAttempt(r)
    PROVE  TypeInv'
  <1>1. /\ task[r] \in Task /\ task[r].pc = "write"
        /\ task[r].phone \in Phones /\ task[r].seen \in Stored /\ ~Spent(task[r].seen)
    BY DEF TypeInv, TypeOK, TaskOK, AnswerPcs, CountAttempt, At
  <1>2. (task \in [Requests -> Task])' /\ TaskOK'
    BY EndChange DEF CountAttempt
  <1>3. CASE Settable(task[r].left)
    <2>1. task[r].left \in 0..OtpExpiresIn
      BY <1>1, <1>3 DEF Task, Settable, Gone
    <2>2. [task[r].seen EXCEPT !.attempts = @ + 1] \in Stored
      BY <1>1, OtpAssumption DEF OtpAssumption, Stored, Spent
    <2>3. /\ otp' = [otp EXCEPT ![task[r].phone] =
                        Set([task[r].seen EXCEPT !.attempts = @ + 1], task[r].left)]
          /\ Answer(task[r].phone)
      BY <1>3 DEF CountAttempt
    <2>4. (answered \in [Phones -> Nat])'
      BY <1>1, <2>3 DEF Answer, TypeInv, TypeOK
    <2>. QED BY <1>1, <1>2, <2>1, <2>2, <2>3, <2>4, CodeType DEF TypeInv, TypeOK, CountAttempt
  <1>4. CASE ~Settable(task[r].left)
    BY <1>2, <1>4 DEF TypeInv, TypeOK, CountAttempt
  <1>. QED BY <1>3, <1>4

LEMMA ConsumeOtpType ==
    ASSUME TypeInv, NEW r \in Requests, ConsumeOtp(r)
    PROVE  TypeInv'
  <1>1. task[r].phone \in Phones
    BY DEF TypeInv, TaskOK, ConsumeOtp, At
  <1>2. (task \in [Requests -> Task])' /\ TaskOK'
    BY GoChange DEF ConsumeOtp, At, RequestPcs, VerifyPcs, AnswerPcs
  <1>3. (answered \in [Phones -> Nat])'
    BY <1>1 DEF TypeInv, TypeOK, ConsumeOtp, Answer
  <1>. QED BY <1>1, <1>2, <1>3, DeleteType DEF TypeInv, TypeOK, ConsumeOtp

LEMMA FindUserType ==
    ASSUME TypeInv, NEW r \in Requests, FindUser(r)
    PROVE  TypeInv'
  <1>1. (task \in [Requests -> Task])' /\ TaskOK'
    BY GoChange, EndChange DEF FindUser, At, RequestPcs, VerifyPcs, AnswerPcs
  <1>. QED BY <1>1 DEF TypeInv, TypeOK, FindUser

LEMMA CreateUserType ==
    ASSUME TypeInv, NEW r \in Requests, CreateUser(r)
    PROVE  TypeInv'
  <1>1. PICK p \in Phones : task[r].phone = p
    BY DEF TypeInv, TaskOK, CreateUser, At
  <1>2. (task \in [Requests -> Task])' /\ TaskOK'
    BY EndChange DEF CreateUser
  <1>3. (users \in SUBSET Phones)' /\ (welcomed \in [Phones -> Nat])'
    BY <1>1 DEF TypeInv, TypeOK, CreateUser
  <1>. QED BY <1>2, <1>3 DEF TypeInv, TypeOK, CreateUser

LEMMA FailType ==
    ASSUME TypeInv, NEW r \in Requests, Fail(r)
    PROVE  TypeInv'
  <1>1. task[r].phone \in Phones
    BY DEF TypeInv, TaskOK, Fail, At
  <1>2. (task \in [Requests -> Task])' /\ TaskOK'
    BY EndChange DEF Fail
  <1>3. (stranded \in SUBSET Phones)'
    BY <1>1 DEF TypeInv, TypeOK, Fail
  <1>. QED BY <1>2, <1>3 DEF TypeInv, TypeOK, Fail

LEMMA TickType ==
    ASSUME TypeInv, Tick
    PROVE  TypeInv'
  <1>0. OtpExpiresIn \in Nat /\ RateLimitWindow \in Nat
    BY OtpAssumption DEF OtpAssumption
  <1>1. /\ (otp \in [Phones -> Keys(Stored \cup {NoCode}, OtpExpiresIn)])'
        /\ (\A p \in Phones : Exists(otp[p]) <=> otp[p].value # NoCode)'
    <2>. SUFFICES ASSUME NEW p \in Phones
                  PROVE  /\ Elapse(otp[p], NoCode) \in Keys(Stored \cup {NoCode}, OtpExpiresIn)
                         /\ Exists(Elapse(otp[p], NoCode)) <=> Elapse(otp[p], NoCode).value # NoCode
      BY DEF Tick
    <2>1. otp[p] \in Keys(Stored \cup {NoCode}, OtpExpiresIn)
          /\ (Exists(otp[p]) <=> otp[p].value # NoCode)
      BY DEF TypeInv, TypeOK
    <2>. QED BY <1>0, <2>1, ElapseType DEF Absent
  <1>2. (phoneRate \in [Phones -> Keys(Nat, RateLimitWindow)])'
    BY <1>0, ElapseType DEF Tick, TypeInv, TypeOK
  <1>3. (ipRate \in [Ips -> Keys(Nat, RateLimitWindow)])'
    BY <1>0, ElapseType DEF Tick, TypeInv, TypeOK
  <1>. QED BY <1>1, <1>2, <1>3 DEF TypeInv, TypeOK, TaskOK, Tick

LEMMA StutterType ==
    ASSUME TypeInv, UNCHANGED vars
    PROVE  TypeInv'
  BY DEF TypeInv, TypeOK, TaskOK, vars

LEMMA NextType ==
    ASSUME TypeInv, [Next]_vars
    PROVE  TypeInv'
  <1>. Verified \subseteq Phones
    BY OtpAssumption DEF OtpAssumption
  <1>1. ASSUME NEW r \in Requests, Step(r)
        PROVE  TypeInv'
    BY <1>1, StoreOtpType, IncrementRateLimitType, ExpireRateLimitType, DiscardOtpType,
       ReadTtlType, CountAttemptType, ConsumeOtpType, FindUserType, CreateUserType DEF Step
  <1>. QED
    BY <1>1, RequestOtpType, VerifyOtpType, FailType, TickType, StutterType DEF Next

\* Codes, counters and requests keep their types; a key of Redis has a value as
\* long as it is there.
THEOREM TypeCorrect == Spec => []TypeOK
  <1>1. Init => TypeInv
    BY InitType
  <1>2. TypeInv => TypeOK
    BY DEF TypeInv
  <1>. QED BY <1>1, <1>2, NextType, PTL DEF Spec

-----------------------------------------------------------------------------
(* Expiries and users: what no overlap or failure disturbs *)

ExpiryInv == TypeInv /\ CountersOK /\ PhoneCounterExpires /\ UntriedCodeExpires

UsersInv ==
    /\ TypeInv
    /\ \A p \in Phones : p \notin users => welcomed[p] = 0
    /\ WelcomedOnce

LEMMA InitExpiry == Init => ExpiryInv /\ UsersInv
  <1>. SUFFICES ASSUME Init PROVE ExpiryInv /\ UsersInv
    OBVIOUS
  <1>1. TypeInv /\ CountersOK
    BY InitType
  <1>2. PhoneCounterExpires /\ UntriedCodeExpires
    BY DEF Init, PhoneCounterExpires, UntriedCodeExpires, Absent, Gone, Persistent
  <1>3. \A p \in Phones : welcomed[p] = 0
    BY DEF Init
  <1>. QED BY <1>1, <1>2, <1>3 DEF ExpiryInv, UsersInv, WelcomedOnce

\* A step that leaves phoneRate alone and no request at "expire" unstranded.
LEMMA RateStays ==
    ASSUME ExpiryInv, phoneRate' = phoneRate, stranded \subseteq stranded',
           \A r \in Requests : At(r, "expire") =>
               \/ task'[r].pc = "expire" /\ task'[r].phone = task[r].phone
               \/ task[r].phone \in stranded'
    PROVE  CountersOK' /\ PhoneCounterExpires'
  BY DEF ExpiryInv, CountersOK, PhoneCounterExpires, At

\* A request that is not at "expire" goes on.
LEMMA OneGoesOn ==
    ASSUME ExpiryInv, NEW r \in Requests, ~At(r, "expire"), NEW t,
           task' = [task EXCEPT ![r] = t], phoneRate' = phoneRate, stranded' = stranded
    PROVE  CountersOK' /\ PhoneCounterExpires'
  <1>. task \in [Requests -> Task]
    BY DEF ExpiryInv, TypeInv, TypeOK
  <1>1. \A s \in Requests : At(s, "expire") => task'[s] = task[s]
    BY DEF At
  <1>. QED BY <1>1, RateStays DEF At

LEMMA IncrementExpiry ==
    ASSUME ExpiryInv, NEW r \in Requests, IncrementRateLimit(r)
    PROVE  CountersOK' /\ PhoneCounterExpires'
  <1>1. PICK p \in Phones : task[r].phone = p
    BY DEF ExpiryInv, TypeInv, TaskOK, IncrementRateLimit, At
  <1>2. /\ task \in [Requests -> Task] /\ task[r].pc = "count"
        /\ phoneRate \in [Phones -> Keys(Nat, RateLimitWindow)]
        /\ phoneRate' = [phoneRate EXCEPT ![p] = Incr(@)]
    BY <1>1 DEF ExpiryInv, TypeInv, TypeOK, IncrementRateLimit, At
  <1>3. phoneRate'[p].ttl # Gone
    BY <1>2 DEF Incr, Exists, Gone, Persistent
  <1>4. CountersOK'
    BY <1>2, <1>3 DEF ExpiryInv, CountersOK, Exists
  <1>5. \A s \in Requests : At(s, "expire") => task'[s] = task[s]
    BY <1>2 DEF IncrementRateLimit, Go, End, At
  <1>6. ASSUME phoneRate'[p].ttl = Persistent
        PROVE  \/ p \in stranded
               \/ \E s \in Requests : task'[s].pc = "expire" /\ task'[s].phone = p
    <2>1. CASE Exists(phoneRate[p])
      <3>1. phoneRate[p].ttl = Persistent
        BY <1>2, <1>6, <2>1 DEF Incr
      <3>2. \/ p \in stranded
            \/ \E s \in Requests : At(s, "expire") /\ task[s].phone = p
        BY <3>1 DEF ExpiryInv, PhoneCounterExpires
      <3>. QED BY <1>5, <3>2 DEF At
    <2>2. CASE ~Exists(phoneRate[p])
      <3>1. phoneRate'[p].value = 1
        BY <1>2, <2>2 DEF ExpiryInv, CountersOK, Incr
      <3>2. Go(r, "expire")
        BY <1>1, <3>1 DEF IncrementRateLimit
      <3>3. task'[r].pc = "expire" /\ task'[r].phone = p
        BY <1>1, <1>2, <3>2 DEF Go, Task
      <3>. QED BY <3>3
    <2>. QED BY <2>1, <2>2
  <1>7. ASSUME NEW q \in Phones, q # p, phoneRate'[q].ttl = Persistent
        PROVE  \/ q \in stranded
               \/ \E s \in Requests : task'[s].pc = "expire" /\ task'[s].phone = q
    <2>1. phoneRate[q].ttl = Persistent
      BY <1>2, <1>7
    <2>. QED BY <1>5, <2>1 DEF ExpiryInv, PhoneCounterExpires, At
  <1>8. PhoneCounterExpires'
    BY <1>6, <1>7 DEF PhoneCounterExpires, At, IncrementRateLimit
  <1>. QED BY <1>4, <1>8

LEMMA ExpireExpiry ==
    ASSUME ExpiryInv, NEW r \in Requests, ExpireRateLimit(r)
    PROVE  CountersOK' /\ PhoneCounterExpires'
  <1>1. PICK p \in Phones : task[r].phone = p
    BY DEF ExpiryInv, TypeInv, TaskOK, ExpireRateLimit, At
  <1>2. /\ task \in [Requests -> Task]
        /\ phoneRate \in [Phones -> Keys(Nat, RateLimitWindow)]
        /\ phoneRate' = [phoneRate EXCEPT ![p] = Expire(@, RateLimitWindow)]
        /\ stranded' = stranded
    BY <1>1 DEF ExpiryInv, TypeInv, TypeOK, ExpireRateLimit
  <1>3. phoneRate'[p].ttl # Persistent /\ phoneRate'[p].value = phoneRate[p].value
        /\ (Exists(phoneRate[p]) => phoneRate'[p].ttl # Gone)
    BY <1>2, OtpAssumption DEF OtpAssumption, Expire, Exists, Gone, Persistent, Keys
  <1>4. CountersOK'
    BY <1>2, <1>3 DEF ExpiryInv, CountersOK, Exists
  <1>5. ASSUME NEW q \in Phones, phoneRate'[q].ttl = Persistent
        PROVE  \/ q \in stranded
               \/ \E s \in Requests : task'[s].pc = "expire" /\ task'[s].phone = q
    <2>1. q # p /\ phoneRate[q].ttl = Persistent
      BY <1>2, <1>3, <1>5
    <2>2. \/ q \in stranded
          \/ \E s \in Requests : At(s, "expire") /\ task[s].phone = q
      BY <2>1 DEF ExpiryInv, PhoneCounterExpires
    <2>3. \A s \in Requests : task[s].phone = q => task'[s] = task[s]
      BY <1>1, <1>2, <2>1 DEF ExpireRateLimit, End
    <2>. QED BY <2>2, <2>3 DEF At
  <1>6. PhoneCounterExpires'
    BY <1>2, <1>5 DEF PhoneCounterExpires, At
  <1>. QED BY <1>4, <1>6

LEMMA FailExpiry ==
    ASSUME ExpiryInv, NEW r \in Requests, Fail(r)
    PROVE  CountersOK' /\ PhoneCounterExpires'
  <1>. task \in [Requests -> Task]
    BY DEF ExpiryInv, TypeInv, TypeOK
  <1>1. stranded \subseteq stranded' /\ (At(r, "expire") => task[r].phone \in stranded')
    BY DEF Fail
  <1>2. \A s \in Requests \ {r} : task'[s] = task[s]
    BY DEF Fail, End
  <1>. QED BY <1>1, <1>2, RateStays DEF Fail, At

LEMMA TickExpiry ==
    ASSUME ExpiryInv, Tick
    PROVE  CountersOK' /\ PhoneCounterExpires' /\ UntriedCodeExpires'
  <1>. OtpExpiresIn \in Nat /\ RateLimitWindow \in Nat
    BY OtpAssumption DEF OtpAssumption
  <1>1. ASSUME NEW p \in Phones
        PROVE  /\ ~Exists(phoneRate'[p]) => phoneRate'[p].value = 0
               /\ phoneRate'[p].ttl = Persistent => phoneRate[p].ttl = Persistent
    <2>1. phoneRate[p] \in Keys(Nat, RateLimitWindow)
          /\ (~Exists(phoneRate[p]) => phoneRate[p].value = 0)
          /\ phoneRate'[p] = Elapse(phoneRate[p], 0)
      BY DEF ExpiryInv, TypeInv, TypeOK, CountersOK, Tick
    <2>. QED BY <2>1, ElapseType DEF Absent
  <1>2. ASSUME NEW p \in Phones, otp'[p].ttl = Persistent
        PROVE  otp'[p].value.attempts > 0
    <2>1. otp[p] \in Keys(Stored \cup {NoCode}, OtpExpiresIn) /\ otp'[p] = Elapse(otp[p], NoCode)
      BY DEF ExpiryInv, TypeInv, TypeOK, Tick
    <2>2. otp[p].ttl = Persistent
      BY <1>2, <2>1, ElapseType
    <2>3. otp'[p] = otp[p]
      BY <2>1, <2>2 DEF Elapse, Persistent
    <2>. QED BY <2>2, <2>3 DEF ExpiryInv, UntriedCodeExpires
  <1>3. CountersOK'
    BY <1>1 DEF CountersOK
  <1>4. PhoneCounterExpires'
    BY <1>1 DEF ExpiryInv, PhoneCounterExpires, Tick, At
  <1>5. UntriedCodeExpires'
    BY <1>2 DEF UntriedCodeExpires
  <1>. QED BY <1>3, <1>4, <1>5

\* A code is stored with a time, and without one only after a failed guess.
LEMMA StoreUntried ==
    ASSUME ExpiryInv, NEW r \in Requests, StoreOtp(r)
    PROVE  UntriedCodeExpires'
  <1>0. PICK p \in Phones : p = task[r].phone
    BY DEF ExpiryInv, TypeInv, TaskOK, StoreOtp, At
  <1>1. PICK c : otp' = [otp EXCEPT ![p] = Set([hash |-> c, attempts |-> 0], OtpExpiresIn)]
    BY <1>0 DEF StoreOtp
  <1>2. Set([hash |-> c, attempts |-> 0], OtpExpiresIn).ttl # Persistent
    BY OtpAssumption DEF OtpAssumption, Set, Persistent
  <1>. QED BY <1>1, <1>2 DEF ExpiryInv, TypeInv, TypeOK, UntriedCodeExpires

LEMMA CountUntried ==
    ASSUME ExpiryInv, NEW r \in Requests, CountAttempt(r)
    PROVE  UntriedCodeExpires'
  <1>0. PICK p \in Phones, seen \in Stored : task[r].phone = p /\ task[r].seen = seen
    BY DEF ExpiryInv, TypeInv, TaskOK, AnswerPcs, CountAttempt, At
  <1>1. PICK left : task[r].left = left
    OBVIOUS
  <1>2. CASE otp' = otp
    BY <1>2 DEF ExpiryInv, UntriedCodeExpires
  <1>3. CASE otp' = [otp EXCEPT ![p] = Set([seen EXCEPT !.attempts = @ + 1], left)]
    <2>1. Set([seen EXCEPT !.attempts = @ + 1], left).value.attempts > 0
      BY OtpAssumption DEF OtpAssumption, Set, Stored
    <2>. QED BY <1>3, <2>1 DEF ExpiryInv, TypeInv, TypeOK, UntriedCodeExpires
  <1>. QED BY <1>0, <1>1, <1>2, <1>3 DEF CountAttempt

LEMMA DeleteUntried ==
    ASSUME ExpiryInv, NEW p \in Phones, Delete(p)
    PROVE  UntriedCodeExpires'
  <1>1. Absent(NoCode).ttl # Persistent
    BY DEF Absent, Gone, Persistent
  <1>. QED BY <1>1 DEF Delete, ExpiryInv, TypeInv, TypeOK, UntriedCodeExpires

LEMMA NextExpiry ==
    ASSUME ExpiryInv, [Next]_vars
    PROVE  ExpiryInv'
  <1>1. TypeInv'
    BY NextType DEF ExpiryInv
  <1>. task \in [Requests -> Task] /\ \A r \in Requests : ~At(r, "idle") => task[r].phone \in Phones
    BY DEF ExpiryInv, TypeInv, TypeOK, TaskOK, At
  <1>2. ASSUME NEW r \in Requests, NEW p \in Phones, NEW i \in Ips, RequestOtp(r, p, i)
        PROVE  CountersOK' /\ PhoneCounterExpires' /\ UntriedCodeExpires'
    BY <1>2, OneGoesOn DEF RequestOtp, Begin, At, ExpiryInv, UntriedCodeExpires
  <1>3. ASSUME NEW r \in Requests, NEW p \in Phones, NEW typed \in Codes, VerifyOtp(r, p, typed)
        PROVE  CountersOK' /\ PhoneCounterExpires' /\ UntriedCodeExpires'
    <2>1. task' = [task EXCEPT ![r] = Verifying(p, typed)] /\ At(r, "idle")
      BY <1>3 DEF VerifyOtp, Begin, Verifying
    <2>. QED BY <1>3, <2>1, OneGoesOn DEF VerifyOtp, At, ExpiryInv, UntriedCodeExpires
  <1>4. ASSUME NEW r \in Requests, StoreOtp(r)
        PROVE  CountersOK' /\ PhoneCounterExpires' /\ UntriedCodeExpires'
    <2>1. task' = [task EXCEPT ![r] = [task[r] EXCEPT !.pc = "count"]]
      BY <1>4 DEF StoreOtp, Go
    <2>. QED BY <1>4, <2>1, OneGoesOn, StoreUntried DEF StoreOtp, At
  <1>5. ASSUME NEW r \in Requests, DiscardOtp(r) \/ CountAttempt(r)
        PROVE  CountersOK' /\ PhoneCounterExpires' /\ UntriedCodeExpires'
    BY <1>5, OneGoesOn, DeleteUntried, CountUntried DEF DiscardOtp, CountAttempt, End, At
  <1>6. ASSUME NEW r \in Requests, ConsumeOtp(r)
        PROVE  CountersOK' /\ PhoneCounterExpires' /\ UntriedCodeExpires'
    <2>1. task' = [task EXCEPT ![r] = [task[r] EXCEPT !.pc = "find"]]
      BY <1>6 DEF ConsumeOtp, Go
    <2>. QED BY <1>6, <2>1, OneGoesOn, DeleteUntried DEF ConsumeOtp, At
  <1>7. ASSUME NEW r \in Requests, ReadTtl(r) \/ FindUser(r) \/ CreateUser(r)
        PROVE  CountersOK' /\ PhoneCounterExpires' /\ UntriedCodeExpires'
    <2>1. \E t : task' = [task EXCEPT ![r] = t]
      <3>1. CASE ReadTtl(r)
        <4>1. task' = [task EXCEPT ![r] = [task[r] EXCEPT !.pc = "write", !.left = Ttl(otp[task[r].phone])]]
          BY <3>1 DEF ReadTtl
        <4>. QED BY <4>1
      <3>2. CASE FindUser(r)
        <4>1. \/ task' = [task EXCEPT ![r] = [task[r] EXCEPT !.pc = "create"]]
              \/ task' = [task EXCEPT ![r] = Idle]
          BY <3>2 DEF FindUser, Go, End
        <4>. QED BY <4>1
      <3>3. CASE CreateUser(r)
        BY <3>3 DEF CreateUser, End
      <3>. QED BY <1>7, <3>1, <3>2, <3>3
    <2>. QED
      BY <1>7, <2>1, OneGoesOn
      DEF ReadTtl, FindUser, CreateUser, At, ExpiryInv, UntriedCodeExpires
  <1>8. ASSUME NEW r \in Requests, IncrementRateLimit(r) \/ ExpireRateLimit(r) \/ Fail(r)
        PROVE  CountersOK' /\ PhoneCounterExpires' /\ UntriedCodeExpires'
    BY <1>8, IncrementExpiry, ExpireExpiry, FailExpiry
    DEF IncrementRateLimit, ExpireRateLimit, Fail, ExpiryInv, UntriedCodeExpires
  <1>9. ASSUME UNCHANGED vars
        PROVE  CountersOK' /\ PhoneCounterExpires' /\ UntriedCodeExpires'
    <2>1. CountersOK' /\ UntriedCodeExpires'
      BY <1>9 DEF vars, ExpiryInv, CountersOK, UntriedCodeExpires
    <2>2. PhoneCounterExpires'
      BY <1>9 DEF vars, ExpiryInv, PhoneCounterExpires, At
    <2>. QED BY <2>1, <2>2
  <1>. Verified \subseteq Phones
    BY OtpAssumption DEF OtpAssumption
  <1>. QED
    BY <1>1, <1>2, <1>3, <1>4, <1>5, <1>6, <1>7, <1>8, <1>9, TickExpiry
    DEF ExpiryInv, Next, Step

\* No phone is locked out for good unless a request failed between INCR and
\* EXPIRE (auth.service.ts:258), for any number of requests.
THEOREM PhonesAreReleased == Spec => []PhoneCounterExpires
  <1>1. Init => ExpiryInv
    BY InitExpiry
  <1>2. ExpiryInv => PhoneCounterExpires
    BY DEF ExpiryInv
  <1>. QED BY <1>1, <1>2, NextExpiry, PTL DEF Spec

\* A code that nobody has failed to guess has an expiry (auth.service.ts:62, 101).
THEOREM FreshCodesExpire == Spec => []UntriedCodeExpires
  <1>1. Init => ExpiryInv
    BY InitExpiry
  <1>2. ExpiryInv => UntriedCodeExpires
    BY DEF ExpiryInv
  <1>. QED BY <1>1, <1>2, NextExpiry, PTL DEF Spec

LEMMA NextUsers ==
    ASSUME UsersInv, [Next]_vars
    PROVE  UsersInv'
  <1>1. TypeInv'
    BY NextType DEF UsersInv
  <1>2. ASSUME NEW r \in Requests, CreateUser(r)
        PROVE  (\A p \in Phones : p \notin users => welcomed[p] = 0)' /\ WelcomedOnce'
    <2>1. PICK p \in Phones : task[r].phone = p
      BY <1>2 DEF UsersInv, TypeInv, TaskOK, CreateUser, At
    <2>2. /\ users' = users \cup {p} /\ welcomed \in [Phones -> Nat]
          /\ welcomed' = [welcomed EXCEPT ![p] = IF p \in users THEN @ ELSE @ + 1]
      BY <1>2, <2>1 DEF UsersInv, TypeInv, TypeOK, CreateUser
    <2>. QED BY <2>2 DEF UsersInv, WelcomedOnce
  <1>3. ASSUME users' = users, welcomed' = welcomed
        PROVE  (\A p \in Phones : p \notin users => welcomed[p] = 0)' /\ WelcomedOnce'
    BY <1>3 DEF UsersInv, WelcomedOnce
  <1>4. (users' = users /\ welcomed' = welcomed) \/ \E r \in Requests : CreateUser(r)
    BY DEF Next, Step, vars, RequestOtp, VerifyOtp, StoreOtp, IncrementRateLimit,
           ExpireRateLimit, DiscardOtp, ReadTtl, CountAttempt, ConsumeOtp, FindUser, Fail, Tick
  <1>. QED BY <1>1, <1>2, <1>3, <1>4 DEF UsersInv

\* A phone number is welcomed as a new user once, however its requests overlap
\* (auth.service.ts:266-284).
THEOREM NewUsersAreWelcomedOnce == Spec => []WelcomedOnce
  <1>1. Init => UsersInv
    BY InitExpiry
  <1>2. UsersInv => WelcomedOnce
    BY DEF UsersInv
  <1>. QED BY <1>1, <1>2, NextUsers, PTL DEF Spec

-----------------------------------------------------------------------------
(* The limits: a counter and the requests that have yet to count stay within *)
(* the limit that the check sees and one more for each slot.                 *)

Uncounted == {"store", "count"}

PhonePending(p) == {r \in Requests : task[r].pc \in Uncounted /\ task[r].phone = p}
IpPending(i) == {r \in Requests : task[r].pc \in Uncounted /\ task[r].ip = i}

PhonesWithin ==
    \A p \in Phones :
        phoneRate[p].value + Cardinality(PhonePending(p)) <= Overshoot(RateLimitMax)

IpsWithin ==
    \A i \in Ips :
        ipRate[i].value + Cardinality(IpPending(i)) <= Overshoot(RateLimitMax * 2)

LimitInv == TypeInv /\ PhonesWithin /\ IpsWithin

LEMMA PendingFinite ==
    /\ \A p : IsFiniteSet(PhonePending(p)) /\ Cardinality(PhonePending(p)) \in Nat
              /\ Cardinality(PhonePending(p)) <= Cardinality(Requests)
    /\ \A i : IsFiniteSet(IpPending(i)) /\ Cardinality(IpPending(i)) \in Nat
              /\ Cardinality(IpPending(i)) <= Cardinality(Requests)
    /\ Cardinality(Requests) \in Nat
  <1>1. \A p : PhonePending(p) \subseteq Requests
    BY DEF PhonePending
  <1>2. \A i : IpPending(i) \subseteq Requests
    BY DEF IpPending
  <1>. QED
    BY <1>1, <1>2, OtpAssumption, FS_Subset, FS_CardinalityType DEF OtpAssumption

LEMMA OvershootType ==
    /\ Overshoot(RateLimitMax) \in Nat /\ Overshoot(RateLimitMax * 2) \in Nat
    /\ Overshoot(RateLimitMax) = RateLimitMax - 1 + Cardinality(Requests)
    /\ Overshoot(RateLimitMax * 2) = RateLimitMax * 2 - 1 + Cardinality(Requests)
    /\ RateLimitMax \in Nat \ {0}
  BY OtpAssumption, FS_CardinalityType DEF OtpAssumption, Overshoot

\* Neither grows, or a request leaves the one for the other.
LEMMA BoundStays ==
    ASSUME NEW S, IsFiniteSet(S), NEW T \in SUBSET S, NEW m \in Nat, NEW n \in Nat, n <= m,
           NEW b \in Nat, m + Cardinality(S) <= b
    PROVE  n + Cardinality(T) <= b
  <1>1. Cardinality(T) <= Cardinality(S) /\ Cardinality(T) \in Nat /\ Cardinality(S) \in Nat
    BY FS_Subset, FS_CardinalityType
  <1>. QED BY <1>1

LEMMA BoundCounts ==
    ASSUME NEW S, IsFiniteSet(S), NEW r \in S, NEW T \in SUBSET (S \ {r}), NEW m \in Nat,
           NEW b \in Nat, m + Cardinality(S) <= b
    PROVE  (m + 1) + Cardinality(T) <= b
  <1>1. IsFiniteSet(S \ {r}) /\ Cardinality(S \ {r}) = Cardinality(S) - 1
    BY FS_RemoveElement
  <1>2. Cardinality(T) <= Cardinality(S \ {r}) /\ Cardinality(T) \in Nat
        /\ Cardinality(S) \in Nat
    BY <1>1, FS_Subset, FS_CardinalityType
  <1>. QED BY <1>1, <1>2

LEMMA InitLimit == Init => LimitInv
  <1>. SUFFICES ASSUME Init PROVE LimitInv
    OBVIOUS
  <1>1. \A p \in Phones : phoneRate[p].value = 0
    BY DEF Init, Absent
  <1>2. \A i \in Ips : ipRate[i].value = 0
    BY DEF Init, Absent
  <1>3. \A p : PhonePending(p) = {}
    BY IdleType DEF Init, PhonePending, Uncounted
  <1>4. \A i : IpPending(i) = {}
    BY IdleType DEF Init, IpPending, Uncounted
  <1>5. Cardinality({}) = 0
    BY FS_EmptySet
  <1>6. PhonesWithin
    <2>1. \A p : Cardinality(PhonePending(p)) = 0
      BY <1>3, <1>5
    <2>. QED BY <1>1, <2>1, OvershootType DEF PhonesWithin
  <1>7. IpsWithin
    <2>1. \A i : Cardinality(IpPending(i)) = 0
      BY <1>4, <1>5
    <2>. QED BY <1>2, <2>1, OvershootType DEF IpsWithin
  <1>. QED BY <1>6, <1>7, InitType DEF LimitInv

\* A step that counts nothing and lets no request pass the check.
LEMMA LimitStays ==
    ASSUME LimitInv, TypeInv',
           \A r \in Requests : task'[r].pc \in Uncounted =>
               task[r].pc \in Uncounted /\ task'[r].phone = task[r].phone
               /\ task'[r].ip = task[r].ip,
           \A p \in Phones : phoneRate'[p].value <= phoneRate[p].value,
           \A i \in Ips : ipRate'[i].value <= ipRate[i].value
    PROVE  LimitInv'
  <1>1. ASSUME NEW p \in Phones
        PROVE  phoneRate'[p].value + Cardinality(PhonePending(p)') <= Overshoot(RateLimitMax)
    <2>1. PhonePending(p)' \in SUBSET PhonePending(p) /\ IsFiniteSet(PhonePending(p))
      BY PendingFinite DEF PhonePending
    <2>2. phoneRate'[p].value \in Nat /\ phoneRate[p].value \in Nat
          /\ phoneRate'[p].value <= phoneRate[p].value
          /\ phoneRate[p].value + Cardinality(PhonePending(p)) <= Overshoot(RateLimitMax)
      BY DEF LimitInv, PhonesWithin, TypeInv, TypeOK, Keys
    <2>. QED BY <2>1, <2>2, OvershootType, BoundStays
  <1>2. ASSUME NEW i \in Ips
        PROVE  ipRate'[i].value + Cardinality(IpPending(i)') <= Overshoot(RateLimitMax * 2)
    <2>1. IpPending(i)' \in SUBSET IpPending(i) /\ IsFiniteSet(IpPending(i))
      BY PendingFinite DEF IpPending
    <2>2. ipRate'[i].value \in Nat /\ ipRate[i].value \in Nat
          /\ ipRate'[i].value <= ipRate[i].value
          /\ ipRate[i].value + Cardinality(IpPending(i)) <= Overshoot(RateLimitMax * 2)
      BY DEF LimitInv, IpsWithin, TypeInv, TypeOK, Keys
    <2>. QED BY <2>1, <2>2, OvershootType, BoundStays
  <1>3. PhonesWithin'
    BY <1>1 DEF PhonesWithin, Overshoot
  <1>4. IpsWithin'
    BY <1>2 DEF IpsWithin, Overshoot
  <1>. QED BY <1>3, <1>4 DEF LimitInv

\* A request goes on without counting.
LEMMA TaskLimit ==
    ASSUME LimitInv, TypeInv', NEW r \in Requests, NEW t, task' = [task EXCEPT ![r] = t],
           t.pc \in Uncounted => task[r].pc \in Uncounted /\ t.phone = task[r].phone
                                 /\ t.ip = task[r].ip,
           \A p \in Phones : phoneRate'[p].value = phoneRate[p].value,
           \A i \in Ips : ipRate'[i].value = ipRate[i].value
    PROVE  LimitInv'
  <1>1. task \in [Requests -> Task] /\ \A p \in Phones : phoneRate[p].value \in Nat
        /\ \A i \in Ips : ipRate[i].value \in Nat
    BY DEF LimitInv, TypeInv, TypeOK, Keys
  <1>2. \A p \in Phones : phoneRate'[p].value <= phoneRate[p].value
    BY <1>1
  <1>3. \A i \in Ips : ipRate'[i].value <= ipRate[i].value
    <2>1. \A i \in Ips : ipRate[i].value \in Nat
      BY DEF LimitInv, TypeInv, TypeOK, Keys
    <2>. QED BY <2>1
  <1>4. \A s \in Requests : task'[s].pc \in Uncounted =>
               task[s].pc \in Uncounted /\ task'[s].phone = task[s].phone
               /\ task'[s].ip = task[s].ip
    BY <1>1
  <1>. QED BY <1>2, <1>3, <1>4, LimitStays

LEMMA RequestLimit ==
    ASSUME LimitInv, TypeInv', NEW r \in Requests, NEW p \in Phones, NEW i \in Ips,
           RequestOtp(r, p, i)
    PROVE  LimitInv'
  <1>. DEFINE t == [Idle EXCEPT !.pc = "store", !.phone = p, !.ip = i]
  <1>1. t.phone = p /\ t.ip = i
    BY DEF Idle
  <1>2. task' = [task EXCEPT ![r] = t] /\ task \in [Requests -> Task] /\ At(r, "idle")
        /\ phoneRate' = phoneRate /\ ipRate' = ipRate
    BY DEF RequestOtp, Begin, LimitInv, TypeInv, TypeOK
  <1>. HIDE DEF t
  <1>3. ASSUME NEW q \in Phones
        PROVE  phoneRate'[q].value + Cardinality(PhonePending(q)') <= Overshoot(RateLimitMax)
    <2>1. CASE q = p
      <3>1. phoneRate'[q].value \in Nat /\ phoneRate'[q].value < RateLimitMax
        BY <1>2, <2>1 DEF RequestOtp, WithinLimit, TypeInv, TypeOK, Keys
      <3>2. PhonePending(q)' \in SUBSET Requests
        BY DEF PhonePending
      <3>3. Cardinality(PhonePending(q)') \in Nat
            /\ Cardinality(PhonePending(q)') <= Cardinality(Requests)
        BY <3>2, OtpAssumption, FS_Subset, FS_CardinalityType DEF OtpAssumption
      <3>. QED BY <3>1, <3>3, OvershootType, PendingFinite
    <2>2. CASE q # p
      <3>1. PhonePending(q)' = PhonePending(q)
        BY <1>1, <1>2, <2>2 DEF PhonePending, At, Uncounted
      <3>. QED BY <1>2, <3>1 DEF LimitInv, PhonesWithin
    <2>. QED BY <2>1, <2>2
  <1>4. ASSUME NEW q \in Ips
        PROVE  ipRate'[q].value + Cardinality(IpPending(q)') <= Overshoot(RateLimitMax * 2)
    <2>1. CASE q = i
      <3>1. ipRate'[q].value \in Nat /\ ipRate'[q].value < RateLimitMax * 2
        BY <1>2, <2>1 DEF RequestOtp, WithinLimit, TypeInv, TypeOK, Keys
      <3>2. IpPending(q)' \in SUBSET Requests
        BY DEF IpPending
      <3>3. Cardinality(IpPending(q)') \in Nat
            /\ Cardinality(IpPending(q)') <= Cardinality(Requests)
        BY <3>2, OtpAssumption, FS_Subset, FS_CardinalityType DEF OtpAssumption
      <3>. QED BY <3>1, <3>3, OvershootType, PendingFinite
    <2>2. CASE q # i
      <3>1. IpPending(q)' = IpPending(q)
        BY <1>1, <1>2, <2>2 DEF IpPending, At, Uncounted
      <3>. QED BY <1>2, <3>1 DEF LimitInv, IpsWithin
    <2>. QED BY <2>1, <2>2
  <1>5. PhonesWithin' /\ IpsWithin'
    BY <1>3, <1>4 DEF PhonesWithin, IpsWithin, Overshoot
  <1>. QED BY <1>5 DEF LimitInv

LEMMA IncrementLimit ==
    ASSUME LimitInv, TypeInv', NEW r \in Requests, IncrementRateLimit(r)
    PROVE  LimitInv'
  <1>1. PICK p \in Phones, i \in Ips : task[r].phone = p /\ task[r].ip = i
    BY DEF LimitInv, TypeInv, TaskOK, IncrementRateLimit, At, RequestPcs
  <1>2. /\ task \in [Requests -> Task] /\ task[r].pc = "count"
        /\ phoneRate \in [Phones -> Keys(Nat, RateLimitWindow)]
        /\ ipRate \in [Ips -> Keys(Nat, RateLimitWindow)]
        /\ phoneRate' = [phoneRate EXCEPT ![p] = Incr(@)]
        /\ ipRate' = [ipRate EXCEPT ![i] = Incr(@)]
    BY <1>1 DEF LimitInv, TypeInv, TypeOK, IncrementRateLimit, At
  <1>3. task'[r].pc \notin Uncounted
    BY <1>2, IdleType DEF IncrementRateLimit, Go, End, Uncounted, Task
  <1>4. \A s \in Requests \ {r} : task'[s] = task[s]
    BY <1>2 DEF IncrementRateLimit, Go, End
  <1>5. ASSUME NEW q \in Phones
        PROVE  phoneRate'[q].value + Cardinality(PhonePending(q)') <= Overshoot(RateLimitMax)
    <2>1. PhonePending(q)' \in SUBSET (PhonePending(q) \ {r}) /\ IsFiniteSet(PhonePending(q))
      BY <1>3, <1>4, PendingFinite DEF PhonePending
    <2>2. phoneRate[q].value \in Nat
          /\ phoneRate[q].value + Cardinality(PhonePending(q)) <= Overshoot(RateLimitMax)
      BY DEF LimitInv, PhonesWithin, TypeInv, TypeOK, Keys
    <2>3. CASE q = p
      <3>1. r \in PhonePending(q) /\ phoneRate'[q].value = phoneRate[q].value + 1
        BY <1>1, <1>2, <2>3 DEF PhonePending, Uncounted, Incr
      <3>. QED BY <2>1, <2>2, <3>1, OvershootType, BoundCounts
    <2>4. CASE q # p
      <3>1. phoneRate'[q].value = phoneRate[q].value
        BY <1>2, <2>4
      <3>2. PhonePending(q)' \in SUBSET PhonePending(q) /\ phoneRate[q].value <= phoneRate[q].value
        BY <2>1, <2>2
      <3>. QED BY <2>1, <2>2, <3>1, <3>2, OvershootType, BoundStays
    <2>. QED BY <2>3, <2>4
  <1>6. ASSUME NEW q \in Ips
        PROVE  ipRate'[q].value + Cardinality(IpPending(q)') <= Overshoot(RateLimitMax * 2)
    <2>1. IpPending(q)' \in SUBSET (IpPending(q) \ {r}) /\ IsFiniteSet(IpPending(q))
      BY <1>3, <1>4, PendingFinite DEF IpPending
    <2>2. ipRate[q].value \in Nat
          /\ ipRate[q].value + Cardinality(IpPending(q)) <= Overshoot(RateLimitMax * 2)
      BY DEF LimitInv, IpsWithin, TypeInv, TypeOK, Keys
    <2>3. CASE q = i
      <3>1. r \in IpPending(q) /\ ipRate'[q].value = ipRate[q].value + 1
        BY <1>1, <1>2, <2>3 DEF IpPending, Uncounted, Incr
      <3>. QED BY <2>1, <2>2, <3>1, OvershootType, BoundCounts
    <2>4. CASE q # i
      <3>1. ipRate'[q].value = ipRate[q].value
        BY <1>2, <2>4
      <3>2. IpPending(q)' \in SUBSET IpPending(q) /\ ipRate[q].value <= ipRate[q].value
        BY <2>1, <2>2
      <3>. QED BY <2>1, <2>2, <3>1, <3>2, OvershootType, BoundStays
    <2>. QED BY <2>3, <2>4
  <1>7. PhonesWithin' /\ IpsWithin'
    BY <1>5, <1>6 DEF PhonesWithin, IpsWithin, Overshoot
  <1>. QED BY <1>7 DEF LimitInv

LEMMA ExpireLimit ==
    ASSUME LimitInv, TypeInv', NEW r \in Requests, ExpireRateLimit(r)
    PROVE  LimitInv'
  <1>1. PICK p \in Phones, i \in Ips : task[r].phone = p /\ task[r].ip = i
    BY DEF LimitInv, TypeInv, TaskOK, ExpireRateLimit, At, RequestPcs
  <1>2. /\ task' = [task EXCEPT ![r] = Idle]
        /\ phoneRate \in [Phones -> Keys(Nat, RateLimitWindow)]
        /\ ipRate \in [Ips -> Keys(Nat, RateLimitWindow)]
        /\ phoneRate' = [phoneRate EXCEPT ![p] = Expire(@, RateLimitWindow)]
        /\ ipRate' = [ipRate EXCEPT ![i] = Expire(@, RateLimitWindow)]
    BY <1>1 DEF LimitInv, TypeInv, TypeOK, ExpireRateLimit, End
  <1>3. \A q \in Phones : phoneRate'[q].value = phoneRate[q].value
    BY <1>2 DEF Expire, Keys
  <1>4. \A q \in Ips : ipRate'[q].value = ipRate[q].value
    BY <1>2 DEF Expire, Keys
  <1>. QED BY <1>2, <1>3, <1>4, IdleType, TaskLimit DEF Uncounted

LEMMA TickLimit ==
    ASSUME LimitInv, TypeInv', Tick
    PROVE  LimitInv'
  <1>0. RateLimitWindow \in Nat
    BY OtpAssumption DEF OtpAssumption
  <1>1. ASSUME NEW n \in Nat, NEW key \in Keys(Nat, n)
        PROVE  Elapse(key, 0).value <= key.value
    <2>1. key.value \in Nat
      BY DEF Keys
    <2>2. Elapse(key, 0).value = key.value \/ Elapse(key, 0).value = 0
      BY ElapseType DEF Absent
    <2>. QED BY <2>1, <2>2
  <1>2. \A p \in Phones : phoneRate'[p].value <= phoneRate[p].value
    BY <1>0, <1>1 DEF Tick, LimitInv, TypeInv, TypeOK
  <1>3. \A i \in Ips : ipRate'[i].value <= ipRate[i].value
    BY <1>0, <1>1 DEF Tick, LimitInv, TypeInv, TypeOK
  <1>. QED BY <1>2, <1>3, LimitStays DEF Tick

LEMMA NextLimit ==
    ASSUME LimitInv, [Next]_vars
    PROVE  LimitInv'
  <1>1. TypeInv'
    BY NextType DEF LimitInv
  <1>. task \in [Requests -> Task]
    BY DEF LimitInv, TypeInv, TypeOK
  <1>2. ASSUME NEW r \in Requests, End(r), phoneRate' = phoneRate, ipRate' = ipRate
        PROVE  LimitInv'
    BY <1>1, <1>2, IdleType, TaskLimit DEF End, Uncounted
  <1>3. ASSUME NEW r \in Requests, NEW pc \in {"count", "find", "create"}, Go(r, pc),
               pc = "count" => At(r, "store"), phoneRate' = phoneRate, ipRate' = ipRate
        PROVE  LimitInv'
    <2>. DEFINE t == [task[r] EXCEPT !.pc = pc]
    <2>1. task' = [task EXCEPT ![r] = t] /\ t.pc = pc /\ t.phone = task[r].phone
          /\ t.ip = task[r].ip
      BY <1>3 DEF Go, Task
    <2>. HIDE DEF t
    <2>. QED BY <1>1, <1>3, <2>1, TaskLimit DEF Uncounted, At
  <1>4. ASSUME NEW r \in Requests, NEW p \in Phones, NEW typed \in Codes, VerifyOtp(r, p, typed)
        PROVE  LimitInv'
    <2>1. task' = [task EXCEPT ![r] = Verifying(p, typed)] /\ Exists(otp[p])
          /\ phoneRate' = phoneRate /\ ipRate' = ipRate
      BY <1>4 DEF VerifyOtp, Begin, Verifying
    <2>2. Verifying(p, typed).pc \notin Uncounted
      BY <2>1, VerifyingType DEF LimitInv, Uncounted
    <2>. QED BY <1>1, <2>1, <2>2, TaskLimit
  <1>5. ASSUME NEW r \in Requests, ReadTtl(r)
        PROVE  LimitInv'
    <2>. DEFINE t == [task[r] EXCEPT !.pc = "write", !.left = Ttl(otp[task[r].phone])]
    <2>1. task' = [task EXCEPT ![r] = t] /\ t.pc = "write"
          /\ phoneRate' = phoneRate /\ ipRate' = ipRate
      BY <1>5 DEF ReadTtl, Task
    <2>. HIDE DEF t
    <2>. QED BY <1>1, <2>1, TaskLimit DEF Uncounted
  <1>6. ASSUME NEW r \in Requests, StoreOtp(r)
        PROVE  LimitInv'
    BY <1>3, <1>6 DEF StoreOtp
  <1>7. ASSUME NEW r \in Requests, ConsumeOtp(r)
        PROVE  LimitInv'
    BY <1>3, <1>7 DEF ConsumeOtp
  <1>8. ASSUME NEW r \in Requests, FindUser(r)
        PROVE  LimitInv'
    BY <1>2, <1>3, <1>8 DEF FindUser
  <1>9. ASSUME NEW r \in Requests, DiscardOtp(r) \/ CountAttempt(r) \/ CreateUser(r) \/ Fail(r)
        PROVE  LimitInv'
    BY <1>2, <1>9 DEF DiscardOtp, CountAttempt, CreateUser, Fail
  <1>10. ASSUME UNCHANGED vars
         PROVE  LimitInv'
    BY <1>10 DEF vars, LimitInv, TypeInv, TypeOK, TaskOK, PhonesWithin, IpsWithin,
                 PhonePending, IpPending
  <1>. Verified \subseteq Phones
    BY OtpAssumption DEF OtpAssumption
  <1>. QED
    BY <1>1, <1>4, <1>5, <1>6, <1>7, <1>8, <1>9, <1>10, RequestLimit, IncrementLimit,
       ExpireLimit, TickLimit
    DEF Next, Step

\* Requests that overlap exceed the limits of auth.service.ts:226-246 by one each
\* at most, for any limits and any number of slots.
THEOREM LimitsHoldWithinOverlap == Spec => []LimitsAreExceededByOverlapOnly
  <1>1. Init => LimitInv
    BY InitLimit
  <1>2. LimitInv => LimitsAreExceededByOverlapOnly
    <2>. SUFFICES ASSUME LimitInv PROVE LimitsAreExceededByOverlapOnly
      OBVIOUS
    <2>1. ASSUME NEW p \in Phones
          PROVE  phoneRate[p].value <= Overshoot(RateLimitMax)
      <3>1. phoneRate[p].value \in Nat /\ Cardinality(PhonePending(p)) \in Nat
            /\ phoneRate[p].value + Cardinality(PhonePending(p)) <= Overshoot(RateLimitMax)
        BY PendingFinite DEF LimitInv, PhonesWithin, TypeInv, TypeOK, Keys
      <3>. QED BY <3>1, OvershootType
    <2>2. ASSUME NEW i \in Ips
          PROVE  ipRate[i].value <= Overshoot(RateLimitMax * 2)
      <3>1. ipRate[i].value \in Nat /\ Cardinality(IpPending(i)) \in Nat
            /\ ipRate[i].value + Cardinality(IpPending(i)) <= Overshoot(RateLimitMax * 2)
        BY PendingFinite DEF LimitInv, IpsWithin, TypeInv, TypeOK, Keys
      <3>. QED BY <3>1, OvershootType
    <2>. QED BY <2>1, <2>2 DEF LimitsAreExceededByOverlapOnly
  <1>. QED BY <1>1, <1>2, NextLimit, PTL DEF Spec

-----------------------------------------------------------------------------
(* The answers per code: the ladder of what the slots may still have answered *)
(* goes down with every answer, in an order of which it is a member of        *)
(* finitely many.                                                             *)

\* Slot r may have a guess about p answered with n attempts left or more: with
\* the code that is stored, or with the one it has read.
Answerable(p, r, n) ==
    \/ Exists(otp[p]) /\ otp[p].value.attempts + n <= MaxAttempts
    \/ /\ task[r].phone = p
       /\ task[r].pc \in AnswerPcs
       /\ task[r].seen.attempts + n <= MaxAttempts

Rung(p, n) == {r \in Requests : Answerable(p, r, n)}

Ladder(p) == [n \in 1..MaxAttempts |-> Cardinality(Rung(p, n))]

\* f is lower than g at some rung and no higher at the ones above it.
Below(f, g) ==
    \E n \in 1..MaxAttempts :
        /\ f[n] < g[n]
        /\ \A m \in 1..MaxAttempts : m > n => f[m] <= g[m]

Lower(p) == {f \in Ladders : Below(f, Ladder(p))}

Accounted(p) == answered[p] + Cardinality(Lower(p)) < Cardinality(Ladders)

AnswersInv == TypeInv /\ \A p \in Phones : Accounted(p)

LEMMA LaddersFinite == IsFiniteSet(Ladders) /\ Cardinality(Ladders) \in Nat
  <1>. DEFINE S == 1..MaxAttempts
              T == 0..Cardinality(Requests)
              Graph(f) == {x \in S \X T : x[2] = f[x[1]]}
              graph == [f \in Ladders |-> Graph(f)]
  <1>1. MaxAttempts \in Nat /\ Cardinality(Requests) \in Nat
    BY OtpAssumption, FS_CardinalityType DEF OtpAssumption
  <1>2. IsFiniteSet(S) /\ IsFiniteSet(T)
    BY <1>1, FS_Interval
  <1>. HIDE DEF T
  <1>3. IsFiniteSet(SUBSET (S \X T))
    BY <1>2, FS_Product, FS_SUBSET
  <1>4. \A f \in Ladders : f \in [S -> T]
    BY DEF Ladders, T
  <1>. HIDE DEF S
  <1>5. graph \in [Ladders -> SUBSET (S \X T)]
    <2>1. \A f \in Ladders : Graph(f) \in SUBSET (S \X T)
      OBVIOUS
    <2>. QED BY <2>1
  <1>6. ASSUME NEW f \in Ladders, NEW g \in Ladders, graph[f] = graph[g]
        PROVE  f = g
    <2>1. ASSUME NEW n \in S
          PROVE  f[n] = g[n]
      <3>1. f[n] \in T
        BY <1>4
      <3>2. <<n, f[n]>> \in Graph(f)
        BY <3>1
      <3>3. Graph(f) = Graph(g)
        BY <1>6
      <3>4. <<n, f[n]>> \in Graph(g)
        BY <3>2, <3>3
      <3>. QED BY <3>4
    <2>2. f \in [S -> T] /\ g \in [S -> T]
      BY <1>4
    <2>. QED BY <2>1, <2>2
  <1>. HIDE DEF graph
  <1>7. graph \in Injection(Ladders, SUBSET (S \X T))
    BY <1>5, <1>6 DEF Injection, IsInjective
  <1>8. IsFiniteSet(Ladders)
    BY <1>3, <1>7, FS_Injection
  <1>. QED BY <1>8, FS_CardinalityType

LEMMA RungFinite ==
    ASSUME NEW p, NEW n
    PROVE  /\ IsFiniteSet(Rung(p, n))
           /\ Cardinality(Rung(p, n)) \in 0..Cardinality(Requests)
           /\ Cardinality(Requests) \in Nat
  <1>1. Rung(p, n) \in SUBSET Requests
    BY DEF Rung
  <1>. QED BY <1>1, OtpAssumption, FS_Subset, FS_CardinalityType DEF OtpAssumption

\* Of two rungs, at one time or at two, the one within the other is no higher.
LEMMA RungOrder ==
    ASSUME NEW S, IsFiniteSet(S), NEW T \in SUBSET S
    PROVE  Cardinality(T) <= Cardinality(S)
           /\ \A x \in S : x \notin T => Cardinality(T) < Cardinality(S)
  <1>1. IsFiniteSet(T) /\ Cardinality(T) <= Cardinality(S) /\ (Cardinality(S) = Cardinality(T) => S = T)
    BY FS_Subset
  <1>2. Cardinality(S) \in Nat /\ Cardinality(T) \in Nat
    BY <1>1, FS_CardinalityType
  <1>. QED BY <1>1, <1>2

LadderOK == \A p \in Phones : Ladder(p) \in Ladders

LEMMA LadderType == TypeInv => LadderOK
  <1>. SUFFICES ASSUME TypeInv, NEW p \in Phones PROVE Ladder(p) \in Ladders
    BY DEF LadderOK
  <1>1. MaxAttempts \in Nat
    BY OtpAssumption DEF OtpAssumption
  <1>2. Ladder(p) \in [1..MaxAttempts -> 0..Cardinality(Requests)]
    BY RungFinite DEF Ladder
  <1>3. ASSUME NEW m \in 1..MaxAttempts, NEW n \in 1..MaxAttempts, m < n
        PROVE  Ladder(p)[n] <= Ladder(p)[m]
    <2>1. Exists(otp[p]) => otp[p].value.attempts \in Nat
      BY DEF TypeInv, TypeOK, Stored, NoCode, Keys
    <2>2. \A r \in Requests : task[r].pc \in AnswerPcs => task[r].seen.attempts \in Nat
      BY DEF TypeInv, TaskOK, Stored
    <2>3. Rung(p, n) \in SUBSET Rung(p, m)
      BY <1>1, <1>3, <2>1, <2>2 DEF Rung, Answerable
    <2>4. IsFiniteSet(Rung(p, m))
      BY RungFinite
    <2>. QED BY <2>3, <2>4, RungOrder DEF Ladder
  <1>. QED BY <1>2, <1>3 DEF Ladders

\* What is below the lower of two ladders is below the higher.
LEMMA BelowOrder ==
    ASSUME NEW f \in Ladders, NEW g \in Ladders, NEW h \in Ladders, Below(h, f),
           Below(f, g) \/ \A n \in 1..MaxAttempts : f[n] <= g[n]
    PROVE  Below(h, g)
  <1>1. MaxAttempts \in Nat /\ Cardinality(Requests) \in Nat
    BY OtpAssumption, FS_CardinalityType DEF OtpAssumption
  <1>2. \A e \in Ladders : \A n \in 1..MaxAttempts : e[n] \in Nat
    BY <1>1 DEF Ladders
  <1>3. ASSUME \A n \in 1..MaxAttempts : f[n] <= g[n]
        PROVE  Below(h, g)
    <2>1. PICK n \in 1..MaxAttempts :
            h[n] < f[n] /\ \A m \in 1..MaxAttempts : m > n => h[m] <= f[m]
      BY DEF Below
    <2>2. h[n] < g[n] /\ \A m \in 1..MaxAttempts : m > n => h[m] <= g[m]
      BY <1>2, <1>3, <2>1
    <2>. QED BY <2>2 DEF Below
  <1>4. ASSUME Below(f, g)
        PROVE  Below(h, g)
    <2>1. PICK n \in 1..MaxAttempts :
            h[n] < f[n] /\ \A m \in 1..MaxAttempts : m > n => h[m] <= f[m]
      BY DEF Below
    <2>2. PICK k \in 1..MaxAttempts :
            f[k] < g[k] /\ \A m \in 1..MaxAttempts : m > k => f[m] <= g[m]
      BY <1>4 DEF Below
    <2>3. CASE n >= k
      <3>1. f[n] <= g[n]
        BY <1>2, <2>2, <2>3
      <3>2. \A m \in 1..MaxAttempts : m > n => h[m] <= f[m] /\ f[m] <= g[m]
        BY <2>1, <2>2, <2>3
      <3>3. h[n] < g[n] /\ \A m \in 1..MaxAttempts : m > n => h[m] <= g[m]
        BY <1>2, <2>1, <3>1, <3>2
      <3>. QED BY <3>3 DEF Below
    <2>4. CASE k > n
      <3>1. h[k] <= f[k]
        BY <2>1, <2>4
      <3>2. \A m \in 1..MaxAttempts : m > k => h[m] <= f[m] /\ f[m] <= g[m]
        BY <2>1, <2>2, <2>4
      <3>3. h[k] < g[k] /\ \A m \in 1..MaxAttempts : m > k => h[m] <= g[m]
        BY <1>2, <2>2, <3>1, <3>2
      <3>. QED BY <3>3 DEF Below
    <2>. QED BY <2>3, <2>4
  <1>. QED BY <1>3, <1>4

LEMMA NotBelowItself ==
    ASSUME NEW f \in Ladders
    PROVE  ~Below(f, f)
  <1>1. \A n \in 1..MaxAttempts : f[n] \in Int
    BY OtpAssumption, FS_CardinalityType DEF OtpAssumption, Ladders
  <1>. QED BY <1>1 DEF Below

LEMMA LowerFinite ==
    ASSUME NEW p
    PROVE  IsFiniteSet(Lower(p)) /\ Cardinality(Lower(p)) \in Nat
  <1>1. Lower(p) \in SUBSET Ladders
    BY DEF Lower
  <1>. QED BY <1>1, LaddersFinite, FS_Subset, FS_CardinalityType

\* No rung rises and nothing is answered.
LEMMA NoAnswer ==
    ASSUME AnswersInv, TypeInv', NEW p \in Phones, answered'[p] = answered[p],
           \A n \in 1..MaxAttempts : Rung(p, n)' \subseteq Rung(p, n)
    PROVE  Accounted(p)'
  <1>1. Ladder(p) \in Ladders /\ Ladder(p)' \in Ladders
    <2>1. TypeInv' => LadderOK'
      BY LadderType, PTL
    <2>. QED BY <2>1, LadderType DEF AnswersInv, LadderOK
  <1>2. \A n \in 1..MaxAttempts : Ladder(p)'[n] <= Ladder(p)[n]
    BY RungFinite, RungOrder DEF Ladder
  <1>3. Lower(p)' \in SUBSET Lower(p)
    BY <1>1, <1>2, BelowOrder DEF Lower
  <1>4. Cardinality(Lower(p)') <= Cardinality(Lower(p))
    BY <1>3, LowerFinite, FS_Subset
  <1>5. /\ Cardinality(Lower(p)) \in Nat /\ Cardinality(Lower(p)') \in Nat
        /\ answered[p] \in Nat /\ Cardinality(Ladders) \in Nat
    BY <1>3, LowerFinite, LaddersFinite, FS_Subset, FS_CardinalityType DEF AnswersInv, TypeInv, TypeOK
  <1>6. answered[p] + Cardinality(Lower(p)) < Cardinality(Ladders)
    BY DEF AnswersInv, Accounted
  <1>7. (answered[p] + Cardinality(Lower(p)) < Cardinality(Ladders))'
    BY <1>4, <1>5, <1>6
  <1>. QED BY <1>7 DEF Accounted

\* A slot leaves rung k, no rung from there on rises, and a guess is answered.
LEMMA OneAnswer ==
    ASSUME AnswersInv, TypeInv', NEW p \in Phones, answered'[p] = answered[p] + 1,
           NEW k \in 1..MaxAttempts, NEW r \in Rung(p, k), r \notin Rung(p, k)',
           \A n \in 1..MaxAttempts : n >= k => Rung(p, n)' \subseteq Rung(p, n)
    PROVE  Accounted(p)'
  <1>1. Ladder(p) \in Ladders /\ Ladder(p)' \in Ladders
    <2>1. TypeInv' => LadderOK'
      BY LadderType, PTL
    <2>. QED BY <2>1, LadderType DEF AnswersInv, LadderOK
  <1>2. Below(Ladder(p)', Ladder(p))
    <2>1. \A n \in 1..MaxAttempts : n >= k => Ladder(p)'[n] <= Ladder(p)[n]
      BY RungFinite, RungOrder DEF Ladder
    <2>2. Ladder(p)'[k] < Ladder(p)[k]
      <3>1. Rung(p, k)' \in SUBSET Rung(p, k) /\ IsFiniteSet(Rung(p, k))
        BY RungFinite
      <3>. QED BY <3>1, RungOrder DEF Ladder
    <2>3. MaxAttempts \in Nat
      BY OtpAssumption DEF OtpAssumption
    <2>. QED BY <2>1, <2>2, <2>3 DEF Below
  <1>3. Lower(p)' \in SUBSET Lower(p)
    BY <1>1, <1>2, BelowOrder DEF Lower
  <1>4. Ladder(p)' \in Lower(p)
    BY <1>1, <1>2 DEF Lower
  <1>5. Ladder(p)' \notin Lower(p)'
    BY <1>1, NotBelowItself DEF Lower
  <1>6. Cardinality(Lower(p)') < Cardinality(Lower(p))
    BY <1>3, <1>4, <1>5, LowerFinite, RungOrder
  <1>7. /\ Cardinality(Lower(p)) \in Nat /\ Cardinality(Lower(p)') \in Nat
        /\ answered[p] \in Nat /\ Cardinality(Ladders) \in Nat
    BY <1>3, LowerFinite, LaddersFinite, FS_Subset, FS_CardinalityType DEF AnswersInv, TypeInv, TypeOK
  <1>8. answered[p] + Cardinality(Lower(p)) < Cardinality(Ladders)
    BY DEF AnswersInv, Accounted
  <1>9. (answered[p] + Cardinality(Lower(p)) < Cardinality(Ladders))'
    BY <1>6, <1>7, <1>8
  <1>. QED BY <1>9 DEF Accounted

\* A new code starts with everything below the ladder still to come.
NewOK == \A p \in Phones : answered[p] = 0 => Accounted(p)

LEMMA NewCode == TypeInv => NewOK
  <1>. SUFFICES ASSUME TypeInv, NEW p \in Phones, answered[p] = 0 PROVE Accounted(p)
    BY DEF NewOK
  <1>1. Ladder(p) \in Ladders
    BY LadderType DEF LadderOK
  <1>2. Lower(p) \in SUBSET Ladders /\ Ladder(p) \notin Lower(p)
    BY <1>1, NotBelowItself DEF Lower
  <1>3. Cardinality(Lower(p)) < Cardinality(Ladders)
    BY <1>1, <1>2, LaddersFinite, RungOrder
  <1>4. Cardinality(Lower(p)) \in Nat
    BY LowerFinite
  <1>. QED BY <1>3, <1>4 DEF Accounted

LEMMA InitAnswers == Init => AnswersInv
  <1>1. Init => TypeInv /\ \A p \in Phones : answered[p] = 0
    BY InitType DEF Init
  <1>. QED BY <1>1, NewCode DEF AnswersInv, NewOK

\* Request r goes on with t, which may have no guess about q answered but with
\* the code that is stored or that r has read already.
LEMMA RungStays ==
    ASSUME TypeInv, NEW r \in Requests, NEW t, task' = [task EXCEPT ![r] = t],
           NEW q \in Phones,
           Exists(otp'[q]) => Exists(otp[q]) /\ otp'[q].value = otp[q].value,
           t.phone = q /\ t.pc \in AnswerPcs =>
               \/ Exists(otp[q]) /\ t.seen = otp[q].value
               \/ task[r].phone = q /\ task[r].pc \in AnswerPcs /\ t.seen = task[r].seen
    PROVE  \A n \in 1..MaxAttempts : Rung(q, n)' \subseteq Rung(q, n)
  <1>. SUFFICES ASSUME NEW n \in 1..MaxAttempts, NEW s \in Requests, Answerable(q, s, n)'
                PROVE  Answerable(q, s, n)
    BY DEF Rung
  <1>1. task \in [Requests -> Task]
    BY DEF TypeInv, TypeOK
  <1>2. CASE Exists(otp'[q]) /\ otp'[q].value.attempts + n <= MaxAttempts
    BY <1>2 DEF Answerable
  <1>3. CASE /\ task'[s].phone = q /\ task'[s].pc \in AnswerPcs
             /\ task'[s].seen.attempts + n <= MaxAttempts
    <2>1. CASE s = r
      BY <1>1, <1>3, <2>1 DEF Answerable
    <2>2. CASE s # r
      BY <1>1, <1>3, <2>2 DEF Answerable
    <2>. QED BY <2>1, <2>2
  <1>. QED BY <1>2, <1>3 DEF Answerable

\* A request goes on without an answer.
LEMMA GoesOn ==
    ASSUME AnswersInv, TypeInv', NEW r \in Requests, NEW t, task' = [task EXCEPT ![r] = t],
           answered' = answered,
           \A q \in Phones :
               Exists(otp'[q]) => Exists(otp[q]) /\ otp'[q].value = otp[q].value,
           \A q \in Phones :
               t.phone = q /\ t.pc \in AnswerPcs =>
                   \/ Exists(otp[q]) /\ t.seen = otp[q].value
                   \/ task[r].phone = q /\ task[r].pc \in AnswerPcs /\ t.seen = task[r].seen
    PROVE  AnswersInv'
  <1>1. ASSUME NEW q \in Phones
        PROVE  Accounted(q)'
    <2>1. \A n \in 1..MaxAttempts : Rung(q, n)' \subseteq Rung(q, n)
      BY RungStays DEF AnswersInv
    <2>. QED BY <2>1, NoAnswer
  <1>. QED BY <1>1 DEF AnswersInv

\* The code of another phone than p is not touched.
LEMMA AnswersElsewhere ==
    ASSUME AnswersInv, TypeInv', NEW r \in Requests, NEW t, task' = [task EXCEPT ![r] = t],
           t.phone = task[r].phone \/ t.pc = "idle",
           NEW q \in Phones, task[r].phone # q, otp'[q] = otp[q], answered'[q] = answered[q]
    PROVE  Accounted(q)'
  <1>1. \A n \in 1..MaxAttempts : Rung(q, n)' \subseteq Rung(q, n)
    BY RungStays DEF AnswersInv, AnswerPcs
  <1>. QED BY <1>1, NoAnswer

LEMMA StoreAnswers ==
    ASSUME AnswersInv, TypeInv', NEW r \in Requests, StoreOtp(r)
    PROVE  AnswersInv'
  <1>0. PICK p \in Phones : p = task[r].phone
    BY DEF AnswersInv, TypeInv, TaskOK, StoreOtp, At
  <1>. DEFINE t == [task[r] EXCEPT !.pc = "count"]
  <1>1. /\ task' = [task EXCEPT ![r] = t] /\ t.phone = p
        /\ answered \in [Phones -> Nat] /\ answered' = [answered EXCEPT ![p] = 0]
        /\ \A q \in Phones \ {p} : otp'[q] = otp[q]
    BY <1>0 DEF AnswersInv, TypeInv, TypeOK, StoreOtp, Go, Task
  <1>. HIDE DEF t
  <1>2. \A q \in Phones \ {p} : Accounted(q)'
    BY <1>0, <1>1, AnswersElsewhere
  <1>3. Accounted(p)'
    <2>1. TypeInv' => NewOK'
      BY NewCode, PTL
    <2>. QED BY <1>1, <2>1 DEF NewOK
  <1>. QED BY <1>2, <1>3 DEF AnswersInv

LEMMA CountAnswers ==
    ASSUME AnswersInv, TypeInv', NEW r \in Requests, CountAttempt(r)
    PROVE  AnswersInv'
  <1>0. PICK p \in Phones : p = task[r].phone
    BY DEF AnswersInv, TypeInv, TaskOK, CountAttempt, At
  <1>1. PICK seen \in Stored : task[r].seen = seen /\ ~Spent(seen)
    BY DEF AnswersInv, TypeInv, TaskOK, CountAttempt, At, AnswerPcs
  <1>2. /\ task \in [Requests -> Task] /\ task' = [task EXCEPT ![r] = Idle]
        /\ task[r].pc = "write" /\ Idle.pc = "idle"
        /\ answered \in [Phones -> Nat]
        /\ otp \in [Phones -> Keys(Stored \cup {NoCode}, OtpExpiresIn)]
    BY IdleType DEF AnswersInv, TypeInv, TypeOK, CountAttempt, End, At
  <1>3. CASE ~Settable(task[r].left)
    BY <1>2, <1>3, GoesOn DEF CountAttempt, AnswerPcs
  <1>4. CASE Settable(task[r].left)
    <2>. DEFINE k == MaxAttempts - seen.attempts
                kept == Set([seen EXCEPT !.attempts = @ + 1], task[r].left)
    <2>1. otp' = [otp EXCEPT ![p] = kept] /\ answered' = [answered EXCEPT ![p] = @ + 1]
      BY <1>0, <1>1, <1>4 DEF CountAttempt, Answer
    <2>2. k \in 1..MaxAttempts /\ seen.attempts = MaxAttempts - k /\ MaxAttempts \in Nat
      BY <1>1, OtpAssumption DEF OtpAssumption, Stored, Spent
    <2>3. otp'[p].value.attempts = MaxAttempts - k + 1
      BY <1>1, <1>2, <2>1, <2>2 DEF Set, Stored
    <2>. HIDE DEF k, kept
    <2>4. r \in Rung(p, k)
      BY <1>0, <1>1, <1>2, <2>2 DEF Rung, Answerable, AnswerPcs
    <2>5. \A n \in 1..MaxAttempts : n >= k => ~(otp'[p].value.attempts + n <= MaxAttempts)
      BY <2>2, <2>3
    <2>6. \A n \in 1..MaxAttempts : n >= k => r \notin Rung(p, n)'
      BY <1>2, <2>5 DEF Rung, Answerable, AnswerPcs
    <2>7. ASSUME NEW n \in 1..MaxAttempts, n >= k
          PROVE  Rung(p, n)' \subseteq Rung(p, n)
      <3>. SUFFICES ASSUME NEW s \in Requests, s # r, Answerable(p, s, n)'
                    PROVE  Answerable(p, s, n)
        BY <2>6, <2>7 DEF Rung
      <3>. QED BY <1>2, <2>5, <2>7 DEF Answerable
    <2>8. Accounted(p)'
      <3>1. answered'[p] = answered[p] + 1
        BY <1>2, <2>1
      <3>. QED BY <2>2, <2>4, <2>6, <2>7, <3>1, OneAnswer
    <2>9. ASSUME NEW q \in Phones, q # p
          PROVE  Accounted(q)'
      <3>1. otp'[q] = otp[q] /\ answered'[q] = answered[q]
        BY <1>2, <2>1, <2>9
      <3>. QED BY <1>0, <1>2, <2>9, <3>1, AnswersElsewhere
    <2>. QED BY <2>8, <2>9 DEF AnswersInv
  <1>. QED BY <1>3, <1>4

LEMMA ConsumeAnswers ==
    ASSUME AnswersInv, TypeInv', NEW r \in Requests, ConsumeOtp(r)
    PROVE  AnswersInv'
  <1>0. PICK p \in Phones : p = task[r].phone
    BY DEF AnswersInv, TypeInv, TaskOK, ConsumeOtp, At
  <1>. DEFINE t == [task[r] EXCEPT !.pc = "find"]
  <1>1. /\ task \in [Requests -> Task] /\ task' = [task EXCEPT ![r] = t]
        /\ t.phone = p /\ t.pc = "find" /\ task[r].pc = "consume"
        /\ answered \in [Phones -> Nat] /\ answered' = [answered EXCEPT ![p] = @ + 1]
        /\ otp' = [otp EXCEPT ![p] = Absent(NoCode)] /\ DOMAIN otp = Phones
    BY <1>0 DEF AnswersInv, TypeInv, TypeOK, ConsumeOtp, Go, Task, Answer, Delete, At
  <1>. HIDE DEF t
  <1>2. ~Exists(otp'[p])
    BY <1>1 DEF Exists, Absent
  <1>3. 1 \in 1..MaxAttempts /\ MaxAttempts \in Nat
    BY OtpAssumption DEF OtpAssumption
  <1>4. r \in Rung(p, 1)
    <2>1. task[r].seen.attempts \in 0..MaxAttempts /\ task[r].seen.attempts < MaxAttempts
      BY <1>1, OtpAssumption DEF OtpAssumption, AnswersInv, TypeInv, TaskOK, AnswerPcs, Stored, Spent
    <2>. QED BY <1>0, <1>1, <1>3, <2>1 DEF Rung, Answerable, AnswerPcs
  <1>5. \A n \in 1..MaxAttempts : r \notin Rung(p, n)'
    BY <1>1, <1>2 DEF Rung, Answerable, AnswerPcs
  <1>6. \A n \in 1..MaxAttempts : Rung(p, n)' \subseteq Rung(p, n)
    BY <1>1, <1>2, RungStays DEF AnswersInv, AnswerPcs
  <1>7. Accounted(p)'
    <2>1. answered'[p] = answered[p] + 1
      BY <1>1
    <2>. QED BY <1>3, <1>4, <1>5, <1>6, <2>1, OneAnswer
  <1>8. ASSUME NEW q \in Phones, q # p
        PROVE  Accounted(q)'
    <2>1. otp'[q] = otp[q] /\ answered'[q] = answered[q]
      BY <1>1, <1>8
    <2>. QED BY <1>0, <1>1, <1>8, <2>1, AnswersElsewhere
  <1>. QED BY <1>7, <1>8 DEF AnswersInv

LEMMA TickAnswers ==
    ASSUME AnswersInv, TypeInv', Tick
    PROVE  AnswersInv'
  <1>1. ASSUME NEW p \in Phones
        PROVE  Accounted(p)'
    <2>1. otp[p] \in Keys(Stored \cup {NoCode}, OtpExpiresIn) /\ otp'[p] = Elapse(otp[p], NoCode)
          /\ OtpExpiresIn \in Nat
      BY OtpAssumption DEF OtpAssumption, AnswersInv, TypeInv, TypeOK, Tick
    <2>2. Exists(otp'[p]) => Exists(otp[p]) /\ otp'[p].value = otp[p].value
      BY <2>1, ElapseType
    <2>3. \A n \in 1..MaxAttempts : Rung(p, n)' \subseteq Rung(p, n)
      BY <2>2 DEF Rung, Answerable, Tick
    <2>. QED BY <2>3, NoAnswer DEF Tick
  <1>. QED BY <1>1 DEF AnswersInv

LEMMA NextAnswers ==
    ASSUME AnswersInv, [Next]_vars
    PROVE  AnswersInv'
  <1>1. TypeInv'
    BY NextType DEF AnswersInv
  <1>. task \in [Requests -> Task]
    BY DEF AnswersInv, TypeInv, TypeOK
  <1>2. ASSUME NEW r \in Requests, NEW t, task' = [task EXCEPT ![r] = t], t.pc \notin AnswerPcs,
               otp' = otp, answered' = answered
        PROVE  AnswersInv'
    BY <1>1, <1>2, GoesOn
  <1>3. ASSUME NEW r \in Requests, NEW pc \in {"expire", "create"}, Go(r, pc),
               otp' = otp, answered' = answered
        PROVE  AnswersInv'
    <2>. DEFINE t == [task[r] EXCEPT !.pc = pc]
    <2>1. task' = [task EXCEPT ![r] = t] /\ t.pc = pc
      BY <1>3 DEF Go, Task
    <2>. HIDE DEF t
    <2>. QED BY <1>2, <1>3, <2>1 DEF AnswerPcs
  <1>4. ASSUME NEW r \in Requests, End(r), otp' = otp, answered' = answered
        PROVE  AnswersInv'
    BY <1>2, <1>4, IdleType DEF End, AnswerPcs
  <1>5. ASSUME NEW r \in Requests, NEW p \in Phones, NEW i \in Ips, RequestOtp(r, p, i)
        PROVE  AnswersInv'
    <2>. DEFINE t == [Idle EXCEPT !.pc = "store", !.phone = p, !.ip = i]
    <2>1. task' = [task EXCEPT ![r] = t] /\ t.pc = "store"
      BY <1>5 DEF RequestOtp, Begin, Idle
    <2>. HIDE DEF t
    <2>. QED BY <1>2, <1>5, <2>1 DEF RequestOtp, AnswerPcs
  <1>6. ASSUME NEW r \in Requests, NEW p \in Phones, NEW typed \in Codes, VerifyOtp(r, p, typed)
        PROVE  AnswersInv'
    <2>1. task' = [task EXCEPT ![r] = Verifying(p, typed)] /\ Exists(otp[p])
          /\ otp' = otp /\ answered' = answered
      BY <1>6 DEF VerifyOtp, Begin, Verifying
    <2>2. Verifying(p, typed).phone = p /\ Verifying(p, typed).seen = otp[p].value
      BY <2>1, VerifyingType DEF AnswersInv
    <2>3. PICK t : t = Verifying(p, typed)
      OBVIOUS
    <2>4. /\ \A q \in Phones : Exists(otp'[q]) => Exists(otp[q]) /\ otp'[q].value = otp[q].value
          /\ \A q \in Phones :
                 t.phone = q /\ t.pc \in AnswerPcs =>
                     \/ Exists(otp[q]) /\ t.seen = otp[q].value
                     \/ task[r].phone = q /\ task[r].pc \in AnswerPcs /\ t.seen = task[r].seen
      BY <2>1, <2>2, <2>3
    <2>5. task' = [task EXCEPT ![r] = t] /\ answered' = answered
      BY <2>1, <2>3
    <2>. QED BY <1>1, <2>4, <2>5, GoesOn
  <1>7. ASSUME NEW r \in Requests, DiscardOtp(r)
        PROVE  AnswersInv'
    <2>1. task[r].phone \in Phones /\ DOMAIN otp = Phones /\ Idle.pc \notin AnswerPcs
      BY <1>7, IdleType DEF AnswersInv, TypeInv, TypeOK, TaskOK, DiscardOtp, At, AnswerPcs
    <2>2. \A q \in Phones :
             Exists(otp'[q]) => Exists(otp[q]) /\ otp'[q].value = otp[q].value
      BY <1>7, <2>1 DEF DiscardOtp, Delete, Absent, Exists
    <2>. QED BY <1>1, <1>7, <2>1, <2>2, GoesOn DEF DiscardOtp, End
  <1>8. ASSUME NEW r \in Requests, ReadTtl(r)
        PROVE  AnswersInv'
    <2>. DEFINE t == [task[r] EXCEPT !.pc = "write", !.left = Ttl(otp[task[r].phone])]
    <2>1. /\ task' = [task EXCEPT ![r] = t] /\ t.phone = task[r].phone /\ t.seen = task[r].seen
          /\ task[r].pc \in AnswerPcs /\ otp' = otp /\ answered' = answered
      BY <1>8 DEF ReadTtl, Task, At, AnswerPcs
    <2>. HIDE DEF t
    <2>. QED BY <1>1, <2>1, GoesOn
  <1>9. ASSUME NEW r \in Requests, IncrementRateLimit(r) \/ FindUser(r)
        PROVE  AnswersInv'
    BY <1>3, <1>4, <1>9 DEF IncrementRateLimit, FindUser
  <1>10. ASSUME NEW r \in Requests, ExpireRateLimit(r) \/ CreateUser(r) \/ Fail(r)
         PROVE  AnswersInv'
    BY <1>4, <1>10 DEF ExpireRateLimit, CreateUser, Fail
  <1>11. ASSUME UNCHANGED vars
         PROVE  AnswersInv'
    <2>1. ASSUME NEW p \in Phones
          PROVE  Accounted(p)'
      <3>1. \A n \in 1..MaxAttempts : Rung(p, n)' \subseteq Rung(p, n)
        BY <1>11 DEF vars, Rung, Answerable
      <3>. QED BY <1>1, <1>11, <3>1, NoAnswer DEF vars
    <2>. QED BY <1>1, <2>1 DEF AnswersInv
  <1>. Verified \subseteq Phones
    BY OtpAssumption DEF OtpAssumption
  <1>. QED
    BY <1>1, <1>5, <1>6, <1>7, <1>8, <1>9, <1>10, <1>11, StoreAnswers, CountAnswers,
       ConsumeAnswers, TickAnswers
    DEF Next, Step

\* However requests overlap and fail, a code is answered (auth.service.ts:89-111)
\* less often than there are ladders, for any number of slots and any limit.
THEOREM AnswersAreBounded == Spec => []AnswersPerCode
  <1>1. Init => AnswersInv
    BY InitAnswers
  <1>2. AnswersInv => AnswersPerCode
    <2>. SUFFICES ASSUME AnswersInv, NEW p \in Phones PROVE answered[p] < Cardinality(Ladders)
      BY DEF AnswersPerCode
    <2>1. answered[p] \in Nat /\ Cardinality(Lower(p)) \in Nat /\ Cardinality(Ladders) \in Nat
          /\ answered[p] + Cardinality(Lower(p)) < Cardinality(Ladders)
      BY LowerFinite, LaddersFinite DEF AnswersInv, Accounted, TypeInv, TypeOK
    <2>. QED BY <2>1
  <1>. QED BY <1>1, <1>2, NextAnswers, PTL DEF Spec

=============================================================================
