-------------------------------- MODULE Otp --------------------------------
(***************************************************************************)
(* Logging in by a one-time code: requestOtp and verifyOtp of              *)
(* server/src/auth/auth.service.ts, up to the session that verifyOtp then  *)
(* creates (module Sessions).  A request is a task of its own and is cut   *)
(* at its awaits; two Redis commands under one Promise.all go out back to  *)
(* back on the server's one connection and are one step.  Redis and the    *)
(* table of users outlive a task that fails.                               *)
(***************************************************************************)
EXTENDS RedisService, FiniteSets

CONSTANTS
    Phones,       \* phoneNumber
    Ips,          \* addresses that requests come from
    Codes,        \* what may be typed in
    Generated,    \* what generateOtp may return for each phone
    Requests,     \* slots for requests in progress
    Verified,     \* the phones whose codes Next has typed in
    None,
    OtpExpiresIn, RateLimitWindow,   \* in units of time
    MaxAttempts,  \* OTP_MAX_ATTEMPTS
    RateLimitMax  \* OTP_RATE_LIMIT_MAX

ASSUME OtpAssumption ==
    /\ None \notin Phones \cup Ips \cup Codes
    /\ OtpExpiresIn \in Nat \ {0}
    /\ RateLimitWindow \in Nat \ {0}
    /\ MaxAttempts \in Nat \ {0}
    /\ RateLimitMax \in Nat \ {0}
    /\ Generated \in [Phones -> SUBSET Codes]
    /\ IsFiniteSet(Requests)
    /\ Verified \subseteq Phones

VARIABLES
    otp,        \* the keys otp:<phone>
    phoneRate,  \* the keys otp_rate:<phone>
    ipRate,     \* the keys otp_ip_rate:<ip>
    users,      \* the phone numbers in the table of users
    task,       \* the request running in each slot
    \* Kept for the properties:
    answered,   \* how many guesses were answered since a phone's latest code
    welcomed,   \* how many requests were answered isNewUser for each phone
    stranded    \* phones of requests that failed before setting the expiry

vars == <<otp, phoneRate, ipRate, users, task, answered, welcomed, stranded>>

-----------------------------------------------------------------------------
(* State *)

\* bcrypt's compare tells whether a code is the one hashed, so the hash stands
\* for the code.
Stored == [hash : Codes, attempts : 0..MaxAttempts]
NoCode == [hash |-> None, attempts |-> 0]

RequestPcs == {"store", "count", "expire"}
VerifyPcs == {"discard", "ttl", "write", "consume", "find", "create"}

\* seen: stored, left: the answer of ttl.
Task == [pc : {"idle"} \cup RequestPcs \cup VerifyPcs, phone : Phones \cup {None},
         ip : Ips \cup {None}, seen : Stored \cup {NoCode},
         left : Gone..OtpExpiresIn]

Idle == [pc |-> "idle", phone |-> None, ip |-> None, seen |-> NoCode, left |-> Gone]

At(r, pc) == task[r].pc = pc

Begin(r, t) == At(r, "idle") /\ task' = [task EXCEPT ![r] = t]

Go(r, pc) == task' = [task EXCEPT ![r].pc = pc]

End(r) == task' = [task EXCEPT ![r] = Idle]

\* A guess about p was told right from wrong.
Answer(p) == answered' = [answered EXCEPT ![p] = @ + 1]

Init ==
    /\ otp = [p \in Phones |-> Absent(NoCode)]
    /\ phoneRate = [p \in Phones |-> Absent(0)]
    /\ ipRate = [i \in Ips |-> Absent(0)]
    /\ users = {}
    /\ task = [r \in Requests |-> Idle]
    /\ answered = [p \in Phones |-> 0]
    /\ welcomed = [p \in Phones |-> 0]
    /\ stranded = {}

-----------------------------------------------------------------------------
(* requestOtp *)

\* A bug: > where the code has >=.
WithinLimitOrAt(p, i) ==
    phoneRate[p].value <= RateLimitMax /\ ipRate[i].value <= RateLimitMax * 2

WithinLimit(p, i) ==
    phoneRate[p].value < RateLimitMax /\ ipRate[i].value < RateLimitMax * 2

\* checkOtpRateLimit lets the request pass.  One that it refuses changes nothing.
RequestOtp(r, p, i) ==
    /\ WithinLimit(p, i)
    /\ Begin(r, [Idle EXCEPT !.pc = "store", !.phone = p, !.ip = i])
    /\ UNCHANGED <<otp, phoneRate, ipRate, users, answered, welcomed, stranded>>

\* A bug: the key gets no expiry.
StoreOtpForGood(r) ==
    LET p == task[r].phone IN
    /\ At(r, "store")
    /\ \E c \in Generated[p] :
         otp' = [otp EXCEPT ![p] = Set([hash |-> c, attempts |-> 0], 0)]
    /\ Go(r, "count")
    /\ answered' = [answered EXCEPT ![p] = 0]
    /\ UNCHANGED <<phoneRate, ipRate, users, welcomed, stranded>>

\* generateOtp and setJson.
StoreOtp(r) ==
    LET p == task[r].phone IN
    /\ At(r, "store")
    /\ \E c \in Generated[p] :
         otp' = [otp EXCEPT ![p] = Set([hash |-> c, attempts |-> 0], OtpExpiresIn)]
    /\ Go(r, "count")
    /\ answered' = [answered EXCEPT ![p] = 0]
    /\ UNCHANGED <<phoneRate, ipRate, users, welcomed, stranded>>

\* incrementRateLimit.  Only the first count of a phone goes on to set expiries.
IncrementRateLimit(r) ==
    LET p == task[r].phone
        i == task[r].ip IN
    /\ At(r, "count")
    /\ phoneRate' = [phoneRate EXCEPT ![p] = Incr(@)]
    /\ ipRate' = [ipRate EXCEPT ![i] = Incr(@)]
    /\ IF phoneRate'[p].value = 1 THEN Go(r, "expire") ELSE End(r)
    /\ UNCHANGED <<otp, users, answered, welcomed, stranded>>

\* A bug: only the address's counter gets its expiry.
ExpireIpOnly(r) ==
    /\ At(r, "expire")
    /\ ipRate' = [ipRate EXCEPT ![task[r].ip] = Expire(@, RateLimitWindow)]
    /\ End(r)
    /\ UNCHANGED <<otp, phoneRate, users, answered, welcomed, stranded>>

ExpireRateLimit(r) ==
    /\ At(r, "expire")
    /\ phoneRate' = [phoneRate EXCEPT ![task[r].phone] = Expire(@, RateLimitWindow)]
    /\ ipRate' = [ipRate EXCEPT ![task[r].ip] = Expire(@, RateLimitWindow)]
    /\ End(r)
    /\ UNCHANGED <<otp, users, answered, welcomed, stranded>>

-----------------------------------------------------------------------------
(* verifyOtp *)

\* A bug: > where the code has >=.
SpentLate(seen) == seen.attempts > MaxAttempts

Spent(seen) == seen.attempts >= MaxAttempts

\* getJson, the check of the attempts and the comparison, which depends on what
\* was read and typed only.  Without a code the request changes nothing.
VerifyOtp(r, p, typed) ==
    LET seen == otp[p].value
        pc == CASE Spent(seen) -> "discard"
                [] ~Spent(seen) /\ typed # seen.hash -> "ttl"
                [] OTHER -> "consume" IN
    /\ Exists(otp[p])
    /\ Begin(r, [Idle EXCEPT !.pc = pc, !.phone = p, !.seen = seen])
    /\ UNCHANGED <<otp, phoneRate, ipRate, users, answered, welcomed, stranded>>

Delete(p) == otp' = [otp EXCEPT ![p] = Absent(NoCode)]

DiscardOtp(r) ==
    /\ At(r, "discard")
    /\ Delete(task[r].phone)
    /\ End(r)
    /\ UNCHANGED <<phoneRate, ipRate, users, answered, welcomed, stranded>>

ReadTtl(r) ==
    /\ At(r, "ttl")
    /\ task' = [task EXCEPT ![r].pc = "write", ![r].left = Ttl(otp[task[r].phone])]
    /\ UNCHANGED <<otp, phoneRate, ipRate, users, answered, welcomed, stranded>>

\* A bug: the attempts are written back as they were read.
CountAttemptLost(r) ==
    LET t == task[r] IN
    /\ At(r, "write")
    /\ IF Settable(t.left)
       THEN /\ otp' = [otp EXCEPT ![t.phone] = Set(t.seen, t.left)]
            /\ Answer(t.phone)
       ELSE UNCHANGED <<otp, answered>>
    /\ End(r)
    /\ UNCHANGED <<phoneRate, ipRate, users, welcomed, stranded>>

\* setJson with the code that was read.  SETEX fails if the key had gone, or had
\* no expiry, when its time was read: the request then ends with an error.
CountAttempt(r) ==
    LET t == task[r] IN
    /\ At(r, "write")
    /\ IF Settable(t.left)
       THEN /\ otp' = [otp EXCEPT ![t.phone] =
                          Set([t.seen EXCEPT !.attempts = @ + 1], t.left)]
            /\ Answer(t.phone)
       ELSE UNCHANGED <<otp, answered>>
    /\ End(r)
    /\ UNCHANGED <<phoneRate, ipRate, users, welcomed, stranded>>

ConsumeOtp(r) ==
    /\ At(r, "consume")
    /\ Delete(task[r].phone)
    /\ Go(r, "find")
    /\ Answer(task[r].phone)
    /\ UNCHANGED <<phoneRate, ipRate, users, welcomed, stranded>>

\* user.findUnique.  A user who exists is logged in.
FindUser(r) ==
    /\ At(r, "find")
    /\ IF task[r].phone \in users THEN End(r) ELSE Go(r, "create")
    /\ UNCHANGED <<otp, phoneRate, ipRate, users, answered, welcomed, stranded>>

\* A bug: phoneE164 is not unique.
CreateUserAgain(r) ==
    LET p == task[r].phone IN
    /\ At(r, "create")
    /\ users' = users \cup {p}
    /\ welcomed' = [welcomed EXCEPT ![p] = @ + 1]
    /\ End(r)
    /\ UNCHANGED <<otp, phoneRate, ipRate, answered, stranded>>

\* user.create violates the unique phoneE164 if another request was faster.
CreateUser(r) ==
    LET p == task[r].phone IN
    /\ At(r, "create")
    /\ users' = users \cup {p}
    /\ welcomed' = [welcomed EXCEPT ![p] = IF p \in users THEN @ ELSE @ + 1]
    /\ End(r)
    /\ UNCHANGED <<otp, phoneRate, ipRate, answered, stranded>>

-----------------------------------------------------------------------------
(* A call to Redis or PostgreSQL fails, or the server stops: the request ends *)
(* with what it has done so far.                                              *)
Fail(r) ==
    /\ ~At(r, "idle")
    /\ End(r)
    /\ stranded' = IF At(r, "expire") THEN stranded \cup {task[r].phone} ELSE stranded
    /\ UNCHANGED <<otp, phoneRate, ipRate, users, answered, welcomed>>

Tick ==
    /\ otp' = [p \in Phones |-> Elapse(otp[p], NoCode)]
    /\ phoneRate' = [p \in Phones |-> Elapse(phoneRate[p], 0)]
    /\ ipRate' = [i \in Ips |-> Elapse(ipRate[i], 0)]
    /\ UNCHANGED <<users, task, answered, welcomed, stranded>>

Step(r) ==
    \/ StoreOtp(r) \/ IncrementRateLimit(r) \/ ExpireRateLimit(r)
    \/ DiscardOtp(r) \/ ReadTtl(r) \/ CountAttempt(r)
    \/ ConsumeOtp(r) \/ FindUser(r) \/ CreateUser(r)

Next ==
    \/ \E r \in Requests, p \in Phones, i \in Ips : RequestOtp(r, p, i)
    \/ \E r \in Requests, p \in Verified, c \in Codes : VerifyOtp(r, p, c)
    \/ \E r \in Requests : Step(r) \/ Fail(r)
    \/ Tick

Spec == Init /\ [][Next]_vars

-----------------------------------------------------------------------------
(* Properties *)

\* The most a counter reaches: every slot may have passed the check just before
\* the limit.
Overshoot(limit) == limit - 1 + Cardinality(Requests)

TypeOK ==
    /\ otp \in [Phones -> Keys(Stored \cup {NoCode}, OtpExpiresIn)]
    /\ phoneRate \in [Phones -> Keys(Nat, RateLimitWindow)]
    /\ ipRate \in [Ips -> Keys(Nat, RateLimitWindow)]
    /\ users \in SUBSET Phones
    /\ task \in [Requests -> Task]
    /\ answered \in [Phones -> Nat]
    /\ welcomed \in [Phones -> Nat]
    /\ stranded \in SUBSET Phones
    /\ \A p \in Phones : Exists(otp[p]) <=> otp[p].value # NoCode

\* The limits are checked before the code is made and counted after it, so
\* requests that overlap exceed them, but by no more than one each.
LimitsAreExceededByOverlapOnly ==
    /\ \A p \in Phones : phoneRate[p].value <= Overshoot(RateLimitMax)
    /\ \A i \in Ips : ipRate[i].value <= Overshoot(RateLimitMax * 2)

\* No phone number is locked out for good: its counter has an expiry, or a
\* request is about to set it, or one failed between the two commands.
PhoneCounterExpires ==
    \A p \in Phones :
        phoneRate[p].ttl = Persistent =>
            \/ p \in stranded
            \/ \E r \in Requests : At(r, "expire") /\ task[r].phone = p

\* How many slots may still have a guess answered with n attempts left, or more,
\* for n from 1 to MaxAttempts.
Ladders ==
    {f \in [1..MaxAttempts -> 0..Cardinality(Requests)] :
        \A m, n \in 1..MaxAttempts : m < n => f[n] <= f[m]}

\* A code is answered, right or wrong, no more often than overlapping requests
\* explain, through failures, expiries and codes put back by a failed guess: each
\* answer takes one slot off some rung of the ladder and leaves the rungs above
\* it alone.  One request at a time gets MaxAttempts answers.
AnswersPerCode == \A p \in Phones : answered[p] < Cardinality(Ladders)

\* Only a failed guess can make a code outlive its time.
UntriedCodeExpires ==
    \A p \in Phones :
        otp[p].ttl = Persistent => otp[p].value.attempts > 0

\* Two requests that log in to a new phone number are not both told that they
\* made the user.
WelcomedOnce == \A p \in Phones : welcomed[p] <= 1

=============================================================================
