---------------------------- MODULE RedisService ----------------------------
(***************************************************************************)
(* The keys of Redis as server/src/common/redis/redis.service.ts uses      *)
(* them: a value and the time the key has left.  Times are whole units,    *)
(* and TTL rounds, so a key whose time is 0 is still there for a moment.   *)
(***************************************************************************)
EXTENDS Integers

\* What TTL answers for a key without an expiry, and for no key.
Persistent == -1
Gone == -2

Absent(none) == [value |-> none, ttl |-> Gone]

Exists(key) == key.ttl # Gone

Ttl(key) == key.ttl

\* SETEX refuses a time that is not positive, and set() calls it for every time
\* but 0.
Settable(seconds) == seconds >= 0

\* A time of 0 is falsy: set() then stores the value without an expiry.
Set(v, seconds) ==
    [value |-> v, ttl |-> IF seconds = 0 THEN Persistent ELSE seconds]

\* INCR makes a missing key, without an expiry, and keeps the expiry of an
\* existing one.  The value of a missing counter is 0.
Incr(key) == [value |-> key.value + 1,
              ttl |-> IF Exists(key) THEN key.ttl ELSE Persistent]

Expire(key, seconds) ==
    IF Exists(key) THEN [key EXCEPT !.ttl = seconds] ELSE key

\* One unit of time passes.
Elapse(key, none) ==
    CASE key.ttl > 0 -> [key EXCEPT !.ttl = @ - 1]
      [] key.ttl = 0 -> Absent(none)
      [] OTHER -> key

\* The keys with a value of V and an expiry of at most longest.
Keys(V, longest) == [value : V, ttl : Gone..longest]

=============================================================================
