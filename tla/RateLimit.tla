------------------------------- MODULE RateLimit -------------------------------
(***************************************************************************)
(* The token buckets of internal/api/ratelimit.go, as operators on one     *)
(* bucket.  Time is counted in the bucket's own period: a minute divided   *)
(* by the calls it allows in a minute, so that one period earns one token. *)
(* The limiter of golang.org/x/time/rate earns lazily, when it is asked.   *)
(* The sweep of allow never drops a bucket (no bucket ever holds more than *)
(* its burst), so a bucket lives as long as its process.                   *)
(***************************************************************************)
EXTENDS Naturals

CONSTANT Burst   \* perMinute: calls a full bucket allows at once

ASSUME BurstAssumption == Burst \in Nat \ {0}

Bucket == [tokens: 0..Burst, last: Nat]

\* A bucket is made full at its key's first call.
NewBucket(now) == [tokens |-> Burst, last |-> now]

Earned(b, now) == LET t == b.tokens + (now - b.last) IN IF t > Burst THEN Burst ELSE t

\* Faulty variant: the answer of the bucket is not looked at.
AllowsAll(b, now) == TRUE

Allows(b, now) == Earned(b, now) > 0

\* Faulty variant: the time of the last call is not kept.
SpendOffTheClock(b, now) == [tokens |-> Earned(b, now) - 1, last |-> b.last]

Spend(b, now) == [tokens |-> Earned(b, now) - 1, last |-> now]
=============================================================================
