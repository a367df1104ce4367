---------------------------- MODULE BucketScript ----------------------------
(***************************************************************************)
(* RateLimiter.tokenBucket and the Lua script it runs in Redis, as a       *)
(* function of the bucket found under the key, of the rate and the period  *)
(* the Go side passes, and of the time the caller read.  Every caller      *)
(* passes cost 1.  Time is in units of a scaled millisecond.               *)
(***************************************************************************)
EXTENDS Integers

CONSTANT Second  \* units in a second

ASSUME BucketScriptAssumption == Second \in Nat \ {0}

AtLeast(a, b) == IF a < b THEN b ELSE a

\* intervalMs is the quotient rounded down, and at least 1.
Interval(rate, period) == AtLeast(period \div rate, 1)
Capacity(rate) == rate
Cost == 1

\* A bucket is key, key:ts and the common deadline of both.
NoBucket == [tokens |-> 0, ts |-> 0, deadline |-> -1]

\* Redis drops both keys once the time is past their deadline.
Expired(b, time) == b.deadline < time

\* Mutant: one interval per token is taken to be enough.
TimeToLiveShort(rate, period) == Interval(rate, period)

\* PEXPIRE of both keys, on every call that is granted.
TimeToLive(rate, period) ==
  AtLeast(Second, Interval(rate, period) * Capacity(rate) * 2)

\* Mutant: the timestamp follows the caller, also backwards.
RefilledRewinds(b, rate, period, now, time) ==
  IF Expired(b, time) THEN [tokens |-> Capacity(rate), ts |-> now]
  ELSE LET refill == (now - b.ts) \div Interval(rate, period) IN
       IF refill > 0
       THEN [tokens |-> IF b.tokens + refill > Capacity(rate) THEN Capacity(rate)
                        ELSE b.tokens + refill,
             ts |-> b.ts + refill * Interval(rate, period)]
       ELSE [tokens |-> b.tokens, ts |-> now]

\* A missing bucket is full.  Otherwise whole intervals are turned into
\* tokens and the timestamp moves by the intervals used; a caller that comes
\* late, with now < ts, gets no refill.
Refilled(b, rate, period, now, time) ==
  IF Expired(b, time) THEN [tokens |-> Capacity(rate), ts |-> now]
  ELSE LET refill == (now - b.ts) \div Interval(rate, period) IN
       IF refill > 0
       THEN [tokens |-> IF b.tokens + refill > Capacity(rate) THEN Capacity(rate)
                        ELSE b.tokens + refill,
             ts |-> b.ts + refill * Interval(rate, period)]
       ELSE [tokens |-> b.tokens, ts |-> b.ts]

\* Mutant: the seconds are rounded down.
RetrySecondsDown(tokens, rate, period) ==
  AtLeast((Interval(rate, period) * (Cost - tokens)) \div Second, 1)

\* math.ceil(wait_ms / 1000), at least 1.
RetrySeconds(tokens, rate, period) ==
  AtLeast((Interval(rate, period) * (Cost - tokens) + Second - 1) \div Second, 1)

\* The script as a whole: its return value (0 for a grant, else the seconds
\* to wait) and the bucket it leaves behind.  A refused call has refilled
\* nothing, so it writes nothing and the deadline stays.
tokenBucket(b, rate, period, now, time) ==
  LET r == Refilled(b, rate, period, now, time) IN
  IF r.tokens >= Cost
  THEN [retryAfter |-> 0,
        bucket |-> [tokens |-> r.tokens - Cost, ts |-> r.ts,
                    deadline |-> time + TimeToLive(rate, period)]]
  ELSE [retryAfter |-> RetrySeconds(r.tokens, rate, period), bucket |-> b]
=============================================================================
