---------------------------- MODULE BucketProofs ----------------------------
(***************************************************************************)
(* What one run of the token bucket script does to the bucket, for every   *)
(* rate, period and clock reading.  The argument is a potential: the level *)
(* of a bucket, its tokens in units of time less its timestamp, never      *)
(* rises, and every grant lowers it by an interval.  How far it can have   *)
(* fallen bounds the grants; how fast time catches up with it is the rate. *)
(***************************************************************************)
EXTENDS BucketScript, TLAPS

\* An existing bucket: its keys outlive the time it takes to fill it twice.
Kept(b, rate, period, time) ==
  /\ b \in [tokens : 0..rate, ts : Nat, deadline : Nat]
  /\ b.ts <= time
  /\ b.ts + 2 * (Interval(rate, period) * rate) <= b.deadline

BucketOK(b, rate, period, time) == b = NoBucket \/ Kept(b, rate, period, time)

Level(b, interval) == interval * b.tokens - b.ts

\* The bucket was charged n times since start: if ever, it exists, and its
\* level has fallen by an interval each time from what a full bucket had for
\* the earliest caller whose script could run then.
Paid(b, n, start, delay, rate, period) ==
  n # 0 =>
    /\ b # NoBucket
    /\ Interval(rate, period) * n + Level(b, Interval(rate, period))
         <= Interval(rate, period) * rate - start + delay + Interval(rate, period) - 1

-----------------------------------------------------------------------------
(* Arithmetic: quotients as multiples, and products of sums.               *)

LEMMA Quotient ==
  ASSUME NEW d \in Nat \ {0}, NEW x \in Int
  PROVE  /\ x \div d \in Int
         /\ d * (x \div d) <= x
         /\ x < d * (x \div d) + d
  OBVIOUS

LEMMA ProductMonotone ==
  ASSUME NEW d \in Nat \ {0}, NEW x \in Int, NEW y \in Int
  PROVE  /\ d * x \in Int
         /\ x <= y => d * x <= d * y
         /\ d * x < d * y + d => x <= y
  OBVIOUS

LEMMA ProductOfSum ==
  ASSUME NEW d \in Nat \ {0}, NEW x \in Int, NEW y \in Int
  PROVE  d * (x + y) = d * x + d * y /\ d * (x - y) = d * x - d * y
  OBVIOUS

\* What rounds a quotient down is at least any multiple below it.
LEMMA QuotientAtLeast ==
  ASSUME NEW d \in Nat \ {0}, NEW x \in Int, NEW q \in Int
  PROVE  q <= x \div d <=> d * q <= x
<1> DEFINE r == x \div d
<1>1. r \in Int /\ d * r <= x /\ x < d * r + d
  BY Quotient
<1> HIDE DEF r
<1>2. q <= r => d * q <= d * r
  BY <1>1, ProductMonotone
<1>3. d * q < d * r + d => q <= r
  BY <1>1, ProductMonotone
<1>4. d * q \in Int /\ d * r \in Int
  BY <1>1, ProductMonotone
<1>5. q <= r <=> d * q <= x
  BY <1>1, <1>2, <1>3, <1>4
<1> QED
  BY <1>5 DEF r

-----------------------------------------------------------------------------
(* The script.                                                             *)

LEMMA IntervalPositive ==
  ASSUME NEW rate \in Nat \ {0}, NEW period \in Nat \ {0}
  PROVE  Interval(rate, period) \in Nat \ {0}
<1>1. period \div rate \in Int
  BY Quotient
<1> QED
  BY <1>1 DEF Interval, AtLeast

LEMMA KeptNumbers ==
  ASSUME NEW rate \in Nat \ {0}, NEW period \in Nat \ {0}, NEW time \in Nat, NEW b,
         Kept(b, rate, period, time)
  PROVE  LET interval == Interval(rate, period) IN
         /\ b.tokens \in 0..rate /\ b.ts \in 0..time
         /\ interval * b.tokens \in Nat
         /\ Level(b, interval) \in Int
<1> DEFINE interval == Interval(rate, period)
<1>1. interval \in Nat \ {0}
  BY IntervalPositive
<1>2. b.tokens \in 0..rate /\ b.ts \in 0..time
  BY DEF Kept
<1> HIDE DEF interval
<1>3. interval * b.tokens \in Nat
  BY <1>1, <1>2
<1>4. Level(b, interval) \in Int
  BY <1>2, <1>3 DEF Level
<1> QED
  BY <1>2, <1>3, <1>4 DEF interval

LEMMA TimeToLiveFills ==
  ASSUME NEW rate \in Nat \ {0}, NEW period \in Nat \ {0}
  PROVE  /\ TimeToLive(rate, period) \in Nat
         /\ TimeToLive(rate, period) >= 2 * (Interval(rate, period) * rate)
<1>1. Interval(rate, period) \in Nat \ {0}
  BY IntervalPositive
<1>2. /\ Interval(rate, period) * rate \in Nat
      /\ Interval(rate, period) * rate * 2 = 2 * (Interval(rate, period) * rate)
  BY <1>1
<1> QED
  BY <1>2, BucketScriptAssumption DEF TimeToLive, Capacity, AtLeast

\* A bucket that has expired would be full by now, whoever reads the clock.
LEMMA ExpiredIsFull ==
  ASSUME NEW rate \in Nat \ {0}, NEW period \in Nat \ {0}, NEW time \in Nat, NEW b,
         NEW delay \in Nat, delay <= Interval(rate, period) * rate,
         Kept(b, rate, period, time), Expired(b, time)
  PROVE  Interval(rate, period) * rate < time - delay - b.ts
<1>1. Interval(rate, period) * rate \in Nat
  BY IntervalPositive
<1> QED
  BY <1>1 DEF Kept, Expired

\* The bucket after the refill and before the charge: no level is gained,
\* unless there was no bucket, and the timestamp is less than an interval
\* behind the caller.
LEMMA RefillKeepsLevel ==
  ASSUME NEW rate \in Nat \ {0}, NEW period \in Nat \ {0}, NEW time \in Nat,
         NEW now \in 0..time, NEW b, BucketOK(b, rate, period, time),
         time - now <= Interval(rate, period) * rate
  PROVE  LET r == Refilled(b, rate, period, now, time)
             interval == Interval(rate, period) IN
         /\ r.tokens \in 0..rate /\ r.ts \in 0..time
         /\ r.ts > now - interval
         /\ b # NoBucket => Level(r, interval) <= Level(b, interval)
         /\ r.tokens = 0 => ~Expired(b, time) /\ b.tokens = 0
<1> DEFINE interval == Interval(rate, period)
           refill == (now - b.ts) \div interval
           r == Refilled(b, rate, period, now, time)
<1>1. interval \in Nat \ {0}
  BY IntervalPositive
<1>2. CASE Expired(b, time)
  <2>1. r = [tokens |-> rate, ts |-> now]
    BY <1>2 DEF Refilled, Capacity
  <2>2. ASSUME b # NoBucket PROVE Level(r, interval) <= Level(b, interval)
    <3>1. Kept(b, rate, period, time)
      BY <2>2 DEF BucketOK
    <3>2. interval * rate < now - b.ts
      BY <1>2, <3>1, ExpiredIsFull, time - (time - now) = now
    <3>3. b.tokens \in Nat /\ b.ts \in Nat
      BY <3>1 DEF Kept
    <3>4. interval * b.tokens \in Nat /\ interval * rate \in Nat
      BY <1>1, <3>3
    <3> HIDE DEF interval
    <3> QED
      BY <2>1, <3>2, <3>3, <3>4 DEF Level
  <2> QED
    BY <1>1, <2>1, <2>2
<1>3. CASE ~Expired(b, time)
  <2>1. Kept(b, rate, period, time)
    BY <1>3 DEF BucketOK, Expired, NoBucket
  <2>2. b.tokens \in 0..rate /\ b.ts \in 0..time
    BY <2>1 DEF Kept
  <2>3. refill \in Int /\ interval * refill <= now - b.ts /\ now - b.ts < interval * refill + interval
    <3>1. now - b.ts \in Int
      BY <2>2
    <3> HIDE DEF interval
    <3> QED
      BY <1>1, <3>1, Quotient
  <2>4. CASE refill > 0
    <3>1. PICK t \in 0..rate :
            /\ t <= b.tokens + refill
            /\ t > 0
            /\ r = [tokens |-> t, ts |-> b.ts + interval * refill]
      <4>1. r = [tokens |-> IF b.tokens + refill > rate THEN rate ELSE b.tokens + refill,
                 ts |-> b.ts + refill * interval]
        BY <1>3, <2>4 DEF Refilled, Capacity
      <4> HIDE DEF r, refill, interval
      <4>2. refill * interval = interval * refill
        BY <1>1, <2>3
      <4> QED
        BY <4>1, <4>2, <2>2, <2>3, <2>4
    <3>2. interval * t <= interval * b.tokens + interval * refill
      <4>1. interval * t <= interval * (b.tokens + refill)
        BY <1>1, <2>2, <2>3, <3>1, ProductMonotone
      <4> QED
        BY <4>1, <1>1, <2>2, <2>3, ProductOfSum
    <3>3. interval * t \in Int /\ interval * b.tokens \in Int /\ interval * refill \in Nat
      BY <1>1, <2>2, <2>3, <2>4
    <3> HIDE DEF r, refill, interval
    <3> QED
      BY <1>1, <2>2, <2>3, <3>1, <3>2, <3>3 DEF Level, r, interval
  <2>5. CASE ~(refill > 0)
    <3>1. r = [tokens |-> b.tokens, ts |-> b.ts]
      BY <1>3, <2>5 DEF Refilled
    <3>2. now - b.ts < interval
      <4>1. interval * refill <= 0
        BY <1>1, <2>3, <2>5
      <4> QED
        BY <1>1, <2>2, <2>3, <4>1
    <3>3. interval * b.tokens \in Int
      BY <1>1, <2>2
    <3> QED
      BY <1>1, <1>3, <2>2, <3>1, <3>2, <3>3 DEF Level
  <2> QED
    BY <2>4, <2>5
<1> QED
  BY <1>2, <1>3

\* A grant pays an interval of the level; what it leaves behind is a kept
\* bucket that is not full.
LEMMA GrantLowersLevel ==
  ASSUME NEW rate \in Nat \ {0}, NEW period \in Nat \ {0}, NEW time \in Nat,
         NEW now \in 0..time, NEW b, BucketOK(b, rate, period, time),
         time - now <= Interval(rate, period) * rate,
         tokenBucket(b, rate, period, now, time).retryAfter = 0
  PROVE  LET c == tokenBucket(b, rate, period, now, time).bucket
             interval == Interval(rate, period) IN
         /\ Kept(c, rate, period, time) /\ c # NoBucket
         /\ Level(c, interval) + interval <= interval * rate - now + interval - 1
         /\ b # NoBucket => Level(c, interval) + interval <= Level(b, interval)
<1> DEFINE interval == Interval(rate, period)
           r == Refilled(b, rate, period, now, time)
           c == tokenBucket(b, rate, period, now, time).bucket
           live == TimeToLive(rate, period)
<1>1. interval \in Nat \ {0} /\ live \in Nat /\ live >= 2 * (interval * rate)
  BY IntervalPositive, TimeToLiveFills
<1>2. /\ r.tokens \in 0..rate /\ r.ts \in 0..time
      /\ r.ts > now - interval
      /\ b # NoBucket => Level(r, interval) <= Level(b, interval)
  BY RefillKeepsLevel
<1>3. r.tokens >= 1
  <2>1. CASE r.tokens < 1
    <3>1. RetrySeconds(r.tokens, rate, period) = 0
      BY <1>2, <2>1 DEF tokenBucket, Cost
    <3>2. RetrySeconds(r.tokens, rate, period) # 0
      <4>1. (interval * (1 - r.tokens) + Second - 1) \div Second \in Int
        <5>1. interval * (1 - r.tokens) + Second - 1 \in Int
          BY <1>1, <1>2, BucketScriptAssumption
        <5> HIDE DEF interval, r
        <5> QED
          BY <5>1, BucketScriptAssumption, Quotient
      <4> QED
        BY <4>1 DEF RetrySeconds, AtLeast, Cost
    <3> QED
      BY <3>1, <3>2
  <2> QED
    BY <1>2, <2>1
<1>4. c = [tokens |-> r.tokens - 1, ts |-> r.ts, deadline |-> time + live]
  BY <1>2, <1>3 DEF tokenBucket, Cost
<1>5. interval * rate \in Nat /\ interval * r.tokens \in Nat
  BY <1>1, <1>2
<1>6. interval * (r.tokens - 1) = interval * r.tokens - interval
  BY <1>1, <1>2
<1>7. interval * r.tokens <= interval * rate
  BY <1>1, <1>2, ProductMonotone
<1> HIDE DEF interval, r, c, live
<1>8. Level(c, interval) + interval = Level(r, interval)
  BY <1>1, <1>2, <1>4, <1>5, <1>6 DEF Level
<1>9. Level(r, interval) <= interval * rate - now + interval - 1
  BY <1>1, <1>2, <1>5, <1>7 DEF Level
<1>10. Kept(c, rate, period, time)
  BY <1>1, <1>2, <1>3, <1>4, <1>5 DEF Kept, interval
<1>11. c # NoBucket
  BY <1>1, <1>4, <1>5 DEF NoBucket
<1> QED
  BY <1>2, <1>8, <1>9, <1>10, <1>11 DEF c, r, interval

\* A refusal leaves the bucket as it was, and empty; Retry-After is at least
\* the interval in which one token grows back.
LEMMA RefusalIsHonest ==
  ASSUME NEW rate \in Nat \ {0}, NEW period \in Nat \ {0}, NEW time \in Nat,
         NEW now \in 0..time, NEW b, BucketOK(b, rate, period, time),
         time - now <= Interval(rate, period) * rate,
         tokenBucket(b, rate, period, now, time).retryAfter # 0
  PROVE  LET a == tokenBucket(b, rate, period, now, time) IN
         /\ a.bucket = b /\ b # NoBucket /\ b.tokens = 0
         /\ a.retryAfter \in Nat
         /\ a.retryAfter * Second >= Interval(rate, period)
<1> DEFINE interval == Interval(rate, period)
           r == Refilled(b, rate, period, now, time)
           wait == interval + Second - 1
           q == wait \div Second
<1>1. interval \in Nat \ {0} /\ Second \in Nat \ {0}
  BY IntervalPositive, BucketScriptAssumption
<1>2. /\ r.tokens \in 0..rate
      /\ r.tokens = 0 => ~Expired(b, time) /\ b.tokens = 0
  BY RefillKeepsLevel
<1>3. r.tokens = 0
  BY <1>2 DEF tokenBucket, Cost
<1>4. b # NoBucket /\ b.tokens = 0
  BY <1>2, <1>3 DEF Expired, NoBucket
<1>5. tokenBucket(b, rate, period, now, time)
        = [retryAfter |-> RetrySeconds(0, rate, period), bucket |-> b]
  BY <1>3 DEF tokenBucket, Cost
<1>6. q \in Int /\ wait < Second * q + Second
  <2>1. wait \in Int
    BY <1>1
  <2> HIDE DEF wait
  <2> QED
    BY <1>1, <2>1, Quotient
<1>7. RetrySeconds(0, rate, period) = AtLeast(q, 1)
  BY <1>1 DEF RetrySeconds, Cost
<1> HIDE DEF q, interval
<1>8. AtLeast(q, 1) \in Nat /\ AtLeast(q, 1) * Second >= Second * q
  BY <1>1, <1>6 DEF AtLeast
<1>9. AtLeast(q, 1) * Second >= interval
  BY <1>1, <1>6, <1>8
<1> QED
  BY <1>4, <1>5, <1>7, <1>8, <1>9 DEF interval

\* A kept bucket stays kept, whatever the script answers and as time passes.
LEMMA BucketStaysOK ==
  ASSUME NEW rate \in Nat \ {0}, NEW period \in Nat \ {0}, NEW time \in Nat,
         NEW now \in 0..time, NEW b, BucketOK(b, rate, period, time),
         time - now <= Interval(rate, period) * rate
  PROVE  BucketOK(tokenBucket(b, rate, period, now, time).bucket, rate, period, time)
  BY GrantLowersLevel, RefusalIsHonest DEF BucketOK

LEMMA BucketAges ==
  ASSUME NEW rate \in Nat \ {0}, NEW period \in Nat \ {0}, NEW time \in Nat, NEW b,
         BucketOK(b, rate, period, time)
  PROVE  BucketOK(b, rate, period, time + 1)
  BY DEF BucketOK, Kept

-----------------------------------------------------------------------------
(* Counting the grants.                                                    *)

\* A grant after start is one more that was paid for, ...
LEMMA GrantIsPaid ==
  ASSUME NEW rate \in Nat \ {0}, NEW period \in Nat \ {0}, NEW time \in Nat,
         NEW now \in 0..time, NEW b, BucketOK(b, rate, period, time),
         NEW delay \in Nat, delay <= Interval(rate, period) * rate, time - now <= delay,
         NEW n \in Nat, NEW start \in Int, start <= time,
         Paid(b, n, start, delay, rate, period),
         tokenBucket(b, rate, period, now, time).retryAfter = 0
  PROVE  Paid(tokenBucket(b, rate, period, now, time).bucket, n + 1, start, delay, rate, period)
<1> DEFINE interval == Interval(rate, period)
           c == tokenBucket(b, rate, period, now, time).bucket
<1>1. interval \in Nat \ {0} /\ interval * rate \in Nat
  BY IntervalPositive
<1>2. time - now <= interval * rate
  BY <1>1
<1>3. /\ Kept(c, rate, period, time) /\ c # NoBucket
      /\ Level(c, interval) + interval <= interval * rate - now + interval - 1
      /\ b # NoBucket => Level(c, interval) + interval <= Level(b, interval)
  BY <1>2, GrantLowersLevel
<1>4. Level(c, interval) \in Int
  BY <1>3, KeptNumbers
<1>5. b # NoBucket => Level(b, interval) \in Int
  BY KeptNumbers DEF BucketOK
<1>6. n # 0 => /\ b # NoBucket
               /\ interval * n + Level(b, interval)
                    <= interval * rate - start + delay + interval - 1
  BY DEF Paid
<1> HIDE DEF interval, c
<1>7. interval * (n + 1) = interval * n + interval /\ interval * n \in Nat
  BY <1>1
<1>8. n = 0 => interval * n = 0
  BY <1>1
<1>9. interval * (n + 1) + Level(c, interval)
        <= interval * rate - start + delay + interval - 1
  <2>1. CASE n = 0
    BY <1>1, <1>3, <1>4, <1>7, <1>8, <2>1
  <2>2. CASE n # 0
    BY <1>1, <1>3, <1>4, <1>5, <1>6, <1>7, <2>2
  <2> QED
    BY <2>1, <2>2
<1> QED
  BY <1>3, <1>9 DEF Paid, interval, c

\* ... any other run of the script takes nothing back, ...
LEMMA ScriptKeepsPaid ==
  ASSUME NEW rate \in Nat \ {0}, NEW period \in Nat \ {0}, NEW time \in Nat,
         NEW now \in 0..time, NEW b, BucketOK(b, rate, period, time),
         NEW delay \in Nat, time - now <= Interval(rate, period) * rate,
         NEW n \in Nat, NEW start \in Int, Paid(b, n, start, delay, rate, period)
  PROVE  Paid(tokenBucket(b, rate, period, now, time).bucket, n, start, delay, rate, period)
<1> DEFINE interval == Interval(rate, period)
           a == tokenBucket(b, rate, period, now, time)
<1>1. CASE a.retryAfter # 0
  BY <1>1, RefusalIsHonest
<1>2. CASE a.retryAfter = 0 /\ n # 0
  <2>1. /\ b # NoBucket
        /\ interval * n + Level(b, interval)
             <= interval * rate - start + delay + interval - 1
    BY <1>2 DEF Paid
  <2>2. /\ Kept(a.bucket, rate, period, time) /\ a.bucket # NoBucket
        /\ Level(a.bucket, interval) + interval <= Level(b, interval)
    BY <1>2, <2>1, GrantLowersLevel
  <2>3. Level(a.bucket, interval) \in Int /\ Level(b, interval) \in Int
    BY <2>1, <2>2, KeptNumbers DEF BucketOK
  <2>4. interval \in Nat \ {0} /\ interval * n \in Nat /\ interval * rate \in Nat
    BY IntervalPositive
  <2> HIDE DEF interval, a
  <2>5. interval * n + Level(a.bucket, interval)
          <= interval * rate - start + delay + interval - 1
    BY <2>1, <2>2, <2>3, <2>4
  <2> QED
    BY <2>2, <2>5 DEF Paid, interval, a
<1>3. CASE n = 0
  BY <1>3 DEF Paid
<1> QED
  BY <1>1, <1>2, <1>3

\* ... and whoever paid for n has paid for fewer.
LEMMA FewerArePaid ==
  ASSUME NEW rate \in Nat \ {0}, NEW period \in Nat \ {0}, NEW time \in Nat,
         NEW b, BucketOK(b, rate, period, time), NEW delay \in Nat,
         NEW n \in Nat, NEW m \in Nat, m <= n, NEW start \in Int,
         Paid(b, n, start, delay, rate, period)
  PROVE  Paid(b, m, start, delay, rate, period)
<1> DEFINE interval == Interval(rate, period)
<1> SUFFICES ASSUME m # 0 PROVE Paid(b, m, start, delay, rate, period)
  BY DEF Paid
<1>1. /\ b # NoBucket
      /\ interval * n + Level(b, interval)
           <= interval * rate - start + delay + interval - 1
  BY DEF Paid
<1>2. Level(b, interval) \in Int
  BY <1>1, KeptNumbers DEF BucketOK
<1>3. interval \in Nat \ {0} /\ interval * n \in Nat /\ interval * rate \in Nat
  BY IntervalPositive
<1>4. interval * m \in Int /\ interval * m <= interval * n
  BY <1>3, ProductMonotone
<1> HIDE DEF interval
<1>5. interval * m + Level(b, interval)
        <= interval * rate - start + delay + interval - 1
  BY <1>1, <1>2, <1>3, <1>4
<1> QED
  BY <1>1, <1>5 DEF Paid, interval

\* What was paid for is bounded by a full bucket and by the time there was.
LEMMA PaidIsBounded ==
  ASSUME NEW rate \in Nat \ {0}, NEW period \in Nat \ {0}, NEW time \in Nat,
         NEW b, BucketOK(b, rate, period, time), NEW delay \in Nat,
         NEW n \in Nat, NEW start \in Int, NEW length \in Nat,
         time - start + delay <= length, Paid(b, n, start, delay, rate, period)
  PROVE  n <= Capacity(rate)
              + (length + Interval(rate, period) - 1) \div Interval(rate, period)
<1> DEFINE interval == Interval(rate, period)
           total == length + interval - 1
<1>1. interval \in Nat \ {0} /\ interval * n \in Nat /\ interval * rate \in Nat
  BY IntervalPositive
<1>2. interval * (n - rate) = interval * n - interval * rate
  BY <1>1
<1>3. total \in Int
  BY <1>1
<1>4. interval * (n - rate) <= total
  <2>1. CASE n = 0
    <3>1. interval * n = 0
      BY <1>1, <2>1
    <3> HIDE DEF interval
    <3> QED
      BY <1>1, <1>2, <3>1
  <2>2. CASE n # 0
    <3>1. /\ b # NoBucket
          /\ interval * n + Level(b, interval)
               <= interval * rate - start + delay + interval - 1
      BY <2>2 DEF Paid
    <3>2. b.ts \in 0..time /\ interval * b.tokens \in Nat
      BY <3>1, KeptNumbers DEF BucketOK
    <3> HIDE DEF interval
    <3> QED
      BY <1>1, <1>2, <3>1, <3>2 DEF Level
  <2> QED
    BY <2>1, <2>2
<1> HIDE DEF interval, total
<1>5. n - rate <= total \div interval /\ total \div interval \in Int
  BY <1>1, <1>3, <1>4, QuotientAtLeast, Quotient
<1>6. n <= rate + total \div interval
  BY <1>5
<1> QED
  BY <1>6 DEF Capacity, total, interval
=============================================================================
