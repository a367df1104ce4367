------------------------- MODULE BucketWindowProofs -------------------------
(***************************************************************************)
(* The guarantees of one key of the rate limiter, for every rate, period,  *)
(* delay and length of the behaviour.                                      *)
(***************************************************************************)
EXTENDS BucketWindow, BucketProofs

Unit == Interval(Rate, Period)

TypeOK ==
  /\ clock \in Nat /\ since \in 0..clock
  /\ granted \in Nat /\ retryAt \in Nat
  /\ BucketOK(bucket, Rate, Period, clock)

\* Every grant of the window was paid for.
GrantsPaid == Paid(bucket, granted, since, MaxDelay, Rate, Period)

\* Only an existing bucket refuses, and what it told the caller stays true.
RetryKept == retryAt # 0 => bucket # NoBucket /\ RetrySuffices

WindowInv == TypeOK /\ GrantsPaid /\ RetryKept

-----------------------------------------------------------------------------
LEMMA Constants ==
  /\ Rate \in Nat \ {0} /\ Period \in Nat \ {0} /\ MaxDelay \in Nat
  /\ Unit \in Nat \ {0} /\ Unit * Rate \in Nat /\ MaxDelay <= Unit * Rate
<1>1. Rate \in Nat \ {0} /\ Period \in Nat \ {0} /\ MaxDelay \in Nat
  BY TokenBucketAssumption
<1>2. Unit \in Nat \ {0}
  BY <1>1, IntervalPositive DEF Unit
<1> QED
  BY <1>1, <1>2, TokenBucketAssumption DEF Unit, Capacity

LEMMA BucketNumbers ==
  ASSUME TypeOK, bucket # NoBucket
  PROVE  /\ Kept(bucket, Rate, Period, clock)
         /\ bucket.tokens \in 0..Rate /\ bucket.ts \in 0..clock
  BY Constants, KeptNumbers DEF TypeOK, BucketOK

\* The script runs on a bucket and a reading that the lemmas speak about.
LEMMA ReadingsRecent ==
  ASSUME clock \in Nat, NEW now \in Readings
  PROVE  now \in 0..clock /\ clock - now <= MaxDelay
  BY Constants DEF Readings, AtLeast

LEMMA WindowInitially == Init => WindowInv
  BY Constants
  DEF Init, BucketInit, WindowInv, TypeOK, BucketOK, GrantsPaid, Paid, RetryKept, NoBucket

LEMMA GrantStep ==
  ASSUME WindowInv, NEW now \in Readings, Call(now), AnswerTo(now).retryAfter = 0
  PROVE  WindowInv'
<1>1. /\ clock \in Nat /\ since \in 0..clock /\ granted \in Nat
      /\ BucketOK(bucket, Rate, Period, clock)
  BY DEF WindowInv, TypeOK
<1>2. /\ now \in 0..clock /\ clock - now <= MaxDelay
      /\ clock - now <= Interval(Rate, Period) * Rate
  BY <1>1, ReadingsRecent, Constants DEF Unit
<1>3. /\ clock' = clock /\ since' = since /\ granted' = granted + 1 /\ retryAt' = 0
      /\ bucket' = tokenBucket(bucket, Rate, Period, now, clock).bucket
  BY DEF Call, BucketCall, AnswerTo
<1>4. TypeOK'
  BY <1>1, <1>2, <1>3, Constants, BucketStaysOK DEF TypeOK
<1>5. GrantsPaid'
  BY <1>1, <1>2, <1>3, Constants, GrantIsPaid DEF GrantsPaid, WindowInv, AnswerTo, Unit
<1>6. RetryKept'
  BY <1>3 DEF RetryKept
<1> QED
  BY <1>4, <1>5, <1>6 DEF WindowInv

LEMMA RefusalStep ==
  ASSUME WindowInv, NEW now \in Readings, Call(now), AnswerTo(now).retryAfter > 0
  PROVE  WindowInv'
<1> DEFINE wait == AnswerTo(now).retryAfter * Second
<1>1. /\ clock \in Nat /\ since \in 0..clock /\ granted \in Nat
      /\ BucketOK(bucket, Rate, Period, clock)
  BY DEF WindowInv, TypeOK
<1>2. now \in 0..clock /\ clock - now <= Interval(Rate, Period) * Rate
  BY <1>1, ReadingsRecent, Constants DEF Unit
<1>3. /\ AnswerTo(now).bucket = bucket /\ bucket # NoBucket /\ bucket.tokens = 0
      /\ AnswerTo(now).retryAfter \in Nat
      /\ wait >= Unit
  BY <1>1, <1>2, Constants, RefusalIsHonest DEF AnswerTo, Unit
<1>4. UNCHANGED <<clock, bucket, since, granted>> /\ retryAt' = clock + wait
  BY <1>3 DEF Call, BucketCall
<1>5. wait \in Nat
  BY <1>3, BucketScriptAssumption
<1>6. bucket.ts \in 0..clock
  BY <1>3, BucketNumbers DEF WindowInv
<1> HIDE DEF wait
<1>7. retryAt' - bucket.ts \in Int /\ Unit * 1 <= retryAt' - bucket.ts
  BY <1>1, <1>3, <1>4, <1>5, <1>6, Constants
<1>8. 1 <= (retryAt' - bucket.ts) \div Unit
  BY <1>7, Constants, QuotientAtLeast
<1>9. RetrySuffices'
  BY <1>3, <1>4, <1>7, <1>8, Constants, Quotient DEF RetrySuffices, Cost, Unit
<1> QED
  BY <1>1, <1>3, <1>4, <1>5, <1>9
  DEF WindowInv, TypeOK, GrantsPaid, RetryKept

LEMMA WindowStep == WindowInv /\ [Next]_vars => WindowInv'
<1> SUFFICES ASSUME WindowInv, [Next]_vars PROVE WindowInv'
  OBVIOUS
<1>1. CASE Tick
  <2>1. UNCHANGED <<bucket, since, granted, retryAt>> /\ clock' = clock + 1
    BY <1>1 DEF Tick, BucketTick
  <2>2. BucketOK(bucket, Rate, Period, clock + 1)
    BY Constants, BucketAges DEF WindowInv, TypeOK
  <2> QED
    BY <2>1, <2>2
    DEF WindowInv, TypeOK, GrantsPaid, RetryKept, RetrySuffices
<1>2. CASE OpenWindow
  BY <1>2 DEF OpenWindow, WindowInv, TypeOK, GrantsPaid, Paid, RetryKept, RetrySuffices
<1>3. ASSUME NEW now \in Readings, Call(now) PROVE WindowInv'
  BY <1>3, GrantStep, RefusalStep DEF Call
<1>4. CASE UNCHANGED vars
  BY <1>4 DEF vars, WindowInv, TypeOK, GrantsPaid, RetryKept, RetrySuffices
<1> QED
  BY <1>1, <1>2, <1>3, <1>4 DEF Next

LEMMA WindowInvariant == Spec => []WindowInv
  BY WindowInitially, WindowStep, PTL DEF Spec

(***************************************************************************)
(* The rate holds in every window (tokenBucket): whatever the rate, the    *)
(* period and the delay of the callers, no window has more grants than a   *)
(* full bucket and its share of intervals.                                 *)
(***************************************************************************)
THEOREM RateIsKept == Spec => []RateBound
<1>1. WindowInv => RateBound
  <2> SUFFICES ASSUME WindowInv PROVE RateBound
    OBVIOUS
  <2> DEFINE length == clock - since + MaxDelay
  <2>1. /\ clock \in Nat /\ since \in 0..clock /\ granted \in Nat /\ length \in Nat
        /\ BucketOK(bucket, Rate, Period, clock)
    BY Constants DEF WindowInv, TypeOK
  <2>2. granted <= Capacity(Rate) + (length + Unit - 1) \div Unit
    BY <2>1, Constants, PaidIsBounded DEF WindowInv, GrantsPaid, Unit
  <2> QED
    BY <2>2 DEF RateBound, Unit
<1> QED
  BY <1>1, WindowInvariant, PTL

(***************************************************************************)
(* Expiry gives nothing away (PEXPIRE): for every rate and period the time *)
(* to live is long enough that a forgotten bucket would have been full.    *)
(***************************************************************************)
THEOREM ExpiryIsInvisible == Spec => []ExpiryUnobservable
<1>1. WindowInv => ExpiryUnobservable
  <2> SUFFICES ASSUME WindowInv, Expired(bucket, clock), bucket # NoBucket
               PROVE  bucket.tokens + (clock - MaxDelay - bucket.ts) \div Unit >= Rate
    BY DEF ExpiryUnobservable, Unit, Capacity
  <2> DEFINE age == clock - MaxDelay - bucket.ts
  <2>1. clock \in Nat /\ Kept(bucket, Rate, Period, clock)
        /\ bucket.tokens \in 0..Rate /\ bucket.ts \in 0..clock
    BY BucketNumbers DEF WindowInv, TypeOK
  <2>2. age \in Int /\ Unit * Rate <= age
    BY <2>1, Constants, ExpiredIsFull DEF Unit
  <2> HIDE DEF age
  <2>3. Rate <= age \div Unit /\ age \div Unit \in Int
    BY <2>2, Constants, QuotientAtLeast, Quotient
  <2> QED
    BY <2>1, <2>3, Constants DEF age
<1> QED
  BY <1>1, WindowInvariant, PTL

(***************************************************************************)
(* Retry-After never sends a caller back too early (RetryAfter of a 429):  *)
(* for every rate and period the rounded-up seconds cover the interval in  *)
(* which the bucket's next token grows back.                               *)
(***************************************************************************)
THEOREM RetryAfterIsEnough == Spec => []RetrySuffices
<1>1. WindowInv => RetrySuffices
  BY DEF WindowInv, RetryKept, RetrySuffices
<1> QED
  BY <1>1, WindowInvariant, PTL
=============================================================================
