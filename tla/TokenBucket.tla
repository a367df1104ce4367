---------------------------- MODULE TokenBucket ----------------------------
(***************************************************************************)
(* One key of the rate limiter.  The script is atomic, but the caller      *)
(* reads the clock before it sends the script, so scripts may run late and *)
(* out of order of the times they carry; and the bucket disappears by      *)
(* PEXPIRE.                                                                *)
(***************************************************************************)
EXTENDS BucketScript

CONSTANTS
  Rate,      \* e.g. cfg.SubmitRatePerMinute
  Period,    \* time.Minute or time.Hour
  MaxDelay,  \* bound: from reading the clock to the script's execution
  MaxTime    \* bound: the clock

\* With rate <= 0 tokenBucket returns at once and there is no bucket.  And
\* go-redis gives up on a command after seconds, a bucket fills in Period.
ASSUME TokenBucketAssumption ==
  /\ Rate \in Nat \ {0}
  /\ Period \in Nat \ {0}
  /\ MaxDelay \in Nat
  /\ MaxTime \in Nat
  /\ MaxDelay <= Interval(Rate, Period) * Capacity(Rate)

VARIABLES
  clock,    \* the time, for the API and for Redis
  bucket    \* key, key:ts and the deadline of both, once they exist

bucketVars == <<clock, bucket>>

BucketInit == clock = 0 /\ bucket = NoBucket

\* What the script answers a caller that read the clock at time now.
AnswerTo(now) == tokenBucket(bucket, Rate, Period, now, clock)

\* The times a caller can have read whose script runs at this time.
Readings == AtLeast(clock - MaxDelay, 0)..clock

BucketCall(now) == bucket' = AnswerTo(now).bucket /\ UNCHANGED clock
BucketTick == clock < MaxTime /\ clock' = clock + 1 /\ UNCHANGED bucket

BucketNext == BucketTick \/ \E now \in Readings : BucketCall(now)

BucketSpec == BucketInit /\ [][BucketNext]_bucketVars
=============================================================================
