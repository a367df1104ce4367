---------------------------- MODULE BucketWindow ----------------------------
(***************************************************************************)
(* What a client sees of one key of the rate limiter: the calls granted in *)
(* an arbitrary window of time, and when a refused caller may come back.   *)
(***************************************************************************)
EXTENDS TokenBucket

VARIABLES
  since,    \* start of an arbitrary window ...
  granted,  \* ... and the calls granted in it
  retryAt   \* when the last refused caller may come back, 0 if nobody waits

vars == <<clock, bucket, since, granted, retryAt>>

Init ==
  /\ BucketInit
  /\ since = 0 /\ granted = 0
  /\ retryAt = 0

\* A call, and what becomes of its caller.
Call(now) ==
  /\ BucketCall(now)
  /\ \/ /\ AnswerTo(now).retryAfter = 0
        /\ granted' = granted + 1
        /\ retryAt' = 0
     \/ /\ AnswerTo(now).retryAfter > 0
        /\ retryAt' = clock + AnswerTo(now).retryAfter * Second
        /\ UNCHANGED granted
  /\ UNCHANGED since

Tick == BucketTick /\ UNCHANGED <<since, granted, retryAt>>

\* A window may be opened at any time; this changes nothing in Redis.
OpenWindow ==
  /\ since' = clock /\ granted' = 0
  /\ UNCHANGED <<clock, bucket, retryAt>>

Next == Tick \/ OpenWindow \/ \E now \in Readings : Call(now)

Spec == Init /\ [][Next]_vars

-----------------------------------------------------------------------------
(* Properties.                                                             *)

(***************************************************************************)
(* The rate (tokenBucket): whenever a window is opened, the calls granted  *)
(* in it are at most one full bucket and one call for every interval that  *)
(* begins in the window or in the delay before it, although scripts run    *)
(* late and out of order and buckets expire.                               *)
(***************************************************************************)
RateBound ==
  granted <= Capacity(Rate)
             + (clock - since + MaxDelay + Interval(Rate, Period) - 1)
                 \div Interval(Rate, Period)

(***************************************************************************)
(* Expiry is invisible (PEXPIRE): by the time Redis forgets a bucket, the  *)
(* latest of callers would have found it full, so starting again with a    *)
(* full bucket gives nothing away.                                         *)
(***************************************************************************)
ExpiryUnobservable ==
  Expired(bucket, clock) /\ bucket # NoBucket =>
    bucket.tokens + (clock - MaxDelay - bucket.ts) \div Interval(Rate, Period)
      >= Capacity(Rate)

(***************************************************************************)
(* Retry-After is honest (RetryAfter of a 429): a caller that was refused, *)
(* even one whose clock reading was already behind the bucket's timestamp, *)
(* and that reads the clock again after that many seconds, finds a token   *)
(* unless another caller was granted one in between.                       *)
(***************************************************************************)
RetrySuffices ==
  retryAt # 0 =>
    bucket.tokens + (retryAt - bucket.ts) \div Interval(Rate, Period) >= Cost
=============================================================================
