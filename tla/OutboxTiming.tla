---------------------------- MODULE OutboxTiming ----------------------------
(***************************************************************************)
(* The back-off of the outbox with its times and its integers: the ticker  *)
(* of outboxLoop, its batches, XADD calls that hang while Redis is away,   *)
(* and available_at, computed from the start of the transaction and from a *)
(* shift of a machine integer.  Delivery abstracts all of it to events     *)
(* that are available now or later.                                        *)
(***************************************************************************)
EXTENDS Integers, FiniteSets

CONSTANTS
  Dispatchers,   \* the outboxLoop of each worker process
  Events,        \* ids of submission_outbox, 1, 2, ...
  Second,        \* units in a second
  ShiftCap,      \* the 20 of min(e.AttemptCount, 20)
  Width,         \* bits of a time.Duration
  MaxBackoff,    \* OUTBOX_MAX_BACKOFF
  PollInterval,  \* OUTBOX_POLL_INTERVAL
  OpTimeout,     \* the longest an XADD can hang, see TimePasses
  Batch,         \* the 100 of the inner loop
  MaxFailures,   \* bound: outages, crashes and failed SQL calls
  Horizon        \* bound: how long time goes on

\* A machine integer has Width bits; the delay of the n-th retry, not capped.
Half == 2^(Width - 1)
Shifted(n) == Second * 2^n

ASSUME OutboxTimingAssumption ==
  /\ Events \subseteq Nat /\ IsFiniteSet(Events)
  /\ {Second, MaxBackoff, PollInterval, OpTimeout, Batch, Width} \subseteq Nat \ {0}
  /\ {ShiftCap, MaxFailures, Horizon} \subseteq Nat
  /\ Half \in Nat /\ \A n \in 0..ShiftCap : Shifted(n) \in 0..(Half - 1)

VARIABLES
  now,       \* the clock, NOW() for PostgreSQL
  event,     \* the outbox rows; "none" before the INSERT
  lastTry,   \* start of the last recorded failure of each event
  loop,      \* what each outboxLoop is doing
  nextTick,  \* when it ticks next
  redis,     \* is Redis up, and since when
  failures,
  disturbed  \* when each loop last started or lost its transaction

outboxVars == <<now, event, lastTry, loop, nextTick, redis, failures, disturbed>>

Resting == [at |-> "idle"]
NoRow == [state |-> "none"]

OutboxInit ==
  /\ now = 0
  /\ event = [e \in Events |-> NoRow]
  /\ lastTry = [e \in Events |-> 0]
  /\ loop = [d \in Dispatchers |-> Resting]
  /\ nextTick \in [Dispatchers -> 1..PollInterval]
  /\ redis = [up |-> TRUE, since |-> 0]
  /\ failures = 0
  /\ disturbed = [d \in Dispatchers |-> 0]

Failure == failures < MaxFailures /\ failures' = failures + 1

-----------------------------------------------------------------------------
\* What a machine integer makes of x, and the smaller of two numbers.
Wrapped(x) == ((x + Half) % (2 * Half)) - Half
min(a, b) == IF a < b THEN a ELSE b

\* Mutant: the shift is not capped.
BackoffUncapped(attempts) == min(Wrapped(Shifted(attempts)), MaxBackoff)

Backoff(attempts) == min(Wrapped(Shifted(min(attempts, ShiftCap))), MaxBackoff)

\* The API or a recovery commits an event; available_at defaults to NOW().  An
\* id is drawn before the COMMIT, so a smaller one may show up later.
Record(e) ==
  /\ event[e] = NoRow
  /\ event' = [event EXCEPT ![e] =
       [state |-> "waiting", attempts |-> 0, available |-> now, recorded |-> now]]
  /\ UNCHANGED <<now, lastTry, loop, nextTick, redis, failures, disturbed>>

\* The ticker fires.  While the loop is busy one tick is kept, the rest are
\* dropped.
TickerFires(d) ==
  /\ loop[d] = Resting /\ nextTick[d] <= now
  /\ loop' = [loop EXCEPT ![d] = [at |-> "next", i |-> 0]]
  /\ nextTick' = [nextTick EXCEPT ![d] =
       @ + PollInterval * ((now - @) \div PollInterval + 1)]
  /\ UNCHANGED <<now, event, lastTry, redis, failures, disturbed>>

Locked == {loop[d].event : d \in {dd \in Dispatchers : loop[dd].at = "sending"}}
Due == {e \in Events \ Locked : event[e].state = "waiting" /\ event[e].available <= now}

\* ProcessNextOutbox up to the call of deliver; the batch ends when nothing
\* is due or its length is reached.
LockNextOutbox(d) ==
  /\ loop[d].at = "next"
  /\ \/ /\ loop[d].i < Batch
        /\ \E e \in Due :
             /\ \A f \in Due : e <= f
             /\ loop' = [loop EXCEPT ![d] = [at |-> "sending", i |-> loop[d].i, event |-> e,
                                             begun |-> now, healthy |-> redis.up]]
     \/ /\ loop[d].i = Batch \/ Due = {}
        /\ loop' = [loop EXCEPT ![d] = Resting]
  /\ UNCHANGED <<now, event, lastTry, nextTick, redis, failures, disturbed>>

NextInBatch(d) == [loop EXCEPT ![d] = [at |-> "next", i |-> loop[d].i + 1]]

MarkDelivered(d) ==
  /\ loop[d].at = "sending" /\ redis.up
  /\ event' = [event EXCEPT ![loop[d].event].state = "delivered"]
  /\ loop' = NextInBatch(d)
  /\ UNCHANGED <<now, lastTry, nextTick, redis, failures, disturbed>>

\* deliver returns an error, at the latest when the operation times out; the
\* loop goes on.  NOW() is the start of the transaction.
EnqueueFails(d) ==
  LET e == loop[d].event IN
  /\ loop[d].at = "sending" /\ ~loop[d].healthy
  /\ event' = [event EXCEPT ![e].attempts = @ + 1,
                            ![e].available = loop[d].begun + Backoff(event[e].attempts)]
  /\ lastTry' = [lastTry EXCEPT ![e] = loop[d].begun]
  /\ loop' = NextInBatch(d)
  /\ UNCHANGED <<now, nextTick, redis, failures, disturbed>>

\* An SQL call fails: rollback, and the batch is over.
DispatchRollback(d) ==
  /\ Failure /\ loop[d] # Resting
  /\ loop' = [loop EXCEPT ![d] = Resting]
  /\ disturbed' = [disturbed EXCEPT ![d] = now]
  /\ UNCHANGED <<now, event, lastTry, nextTick, redis>>

\* The worker process dies and starts again.
DispatcherCrash(d) ==
  /\ Failure
  /\ loop' = [loop EXCEPT ![d] = Resting]
  /\ nextTick' = [nextTick EXCEPT ![d] = now + PollInterval]
  /\ disturbed' = [disturbed EXCEPT ![d] = now]
  /\ UNCHANGED <<now, event, lastTry, redis>>

\* Calls under way may fail from now on.
RedisDown ==
  /\ Failure /\ redis.up
  /\ redis' = [redis EXCEPT !.up = FALSE]
  /\ loop' = [d \in Dispatchers |->
       IF loop[d].at = "sending" THEN [loop[d] EXCEPT !.healthy = FALSE] ELSE loop[d]]
  /\ UNCHANGED <<now, event, lastTry, nextTick, disturbed>>

RedisUp ==
  /\ ~redis.up
  /\ redis' = [up |-> TRUE, since |-> now]
  /\ UNCHANGED <<now, event, lastTry, loop, nextTick, failures, disturbed>>

\* Mutant: XADD has no timeout.
TimePassesHung ==
  /\ now < Horizon
  /\ \A d \in Dispatchers :
       \/ loop[d] = Resting /\ now < nextTick[d]
       \/ loop[d].at = "sending" /\ ~loop[d].healthy
  /\ now' = now + 1
  /\ UNCHANGED <<event, lastTry, loop, nextTick, redis, failures, disturbed>>

\* Time passes while loops are idle or hang in a call; SQL, and Redis when
\* it is well, answer at once.  REDIS_OPERATION_TIMEOUT ends the retries of
\* go-redis; a reply it is already waiting for is given its ReadTimeout.
TimePasses ==
  /\ now < Horizon
  /\ \A d \in Dispatchers :
       \/ loop[d] = Resting /\ now < nextTick[d]
       \/ loop[d].at = "sending" /\ ~loop[d].healthy /\ now < loop[d].begun + OpTimeout
  /\ now' = now + 1
  /\ UNCHANGED <<event, lastTry, loop, nextTick, redis, failures, disturbed>>

OutboxNext ==
  \/ \E e \in Events : Record(e)
  \/ \E d \in Dispatchers :
       \/ TickerFires(d) \/ LockNextOutbox(d)
       \/ MarkDelivered(d) \/ EnqueueFails(d) \/ DispatchRollback(d)
       \/ DispatcherCrash(d)
  \/ RedisDown \/ RedisUp
  \/ TimePasses

OutboxSpec == OutboxInit /\ [][OutboxNext]_outboxVars

-----------------------------------------------------------------------------
(* Properties.                                                             *)

(***************************************************************************)
(* No hammering (ProcessNextOutbox): however long the outage, an event is  *)
(* tried again only after twice the pause of the time before, or the       *)
(* longest pause; the shift never wraps around to a negative delay.        *)
(***************************************************************************)
RetriesSpaced ==
  \A d \in Dispatchers :
    loop[d].at = "sending" /\ event[loop[d].event].attempts > 0 =>
      LET pause == loop[d].begun - lastTry[loop[d].event]
          tries == event[loop[d].event].attempts
      IN pause >= MaxBackoff \/ pause >= Shifted(min(tries - 1, ShiftCap))

\* Ticks it takes until every event has had its turn in a batch.
Rounds == (Cardinality(Events) + Batch - 1) \div Batch

(***************************************************************************)
(* The outbox catches up (outboxLoop): once Redis is back, or the event is *)
(* there, every loop that is left alone would do it by itself: an event is *)
(* delivered within the longest pause, or the longest call, and the ticks  *)
(* its batch needs, although calls of the outage hang on, ticks are        *)
(* dropped and earlier events come first.  A failure elsewhere, of a loop  *)
(* that had the event locked, costs one tick at most.                      *)
(***************************************************************************)
CaughtUp ==
  redis.up =>
    \A e \in Events, d \in Dispatchers :
      event[e].state = "waiting" =>
        \E t \in {redis.since, event[e].recorded, disturbed[d]}, wait \in {OpTimeout, MaxBackoff} :
          now <= t + wait + PollInterval * (Rounds + failures)
=============================================================================
