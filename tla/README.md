# A TLA+ model of HUSTack's submission pipeline

HUSTack (phase 1) accepts C sources over HTTP, stores them, queues them and has
mock workers "run" them. This directory models the parts of it that are hard to
test: the life of a submission between PostgreSQL, a Redis stream and several
worker processes, the SQL transactions that enforce the quotas, the durations and
back-offs, the intake of an upload with all its early returns, the rate limiter and
the page that polls it, and the way the processes come up. The modules are checked
with TLC on small instances and, where it matters most, proved with TLAPS for
every value of the constants.

## 1. The system and its parts

| Part | State it keeps | Operations | Hard because |
|---|---|---|---|
| Rows and limits (`internal/database`) | `submissions.status` | accept, start, finish, give up, requeue | counts are read before the COMMIT they justify, at READ COMMITTED |
| Outbox (`ProcessNextOutbox`, `outboxLoop`) | undelivered events, `available_at` | lock next, `XADD`, mark delivered, back off | crash or lost reply between `XADD` and the mark |
| Stream queue (`internal/queue`) | stream, pending entries, idle times | `Enqueue`, `Claim`, `ClaimStale`, `Ack` | at-least-once delivery, lost replies, restart from a snapshot |
| Worker (`cmd/mock-worker`) | job in hand, ids listed for recovery | `consumeLoop`, `processOne`, `recoveryLoop` | attempts that outlive their row, timeouts, shutdown |
| Intake (`internal/submissions`, `internal/web`) | `tmpPath`, parts seen | the whole of `POST /api/submissions` | a dozen early returns, three places to keep in line |
| Storage (`internal/storage`) | temporary files, sources | `SaveStream`, `Commit`, `Delete` | fails half-way |
| Rate limiter (`internal/ratelimit`) | tokens, timestamp, TTL per key | one Lua script, called for up to three keys | callers read the clock before the script runs; a refused request has paid at earlier keys |
| Client address (`identity.ExtractClientIP`) | none | peer and headers to an address | headers anybody may send |
| Identity and CSRF (`internal/identity`) | none on the server: signed cookies and tokens | issue, resolve, verify | tabs share a cookie that is replaced and expires |
| Browser (`web/static/script.js`) | poll timer and budget | upload, poll | tabs share one limit, answers are old |
| Start-up (`cmd/api`, `cmd/mock-worker`, `internal/config`, compose) | settings per container, schema, consumer group | load, connect, migrate, ping, create group, shut down | each step may fail, two may migrate, settings reach two containers separately |

The API and the workers never talk to each other: the API commits a row and an
outbox event, a worker's `outboxLoop` copies the event into the stream, some
worker's `consumeLoop` claims the entry and moves the row with conditional
UPDATEs, and every worker's `recoveryLoop` requeues rows that stayed in
`mock_processing` for `WORKER_STALE_AFTER`. PostgreSQL is the authority; the
stream may duplicate, delay and repeat.

What makes the parts correct:

* no accepted submission is lost, and each is decided in the end;
* two workers never attempt the same submission at once, and a worker never
  gives up a submission that is waiting for somebody else's attempt;
* the global, running and queued limits hold under any concurrency;
* transactions do not deadlock;
* files and rows agree after every answer, and an accepted upload is durable;
* an attempt is over before anybody's clock calls it stale, and an abandoned one
  comes back within a known time;
* an outage of Redis is neither hammered nor followed by a long silence;
* no schedule of late callers gets more than the rate out of a bucket, nor a client
  more by naming another address, and who obeys Retry-After is let in;
* a page shows the decision, if it is made in time, and nothing that is not final;
* the API serves only on its schema, and what can come up does;
* a submission belongs to the identity of the page it was sent from, and its
  browser can read it.

## 2. Modules

| Module | Models | Built on |
|---|---|---|
| `Lifecycle` | what PostgreSQL promises about `status`: the abstract specification `LifecycleSpec` and the limits | |
| `Delivery` | API accept, outbox, stream, worker loops, faults, time | extends `Lifecycle`, implements `LifecycleSpec` |
| `RedisCrash` | `Delivery` with a Redis that restarts from its last snapshot | extends `Delivery` |
| `Transactions` | the SQL transactions statement by statement, with locks | extends `Lifecycle`, implements `LifecycleSpec` |
| `Intake` | `POST /api/submissions` and the source store | |
| `BucketScript` | `tokenBucket` and its Lua script as operators | |
| `TokenBucket` | one key of the rate limiter: the abstract specification of a bucket | extends `BucketScript` |
| `BucketWindow` | what clients see of one key: grants in a window, Retry-After | extends `TokenBucket` |
| `Admission` | the three limits in front of a submission, concurrent requests, client addresses | extends `BucketScript`; every key implements `TokenBucket` |
| `WorkerTiming` | the durations and clocks of attempts and of recovery | implements `Lifecycle` |
| `OutboxTiming` | ticker, batches and back-off of the outbox through an outage | |
| `Poller` | `pollResult` in several tabs, the poll limit, the read | extends `BucketScript`, instantiates `Lifecycle` |
| `Session` | one browser's tabs, its cookie, `identityMiddleware`, CSRF tokens and reads by owner | |
| `Startup` | `config.Load`, migrations and both `main` functions under compose | |
| `LifecycleProofs`, `TransactionsProofs` | theorems on the module of that name | |
| `DeliveryProofs` | theorems on `Delivery` and `RedisCrash` | uses `LifecycleProofs` |
| `TimingProofs` | theorems on `WorkerTiming` and `OutboxTiming` | |
| `BucketProofs`, `BucketWindowProofs`, `AdmissionProofs` | lemmas on `BucketScript`; theorems on `BucketWindow` and on `Admission` | the others use `BucketProofs` |
| `FrontProofs` | theorems on `Intake`, `Session`, `Poller` and `Startup` | uses `BucketProofs` |
| `MC*` | owners, settings and symmetry for TLC; one `.cfg` per run | |

`Delivery` and `Transactions` keep the variable `status` of `Lifecycle`, so the
refinement mapping is the identity on it, and `LifecycleSpec` itself is the property
that TLC checks and TLAPS proves. `Delivery` treats each SQL transaction as one step;
`Transactions` is what justifies that. `WorkerTiming` keeps rows with a time, and maps
them with `INSTANCE Lifecycle WITH status <- ...`. `Admission` maps each of its keys
with `INSTANCE TokenBucket WITH bucket <- bucket[k], ...`. Two modules justify what
`Delivery` takes for granted of time: `WorkerTiming` the action `Abandoned`,
`OutboxTiming` that delayed events become available.

### Lifecycle

`status[s]` is the column, with `"none"` before the INSERT. `Accept`, `Begin`,
`Complete`, `GiveUp` and `Requeue` are the five ways the code changes it. `Accept`
demands fewer than `MaxQueued + MaxRunning` active rows of the owner rather than
fewer than `MaxQueued` queued ones: `CreateSubmissionQueued` checks the latter, but
`RecoverStaleSubmission` does not take the participant lock, so it can commit
between the count and the COMMIT. The weaker guard is the one that survives.

### Delivery

| Variables | In the code |
|---|---|
| `status`, `stale` | the row; `started_at <= now - WORKER_STALE_AFTER` |
| `outbox`, `delayed`, `eventSeq` | rows with `delivered_at IS NULL`; those with a future `available_at`; BIGSERIAL |
| `unread`, `pel`, `idle`, `entrySeq` | stream entries past the group's last id; pending entries; those idle long enough for XAUTOCLAIM |
| `sending`, `sent` | the event locked by a worker's dispatch transaction; its XADD has succeeded |
| `pc`, `job` | where `consumeLoop`/`processOne` is, and its JobItem |
| `listed` | ids `recoveryLoop` has read and not yet revisited |
| `faults`, `stalls` | budgets, not program state |

Every call in the loops is an action with the name of the Go function; the error
returns are actions of their own (`EnqueueFails`, `DispatchRollback`,
`ClaimReplyLost`, `TryStartFails`, `FinishFails`, `AckFails`, `RecoverFails`) that
consume the fault budget and let the failed call have taken effect or not, where
the client cannot tell. `HardTimeout` and `Shutdown` are the two ways into the
`ctx.Done()` branch of `processOne`, `Crash` is the death and restart of a worker
process, and `ForeignEntry` a record no dispatcher wrote.

Time. Nothing is measured. A row becomes `stale`, an entry `idle`, a delayed event
available, whenever the environment says so. One fact about durations is used:
`config.Load` insists on `WORKER_STALE_AFTER > WORKER_HARD_TIMEOUT >
MOCK_WORK_DURATION`, so a row that somebody is working on does not go stale
(`Abandoned`), unless that worker process is suspended in between
(`AttemptStalls`, a budget of its own, because the exclusion properties are only
claimed without it). An entry may become idle at any time, also in the hands of a
busy worker, which over-approximates Redis.

Simplifications. XAUTOCLAIM inspects ten entries per call and here finds the first
idle one at once. An `XDEL` that fails after `XACK` leaves a record that no
reader of the group sees again, so it is an `Ack`. `Shutdown` lets the worker go on
after its acknowledgement, as a restarted one would. Attempt counts and error
messages of the outbox are left out.

### RedisCrash

`docker-compose.yml` runs `redis:7-alpine` with default persistence. `BackgroundSave`
records stream and group at any time, `RedisRestart` puts the recorded ones back.
The group may be missing afterwards; `EnsureConsumerGroup` runs only when a worker
process starts, and until then every claim fails (`ClaimWithoutGroup`). All the faults of
`Delivery` remain possible around a restart (`CrashFault`). Because the start of a process
matters here, so does its end: `stopping` are the workers that got SIGTERM, whose
other two loops have ended and whose acknowledgement is their last call (`EndOfAck`).

### Transactions

`status` is the committed state. A session executes one transaction at a time;
`pc` is its next statement, `held` its locks: `ParticipantLock`, `GlobalLock` (the
two advisory locks) and `RowLock`. Writes appear at the COMMIT, where `End` releases
all locks. `SetInternalError` and `FinishSubmissionConditional` are single
statements that wait for the row lock. `Rollback` may strike at every point. A session
without a transaction is about `Nothing`.

### Intake

One `pc` per request. Three sets say where the bytes of a request are (`temps`,
`sources`, `rows`), `tmpPath` which temporary file the handler still knows of. A part
is reduced to its form name, its extension and what `SaveStream` tells apart in
its body. Disk operations fail; where the handler has no way of undoing the damage
(a failed chmod after the rename, a failed unlink, a COMMIT whose reply is lost)
the request is put into `mishap`, so that the properties can say precisely what is
still promised then. `Crash` ends all open requests at once.

### BucketScript, TokenBucket, BucketWindow

`BucketScript` is the integer arithmetic of `tokenBucket` and its Lua script: interval
rounded down, whole intervals turned into tokens, Retry-After rounded up, TTL. Both
keys of a bucket get the same deadline in the same script, so they are one record.
In `TokenBucket` the caller's `now` lies up to `MaxDelay` behind the clock.
`BucketWindow` adds observers that have no counterpart in the code: `since` and
`granted` for an arbitrary window, `retryAt` for the last refused caller. A bucket may
grant its capacity and then one call per interval, so up to twice the nominal rate
in the first minute; this is in the nature of a token bucket and `RateBound` states
it exactly.

### Admission

A request in a slot is at the limit it has to pass next (`min`, `hour`, `ip`), as
`CreateSubmission` calls `AllowParticipantSubmit` (two buckets) and `AllowIPSubmit`. Each
`Allow` is one script. `Refuse` is the 429, after which nothing is given back at the
earlier buckets. `ReplyLost` covers both outcomes of a lost reply: go-redis sends the
script again, and the request pays twice, or the client is told 500. A rate of zero
or below, which `config.Load` lets pass, is no limit.

`Arrivals` are the ways a request can reach the API's port: directly, with whatever
headers, or from a peer inside `TRUSTED_PROXY_CIDR` that has overwritten them as
`nginx.conf` does. The CIDR has to contain Nginx and nobody else: if it does not
match, all clients share the bucket of Nginx; if it matches a client, that client
names its own bucket.

`setting` holds the rates, periods and the kind of load; it is chosen in `Init` and never
changes, so that one run examines several configurations. A client in
`setting.patient` sends one request after the other and obeys Retry-After;
`PatienceRewarded` bounds its consecutive refusals by three, one for each limit, and TLC
finds behaviours that need all three.

### WorkerTiming

`row` has `started_at`, which PostgreSQL sets to the start of the transaction, before
the wait for the participant lock. `worker` has the times until which each step may
last: the transaction, its reply, the work under `context.WithTimeout`, and
`SetInternalError`, which runs under a background context. `ticker` and `listed` are
`recoveryLoop`, which compares `started_at` with its own clock (`Skew`) and takes the
`RecoveryBatch` oldest stale rows of each round (`OldestStale`; 100 in the code). A row
behind a backlog thus waits for later rounds: `RecoveredInTime` allows a period for each
round that the active rows can fill (`RecoveryRounds`, one as long as `QUEUE_MAX_DEPTH` is
at most the batch).
The stream is reduced to handing any id to any worker at any time.

`config.Load` orders the three durations (`ConfiguredDurations`). That alone does not keep
an attempt from going stale in its worker's hands: the gap between
`WORKER_STALE_AFTER` and `WORKER_HARD_TIMEOUT` also has to hold the transaction, the
reply, the last call and the skew of the clocks. `SlackAssumption` says so. The
defaults, 30 s against 5 s, leave 25 s for it, an `.env` with 6 s against 5 s does not.

### OutboxTiming

An `outboxLoop` per worker: ticker (of the ticks missed one is kept), batch, locked event,
XADD that hangs up to `OpTimeout` while Redis is away. `REDIS_OPERATION_TIMEOUT` ends the
retries of a call, but a reply under way is awaited for the `ReadTimeout` of go-redis,
3 s, so `OpTimeout` stands for the longer of the two. Events may become visible out of
the order of their ids, since a recovery inserts one without the global lock. `Backoff` is
computed in integers of `Width` bits, so that a shift that is not capped wraps around
(`Shifted`, `Wrapped`; `Half` is the first number that does not fit).
`available_at` is relative to the start of the transaction.

`CaughtUp` bounds how long an event waits once Redis is back: the longest call or pause,
a tick per batch of events, and a tick per failure. The failures count because of
`SKIP LOCKED`: a loop passes over an event that another loop has locked, and when that one
rolls back, the first loop has spent its tick on nothing. A bound without them is wrong
from the second failure on.

### Poller

Each tab runs `pollResult`: a poll is sent, passes or fails the limiter (which lets it
through when Redis cannot be asked), reads the row, and the answer arrives up to
`MaxDelay` after the request. A call whose reply is lost may have run the script:
go-redis sends it again, and the poll pays once more (`AllowPollResent`), or gives up
(`AllowPollFails`). The rows move as in `Lifecycle`, between all of these
steps. A page ends with the result, with "polling timeout", or, when its last poll
failed, without a word (`silent`). Polls that were refused or failed count. `setting`
has the rate, the number of polls and the faults of a behaviour, and never changes.

`TabsFit` says when the tabs fit the limit: their tokens grow back in a `pollInterval`,
and a full bucket has one for each, and one for every fault so far, any of which may have
been a second charge. `MaxDelay` is not part of it. Then the script is never refused
(`TabsFitTheRate`) and a decision is shown whenever there are more polls left than
faults to come (`DecisionShown`). When they do not fit, tabs take each other's tokens;
`CrowdServed` says how many polls a page may lose that way before it is served.

### Session

The server keeps no session, so the state is the browser's: the cookie `jar`, the
CSRF token in each tab's page, the submission a tab shows, and one request per tab
on its way through `identityMiddleware` and a handler and back. The clock may pass
an expiry between any two of these steps. Cookies and tokens are the records
that were signed. `raced` remembers whether two requests that had no live cookie
were ever under way together; then the server issues two identities, the later
response wins, and `PollFindsRow` makes no promise. Without that
exception TLC shows the earlier tab's submission becoming unreadable.

### Startup

`dotenv` is the operator's `.env`; every variable is unset, junk or a number. `Passed` is
which of them `docker-compose.yml` gives to which container, `Acceptable` the checks of
`config.Load`, `getEnv` its fall-backs: an integer that does not parse falls back, a
duration that does not parse is refused. `where` follows the two `main` functions from `Load` to
the open port or the running loops; "make migrate" is a third process inside the API's
container. The migration is one implicit transaction, and of two that create the tables
together the second fails. Every error ends in `Exit`, and compose starts the process
again. The rates, sizes and the cookie's lifetime are taken unchecked by the code and
are not among the settings. `Sigterm` is not "docker stop", after which compose leaves the
service down on purpose.

## 3. Runs

| Run | Instance | Checks |
|---|---|---|
| `delivery_faults` | 2 workers, 2 submissions of one owner, 1 fault | `NoLostSubmission`, `ExclusiveAttempt`, the inductive invariant `DeliveryInv`, `QueuedNotGivenUp`, refinement of `LifecycleSpec` |
| `delivery_live` | 1 worker, 2 submissions, 1 fault, 1 stall | `TypeOK`, `EventuallyDecided`, `PendingDrains` |
| `redis_lost` | 1 worker, 1 submission, 1 Redis restart | **violation** of `EventuallyDecided` |
| `transactions_commit` | 2 sessions, 5 submissions, 2 owners, limits 3/1/1 | `LocksHeld`, `DecisionsHold`, `RunningQuota`, `GlobalCapacity`, `ParticipantBound`, refinement of `LifecycleSpec`, `TransactionsEnd` |
| `intake_files` | 2 requests, 2 parts | `AllOrNothing`, `AcceptedIsDurable`, and `IntakeInv` (types and `OneCopy`) |
| `session_tabs` | 2 tabs, 3 identities, 4 instants | `FiledUnderPageOwner`, `PollFindsRow` |
| `bucket_rate` | capacity 2, interval 3, delay 4, 30 time units | `RateBound`, `ExpiryUnobservable`, `RetrySuffices` |
| `admission_limits` | settings `Racing`, `Bursting` and `Sharing`, 5 requests, 7 time units | `ParticipantRates`, `SenderRate`, `PatienceRewarded`, refinement `KeysAreBuckets` |
| `worker_timing` | 2 workers, one with a fast clock, 2 submissions, batches of 1, 2 faults, 13 time units | `AttemptNotStolen`, `NotStaleInHand`, `RecoveredInTime`, refinement `FollowsLifecycle` |
| `outbox_timing` | 2 dispatchers, 2 events, batches of 1, 4-bit integers, 2 faults, 8 time units | `RetriesSpaced`, `CaughtUp` |
| `poller_tabs` | 2 tabs on one row; a limit that fits them and a resent script (3 polls, 1 fault), and one that feeds one tab (4 polls with slow answers; 6 polls, 2 faults) | `ShownIsFinal`, `TabsFitTheRate`, `DecisionShown`, `CrowdServed` |
| `startup_env` | 11 variables, up to 2 adjusted; 4 faults, 2 less for each adjusted variable | `ServesOnSchema`, `ComesUp` |

Why the bounds are enough. All conflicts in `Delivery` are about one row (two
workers, two entries) or one participant's quota (two rows); two workers and two
submissions with `MaxRunning = 1` show both. A fault multiplies entries, so one fault
per behaviour already yields duplicates in the hands of both workers. The safety
properties are also proved without these bounds. For the transactions, two
sessions let a creator or a starter overlap with another one or with a recovery, and
the single-statement updates need none; three submissions of one participant can
exceed its bound of two active rows, and the two of another one make four, so that the
global limit of three is reached by both owners together and by neither alone. The safety part is proved for any number of sessions. Two
parts reach each pair of a stored source and a bad successor. In the bucket the
interval 3 does not divide the period 7 and is not a multiple of a second (2 units), the
delay is longer than an interval, and the clock runs past two expiries. In the
session a cookie lives two units and a token one, so that within four instants
each expires while the other is good, and the third identity is issued after the
first two raced.

In `Racing` one client's two requests overlap at every pair of limits, with calls
that take a unit and one lost reply, and the address limit is off; in `Bursting` the
minute and not the hour is the tighter of the two; in `Sharing` the
minute, hour and address limits each refuse the patient client while two others
use its address. In `worker_timing` the stale limit is one unit longer than the slack
needs, so that any unit too many would show. Two abandoned rows and batches of one make
the second row wait for a second round; with one round less the bound of
`RecoveredInTime` fails in this instance. Two workers with two submissions at once are out
of TLC's reach, so the constraint `OneOrTheOther` lets both workers process while one
submission exists, and afterwards follows only the one with the fast clock, until one of
the two rows is decided; the recovery loops of both always run. In `outbox_timing` the
outage is long enough for the attempts to pass the width of the integers, and the
second fault can strike a loop while another one catches up. The
poll limits are the smallest on either side of `TabsFit`, and the numbers of polls the
smallest at which a page may lose one to each fault and two to the other tab. Settings that are checked
together are at most three and differ pairwise, so two adjusted variables break
every check of `Load` on its own; outages, lost replies and hand-run migrations need
few variables adjusted.

Deadlock is checked for `Delivery`, `RedisCrash`, `Transactions` and the bucket, whose
loops and clients never stop. The others end: intake and session when their ids
are used up, the timed modules at the end of their clock, a page with its last
poll, the start-up when everything is up.

Fairness. `Delivery!Fairness` assumes that each of the three loops of each worker
keeps running (the loops are endless and compose restarts the process) and
that time passes (rows and entries age, back-offs end). Nobody has to submit; no
fault, stall, shutdown or foreign record has to happen, and there are finitely many
of them. `Transactions!FairSpec` assumes strong fairness of a session's next
statement because PostgreSQL queues the waiters of a lock; rollbacks are not
owed, so a deadlock could not be resolved by one. `PollerFairSpec`: the API answers,
the browser fires its timers, time passes; no row has to move. `StartupFairSpec`:
each `main` goes on, and compose restarts the two services (`restart: unless-stopped`)
and the two servers; nobody has to run "make migrate".

### Disagreements with the documentation

* `redis_lost`. `README.md:79` says a Redis outage cannot lose an accepted
  submission. It holds as long as Redis keeps what it acknowledged
  (`NoLostSubmission`). With snapshots only, a restart can lose an entry whose
  event is already marked delivered, or the consumer group; the row then stays
  queued, and nothing looks for it. Everything but the delivery survives a restart:
  `CrashAttemptsExclusive` and `CrashRefinesLifecycle` prove it, for any restarts around
  any other faults.
* The queued limit. `README.md:100` promises at most three queued submissions per
  participant. `RecoverStaleSubmission` requeues without counting, so a participant
  who refilled the queue while a row was running gets one more when that row
  goes stale. What does hold is `ParticipantBound`: queued plus running rows never
  exceed `MaxQueued + MaxRunning`.
* Settings and containers. `docker-compose.yml` gives the API's container
  `MOCK_WORK_DURATION` but not `WORKER_HARD_TIMEOUT`, so an `.env` with 6 s of work and a
  hard timeout of 10 s, which `.env.example:26` allows, keeps the API from
  starting: `Acceptable` is false of what it is given, and `ComesUp` promises nothing.
  `MAX_RUNNING_PER_PARTICIPANT` goes to the API only, which does not use it; the
  worker, which enforces it, keeps the default of 1.

## 4. Proofs

All theorems hold for arbitrary constants that satisfy the named assumptions:

* `LifecycleAssumption`, `RowsAssumption`: finitely many submissions, each with an owner,
  and positive limits, as `config.Load` demands. `BatchAssumption`: a round of recovery takes
  at least one row.
* `DeliveryAssumption`: payloads of foreign records are not submission ids.
* `ConfiguredDurations` (checked by `config.Load`) and `SlackAssumption` (owed by the
  deployment, see `WorkerTiming` above).
* `OutboxTimingAssumption`: a second shifted by at most `ShiftCap` fits the integer. With
  `ShiftCap = 20` and 64 bits of nanoseconds it plainly does; it is stated for each
  shift because that powers of two grow is an induction.
* `TokenBucketAssumption`, `AdmissionAssumption`: a call takes no longer than a bucket takes to
  fill. For the code's periods that is about a minute at least, against calls bounded
  by `REDIS_OPERATION_TIMEOUT`. Participants and addresses are different keys.
* `IntakeAssumption`, `SessionAssumption`, `PollerAssumption`: finiteness (of a browser's tabs, for
  one) and types. The theorems
  on `Startup` need none.

The number of requests, tabs, workers, dispatchers, events and sessions, the length
of time, the budgets of faults and all durations and rates are thus unbounded.

* `LifecycleProofs`. `LimitsHold`: the three limits together with the typing are
  inductive. The lemmas before it say how a changed status moves one element into
  or out of the counted sets and what that does to their cardinalities.
* `DeliveryProofs`, on `Delivery`. `NoLostSubmission` and `ExclusiveAttempt` are not inductive:
  an acknowledgement on its way could remove the last entry of a queued row, and a mark
  on its way its last event. `DeliveryInv` adds why neither can happen.
  `RowLocks`: an event is locked by one dispatcher and stays undelivered and available
  meanwhile. `FreshIds`: ids are not reused, so nobody holds a new event or entry.
  `Deliverable`: every queued row has an event not yet sent by its dispatcher, or an
  entry whose every holder has still to look at the row. `OwnAttempt`: unless a
  stall happened, a row in somebody's hands is running, fresh and in nobody else's.
  From it follow `NothingLost`, `AttemptsExclusive`, the action property `QueuedKept`,
  the refinement `DeliveryRefinesLifecycle` and, through it and `LimitsHold`,
  `DeliveryRespectsLimits`.
* `DeliveryProofs`, on `RedisCrash`. A restart breaks `Deliverable` and `FreshIds`, which speak
  of the stream. `CrashInv` is what remains: types, `RowLocks`, `OwnAttempt` and the limits,
  and that a snapshot is fit to be the stream again. A step of the extended system is one
  of `Delivery`, its faults included, or leaves rows and attempts alone (`CrashStepKinds`), so
  the lemmas on `Delivery` are used again.
* `TransactionsProofs`. The invariant is `TypeOK`, `LocksHeld` and `DecisionsHold` with
  the limits: the locks exclude whoever could raise a counted number, and the row
  lock keeps the status read under it. It gives `LocksRemainHeld`, `DecisionsRemainTrue`,
  the refinement `TransactionsRefineLifecycle` and `TransactionsRespectLimits`.
* `TimingProofs`, on `WorkerTiming`. `TimingInv` bounds the age of an attempt at each of its
  steps (`InTime`, `AgeLimit`): the longest one is over before `SlackAssumption` lets
  any worker's clock call the row stale, so recovery, which looks again before it
  requeues, finds nothing (`HandsAreFresh`, `AttemptsAreKept`). For `AbandonedComeBack` it
  follows each recovery loop from tick to tick: no round is late (`TickerOK`), and a round
  that does not list a stale row has filled its batch with rows that are not younger, so
  after k rounds k batches fewer are `Ahead` of it (`BacklogShrinks`). Active rows are at
  most `MaxActive`, hence `RecoveryRounds` rounds suffice (`RoundsSuffice`); a restart or a
  failed round starts the count again (`Since`). Every step also maps to one of `Lifecycle`
  (`TimingRefinesLifecycle`).
* `TimingProofs`, on `OutboxTiming`. `RetriesAreSpaced` needs `SpacedInv`: the stored
  `available_at` of an event lies a full pause after its last failure, a dispatcher that
  holds an event took it after that instant, and no event has two holders, so that no
  second loop can overwrite the row behind the first one's back. `BackoffFits` is where
  the cap of the shift is used. `OutboxCatchesUp` needs `CatchingUp`. Its first half,
  `CalmInv`, says that an outage and a loop's own failure are forgotten after the longest
  call or pause: no call of the outage is under way, every event is due, and the loop's
  ticks are in time. Its second half, `Progress`, then counts the ticks of a loop
  while an event waits: each has filled a batch with other events, all delivered by
  now, or was excused because somebody had the event locked. That one delivers it
  at once, or a failure is spent. As fewer batches than `Rounds` can be full without
  the event, the ticks are bounded, and with them the time.
* `BucketProofs`, `BucketWindowProofs`. The argument is a potential, `Level`, the tokens
  times the interval minus the timestamp. A grant lowers it by an interval, a refusal, an
  expiry or a late caller never raise it above what a full bucket has at the
  earliest time a caller may still read. Grants in a window are thus paid for
  (`GrantsPaid`), which gives `RateIsKept`; that a lapsed bucket would be full gives
  `ExpiryIsInvisible`, and `RetryKept` (the promised token has grown back by `retryAt`, for
  any clock reading from then on) `RetryAfterIsEnough`.
* `AdmissionProofs`. The same potential for every key at once. A request that has passed
  one limit and waits at the next has paid at the first and is not yet counted as
  admitted, so `AdmittedPaid` counts the requests between two limits with the
  admitted ones; the delays of the later calls widen the window (`ParticipantRatesHold`,
  `SenderRateHolds`). `EveryKeyIsABucket` is the refinement of `TokenBucket`: a step of
  `Admission` runs the script on one key at most and lets the others be.
  `PatienceIsRewarded` rests on `PatienceInv`: there is a set of limits, with each of its
  limits containing all that are not slower, which serve the client at its next
  attempt and are at least as many as its refusals in a row. A refusal lasts as long
  as a token of the limit that refused, so that limit and all quicker ones, the
  tokens the client paid there included, join the set; no limit in the set can
  refuse next, so each refusal comes from a slower limit than the last.
* `FrontProofs`, on `Intake`. `RequestInv` says at each call where the bytes are and
  which of the copies the handler knows of, and after the answer what was left behind.
* `FrontProofs`, on `Session`. `FiledUnderOwner`: a cookie that was not live at the middleware
  is not live later, and the CSRF check compares owners. `PollsFindTheirRow` needs
  `OneIdentity` on top: as long as nothing raced, every live cookie anywhere, in the jar,
  in a response or behind a shown submission, names the identity in the jar.
* `FrontProofs`, on `Poller`. `ShownStaysFinal`: an answer with a result was read from a
  decided row, and a decided row no longer moves, however long the answer was
  under way. `TabsAreNotRefused` compares, for every reading of the clock, the tokens that a
  caller with that reading would find (`Room`) with the tabs that may be asking by
  then (`Asking`): there is room for all, and for the tokens no tab needs that no fault has
  cost (`Spare`, `RoomForAll`). A second charge takes one of the latter. A grant lowers the room by one
  at every reading, and the tab asks again a `pollInterval` later at the earliest, when a
  token for each tab has grown back; lost and late polls and an expired bucket only put a tab off or
  leave more room. Stated reading by reading, it
  needs no sum over the tabs.
* `FrontProofs`, on `Startup`. `StartInv`: whoever is past the migration has found or made the
  schema; nothing drops it.

`FrontProofs` and `TimingProofs` extend several components at once; therefore `Session`,
`Poller`, `Startup` and `OutboxTiming` have names of their own for what modules usually
share (`SessionSpec`, `PollerNext`, and `now` or `time` for the clock).

Only model-checked: the liveness properties `EventuallyDecided`, `PendingDrains`,
`TransactionsEnd`, `DecisionShown`, `CrowdServed` and `ComesUp` (the prover has no fairness).
Every safety invariant, action property and refinement of the passing runs is also a
theorem. The other way round, the two theorems on `RedisCrash` have no passing run of
their own: TLC explores that module in `redis_lost`.

## 5. Not modelled

* HMACs, encodings and `VerifyOrigin`: functions of one request. In `Intake` the
  outcome of the checks before the body is a free choice.
* Functions of the repository without a caller in its programs: `CreateSubmission`,
  `StartSubmissionConditional`, `RecoverToQueued` and
  `CountParticipantQueuedOrRunning` of the database package, `queue.Depth`; `FlushDB` and
  `SetClock` of the rate limiter, which only tests use.
* Templates, security headers, logging, panic recovery and the two health probes: they
  keep no state, and nothing modelled depends on them.
* The request and connection limits of Nginx, which are third-party code in front
  of everything modelled.

## 6. Plan

Done in this order: `Lifecycle`, `Delivery`, `RedisCrash`, `Transactions`, `Intake`, the
bucket, `Session`, `Admission`, `WorkerTiming`, `OutboxTiming`, `Poller`, `Startup`; then the proofs of
the first four, and of all the others as section 4 lists them; `TabsAreNotRefused` and
`OutboxCatchesUp` came last. Nothing of the plan is left but what the prover cannot do,
liveness under fairness.
