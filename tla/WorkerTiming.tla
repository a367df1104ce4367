---------------------------- MODULE WorkerTiming ----------------------------
(***************************************************************************)
(* The durations of an attempt.  Delivery says only that a row somebody    *)
(* works on does not go stale; here the times are measured.  PostgreSQL    *)
(* stamps started_at with the start of the transaction, before it waits    *)
(* for the participant lock; the hard timeout starts when the worker has   *)
(* the reply of the COMMIT; giving up is not bounded by the hard timeout   *)
(* at all; and staleness is judged by the clock of whichever worker looks. *)
(* The stream is abstracted to handing any submission to any worker at any *)
(* time, as often as it likes.                                             *)
(***************************************************************************)
EXTENDS Integers, FiniteSets

CONSTANTS
  Workers, Submissions, Participants, Owner,
  MaxActive, MaxQueued, MaxRunning,   \* the limits, as in Lifecycle
  Work,        \* MOCK_WORK_DURATION
  Hard,        \* WORKER_HARD_TIMEOUT
  Stale,       \* WORKER_STALE_AFTER
  Skew,        \* by how much a worker's clock is ahead of PostgreSQL's
  StartTime,   \* bound: from BEGIN to the COMMIT of TryStartSubmission
  ReplyTime,   \* bound: from that COMMIT to the worker's next line
  GiveUpTime,  \* bound: SetInternalError
  RecoveryBatch, \* rows of one round: 100
  RecoverTime, \* bound: one round of recoveryLoop after its query
  Lag,         \* bound: how late a due timer or timeout is served
  MaxFaults,   \* bound: failed calls, crashes and shutdowns
  MaxTime      \* bound: the clock

\* The assumption of Lifecycle, for the rows kept here.
ASSUME RowsAssumption ==
  /\ IsFiniteSet(Submissions)
  /\ Owner \in [Submissions -> Participants]
  /\ {MaxActive, MaxQueued, MaxRunning} \subseteq Nat \ {0}

\* recoveryLoop asks for at least one row.
ASSUME BatchAssumption == RecoveryBatch \in Nat \ {0}

\* What config.Load enforces.
ASSUME ConfiguredDurations ==
  /\ Work \in Nat \ {0} /\ Hard \in Nat /\ Stale \in Nat
  /\ Stale > Hard /\ Hard > Work

\* What the deployment has to add: the time between the two durations has
\* room for a slow start, a slow last call and the skew of the clocks.
ASSUME SlackAssumption ==
  /\ Skew \in [Workers -> Int]
  /\ {StartTime, ReplyTime, GiveUpTime, RecoverTime, Lag, MaxFaults, MaxTime} \subseteq Nat
  /\ \A w \in Workers :
       Stale > StartTime + ReplyTime + Hard + Lag + GiveUpTime + Skew[w]
  /\ RecoverTime + Lag <= Stale \div 2

VARIABLES
  clock,    \* PostgreSQL's
  row,      \* status and started_at of every submission
  worker,   \* what consumeLoop and processOne are doing
  ticker,   \* recoveryLoop: when it ticks next
  listed,   \* recoveryLoop: ids of the last query not yet revisited
  faults,   \* faults so far
  setback   \* when a worker's recoveryLoop last started or failed

vars == <<clock, row, worker, ticker, listed, faults, setback>>

Rows == INSTANCE Lifecycle WITH status <- [s \in Submissions |-> row[s].status]

Idle == [at |-> "idle"]
NeverStarted == 0

\* Mutant: the ticker is as slow as the limit itself.
RecoveryPeriodWhole == Stale

RecoveryPeriod == Stale \div 2

\* So many rounds list every row that can be running.
RecoveryRounds == (MaxActive + RecoveryBatch - 1) \div RecoveryBatch

Init ==
  /\ clock = 0
  /\ row = [s \in Submissions |-> [status |-> "none", started |-> NeverStarted]]
  /\ worker = [w \in Workers |-> Idle]
  /\ ticker \in [Workers -> 1..RecoveryPeriod]
  /\ listed = [w \in Workers |-> {}]
  /\ faults = 0
  /\ setback = [w \in Workers |-> 0]

\* A worker that owns a running row, or may still write to it.
Attempts(w) == worker[w].at \in {"started", "working", "giving_up"}

Fault == faults < MaxFaults /\ faults' = faults + 1

-----------------------------------------------------------------------------
Submit(s) ==
  /\ row[s].status = "none"
  /\ Cardinality(Rows!Active) < MaxActive
  /\ Cardinality(Rows!QueuedOf(Owner[s])) < MaxQueued
  /\ row' = [row EXCEPT ![s].status = "queued"]
  /\ UNCHANGED <<clock, worker, ticker, listed, faults, setback>>

\* An entry arrives and TryStartSubmission opens its transaction.
BeginStart(w, s) ==
  /\ worker[w] = Idle /\ row[s].status # "none"
  /\ worker' = [worker EXCEPT ![w] =
       [at |-> "starting", job |-> s, begun |-> clock, until |-> clock + StartTime]]
  /\ UNCHANGED <<clock, row, ticker, listed, faults, setback>>

Startable(s) ==
  /\ row[s].status = "queued"
  /\ Cardinality(Rows!RunningOf(Owner[s])) < MaxRunning

\* NOW() is the start of the transaction.
MarkStarted(w) ==
  [row EXCEPT ![worker[w].job] = [status |-> "mock_processing", started |-> worker[w].begun]]

TryStartSubmission(w) ==
  /\ worker[w].at = "starting"
  /\ \/ /\ Startable(worker[w].job)
        /\ row' = MarkStarted(w)
        /\ worker' = [worker EXCEPT ![w] =
             [at |-> "started", job |-> worker[w].job, begun |-> worker[w].begun,
              until |-> clock + ReplyTime]]
     \/ /\ ~Startable(worker[w].job)
        /\ worker' = [worker EXCEPT ![w] = Idle]
        /\ UNCHANGED row
  /\ UNCHANGED <<clock, ticker, listed, faults, setback>>

\* An error is returned, although the transaction may have committed.
TryStartFails(w) ==
  /\ Fault /\ worker[w].at = "starting"
  /\ worker' = [worker EXCEPT ![w] = Idle]
  /\ \/ Startable(worker[w].job) /\ row' = MarkStarted(w)
     \/ UNCHANGED row
  /\ UNCHANGED <<clock, ticker, listed, setback>>

\* Mutant: the context of the work lives as long as the stale limit.
StartWorkUnhurried(w) ==
  /\ worker[w].at = "started"
  /\ worker' = [worker EXCEPT ![w] =
       [at |-> "working", job |-> worker[w].job, begun |-> worker[w].begun,
        ready |-> clock + Work, deadline |-> clock + Stale, until |-> clock + Stale + Lag]]
  /\ UNCHANGED <<clock, row, ticker, listed, faults, setback>>

\* context.WithTimeout and time.After, once the reply is there.
StartWork(w) ==
  /\ worker[w].at = "started"
  /\ worker' = [worker EXCEPT ![w] =
       [at |-> "working", job |-> worker[w].job, begun |-> worker[w].begun,
        ready |-> clock + Work, deadline |-> clock + Hard, until |-> clock + Hard + Lag]]
  /\ UNCHANGED <<clock, row, ticker, listed, faults, setback>>

Finished(s) ==
  IF row[s].status = "mock_processing"
  THEN [row EXCEPT ![s].status = "finished"] ELSE row

\* The UPDATE runs under the context of the work, so before its deadline.
FinishSubmissionConditional(w) ==
  /\ worker[w].at = "working"
  /\ worker[w].ready <= clock /\ clock <= worker[w].deadline
  /\ row' = Finished(worker[w].job)
  /\ worker' = [worker EXCEPT ![w] = Idle]
  /\ UNCHANGED <<clock, ticker, listed, faults, setback>>

\* It fails, or the deadline comes first, and the row keeps running alone.
FinishFails(w) ==
  /\ Fault /\ worker[w].at = "working" /\ worker[w].ready <= clock
  /\ row' \in {row, Finished(worker[w].job)}
  /\ worker' = [worker EXCEPT ![w] = Idle]
  /\ UNCHANGED <<clock, ticker, listed, setback>>

\* ctx.Done(): the deadline passed while the work was late, or SIGTERM.
StopWork(w) ==
  /\ worker[w].at = "working"
  /\ \/ clock >= worker[w].deadline /\ UNCHANGED faults
     \/ Fault
  /\ worker' = [worker EXCEPT ![w] =
       [at |-> "giving_up", job |-> worker[w].job, begun |-> worker[w].begun,
        until |-> clock + GiveUpTime]]
  /\ UNCHANGED <<clock, row, ticker, listed, setback>>

\* Runs under context.Background(); its error is ignored.
SetInternalError(w) ==
  /\ worker[w].at = "giving_up"
  /\ \/ /\ row' = IF worker[w].job \in Rows!Active
                  THEN [row EXCEPT ![worker[w].job].status = "internal_error"] ELSE row
        /\ UNCHANGED faults
     \/ Fault /\ UNCHANGED row
  /\ worker' = [worker EXCEPT ![w] = Idle]
  /\ UNCHANGED <<clock, ticker, listed, setback>>

-----------------------------------------------------------------------------
\* Mutant: only the age is looked at.
IsStaleByAge(w, s) ==
  row[s].started # NeverStarted /\ row[s].started <= clock + Skew[w] - Stale

\* started_at <= time.Now().Add(-cfg.WorkerStaleAfter), by w's clock.
IsStale(w, s) ==
  /\ row[s].status = "mock_processing"
  /\ row[s].started <= clock + Skew[w] - Stale

StaleBy(w) == {s \in Submissions : IsStale(w, s)}

\* ORDER BY started_at LIMIT: all the stale rows, or as many of the oldest.
OldestStale(w, batch) ==
  /\ batch \subseteq StaleBy(w)
  /\ Cardinality(batch) <= RecoveryBatch
  /\ batch = StaleBy(w) \/ Cardinality(batch) = RecoveryBatch
  /\ \A s \in batch, u \in StaleBy(w) \ batch : row[s].started <= row[u].started

\* The ticker fires and the query answers.
ListStaleProcessing(w) ==
  /\ ticker[w] <= clock /\ listed[w] = {}
  /\ \E batch \in SUBSET Submissions :
       /\ OldestStale(w, batch)
       /\ listed' = [listed EXCEPT ![w] = batch]
  /\ ticker' = [ticker EXCEPT ![w] = @ + RecoveryPeriod]
  /\ UNCHANGED <<clock, row, worker, faults, setback>>

\* Mutant: what was stale in the list is taken to be stale still.
RecoverFromList(w, s) ==
  /\ s \in listed[w]
  /\ listed' = [listed EXCEPT ![w] = @ \ {s}]
  /\ row' = IF row[s].status = "mock_processing"
            THEN [row EXCEPT ![s] = [status |-> "queued", started |-> NeverStarted]] ELSE row
  /\ UNCHANGED <<clock, worker, ticker, faults, setback>>

\* The condition is evaluated again, with the time of the call.
RecoverStaleSubmission(w, s) ==
  /\ s \in listed[w]
  /\ listed' = [listed EXCEPT ![w] = @ \ {s}]
  /\ row' = IF IsStale(w, s)
            THEN [row EXCEPT ![s] = [status |-> "queued", started |-> NeverStarted]] ELSE row
  /\ UNCHANGED <<clock, worker, ticker, faults, setback>>

\* One of the calls fails; the next tick tries again.
RecoverFails(w) ==
  /\ Fault
  /\ \/ /\ ticker[w] <= clock /\ listed[w] = {}
        /\ ticker' = [ticker EXCEPT ![w] = @ + RecoveryPeriod]
        /\ UNCHANGED listed
     \/ /\ \E s \in listed[w] : listed' = [listed EXCEPT ![w] = @ \ {s}]
        /\ UNCHANGED ticker
  /\ setback' = [setback EXCEPT ![w] = clock]
  /\ UNCHANGED <<clock, row, worker>>

\* The process dies and is started again; its ticker begins anew.
Crash(w) ==
  /\ Fault
  /\ worker' = [worker EXCEPT ![w] = Idle]
  /\ listed' = [listed EXCEPT ![w] = {}]
  /\ ticker' = [ticker EXCEPT ![w] = clock + RecoveryPeriod]
  /\ setback' = [setback EXCEPT ![w] = clock]
  /\ UNCHANGED <<clock, row>>

\* Time passes, but nobody is later than the bounds allow.
Tick ==
  /\ clock < MaxTime
  /\ \A w \in Workers :
       /\ worker[w] # Idle => clock < worker[w].until
       /\ clock < ticker[w] + Lag
       /\ listed[w] # {} => clock < ticker[w] - RecoveryPeriod + Lag + RecoverTime
  /\ clock' = clock + 1
  /\ UNCHANGED <<row, worker, ticker, listed, faults, setback>>

Next ==
  \/ \E s \in Submissions : Submit(s)
  \/ \E w \in Workers :
       \/ \E s \in Submissions : BeginStart(w, s) \/ RecoverStaleSubmission(w, s)
       \/ TryStartSubmission(w) \/ TryStartFails(w)
       \/ StartWork(w) \/ FinishSubmissionConditional(w) \/ FinishFails(w)
       \/ StopWork(w) \/ SetInternalError(w)
       \/ ListStaleProcessing(w) \/ RecoverFails(w)
       \/ Crash(w)
  \/ Tick

Spec == Init /\ [][Next]_vars

-----------------------------------------------------------------------------
(* Properties.                                                             *)

(***************************************************************************)
(* An attempt is not taken away (recoveryLoop against processOne): as long *)
(* as a worker may still write the outcome of its attempt, the row is      *)
(* running that very attempt and no other worker is at it, so a late       *)
(* SetInternalError hits nobody else's.                                    *)
(***************************************************************************)
AttemptNotStolen ==
  \A w \in Workers : Attempts(w) =>
    /\ row[worker[w].job].status = "mock_processing"
    /\ row[worker[w].job].started = worker[w].begun
    /\ \A v \in Workers \ {w} : Attempts(v) => worker[v].job # worker[w].job

(***************************************************************************)
(* What Delivery assumes of time (Abandoned): by no worker's clock does a  *)
(* row go stale while somebody is at it, although started_at is older than *)
(* the hard timeout's start and giving up outlives its end.                *)
(***************************************************************************)
NotStaleInHand ==
  \A w, v \in Workers : Attempts(w) => ~IsStale(v, worker[w].job)

(***************************************************************************)
(* Abandoned attempts come back in time (recoveryLoop): a running row that *)
(* nobody works on is requeued once it is stale within half a stale limit  *)
(* for each round that the rows ahead of it can fill, and the length of a  *)
(* round, by whichever worker looks; for one that was just restarted, or   *)
(* whose round failed, the time counts from there.                         *)
(***************************************************************************)
RecoveredInTime ==
  \A s \in Submissions :
    row[s].status = "mock_processing" /\ (\A w \in Workers : Attempts(w) => worker[w].job # s)
      => \A w \in Workers :
           LET from == row[s].started + Stale - Skew[w] IN
           clock <= (IF setback[w] > from THEN setback[w] ELSE from)
                    + (Stale \div 2) * RecoveryRounds + Lag + RecoverTime

(***************************************************************************)
(* The measured attempts still move rows only as PostgreSQL promises       *)
(* (TryStartSubmission, FinishSubmissionConditional, SetInternalError,     *)
(* RecoverStaleSubmission): a refinement of the row life cycle.            *)
(***************************************************************************)
FollowsLifecycle == Rows!LifecycleSpec
=============================================================================
