------------------------------ MODULE Delivery ------------------------------
(***************************************************************************)
(* How an accepted submission reaches a worker and comes back with a       *)
(* result.  PostgreSQL holds the rows and the transactional outbox; Redis  *)
(* holds one stream with one consumer group; every mock-worker process     *)
(* runs three loops over them: outboxLoop, consumeLoop and recoveryLoop.   *)
(* Each SQL statement, transaction and Redis command is one atomic step;   *)
(* module Transactions justifies this for the multi-statement              *)
(* transactions.  Time appears only as the passing of WORKER_STALE_AFTER   *)
(* for a row or a pending entry and of available_at for an outbox event.   *)
(***************************************************************************)
EXTENDS Lifecycle

CONSTANTS
  Workers,        \* mock-worker processes, one stream consumer each
  RecoveryBatch,  \* the LIMIT of ListStaleProcessing
  MaxFaults,      \* bound: crashes, failed calls and lost replies
  MaxStalls       \* bound: attempts suspended for WORKER_STALE_AFTER

\* Payloads no dispatcher writes: a record without the two fields, and one
\* that names no row.
Junk == {"malformed", "unknown"}

ASSUME DeliveryAssumption ==
  /\ Submissions \cap Junk = {}
  /\ RecoveryBatch \in Nat \ {0}
  /\ MaxFaults \in Nat
  /\ MaxStalls \in Nat

VARIABLES
  stale,     \* rows in mock_processing with started_at <= now - StaleAfter
  outbox,    \* submission_outbox rows with delivered_at IS NULL
  delayed,   \* those of them with available_at in the future
  eventSeq,  \* the BIGSERIAL of submission_outbox
  unread,    \* stream entries after the group's last-delivered id
  pel,       \* the group's pending entries list
  idle,      \* pending entries idle for WORKER_STALE_AFTER or longer
  entrySeq,  \* the last stream entry id
  sending,   \* worker -> outbox row its dispatch transaction has locked
  sent,      \* workers whose XADD for that row succeeded
  pc, job,   \* worker -> step of consumeLoop/processOne, and its JobItem
  listed,    \* worker -> ids its recoveryLoop still has to visit
  faults, stalls

rowVars == <<status, stale>>
outboxVars == <<outbox, delayed, eventSeq>>
streamVars == <<unread, pel, idle, entrySeq>>
consumerVars == <<pc, job>>
dispatchVars == <<sending, sent>>
budget == <<faults, stalls>>
vars == <<rowVars, outboxVars, streamVars, consumerVars, dispatchVars, listed, budget>>

\* Ids start at 1, so this is neither an outbox row nor a stream entry.
None == [id |-> 0, sub |-> "unknown"]
Event == [id : Nat \ {0}, sub : Submissions]
Entry == [id : Nat \ {0}, sub : Submissions \cup Junk]
PCs == {"idle", "read", "claimed", "working", "ack"}

Init ==
  /\ LifecycleInit
  /\ stale = {}
  /\ outbox = {} /\ delayed = {} /\ eventSeq = 0
  /\ unread = {} /\ pel = {} /\ idle = {} /\ entrySeq = 0
  /\ sending = [w \in Workers |-> None] /\ sent = {}
  /\ pc = [w \in Workers |-> "idle"] /\ job = [w \in Workers |-> None]
  /\ listed = [w \in Workers |-> {}]
  /\ faults = 0 /\ stalls = 0

\* The row or entry a query ordered by id returns first.
IsFirst(x, S) == x \in S /\ \A y \in S : x.id <= y.id

Fault == faults < MaxFaults /\ faults' = faults + 1 /\ UNCHANGED stalls
Stall == stalls < MaxStalls /\ stalls' = stalls + 1 /\ UNCHANGED faults

-----------------------------------------------------------------------------
(* PostgreSQL transactions.                                                *)

\* INSERT INTO submission_outbox: available at once.
InsertOutbox(s) ==
  /\ eventSeq' = eventSeq + 1
  /\ outbox' = outbox \cup {[id |-> eventSeq + 1, sub |-> s]}
  /\ UNCHANGED delayed

\* The API's transaction: limits, row and enqueue event, all or nothing.  A
\* refused request leaves no trace in these variables.
CreateSubmissionQueued(s) ==
  /\ status[s] = "none"
  /\ Cardinality(Active) < MaxActive
  /\ Cardinality(QueuedOf(Owner[s])) < MaxQueued
  /\ status' = [status EXCEPT ![s] = "queued"]
  /\ InsertOutbox(s)
  /\ UNCHANGED <<stale, streamVars, consumerVars, dispatchVars, listed, budget>>

\* Mutant: the status condition is left out.
StartRowUnconditional(s) ==
  /\ s \in Active
  /\ Cardinality(RunningOf(Owner[s])) <= MaxRunning
  /\ status' = [status EXCEPT ![s] = "mock_processing"]
  /\ UNCHANGED stale

\* The conditional UPDATE that starts an attempt, after the quota check.
StartRow(s) ==
  /\ status[s] = "queued"
  /\ Cardinality(RunningOf(Owner[s])) < MaxRunning
  /\ status' = [status EXCEPT ![s] = "mock_processing"]
  /\ UNCHANGED stale

\* Mutant: a finished row keeps looking stale to the recovery query.
FinishRowStillStale(s) ==
  /\ status[s] = "mock_processing"
  /\ status' = [status EXCEPT ![s] = "finished"]
  /\ UNCHANGED stale

\* UPDATE ... status='finished' WHERE status='mock_processing'.
FinishRow(s) ==
  /\ status[s] = "mock_processing"
  /\ status' = [status EXCEPT ![s] = "finished"]
  /\ stale' = stale \ {s}

\* UPDATE ... 'internal_error' WHERE status IN ('queued','mock_processing').
SetInternalError(s) ==
  IF s \in Active
  THEN /\ status' = [status EXCEPT ![s] = "internal_error"]
       /\ stale' = stale \ {s}
  ELSE UNCHANGED rowVars

-----------------------------------------------------------------------------
(* outboxLoop: one ProcessNextOutbox transaction at a time per worker.     *)

\* Mutant: the SELECT does not lock what it returns.
LockNextOutboxShared(w) ==
  /\ sending[w] = None
  /\ \E e \in outbox : IsFirst(e, outbox \ delayed) /\ sending' = [sending EXCEPT ![w] = e]
  /\ UNCHANGED <<rowVars, outboxVars, streamVars, consumerVars, sent, listed, budget>>

\* SELECT ... ORDER BY id FOR UPDATE SKIP LOCKED LIMIT 1.
LockNextOutbox(w) ==
  /\ sending[w] = None
  /\ \E e \in outbox :
       /\ IsFirst(e, {f \in outbox \ delayed : \A v \in Workers : sending[v] # f})
       /\ sending' = [sending EXCEPT ![w] = e]
  /\ UNCHANGED <<rowVars, outboxVars, streamVars, consumerVars, sent, listed, budget>>

\* XADD by whoever writes to the stream.
AddEntry(x) ==
  /\ entrySeq' = entrySeq + 1
  /\ unread' = unread \cup {[id |-> entrySeq + 1, sub |-> x]}
  /\ UNCHANGED <<pel, idle>>

Enqueue(w) ==
  /\ sending[w] # None /\ w \notin sent
  /\ AddEntry(sending[w].sub)
  /\ sent' = sent \cup {w}
  /\ UNCHANGED <<rowVars, outboxVars, consumerVars, sending, listed, budget>>

EndDispatch(w) ==
  /\ sending' = [sending EXCEPT ![w] = None]
  /\ sent' = sent \ {w}

\* XADD returned an error, executed or not: back off, keep the event.
EnqueueFails(w) ==
  /\ Fault
  /\ sending[w] # None /\ w \notin sent
  /\ AddEntry(sending[w].sub) \/ UNCHANGED streamVars
  /\ delayed' = delayed \cup {sending[w]}
  /\ EndDispatch(w)
  /\ UNCHANGED <<rowVars, outbox, eventSeq, consumerVars, listed>>

MarkDelivered(w) ==
  /\ w \in sent
  /\ outbox' = outbox \ {sending[w]}
  /\ EndDispatch(w)
  /\ UNCHANGED <<rowVars, delayed, eventSeq, streamVars, consumerVars, listed, budget>>

\* An UPDATE or the COMMIT failed: the event is untouched and unlocked.
DispatchRollback(w) ==
  /\ Fault
  /\ sending[w] # None
  /\ EndDispatch(w)
  /\ UNCHANGED <<rowVars, outboxVars, streamVars, consumerVars, listed>>

-----------------------------------------------------------------------------
(* consumeLoop: ClaimStale, else Claim, then processOne.                   *)

Goto(w, step, m) ==
  /\ pc' = [pc EXCEPT ![w] = step]
  /\ job' = [job EXCEPT ![w] = m]

\* parseOrDiscard: a malformed record is acknowledged instead of returned.
Received(w, m) == Goto(w, IF m.sub = "malformed" THEN "ack" ELSE "claimed", m)

\* processOne returned, or the loop iteration ended.
Drop(w) == Goto(w, "idle", None)

\* XAUTOCLAIM 0-0 COUNT 1: the first idle pending entry, its idle time reset.
AutoClaim(m) ==
  /\ IsFirst(m, idle)
  /\ idle' = idle \ {m}
  /\ UNCHANGED <<unread, pel, entrySeq>>

\* XREADGROUP > COUNT 1: the first unread entry becomes pending.
ReadGroup(m) ==
  /\ IsFirst(m, unread)
  /\ unread' = unread \ {m}
  /\ pel' = pel \cup {m}
  /\ UNCHANGED <<idle, entrySeq>>

\* Mutant: pending entries are never reclaimed.
ClaimStaleNever(w) ==
  /\ pc[w] = "idle"
  /\ Goto(w, "read", None)
  /\ UNCHANGED <<rowVars, outboxVars, streamVars, dispatchVars, listed, budget>>

ClaimStale(w) ==
  /\ pc[w] = "idle"
  /\ \/ \E m \in idle : AutoClaim(m) /\ Received(w, m)
     \/ idle = {} /\ Goto(w, "read", None) /\ UNCHANGED streamVars
  /\ UNCHANGED <<rowVars, outboxVars, dispatchVars, listed, budget>>

Claim(w) ==
  /\ pc[w] = "read"
  /\ \/ \E m \in unread : ReadGroup(m) /\ Received(w, m)
     \/ unread = {} /\ Drop(w) /\ UNCHANGED streamVars
  /\ UNCHANGED <<rowVars, outboxVars, dispatchVars, listed, budget>>

\* Redis executed the command, the worker saw an error.
ClaimReplyLost(w) ==
  /\ Fault
  /\ \/ pc[w] = "idle" /\ \E m \in idle : AutoClaim(m)
     \/ pc[w] = "read" /\ \E m \in unread : ReadGroup(m)
  /\ Drop(w)
  /\ UNCHANGED <<rowVars, outboxVars, dispatchVars, listed>>

\* Mutant: a duplicate is dropped without acknowledging it.
TryStartKeepsDuplicate(w) ==
  LET s == job[w].sub IN
  /\ pc[w] = "claimed"
  /\ \/ /\ s \in Submissions => status[s] # "queued" \/ Cardinality(RunningOf(Owner[s])) >= MaxRunning
        /\ Drop(w)
        /\ UNCHANGED rowVars
     \/ s \in Submissions /\ StartRow(s) /\ Goto(w, "working", job[w])
  /\ UNCHANGED <<outboxVars, streamVars, dispatchVars, listed, budget>>

\* StartNotFound and StartDuplicateOrTerminal lead to Ack, StartQuotaBusy
\* leaves the entry pending, StartStarted begins the mock work.
TryStartSubmission(w) ==
  LET s == job[w].sub IN
  /\ pc[w] = "claimed"
  /\ \/ /\ s \in Submissions => status[s] # "queued"
        /\ Goto(w, "ack", job[w])
        /\ UNCHANGED rowVars
     \/ /\ s \in Submissions /\ status[s] = "queued"
        /\ Cardinality(RunningOf(Owner[s])) >= MaxRunning
        /\ Drop(w)
        /\ UNCHANGED rowVars
     \/ /\ s \in Submissions
        /\ StartRow(s)
        /\ Goto(w, "working", job[w])
  /\ UNCHANGED <<outboxVars, streamVars, dispatchVars, listed, budget>>

\* An error from the transaction; its COMMIT may have taken effect.
TryStartFails(w) ==
  /\ Fault
  /\ pc[w] = "claimed"
  /\ \/ job[w].sub \in Submissions /\ StartRow(job[w].sub)
     \/ UNCHANGED rowVars
  /\ Drop(w)
  /\ UNCHANGED <<outboxVars, streamVars, dispatchVars, listed>>

\* The work is done.  Only a worker whose UPDATE hit a row acknowledges.
FinishSubmissionConditional(w) ==
  LET s == job[w].sub IN
  /\ pc[w] = "working"
  /\ \/ FinishRow(s) /\ Goto(w, "ack", job[w])
     \/ status[s] # "mock_processing" /\ Drop(w) /\ UNCHANGED rowVars
  /\ UNCHANGED <<outboxVars, streamVars, dispatchVars, listed, budget>>

\* An error from that UPDATE, executed or not.
FinishFails(w) ==
  /\ Fault
  /\ pc[w] = "working"
  /\ FinishRow(job[w].sub) \/ UNCHANGED rowVars
  /\ Drop(w)
  /\ UNCHANGED <<outboxVars, streamVars, dispatchVars, listed>>

\* ctx.Done() won the select: WORKER_HARD_TIMEOUT passed.  The result of
\* SetInternalError is ignored and the entry is acknowledged either way.
HardTimeout(w) ==
  /\ Fault
  /\ pc[w] = "working"
  /\ SetInternalError(job[w].sub) \/ UNCHANGED rowVars
  /\ Goto(w, "ack", job[w])
  /\ UNCHANGED <<outboxVars, streamVars, dispatchVars, listed>>

\* Ack is XACK, which takes the entry off the pending list, and then XDEL,
\* which takes it off the stream.  Acknowledging twice is harmless.
XAck(m) ==
  /\ pel' = pel \ {m}
  /\ idle' = idle \ {m}
  /\ unread' = unread \ {m}
  /\ UNCHANGED entrySeq

Ack(w) ==
  /\ pc[w] = "ack"
  /\ XAck(job[w])
  /\ Drop(w)
  /\ UNCHANGED <<rowVars, outboxVars, dispatchVars, listed, budget>>

\* XACK failed before it took effect: logged and forgotten.  (A failed XDEL alone
\* is an Ack for every other reader of the stream.)
AckFails(w) ==
  /\ Fault
  /\ pc[w] = "ack"
  /\ UNCHANGED streamVars
  /\ Drop(w)
  /\ UNCHANGED <<rowVars, outboxVars, dispatchVars, listed>>

-----------------------------------------------------------------------------
(* recoveryLoop: list the stale rows, then revisit them one by one.        *)

ListStaleProcessing(w) ==
  /\ listed[w] = {}
  /\ \E ids \in SUBSET stale :
       /\ ids # {}
       /\ Cardinality(ids) <= RecoveryBatch
       /\ ids = stale \/ Cardinality(ids) = RecoveryBatch
       /\ listed' = [listed EXCEPT ![w] = ids]
  /\ UNCHANGED <<rowVars, outboxVars, streamVars, consumerVars, dispatchVars, budget>>

\* Mutants: the row goes back without an event; the row is not looked at
\* again after it was listed.
RecoverWithoutEvent(w, s) ==
  /\ s \in listed[w]
  /\ listed' = [listed EXCEPT ![w] = @ \ {s}]
  /\ \/ /\ s \in stale
        /\ status' = [status EXCEPT ![s] = "queued"]
        /\ stale' = stale \ {s}
     \/ s \notin stale /\ UNCHANGED rowVars
  /\ UNCHANGED <<outboxVars, streamVars, consumerVars, dispatchVars, budget>>

RecoverUnchecked(w, s) ==
  /\ s \in listed[w]
  /\ listed' = [listed EXCEPT ![w] = @ \ {s}]
  /\ status' = [status EXCEPT ![s] = "queued"]
  /\ stale' = stale \ {s}
  /\ InsertOutbox(s)
  /\ UNCHANGED <<streamVars, consumerVars, dispatchVars, budget>>

\* One transaction: the conditional UPDATE and, if it hit, a new event.
RecoverStaleSubmission(w, s) ==
  /\ s \in listed[w]
  /\ listed' = [listed EXCEPT ![w] = @ \ {s}]
  /\ \/ /\ s \in stale
        /\ status' = [status EXCEPT ![s] = "queued"]
        /\ stale' = stale \ {s}
        /\ InsertOutbox(s)
     \/ s \notin stale /\ UNCHANGED <<rowVars, outboxVars>>
  /\ UNCHANGED <<streamVars, consumerVars, dispatchVars, budget>>

\* The transaction failed and was rolled back: logged, next id.
RecoverFails(w, s) ==
  /\ Fault
  /\ s \in listed[w]
  /\ listed' = [listed EXCEPT ![w] = @ \ {s}]
  /\ UNCHANGED <<rowVars, outboxVars, streamVars, consumerVars, dispatchVars>>

-----------------------------------------------------------------------------
(* Time and the environment.                                               *)

Attempting(s) == \E w \in Workers : pc[w] = "working" /\ job[w].sub = s

\* config.Load requires StaleAfter > HardTimeout > MockWorkDuration, so a
\* row ages past StaleAfter only when nobody works on it ...
RowAges(s) ==
  /\ status[s] = "mock_processing" /\ s \notin stale
  /\ stale' = stale \cup {s}
  /\ UNCHANGED <<status, outboxVars, streamVars, consumerVars, dispatchVars, listed>>

\* Mutant: durations that are not ordered; a healthy attempt looks stale.
AbandonedUnordered(s) == RowAges(s) /\ UNCHANGED budget

Abandoned(s) == ~Attempting(s) /\ RowAges(s) /\ UNCHANGED budget

\* ... or when its worker is suspended for that long and still goes on.
AttemptStalls(s) == Attempting(s) /\ RowAges(s) /\ Stall

\* WORKER_STALE_AFTER passes since the entry was last delivered; Redis does
\* not know whether the consumer that holds it is still busy with it.
EntryIdles(x) ==
  /\ \E m \in pel \ idle : m.sub = x /\ idle' = idle \cup {m}
  /\ UNCHANGED <<unread, pel, entrySeq>>
  /\ UNCHANGED <<rowVars, outboxVars, consumerVars, dispatchVars, listed, budget>>

\* available_at is reached.
BackoffEnds(s) ==
  /\ \E e \in delayed : e.sub = s /\ delayed' = delayed \ {e}
  /\ UNCHANGED <<rowVars, outbox, eventSeq, streamVars, consumerVars, dispatchVars, listed, budget>>

\* Something else writes a record to the stream.
ForeignEntry(x) ==
  /\ Fault
  /\ AddEntry(x)
  /\ UNCHANGED <<rowVars, outboxVars, consumerVars, dispatchVars, listed>>

\* The process dies and is restarted: open transactions are rolled back and
\* EnsureConsumerGroup finds the group in place.
Crash(w) ==
  /\ Fault
  /\ Drop(w)
  /\ EndDispatch(w)
  /\ listed' = [listed EXCEPT ![w] = {}]
  /\ UNCHANGED <<rowVars, outboxVars, streamVars>>

\* SIGTERM cancels the context of all three loops.  A worker that is inside
\* the mock work takes the ctx.Done() branch; it alone outlives the signal.
Shutdown(w) ==
  /\ Fault
  /\ pc[w] = "working"
  /\ SetInternalError(job[w].sub) \/ UNCHANGED rowVars
  /\ Goto(w, "ack", job[w])
  /\ EndDispatch(w)
  /\ listed' = [listed EXCEPT ![w] = {}]
  /\ UNCHANGED <<outboxVars, streamVars>>

-----------------------------------------------------------------------------
outboxLoop(w) == LockNextOutbox(w) \/ Enqueue(w) \/ MarkDelivered(w)
consumeLoop(w) ==
  \/ ClaimStale(w) \/ Claim(w) \/ TryStartSubmission(w)
  \/ FinishSubmissionConditional(w) \/ Ack(w)
recoveryLoop(w) ==
  ListStaleProcessing(w) \/ \E s \in Submissions : RecoverStaleSubmission(w, s)

WorkerFault(w) ==
  \/ EnqueueFails(w) \/ DispatchRollback(w)
  \/ ClaimReplyLost(w) \/ TryStartFails(w) \/ FinishFails(w) \/ HardTimeout(w)
  \/ AckFails(w) \/ Crash(w) \/ Shutdown(w)
  \/ \E s \in Submissions : RecoverFails(w, s)

Elapse ==
  \/ \E s \in Submissions : Abandoned(s) \/ AttemptStalls(s) \/ BackoffEnds(s)
  \/ \E x \in Submissions \cup Junk : EntryIdles(x)

Next ==
  \/ \E s \in Submissions : CreateSubmissionQueued(s)
  \/ \E w \in Workers :
       outboxLoop(w) \/ consumeLoop(w) \/ recoveryLoop(w) \/ WorkerFault(w)
  \/ Elapse
  \/ \E x \in Junk : ForeignEntry(x)

Spec == Init /\ [][Next]_vars

\* Every loop keeps running (compose restarts a worker) and time passes.
\* Nothing obliges a user to submit, or a fault or a stall to happen.
Fairness ==
  /\ \A w \in Workers :
       WF_vars(outboxLoop(w)) /\ WF_vars(consumeLoop(w)) /\ WF_vars(recoveryLoop(w))
  /\ \A s \in Submissions : WF_vars(Abandoned(s)) /\ WF_vars(BackoffEnds(s))
  /\ \A x \in Submissions \cup Junk : WF_vars(EntryIdles(x))

FairSpec == Spec /\ Fairness

-----------------------------------------------------------------------------
(* Properties.                                                             *)

\* Types, with the containments the queries and commands maintain.
TypeOK ==
  /\ LifecycleTypeOK
  /\ stale \subseteq {s \in Submissions : status[s] = "mock_processing"}
  /\ outbox \subseteq Event /\ delayed \subseteq outbox /\ eventSeq \in Nat
  /\ unread \subseteq Entry /\ pel \subseteq Entry
  /\ idle \subseteq pel /\ entrySeq \in Nat
  /\ sending \in [Workers -> Event \cup {None}] /\ sent \subseteq Workers
  /\ pc \in [Workers -> PCs] /\ job \in [Workers -> Entry \cup {None}]
  /\ listed \in [Workers -> SUBSET Submissions]
  /\ faults \in 0..MaxFaults /\ stalls \in 0..MaxStalls

(***************************************************************************)
(* No accepted submission is lost by the transport: a queued row always    *)
(* has an undelivered outbox event or a stream entry nobody has            *)
(* acknowledged, whatever crashes, fails, is duplicated or arrives late.   *)
(* A queued row without either would never run: recoveryLoop only looks at *)
(* mock_processing rows.                                                   *)
(***************************************************************************)
NoLostSubmission ==
  \A s \in Submissions :
    status[s] = "queued" =>
      (\E e \in outbox : e.sub = s) \/ (\E m \in unread \cup pel : m.sub = s)

(***************************************************************************)
(* Unless a worker is suspended for WORKER_STALE_AFTER in the middle of an *)
(* attempt, at most one worker at a time works on a submission, and what   *)
(* it is working on is still its own attempt: neither recoveryLoop nor a   *)
(* duplicate delivery has taken the row away.                              *)
(***************************************************************************)
ExclusiveAttempt ==
  stalls = 0 =>
    \A w \in Workers :
      pc[w] = "working" =>
        /\ status[job[w].sub] = "mock_processing"
        /\ \A v \in Workers \ {w} :
             pc[v] = "working" => job[v].sub # job[w].sub

(***************************************************************************)
(* SetInternalError also matches queued rows, but without such a stall no  *)
(* submission that is waiting for its turn is ever given up: a timeout or  *)
(* a shutdown only ends the attempt it belongs to.                         *)
(***************************************************************************)
QueuedNotGivenUp ==
  [][stalls = 0 =>
       \A s \in Submissions :
         status[s] = "queued" => status'[s] # "internal_error"]_vars

(***************************************************************************)
(* Why these hold, in inductive form.                                      *)
(***************************************************************************)

\* FOR UPDATE SKIP LOCKED: a dispatcher holds an undelivered, available event
\* that no other dispatcher holds.
RowLocks ==
  /\ \A w \in Workers : sending[w] # None => sending[w] \in outbox \ delayed
  /\ \A w, v \in Workers : sending[w] # None /\ sending[w] = sending[v] => w = v
  /\ \A w \in sent : sending[w] # None

\* Ids are never reused, so a new event or entry is nobody's.
FreshIds ==
  /\ \A e \in outbox : e.id <= eventSeq
  /\ \A w \in Workers : sending[w].id <= eventSeq /\ job[w].id <= entrySeq
  /\ \A m \in unread \cup pel : m.id <= entrySeq

\* An event that is not about to be marked delivered, or an entry every
\* holder of which has yet to call TryStartSubmission, and so cannot
\* acknowledge it before having looked at the row.
Deliverable(s) ==
  \/ \E e \in outbox : e.sub = s /\ \A w \in sent : sending[w] # e
  \/ \E m \in unread \cup pel :
       m.sub = s /\ \A w \in Workers : job[w] = m => pc[w] = "claimed"

\* An attempt is at a real row and, unless one stalled, at a row that is
\* running, fresh and not attempted by anyone else.
OwnAttempt(w) ==
  /\ job[w].sub \in Submissions
  /\ stalls = 0 =>
       /\ status[job[w].sub] = "mock_processing"
       /\ job[w].sub \notin stale
       /\ \A v \in Workers : pc[v] = "working" /\ job[v].sub = job[w].sub => v = w

(***************************************************************************)
(* The inductive invariant behind NoLostSubmission, ExclusiveAttempt and   *)
(* the refinement of Lifecycle: dispatchers exclude each other, ids are    *)
(* fresh, every queued row can still be delivered, every attempt is its    *)
(* worker's own.                                                           *)
(***************************************************************************)
DeliveryInv ==
  /\ RowLocks
  /\ FreshIds
  /\ \A s \in Submissions : status[s] = "queued" => Deliverable(s)
  /\ \A w \in Workers : pc[w] = "working" => OwnAttempt(w)

(***************************************************************************)
(* Every accepted submission is eventually finished or given up, although  *)
(* workers crash, calls fail, replies are lost and quotas are busy.        *)
(***************************************************************************)
EventuallyDecided ==
  \A s \in Submissions : status[s] = "queued" ~> status[s] \in Terminal

(***************************************************************************)
(* No stream entry stays pending for ever: also the ones dropped without   *)
(* an Ack (quota busy, lost attempt, failed call) are claimed again and    *)
(* acknowledged in the end.                                                *)
(***************************************************************************)
PendingDrains ==
  \A x \in Submissions \cup Junk :
    (\E m \in pel : m.sub = x) ~> ~(\E m \in pel \cup unread : m.sub = x)

=============================================================================
