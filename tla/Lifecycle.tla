----------------------------- MODULE Lifecycle -----------------------------
(***************************************************************************)
(* What PostgreSQL promises about a submission, independently of how the   *)
(* work reaches a worker: the life of a row of table "submissions" and the *)
(* three limits that are enforced against it.  The detailed modules        *)
(* (Delivery, Transactions) extend this one and are shown to implement     *)
(* LifecycleSpec.                                                          *)
(***************************************************************************)
EXTENDS Naturals, FiniteSets

CONSTANTS
  Submissions,   \* the submission ids the API may issue (uuid.New)
  Participants,  \* participant ids
  Owner,         \* submissions.participant_id: written once, never updated
  MaxActive,     \* cfg.QueueMaxDepth
  MaxQueued,     \* cfg.MaxQueuedPerParticipant
  MaxRunning     \* cfg.MaxRunningPerParticipant

\* A row is created once, so its owner can be fixed beforehand.  config.Load
\* refuses to start unless the three limits are positive (config.go:114).
ASSUME LifecycleAssumption ==
  /\ IsFiniteSet(Submissions)
  /\ Owner \in [Submissions -> Participants]
  /\ MaxActive \in Nat \ {0}
  /\ MaxQueued \in Nat \ {0}
  /\ MaxRunning \in Nat \ {0}

VARIABLE status  \* submissions.status of every id; "none" before its INSERT

\* The CHECK constraint of the column, and the absence of the row.
Status == {"none", "queued", "mock_processing", "finished", "internal_error"}
Terminal == {"finished", "internal_error"}

\* The row sets the SQL COUNT(*) queries range over.
Active == {s \in Submissions : status[s] \in {"queued", "mock_processing"}}
QueuedOf(p) == {s \in Submissions : Owner[s] = p /\ status[s] = "queued"}
RunningOf(p) == {s \in Submissions : Owner[s] = p /\ status[s] = "mock_processing"}
ActiveOf(p) == QueuedOf(p) \cup RunningOf(p)

-----------------------------------------------------------------------------
LifecycleInit == status = [s \in Submissions |-> "none"]

\* A submission is accepted only below the global limit, and only while its
\* owner has fewer than MaxQueued + MaxRunning active rows.  (The code checks
\* queued < MaxQueued, but against a count that a concurrent recovery may
\* have outdated by the time of the COMMIT.)
Accept(s) ==
  /\ status[s] = "none"
  /\ Cardinality(Active) < MaxActive
  /\ Cardinality(ActiveOf(Owner[s])) < MaxQueued + MaxRunning
  /\ status' = [status EXCEPT ![s] = "queued"]

\* An attempt begins only below the owner's running limit.
Begin(s) ==
  /\ status[s] = "queued"
  /\ Cardinality(RunningOf(Owner[s])) < MaxRunning
  /\ status' = [status EXCEPT ![s] = "mock_processing"]

\* A result is recorded only for a running submission.
Complete(s) ==
  /\ status[s] = "mock_processing"
  /\ status' = [status EXCEPT ![s] = "finished"]

\* A submission may be given up while it is queued or running.
GiveUp(s) ==
  /\ s \in Active
  /\ status' = [status EXCEPT ![s] = "internal_error"]

\* A running submission may go back to the queue; no limit is consulted.
Requeue(s) ==
  /\ status[s] = "mock_processing"
  /\ status' = [status EXCEPT ![s] = "queued"]

LifecycleNext ==
  \E s \in Submissions :
    Accept(s) \/ Begin(s) \/ Complete(s) \/ GiveUp(s) \/ Requeue(s)

LifecycleSpec == LifecycleInit /\ [][LifecycleNext]_status

-----------------------------------------------------------------------------
LifecycleTypeOK == status \in [Submissions -> Status]

(***************************************************************************)
(* Running quota (TryStartSubmission): a participant never has more than   *)
(* MaxRunning rows in mock_processing, whichever workers start them.       *)
(***************************************************************************)
RunningQuota ==
  \A p \in Participants : Cardinality(RunningOf(p)) <= MaxRunning

(***************************************************************************)
(* Global capacity (CreateSubmissionQueued): recovery and retries never    *)
(* push the number of active rows above MaxActive.                         *)
(***************************************************************************)
GlobalCapacity == Cardinality(Active) <= MaxActive

(***************************************************************************)
(* What the queued limit really guarantees.  RecoverStaleSubmission moves  *)
(* rows back to queued without consulting MaxQueued, so a participant's    *)
(* active rows, not its queued rows, are what stays bounded.               *)
(***************************************************************************)
ParticipantBound ==
  \A p \in Participants : Cardinality(ActiveOf(p)) <= MaxQueued + MaxRunning
=============================================================================
