---------------------------- MODULE Transactions ----------------------------
(***************************************************************************)
(* The SQL transactions on table "submissions", statement by statement.    *)
(* PostgreSQL runs them at READ COMMITTED: every statement sees the rows   *)
(* committed before it began, a row lock makes later writers of that row   *)
(* wait, and an advisory lock is held until the transaction ends.  Counts  *)
(* are thus read before the COMMIT they justify, while other transactions  *)
(* commit in between.  status is the committed state of the rows.          *)
(***************************************************************************)
EXTENDS Lifecycle

CONSTANT Sessions  \* database connections of the API and of the workers

VARIABLES
  pc,    \* session -> the statement it executes next
  on,    \* session -> the submission its transaction is about
  held   \* session -> the locks its transaction holds

vars == <<status, pc, on, held>>

\* pg_advisory_xact_lock(hash(participant)), pg_advisory_xact_lock(520202401)
\* and the lock on one row.
ParticipantLock(p) == [kind |-> "participant", of |-> p]
GlobalLock == [kind |-> "global", of |-> "520202401"]
RowLock(s) == [kind |-> "row", of |-> s]
Locks == {ParticipantLock(p) : p \in Participants} \cup {GlobalLock}
           \cup {RowLock(s) : s \in Submissions}

Nothing == "nothing"  \* an idle session is about no submission

CreatePCs == {"create", "create_global", "create_count", "create_quota", "create_commit"}
StartPCs == {"start", "start_row", "start_count", "start_commit"}
PCs == {"idle", "recover_commit"} \cup CreatePCs \cup StartPCs

Init ==
  /\ LifecycleInit
  /\ pc = [x \in Sessions |-> "idle"]
  /\ on = [x \in Sessions |-> Nothing]
  /\ held = [x \in Sessions |-> {}]

Free(l) == \A x \in Sessions : l \notin held[x]

Acquire(x, l) == Free(l) /\ held' = [held EXCEPT ![x] = @ \cup {l}]

Goto(x, step) == pc' = [pc EXCEPT ![x] = step] /\ UNCHANGED on

Leave(x) == pc' = [pc EXCEPT ![x] = "idle"] /\ on' = [on EXCEPT ![x] = Nothing]

\* Mutant: session-level locks, which the end of a transaction keeps.
EndKeepsLocks(x) == Leave(x) /\ UNCHANGED held

\* COMMIT or ROLLBACK releases every lock of the transaction.
End(x) == Leave(x) /\ held' = [held EXCEPT ![x] = {}]

\* A check on the way: go on, or return early and roll back.
Check(x, ok, step) ==
  /\ IF ok THEN Goto(x, step) /\ UNCHANGED held ELSE End(x)
  /\ UNCHANGED status

BeginTx(x, s, step) ==
  /\ pc[x] = "idle"
  /\ pc' = [pc EXCEPT ![x] = step]
  /\ on' = [on EXCEPT ![x] = s]

-----------------------------------------------------------------------------
(* CreateSubmissionQueued.                                                 *)

\* The id is a fresh UUID: no row and no other transaction has it.
BeginCreate(x, s) ==
  /\ status[s] = "none"
  /\ \A y \in Sessions : pc[y] \in CreatePCs => on[y] # s
  /\ BeginTx(x, s, "create")
  /\ UNCHANGED <<status, held>>

\* Mutant: the start transaction does not take the participant's lock.
LockParticipantCreatorsOnly(x) ==
  /\ \/ pc[x] = "create" /\ Acquire(x, ParticipantLock(Owner[on[x]])) /\ Goto(x, "create_global")
     \/ pc[x] = "start" /\ Goto(x, "start_row") /\ UNCHANGED held
  /\ UNCHANGED status

\* The first lock of both CreateSubmissionQueued and TryStartSubmission.
LockParticipant(x) ==
  /\ \/ pc[x] = "create" /\ Goto(x, "create_global")
     \/ pc[x] = "start" /\ Goto(x, "start_row")
  /\ Acquire(x, ParticipantLock(Owner[on[x]]))
  /\ UNCHANGED status

\* Mutant: no global lock.
LockGlobalSkipped(x) ==
  /\ pc[x] = "create_global"
  /\ Goto(x, "create_count")
  /\ UNCHANGED <<status, held>>

LockGlobal(x) ==
  /\ pc[x] = "create_global"
  /\ Acquire(x, GlobalLock)
  /\ Goto(x, "create_count")
  /\ UNCHANGED status

CountGlobal(x) ==
  /\ pc[x] = "create_count"
  /\ Check(x, Cardinality(Active) < MaxActive, "create_quota")

\* Mutant: the participant's rows are not counted.
CountQueuedSkipped(x) ==
  /\ pc[x] = "create_quota"
  /\ Check(x, TRUE, "create_commit")

CountQueued(x) ==
  /\ pc[x] = "create_quota"
  /\ Check(x, Cardinality(QueuedOf(Owner[on[x]])) < MaxQueued, "create_commit")

\* INSERT of the row and its event, invisible to others until the COMMIT.
CommitCreate(x) ==
  /\ pc[x] = "create_commit"
  /\ status' = [status EXCEPT ![on[x]] = "queued"]
  /\ End(x)

-----------------------------------------------------------------------------
(* TryStartSubmission.                                                     *)

\* The unlocked read, which only supplies the participant id.  A missing row
\* ends the call at once.
BeginStart(x, s) ==
  /\ status[s] # "none"
  /\ BeginTx(x, s, "start")
  /\ UNCHANGED <<status, held>>

\* SELECT status ... FOR UPDATE waits for the row and reads it afresh.
SelectForUpdate(x) ==
  /\ pc[x] = "start_row"
  /\ Free(RowLock(on[x]))
  /\ \/ /\ status[on[x]] = "queued"
        /\ Acquire(x, RowLock(on[x]))
        /\ Goto(x, "start_count")
     \/ status[on[x]] # "queued" /\ End(x)
  /\ UNCHANGED status

CountRunning(x) ==
  /\ pc[x] = "start_count"
  /\ Check(x, Cardinality(RunningOf(Owner[on[x]])) < MaxRunning, "start_commit")

\* The conditional UPDATE and the COMMIT, or a ROLLBACK if no row was hit.
CommitStart(x) ==
  /\ pc[x] = "start_commit"
  /\ status' = [status EXCEPT ![on[x]] = IF @ = "queued" THEN "mock_processing" ELSE @]
  /\ End(x)

-----------------------------------------------------------------------------
(* RecoverStaleSubmission: any running row may turn out to be stale.       *)

UpdateStale(x, s) ==
  /\ status[s] = "mock_processing"
  /\ BeginTx(x, s, "recover_commit")
  /\ Acquire(x, RowLock(s))
  /\ UNCHANGED status

\* INSERT of the new event and COMMIT.
CommitRecover(x) ==
  /\ pc[x] = "recover_commit"
  /\ status' = [status EXCEPT ![on[x]] = "queued"]
  /\ End(x)

-----------------------------------------------------------------------------
(* Single UPDATE statements, each a transaction of its own.                *)

\* Mutant: the statement ignores the lock of an open transaction.
SetInternalErrorUnlocked(s) ==
  /\ s \in Active
  /\ status' = [status EXCEPT ![s] = "internal_error"]
  /\ UNCHANGED <<pc, on, held>>

SetInternalError(s) ==
  /\ Free(RowLock(s))
  /\ s \in Active
  /\ status' = [status EXCEPT ![s] = "internal_error"]
  /\ UNCHANGED <<pc, on, held>>

FinishSubmissionConditional(s) ==
  /\ Free(RowLock(s))
  /\ status[s] = "mock_processing"
  /\ status' = [status EXCEPT ![s] = "finished"]
  /\ UNCHANGED <<pc, on, held>>

\* A statement fails, the context is cancelled or the client dies.
Rollback(x) ==
  /\ pc[x] # "idle"
  /\ End(x)
  /\ UNCHANGED status

-----------------------------------------------------------------------------
Statement(x) ==
  \/ LockParticipant(x)
  \/ LockGlobal(x) \/ CountGlobal(x) \/ CountQueued(x) \/ CommitCreate(x)
  \/ SelectForUpdate(x) \/ CountRunning(x) \/ CommitStart(x)
  \/ CommitRecover(x)

Next ==
  \/ \E x \in Sessions : Statement(x) \/ Rollback(x)
  \/ \E x \in Sessions, s \in Submissions :
       BeginCreate(x, s) \/ BeginStart(x, s) \/ UpdateStale(x, s)
  \/ \E s \in Submissions : SetInternalError(s) \/ FinishSubmissionConditional(s)

Spec == Init /\ [][Next]_vars

\* PostgreSQL serves the waiters of a lock in order, so a statement that can
\* run again and again does run.  No rollback is owed to anyone.
FairSpec == Spec /\ \A x \in Sessions : SF_vars(Statement(x))

-----------------------------------------------------------------------------
(* Properties.                                                             *)

\* Types.
TypeOK ==
  /\ LifecycleTypeOK
  /\ pc \in [Sessions -> PCs]
  /\ on \in [Sessions -> Submissions \cup {Nothing}]
  /\ \A x \in Sessions : pc[x] # "idle" => on[x] \in Submissions
  /\ held \in [Sessions -> SUBSET Locks]

(***************************************************************************)
(* A decision taken on a count is still right when it is committed: the    *)
(* locks keep everything that could raise the counted number away, while   *)
(* recoveries, results and timeouts commit in between.                     *)
(***************************************************************************)
DecisionsHold ==
  \A x \in Sessions, p \in Participants :
    pc[x] # "idle" /\ Owner[on[x]] = p =>
      /\ pc[x] \in {"create_quota", "create_commit"} => Cardinality(Active) < MaxActive
      /\ pc[x] = "create_commit" => Cardinality(ActiveOf(p)) < MaxQueued + MaxRunning
      /\ pc[x] = "start_commit" => Cardinality(RunningOf(p)) < MaxRunning

(***************************************************************************)
(* The locks that make it so: who holds which lock, and what a row lock    *)
(* says about the row.                                                     *)
(***************************************************************************)
LocksHeld ==
  /\ \A x, y \in Sessions : x # y => held[x] \cap held[y] = {}
  /\ \A x \in Sessions :
       /\ pc[x] \in PCs \ {"idle", "create", "start", "recover_commit"} =>
            ParticipantLock(Owner[on[x]]) \in held[x]
       /\ pc[x] \in {"create_count", "create_quota", "create_commit"} => GlobalLock \in held[x]
       /\ pc[x] \in {"start_count", "start_commit"} =>
            RowLock(on[x]) \in held[x] /\ status[on[x]] = "queued"
       /\ pc[x] = "recover_commit" =>
            RowLock(on[x]) \in held[x] /\ status[on[x]] = "mock_processing"
       /\ pc[x] \in CreatePCs =>
            /\ status[on[x]] = "none"
            /\ \A y \in Sessions : pc[y] \in CreatePCs /\ on[y] = on[x] => x = y

(***************************************************************************)
(* No set of transactions waits for each other for ever: whoever begins    *)
(* one, with the locks taken in the order participant, global, row, ends.  *)
(***************************************************************************)
TransactionsEnd == \A x \in Sessions : pc[x] # "idle" ~> pc[x] = "idle"
=============================================================================
