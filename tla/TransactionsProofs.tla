------------------------- MODULE TransactionsProofs -------------------------
(***************************************************************************)
(* The locks of CreateSubmissionQueued and TryStartSubmission suffice: for *)
(* every number of sessions, submissions and participants, a decision      *)
(* taken on a count holds until it is committed, and the committed rows    *)
(* follow LifecycleSpec.                                                   *)
(***************************************************************************)
EXTENDS Transactions, LifecycleProofs

LEMMA TypeStep == TypeOK /\ [Next]_vars => TypeOK'
<1> SUFFICES ASSUME TypeOK, [Next]_vars PROVE TypeOK'
  OBVIOUS
<1> USE DEF TypeOK, LifecycleTypeOK, Status, PCs, CreatePCs, StartPCs, Goto, Leave, End
<1>1. CASE UNCHANGED vars
  BY <1>1 DEF vars
<1>2. ASSUME NEW x \in Sessions, Statement(x) PROVE TypeOK'
  <2>0. /\ GlobalLock \in Locks
        /\ pc[x] # "idle" => /\ ParticipantLock(Owner[on[x]]) \in Locks
                             /\ RowLock(on[x]) \in Locks
    BY LifecycleAssumption DEF Locks
  <2>1. CASE LockParticipant(x)
    BY <2>0, <2>1 DEF LockParticipant, Acquire
  <2>2. CASE LockGlobal(x)
    BY <2>0, <2>2 DEF LockGlobal, Acquire
  <2>3. CASE CountGlobal(x) \/ CountQueued(x) \/ CountRunning(x)
    BY <2>3 DEF CountGlobal, CountQueued, CountRunning, Check
  <2>4. CASE SelectForUpdate(x)
    BY <2>0, <2>4 DEF SelectForUpdate, Acquire
  <2>5. CASE CommitCreate(x) \/ CommitStart(x) \/ CommitRecover(x)
    BY <2>5 DEF CommitCreate, CommitStart, CommitRecover
  <2> QED
    BY <1>2, <2>1, <2>2, <2>3, <2>4, <2>5 DEF Statement
<1>3. ASSUME NEW x \in Sessions, Rollback(x) PROVE TypeOK'
  BY <1>3 DEF Rollback
<1>4. ASSUME NEW x \in Sessions, NEW s \in Submissions, BeginCreate(x, s) \/ BeginStart(x, s)
      PROVE  TypeOK'
  BY <1>4 DEF BeginCreate, BeginStart, BeginTx
<1>5. ASSUME NEW x \in Sessions, NEW s \in Submissions, UpdateStale(x, s) PROVE TypeOK'
  <2>1. RowLock(s) \in Locks
    BY DEF Locks
  <2> QED
    BY <1>5, <2>1 DEF UpdateStale, BeginTx, Acquire
<1>6. ASSUME NEW s \in Submissions, SetInternalError(s) \/ FinishSubmissionConditional(s)
      PROVE  TypeOK'
  BY <1>6 DEF SetInternalError, FinishSubmissionConditional
<1> QED
  BY <1>1, <1>2, <1>3, <1>4, <1>5, <1>6 DEF Next

\* A row whose lock is free is in no open start or recovery.
LEMMA LocksHeldStep == TypeOK /\ LocksHeld /\ [Next]_vars => LocksHeld'
<1> SUFFICES ASSUME TypeOK, LocksHeld, [Next]_vars PROVE LocksHeld'
  OBVIOUS
<1> USE DEF TypeOK, LifecycleTypeOK, LocksHeld, PCs, CreatePCs, StartPCs, Goto, Leave, End, Free
<1>1. CASE UNCHANGED vars
  BY <1>1 DEF vars
<1>2. ASSUME NEW x \in Sessions, Statement(x) PROVE LocksHeld'
  <2>1. CASE LockParticipant(x)
    BY <2>1 DEF LockParticipant, Acquire
  <2>2. CASE LockGlobal(x)
    BY <2>2 DEF LockGlobal, Acquire
  <2>3. CASE CountGlobal(x) \/ CountQueued(x) \/ CountRunning(x)
    BY <2>3 DEF CountGlobal, CountQueued, CountRunning, Check
  <2>4. CASE SelectForUpdate(x)
    BY <2>4 DEF SelectForUpdate, Acquire
  <2>5. CASE CommitCreate(x)
    BY <2>5 DEF CommitCreate
  <2>6. CASE CommitStart(x)
    BY <2>6 DEF CommitStart
  <2>7. CASE CommitRecover(x)
    BY <2>7 DEF CommitRecover
  <2> QED
    BY <1>2, <2>1, <2>2, <2>3, <2>4, <2>5, <2>6, <2>7 DEF Statement
<1>3. ASSUME NEW x \in Sessions, Rollback(x) PROVE LocksHeld'
  BY <1>3 DEF Rollback
<1>4. ASSUME NEW x \in Sessions, NEW s \in Submissions, BeginCreate(x, s) PROVE LocksHeld'
  BY <1>4 DEF BeginCreate, BeginTx
<1>5. ASSUME NEW x \in Sessions, NEW s \in Submissions, BeginStart(x, s) PROVE LocksHeld'
  BY <1>5 DEF BeginStart, BeginTx
<1>6. ASSUME NEW x \in Sessions, NEW s \in Submissions, UpdateStale(x, s) PROVE LocksHeld'
  BY <1>6 DEF UpdateStale, BeginTx, Acquire
<1>7. ASSUME NEW s \in Submissions, SetInternalError(s) PROVE LocksHeld'
  BY <1>7 DEF SetInternalError, Active
<1>8. ASSUME NEW s \in Submissions, FinishSubmissionConditional(s) PROVE LocksHeld'
  BY <1>8 DEF FinishSubmissionConditional
<1> QED
  BY <1>1, <1>2, <1>3, <1>4, <1>5, <1>6, <1>7, <1>8 DEF Next

\* A count below a limit stays below it when its rows become fewer.
LEMMA CountShrinks ==
  ASSUME NEW T, IsFiniteSet(T), NEW S, S \subseteq T, NEW n \in Nat, Cardinality(T) < n
  PROVE  Cardinality(S) < n
  BY CardinalityOfSubset

\* A step of another session, or of the caller up to its count, disturbs no
\* decision if it does not add to what the decision counted.
LEMMA DecisionsFrame ==
  ASSUME DecisionsHold, TypeOK, TypeOK',
         \A x \in Sessions, p \in Participants :
           pc'[x] # "idle" /\ Owner[on'[x]] = p =>
             /\ pc'[x] \in {"create_quota", "create_commit"} =>
                  /\ pc[x] \in {"create_quota", "create_commit"}
                  /\ Active' \subseteq Active
             /\ pc'[x] = "create_commit" =>
                  /\ pc[x] = "create_commit" /\ on'[x] = on[x]
                  /\ ActiveOf(p)' \subseteq ActiveOf(p)
             /\ pc'[x] = "start_commit" =>
                  /\ pc[x] = "start_commit" /\ on'[x] = on[x]
                  /\ RunningOf(p)' \subseteq RunningOf(p)
  PROVE  DecisionsHold'
<1> SUFFICES ASSUME NEW x \in Sessions, NEW p \in Participants,
                    pc'[x] # "idle", Owner[on'[x]] = p
             PROVE  /\ pc'[x] \in {"create_quota", "create_commit"} => Cardinality(Active') < MaxActive
                    /\ pc'[x] = "create_commit" => Cardinality(ActiveOf(p)') < MaxQueued + MaxRunning
                    /\ pc'[x] = "start_commit" => Cardinality(RunningOf(p)') < MaxRunning
  BY DEF DecisionsHold
<1>0. /\ MaxActive \in Nat /\ MaxQueued + MaxRunning \in Nat /\ MaxRunning \in Nat
      /\ IsFiniteSet(Active) /\ IsFiniteSet(ActiveOf(p)) /\ IsFiniteSet(RunningOf(p))
  BY RowSetsFinite, LifecycleAssumption
<1>1. ASSUME pc'[x] \in {"create_quota", "create_commit"} PROVE Cardinality(Active') < MaxActive
  <2>1. Cardinality(Active) < MaxActive /\ Active' \subseteq Active
    BY <1>1, LifecycleAssumption DEF DecisionsHold, TypeOK
  <2> QED
    BY <1>0, <2>1, CountShrinks
<1>2. ASSUME pc'[x] = "create_commit" PROVE Cardinality(ActiveOf(p)') < MaxQueued + MaxRunning
  <2>1. Cardinality(ActiveOf(p)) < MaxQueued + MaxRunning /\ ActiveOf(p)' \subseteq ActiveOf(p)
    BY <1>2 DEF DecisionsHold
  <2> QED
    BY <1>0, <2>1, CountShrinks
<1>3. ASSUME pc'[x] = "start_commit" PROVE Cardinality(RunningOf(p)') < MaxRunning
  <2>1. Cardinality(RunningOf(p)) < MaxRunning /\ RunningOf(p)' \subseteq RunningOf(p)
    BY <1>3 DEF DecisionsHold
  <2> QED
    BY <1>0, <2>1, CountShrinks
<1> QED
  BY <1>1, <1>2, <1>3

LEMMA DecisionsStep ==
  TypeOK /\ TypeOK' /\ LocksHeld /\ DecisionsHold /\ RunningQuota /\ [Next]_vars
    => DecisionsHold'
<1> SUFFICES ASSUME TypeOK, TypeOK', LocksHeld, DecisionsHold, RunningQuota, [Next]_vars
             PROVE  DecisionsHold'
  OBVIOUS
<1>0. ASSUME UNCHANGED status
      PROVE  /\ Active' = Active
             /\ \A p \in Participants : ActiveOf(p)' = ActiveOf(p) /\ RunningOf(p)' = RunningOf(p)
  BY <1>0 DEF Active, ActiveOf, QueuedOf, RunningOf
<1> USE DEF TypeOK, PCs, CreatePCs, StartPCs, Goto, Leave, End
<1>1. CASE UNCHANGED vars
  BY <1>0, <1>1, DecisionsFrame DEF vars
<1>2. ASSUME NEW x \in Sessions, LockParticipant(x) \/ LockGlobal(x) \/ SelectForUpdate(x) \/ Rollback(x)
      PROVE  DecisionsHold'
  BY <1>0, <1>2, DecisionsFrame DEF LockParticipant, LockGlobal, SelectForUpdate, Rollback
<1>3. ASSUME NEW x \in Sessions, CountGlobal(x) PROVE DecisionsHold'
  BY <1>0, <1>3 DEF CountGlobal, Check, DecisionsHold
<1>4. ASSUME NEW x \in Sessions, CountQueued(x) PROVE DecisionsHold'
  <2>1. \A p \in Participants :
          pc'[x] = "create_commit" /\ Owner[on[x]] = p =>
            Cardinality(ActiveOf(p)) < MaxQueued + MaxRunning
    BY <1>4, AcceptedBelowBound DEF CountQueued, Check
  <2> QED
    BY <1>0, <1>4, <2>1 DEF CountQueued, Check, DecisionsHold
<1>5. ASSUME NEW x \in Sessions, CountRunning(x) PROVE DecisionsHold'
  BY <1>0, <1>5 DEF CountRunning, Check, DecisionsHold
<1>6. ASSUME NEW x \in Sessions, CommitCreate(x) PROVE DecisionsHold'
  <2>1. \A y \in Sessions : pc'[y] \notin {"create_quota", "create_commit"}
    BY <1>6 DEF CommitCreate, LocksHeld
  <2>2. \A p \in Participants : RunningOf(p)' \subseteq RunningOf(p)
    BY <1>6 DEF CommitCreate, RunningOf, LifecycleTypeOK
  <2> QED
    BY <1>6, <2>1, <2>2, DecisionsFrame DEF CommitCreate
<1>7. ASSUME NEW x \in Sessions, CommitStart(x) PROVE DecisionsHold'
  <2>0. status[on[x]] = "queued"
    BY <1>7 DEF CommitStart, LocksHeld
  <2>1. \A y \in Sessions : pc'[y] = "start_commit" => Owner[on[y]] # Owner[on[x]]
    BY <1>7 DEF CommitStart, LocksHeld
  <2>2. \A p \in Participants : p # Owner[on[x]] => RunningOf(p)' \subseteq RunningOf(p)
    BY <1>7 DEF CommitStart, RunningOf, LifecycleTypeOK
  <2>3. Active' \subseteq Active /\ \A p \in Participants : ActiveOf(p)' \subseteq ActiveOf(p)
    BY <1>7, <2>0 DEF CommitStart, Active, ActiveOf, QueuedOf, RunningOf, LifecycleTypeOK
  <2> QED
    BY <1>7, <2>1, <2>2, <2>3, DecisionsFrame DEF CommitStart
<1>8. ASSUME NEW x \in Sessions, CommitRecover(x) PROVE DecisionsHold'
  <2>0. status[on[x]] = "mock_processing"
    BY <1>8 DEF CommitRecover, LocksHeld
  <2>1. /\ Active' \subseteq Active
        /\ \A p \in Participants : /\ ActiveOf(p)' \subseteq ActiveOf(p)
                                   /\ RunningOf(p)' \subseteq RunningOf(p)
    BY <1>8, <2>0 DEF CommitRecover, Active, ActiveOf, QueuedOf, RunningOf, LifecycleTypeOK
  <2> QED
    BY <1>8, <2>1, DecisionsFrame DEF CommitRecover
<1>9. ASSUME NEW x \in Sessions, NEW s \in Submissions,
             BeginCreate(x, s) \/ BeginStart(x, s) \/ UpdateStale(x, s)
      PROVE  DecisionsHold'
  BY <1>0, <1>9, DecisionsFrame DEF BeginCreate, BeginStart, UpdateStale, BeginTx
<1>10. ASSUME NEW s \in Submissions, SetInternalError(s) \/ FinishSubmissionConditional(s)
       PROVE  DecisionsHold'
  <2>1. /\ Active' \subseteq Active
        /\ \A p \in Participants : /\ ActiveOf(p)' \subseteq ActiveOf(p)
                                   /\ RunningOf(p)' \subseteq RunningOf(p)
    BY <1>10 DEF SetInternalError, FinishSubmissionConditional, Active, ActiveOf, QueuedOf,
                 RunningOf, LifecycleTypeOK
  <2> QED
    BY <1>10, <2>1, DecisionsFrame DEF SetInternalError, FinishSubmissionConditional
<1> QED
  BY <1>1, <1>2, <1>3, <1>4, <1>5, <1>6, <1>7, <1>8, <1>9, <1>10 DEF Next, Statement

-----------------------------------------------------------------------------
(* The committed rows follow Lifecycle.                                    *)

LEMMA LifecycleStep ==
  TypeOK /\ LocksHeld /\ DecisionsHold /\ [Next]_vars => [LifecycleNext]_status
<1> SUFFICES ASSUME TypeOK, LocksHeld, DecisionsHold, [Next]_vars
             PROVE  LifecycleNext \/ UNCHANGED status
  OBVIOUS
<1> USE DEF TypeOK, LifecycleNext
<1>0. \A x \in Sessions :
        pc[x] # "idle" => on[x] \in Submissions /\ Owner[on[x]] \in Participants
  BY LifecycleAssumption
<1>1. ASSUME NEW x \in Sessions, CommitCreate(x) PROVE LifecycleNext
  BY <1>0, <1>1 DEF CommitCreate, LocksHeld, DecisionsHold, CreatePCs, Accept
<1>2. ASSUME NEW x \in Sessions, CommitStart(x) PROVE LifecycleNext
  BY <1>0, <1>2 DEF CommitStart, LocksHeld, DecisionsHold, Begin
<1>3. ASSUME NEW x \in Sessions, CommitRecover(x) PROVE LifecycleNext
  BY <1>3 DEF CommitRecover, LocksHeld, Requeue
<1>4. ASSUME NEW s \in Submissions, SetInternalError(s) \/ FinishSubmissionConditional(s)
      PROVE  LifecycleNext
  BY <1>4 DEF SetInternalError, FinishSubmissionConditional, GiveUp, Complete
<1>5. ASSUME NEW x \in Sessions,
             \/ LockParticipant(x) \/ LockGlobal(x) \/ SelectForUpdate(x) \/ Rollback(x)
             \/ CountGlobal(x) \/ CountQueued(x) \/ CountRunning(x)
      PROVE  UNCHANGED status
  BY <1>5 DEF LockParticipant, LockGlobal, SelectForUpdate, Rollback, CountGlobal, CountQueued,
              CountRunning, Check
<1>6. ASSUME NEW x \in Sessions, NEW s \in Submissions,
             BeginCreate(x, s) \/ BeginStart(x, s) \/ UpdateStale(x, s)
      PROVE  UNCHANGED status
  BY <1>6 DEF BeginCreate, BeginStart, UpdateStale
<1> QED
  BY <1>1, <1>2, <1>3, <1>4, <1>5, <1>6 DEF Next, Statement, vars

LEMMA TransactionsInvariant ==
  Spec => [](TypeOK /\ LocksHeld /\ DecisionsHold /\ Limits)
<1>1. Init => TypeOK /\ LocksHeld /\ DecisionsHold
  BY DEF Init, LifecycleInit, TypeOK, LifecycleTypeOK, Status, LocksHeld, DecisionsHold,
         PCs, CreatePCs, StartPCs
<1>2. Init => Limits
  BY LimitsInitially DEF Init
<1>3. TypeOK /\ LocksHeld /\ DecisionsHold /\ Limits /\ [Next]_vars
        => (TypeOK /\ LocksHeld /\ DecisionsHold /\ Limits)'
  BY TypeStep, LocksHeldStep, DecisionsStep, LifecycleStep, LimitsStep DEF Limits
<1> QED
  BY <1>1, <1>2, <1>3, PTL DEF Spec

(***************************************************************************)
(* The locks are as the code means them (pg_advisory_xact_lock, SELECT ... *)
(* FOR UPDATE): at every statement a transaction holds the locks its       *)
(* counts rely on, nobody else does, and a locked row keeps its status.    *)
(***************************************************************************)
THEOREM LocksRemainHeld == Spec => []LocksHeld
  BY TransactionsInvariant, PTL

(***************************************************************************)
(* Counts are taken before the COMMIT they justify, and stay right until   *)
(* then: the participant and the global lock keep out every transaction    *)
(* that could raise them.                                                  *)
(***************************************************************************)
THEOREM DecisionsRemainTrue == Spec => []DecisionsHold
  BY TransactionsInvariant, PTL

(***************************************************************************)
(* At READ COMMITTED and statement by statement, the transactions of       *)
(* database.go leave the same committed rows as the atomic steps of        *)
(* Lifecycle.                                                              *)
(***************************************************************************)
THEOREM TransactionsRefineLifecycle == Spec => LifecycleSpec
<1>1. Init => LifecycleInit
  BY DEF Init
<1> QED
  BY <1>1, LifecycleStep, TransactionsInvariant, PTL DEF Spec, LifecycleSpec

(***************************************************************************)
(* So concurrent transactions never exceed the running limit, the global   *)
(* capacity or the bound on the active rows of a participant.              *)
(***************************************************************************)
THEOREM TransactionsRespectLimits ==
  Spec => [](RunningQuota /\ GlobalCapacity /\ ParticipantBound)
  BY TransactionsRefineLifecycle, LimitsHold, PTL
=============================================================================
