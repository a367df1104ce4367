---------------------------- MODULE TimingProofs ----------------------------
(***************************************************************************)
(* The times of a worker process.  WorkerTiming, for every choice of       *)
(* durations, delays and clock skews that satisfies ConfiguredDurations    *)
(* and SlackAssumption, and for any number of workers, submissions and     *)
(* faults: no attempt is taken away, abandoned ones come back in time, and *)
(* the rows follow Lifecycle.  OutboxTiming, for any number of loops and   *)
(* events, any outage and any failures: retries keep their distance, and a *)
(* loop that is left alone catches up.                                     *)
(***************************************************************************)
EXTENDS WorkerTiming, OutboxTiming, FiniteSetTheorems, TLAPS

RowFacts == INSTANCE LifecycleProofs WITH status <- [s \in Submissions |-> row[s].status]

-----------------------------------------------------------------------------
(* The inductive invariant.                                                *)

\* What a worker can be doing; only the work itself has a deadline.
Calling ==
  [at : {"starting", "started", "giving_up"}, job : Submissions, begun : Nat, until : Nat]
Working ==
  [at : {"working"}, job : Submissions, begun : Nat, ready : Nat, deadline : Nat, until : Nat]

TypeOK ==
  /\ clock \in Nat
  /\ row \in [Submissions -> [status : Rows!Status, started : Nat]]
  /\ worker \in [Workers -> {Idle} \cup Calling \cup Working]
  /\ ticker \in [Workers -> Int]
  /\ listed \in [Workers -> SUBSET Submissions]
  /\ faults \in Nat
  /\ setback \in [Workers -> Nat]

\* How old an attempt can be at each of its steps.
AgeLimit(w) ==
  CASE worker[w].at = "starting" -> StartTime
    [] worker[w].at = "started" -> StartTime + ReplyTime
    [] worker[w].at = "working" -> StartTime + ReplyTime + Hard + Lag
    [] worker[w].at = "giving_up" -> StartTime + ReplyTime + Hard + Lag + GiveUpTime
    [] OTHER -> 0

\* Nobody is past the end of its step, and the steps end in time.
InTime(w) ==
  worker[w] # Idle =>
    /\ worker[w].begun <= clock
    /\ clock <= worker[w].until
    /\ worker[w].until <= worker[w].begun + AgeLimit(w)

\* The tick before the next one is past, and no round is late.
TickerOK(w) ==
  /\ ticker[w] - RecoveryPeriod <= clock
  /\ clock <= ticker[w] + Lag
  /\ listed[w] # {} => clock <= ticker[w] - RecoveryPeriod + Lag + RecoverTime

TimingInv ==
  /\ TypeOK
  /\ \A w \in Workers : InTime(w) /\ TickerOK(w)
  /\ AttemptNotStolen

-----------------------------------------------------------------------------
LEMMA Durations ==
  /\ {Work, Hard, Stale, StartTime, ReplyTime, GiveUpTime, RecoverTime, Lag} \subseteq Nat
  /\ Stale > Hard
  /\ RecoveryPeriod \in Nat
  /\ \A w \in Workers :
       /\ Skew[w] \in Int
       /\ Stale > StartTime + ReplyTime + Hard + Lag + GiveUpTime + Skew[w]
  BY ConfiguredDurations, SlackAssumption DEF RecoveryPeriod

LEMMA TypeStep ==
  ASSUME TypeOK, [Next]_vars
  PROVE  TypeOK'
<1> USE DEF TypeOK, Calling, Working, Idle, Rows!Status
<1>1. CASE UNCHANGED vars
  BY <1>1 DEF vars
<1>2. ASSUME NEW s \in Submissions, Submit(s) PROVE TypeOK'
  BY <1>2 DEF Submit
<1>3. ASSUME NEW w \in Workers, NEW s \in Submissions, BeginStart(w, s) PROVE TypeOK'
  BY <1>3, Durations DEF BeginStart
<1>4. ASSUME NEW w \in Workers, NEW s \in Submissions, RecoverStaleSubmission(w, s) PROVE TypeOK'
  BY <1>4 DEF RecoverStaleSubmission, NeverStarted
<1>5. ASSUME NEW w \in Workers, TryStartSubmission(w) PROVE TypeOK'
  <2>1. worker[w].job \in Submissions /\ worker[w].begun \in Nat
    BY <1>5 DEF TryStartSubmission
  <2>2. row' \in [Submissions -> [status : Rows!Status, started : Nat]]
    BY <1>5, <2>1 DEF TryStartSubmission, MarkStarted
  <2>3. worker' \in [Workers -> {Idle} \cup Calling \cup Working]
    BY <1>5, <2>1, Durations DEF TryStartSubmission
  <2> QED
    BY <1>5, <2>2, <2>3 DEF TryStartSubmission
<1>6. ASSUME NEW w \in Workers, TryStartFails(w) PROVE TypeOK'
  BY <1>6 DEF TryStartFails, MarkStarted, Fault
<1>7. ASSUME NEW w \in Workers, StartWork(w) PROVE TypeOK'
  BY <1>7, Durations DEF StartWork
<1>8. ASSUME NEW w \in Workers, FinishSubmissionConditional(w) PROVE TypeOK'
  BY <1>8 DEF FinishSubmissionConditional, Finished
<1>9. ASSUME NEW w \in Workers, FinishFails(w) PROVE TypeOK'
  BY <1>9 DEF FinishFails, Finished, Fault
<1>10. ASSUME NEW w \in Workers, StopWork(w) PROVE TypeOK'
  BY <1>10, Durations DEF StopWork, Fault
<1>11. ASSUME NEW w \in Workers, SetInternalError(w) PROVE TypeOK'
  BY <1>11 DEF SetInternalError, Fault
<1>12. ASSUME NEW w \in Workers, ListStaleProcessing(w) PROVE TypeOK'
  BY <1>12, Durations DEF ListStaleProcessing
<1>13. ASSUME NEW w \in Workers, RecoverFails(w) PROVE TypeOK'
  BY <1>13, Durations DEF RecoverFails, Fault
<1>14. ASSUME NEW w \in Workers, Crash(w) PROVE TypeOK'
  BY <1>14, Durations DEF Crash, Fault
<1>15. CASE Tick
  BY <1>15 DEF Tick
<1> QED
  BY <1>1, <1>2, <1>3, <1>4, <1>5, <1>6, <1>7, <1>8, <1>9, <1>10, <1>11, <1>12, <1>13, <1>14,
     <1>15 DEF Next

\* Where the times of a worker come from.
LEMMA InTimeStep ==
  ASSUME TypeOK, \A w \in Workers : InTime(w), [Next]_vars, NEW v \in Workers
  PROVE  InTime(v)'
<1> USE Durations DEF TypeOK, Calling, Working, Idle, InTime, AgeLimit
<1>0. worker[v] = Idle \/ worker[v] \in Calling \/ worker[v] \in Working
  OBVIOUS
<1>1. CASE UNCHANGED <<clock, worker>>
  BY <1>1
<1>2. ASSUME NEW w \in Workers, NEW s \in Submissions, BeginStart(w, s) PROVE InTime(v)'
  BY <1>2 DEF BeginStart
<1>3. ASSUME NEW w \in Workers, worker' = [worker EXCEPT ![w] = Idle], UNCHANGED clock
      PROVE  InTime(v)'
  BY <1>3
<1>4. ASSUME NEW w \in Workers, TryStartSubmission(w) PROVE InTime(v)'
  BY <1>4 DEF TryStartSubmission
<1>5. ASSUME NEW w \in Workers, StartWork(w) PROVE InTime(v)'
  BY <1>5 DEF StartWork
<1>6. ASSUME NEW w \in Workers, StopWork(w) PROVE InTime(v)'
  BY <1>6 DEF StopWork
<1>7. CASE Tick
  BY <1>7 DEF Tick
<1> QED
  BY <1>1, <1>2, <1>3, <1>4, <1>5, <1>6, <1>7
  DEF Next, vars, Submit, RecoverStaleSubmission, TryStartFails, FinishSubmissionConditional,
      FinishFails, SetInternalError, ListStaleProcessing, RecoverFails, Crash

\* Nobody's attempt is stale, by anybody's clock.
LEMMA AttemptIsFresh ==
  ASSUME TypeOK, \A w \in Workers : InTime(w), NEW w \in Workers, worker[w] # Idle,
         NEW v \in Workers
  PROVE  worker[w].begun > clock + Skew[v] - Stale
  BY Durations DEF TypeOK, Calling, Working, Idle, InTime, AgeLimit

LEMMA InTimeNotStale == TimingInv => NotStaleInHand
<1> SUFFICES ASSUME TimingInv, NEW w \in Workers, NEW v \in Workers, Attempts(w)
             PROVE  ~IsStale(v, worker[w].job)
  BY DEF NotStaleInHand
<1>1. worker[w] # Idle
  BY DEF Attempts, Idle
<1>2. worker[w].begun > clock + Skew[v] - Stale
  BY <1>1, AttemptIsFresh DEF TimingInv
<1>3. row[worker[w].job].started = worker[w].begun /\ worker[w].begun \in Nat
  BY <1>1 DEF TimingInv, AttemptNotStolen, TypeOK, Calling, Working
<1> QED
  BY <1>2, <1>3, Durations DEF IsStale, TimingInv, TypeOK

LEMMA TickerStep ==
  ASSUME TypeOK, NEW w \in Workers, TickerOK(w), [Next]_vars
  PROVE  TickerOK(w)'
<1> USE Durations DEF TypeOK, TickerOK
<1>1. CASE UNCHANGED <<clock, ticker, listed>>
  BY <1>1 DEF RecoveryPeriod
<1>2. ASSUME NEW v \in Workers, ListStaleProcessing(v) PROVE TickerOK(w)'
  BY <1>2 DEF ListStaleProcessing, RecoveryPeriod
<1>3. ASSUME NEW v \in Workers, RecoverFails(v) PROVE TickerOK(w)'
  BY <1>3 DEF RecoverFails, RecoveryPeriod
<1>4. ASSUME NEW v \in Workers, Crash(v) PROVE TickerOK(w)'
  BY <1>4 DEF Crash, RecoveryPeriod
<1>5. ASSUME NEW v \in Workers, NEW s \in Submissions, RecoverStaleSubmission(v, s)
      PROVE  TickerOK(w)'
  BY <1>5 DEF RecoverStaleSubmission, RecoveryPeriod
<1>6. CASE Tick
  BY <1>6 DEF Tick, RecoveryPeriod
<1> QED
  BY <1>1, <1>2, <1>3, <1>4, <1>5, <1>6
  DEF Next, vars, Submit, BeginStart, TryStartSubmission, TryStartFails, StartWork,
      FinishSubmissionConditional, FinishFails, StopWork, SetInternalError

\* What an attempt is, without its typing.
LEMMA AttemptJob ==
  ASSUME TypeOK, NEW w \in Workers, Attempts(w)
  PROVE  worker[w] # Idle /\ worker[w].job \in Submissions /\ worker[w].begun \in Nat
  BY DEF TypeOK, Calling, Working, Idle, Attempts

LEMMA NotStolenStep ==
  ASSUME TimingInv, [Next]_vars
  PROVE  AttemptNotStolen'
<1> USE DEF Attempts
<1>0. TypeOK /\ AttemptNotStolen /\ NotStaleInHand
  BY InTimeNotStale DEF TimingInv
<1>a. \A w \in Workers : Attempts(w) => worker[w] # Idle /\ worker[w].job \in Submissions
  BY <1>0, AttemptJob
<1>b. \A w \in Workers : worker[w].at = "starting" =>
        worker[w].job \in Submissions /\ worker[w].begun \in Nat
  BY <1>0 DEF TypeOK, Calling, Working, Idle
<1>1. CASE UNCHANGED <<row, worker>>
  BY <1>0, <1>1 DEF AttemptNotStolen
<1>2. ASSUME NEW s \in Submissions, Submit(s) PROVE AttemptNotStolen'
  BY <1>0, <1>a, <1>2 DEF Submit, AttemptNotStolen, TypeOK
<1>3. ASSUME NEW w \in Workers, NEW s \in Submissions, BeginStart(w, s) PROVE AttemptNotStolen'
  BY <1>0, <1>3 DEF BeginStart, AttemptNotStolen, TypeOK
<1>4. ASSUME NEW v \in Workers, NEW s \in Submissions, RecoverStaleSubmission(v, s)
      PROVE  AttemptNotStolen'
  <2>1. CASE ~IsStale(v, s)
    BY <1>1, <1>4, <2>1 DEF RecoverStaleSubmission
  <2>2. CASE IsStale(v, s)
    <3>1. \A w \in Workers : Attempts(w) => worker[w].job # s
      BY <1>0, <2>2 DEF NotStaleInHand
    <3> QED
      BY <1>0, <1>a, <1>4, <2>2, <3>1 DEF RecoverStaleSubmission, AttemptNotStolen, TypeOK
  <2> QED
    BY <2>1, <2>2
<1>5. ASSUME NEW w \in Workers, TryStartSubmission(w) PROVE AttemptNotStolen'
  <2>1. CASE Startable(worker[w].job)
    <3>1. \A v \in Workers : Attempts(v) => worker[v].job # worker[w].job
      BY <1>0, <2>1 DEF Startable, AttemptNotStolen
    <3> QED
      BY <1>0, <1>a, <1>b, <1>5, <2>1, <3>1
      DEF TryStartSubmission, MarkStarted, AttemptNotStolen, TypeOK
  <2>2. CASE ~Startable(worker[w].job)
    BY <1>0, <1>a, <1>5, <2>2 DEF TryStartSubmission, AttemptNotStolen, TypeOK, Idle
  <2> QED
    BY <2>1, <2>2
<1>6. ASSUME NEW w \in Workers, TryStartFails(w) PROVE AttemptNotStolen'
  <2>1. CASE UNCHANGED row
    BY <1>0, <1>a, <1>6, <2>1 DEF TryStartFails, AttemptNotStolen, TypeOK, Idle
  <2>2. CASE Startable(worker[w].job) /\ row' = MarkStarted(w)
    <3>1. \A v \in Workers : Attempts(v) => worker[v].job # worker[w].job
      BY <1>0, <2>2 DEF Startable, AttemptNotStolen
    <3> QED
      BY <1>0, <1>a, <1>b, <1>6, <2>2, <3>1
      DEF TryStartFails, MarkStarted, AttemptNotStolen, TypeOK, Idle
  <2> QED
    BY <1>6, <2>1, <2>2 DEF TryStartFails
<1>7. ASSUME NEW w \in Workers, StartWork(w) PROVE AttemptNotStolen'
  BY <1>0, <1>a, <1>7 DEF StartWork, AttemptNotStolen, TypeOK
<1>8. ASSUME NEW w \in Workers, FinishSubmissionConditional(w) \/ FinishFails(w)
      PROVE  AttemptNotStolen'
  BY <1>0, <1>a, <1>8
  DEF FinishSubmissionConditional, FinishFails, Finished, AttemptNotStolen, TypeOK, Idle
<1>9. ASSUME NEW w \in Workers, StopWork(w) PROVE AttemptNotStolen'
  BY <1>0, <1>a, <1>9 DEF StopWork, AttemptNotStolen, TypeOK
<1>10. ASSUME NEW w \in Workers, SetInternalError(w) PROVE AttemptNotStolen'
  BY <1>0, <1>a, <1>10 DEF SetInternalError, AttemptNotStolen, TypeOK, Idle
<1>11. ASSUME NEW w \in Workers, Crash(w) PROVE AttemptNotStolen'
  BY <1>0, <1>a, <1>11 DEF Crash, AttemptNotStolen, TypeOK, Idle
<1> QED
  BY <1>1, <1>2, <1>3, <1>4, <1>5, <1>6, <1>7, <1>8, <1>9, <1>10, <1>11
  DEF Next, vars, ListStaleProcessing, RecoverFails, Tick

LEMMA TimingInitially == Init => TimingInv
<1> SUFFICES ASSUME Init PROVE TimingInv
  OBVIOUS
<1> USE Durations DEF Init
<1>1. TypeOK
  BY DEF TypeOK, Rows!Status, NeverStarted
<1>2. ASSUME NEW w \in Workers PROVE InTime(w) /\ TickerOK(w)
  BY DEF InTime, TickerOK
<1>3. AttemptNotStolen
  BY DEF AttemptNotStolen, Attempts, Idle
<1> QED
  BY <1>1, <1>2, <1>3 DEF TimingInv

LEMMA TimingStep == TimingInv /\ [Next]_vars => TimingInv'
<1> SUFFICES ASSUME TimingInv, [Next]_vars PROVE TimingInv'
  OBVIOUS
<1>1. TypeOK'
  BY TypeStep DEF TimingInv
<1>2. \A w \in Workers : InTime(w)'
  BY InTimeStep DEF TimingInv
<1>3. \A w \in Workers : TickerOK(w)'
  BY TickerStep DEF TimingInv
<1>4. AttemptNotStolen'
  BY NotStolenStep
<1> QED
  BY <1>1, <1>2, <1>3, <1>4 DEF TimingInv

LEMMA TimingInvariant == Spec => []TimingInv
  BY TimingInitially, TimingStep, PTL DEF Spec

(***************************************************************************)
(* An attempt belongs to one worker until that worker has written its      *)
(* outcome or given up writing it (processOne, recoveryLoop): not for the  *)
(* defaults only but for all durations that leave the slack of             *)
(* SlackAssumption between WORKER_HARD_TIMEOUT and WORKER_STALE_AFTER.     *)
(***************************************************************************)
THEOREM AttemptsAreKept == Spec => []AttemptNotStolen
<1>1. TimingInv => AttemptNotStolen
  BY DEF TimingInv
<1> QED
  BY <1>1, TimingInvariant, PTL

(***************************************************************************)
(* What module Delivery takes for granted in its action Abandoned: a row   *)
(* in somebody's hands is stale by nobody's clock.                         *)
(***************************************************************************)
THEOREM HandsAreFresh == Spec => []NotStaleInHand
  BY InTimeNotStale, TimingInvariant, PTL

-----------------------------------------------------------------------------
(* The refinement of Lifecycle.  Its facts are those of LifecycleProofs    *)
(* about the statuses of the rows kept here.                               *)

\* The instances count as this module does.
LEMMA SameCounts ==
  ASSUME NEW S
  PROVE  Rows!Cardinality(S) = Cardinality(S) /\ RowFacts!Cardinality(S) = Cardinality(S)
  BY Zenon DEF Rows!Cardinality, RowFacts!Cardinality, Cardinality

LEMMA RowLimitsInitially == RowFacts!LifecycleInit => RowFacts!Limits
  BY RowFacts!LimitsInitially, RowsAssumption DEF RowFacts!IsFiniteSet, IsFiniteSet

LEMMA RowLimitsStep ==
  RowFacts!Limits /\ [RowFacts!LifecycleNext]_([s \in Submissions |-> row[s].status])
    => RowFacts!Limits'
  BY RowFacts!LimitsStep, RowsAssumption DEF RowFacts!IsFiniteSet, IsFiniteSet

LEMMA SameRowSets ==
  /\ Rows!Active = RowFacts!Active
  /\ \A p : /\ Rows!QueuedOf(p) = RowFacts!QueuedOf(p)
            /\ Rows!RunningOf(p) = RowFacts!RunningOf(p)
            /\ Rows!ActiveOf(p) = RowFacts!ActiveOf(p)
  BY DEF Rows!Active, RowFacts!Active, Rows!QueuedOf, RowFacts!QueuedOf, Rows!RunningOf,
         RowFacts!RunningOf, Rows!ActiveOf, RowFacts!ActiveOf

LEMMA SameSteps == Rows!LifecycleNext <=> RowFacts!LifecycleNext
<1>1. ASSUME NEW s \in Submissions
      PROVE  /\ Rows!Accept(s) <=> RowFacts!Accept(s)
             /\ Rows!Begin(s) <=> RowFacts!Begin(s)
             /\ Rows!Complete(s) <=> RowFacts!Complete(s)
             /\ Rows!GiveUp(s) <=> RowFacts!GiveUp(s)
             /\ Rows!Requeue(s) <=> RowFacts!Requeue(s)
  <2>1. Rows!Accept(s) <=> RowFacts!Accept(s)
    BY SameCounts, SameRowSets, Zenon DEF Rows!Accept, RowFacts!Accept
  <2>2. Rows!Begin(s) <=> RowFacts!Begin(s)
    BY SameCounts, SameRowSets, Zenon DEF Rows!Begin, RowFacts!Begin
  <2>3. Rows!Complete(s) <=> RowFacts!Complete(s)
    BY Zenon DEF Rows!Complete, RowFacts!Complete
  <2>4. Rows!GiveUp(s) <=> RowFacts!GiveUp(s)
    BY SameRowSets, Zenon DEF Rows!GiveUp, RowFacts!GiveUp
  <2>5. Rows!Requeue(s) <=> RowFacts!Requeue(s)
    BY Zenon DEF Rows!Requeue, RowFacts!Requeue
  <2> QED
    BY <2>1, <2>2, <2>3, <2>4, <2>5
<1> QED
  BY <1>1, Zenon DEF Rows!LifecycleNext, RowFacts!LifecycleNext

\* Who may be accepted here may be accepted there.
LEMMA BelowBound ==
  ASSUME RowFacts!Limits, NEW p \in Participants, Cardinality(Rows!QueuedOf(p)) < MaxQueued
  PROVE  Rows!Cardinality(Rows!ActiveOf(p)) < MaxQueued + MaxRunning
<1>1. RowFacts!RunningQuota /\ RowFacts!Cardinality(RowFacts!QueuedOf(p)) < MaxQueued
  BY SameCounts, SameRowSets DEF RowFacts!Limits
<1>2. RowFacts!Cardinality(RowFacts!ActiveOf(p)) < MaxQueued + MaxRunning
  BY <1>1, RowFacts!AcceptedBelowBound, RowsAssumption DEF RowFacts!IsFiniteSet, IsFiniteSet
<1> QED
  BY <1>2, SameCounts, SameRowSets

LEMMA RowsMove ==
  ASSUME TypeOK, RowFacts!Limits, [Next]_vars
  PROVE  [Rows!LifecycleNext]_([s \in Submissions |-> row[s].status])
<1> DEFINE status == [s \in Submissions |-> row[s].status]
<1> USE DEF TypeOK
<1>0. \A s \in Submissions : status[s] = row[s].status /\ Owner[s] \in Participants
  BY RowsAssumption
<1>1. CASE UNCHANGED row
  BY <1>1
<1>2. ASSUME NEW s \in Submissions, Submit(s) PROVE Rows!LifecycleNext
  <2>1. Rows!Accept(s)
    BY <1>0, <1>2, BelowBound, SameCounts DEF Submit, Rows!Accept
  <2> QED
    BY <2>1 DEF Rows!LifecycleNext
<1>3. ASSUME NEW w \in Workers, NEW s \in Submissions, RecoverStaleSubmission(w, s), row' # row
      PROVE  Rows!LifecycleNext
  <2>1. Rows!Requeue(s)
    BY <1>0, <1>3 DEF RecoverStaleSubmission, IsStale, Rows!Requeue
  <2> QED
    BY <2>1 DEF Rows!LifecycleNext
<1>4. ASSUME NEW w \in Workers, NEW s \in Submissions, s = worker[w].job, row' # row,
             TryStartSubmission(w) \/ TryStartFails(w)
      PROVE  Rows!LifecycleNext
  <2>1. Startable(s) /\ row' = MarkStarted(w)
    BY <1>4 DEF TryStartSubmission, TryStartFails
  <2>2. Rows!Begin(s)
    BY <1>0, <1>4, <2>1, SameCounts DEF Startable, MarkStarted, Rows!Begin
  <2> QED
    BY <2>2 DEF Rows!LifecycleNext
<1>5. ASSUME NEW w \in Workers, NEW s \in Submissions, s = worker[w].job, row' # row,
             FinishSubmissionConditional(w) \/ FinishFails(w)
      PROVE  Rows!LifecycleNext
  <2>1. Rows!Complete(s)
    BY <1>0, <1>5 DEF FinishSubmissionConditional, FinishFails, Finished, Rows!Complete
  <2> QED
    BY <2>1 DEF Rows!LifecycleNext
<1>6. ASSUME NEW w \in Workers, NEW s \in Submissions, s = worker[w].job, row' # row,
             SetInternalError(w)
      PROVE  Rows!LifecycleNext
  <2>1. Rows!GiveUp(s)
    BY <1>0, <1>6 DEF SetInternalError, Rows!GiveUp
  <2> QED
    BY <2>1 DEF Rows!LifecycleNext
<1>7. ASSUME NEW w \in Workers,
             worker[w].at \in {"starting", "working", "giving_up"}
      PROVE  worker[w].job \in Submissions
  BY <1>7 DEF Calling, Working, Idle
<1> QED
  BY <1>1, <1>2, <1>3, <1>4, <1>5, <1>6, <1>7
  DEF TryStartSubmission, TryStartFails, FinishSubmissionConditional, FinishFails,
      SetInternalError, Next, vars, BeginStart, StartWork, StopWork, ListStaleProcessing,
      RecoverFails, Crash, Tick

LEMMA RowLimitsInvariant == Spec => []RowFacts!Limits
<1>1. Init => RowFacts!LifecycleInit
  BY DEF Init, RowFacts!LifecycleInit
<1>2. TypeOK /\ RowFacts!Limits /\ [Next]_vars => RowFacts!Limits'
  BY RowsMove, SameSteps, RowLimitsStep
<1>3. TimingInv => TypeOK
  BY DEF TimingInv
<1> QED
  BY <1>1, <1>2, <1>3, RowLimitsInitially, TimingInvariant, PTL DEF Spec

(***************************************************************************)
(* The measured attempts implement the row life cycle (FollowsLifecycle):  *)
(* no timeout, late call, skewed clock or recovery makes a row do what     *)
(* LifecycleSpec does not allow, so its limits hold as well.               *)
(***************************************************************************)
THEOREM TimingRefinesLifecycle == Spec => FollowsLifecycle
<1>1. Init => Rows!LifecycleInit
  BY DEF Init, Rows!LifecycleInit
<1>2. TimingInv /\ RowFacts!Limits /\ [Next]_vars
        => [Rows!LifecycleNext]_([s \in Submissions |-> row[s].status])
  BY RowsMove DEF TimingInv
<1> QED
  BY <1>1, <1>2, TimingInvariant, RowLimitsInvariant, PTL
  DEF Spec, FollowsLifecycle, Rows!LifecycleSpec

-----------------------------------------------------------------------------
(* How long a backlog takes.  A round lists the oldest stale rows, so each *)
(* one takes a full batch away from those ahead of a row, until the row is *)
(* on the list itself.                                                     *)

Running(s) == row[s].status = "mock_processing"

\* When a row becomes stale by the clock of w, and since when w is at work
\* on it undisturbed.
StaleFrom(w, s) == row[s].started + Stale - Skew[w]
Since(w, s) == IF setback[w] > StaleFrom(w, s) THEN setback[w] ELSE StaleFrom(w, s)

\* The rows that a round may list before s or with it, and has not listed.
Ahead(w, s) ==
  {u \in Submissions : Running(u) /\ row[u].started <= row[s].started} \ listed[w]

\* After k full batches, k batches fewer are ahead.
Shrinking(w, s) ==
  IsStale(w, s) =>
    \E k \in Nat :
      /\ ticker[w] <= Since(w, s) + RecoveryPeriod * (k + 1)
      /\ IF s \in listed[w] THEN RecoveryBatch * k < MaxActive + RecoveryBatch
         ELSE RecoveryBatch * k + Cardinality(Ahead(w, s)) <= MaxActive

LEMMA AheadFinite ==
  ASSUME NEW w \in Workers, NEW s \in Submissions
  PROVE  /\ IsFiniteSet(Ahead(w, s)) /\ Cardinality(Ahead(w, s)) \in Nat
         /\ IsFiniteSet(Ahead(w, s)') /\ Cardinality(Ahead(w, s)') \in Nat
<1>1. Ahead(w, s) \subseteq Submissions /\ Ahead(w, s)' \subseteq Submissions
  BY DEF Ahead
<1> QED
  BY <1>1, RowsAssumption, FS_Subset, FS_CardinalityType

\* Never more rows are running than may be active.
LEMMA AheadBounded ==
  ASSUME NEW w \in Workers, NEW s \in Submissions, RowFacts!Limits'
  PROVE  Cardinality(Ahead(w, s)') <= MaxActive
<1>1. Ahead(w, s)' \subseteq RowFacts!Active'
  BY DEF Ahead, Running, RowFacts!Active
<1>2. IsFiniteSet(RowFacts!Active')
  BY RowsAssumption, FS_Subset DEF RowFacts!Active
<1>3. Cardinality(RowFacts!Active') <= MaxActive
  BY SameCounts DEF RowFacts!Limits, RowFacts!GlobalCapacity
<1> QED
  BY <1>1, <1>2, <1>3, AheadFinite, FS_Subset, FS_CardinalityType, RowsAssumption

\* A row that became stale just now, or a worker that begins again, has
\* everything ahead of it and a tick to come.
LEMMA ShrinkingAfresh ==
  ASSUME NEW w \in Workers, NEW s \in Submissions, TypeOK', TickerOK(w)', RowFacts!Limits',
         clock' <= Since(w, s)'
  PROVE  Shrinking(w, s)'
<1>1. Cardinality(Ahead(w, s)') \in Nat /\ Cardinality(Ahead(w, s)') <= MaxActive
  BY AheadFinite, AheadBounded
<1>2. ticker'[w] <= clock' + RecoveryPeriod
  BY Durations DEF TickerOK, TypeOK, RecoveryPeriod
<1>3. Since(w, s)' \in Int
  BY Durations DEF TypeOK, Since, StaleFrom
<1>4. ticker'[w] <= Since(w, s)' + RecoveryPeriod * (0 + 1)
  BY <1>2, <1>3, Durations DEF TypeOK
<1>5. /\ RecoveryBatch * 0 < MaxActive + RecoveryBatch
      /\ RecoveryBatch * 0 + Cardinality(Ahead(w, s)') <= MaxActive
  BY <1>1, BatchAssumption, RowsAssumption
<1> QED
  BY <1>4, <1>5 DEF Shrinking, RecoveryPeriod

\* Fewer rows ahead, and nothing else of interest to s.
LEMMA ShrinkingFrame ==
  ASSUME NEW w \in Workers, NEW s \in Submissions, Shrinking(w, s),
         ticker'[w] = ticker[w], setback'[w] = setback[w],
         s \in listed'[w] <=> s \in listed[w],
         IsStale(w, s)' => IsStale(w, s) /\ row'[s].started = row[s].started,
         IsStale(w, s)' => Ahead(w, s)' \subseteq Ahead(w, s)
  PROVE  Shrinking(w, s)'
<1> SUFFICES ASSUME IsStale(w, s)' PROVE Shrinking(w, s)'
  BY DEF Shrinking
<1>1. Since(w, s)' = Since(w, s)
  BY DEF Since, StaleFrom
<1>2. Cardinality(Ahead(w, s)') <= Cardinality(Ahead(w, s))
  BY AheadFinite, FS_Subset
<1>3. PICK k \in Nat :
        /\ ticker[w] <= Since(w, s) + RecoveryPeriod * (k + 1)
        /\ IF s \in listed[w] THEN RecoveryBatch * k < MaxActive + RecoveryBatch
           ELSE RecoveryBatch * k + Cardinality(Ahead(w, s)) <= MaxActive
  BY DEF Shrinking
<1>4. s \notin listed[w] => RecoveryBatch * k + Cardinality(Ahead(w, s)') <= MaxActive
  <2>1. RecoveryBatch * k \in Nat
    BY BatchAssumption
  <2> QED
    BY <1>2, <1>3, <2>1, AheadFinite, RowsAssumption
<1>5. ticker'[w] <= Since(w, s)' + RecoveryPeriod' * (k + 1)
  BY <1>1, <1>3 DEF RecoveryPeriod
<1> QED
  BY <1>3, <1>4, <1>5 DEF Shrinking

\* A full batch of the oldest is taken from what is ahead of s, or s is in it.
LEMMA BatchTakesFromAhead ==
  ASSUME TypeOK, NEW w \in Workers, NEW s \in Submissions, NEW batch \in SUBSET Submissions,
         IsStale(w, s), listed[w] = {}, OldestStale(w, batch), s \notin batch
  PROVE  Cardinality(Ahead(w, s) \ batch) = Cardinality(Ahead(w, s)) - RecoveryBatch
<1>1. Cardinality(batch) = RecoveryBatch
  BY DEF OldestStale, StaleBy
<1>2. batch \subseteq Ahead(w, s)
  BY DEF OldestStale, StaleBy, IsStale, Ahead, Running
<1>3. /\ IsFiniteSet(batch)
      /\ Ahead(w, s) \cap batch = batch
  BY <1>2, RowsAssumption, FS_Subset
<1>4. Cardinality(Ahead(w, s) \ batch)
        = Cardinality(Ahead(w, s)) - Cardinality(Ahead(w, s) \cap batch)
  BY AheadFinite, FS_Difference
<1> QED
  BY <1>1, <1>3, <1>4

LEMMA ShrinkingList ==
  ASSUME TypeOK, NEW w \in Workers, NEW s \in Submissions, Shrinking(w, s),
         ListStaleProcessing(w)
  PROVE  Shrinking(w, s)'
<1> SUFFICES ASSUME IsStale(w, s)' PROVE Shrinking(w, s)'
  BY DEF Shrinking
<1>0. IsStale(w, s) /\ Since(w, s)' = Since(w, s) /\ listed[w] = {}
  BY DEF ListStaleProcessing, IsStale, Since, StaleFrom
<1>1. PICK batch \in SUBSET Submissions : OldestStale(w, batch) /\ listed'[w] = batch
  BY DEF ListStaleProcessing, TypeOK
<1>2. PICK k \in Nat :
        /\ ticker[w] <= Since(w, s) + RecoveryPeriod * (k + 1)
        /\ RecoveryBatch * k + Cardinality(Ahead(w, s)) <= MaxActive
  BY <1>0 DEF Shrinking
<1>3. /\ ticker'[w] = ticker[w] + RecoveryPeriod
      /\ ticker[w] \in Int /\ Since(w, s) \in Int /\ RecoveryPeriod \in Nat
  BY Durations DEF ListStaleProcessing, TypeOK, Since, StaleFrom
<1>4. /\ RecoveryPeriod * ((k + 1) + 1) = RecoveryPeriod * (k + 1) + RecoveryPeriod
      /\ RecoveryPeriod * (k + 1) \in Nat
      /\ RecoveryBatch * (k + 1) = RecoveryBatch * k + RecoveryBatch
      /\ RecoveryBatch * k \in Nat
  <2>1. \A a \in Nat : /\ a * ((k + 1) + 1) = a * (k + 1) + a /\ a * (k + 1) \in Nat
                       /\ a * (k + 1) = a * k + a /\ a * k \in Nat
    OBVIOUS
  <2> QED
    BY <1>3, <2>1, BatchAssumption
<1>5. ticker'[w] <= Since(w, s)' + RecoveryPeriod' * ((k + 1) + 1)
  <2>1. RecoveryPeriod' = RecoveryPeriod
    BY DEF RecoveryPeriod
  <2>2. \A a, b, c, d \in Int : a <= b + c => a + d <= b + (c + d)
    OBVIOUS
  <2>3. ticker[w] + RecoveryPeriod <= Since(w, s) + (RecoveryPeriod * (k + 1) + RecoveryPeriod)
    BY <1>2, <1>3, <1>4, <2>2
  <2> QED
    BY <1>0, <1>3, <1>4, <2>1, <2>3
<1>6. Ahead(w, s)' = Ahead(w, s) \ batch
  BY <1>0, <1>1 DEF Ahead, Running, ListStaleProcessing
<1>7. CASE s \in batch
  <2>1. s \in Ahead(w, s)
    BY <1>0 DEF Ahead, Running, IsStale, TypeOK
  <2>2. Cardinality(Ahead(w, s)) > 0
    BY <2>1, AheadFinite, FS_EmptySet
  <2>3. RecoveryBatch * (k + 1) < MaxActive + RecoveryBatch
    BY <1>2, <1>4, <2>2, AheadFinite, RowsAssumption, BatchAssumption
  <2> QED
    BY <1>1, <1>5, <1>7, <2>3 DEF Shrinking
<1>8. CASE s \notin batch
  <2>1. Cardinality(Ahead(w, s)') = Cardinality(Ahead(w, s)) - RecoveryBatch
    BY <1>0, <1>1, <1>6, <1>8, BatchTakesFromAhead
  <2>2. RecoveryBatch * (k + 1) + Cardinality(Ahead(w, s)') <= MaxActive
    BY <1>2, <1>4, <2>1, AheadFinite, RowsAssumption, BatchAssumption
  <2> QED
    BY <1>1, <1>5, <1>8, <2>2 DEF Shrinking
<1> QED
  BY <1>7, <1>8

LEMMA ShrinkingStep ==
  ASSUME TimingInv, TimingInv', RowFacts!Limits', [Next]_vars,
         NEW w \in Workers, NEW s \in Submissions, Shrinking(w, s)
  PROVE  Shrinking(w, s)'
<1>0. TypeOK /\ TypeOK' /\ TickerOK(w) /\ TickerOK(w)'
  BY DEF TimingInv
<1> USE <1>0
<1> USE DEF TypeOK
<1>1. CASE UNCHANGED <<clock, row, ticker, listed, setback>>
  BY <1>1, ShrinkingFrame DEF IsStale, Ahead, Running
<1>2. ASSUME NEW z \in Submissions, Submit(z) PROVE Shrinking(w, s)'
  BY <1>2, ShrinkingFrame DEF Submit, IsStale, Ahead, Running
<1>3. ASSUME NEW v \in Workers, NEW z \in Submissions, RecoverStaleSubmission(v, z)
      PROVE  Shrinking(w, s)'
  <2> SUFFICES ASSUME IsStale(w, s)' PROVE Shrinking(w, s)'
    BY DEF Shrinking
  <2>1. IsStale(w, s) /\ row'[s].started = row[s].started
    BY <1>3 DEF RecoverStaleSubmission, IsStale
  <2>2. CASE w # v
    BY <1>3, <2>1, <2>2, ShrinkingFrame DEF RecoverStaleSubmission, Ahead, Running
  <2>3. CASE w = v
    <3>1. s # z
      BY <1>3, <2>1, <2>3 DEF RecoverStaleSubmission, IsStale
    <3>2. ~(Running(z)' /\ row'[z].started <= row'[s].started)
      BY <1>3, <2>1, <2>3, <3>1, Durations DEF RecoverStaleSubmission, IsStale, Running
    <3>3. Ahead(w, s)' \subseteq Ahead(w, s)
      BY <1>3, <2>3, <3>1, <3>2 DEF RecoverStaleSubmission, Ahead, Running
    <3> QED
      BY <1>3, <2>1, <2>3, <3>1, <3>3, ShrinkingFrame DEF RecoverStaleSubmission
  <2> QED
    BY <2>2, <2>3
<1>4. ASSUME NEW v \in Workers, TryStartSubmission(v) \/ TryStartFails(v)
      PROVE  Shrinking(w, s)'
  <2>1. CASE UNCHANGED row
    BY <1>1, <1>4, <2>1 DEF TryStartSubmission, TryStartFails
  <2>2. CASE row' = MarkStarted(v)
    <3>1. worker[v] # Idle /\ worker[v].begun > clock + Skew[w] - Stale
      BY <1>4, AttemptIsFresh DEF TryStartSubmission, TryStartFails, Idle, TimingInv
    <3>2. worker[v].job \in Submissions /\ worker[v].begun \in Nat
      BY <3>1 DEF Calling, Working, Idle
    <3>3. CASE ~IsStale(w, s)'
      BY <3>3 DEF Shrinking
    <3>4. CASE IsStale(w, s)'
      <4>1. s # worker[v].job /\ IsStale(w, s) /\ row'[s] = row[s]
        BY <1>4, <2>2, <3>1, <3>2, <3>4, Durations
        DEF TryStartSubmission, TryStartFails, MarkStarted, IsStale
      <4>2. worker[v].begun > row[s].started
        BY <3>1, <3>2, <4>1, Durations DEF IsStale
      <4>3. Ahead(w, s)' \subseteq Ahead(w, s)
        BY <1>4, <2>2, <3>2, <4>1, <4>2
        DEF TryStartSubmission, TryStartFails, MarkStarted, Ahead, Running
      <4> QED
        BY <1>4, <4>1, <4>3, ShrinkingFrame DEF TryStartSubmission, TryStartFails
    <3> QED
      BY <3>3, <3>4
  <2> QED
    BY <1>4, <2>1, <2>2 DEF TryStartSubmission, TryStartFails
<1>5. ASSUME NEW v \in Workers,
             FinishSubmissionConditional(v) \/ FinishFails(v) \/ SetInternalError(v)
      PROVE  Shrinking(w, s)'
  <2>1. \A u \in Submissions : /\ row'[u].started = row[u].started
                               /\ Running(u)' => Running(u)
    BY <1>5 DEF FinishSubmissionConditional, FinishFails, Finished, SetInternalError, Running
  <2>2. /\ UNCHANGED <<clock, ticker, listed, setback>>
    BY <1>5 DEF FinishSubmissionConditional, FinishFails, SetInternalError
  <2>3. Ahead(w, s)' \subseteq Ahead(w, s)
    BY <2>1, <2>2 DEF Ahead
  <2>4. IsStale(w, s)' => IsStale(w, s)
    BY <2>1, <2>2 DEF IsStale, Running
  <2> QED
    BY <2>1, <2>2, <2>3, <2>4, ShrinkingFrame
<1>6. ASSUME NEW v \in Workers, ListStaleProcessing(v) PROVE Shrinking(w, s)'
  <2>1. CASE w = v
    BY <1>6, <2>1, ShrinkingList
  <2>2. CASE w # v
    BY <1>6, <2>2, ShrinkingFrame DEF ListStaleProcessing, IsStale, Ahead, Running
  <2> QED
    BY <2>1, <2>2
<1>7. ASSUME NEW v \in Workers, RecoverFails(v) \/ Crash(v) PROVE Shrinking(w, s)'
  <2>1. CASE w = v
    <3>1. setback'[w] = clock'
      BY <1>7, <2>1 DEF RecoverFails, Crash
    <3>2. clock' <= Since(w, s)'
      BY <3>1, Durations DEF Since, StaleFrom
    <3> QED
      BY <3>2, ShrinkingAfresh
  <2>2. CASE w # v
    BY <1>7, <2>2, ShrinkingFrame DEF RecoverFails, Crash, IsStale, Ahead, Running
  <2> QED
    BY <2>1, <2>2
<1>8. CASE Tick
  <2>1. CASE IsStale(w, s)
    BY <1>8, <2>1, ShrinkingFrame DEF Tick, Ahead, Running
  <2>2. CASE ~IsStale(w, s)' 
    BY <2>2 DEF Shrinking
  <2>3. CASE ~IsStale(w, s) /\ IsStale(w, s)'
    <3>1. clock' <= Since(w, s)'
      BY <1>8, <2>3, Durations DEF Tick, IsStale, Since, StaleFrom
    <3> QED
      BY <3>1, ShrinkingAfresh
  <2> QED
    BY <2>1, <2>2, <2>3
<1> QED
  BY <1>1, <1>2, <1>3, <1>4, <1>5, <1>6, <1>7, <1>8
  DEF Next, vars, BeginStart, StartWork, StopWork

BacklogShrinks == \A w \in Workers, s \in Submissions : Shrinking(w, s)

LEMMA BacklogInvariant == Spec => []BacklogShrinks
<1>1. Init => BacklogShrinks
  BY DEF Init, BacklogShrinks, Shrinking, IsStale
<1>2. TimingInv /\ TimingInv' /\ RowFacts!Limits' /\ BacklogShrinks /\ [Next]_vars
        => BacklogShrinks'
  BY ShrinkingStep DEF BacklogShrinks
<1> QED
  BY <1>1, <1>2, TimingInvariant, RowLimitsInvariant, PTL DEF Spec

\* Fewer than a full count of batches are so many rounds.
LEMMA RoundsSuffice ==
  /\ RecoveryRounds \in Nat
  /\ \A k \in Nat : RecoveryBatch * k < MaxActive => k + 1 <= RecoveryRounds
<1>1. /\ RecoveryBatch \in Nat /\ RecoveryBatch > 0
      /\ MaxActive \in Nat /\ MaxActive + RecoveryBatch - 1 \in Nat
  BY BatchAssumption, RowsAssumption
<1>2. /\ RecoveryRounds \in Nat
      /\ MaxActive + RecoveryBatch - 1 < RecoveryBatch * (RecoveryRounds + 1)
  BY <1>1 DEF RecoveryRounds
<1>3. ASSUME NEW k \in Nat, RecoveryBatch * k < MaxActive PROVE k + 1 <= RecoveryRounds
  <2> SUFFICES ASSUME RecoveryRounds + 1 <= k + 1 PROVE FALSE
    BY <1>2
  <2>1. RecoveryBatch * (RecoveryRounds + 1) <= RecoveryBatch * (k + 1)
    <3>1. \A a, b, c \in Nat : a <= b => c * a <= c * b
      OBVIOUS
    <3> QED
      BY <1>1, <1>2, <3>1
  <2>2. RecoveryBatch * (k + 1) = RecoveryBatch * k + RecoveryBatch
    BY <1>1
  <2> QED
    BY <1>1, <1>2, <1>3, <2>1, <2>2
<1> QED
  BY <1>2, <1>3

(***************************************************************************)
(* Abandoned rows come back within a known time (recoveryLoop): as many    *)
(* ticks of any one worker whose rounds succeed are enough as the active   *)
(* rows fill batches.  A row that a round misses has a batch fewer ahead   *)
(* of it at the next, nothing gets ahead of it, and a round empties its    *)
(* list.                                                                   *)
(***************************************************************************)
THEOREM AbandonedComeBack == Spec => []RecoveredInTime
<1>1. TimingInv /\ BacklogShrinks => RecoveredInTime
  <2> SUFFICES ASSUME TimingInv, BacklogShrinks, NEW s \in Submissions, NEW w \in Workers,
                      Running(s)
               PROVE  clock <= Since(w, s) + (Stale \div 2) * RecoveryRounds + Lag + RecoverTime
    BY DEF RecoveredInTime, Running, Since, StaleFrom
  <2>0. TypeOK /\ TickerOK(w) /\ Shrinking(w, s)
    BY DEF TimingInv, BacklogShrinks
  <2>1. /\ Since(w, s) \in Int /\ Since(w, s) >= StaleFrom(w, s) /\ StaleFrom(w, s) \in Int
        /\ clock \in Nat /\ ticker[w] \in Int
        /\ RecoveryPeriod \in Nat /\ RecoveryPeriod = Stale \div 2
        /\ RecoveryBatch \in Nat /\ MaxActive \in Nat /\ {Lag, RecoverTime} \subseteq Nat
    BY <2>0, Durations, BatchAssumption, RowsAssumption DEF TypeOK, Since, StaleFrom, RecoveryPeriod
  <2>2. RecoveryPeriod * RecoveryRounds \in Nat
    BY <2>1, RoundsSuffice
  <2>3. \A k \in Nat : k <= RecoveryRounds
          => RecoveryPeriod * k \in Nat /\ RecoveryPeriod * k <= RecoveryPeriod * RecoveryRounds
    <3>1. \A a, b, c \in Nat : a <= b => c * a \in Nat /\ c * a <= c * b
      OBVIOUS
    <3> QED
      BY <2>1, <3>1, RoundsSuffice
  <2>4. CASE ~IsStale(w, s)
    <3>1. clock < StaleFrom(w, s)
      BY <2>0, <2>4, Durations DEF IsStale, Running, StaleFrom, TypeOK
    <3> QED
      BY <2>1, <2>2, <3>1
  <2>5. CASE IsStale(w, s)
    <3>1. PICK k \in Nat :
            /\ ticker[w] <= Since(w, s) + RecoveryPeriod * (k + 1)
            /\ IF s \in listed[w] THEN RecoveryBatch * k < MaxActive + RecoveryBatch
               ELSE RecoveryBatch * k + Cardinality(Ahead(w, s)) <= MaxActive
      BY <2>0, <2>5 DEF Shrinking
    <3>2. CASE s \notin listed[w]
      <4>1. s \in Ahead(w, s)
        BY <2>0, <3>2 DEF Ahead, Running, TypeOK
      <4>2. Cardinality(Ahead(w, s)) > 0
        BY <4>1, AheadFinite, FS_EmptySet
      <4>3. RecoveryBatch * k < MaxActive
        <5>1. RecoveryBatch * k \in Nat
          BY <2>1
        <5> QED
          BY <2>1, <3>1, <3>2, <4>2, <5>1, AheadFinite
      <4>4. /\ RecoveryPeriod * (k + 1) <= RecoveryPeriod * RecoveryRounds
            /\ RecoveryPeriod * (k + 1) \in Nat
        BY <2>3, <4>3, RoundsSuffice
      <4>5. clock <= ticker[w] + Lag
        BY <2>0 DEF TickerOK
      <4> QED
        BY <2>1, <2>2, <3>1, <4>4, <4>5
    <3>3. CASE s \in listed[w]
      <4>1. k <= RecoveryRounds
        <5>1. CASE k = 0
          BY <5>1, RoundsSuffice
        <5>2. CASE k > 0
          <6>1. RecoveryBatch * (k - 1) < MaxActive
            <7>1. RecoveryBatch * k = RecoveryBatch * (k - 1) + RecoveryBatch
              BY <2>1
            <7>2. RecoveryBatch * (k - 1) \in Nat
              BY <2>1, <5>2
            <7> QED
              BY <2>1, <3>1, <3>3, <7>1, <7>2
          <6> QED
            BY <5>2, <6>1, RoundsSuffice
        <5> QED
          BY <5>1, <5>2
      <4>2. /\ RecoveryPeriod * k <= RecoveryPeriod * RecoveryRounds
            /\ RecoveryPeriod * k \in Nat
        BY <2>3, <4>1
      <4>3. RecoveryPeriod * (k + 1) = RecoveryPeriod * k + RecoveryPeriod
        BY <2>1
      <4>4. clock <= ticker[w] - RecoveryPeriod + Lag + RecoverTime
        BY <2>0, <3>3 DEF TickerOK
      <4> QED
        BY <2>1, <2>2, <3>1, <4>2, <4>3, <4>4
    <3> QED
      BY <3>2, <3>3
  <2> QED
    BY <2>4, <2>5
<1> QED
  BY <1>1, TimingInvariant, BacklogInvariant, PTL

-----------------------------------------------------------------------------
(* OutboxTiming.  A pause is kept because available_at is counted from the *)
(* start of the failed try and nobody locks the row before it.             *)

OutboxRows == [state : {"waiting", "delivered"}, attempts : Nat, available : Int, recorded : Nat]
SendingStates ==
  [at : {"sending"}, i : Nat, event : Events, begun : Nat, healthy : BOOLEAN]
LoopStates == {Resting} \cup [at : {"next"}, i : Nat] \cup SendingStates

OutboxTypes ==
  /\ now \in Nat /\ redis \in [up : BOOLEAN, since : Nat]
  /\ event \in [Events -> {NoRow} \cup OutboxRows]
  /\ lastTry \in [Events -> Nat]
  /\ loop \in [Dispatchers -> LoopStates]

\* A failed event e that became the row r is not due before its pause is over.
Paused(r, last) ==
  r \in OutboxRows /\ r.attempts > 0 => r.available >= last + Backoff(r.attempts - 1)

\* Whoever sends an event has locked a row that was due, and is alone.
HoldsDue(l, r) == l.at = "sending" => r \in OutboxRows /\ l.begun >= r.available

SpacedInv ==
  /\ OutboxTypes
  /\ \A e \in Events : Paused(event[e], lastTry[e])
  /\ \A d \in Dispatchers : loop[d].at = "sending" => HoldsDue(loop[d], event[loop[d].event])
  /\ \A d, c \in Dispatchers :
       loop[d].at = "sending" /\ loop[c].at = "sending" /\ loop[d].event = loop[c].event => d = c

LEMMA BackoffFits ==
  ASSUME NEW n \in Nat
  PROVE  /\ Backoff(n) \in Nat
         /\ Backoff(n) >= MaxBackoff \/ Backoff(n) >= Shifted(min(n, ShiftCap))
<1>1. min(n, ShiftCap) \in 0..ShiftCap
  BY OutboxTimingAssumption DEF min
<1>2. /\ Shifted(min(n, ShiftCap)) \in 0..(Half - 1)
      /\ Half \in Nat /\ MaxBackoff \in Nat
  BY <1>1, OutboxTimingAssumption
<1>3. ASSUME NEW x \in 0..(Half - 1) PROVE Wrapped(x) = x
  BY <1>2, <1>3 DEF Wrapped
<1> QED
  BY <1>2, <1>3 DEF Backoff, min

\* A loop that lets go of its event, if it had one, or goes on without one.
LEMMA LetsGo ==
  ASSUME SpacedInv, NEW d \in Dispatchers, NEW l \in LoopStates, l.at # "sending",
         loop' = [loop EXCEPT ![d] = l], UNCHANGED <<event, lastTry>>,
         now' \in Nat, redis' \in [up : BOOLEAN, since : Nat]
  PROVE  SpacedInv'
<1>1. OutboxTypes'
  BY DEF SpacedInv, OutboxTypes
<1>2. \A c \in Dispatchers : loop'[c].at = "sending" => loop'[c] = loop[c]
  BY DEF SpacedInv, OutboxTypes
<1> QED
  BY <1>1, <1>2 DEF SpacedInv

LEMMA SpacedStep ==
  ASSUME SpacedInv, [OutboxNext]_outboxVars
  PROVE  SpacedInv'
<1> USE DEF SpacedInv
<1>0. /\ Resting \in LoopStates /\ Resting.at # "sending"
      /\ \A d \in Dispatchers : loop[d] \in LoopStates
  BY DEF Resting, LoopStates, SendingStates, OutboxTypes
<1>1. ASSUME NEW e \in Events, Record(e) PROVE SpacedInv'
  <2> DEFINE r == [state |-> "waiting", attempts |-> 0, available |-> now, recorded |-> now]
  <2>1. r \in OutboxRows /\ r.attempts = 0 /\ NoRow \notin OutboxRows
    BY DEF OutboxRows, OutboxTypes, NoRow
  <2>2. /\ event[e] = NoRow /\ event' = [event EXCEPT ![e] = r]
        /\ UNCHANGED <<now, lastTry, loop, redis>>
    BY <1>1 DEF Record
  <2> HIDE DEF r
  <2>3. OutboxTypes'
    BY <2>1, <2>2 DEF OutboxTypes
  <2>4. ASSUME NEW f \in Events PROVE Paused(event'[f], lastTry'[f])
    BY <2>1, <2>2 DEF OutboxTypes, Paused
  <2>5. ASSUME NEW d \in Dispatchers, loop'[d].at = "sending"
        PROVE  HoldsDue(loop'[d], event'[loop'[d].event])
    BY <2>1, <2>2, <2>5 DEF OutboxTypes, HoldsDue
  <2> QED
    BY <2>2, <2>3, <2>4, <2>5
<1>2. ASSUME NEW d \in Dispatchers, TickerFires(d) PROVE SpacedInv'
  <2> DEFINE l == [at |-> "next", i |-> 0]
  <2>1. l \in LoopStates /\ l.at # "sending" /\ loop' = [loop EXCEPT ![d] = l]
    BY <1>2 DEF TickerFires, LoopStates, SendingStates
  <2> HIDE DEF l
  <2> QED
    BY <1>2, <2>1, LetsGo DEF TickerFires, OutboxTypes
<1>3. ASSUME NEW d \in Dispatchers, LockNextOutbox(d) PROVE SpacedInv'
  <2>1. CASE loop' = [loop EXCEPT ![d] = Resting]
    BY <1>0, <1>3, <2>1, LetsGo DEF LockNextOutbox, OutboxTypes
  <2>2. ASSUME NEW e \in Due,
               loop' = [loop EXCEPT ![d] = [at |-> "sending", i |-> loop[d].i, event |-> e,
                                            begun |-> now, healthy |-> redis.up]]
        PROVE  SpacedInv'
    <3> DEFINE l == [at |-> "sending", i |-> loop[d].i, event |-> e,
                     begun |-> now, healthy |-> redis.up]
    <3>1. loop[d].at = "next" /\ UNCHANGED <<now, event, lastTry, redis>>
      BY <1>3 DEF LockNextOutbox
    <3>2. loop[d].i \in Nat
      BY <1>0, <3>1 DEF LoopStates, SendingStates, Resting
    <3>3. /\ e \in Events /\ e \notin Locked
          /\ event[e].state = "waiting" /\ event[e].available <= now
      BY <2>2 DEF Due
    <3>4. l \in LoopStates /\ l.event = e /\ l.begun = now /\ l.at = "sending"
      BY <3>2, <3>3 DEF LoopStates, SendingStates, OutboxTypes
    <3>5. loop' = [loop EXCEPT ![d] = l]
      BY <2>2
    <3> HIDE DEF l
    <3>6. event[e] \in OutboxRows
      <4>1. NoRow.state # "waiting"
        BY DEF NoRow
      <4>2. event[e] \in {NoRow} \cup OutboxRows
        BY <3>3 DEF OutboxTypes
      <4> QED
        BY <3>3, <4>1, <4>2
    <3>7. \A c \in Dispatchers \ {d} :
            loop'[c] = loop[c] /\ (loop[c].at = "sending" => loop[c].event # e)
      BY <3>3, <3>5 DEF Locked, OutboxTypes
    <3>8. loop'[d] = l
      BY <3>5 DEF OutboxTypes
    <3>9. OutboxTypes'
      BY <3>1, <3>4, <3>5 DEF OutboxTypes
    <3>10. HoldsDue(l, event[e])
      BY <3>3, <3>4, <3>6 DEF HoldsDue, OutboxTypes, OutboxRows
    <3> QED
      BY <3>1, <3>4, <3>7, <3>8, <3>9, <3>10
  <2> QED
    BY <1>3, <2>1, <2>2 DEF LockNextOutbox
<1>4. ASSUME NEW d \in Dispatchers, loop[d].at = "sending"
      PROVE  /\ loop[d] \in SendingStates
             /\ NextInBatch(d) = [loop EXCEPT ![d] = [at |-> "next", i |-> loop[d].i + 1]]
             /\ [at |-> "next", i |-> loop[d].i + 1] \in LoopStates
             /\ event[loop[d].event] \in OutboxRows
             /\ \A c \in Dispatchers \ {d} :
                  loop[c].at = "sending" => loop[c].event # loop[d].event
  <2>1. loop[d] \in SendingStates
    BY <1>0, <1>4 DEF LoopStates, SendingStates, Resting
  <2> QED
    BY <1>4, <2>1 DEF NextInBatch, LoopStates, SendingStates, HoldsDue
<1>5. ASSUME NEW d \in Dispatchers, NEW e \in Events, NEW r \in OutboxRows, NEW last \in Nat,
             loop[d].at = "sending", e = loop[d].event,
             event' = [event EXCEPT ![e] = r], lastTry' = [lastTry EXCEPT ![e] = last],
             loop' = NextInBatch(d), UNCHANGED <<now, redis>>, Paused(r, last)
      PROVE  SpacedInv'
  <2> DEFINE l == [at |-> "next", i |-> loop[d].i + 1]
  <2>1. l \in LoopStates /\ l.at # "sending" /\ loop' = [loop EXCEPT ![d] = l]
    BY <1>4, <1>5
  <2> HIDE DEF l
  <2>2. OutboxTypes'
    BY <1>5, <2>1 DEF OutboxTypes
  <2>3. ASSUME NEW f \in Events PROVE Paused(event'[f], lastTry'[f])
    BY <1>5 DEF OutboxTypes
  <2>4. ASSUME NEW c \in Dispatchers, loop'[c].at = "sending"
        PROVE  loop'[c] = loop[c] /\ event'[loop[c].event] = event[loop[c].event]
    BY <1>4, <1>5, <2>1, <2>4 DEF OutboxTypes
  <2> QED
    BY <2>2, <2>3, <2>4
<1>6. ASSUME NEW d \in Dispatchers, MarkDelivered(d) PROVE SpacedInv'
  <2>1. /\ loop[d].at = "sending" /\ loop' = NextInBatch(d)
        /\ UNCHANGED <<now, lastTry, redis>>
    BY <1>6 DEF MarkDelivered
  <2>2. PICK e \in Events : e = loop[d].event /\ event[e] \in OutboxRows
    BY <1>4, <2>1 DEF SendingStates
  <2> DEFINE r == [event[e] EXCEPT !.state = "delivered"]
  <2>3. r \in OutboxRows /\ Paused(r, lastTry[e]) /\ event' = [event EXCEPT ![e] = r]
    <3>1. r \in OutboxRows /\ r.attempts = event[e].attempts /\ r.available = event[e].available
      BY <2>2 DEF OutboxRows
    <3>2. event' = [event EXCEPT ![e] = r]
      BY <1>6, <2>2 DEF MarkDelivered
    <3> QED
      BY <2>2, <3>1, <3>2 DEF Paused
  <2>4. lastTry' = [lastTry EXCEPT ![e] = lastTry[e]] /\ lastTry[e] \in Nat
    BY <2>1 DEF OutboxTypes
  <2> HIDE DEF r
  <2> QED
    BY <1>5, <2>1, <2>2, <2>3, <2>4
<1>7. ASSUME NEW d \in Dispatchers, EnqueueFails(d) PROVE SpacedInv'
  <2>1. loop[d].at = "sending" /\ loop' = NextInBatch(d) /\ UNCHANGED <<now, redis>>
    BY <1>7 DEF EnqueueFails
  <2>2. PICK e \in Events : e = loop[d].event /\ event[e] \in OutboxRows
    BY <1>4, <2>1 DEF SendingStates
  <2>3. loop[d].begun \in Nat /\ event[e].attempts \in Nat
    BY <1>4, <2>1, <2>2 DEF OutboxRows, SendingStates
  <2>4. Backoff(event[e].attempts) \in Nat
    BY <2>3, BackoffFits
  <2> DEFINE k == event[e].attempts + 1
             v == loop[d].begun + Backoff(event[e].attempts)
             r == [event[e] EXCEPT !.attempts = k, !.available = v]
  <2>5. k \in Nat /\ k - 1 = event[e].attempts /\ v \in Int
    BY <2>3, <2>4
  <2>6. event' = [event EXCEPT ![e] = r] /\ lastTry' = [lastTry EXCEPT ![e] = loop[d].begun]
    BY <1>7, <2>2 DEF EnqueueFails, OutboxTypes, OutboxRows
  <2>7. v = loop[d].begun + Backoff(k - 1)
    BY <2>5
  <2> HIDE DEF k, v
  <2>8. r \in OutboxRows /\ r.attempts = k /\ r.available = v
    BY <2>2, <2>5 DEF OutboxRows
  <2>9. Paused(r, loop[d].begun)
    BY <2>3, <2>4, <2>5, <2>7, <2>8 DEF Paused
  <2> HIDE DEF r
  <2> QED
    BY <1>5, <2>1, <2>2, <2>3, <2>6, <2>8, <2>9
<1>8. ASSUME NEW d \in Dispatchers, DispatchRollback(d) \/ DispatcherCrash(d) PROVE SpacedInv'
  BY <1>0, <1>8, LetsGo DEF DispatchRollback, DispatcherCrash, OutboxTypes
<1>9. CASE RedisDown
  <2>1. /\ UNCHANGED <<now, event, lastTry>> /\ redis' \in [up : BOOLEAN, since : Nat]
    BY <1>9 DEF RedisDown, OutboxTypes
  <2>2. ASSUME NEW d \in Dispatchers
        PROVE  /\ loop'[d] \in LoopStates /\ loop'[d].at = loop[d].at
               /\ loop[d].at = "sending" =>
                    loop'[d].event = loop[d].event /\ loop'[d].begun = loop[d].begun
    <3>1. CASE loop[d].at = "sending"
      <4>1. loop'[d] = [loop[d] EXCEPT !.healthy = FALSE]
        BY <1>9, <3>1 DEF RedisDown
      <4> QED
        BY <1>4, <3>1, <4>1 DEF LoopStates, SendingStates
    <3>2. CASE loop[d].at # "sending"
      BY <1>0, <1>9, <3>2 DEF RedisDown
    <3> QED
      BY <3>1, <3>2
  <2>3. loop' \in [Dispatchers -> LoopStates]
    BY <1>9, <2>2 DEF RedisDown
  <2>4. OutboxTypes'
    BY <2>1, <2>3 DEF OutboxTypes
  <2>5. ASSUME NEW d \in Dispatchers, loop'[d].at = "sending"
        PROVE  HoldsDue(loop'[d], event'[loop'[d].event])
    BY <2>1, <2>2, <2>5 DEF HoldsDue
  <2>6. \A d, c \in Dispatchers :
          /\ loop'[d].at = "sending" /\ loop'[c].at = "sending"
          /\ loop'[d].event = loop'[c].event
          => d = c
    BY <2>2
  <2> QED
    BY <2>1, <2>4, <2>5, <2>6
<1>10. CASE RedisUp \/ TimePasses \/ UNCHANGED outboxVars
  <2>1. /\ UNCHANGED <<event, lastTry, loop>>
        /\ now' \in Nat /\ redis' \in [up : BOOLEAN, since : Nat]
    <3>1. CASE RedisUp
      BY <3>1 DEF RedisUp, OutboxTypes
    <3>2. CASE TimePasses \/ UNCHANGED outboxVars
      BY <3>2 DEF TimePasses, outboxVars, OutboxTypes
    <3> QED
      BY <1>10, <3>1, <3>2
  <2> QED
    BY <2>1 DEF OutboxTypes
<1> QED
  BY <1>1, <1>2, <1>3, <1>6, <1>7, <1>8, <1>9, <1>10 DEF OutboxNext

(***************************************************************************)
(* No hammering (ProcessNextOutbox), for any number of dispatchers and     *)
(* events and however long the outage: an event is tried again only after  *)
(* the pause its failures have earned.  The cap on the shift keeps the     *)
(* delay within the integer, and the row lock keeps a second dispatcher    *)
(* from trying in between.                                                 *)
(***************************************************************************)
THEOREM RetriesAreSpaced ==
  OutboxSpec => []RetriesSpaced
<1>1. OutboxInit => SpacedInv
  <2> SUFFICES ASSUME OutboxInit PROVE SpacedInv
    OBVIOUS
  <2>1. OutboxTypes /\ \A d \in Dispatchers : loop[d].at = "idle"
    BY DEF OutboxInit, OutboxTypes, LoopStates, SendingStates, Resting
  <2>2. \A e \in Events : event[e] \notin OutboxRows
    BY DEF OutboxInit, NoRow, OutboxRows
  <2> QED
    BY <2>1, <2>2 DEF SpacedInv, Paused
<1>2. SpacedInv /\ [OutboxNext]_outboxVars => SpacedInv'
  BY SpacedStep
<1>3. SpacedInv => RetriesSpaced
  <2> SUFFICES ASSUME SpacedInv PROVE RetriesSpaced
    OBVIOUS
  <2> SUFFICES ASSUME NEW d \in Dispatchers, NEW e \in Events,
                      loop[d].at = "sending", e = loop[d].event, event[e].attempts > 0
               PROVE  \/ loop[d].begun - lastTry[e] >= MaxBackoff
                      \/ loop[d].begun - lastTry[e] >=
                           Shifted(min(event[e].attempts - 1, ShiftCap))
    <3>1. \A d \in Dispatchers : loop[d].at = "sending" => loop[d].event \in Events
      BY DEF SpacedInv, OutboxTypes, LoopStates, SendingStates, Resting
    <3> QED
      BY <3>1 DEF RetriesSpaced
  <2>1. loop[d] \in LoopStates /\ HoldsDue(loop[d], event[e]) /\ Paused(event[e], lastTry[e])
        /\ lastTry[e] \in Nat
    BY DEF SpacedInv, OutboxTypes
  <2>2. loop[d].begun \in Nat /\ event[e].available \in Int /\ event[e].attempts \in Nat
        /\ loop[d].begun >= event[e].available /\ event[e] \in OutboxRows
    BY <2>1 DEF LoopStates, SendingStates, Resting, HoldsDue, OutboxRows
  <2> DEFINE n == event[e].attempts - 1
  <2>3. n \in Nat /\ event[e].available >= lastTry[e] + Backoff(n)
    BY <2>1, <2>2 DEF Paused
  <2>4. /\ Backoff(n) \in Nat
        /\ Backoff(n) >= MaxBackoff \/ Backoff(n) >= Shifted(min(n, ShiftCap))
    BY <2>3, BackoffFits
  <2>5. min(n, ShiftCap) \in 0..ShiftCap /\ MaxBackoff \in Nat
    BY <2>3, OutboxTimingAssumption DEF min
  <2>6. Shifted(min(n, ShiftCap)) \in Int
    BY <2>5, OutboxTimingAssumption
  <2> QED
    BY <2>1, <2>2, <2>3, <2>4, <2>5, <2>6
<1> QED
  BY <1>1, <1>2, <1>3, PTL DEF OutboxSpec

-----------------------------------------------------------------------------
(* Catching up.  Once the calls of the outage have ended and the longest   *)
(* pause is over, a loop sends a full batch on every tick as long as a     *)
(* given event is waiting, unless others have that event locked; then they *)
(* deliver it at once, or a failure is spent.                              *)

Later(a, b) == IF a < b THEN b ELSE a
LongestWait == Later(OpTimeout, MaxBackoff)

\* When outages and failures are forgotten by a loop, and also by an event.
Calm(d) == Later(redis.since, disturbed[d]) + LongestWait
Base(e, d) == Later(Calm(d), event[e].recorded + LongestWait)

LoopTypes ==
  /\ nextTick \in [Dispatchers -> Nat] /\ disturbed \in [Dispatchers -> Nat]
  /\ failures \in Nat /\ redis.since <= now
  /\ \A d \in Dispatchers : nextTick[d] <= now + PollInterval

\* A call that may fail is not older than the outage, and ends in time.
CallsEnd ==
  \A d \in Dispatchers : loop[d].at = "sending" =>
    /\ loop[d].begun <= now /\ now <= loop[d].begun + OpTimeout
    /\ redis.up /\ ~loop[d].healthy => loop[d].begun <= redis.since

DueInTime ==
  \A e \in Events : event[e].state = "waiting" =>
    \/ event[e].available <= event[e].recorded
    \/ event[e].available <= (IF redis.up THEN redis.since ELSE now) + MaxBackoff

\* No tick is late, and a batch that has begun has used up its tick.
OnTime(d) ==
  redis.up /\ now > Calm(d) =>
    now <= nextTick[d] /\ (loop[d] # Resting => now < nextTick[d])

CalmInv ==
  SpacedInv /\ LoopTypes /\ CallsEnd /\ DueInTime /\ \A d \in Dispatchers : OnTime(d)

\* The events that are delivered, or that the loop will deliver now.
Done(d) ==
  {f \in Events : event[f].state = "delivered" \/ (loop[d].at = "sending" /\ loop[d].event = f)}

\* What a batch under way still lacks, as a negative number.
Surplus(l) ==
  IF l.at = "sending" THEN l.i + 1 - Batch ELSE IF l.at = "next" THEN l.i - Batch ELSE 0

\* A loop that found nothing because another has the event.
Excused(e, d) ==
  /\ loop[d] = Resting /\ now < nextTick[d]
  /\ \E c \in Dispatchers : loop[c].at = "sending" /\ loop[c].event = e

Excuses(e, d) == failures + IF Excused(e, d) THEN 1 ELSE 0

\* There were at most k ticks, each a full batch or excused.
Busy(e, d, k) ==
  /\ nextTick[d] <= Base(e, d) + PollInterval + PollInterval * k
  /\ Batch * k + Surplus(loop[d]) <= Cardinality(Done(d)) + Batch * Excuses(e, d)

Progress(e, d) ==
  redis.up /\ event[e].state = "waiting" /\ now > Base(e, d) => \E k \in Nat : Busy(e, d, k)

NotLate(e, d) ==
  redis.up /\ event[e].state = "waiting" =>
    now <= Base(e, d) + PollInterval * (Rounds + failures)

CatchingUp ==
  CalmInv /\ \A e \in Events, d \in Dispatchers : Progress(e, d) /\ NotLate(e, d)

LEMMA Numbers ==
  /\ PollInterval \in Nat \ {0} /\ OpTimeout \in Nat \ {0} /\ MaxBackoff \in Nat \ {0}
  /\ Batch \in Nat \ {0} /\ IsFiniteSet(Events)
  /\ LongestWait \in Nat /\ LongestWait >= OpTimeout /\ LongestWait >= MaxBackoff
  BY OutboxTimingAssumption DEF LongestWait, Later

LEMMA BackoffIsLimited ==
  ASSUME NEW n \in Nat
  PROVE  Backoff(n) \in Nat /\ Backoff(n) <= MaxBackoff
<1>1. min(n, ShiftCap) \in 0..ShiftCap
  BY OutboxTimingAssumption DEF min
<1>2. /\ Shifted(min(n, ShiftCap)) \in 0..(Half - 1)
      /\ Half \in Nat /\ MaxBackoff \in Nat
  BY <1>1, OutboxTimingAssumption
<1>3. ASSUME NEW x \in 0..(Half - 1) PROVE Wrapped(x) = x
  BY <1>2, <1>3 DEF Wrapped
<1> QED
  BY <1>2, <1>3 DEF Backoff, min

\* The tick after now: dropped ones are skipped.
LEMMA TickAdvances ==
  ASSUME NEW n \in Nat, NEW t \in Nat, t <= n
  PROVE  LET u == t + PollInterval * ((n - t) \div PollInterval + 1) IN
         /\ u \in Nat /\ n < u /\ u <= n + PollInterval
         /\ t = n => u = t + PollInterval
<1> DEFINE q == (n - t) \div PollInterval
<1>1. PollInterval \in Nat \ {0}
  BY Numbers
<1>2. /\ q \in Int /\ PollInterval * q \in Int /\ PollInterval * q <= n - t
      /\ n - t < PollInterval * q + PollInterval
  BY <1>1
<1>3. PollInterval * (q + 1) = PollInterval * q + PollInterval
  BY <1>1, <1>2
<1>4. t = n => q = 0
  BY <1>1
<1> HIDE DEF q
<1>5. q = 0 => PollInterval * q = 0
  BY <1>1
<1>6. /\ t + PollInterval * (q + 1) \in Nat /\ n < t + PollInterval * (q + 1)
      /\ t + PollInterval * (q + 1) <= n + PollInterval
      /\ t = n => t + PollInterval * (q + 1) = t + PollInterval
  BY <1>1, <1>2, <1>3, <1>4, <1>5
<1> QED
  BY <1>6 DEF q

\* What a loop knows in each of its states.
LEMMA LoopKnows ==
  ASSUME OutboxTypes, NEW d \in Dispatchers
  PROVE  /\ loop[d].at \in {"idle", "next", "sending"}
         /\ loop[d].at = "idle" <=> loop[d] = Resting
         /\ loop[d].at # "idle" => loop[d].i \in Nat
         /\ loop[d].at = "sending" => loop[d] \in SendingStates
<1>1. loop[d] \in LoopStates
  BY DEF OutboxTypes
<1> QED
  BY <1>1 DEF LoopStates, SendingStates, Resting

\* Every step keeps the types, the calls in time and the events due in time.
LEMMA LoopTypesStep ==
  ASSUME OutboxTypes, LoopTypes, [OutboxNext]_outboxVars
  PROVE  LoopTypes'
<1> USE Numbers DEF LoopTypes, OutboxTypes
<1>1. ASSUME NEW d \in Dispatchers, TickerFires(d) PROVE LoopTypes'
  <2> DEFINE u == nextTick[d] + PollInterval * ((now - nextTick[d]) \div PollInterval + 1)
  <2>1. u \in Nat /\ u <= now + PollInterval
    BY <1>1, TickAdvances DEF TickerFires
  <2>2. /\ nextTick' = [nextTick EXCEPT ![d] = u]
        /\ UNCHANGED <<now, redis, failures, disturbed>>
    BY <1>1 DEF TickerFires
  <2> HIDE DEF u
  <2> QED
    BY <2>1, <2>2
<1>2. ASSUME NEW d \in Dispatchers, DispatchRollback(d) PROVE LoopTypes'
  BY <1>2 DEF DispatchRollback, Failure
<1>3. ASSUME NEW d \in Dispatchers, DispatcherCrash(d) PROVE LoopTypes'
  BY <1>3 DEF DispatcherCrash, Failure
<1>4. CASE RedisDown
  BY <1>4 DEF RedisDown, Failure
<1>5. CASE RedisUp
  BY <1>5 DEF RedisUp
<1>6. CASE TimePasses
  BY <1>6 DEF TimePasses
<1>7. CASE UNCHANGED <<now, nextTick, redis, failures, disturbed>>
  BY <1>7
<1> QED
  BY <1>1, <1>2, <1>3, <1>4, <1>5, <1>6, <1>7
  DEF OutboxNext, outboxVars, Record, LockNextOutbox, MarkDelivered, EnqueueFails

LEMMA CallsEndStep ==
  ASSUME OutboxTypes, LoopTypes, CallsEnd, [OutboxNext]_outboxVars
  PROVE  CallsEnd'
<1> DEFINE Ends(d) ==
             /\ loop[d].begun <= now /\ now <= loop[d].begun + OpTimeout
             /\ redis.up /\ ~loop[d].healthy => loop[d].begun <= redis.since
<1> SUFFICES ASSUME NEW d \in Dispatchers, loop'[d].at = "sending" PROVE Ends(d)'
  BY DEF CallsEnd
<1> USE Numbers
<1>1. /\ now \in Nat /\ redis \in [up : BOOLEAN, since : Nat] /\ redis.since <= now
      /\ loop \in [Dispatchers -> LoopStates]
  BY DEF OutboxTypes, LoopTypes
<1>2. loop[d].at = "sending" => loop[d] \in SendingStates /\ loop[d].begun \in Nat /\ Ends(d)
  BY LoopKnows DEF CallsEnd, SendingStates
<1>3. CASE loop'[d] = loop[d] /\ UNCHANGED <<now, redis>>
  BY <1>2, <1>3
<1>4. ASSUME NEW c \in Dispatchers, LockNextOutbox(c) PROVE Ends(d)'
  <2>1. UNCHANGED <<now, redis>>
    BY <1>4 DEF LockNextOutbox
  <2>2. CASE c # d
    BY <1>1, <1>3, <1>4, <2>1, <2>2 DEF LockNextOutbox
  <2>3. CASE c = d
    <3>1. loop'[d].begun = now /\ loop'[d].healthy = redis.up
      BY <1>1, <1>4, <2>3 DEF LockNextOutbox, Resting
    <3> QED
      BY <1>1, <2>1, <3>1
  <2> QED
    BY <2>2, <2>3
<1>5. ASSUME NEW c \in Dispatchers,
             \/ TickerFires(c) \/ MarkDelivered(c) \/ EnqueueFails(c)
             \/ DispatchRollback(c) \/ DispatcherCrash(c)
      PROVE  Ends(d)'
  <2>1. UNCHANGED <<now, redis>> /\ \A b \in Dispatchers : b # c => loop'[b] = loop[b]
    BY <1>1, <1>5
    DEF TickerFires, MarkDelivered, EnqueueFails, NextInBatch, DispatchRollback, DispatcherCrash
  <2>2. loop'[c].at # "sending"
    BY <1>1, <1>5
    DEF TickerFires, MarkDelivered, EnqueueFails, NextInBatch, DispatchRollback, DispatcherCrash,
        Resting
  <2> QED
    BY <1>3, <2>1, <2>2
<1>6. CASE RedisDown
  <2>1. loop[d].at = "sending" /\ loop'[d].begun = loop[d].begun
    BY <1>2, <1>6 DEF RedisDown, SendingStates
  <2>2. now' = now /\ ~redis'.up
    BY <1>1, <1>6 DEF RedisDown
  <2> QED
    BY <1>2, <2>1, <2>2
<1>7. CASE RedisUp
  <2>1. loop'[d] = loop[d] /\ now' = now /\ redis'.since = now
    BY <1>7 DEF RedisUp
  <2> QED
    BY <1>2, <2>1
<1>8. CASE TimePasses
  <2>1. loop' = loop /\ redis' = redis /\ now' = now + 1 /\ now < loop[d].begun + OpTimeout
    BY <1>8 DEF TimePasses, Resting
  <2> QED
    BY <1>1, <1>2, <2>1
<1> QED
  BY <1>3, <1>4, <1>5, <1>6, <1>7, <1>8 DEF OutboxNext, outboxVars, Record

LEMMA DueInTimeStep ==
  ASSUME OutboxTypes, LoopTypes, CallsEnd, DueInTime, [OutboxNext]_outboxVars
  PROVE  DueInTime'
<1> DEFINE Latest == IF redis.up THEN redis.since ELSE now
           Soon(e) == \/ event[e].available <= event[e].recorded
                      \/ event[e].available <= Latest + MaxBackoff
<1> SUFFICES ASSUME NEW e \in Events, event'[e].state = "waiting" PROVE Soon(e)'
  BY DEF DueInTime
<1> USE Numbers
<1>1. /\ now \in Nat /\ redis \in [up : BOOLEAN, since : Nat] /\ redis.since <= now
      /\ event \in [Events -> {NoRow} \cup OutboxRows]
  BY DEF OutboxTypes, LoopTypes
<1>2. event[e].state = "waiting" => event[e] \in OutboxRows /\ Soon(e)
  BY <1>1 DEF DueInTime, NoRow
<1>3. CASE event'[e] = event[e] /\ UNCHANGED <<now, redis>>
  BY <1>2, <1>3
<1>4. ASSUME NEW f \in Events, Record(f) PROVE Soon(e)'
  <2>1. CASE e = f
    BY <1>1, <1>4, <2>1 DEF Record
  <2>2. CASE e # f
    BY <1>1, <1>3, <1>4, <2>2 DEF Record
  <2> QED
    BY <2>1, <2>2
<1>5. ASSUME NEW c \in Dispatchers, MarkDelivered(c) PROVE Soon(e)'
  <2>1. e # loop[c].event
    BY <1>1, <1>5 DEF MarkDelivered, OutboxRows, NoRow
  <2> QED
    BY <1>1, <1>3, <1>5, <2>1 DEF MarkDelivered
<1>6. ASSUME NEW c \in Dispatchers, EnqueueFails(c) PROVE Soon(e)'
  <2>1. CASE e # loop[c].event
    BY <1>1, <1>3, <1>6, <2>1 DEF EnqueueFails
  <2>2. CASE e = loop[c].event
    <3>1. /\ loop[c].begun \in Nat /\ loop[c].begun <= now
          /\ redis.up => loop[c].begun <= redis.since
      BY <1>6, LoopKnows DEF EnqueueFails, CallsEnd, SendingStates
    <3>2. event[e].state = "waiting"
      BY <1>1, <1>6, <2>2 DEF EnqueueFails, OutboxRows, NoRow
    <3>3. event[e] \in OutboxRows /\ event[e].attempts \in Nat
      BY <1>2, <3>2 DEF OutboxRows
    <3>4. Backoff(event[e].attempts) \in Nat /\ Backoff(event[e].attempts) <= MaxBackoff
      BY <3>3, BackoffIsLimited
    <3>5. event'[e].available = loop[c].begun + Backoff(event[e].attempts)
      BY <1>1, <1>6, <2>2, <3>3 DEF EnqueueFails, OutboxRows
    <3>6. UNCHANGED <<now, redis>>
      BY <1>6 DEF EnqueueFails
    <3> QED
      BY <1>1, <3>1, <3>4, <3>5, <3>6
  <2> QED
    BY <2>1, <2>2
<1>7. CASE RedisDown \/ RedisUp \/ TimePasses
  <2>1. event' = event /\ Latest \in Nat /\ Latest' \in Nat /\ Latest <= Latest'
    BY <1>1, <1>7 DEF RedisDown, RedisUp, TimePasses
  <2>2. event[e].available \in Int /\ Soon(e)
    BY <1>2, <2>1 DEF OutboxRows
  <2> HIDE DEF Latest
  <2> QED
    BY <2>1, <2>2
<1> QED
  BY <1>3, <1>4, <1>5, <1>6, <1>7
  DEF OutboxNext, outboxVars, TickerFires, LockNextOutbox, DispatchRollback, DispatcherCrash

\* Times that only grow: whatever was calm may be disturbed again now.
LEMMA CalmTimes ==
  ASSUME OutboxTypes, LoopTypes, NEW d \in Dispatchers
  PROVE  /\ Calm(d) \in Nat /\ now \in Nat /\ nextTick[d] \in Nat
         /\ redis.since + OpTimeout <= Calm(d) /\ redis.since + MaxBackoff <= Calm(d)
         /\ disturbed[d] = now => now <= Calm(d)
         /\ redis.since = now => now <= Calm(d)
  BY Numbers DEF OutboxTypes, LoopTypes, Calm, Later

\* Once it is calm, a call under way is not one of the outage.
LEMMA CalmCalls ==
  ASSUME OutboxTypes, LoopTypes, CallsEnd, NEW d \in Dispatchers, NEW c \in Dispatchers,
         redis.up, loop[c].at = "sending", ~loop[c].healthy
  PROVE  now <= loop[c].begun + OpTimeout /\ loop[c].begun + OpTimeout <= Calm(d)
<1>1. loop[c].begun \in Nat
  BY LoopKnows DEF SendingStates
<1> QED
  BY <1>1, CalmTimes, Numbers DEF CallsEnd, OutboxTypes

\* Every step keeps the ticks in time, and so all that the calm rests on.
LEMMA OnTimeStep ==
  ASSUME OutboxTypes, LoopTypes, CallsEnd, NEW d \in Dispatchers, OnTime(d),
         [OutboxNext]_outboxVars, OutboxTypes', LoopTypes'
  PROVE  OnTime(d)'
<1> SUFFICES ASSUME redis'.up, now' > Calm(d)'
             PROVE  now' <= nextTick'[d] /\ (loop'[d] # Resting => now' < nextTick'[d])
  BY DEF OnTime
<1>1. /\ loop \in [Dispatchers -> LoopStates] /\ disturbed \in [Dispatchers -> Nat]
      /\ nextTick \in [Dispatchers -> Nat] /\ redis \in [up : BOOLEAN, since : Nat]
  BY DEF OutboxTypes, LoopTypes
<1>2. /\ Calm(d) \in Nat /\ now \in Nat /\ nextTick[d] \in Nat
      /\ Calm(d)' \in Nat /\ now' \in Nat /\ nextTick'[d] \in Nat
      /\ disturbed'[d] # now' /\ redis'.since # now'
  BY CalmTimes, Numbers DEF OutboxTypes, LoopTypes, Calm, Later
<1>3. CASE /\ UNCHANGED <<now, redis>> /\ disturbed'[d] = disturbed[d]
           /\ nextTick'[d] = nextTick[d] /\ (loop'[d] # Resting => loop[d] # Resting)
  <2>1. Calm(d)' = Calm(d)
    BY <1>3 DEF Calm
  <2> QED
    BY <1>2, <1>3, <2>1 DEF OnTime
<1>4. ASSUME NEW c \in Dispatchers, TickerFires(c) PROVE OnTime(d)'
  <2>1. CASE c = d
    <3> DEFINE u == nextTick[d] + PollInterval * ((now - nextTick[d]) \div PollInterval + 1)
    <3>1. u \in Nat /\ now < u
      BY <1>2, <1>4, <2>1, TickAdvances DEF TickerFires
    <3>2. nextTick' = [nextTick EXCEPT ![d] = u] /\ now' = now
      BY <1>4, <2>1 DEF TickerFires
    <3>3. nextTick'[d] = u
      BY <1>1, <3>2
    <3> HIDE DEF u
    <3> QED
      BY <1>2, <3>1, <3>2, <3>3 DEF OnTime
  <2>2. CASE c # d
    BY <1>1, <1>3, <1>4, <2>2 DEF TickerFires, OnTime
  <2> QED
    BY <2>1, <2>2
<1>5. ASSUME NEW c \in Dispatchers, DispatchRollback(c) \/ DispatcherCrash(c) PROVE OnTime(d)'
  <2>1. CASE c = d
    BY <1>1, <1>2, <1>5, <2>1 DEF DispatchRollback, DispatcherCrash
  <2>2. CASE c # d
    BY <1>1, <1>3, <1>5, <2>2 DEF DispatchRollback, DispatcherCrash, OnTime
  <2> QED
    BY <2>1, <2>2
<1>6. ASSUME NEW c \in Dispatchers, LockNextOutbox(c) \/ MarkDelivered(c) \/ EnqueueFails(c)
      PROVE  OnTime(d)'
  <2>1. /\ UNCHANGED <<now, redis, disturbed, nextTick>>
        /\ loop[c] # Resting /\ \A b \in Dispatchers \ {c} : loop'[b] = loop[b]
    BY <1>1, <1>6 DEF LockNextOutbox, MarkDelivered, EnqueueFails, NextInBatch, Resting
  <2> QED
    BY <1>3, <2>1 DEF OnTime
<1>7. CASE RedisDown
  BY <1>1, <1>7 DEF RedisDown
<1>8. CASE RedisUp
  BY <1>2, <1>8 DEF RedisUp
<1>9. CASE TimePasses
  <2>1. now' = now + 1 /\ UNCHANGED <<redis, disturbed, nextTick, loop>>
    BY <1>9 DEF TimePasses
  <2>2. Calm(d)' = Calm(d)
    BY <2>1 DEF Calm
  <2>3. ~(loop[d].at = "sending" /\ ~loop[d].healthy /\ now < loop[d].begun + OpTimeout)
    <3>1. loop[d].at = "sending" => loop[d].begun + OpTimeout \in Nat
      BY LoopKnows, Numbers DEF SendingStates
    <3> QED
      BY <1>2, <2>1, <2>2, <3>1, CalmCalls
  <2>4. loop[d] = Resting /\ now < nextTick[d]
    BY <1>9, <2>3 DEF TimePasses
  <2> QED
    BY <1>2, <2>1, <2>4
<1> QED
  BY <1>3, <1>4, <1>5, <1>6, <1>7, <1>8, <1>9 DEF OutboxNext, outboxVars, Record, OnTime

LEMMA CalmStep ==
  ASSUME CalmInv, [OutboxNext]_outboxVars
  PROVE  CalmInv'
<1>1. SpacedInv'
  BY SpacedStep DEF CalmInv
<1>2. OutboxTypes /\ OutboxTypes'
  BY <1>1 DEF CalmInv, SpacedInv
<1>3. LoopTypes' /\ CallsEnd' /\ DueInTime'
  BY <1>2, LoopTypesStep, CallsEndStep, DueInTimeStep DEF CalmInv
<1>4. \A d \in Dispatchers : OnTime(d)'
  BY <1>2, <1>3, OnTimeStep DEF CalmInv
<1> QED
  BY <1>1, <1>3, <1>4 DEF CalmInv

LEMMA BaseTimes ==
  ASSUME OutboxTypes, LoopTypes, NEW d \in Dispatchers, NEW e \in Events,
         event[e].state = "waiting"
  PROVE  /\ event[e] \in OutboxRows /\ Base(e, d) \in Nat /\ Calm(d) <= Base(e, d)
         /\ event[e].recorded <= Base(e, d)
<1>1. event[e] \in OutboxRows
  BY DEF OutboxTypes, NoRow
<1> QED
  BY <1>1, CalmTimes, Numbers DEF OutboxRows, Base, Later

LEMMA DoneIsFinite ==
  ASSUME NEW S \in SUBSET Events
  PROVE  /\ Cardinality(S) \in Nat /\ Cardinality(Events) \in Nat
         /\ \A T \in SUBSET Events : S \subseteq T => Cardinality(S) <= Cardinality(T)
         /\ \A f \in Events \ S : /\ Cardinality(S \cup {f}) = Cardinality(S) + 1
                                  /\ Cardinality(S) + 1 <= Cardinality(Events)
<1>1. \A T \in SUBSET Events : IsFiniteSet(T) /\ Cardinality(T) \in Nat
  BY Numbers, FS_Subset, FS_CardinalityType
<1>2. \A T \in SUBSET Events : S \subseteq T => Cardinality(S) <= Cardinality(T)
  BY <1>1, FS_Subset
<1>3. ASSUME NEW f \in Events \ S
      PROVE  /\ Cardinality(S \cup {f}) = Cardinality(S) + 1
             /\ Cardinality(S) + 1 <= Cardinality(Events)
  <2>1. Cardinality(S \cup {f}) = Cardinality(S) + 1
    BY <1>1, FS_AddElement
  <2>2. S \cup {f} \in SUBSET Events
    OBVIOUS
  <2>3. Cardinality(S \cup {f}) <= Cardinality(Events)
    BY <2>2, Numbers, FS_Subset
  <2> QED
    BY <2>1, <2>3
<1> QED
  BY <1>1, <1>2, <1>3

\* Batches and excuses add up.
LEMMA BatchesAdd ==
  ASSUME NEW x \in Nat
  PROVE  /\ Batch * x \in Nat /\ Batch * (x + 1) = Batch * x + Batch
         /\ PollInterval * x \in Nat
         /\ PollInterval * (x + 1) = PollInterval * x + PollInterval
         /\ \A y \in Nat : x <= y => Batch * x <= Batch * y
         /\ \A y \in Nat : x <= y => PollInterval * x <= PollInterval * y
<1> DEFINE b == Batch
           p == PollInterval
<1>1. b \in Nat \ {0} /\ p \in Nat \ {0}
  BY Numbers
<1> HIDE DEF b, p
<1>2. b * x \in Nat /\ b * (x + 1) = b * x + b /\ p * x \in Nat /\ p * (x + 1) = p * x + p
  BY <1>1
<1>3. \A y \in Nat : (x <= y => b * x <= b * y) /\ (x <= y => p * x <= p * y)
  BY <1>1
<1> QED
  BY <1>2, <1>3 DEF b, p

\* A step that leaves the loop alone.
LEMMA BusyStays ==
  ASSUME NEW e, NEW d, NEW k \in Nat, Busy(e, d, k), Base(e, d)' = Base(e, d),
         nextTick'[d] = nextTick[d],
         Surplus(loop[d]) \in Int, Surplus(loop'[d]) = Surplus(loop[d]),
         Done(d) \subseteq Done(d)', Excuses(e, d) \in Nat, Excuses(e, d)' \in Nat,
         Excuses(e, d) <= Excuses(e, d)'
  PROVE  Busy(e, d, k)'
<1>1. /\ Cardinality(Done(d)) \in Nat /\ Cardinality(Done(d)') \in Nat
      /\ Cardinality(Done(d)) <= Cardinality(Done(d)')
  <2>1. Done(d) \in SUBSET Events /\ Done(d)' \in SUBSET Events
    BY DEF Done
  <2> QED
    BY <2>1, DoneIsFinite
<1>2. /\ Batch * Excuses(e, d) \in Nat /\ Batch * Excuses(e, d)' \in Nat /\ Batch * k \in Nat
      /\ Batch * Excuses(e, d) <= Batch * Excuses(e, d)'
  BY BatchesAdd
<1>3. Batch * k + Surplus(loop[d]) <= Cardinality(Done(d)) + Batch * Excuses(e, d)
  BY DEF Busy
<1>4. Batch * k + Surplus(loop'[d]) <= Cardinality(Done(d)') + Batch * Excuses(e, d)'
  BY <1>1, <1>2, <1>3
<1> QED
  BY <1>4 DEF Busy

\* The loop's own steps: the tick, and the next event of the batch or none.
LEMMA BusyTicks ==
  ASSUME CalmInv, NEW e \in Events, NEW d \in Dispatchers, NEW k \in Nat, Busy(e, d, k),
         redis.up, event[e].state = "waiting", now > Base(e, d), Base(e, d)' = Base(e, d),
         TickerFires(d)
  PROVE  Busy(e, d, k + 1)'
<1>1. OutboxTypes /\ LoopTypes
  BY DEF CalmInv, SpacedInv
<1>2. /\ loop[d] = Resting /\ nextTick[d] <= now /\ loop \in [Dispatchers -> LoopStates]
      /\ loop' = [loop EXCEPT ![d] = [at |-> "next", i |-> 0]]
      /\ UNCHANGED <<now, event, failures>> /\ failures \in Nat
  BY <1>1 DEF TickerFires, OutboxTypes, LoopTypes
<1>3. /\ now \in Nat /\ nextTick[d] \in Nat /\ nextTick[d] = now /\ Base(e, d) \in Nat
  BY <1>1, <1>2, CalmTimes, BaseTimes DEF CalmInv, OnTime
<1>4. nextTick'[d] = nextTick[d] + PollInterval
  <2> DEFINE u == nextTick[d] + PollInterval * ((now - nextTick[d]) \div PollInterval + 1)
  <2>1. u = nextTick[d] + PollInterval
    BY <1>3, TickAdvances
  <2>2. nextTick' = [nextTick EXCEPT ![d] = u] /\ nextTick \in [Dispatchers -> Nat]
    BY <1>1 DEF TickerFires, LoopTypes
  <2> HIDE DEF u
  <2> QED
    BY <2>1, <2>2
<1>5. Surplus(loop[d]) = 0 /\ Surplus(loop'[d]) = 0 - Batch
  BY <1>2 DEF Surplus, Resting
<1>6. Done(d)' = Done(d) /\ Cardinality(Done(d)) \in Nat
  <2>1. Done(d)' = Done(d)
    BY <1>2 DEF Done, Resting
  <2> QED
    BY <2>1, DoneIsFinite DEF Done
<1>7. Excuses(e, d) = failures /\ Excuses(e, d)' = failures
  BY <1>2, <1>3 DEF Excuses, Excused, Resting
<1>8. /\ PollInterval * k \in Nat /\ PollInterval * (k + 1) = PollInterval * k + PollInterval
      /\ Batch * k \in Nat /\ Batch * (k + 1) = Batch * k + Batch /\ Batch * failures \in Nat
      /\ Batch \in Nat /\ PollInterval \in Nat
  BY <1>2, BatchesAdd, Numbers
<1>9. nextTick'[d] <= Base(e, d) + PollInterval + PollInterval * (k + 1)
  BY <1>3, <1>4, <1>8 DEF Busy
<1>10. Batch * (k + 1) + (0 - Batch) <= Cardinality(Done(d)) + Batch * failures
  BY <1>5, <1>6, <1>7, <1>8 DEF Busy
<1> QED
  BY <1>5, <1>6, <1>7, <1>9, <1>10 DEF Busy

LEMMA BusyLocks ==
  ASSUME CalmInv, NEW e \in Events, NEW d \in Dispatchers, NEW k \in Nat, Busy(e, d, k),
         redis.up, event[e].state = "waiting", now > Base(e, d), Base(e, d)' = Base(e, d),
         LockNextOutbox(d)
  PROVE  Busy(e, d, k)'
<1>1. OutboxTypes /\ LoopTypes
  BY DEF CalmInv, SpacedInv
<1>2. /\ loop[d].at = "next" /\ loop[d].i \in Nat /\ loop \in [Dispatchers -> LoopStates]
      /\ UNCHANGED <<now, event, failures, nextTick>> /\ failures \in Nat
  BY <1>1, LoopKnows DEF LockNextOutbox, OutboxTypes, LoopTypes
<1>3. /\ Surplus(loop[d]) = loop[d].i - Batch
      /\ Excuses(e, d) = failures
      /\ Done(d) = {f \in Events : event[f].state = "delivered"}
  BY <1>2 DEF Surplus, Excuses, Excused, Resting, Done
<1>4. /\ Cardinality(Done(d)) \in Nat /\ Batch * k \in Nat /\ Batch * failures \in Nat
      /\ Batch * (failures + 1) = Batch * failures + Batch /\ Batch \in Nat
  BY <1>2, DoneIsFinite, BatchesAdd, Numbers DEF Done
<1>5. Batch * k + (loop[d].i - Batch) <= Cardinality(Done(d)) + Batch * failures
  BY <1>3 DEF Busy
<1>6. nextTick'[d] <= Base(e, d) + PollInterval + PollInterval * k
  BY <1>2 DEF Busy
<1>7. ASSUME NEW f \in Due,
             loop' = [loop EXCEPT ![d] = [at |-> "sending", i |-> loop[d].i, event |-> f,
                                          begun |-> now, healthy |-> redis.up]]
      PROVE  Busy(e, d, k)'
  <2>1. /\ loop'[d].at = "sending" /\ loop'[d].i = loop[d].i /\ loop'[d].event = f
    BY <1>2, <1>7
  <2>2. Surplus(loop'[d]) = loop[d].i + 1 - Batch /\ Excuses(e, d)' = failures
    BY <1>2, <2>1 DEF Surplus, Excuses, Excused, Resting
  <2>3. f \in Events \ Done(d) /\ Done(d)' = Done(d) \cup {f}
    BY <1>2, <1>3, <2>1 DEF Done, Due
  <2>4. Cardinality(Done(d)') = Cardinality(Done(d)) + 1
    BY <2>3, DoneIsFinite DEF Done
  <2> QED
    BY <1>2, <1>4, <1>5, <1>6, <2>2, <2>4 DEF Busy
<1>8. CASE (loop[d].i = Batch \/ Due = {}) /\ loop' = [loop EXCEPT ![d] = Resting]
  <2>1. loop'[d] = Resting /\ Surplus(loop'[d]) = 0 /\ Done(d)' = Done(d)
    BY <1>2, <1>3, <1>8 DEF Surplus, Resting, Done
  <2>2. CASE loop[d].i = Batch
    <3>1. Excuses(e, d)' \in {failures, failures + 1}
      BY <1>2 DEF Excuses
    <3>2. Batch * k + 0 <= Cardinality(Done(d)) + Batch * Excuses(e, d)'
      BY <1>2, <1>4, <1>5, <2>2, <3>1
    <3> QED
      BY <1>6, <2>1, <3>2 DEF Busy
  <2>3. CASE Due = {}
    <3>1. event[e].available <= now
      <4>1. /\ event[e] \in OutboxRows /\ Base(e, d) \in Nat /\ Calm(d) \in Nat /\ now \in Nat
            /\ Calm(d) <= Base(e, d) /\ event[e].recorded <= Base(e, d)
            /\ redis.since + MaxBackoff <= Calm(d)
        BY <1>1, BaseTimes, CalmTimes
      <4>2. \/ event[e].available <= event[e].recorded
            \/ event[e].available <= redis.since + MaxBackoff
        BY DEF CalmInv, DueInTime
      <4>3. redis.since \in Nat /\ MaxBackoff \in Nat
        BY <1>1, Numbers DEF OutboxTypes
      <4> QED
        BY <4>1, <4>2, <4>3 DEF OutboxRows
    <3>2. PICK c \in Dispatchers : loop[c].at = "sending" /\ loop[c].event = e
      BY <2>3, <3>1 DEF Due, Locked
    <3>3. loop'[c] = loop[c]
      BY <1>2, <1>8, <3>2
    <3>4. now < nextTick[d]
      <4>1. loop[d] # Resting
        BY <1>2 DEF Resting
      <4>2. now > Calm(d)
        BY <1>1, BaseTimes, CalmTimes
      <4> QED
        BY <4>1, <4>2 DEF CalmInv, OnTime
    <3>5. Excuses(e, d)' = failures + 1
      BY <1>2, <2>1, <3>2, <3>3, <3>4 DEF Excuses, Excused
    <3>6. Batch * k + 0 <= Cardinality(Done(d)) + Batch * (failures + 1)
      BY <1>2, <1>4, <1>5
    <3> QED
      BY <1>6, <2>1, <3>5, <3>6 DEF Busy
  <2> QED
    BY <1>8, <2>2, <2>3
<1> QED
  BY <1>7, <1>8 DEF LockNextOutbox

\* Everything but the passing of time.
LEMMA ProgressStep ==
  ASSUME CalmInv, CalmInv', NEW e \in Events, NEW d \in Dispatchers, Progress(e, d),
         OutboxNext \/ UNCHANGED outboxVars, ~TimePasses
  PROVE  Progress(e, d)'
<1> SUFFICES ASSUME redis'.up, event'[e].state = "waiting", now' > Base(e, d)'
             PROVE  \E k \in Nat : Busy(e, d, k)'
  BY DEF Progress
<1>1. OutboxTypes /\ LoopTypes /\ OutboxTypes' /\ LoopTypes'
  BY DEF CalmInv, SpacedInv
<1>2. /\ loop \in [Dispatchers -> LoopStates] /\ disturbed \in [Dispatchers -> Nat]
      /\ nextTick \in [Dispatchers -> Nat] /\ redis \in [up : BOOLEAN, since : Nat]
      /\ event \in [Events -> {NoRow} \cup OutboxRows] /\ failures \in Nat /\ now \in Nat
  BY <1>1 DEF OutboxTypes, LoopTypes
<1>3. /\ disturbed'[d] # now' /\ redis'.since # now' /\ event'[e].recorded # now'
  <2>1. event'[e] \in OutboxRows /\ event'[e].recorded \in Nat
    BY <1>1 DEF OutboxTypes, NoRow, OutboxRows
  <2>2. /\ redis'.since \in Nat /\ disturbed'[d] \in Nat /\ now' \in Nat
    BY <1>1 DEF OutboxTypes, LoopTypes
  <2> QED
    BY <2>1, <2>2, Numbers DEF Base, Calm, Later
<1>4. ASSUME UNCHANGED <<now, redis>>, disturbed'[d] = disturbed[d], event'[e] = event[e]
      PROVE  /\ Base(e, d)' = Base(e, d) /\ redis.up /\ event[e].state = "waiting"
             /\ now > Base(e, d) /\ \E k \in Nat : Busy(e, d, k)
  BY <1>4 DEF Base, Calm, Progress
<1>5. ASSUME UNCHANGED <<now, redis>>, disturbed'[d] = disturbed[d], event'[e] = event[e],
             nextTick'[d] = nextTick[d], Surplus(loop'[d]) = Surplus(loop[d]),
             Done(d) \subseteq Done(d)', failures' \in Nat, Excuses(e, d) <= Excuses(e, d)'
      PROVE  \E k \in Nat : Busy(e, d, k)'
  <2>1. PICK k \in Nat : Busy(e, d, k) /\ Base(e, d)' = Base(e, d)
    BY <1>4, <1>5
  <2>2. Surplus(loop[d]) \in Int
    BY <1>1, LoopKnows, Numbers DEF Surplus
  <2>3. \A x \in Nat : x + 0 \in Nat /\ x + 1 \in Nat
    OBVIOUS
  <2>4. Excuses(e, d) \in Nat /\ Excuses(e, d)' \in Nat
    <3>1. Excuses(e, d) \in Nat
      BY <1>2, <2>3 DEF Excuses
    <3>2. Excuses(e, d)' \in Nat
      BY <1>5, <2>3 DEF Excuses
    <3> QED
      BY <3>1, <3>2
  <2> QED
    BY <1>5, <2>1, <2>2, <2>4, BusyStays
<1>6. ASSUME NEW f \in Events, Record(f) PROVE \E k \in Nat : Busy(e, d, k)'
  <2>1. f # e
    BY <1>2, <1>3, <1>6 DEF Record
  <2>2. UNCHANGED <<now, redis, disturbed, nextTick, loop, failures>> /\ event'[e] = event[e]
    BY <1>2, <1>6, <2>1 DEF Record
  <2>3. Done(d) \subseteq Done(d)'
    BY <1>2, <1>6, <2>2 DEF Record, Done, NoRow
  <2>4. Excuses(e, d)' = Excuses(e, d) /\ Excuses(e, d) \in Nat
    BY <1>2, <2>2 DEF Excuses, Excused
  <2> QED
    BY <1>2, <1>5, <2>2, <2>3, <2>4
<1>7. ASSUME NEW c \in Dispatchers, c # d, TickerFires(c) \/ LockNextOutbox(c)
      PROVE  \E k \in Nat : Busy(e, d, k)'
  <2>1. /\ UNCHANGED <<now, redis, disturbed, event, failures>>
        /\ nextTick'[d] = nextTick[d] /\ loop[c].at # "sending"
        /\ \A b \in Dispatchers \ {c} : loop'[b] = loop[b]
    BY <1>2, <1>7 DEF TickerFires, LockNextOutbox, Resting
  <2>2. loop'[d] = loop[d]
    BY <1>7, <2>1
  <2>3. Done(d) \subseteq Done(d)'
    BY <2>1, <2>2 DEF Done
  <2>4. Excused(e, d) => Excused(e, d)'
    BY <2>1, <2>2 DEF Excused
  <2>5. Excuses(e, d) <= Excuses(e, d)'
    BY <1>2, <2>1, <2>4 DEF Excuses
  <2> QED
    BY <1>2, <1>5, <2>1, <2>2, <2>3, <2>5
<1>8. ASSUME TickerFires(d) PROVE \E k \in Nat : Busy(e, d, k)'
  <2>1. UNCHANGED <<now, redis, disturbed, event>>
    BY <1>8 DEF TickerFires
  <2>2. PICK k \in Nat : Busy(e, d, k)
    BY <1>4, <2>1
  <2>3. Busy(e, d, k + 1)'
    BY <1>4, <1>8, <2>1, <2>2, BusyTicks
  <2>4. k + 1 \in Nat
    OBVIOUS
  <2> QED
    BY <2>3, <2>4
<1>9. ASSUME LockNextOutbox(d) PROVE \E k \in Nat : Busy(e, d, k)'
  <2>1. UNCHANGED <<now, redis, disturbed, event>>
    BY <1>9 DEF LockNextOutbox
  <2>2. PICK k \in Nat : Busy(e, d, k)
    BY <1>4, <2>1
  <2> QED
    BY <1>4, <1>9, <2>1, <2>2, BusyLocks
<1>10. ASSUME NEW c \in Dispatchers, MarkDelivered(c) PROVE \E k \in Nat : Busy(e, d, k)'
  <2>1. /\ UNCHANGED <<now, redis, disturbed, nextTick, failures>> /\ loop[c].at = "sending"
        /\ loop' = [loop EXCEPT ![c] = [at |-> "next", i |-> loop[c].i + 1]]
    BY <1>10 DEF MarkDelivered, NextInBatch
  <2>2. loop[c].event \in Events /\ event[loop[c].event] \in OutboxRows /\ loop[c].i \in Nat
    BY <1>1, <2>1, LoopKnows DEF SendingStates, CalmInv, SpacedInv, HoldsDue
  <2>3. /\ event'[loop[c].event].state = "delivered"
        /\ \A f \in Events : f # loop[c].event => event'[f] = event[f]
    BY <1>2, <1>10, <2>2 DEF MarkDelivered, OutboxRows
  <2>4. e # loop[c].event
    BY <2>3
  <2>5. Done(d) \subseteq Done(d)'
    <3>1. CASE c = d
      BY <1>2, <2>1, <2>2, <2>3, <3>1 DEF Done
    <3>2. CASE c # d
      BY <1>2, <2>1, <2>2, <2>3, <3>2 DEF Done
    <3> QED
      BY <3>1, <3>2
  <2>6. Surplus(loop'[d]) = Surplus(loop[d])
    <3>1. CASE c = d
      BY <1>2, <2>1, <2>2, <3>1, Numbers DEF Surplus
    <3>2. CASE c # d
      BY <1>2, <2>1, <3>2
    <3> QED
      BY <3>1, <3>2
  <2>7. Excuses(e, d) <= Excuses(e, d)'
    <3>1. Excused(e, d) => Excused(e, d)'
      BY <1>2, <2>1, <2>4 DEF Excused, Resting
    <3> QED
      BY <1>2, <2>1, <3>1 DEF Excuses
  <2> QED
    BY <1>2, <1>5, <2>1, <2>3, <2>4, <2>5, <2>6, <2>7
<1>11. ASSUME NEW c \in Dispatchers, EnqueueFails(c) PROVE FALSE
  <2>1. /\ UNCHANGED <<now, redis, disturbed>> /\ loop[c].at = "sending" /\ ~loop[c].healthy
    BY <1>11 DEF EnqueueFails
  <2>2. now <= loop[c].begun + OpTimeout /\ loop[c].begun + OpTimeout <= Calm(d)
        /\ loop[c].begun \in Nat
    BY <1>1, <2>1, CalmCalls, LoopKnows DEF CalmInv, SendingStates
  <2>3. Calm(d)' = Calm(d) /\ Calm(d) \in Nat
    BY <1>1, <2>1, CalmTimes DEF Calm
  <2>4. event'[e].recorded \in Nat
    BY <1>1 DEF OutboxTypes, NoRow, OutboxRows
  <2>5. Calm(d)' <= Base(e, d)' /\ Base(e, d)' \in Nat
    BY <2>3, <2>4, Numbers DEF Base, Later
  <2> QED
    BY <1>2, <2>1, <2>2, <2>3, <2>5, Numbers
<1>12. ASSUME NEW c \in Dispatchers, DispatchRollback(c) \/ DispatcherCrash(c)
       PROVE  \E k \in Nat : Busy(e, d, k)'
  <2>1. /\ UNCHANGED <<now, redis, event>> /\ failures' = failures + 1
        /\ \A b \in Dispatchers \ {c} :
             loop'[b] = loop[b] /\ disturbed'[b] = disturbed[b] /\ nextTick'[b] = nextTick[b]
        /\ disturbed'[c] = now
    BY <1>2, <1>12 DEF DispatchRollback, DispatcherCrash, Failure
  <2>2. c # d
    BY <1>3, <2>1
  <2>3. loop'[d] = loop[d] /\ disturbed'[d] = disturbed[d] /\ nextTick'[d] = nextTick[d]
    BY <2>1, <2>2
  <2>4. Done(d) \subseteq Done(d)'
    BY <2>1, <2>3 DEF Done
  <2>5. Excuses(e, d) <= Excuses(e, d)' /\ failures' \in Nat
    BY <1>2, <2>1 DEF Excuses
  <2> QED
    BY <1>5, <2>1, <2>3, <2>4, <2>5
<1>13. ~RedisDown /\ ~RedisUp
  BY <1>2, <1>3 DEF RedisDown, RedisUp
<1>14. CASE UNCHANGED outboxVars
  <2>1. UNCHANGED <<now, redis, disturbed, event, nextTick, loop, failures>>
    BY <1>14 DEF outboxVars
  <2>2. Done(d)' = Done(d) /\ Excuses(e, d)' = Excuses(e, d) /\ Excuses(e, d) \in Nat
    BY <1>2, <2>1 DEF Done, Excuses, Excused
  <2> QED
    BY <1>2, <1>5, <2>1, <2>2
<1> QED
  BY <1>6, <1>7, <1>8, <1>9, <1>10, <1>11, <1>12, <1>13, <1>14 DEF OutboxNext

\* When time passes in the calm all loops rest, and nobody is excused.
LEMMA ProgressInTime ==
  ASSUME CalmInv, CalmInv', NEW e \in Events, NEW d \in Dispatchers, Progress(e, d),
         TimePasses, redis.up, event[e].state = "waiting", now + 1 > Base(e, d)
  PROVE  /\ now' = now + 1 /\ Base(e, d)' = Base(e, d) /\ Base(e, d) \in Nat /\ now < nextTick[d]
         /\ \E k \in Nat : Busy(e, d, k) /\ Busy(e, d, k)'
         /\ Excuses(e, d) = failures /\ loop[d] = Resting
<1>1. OutboxTypes /\ LoopTypes /\ CallsEnd
  BY DEF CalmInv, SpacedInv
<1>2. /\ now' = now + 1 /\ UNCHANGED <<event, loop, nextTick, redis, failures, disturbed>>
      /\ now \in Nat /\ failures \in Nat /\ nextTick[d] \in Nat
  BY <1>1 DEF TimePasses, OutboxTypes, LoopTypes
<1>3. Base(e, d) \in Nat /\ Calm(d) \in Nat /\ Calm(d) <= Base(e, d) /\ Base(e, d)' = Base(e, d)
  BY <1>1, <1>2, BaseTimes, CalmTimes DEF Base, Calm
<1>4. ASSUME NEW c \in Dispatchers PROVE loop[c] = Resting /\ now < nextTick[c]
  <2>1. ~(loop[c].at = "sending" /\ ~loop[c].healthy /\ now < loop[c].begun + OpTimeout)
    <3>1. loop[c].at = "sending" => loop[c].begun + OpTimeout \in Nat
      BY <1>1, LoopKnows, Numbers DEF SendingStates
    <3> QED
      BY <1>1, <1>2, <1>3, <3>1, CalmCalls
  <2> QED
    BY <2>1 DEF TimePasses
<1>5. ~Excused(e, d) /\ ~Excused(e, d)'
  BY <1>2, <1>4 DEF Excused, Resting
<1>6. /\ Excuses(e, d) = failures /\ Excuses(e, d)' = failures
      /\ Done(d)' = Done(d) /\ Cardinality(Done(d)) \in Nat
  BY <1>2, <1>5, DoneIsFinite DEF Excuses, Done
<1>7. \E k \in Nat : Busy(e, d, k)
  <2>1. CASE now > Base(e, d)
    BY <2>1 DEF Progress
  <2>2. CASE now <= Base(e, d)
    <3>1. nextTick[d] <= Base(e, d) + PollInterval + PollInterval * 0
      BY <1>1, <1>2, <1>3, <2>2, Numbers DEF LoopTypes
    <3>2. Surplus(loop[d]) = 0
      BY <1>4 DEF Surplus, Resting
    <3>3. Batch * 0 + 0 <= Cardinality(Done(d)) + Batch * failures
      BY <1>2, <1>6, BatchesAdd, Numbers
    <3>4. Busy(e, d, 0)
      BY <1>6, <3>1, <3>2, <3>3 DEF Busy
    <3> QED
      BY <3>4
  <2> QED
    BY <1>2, <1>3, <2>1, <2>2
<1>8. \A k \in Nat : Busy(e, d, k) => Busy(e, d, k)'
  BY <1>2, <1>3, <1>6 DEF Busy
<1> QED
  BY <1>2, <1>3, <1>4, <1>6, <1>7, <1>8

\* As long as one event is waiting, fewer batches than all can be full.
LEMMA TicksAreBounded ==
  ASSUME CalmInv, NEW e \in Events, NEW d \in Dispatchers, NEW k \in Nat, Busy(e, d, k),
         event[e].state = "waiting", loop[d] = Resting, Excuses(e, d) = failures
  PROVE  k + 1 <= Rounds + failures /\ Rounds + failures \in Nat
<1> DEFINE n == Cardinality(Events)
           m == Cardinality(Done(d))
           b == Batch
           q == (n + b - 1) \div b
<1>1. n \in Nat /\ m \in Nat /\ m + 1 <= n
  <2>1. e \in Events \ Done(d) /\ Done(d) \in SUBSET Events
    BY DEF Done, Resting
  <2> QED
    BY <2>1, DoneIsFinite
<1>2. b \in Nat \ {0} /\ failures \in Nat
  BY Numbers DEF CalmInv, LoopTypes
<1>3. b * k <= m + b * failures
  <2>1. Surplus(loop[d]) = 0
    BY DEF Surplus, Resting
  <2>2. b * k \in Nat
    BY <1>2
  <2> QED
    BY <2>1, <2>2 DEF Busy
<1> HIDE DEF n, m, b
<1>4. q \in Nat /\ n + b - 1 < b * q + b
  BY <1>1, <1>2
<1> HIDE DEF q
<1>5. b * (q + failures) = b * q + b * failures
  BY <1>2, <1>4
<1>6. b * k < b * (q + failures)
  BY <1>1, <1>2, <1>3, <1>4, <1>5
<1>7. k < q + failures
  BY <1>2, <1>4, <1>6
<1> QED
  BY <1>2, <1>4, <1>7 DEF Rounds, q, n, b

\* The bound moves only with time; all else that happens puts it off.
LEMMA NotLateStep ==
  ASSUME CalmInv, CalmInv', NEW e \in Events, NEW d \in Dispatchers, Progress(e, d), NotLate(e, d),
         [OutboxNext]_outboxVars
  PROVE  NotLate(e, d)'
<1>1. OutboxTypes /\ LoopTypes /\ OutboxTypes' /\ LoopTypes'
  BY DEF CalmInv, SpacedInv
<1> DEFINE due == PollInterval * (Rounds + failures)
<1>2. /\ Rounds \in Nat /\ failures \in Nat /\ failures' \in Nat
      /\ now \in Nat /\ now' \in Nat
  <2>1. Rounds \in Nat
    <3> DEFINE n == Cardinality(Events)
               b == Batch
    <3>1. n \in Nat /\ b \in Nat \ {0}
      BY Numbers, DoneIsFinite
    <3> HIDE DEF n, b
    <3>2. (n + b - 1) \div b \in Nat
      BY <3>1
    <3> QED
      BY <3>2 DEF Rounds, n, b
  <2> QED
    BY <1>1, <2>1 DEF OutboxTypes, LoopTypes
<1>3. due \in Nat /\ due' \in Nat /\ (failures <= failures' => due <= due')
  <2>1. PICK r \in Nat : r = Rounds
    BY <1>2
  <2>2. \A x, y \in Nat : r + x \in Nat /\ (x <= y => r + x <= r + y)
    OBVIOUS
  <2>3. due = PollInterval * (r + failures)
    BY <2>1
  <2>4. due' = PollInterval * (r + failures')
    BY <2>1 DEF Rounds
  <2> QED
    BY <1>2, <2>2, <2>3, <2>4, BatchesAdd
<1> HIDE DEF due
<1> SUFFICES ASSUME redis'.up, event'[e].state = "waiting"
             PROVE  now' <= Base(e, d)' + due'
  BY DEF NotLate, due
<1>4. /\ event'[e] \in OutboxRows /\ Base(e, d)' \in Nat
      /\ redis'.since <= Base(e, d)' /\ disturbed'[d] <= Base(e, d)'
      /\ event'[e].recorded <= Base(e, d)'
  <2>1. event'[e] \in OutboxRows
    BY <1>1 DEF OutboxTypes, NoRow
  <2> QED
    BY <1>1, <2>1, Numbers DEF OutboxTypes, LoopTypes, OutboxRows, Base, Calm, Later
<1>5. CASE now' \in {redis'.since, disturbed'[d], event'[e].recorded}
  BY <1>2, <1>3, <1>4, <1>5
<1>6. CASE /\ UNCHANGED <<now, redis>> /\ disturbed'[d] = disturbed[d] /\ failures <= failures'
           /\ event[e].state = "waiting" /\ event'[e].recorded = event[e].recorded
  <2>1. Base(e, d)' = Base(e, d)
    BY <1>6 DEF Base, Calm
  <2>2. now <= Base(e, d) + due
    BY <1>6 DEF NotLate, due
  <2> QED
    BY <1>2, <1>3, <1>4, <1>6, <2>1, <2>2
<1>7. CASE TimePasses
  <2>1. UNCHANGED <<redis, event, failures, disturbed>>
    BY <1>7 DEF TimePasses
  <2>2. due' = due
    BY <2>1 DEF due
  <2>3. CASE now + 1 > Base(e, d)
    <3>1. /\ now' = now + 1 /\ Base(e, d)' = Base(e, d) /\ Base(e, d) \in Nat
          /\ now < nextTick[d] /\ Excuses(e, d) = failures /\ loop[d] = Resting
          /\ \E k \in Nat : Busy(e, d, k)
      BY <1>7, <2>1, <2>3, ProgressInTime
    <3>2. PICK k \in Nat : Busy(e, d, k)
      BY <3>1
    <3>3. k + 1 <= Rounds + failures
      BY <2>1, <3>1, <3>2, TicksAreBounded
    <3>4. PollInterval * (k + 1) <= due /\ PollInterval * (k + 1) = PollInterval * k + PollInterval
          /\ PollInterval * k \in Nat /\ PollInterval \in Nat
      <4>1. k + 1 \in Nat /\ Rounds + failures \in Nat
        BY <1>2
      <4> QED
        BY <3>3, <4>1, BatchesAdd, Numbers DEF due
    <3>5. nextTick[d] <= Base(e, d) + PollInterval + PollInterval * k /\ nextTick[d] \in Nat
      BY <1>1, <3>2 DEF Busy, LoopTypes
    <3> QED
      BY <1>2, <1>3, <2>2, <3>1, <3>4, <3>5
  <2>4. CASE now + 1 <= Base(e, d)
    <3>1. now' = now + 1 /\ Base(e, d)' = Base(e, d)
      BY <1>7, <2>1 DEF TimePasses, Base, Calm
    <3> QED
      BY <1>2, <1>3, <1>4, <2>4, <3>1
  <2>5. Base(e, d) \in Nat
    BY <1>1, <2>1, BaseTimes
  <2> QED
    BY <1>2, <2>3, <2>4, <2>5
<1>8. ASSUME NEW f \in Events, Record(f) PROVE now' <= Base(e, d)' + due'
  BY <1>1, <1>2, <1>5, <1>6, <1>8 DEF Record, OutboxTypes
<1>9. ASSUME NEW c \in Dispatchers, MarkDelivered(c) \/ EnqueueFails(c)
      PROVE  now' <= Base(e, d)' + due'
  <2>1. /\ UNCHANGED <<now, redis, disturbed, failures>> /\ loop[c].at = "sending"
    BY <1>9 DEF MarkDelivered, EnqueueFails
  <2>2. loop[c].event \in Events /\ event[loop[c].event] \in OutboxRows
    BY <1>1, <2>1, LoopKnows DEF SendingStates, CalmInv, SpacedInv, HoldsDue
  <2>3. event[e].state = "waiting" /\ event'[e].recorded = event[e].recorded
    BY <1>1, <1>9, <2>2 DEF MarkDelivered, EnqueueFails, OutboxTypes, OutboxRows
  <2> QED
    BY <1>2, <1>6, <2>1, <2>3
<1>10. ASSUME NEW c \in Dispatchers, DispatchRollback(c) \/ DispatcherCrash(c)
       PROVE  now' <= Base(e, d)' + due'
  <2>1. /\ UNCHANGED <<now, redis, event>> /\ failures' = failures + 1
        /\ disturbed' = [disturbed EXCEPT ![c] = now]
    BY <1>10 DEF DispatchRollback, DispatcherCrash, Failure
  <2>2. CASE c = d
    BY <1>1, <1>5, <2>1, <2>2 DEF LoopTypes
  <2>3. CASE c # d
    BY <1>1, <1>2, <1>6, <2>1, <2>3 DEF LoopTypes
  <2> QED
    BY <2>2, <2>3
<1>11. CASE RedisUp
  BY <1>5, <1>11 DEF RedisUp
<1>12. ~RedisDown
  BY <1>1 DEF RedisDown, OutboxTypes
<1>13. CASE UNCHANGED <<now, redis, event, failures, disturbed>>
  BY <1>2, <1>6, <1>13
<1> QED
  BY <1>7, <1>8, <1>9, <1>10, <1>11, <1>12, <1>13
  DEF OutboxNext, outboxVars, TickerFires, LockNextOutbox

LEMMA CatchingUpStep ==
  ASSUME CatchingUp, [OutboxNext]_outboxVars
  PROVE  CatchingUp'
<1>1. CalmInv'
  BY CalmStep DEF CatchingUp
<1>2. ASSUME NEW e \in Events, NEW d \in Dispatchers PROVE Progress(e, d)' /\ NotLate(e, d)'
  <2>1. CalmInv /\ Progress(e, d) /\ NotLate(e, d)
    BY DEF CatchingUp
  <2>2. CASE TimePasses
    <3>1. UNCHANGED <<redis, event>> /\ now' = now + 1 /\ Base(e, d)' = Base(e, d)
      BY <2>2 DEF TimePasses, Base, Calm
    <3> QED
      BY <1>1, <2>1, <2>2, <3>1, ProgressInTime, NotLateStep DEF Progress
  <2> QED
    BY <1>1, <2>1, <2>2, ProgressStep, NotLateStep
<1> QED
  BY <1>1, <1>2 DEF CatchingUp

(***************************************************************************)
(* The outbox catches up (outboxLoop, ProcessNextOutbox), for any number   *)
(* of loops, events and failures, any batch, pause, timeout and poll       *)
(* interval: a loop that is left alone has an event delivered in time, and *)
(* no failure of another loop costs it more than one tick.                 *)
(***************************************************************************)
THEOREM OutboxCatchesUp ==
  OutboxSpec => []CaughtUp
<1>1. OutboxInit => CatchingUp
  <2> SUFFICES ASSUME OutboxInit PROVE CatchingUp
    OBVIOUS
  <2>1. \A e \in Events : event[e].state # "waiting"
    BY DEF OutboxInit, NoRow
  <2>2. OutboxTypes /\ \A d \in Dispatchers : loop[d].at = "idle" /\ loop[d] = Resting
    BY DEF OutboxInit, OutboxTypes, LoopStates, SendingStates, Resting
  <2>3. \A e \in Events : event[e] \notin OutboxRows
    BY DEF OutboxInit, NoRow, OutboxRows
  <2>4. SpacedInv
    BY <2>2, <2>3 DEF SpacedInv, Paused
  <2>5. LoopTypes
    BY Numbers DEF LoopTypes, OutboxInit
  <2>6. CallsEnd /\ DueInTime
    BY <2>1, <2>2 DEF CallsEnd, DueInTime
  <2>7. ASSUME NEW d \in Dispatchers PROVE OnTime(d)
    <3>1. now = 0 /\ Calm(d) \in Nat
      BY <2>2, <2>5, CalmTimes DEF OutboxInit
    <3> QED
      BY <3>1 DEF OnTime
  <2> QED
    BY <2>1, <2>4, <2>5, <2>6, <2>7 DEF CatchingUp, CalmInv, Progress, NotLate
<1>2. CatchingUp /\ [OutboxNext]_outboxVars => CatchingUp'
  BY CatchingUpStep
<1>3. CatchingUp => CaughtUp
  <2> SUFFICES ASSUME CatchingUp, redis.up, NEW e \in Events, NEW d \in Dispatchers,
                      event[e].state = "waiting"
               PROVE  \E t \in {redis.since, event[e].recorded, disturbed[d]},
                         wait \in {OpTimeout, MaxBackoff} :
                        now <= t + wait + PollInterval * (Rounds + failures)
    BY DEF CaughtUp
  <2>1. now <= Base(e, d) + PollInterval * (Rounds + failures)
    BY DEF CatchingUp, NotLate
  <2>2. \E t \in {redis.since, event[e].recorded, disturbed[d]},
           wait \in {OpTimeout, MaxBackoff} : Base(e, d) = t + wait
    <3>1. /\ redis.since \in Nat /\ event[e].recorded \in Nat /\ disturbed[d] \in Nat
      BY DEF CatchingUp, CalmInv, SpacedInv, OutboxTypes, LoopTypes, NoRow, OutboxRows
    <3> QED
      BY <3>1, Numbers DEF Base, Calm, LongestWait, Later
  <2> QED
    BY <2>1, <2>2
<1> QED
  BY <1>1, <1>2, <1>3, PTL DEF OutboxSpec
=============================================================================
