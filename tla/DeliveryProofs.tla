--------------------------- MODULE DeliveryProofs ---------------------------
(***************************************************************************)
(* Delivery for every number of submissions, participants and workers,     *)
(* every value of the limits and every number of faults and stalls: type   *)
(* correctness, the inductive invariant DeliveryInv, that no submission is *)
(* lost, that attempts are exclusive, and that Delivery implements         *)
(* Lifecycle, whose limits it therefore respects.  The last section is     *)
(* about RedisCrash, which adds restarts of Redis to the same steps.       *)
(***************************************************************************)
EXTENDS RedisCrash, LifecycleProofs

\* What is neither an event nor an entry.
LEMMA NoneIsFresh == None \notin Event /\ None \notin Entry
  BY DEF None, Event, Entry

-----------------------------------------------------------------------------
(* Types.                                                                  *)

LEMMA TypeInitially == Init => TypeOK
  BY DeliveryAssumption
  DEF Init, LifecycleInit, TypeOK, LifecycleTypeOK, Status, Event, Entry, PCs

LEMMA TypeDispatch ==
  ASSUME TypeOK, RowLocks, NEW w \in Workers,
         \/ LockNextOutbox(w) \/ Enqueue(w) \/ MarkDelivered(w)
         \/ EnqueueFails(w) \/ DispatchRollback(w)
  PROVE  TypeOK'
<1> USE NoneIsFresh DEF TypeOK, LifecycleTypeOK, RowLocks, rowVars, outboxVars, streamVars,
                        consumerVars, budget
<1>1. CASE LockNextOutbox(w)
  BY <1>1 DEF LockNextOutbox
<1>2. CASE Enqueue(w)
  BY <1>2 DEF Enqueue, AddEntry, Event, Entry
<1>3. CASE MarkDelivered(w)
  BY <1>3 DEF MarkDelivered, EndDispatch
<1>4. CASE EnqueueFails(w)
  <2>1. sending[w] \in outbox
    BY <1>4 DEF EnqueueFails
  <2>2. unread' \subseteq Entry /\ pel' \subseteq Entry /\ idle' \subseteq pel' /\ entrySeq' \in Nat
    BY <1>4 DEF EnqueueFails, AddEntry, Event, Entry
  <2>3. faults' \in 0..MaxFaults /\ stalls' \in 0..MaxStalls
    BY <1>4, DeliveryAssumption DEF EnqueueFails, Fault
  <2> QED
    BY <1>4, <2>1, <2>2, <2>3 DEF EnqueueFails, EndDispatch
<1>5. CASE DispatchRollback(w)
  BY <1>5, DeliveryAssumption DEF DispatchRollback, EndDispatch, Fault
<1> QED
  BY <1>1, <1>2, <1>3, <1>4, <1>5

LEMMA TypeConsume ==
  ASSUME TypeOK, NEW w \in Workers,
         \/ ClaimStale(w) \/ Claim(w) \/ TryStartSubmission(w)
         \/ FinishSubmissionConditional(w) \/ Ack(w)
         \/ ClaimReplyLost(w) \/ TryStartFails(w) \/ FinishFails(w) \/ HardTimeout(w)
         \/ AckFails(w)
  PROVE  TypeOK'
<1> USE DEF TypeOK, LifecycleTypeOK, Status, PCs, rowVars, outboxVars, streamVars,
            dispatchVars, budget, Goto, Drop
<1>1. CASE ClaimStale(w)
  BY <1>1 DEF ClaimStale, AutoClaim, Received
<1>2. CASE Claim(w)
  BY <1>2 DEF Claim, ReadGroup, Received, IsFirst
<1>3. CASE TryStartSubmission(w)
  BY <1>3 DEF TryStartSubmission, StartRow
<1>4. CASE FinishSubmissionConditional(w)
  BY <1>4 DEF FinishSubmissionConditional, FinishRow
<1>5. CASE Ack(w)
  BY <1>5 DEF Ack, XAck
<1>6. CASE ClaimReplyLost(w)
  BY <1>6, DeliveryAssumption DEF ClaimReplyLost, AutoClaim, ReadGroup, IsFirst, Fault
<1>7. CASE TryStartFails(w)
  BY <1>7, DeliveryAssumption DEF TryStartFails, StartRow, Fault
<1>8. CASE FinishFails(w)
  BY <1>8, DeliveryAssumption DEF FinishFails, FinishRow, Fault
<1>9. CASE HardTimeout(w)
  BY <1>9, DeliveryAssumption DEF HardTimeout, SetInternalError, Active, Fault
<1>10. CASE AckFails(w)
  BY <1>10, DeliveryAssumption DEF AckFails, Fault
<1> QED
  BY <1>1, <1>2, <1>3, <1>4, <1>5, <1>6, <1>7, <1>8, <1>9, <1>10

LEMMA TypeRecovery ==
  ASSUME TypeOK, NEW w \in Workers,
         \/ recoveryLoop(w) \/ Crash(w) \/ Shutdown(w)
         \/ \E s \in Submissions : RecoverFails(w, s)
  PROVE  TypeOK'
<1> USE DEF TypeOK, LifecycleTypeOK, Status, PCs, rowVars, outboxVars, streamVars,
            consumerVars, dispatchVars, budget, Goto, Drop
<1>1. CASE ListStaleProcessing(w)
  BY <1>1 DEF ListStaleProcessing
<1>2. ASSUME NEW s \in Submissions, RecoverStaleSubmission(w, s) PROVE TypeOK'
  BY <1>2 DEF RecoverStaleSubmission, InsertOutbox, Event
<1>3. ASSUME NEW s \in Submissions, RecoverFails(w, s) PROVE TypeOK'
  BY <1>3, DeliveryAssumption DEF RecoverFails, Fault
<1>4. CASE Crash(w)
  BY <1>4, DeliveryAssumption DEF Crash, EndDispatch, Fault
<1>5. CASE Shutdown(w)
  BY <1>5, DeliveryAssumption DEF Shutdown, SetInternalError, Active, EndDispatch, Fault
<1> QED
  BY <1>1, <1>2, <1>3, <1>4, <1>5 DEF recoveryLoop

LEMMA TypeEnvironment ==
  ASSUME TypeOK,
         \/ \E s \in Submissions : CreateSubmissionQueued(s)
         \/ Elapse
         \/ \E x \in Junk : ForeignEntry(x)
  PROVE  TypeOK'
<1> USE DEF TypeOK, LifecycleTypeOK, Status, rowVars, outboxVars, streamVars,
            consumerVars, dispatchVars, budget
<1>1. ASSUME NEW s \in Submissions, CreateSubmissionQueued(s) PROVE TypeOK'
  BY <1>1 DEF CreateSubmissionQueued, InsertOutbox, Event
<1>2. ASSUME NEW s \in Submissions, Abandoned(s) \/ AttemptStalls(s) PROVE TypeOK'
  BY <1>2, DeliveryAssumption DEF Abandoned, AttemptStalls, RowAges, Stall
<1>3. ASSUME NEW s \in Submissions, BackoffEnds(s) PROVE TypeOK'
  BY <1>3 DEF BackoffEnds
<1>4. ASSUME NEW x \in Submissions \cup Junk, EntryIdles(x) PROVE TypeOK'
  BY <1>4 DEF EntryIdles
<1>5. ASSUME NEW x \in Junk, ForeignEntry(x) PROVE TypeOK'
  BY <1>5, DeliveryAssumption DEF ForeignEntry, AddEntry, Entry, Fault
<1> QED
  BY <1>1, <1>2, <1>3, <1>4, <1>5 DEF Elapse

LEMMA TypeStep == TypeOK /\ RowLocks /\ [Next]_vars => TypeOK'
<1> SUFFICES ASSUME TypeOK, RowLocks, [Next]_vars PROVE TypeOK'
  OBVIOUS
<1>1. CASE UNCHANGED vars
  BY <1>1 DEF TypeOK, LifecycleTypeOK, vars, rowVars, outboxVars, streamVars,
              consumerVars, dispatchVars, budget
<1>2. ASSUME NEW w \in Workers, outboxLoop(w) \/ consumeLoop(w) \/ recoveryLoop(w) \/ WorkerFault(w)
      PROVE  TypeOK'
  BY <1>2, TypeDispatch, TypeConsume, TypeRecovery DEF outboxLoop, consumeLoop, WorkerFault
<1> QED
  BY <1>1, <1>2, TypeEnvironment DEF Next

-----------------------------------------------------------------------------
(* Row locks of the dispatchers.                                           *)

LEMMA RowLocksStep == TypeOK /\ RowLocks /\ [Next]_vars => RowLocks'
<1> SUFFICES ASSUME TypeOK, RowLocks, [Next]_vars PROVE RowLocks'
  OBVIOUS
<1> USE NoneIsFresh DEF TypeOK, RowLocks, outboxVars, dispatchVars
<1>1. CASE UNCHANGED vars
  BY <1>1 DEF vars
<1>2. ASSUME NEW s \in Submissions, CreateSubmissionQueued(s) PROVE RowLocks'
  BY <1>2 DEF CreateSubmissionQueued, InsertOutbox
<1>3. ASSUME NEW w \in Workers, outboxLoop(w) PROVE RowLocks'
  <2>1. CASE LockNextOutbox(w)
    BY <2>1 DEF LockNextOutbox, IsFirst
  <2>2. CASE Enqueue(w)
    BY <2>2 DEF Enqueue
  <2>3. CASE MarkDelivered(w)
    BY <2>3 DEF MarkDelivered, EndDispatch
  <2> QED
    BY <1>3, <2>1, <2>2, <2>3 DEF outboxLoop
<1>4. ASSUME NEW w \in Workers, consumeLoop(w) PROVE RowLocks'
  BY <1>4 DEF consumeLoop, ClaimStale, Claim, TryStartSubmission,
              FinishSubmissionConditional, Ack
<1>5. ASSUME NEW w \in Workers, recoveryLoop(w) PROVE RowLocks'
  BY <1>5 DEF recoveryLoop, ListStaleProcessing, RecoverStaleSubmission, InsertOutbox
<1>6. ASSUME NEW w \in Workers, WorkerFault(w) PROVE RowLocks'
  <2>1. CASE EnqueueFails(w)
    BY <2>1 DEF EnqueueFails, EndDispatch
  <2>2. CASE DispatchRollback(w) \/ Crash(w) \/ Shutdown(w)
    BY <2>2 DEF DispatchRollback, Crash, Shutdown, EndDispatch
  <2>3. CASE \/ ClaimReplyLost(w) \/ TryStartFails(w) \/ FinishFails(w) \/ HardTimeout(w)
             \/ AckFails(w) \/ \E s \in Submissions : RecoverFails(w, s)
    BY <2>3 DEF ClaimReplyLost, TryStartFails, FinishFails, HardTimeout, AckFails, RecoverFails
  <2> QED
    BY <1>6, <2>1, <2>2, <2>3 DEF WorkerFault
<1>7. CASE Elapse
  BY <1>7 DEF Elapse, Abandoned, AttemptStalls, RowAges, BackoffEnds, EntryIdles
<1>8. ASSUME NEW x \in Junk, ForeignEntry(x) PROVE RowLocks'
  BY <1>8 DEF ForeignEntry
<1> QED
  BY <1>1, <1>2, <1>3, <1>4, <1>5, <1>6, <1>7, <1>8 DEF Next

(***************************************************************************)
(* Every variable keeps its type, and what the queries and commands select *)
(* from stays consistent: only running rows are stale, only undelivered    *)
(* events back off, only pending entries are idle.                         *)
(***************************************************************************)
THEOREM DeliveryType == Spec => []TypeOK
<1>1. Init => TypeOK /\ RowLocks
  BY TypeInitially DEF Init, RowLocks
<1>2. TypeOK /\ RowLocks /\ [Next]_vars => (TypeOK /\ RowLocks)'
  BY TypeStep, RowLocksStep
<1> QED
  BY <1>1, <1>2, PTL DEF Spec

-----------------------------------------------------------------------------
(* Fresh ids.                                                              *)

LEMMA FreshIdsStep == TypeOK /\ FreshIds /\ [Next]_vars => FreshIds'
<1> SUFFICES ASSUME TypeOK, FreshIds, [Next]_vars PROVE FreshIds'
  OBVIOUS
<1> USE DEF TypeOK, FreshIds, Event, Entry, None, outboxVars, streamVars,
            consumerVars, dispatchVars, Goto, Drop
<1>1. CASE UNCHANGED vars
  BY <1>1 DEF vars
<1>2. ASSUME NEW s \in Submissions, CreateSubmissionQueued(s) PROVE FreshIds'
  BY <1>2 DEF CreateSubmissionQueued, InsertOutbox
<1>3. ASSUME NEW w \in Workers, outboxLoop(w) PROVE FreshIds'
  <2>1. CASE LockNextOutbox(w)
    BY <2>1 DEF LockNextOutbox
  <2>2. CASE Enqueue(w)
    BY <2>2 DEF Enqueue, AddEntry
  <2>3. CASE MarkDelivered(w)
    BY <2>3 DEF MarkDelivered, EndDispatch
  <2> QED
    BY <1>3, <2>1, <2>2, <2>3 DEF outboxLoop
<1>4. ASSUME NEW w \in Workers, consumeLoop(w) PROVE FreshIds'
  <2>1. CASE ClaimStale(w)
    BY <2>1 DEF ClaimStale, AutoClaim, Received
  <2>2. CASE Claim(w)
    BY <2>2 DEF Claim, ReadGroup, IsFirst, Received
  <2>3. CASE TryStartSubmission(w) \/ FinishSubmissionConditional(w)
    BY <2>3 DEF TryStartSubmission, FinishSubmissionConditional
  <2>4. CASE Ack(w)
    BY <2>4 DEF Ack, XAck
  <2> QED
    BY <1>4, <2>1, <2>2, <2>3, <2>4 DEF consumeLoop
<1>5. ASSUME NEW w \in Workers, recoveryLoop(w) PROVE FreshIds'
  BY <1>5 DEF recoveryLoop, ListStaleProcessing, RecoverStaleSubmission, InsertOutbox
<1>6. ASSUME NEW w \in Workers, WorkerFault(w) PROVE FreshIds'
  <2>1. CASE EnqueueFails(w)
    BY <2>1 DEF EnqueueFails, EndDispatch, AddEntry
  <2>2. CASE DispatchRollback(w) \/ Crash(w) \/ Shutdown(w)
    BY <2>2 DEF DispatchRollback, Crash, Shutdown, EndDispatch
  <2>3. CASE ClaimReplyLost(w)
    BY <2>3 DEF ClaimReplyLost, AutoClaim, ReadGroup, IsFirst
  <2>4. CASE \/ TryStartFails(w) \/ FinishFails(w) \/ HardTimeout(w) \/ AckFails(w)
             \/ \E s \in Submissions : RecoverFails(w, s)
    BY <2>4 DEF TryStartFails, FinishFails, HardTimeout, AckFails, RecoverFails
  <2> QED
    BY <1>6, <2>1, <2>2, <2>3, <2>4 DEF WorkerFault
<1>7. CASE Elapse
  BY <1>7 DEF Elapse, Abandoned, AttemptStalls, RowAges, BackoffEnds, EntryIdles
<1>8. ASSUME NEW x \in Junk, ForeignEntry(x) PROVE FreshIds'
  BY <1>8 DEF ForeignEntry, AddEntry
<1> QED
  BY <1>1, <1>2, <1>3, <1>4, <1>5, <1>6, <1>7, <1>8 DEF Next

-----------------------------------------------------------------------------
(* Every queued row can still be delivered.                                *)

AllDeliverable == \A s \in Submissions : status[s] = "queued" => Deliverable(s)

\* A new event is nobody's, so it delivers its row.
LEMMA NewEventDelivers ==
  ASSUME TypeOK, FreshIds, NEW s \in Submissions, InsertOutbox(s), UNCHANGED dispatchVars
  PROVE  Deliverable(s)'
<1> DEFINE e == [id |-> eventSeq + 1, sub |-> s]
<1>1. e \in outbox' /\ e.sub = s
  BY DEF InsertOutbox
<1>2. \A w \in sent' : sending'[w] # e
  BY DEF TypeOK, FreshIds, dispatchVars
<1> QED
  BY <1>1, <1>2 DEF Deliverable

\* A new entry is nobody's, so it delivers its row.
LEMMA NewEntryDelivers ==
  ASSUME TypeOK, FreshIds, NEW s \in Submissions, AddEntry(s), UNCHANGED consumerVars
  PROVE  Deliverable(s)'
<1> DEFINE m == [id |-> entrySeq + 1, sub |-> s]
<1>1. m \in unread' /\ m.sub = s
  BY DEF AddEntry
<1>2. \A w \in Workers : job'[w] # m
  BY DEF TypeOK, FreshIds, consumerVars
<1> QED
  BY <1>1, <1>2 DEF Deliverable

\* Nothing that delivers s is touched.
LEMMA DeliverableFrame ==
  ASSUME NEW s, Deliverable(s), UNCHANGED <<sending, sent, unread, pel, pc, job>>,
         outbox \subseteq outbox'
  PROVE  Deliverable(s)'
  BY DEF Deliverable

LEMMA DeliverableStep ==
  TypeOK /\ RowLocks /\ FreshIds /\ AllDeliverable /\ [Next]_vars => AllDeliverable'
<1> SUFFICES ASSUME TypeOK, RowLocks, FreshIds, AllDeliverable, [Next]_vars,
                    NEW s \in Submissions, status'[s] = "queued"
             PROVE  Deliverable(s)'
  BY DEF AllDeliverable
<1>1. CASE UNCHANGED vars
  BY <1>1 DEF AllDeliverable, Deliverable, vars, rowVars, outboxVars, streamVars, consumerVars,
              dispatchVars
<1>2. ASSUME NEW r \in Submissions, CreateSubmissionQueued(r) PROVE Deliverable(s)'
  <2>1. CASE r = s
    BY <1>2, <2>1, NewEventDelivers DEF CreateSubmissionQueued
  <2>2. CASE r # s
    BY <1>2, <2>2 DEF CreateSubmissionQueued, InsertOutbox, AllDeliverable, Deliverable,
                      TypeOK, LifecycleTypeOK, streamVars, consumerVars, dispatchVars
  <2> QED
    BY <2>1, <2>2
<1>3. ASSUME NEW w \in Workers, outboxLoop(w) PROVE Deliverable(s)'
  <2>0. Deliverable(s)
    BY <1>3 DEF outboxLoop, LockNextOutbox, Enqueue, MarkDelivered, AllDeliverable, rowVars
  <2>1. CASE LockNextOutbox(w)
    BY <2>0, <2>1 DEF LockNextOutbox, Deliverable, RowLocks, TypeOK, outboxVars, streamVars,
                      consumerVars
  <2>2. CASE Enqueue(w)
    <3>1. sending[w] \in Event
      BY <2>2 DEF Enqueue, TypeOK
    <3>2. CASE sending[w].sub = s
      BY <2>2, <3>2, NewEntryDelivers DEF Enqueue
    <3>3. CASE sending[w].sub # s
      BY <2>0, <2>2, <3>3 DEF Enqueue, AddEntry, Deliverable, outboxVars, consumerVars
    <3> QED
      BY <3>2, <3>3
  <2>3. CASE MarkDelivered(w)
    BY <2>0, <2>3 DEF MarkDelivered, EndDispatch, Deliverable, TypeOK, streamVars, consumerVars
  <2> QED
    BY <1>3, <2>1, <2>2, <2>3 DEF outboxLoop
<1>4. ASSUME NEW w \in Workers, consumeLoop(w) PROVE Deliverable(s)'
  <2> USE DEF Goto, Drop, TypeOK, LifecycleTypeOK, rowVars, outboxVars, streamVars, dispatchVars
  <2>0. Deliverable(s)
    BY <1>4 DEF consumeLoop, ClaimStale, Claim, TryStartSubmission, StartRow,
                FinishSubmissionConditional, FinishRow, Ack, AllDeliverable
  <2>1. CASE ClaimStale(w)
    BY <2>0, <2>1, NoneIsFresh, DeliveryAssumption
    DEF ClaimStale, AutoClaim, Received, Deliverable, Junk
  <2>2. CASE Claim(w)
    BY <2>0, <2>2, NoneIsFresh, DeliveryAssumption
    DEF Claim, ReadGroup, Received, Deliverable, Junk
  <2>3. CASE TryStartSubmission(w)
    BY <2>0, <2>3, NoneIsFresh DEF TryStartSubmission, StartRow, Deliverable
  <2>4. CASE FinishSubmissionConditional(w)
    BY <2>0, <2>4, NoneIsFresh DEF FinishSubmissionConditional, FinishRow, Deliverable
  <2>5. CASE Ack(w)
    BY <2>0, <2>5, NoneIsFresh DEF Ack, XAck, Deliverable
  <2> QED
    BY <1>4, <2>1, <2>2, <2>3, <2>4, <2>5 DEF consumeLoop
<1>5. ASSUME NEW w \in Workers, recoveryLoop(w) PROVE Deliverable(s)'
  <2>1. CASE ListStaleProcessing(w)
    BY <2>1, DeliverableFrame DEF ListStaleProcessing, AllDeliverable, rowVars, outboxVars,
                                  streamVars, consumerVars, dispatchVars
  <2>2. ASSUME NEW r \in Submissions, RecoverStaleSubmission(w, r) PROVE Deliverable(s)'
    <3>1. CASE r = s /\ r \in stale
      BY <2>2, <3>1, NewEventDelivers DEF RecoverStaleSubmission
    <3>2. CASE r # s \/ r \notin stale
      BY <2>2, <3>2, DeliverableFrame
      DEF RecoverStaleSubmission, InsertOutbox, AllDeliverable, TypeOK, LifecycleTypeOK,
          rowVars, outboxVars, streamVars, consumerVars, dispatchVars
    <3> QED
      BY <3>1, <3>2
  <2> QED
    BY <1>5, <2>1, <2>2 DEF recoveryLoop
<1>6. ASSUME NEW w \in Workers, WorkerFault(w) PROVE Deliverable(s)'
  <2> USE DEF Goto, Drop, TypeOK, LifecycleTypeOK, rowVars, outboxVars, streamVars,
              consumerVars, dispatchVars
  <2>0. Deliverable(s)
    BY <1>6 DEF WorkerFault, EnqueueFails, DispatchRollback, ClaimReplyLost, TryStartFails,
                StartRow, FinishFails, FinishRow, HardTimeout, SetInternalError, AckFails,
                Crash, Shutdown, RecoverFails, AllDeliverable
  <2>1. CASE EnqueueFails(w)
    BY <2>0, <2>1 DEF EnqueueFails, EndDispatch, AddEntry, Deliverable
  <2>2. CASE DispatchRollback(w)
    BY <2>0, <2>2 DEF DispatchRollback, EndDispatch, Deliverable
  <2>3. CASE ClaimReplyLost(w)
    BY <2>0, <2>3, NoneIsFresh DEF ClaimReplyLost, AutoClaim, ReadGroup, Deliverable
  <2>4. CASE TryStartFails(w) \/ FinishFails(w) \/ AckFails(w)
    BY <2>0, <2>4, NoneIsFresh DEF TryStartFails, FinishFails, AckFails, Deliverable
  <2>5. CASE HardTimeout(w)
    BY <2>0, <2>5 DEF HardTimeout, Deliverable
  <2>6. CASE Crash(w)
    BY <2>0, <2>6, NoneIsFresh DEF Crash, EndDispatch, Deliverable
  <2>7. CASE Shutdown(w)
    BY <2>0, <2>7 DEF Shutdown, EndDispatch, Deliverable
  <2>8. ASSUME NEW r \in Submissions, RecoverFails(w, r) PROVE Deliverable(s)'
    BY <2>0, <2>8, DeliverableFrame DEF RecoverFails
  <2> QED
    BY <1>6, <2>1, <2>2, <2>3, <2>4, <2>5, <2>6, <2>7, <2>8 DEF WorkerFault
<1>7. CASE Elapse
  BY <1>7, DeliverableFrame
  DEF Elapse, Abandoned, AttemptStalls, RowAges, BackoffEnds, EntryIdles, AllDeliverable,
      rowVars, outboxVars, streamVars, consumerVars, dispatchVars
<1>8. ASSUME NEW x \in Junk, ForeignEntry(x) PROVE Deliverable(s)'
  BY <1>8 DEF ForeignEntry, AddEntry, AllDeliverable, Deliverable, rowVars, outboxVars,
              consumerVars, dispatchVars
<1> QED
  BY <1>1, <1>2, <1>3, <1>4, <1>5, <1>6, <1>7, <1>8 DEF Next

-----------------------------------------------------------------------------
(* Every attempt is its worker's own.                                      *)

AllOwnAttempts == \A w \in Workers : pc[w] = "working" => OwnAttempt(w)

\* A step that neither starts an attempt nor touches the rows attempted.
LEMMA OwnAttemptFrame ==
  ASSUME TypeOK, AllOwnAttempts, stalls' >= stalls,
         \A w \in Workers : pc'[w] = "working" => pc[w] = "working" /\ job'[w] = job[w],
         \A w \in Workers :
           pc'[w] = "working" /\ stalls = 0 =>
             /\ status'[job[w].sub] = status[job[w].sub]
             /\ job[w].sub \in stale' => job[w].sub \in stale
  PROVE  AllOwnAttempts'
  BY DEF TypeOK, AllOwnAttempts, OwnAttempt

LEMMA OwnAttemptStep == TypeOK /\ AllOwnAttempts /\ [Next]_vars => AllOwnAttempts'
<1> SUFFICES ASSUME TypeOK, AllOwnAttempts, [Next]_vars PROVE AllOwnAttempts'
  OBVIOUS
<1>0. \A w \in Workers :
        pc[w] = "working" => /\ job[w].sub \in Submissions
                             /\ stalls = 0 => /\ status[job[w].sub] = "mock_processing"
                                              /\ job[w].sub \notin stale
  BY DEF AllOwnAttempts, OwnAttempt
<1> USE DEF TypeOK, LifecycleTypeOK, rowVars, consumerVars, budget, Goto, Drop
<1>1. CASE UNCHANGED vars
  BY <1>1, OwnAttemptFrame DEF vars
<1>2. ASSUME NEW s \in Submissions, CreateSubmissionQueued(s) PROVE AllOwnAttempts'
  BY <1>0, <1>2, OwnAttemptFrame DEF CreateSubmissionQueued
<1>3. ASSUME NEW w \in Workers, outboxLoop(w) PROVE AllOwnAttempts'
  BY <1>3, OwnAttemptFrame DEF outboxLoop, LockNextOutbox, Enqueue, MarkDelivered
<1>4. ASSUME NEW w \in Workers, consumeLoop(w) PROVE AllOwnAttempts'
  <2>1. CASE ClaimStale(w) \/ Claim(w) \/ Ack(w)
    BY <2>1, OwnAttemptFrame DEF ClaimStale, Claim, Received, Ack
  <2>2. CASE TryStartSubmission(w)
    <3>1. CASE pc'[w] # "working"
      BY <2>2, <3>1, OwnAttemptFrame DEF TryStartSubmission
    <3>2. CASE pc'[w] = "working"
      BY <1>0, <2>2, <3>2 DEF TryStartSubmission, StartRow, AllOwnAttempts, OwnAttempt
    <3> QED
      BY <3>1, <3>2
  <2>3. CASE FinishSubmissionConditional(w)
    BY <2>3 DEF FinishSubmissionConditional, FinishRow, AllOwnAttempts, OwnAttempt
  <2> QED
    BY <1>4, <2>1, <2>2, <2>3 DEF consumeLoop
<1>5. ASSUME NEW w \in Workers, recoveryLoop(w) PROVE AllOwnAttempts'
  <2>1. CASE ListStaleProcessing(w)
    BY <2>1, OwnAttemptFrame DEF ListStaleProcessing
  <2>2. ASSUME NEW s \in Submissions, RecoverStaleSubmission(w, s) PROVE AllOwnAttempts'
    BY <1>0, <2>2, OwnAttemptFrame DEF RecoverStaleSubmission
  <2> QED
    BY <1>5, <2>1, <2>2 DEF recoveryLoop
<1>6. ASSUME NEW w \in Workers, WorkerFault(w) PROVE AllOwnAttempts'
  <2> USE DEF Fault
  <2>1. CASE \/ EnqueueFails(w) \/ DispatchRollback(w) \/ ClaimReplyLost(w) \/ AckFails(w)
             \/ Crash(w) \/ \E s \in Submissions : RecoverFails(w, s)
    BY <2>1, OwnAttemptFrame DEF EnqueueFails, DispatchRollback, ClaimReplyLost, AckFails,
                                 Crash, RecoverFails
  <2>2. CASE TryStartFails(w)
    BY <1>0, <2>2, OwnAttemptFrame DEF TryStartFails, StartRow
  <2>3. CASE FinishFails(w)
    BY <2>3 DEF FinishFails, FinishRow, AllOwnAttempts, OwnAttempt
  <2>4. CASE HardTimeout(w) \/ Shutdown(w)
    BY <2>4 DEF HardTimeout, Shutdown, SetInternalError, AllOwnAttempts, OwnAttempt
  <2> QED
    BY <1>6, <2>1, <2>2, <2>3, <2>4 DEF WorkerFault
<1>7. CASE Elapse
  <2>1. ASSUME NEW s \in Submissions, Abandoned(s) PROVE AllOwnAttempts'
    BY <2>1, OwnAttemptFrame DEF Abandoned, Attempting, RowAges
  <2>2. ASSUME NEW s \in Submissions, AttemptStalls(s) PROVE AllOwnAttempts'
    BY <1>0, <2>2 DEF AttemptStalls, RowAges, Stall, AllOwnAttempts, OwnAttempt
  <2>3. ASSUME NEW s \in Submissions, BackoffEnds(s) PROVE AllOwnAttempts'
    BY <2>3, OwnAttemptFrame DEF BackoffEnds
  <2>4. ASSUME NEW x \in Submissions \cup Junk, EntryIdles(x) PROVE AllOwnAttempts'
    BY <2>4, OwnAttemptFrame DEF EntryIdles
  <2> QED
    BY <1>7, <2>1, <2>2, <2>3, <2>4 DEF Elapse
<1>8. ASSUME NEW x \in Junk, ForeignEntry(x) PROVE AllOwnAttempts'
  BY <1>8, OwnAttemptFrame DEF ForeignEntry, Fault
<1> QED
  BY <1>1, <1>2, <1>3, <1>4, <1>5, <1>6, <1>7, <1>8 DEF Next

-----------------------------------------------------------------------------
(* The inductive invariant and what follows from it.                       *)

(***************************************************************************)
(* DeliveryInv is inductive together with TypeOK.                          *)
(***************************************************************************)
THEOREM DeliveryInvariant == Spec => [](TypeOK /\ DeliveryInv)
<1>1. Init => TypeOK /\ DeliveryInv
  <2> SUFFICES ASSUME Init PROVE DeliveryInv
    BY TypeInitially
  <2>1. RowLocks /\ FreshIds
    BY DEF Init, RowLocks, FreshIds, None
  <2> QED
    BY <2>1 DEF Init, LifecycleInit, DeliveryInv
<1>2. TypeOK /\ DeliveryInv /\ [Next]_vars => (TypeOK /\ DeliveryInv)'
  BY TypeStep, RowLocksStep, FreshIdsStep, DeliverableStep, OwnAttemptStep
  DEF DeliveryInv, AllDeliverable, AllOwnAttempts
<1> QED
  BY <1>1, <1>2, PTL DEF Spec

(***************************************************************************)
(* The outbox and the stream between them never lose a queued submission:  *)
(* at every moment of every behaviour it is in one or the other.           *)
(***************************************************************************)
THEOREM NothingLost == Spec => []NoLostSubmission
<1>1. DeliveryInv => NoLostSubmission
  BY DEF DeliveryInv, Deliverable, NoLostSubmission
<1> QED
  BY <1>1, DeliveryInvariant, PTL

(***************************************************************************)
(* As long as no attempt stalls, a worker inside the mock work is the only *)
(* one that works on its row, and the row is still running.                *)
(***************************************************************************)
THEOREM AttemptsExclusive == Spec => []ExclusiveAttempt
<1>1. DeliveryInv => ExclusiveAttempt
  BY DEF DeliveryInv, OwnAttempt, ExclusiveAttempt
<1> QED
  BY <1>1, DeliveryInvariant, PTL

(***************************************************************************)
(* As long as no attempt stalls, SetInternalError never hits a row that is *)
(* queued.                                                                 *)
(***************************************************************************)
THEOREM QueuedKept == Spec => QueuedNotGivenUp
<1> DEFINE Kept == stalls = 0 => \A s \in Submissions :
                                   status[s] = "queued" => status'[s] # "internal_error"
<1>1. TypeOK /\ DeliveryInv /\ [Next]_vars => [Kept]_vars
  <2> SUFFICES ASSUME TypeOK, DeliveryInv, Next, stalls = 0,
                      NEW s \in Submissions, status[s] = "queued"
               PROVE  status'[s] # "internal_error"
    OBVIOUS
  <2>0. \A w \in Workers : pc[w] = "working" => status[job[w].sub] = "mock_processing"
    BY DEF DeliveryInv, OwnAttempt
  <2> USE DEF TypeOK, LifecycleTypeOK, rowVars
  <2>1. ASSUME NEW r \in Submissions, CreateSubmissionQueued(r) PROVE status'[s] # "internal_error"
    BY <2>1 DEF CreateSubmissionQueued
  <2>2. ASSUME NEW w \in Workers, outboxLoop(w) PROVE status'[s] # "internal_error"
    BY <2>2 DEF outboxLoop, LockNextOutbox, Enqueue, MarkDelivered
  <2>3. ASSUME NEW w \in Workers, consumeLoop(w) PROVE status'[s] # "internal_error"
    BY <2>3 DEF consumeLoop, ClaimStale, Claim, TryStartSubmission, StartRow,
                FinishSubmissionConditional, FinishRow, Ack
  <2>4. ASSUME NEW w \in Workers, recoveryLoop(w) PROVE status'[s] # "internal_error"
    BY <2>4 DEF recoveryLoop, ListStaleProcessing, RecoverStaleSubmission
  <2>5. ASSUME NEW w \in Workers, HardTimeout(w) \/ Shutdown(w) PROVE status'[s] # "internal_error"
    BY <2>0, <2>5 DEF HardTimeout, Shutdown, SetInternalError
  <2>6. ASSUME NEW w \in Workers, WorkerFault(w), ~HardTimeout(w), ~Shutdown(w)
        PROVE  status'[s] # "internal_error"
    BY <2>6 DEF WorkerFault, EnqueueFails, DispatchRollback, ClaimReplyLost, TryStartFails,
                StartRow, FinishFails, FinishRow, AckFails, Crash, RecoverFails
  <2>7. Elapse \/ (\E x \in Junk : ForeignEntry(x)) => status' = status
    BY DEF Elapse, Abandoned, AttemptStalls, RowAges, BackoffEnds, EntryIdles, ForeignEntry
  <2> QED
    BY <2>1, <2>2, <2>3, <2>4, <2>5, <2>6, <2>7 DEF Next
<1> QED
  BY <1>1, DeliveryInvariant, PTL DEF Spec, QueuedNotGivenUp

-----------------------------------------------------------------------------
(* Delivery implements Lifecycle.                                          *)

LEMMA LifecycleStep ==
  TypeOK /\ AllOwnAttempts /\ RunningQuota /\ [Next]_vars => [LifecycleNext]_status
<1> SUFFICES ASSUME TypeOK, AllOwnAttempts, RunningQuota, [Next]_vars
             PROVE  LifecycleNext \/ UNCHANGED status
  OBVIOUS
<1>0. \A w \in Workers : pc[w] = "working" => job[w].sub \in Submissions
  BY DEF AllOwnAttempts, OwnAttempt
<1> USE DEF rowVars
<1>1. CASE UNCHANGED vars
  BY <1>1 DEF vars
<1>2. ASSUME NEW s \in Submissions, CreateSubmissionQueued(s) PROVE LifecycleNext
  BY <1>2, AcceptedBelowBound, LifecycleAssumption DEF CreateSubmissionQueued, LifecycleNext, Accept
<1>3. ASSUME NEW w \in Workers, outboxLoop(w) PROVE UNCHANGED status
  BY <1>3 DEF outboxLoop, LockNextOutbox, Enqueue, MarkDelivered
<1>4. ASSUME NEW w \in Workers, consumeLoop(w) PROVE LifecycleNext \/ UNCHANGED status
  <2>1. CASE ClaimStale(w) \/ Claim(w) \/ Ack(w)
    BY <2>1 DEF ClaimStale, Claim, Ack
  <2>2. CASE TryStartSubmission(w)
    BY <2>2 DEF TryStartSubmission, StartRow, LifecycleNext, Begin
  <2>3. CASE FinishSubmissionConditional(w)
    BY <1>0, <2>3 DEF FinishSubmissionConditional, FinishRow, LifecycleNext, Complete
  <2> QED
    BY <1>4, <2>1, <2>2, <2>3 DEF consumeLoop
<1>5. ASSUME NEW w \in Workers, recoveryLoop(w) PROVE LifecycleNext \/ UNCHANGED status
  BY <1>5 DEF recoveryLoop, ListStaleProcessing, RecoverStaleSubmission, TypeOK,
              LifecycleNext, Requeue
<1>6. ASSUME NEW w \in Workers, WorkerFault(w) PROVE LifecycleNext \/ UNCHANGED status
  <2>1. CASE TryStartFails(w)
    BY <2>1 DEF TryStartFails, StartRow, LifecycleNext, Begin
  <2>2. CASE FinishFails(w)
    BY <1>0, <2>2 DEF FinishFails, FinishRow, LifecycleNext, Complete
  <2>3. CASE HardTimeout(w) \/ Shutdown(w)
    BY <2>3 DEF HardTimeout, Shutdown, SetInternalError, LifecycleNext, GiveUp, Active
  <2>4. CASE \/ EnqueueFails(w) \/ DispatchRollback(w) \/ ClaimReplyLost(w) \/ AckFails(w)
             \/ Crash(w) \/ \E s \in Submissions : RecoverFails(w, s)
    BY <2>4 DEF EnqueueFails, DispatchRollback, ClaimReplyLost, AckFails, Crash, RecoverFails
  <2> QED
    BY <1>6, <2>1, <2>2, <2>3, <2>4 DEF WorkerFault
<1>7. CASE Elapse \/ \E x \in Junk : ForeignEntry(x)
  BY <1>7 DEF Elapse, Abandoned, AttemptStalls, RowAges, BackoffEnds, EntryIdles, ForeignEntry
<1> QED
  BY <1>1, <1>2, <1>3, <1>4, <1>5, <1>6, <1>7 DEF Next

\* The rows stay within the limits, which the refinement needs itself: below
\* MaxQueued queued rows means below MaxQueued + MaxRunning active ones.
LEMMA DeliveryLimits == Spec => [](TypeOK /\ DeliveryInv /\ Limits)
<1>1. Init => Limits
  BY LimitsInitially DEF Init
<1>2. TypeOK /\ DeliveryInv /\ Limits /\ [Next]_vars => Limits'
  BY LifecycleStep, LimitsStep DEF Limits, DeliveryInv, AllOwnAttempts
<1> QED
  BY <1>1, <1>2, DeliveryInvariant, PTL DEF Spec

(***************************************************************************)
(* Whatever the transport, the workers and the clock do, the rows follow   *)
(* LifecycleSpec: no step skips a limit, leaves a terminal status or       *)
(* finishes a row that is not running.                                     *)
(***************************************************************************)
THEOREM DeliveryRefinesLifecycle == Spec => LifecycleSpec
<1>1. Init => LifecycleInit
  BY DEF Init
<1>2. DeliveryInv /\ Limits => AllOwnAttempts /\ RunningQuota
  BY DEF Limits, DeliveryInv, AllOwnAttempts
<1> QED
  BY <1>1, <1>2, LifecycleStep, DeliveryLimits, PTL DEF Spec, LifecycleSpec

(***************************************************************************)
(* So the limits of Lifecycle hold of the running system.                  *)
(***************************************************************************)
THEOREM DeliveryRespectsLimits ==
  Spec => [](RunningQuota /\ GlobalCapacity /\ ParticipantBound)
  BY DeliveryRefinesLifecycle, LimitsHold, PTL

-----------------------------------------------------------------------------
(* What does not depend on Redis: whatever a restart makes of the stream   *)
(* and of the consumer group, attempts stay exclusive and the rows follow  *)
(* LifecycleSpec.  (That no submission is lost does depend on it.)         *)

\* What a snapshot holds is fit to be the stream again.
SnapshotOK == snapshot.unread \subseteq Entry /\ snapshot.pel \subseteq Entry

CrashInv == TypeOK /\ RowLocks /\ AllOwnAttempts /\ Limits /\ SnapshotOK

LEMMA CrashInvInitially == CrashInit => CrashInv
<1> SUFFICES ASSUME CrashInit PROVE CrashInv
  OBVIOUS
<1>1. TypeOK
  BY TypeInitially DEF CrashInit
<1>2. RowLocks /\ AllOwnAttempts
  BY DEF CrashInit, Init, RowLocks, AllOwnAttempts
<1>3. Limits
  BY LimitsInitially DEF CrashInit, Init
<1>4. SnapshotOK
  BY DEF CrashInit, NoStream, SnapshotOK
<1> QED
  BY <1>1, <1>2, <1>3, <1>4 DEF CrashInv

\* A step is one of Delivery's, or touches neither rows nor outbox.
LEMMA CrashStepKinds ==
  ASSUME [CrashNext]_crashVars
  PROVE  \/ [Next]_vars
         \/ RedisRestart
         \/ \E w \in Workers : ClaimWithoutGroup(w)
<1>1. CASE UNCHANGED crashVars
  BY <1>1 DEF crashVars
<1>2. ASSUME NEW w \in Workers, crashConsumeLoop(w), ~ClaimWithoutGroup(w) PROVE Next
  BY <1>2 DEF crashConsumeLoop, Processing, Claiming, consumeLoop, Next
<1>3. ASSUME NEW w \in Workers, CrashFault(w) PROVE Next
  BY <1>3 DEF CrashFault, WorkerFault, Next
<1>4. CASE \/ \E w \in Workers : crashOutboxLoop(w) \/ crashRecoveryLoop(w)
           \/ \E s \in Submissions : CreateSubmissionQueued(s)
           \/ Elapse
           \/ \E x \in Junk : ForeignEntry(x)
  BY <1>4 DEF crashOutboxLoop, crashRecoveryLoop, Next
<1>5. CASE BackgroundSave
  BY <1>5 DEF BackgroundSave
<1> QED
  BY <1>1, <1>2, <1>3, <1>4, <1>5 DEF CrashNext

\* Snapshots record the stream, and the stream has its type.
LEMMA SnapshotStep ==
  ASSUME TypeOK, SnapshotOK, [CrashNext]_crashVars
  PROVE  SnapshotOK'
<1>1. CASE BackgroundSave
  BY <1>1 DEF BackgroundSave, SnapshotOK, TypeOK
<1>2. CASE ~BackgroundSave
  <2>1. UNCHANGED snapshot
    BY <1>2 DEF CrashNext, crashVars, redisVars, crashConsumeLoop, ClaimWithoutGroup,
                crashOutboxLoop, crashRecoveryLoop, CrashFault, EndOfAck,
                EnsureConsumerGroup, RedisRestart
  <2> QED
    BY <2>1 DEF SnapshotOK
<1> QED
  BY <1>1, <1>2

LEMMA CrashInvStep == CrashInv /\ [CrashNext]_crashVars => CrashInv'
<1> SUFFICES ASSUME CrashInv, [CrashNext]_crashVars PROVE CrashInv'
  OBVIOUS
<1>0. TypeOK /\ RowLocks /\ AllOwnAttempts /\ Limits /\ SnapshotOK
  BY DEF CrashInv
<1>1. SnapshotOK'
  BY <1>0, SnapshotStep
<1>2. CASE [Next]_vars
  <2>1. TypeOK' /\ RowLocks' /\ AllOwnAttempts'
    BY <1>0, <1>2, TypeStep, RowLocksStep, OwnAttemptStep
  <2>2. Limits'
    BY <1>0, <1>2, LifecycleStep, LimitsStep DEF Limits
  <2> QED
    BY <1>1, <2>1, <2>2 DEF CrashInv
<1>3. CASE RedisRestart
  <2> USE <1>0, <1>3 DEF RedisRestart, rowVars, outboxVars, consumerVars, dispatchVars,
                         budget
  <2>1. TypeOK'
    BY DEF TypeOK, LifecycleTypeOK, SnapshotOK
  <2>2. RowLocks'
    BY DEF RowLocks
  <2>3. AllOwnAttempts'
    BY DEF AllOwnAttempts, OwnAttempt
  <2>4. Limits'
    BY DEF Limits, RunningQuota, GlobalCapacity, ParticipantBound, Active, ActiveOf,
           QueuedOf, RunningOf, LifecycleTypeOK
  <2> QED
    BY <1>1, <2>1, <2>2, <2>3, <2>4 DEF CrashInv
<1>4. ASSUME NEW w \in Workers, ClaimWithoutGroup(w) PROVE CrashInv'
  <2> USE <1>0, <1>4 DEF ClaimWithoutGroup, Drop, Goto, rowVars, outboxVars, streamVars,
                         dispatchVars, budget
  <2>1. TypeOK'
    BY DEF TypeOK, LifecycleTypeOK, PCs
  <2>2. RowLocks'
    BY DEF RowLocks
  <2>3. AllOwnAttempts'
    BY DEF AllOwnAttempts, OwnAttempt, TypeOK
  <2>4. Limits'
    BY DEF Limits, RunningQuota, GlobalCapacity, ParticipantBound, Active, ActiveOf,
           QueuedOf, RunningOf, LifecycleTypeOK
  <2> QED
    BY <1>1, <2>1, <2>2, <2>3, <2>4 DEF CrashInv
<1> QED
  BY <1>2, <1>3, <1>4, CrashStepKinds

(***************************************************************************)
(* As long as no worker is suspended beyond WORKER_STALE_AFTER, no two     *)
(* workers work on one submission and each works on a running one, also    *)
(* when Redis comes back with entries that were acknowledged before it     *)
(* died: TryStartSubmission asks PostgreSQL, not the stream.               *)
(***************************************************************************)
THEOREM CrashAttemptsExclusive == CrashSpec => []ExclusiveAttempt
<1>1. CrashInv => ExclusiveAttempt
  BY DEF CrashInv, AllOwnAttempts, OwnAttempt, ExclusiveAttempt
<1> QED
  BY <1>1, CrashInvInitially, CrashInvStep, PTL DEF CrashSpec

(***************************************************************************)
(* The rows follow LifecycleSpec through any restart of Redis: a replayed  *)
(* entry cannot start a decided row and a lost one cannot decide it, so    *)
(* what a restart can cost is the delivery and nothing else.               *)
(***************************************************************************)
THEOREM CrashRefinesLifecycle == CrashSpec => LifecycleSpec
<1>1. CrashInit => LifecycleInit
  BY DEF CrashInit, Init
<1>2. CrashInv /\ [CrashNext]_crashVars => [LifecycleNext]_status
  <2> SUFFICES ASSUME CrashInv, [CrashNext]_crashVars
               PROVE  LifecycleNext \/ UNCHANGED status
    OBVIOUS
  <2>1. CASE [Next]_vars
    BY <2>1, LifecycleStep DEF CrashInv, Limits
  <2>2. CASE RedisRestart \/ \E w \in Workers : ClaimWithoutGroup(w)
    BY <2>2 DEF RedisRestart, ClaimWithoutGroup, rowVars
  <2> QED
    BY <2>1, <2>2, CrashStepKinds
<1> QED
  BY <1>1, <1>2, CrashInvInitially, CrashInvStep, PTL DEF CrashSpec, LifecycleSpec
=============================================================================
