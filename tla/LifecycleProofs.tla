-------------------------- MODULE LifecycleProofs --------------------------
(***************************************************************************)
(* The limits PostgreSQL enforces hold in every behaviour of LifecycleSpec, *)
(* for every number of submissions and participants and every value of the *)
(* limits.                                                                 *)
(***************************************************************************)
EXTENDS Lifecycle, FiniteSetTheorems, TLAPS

\* A set cannot grow past a bound that it was below by one element, and the
\* sets counted by the queries are finite.
LEMMA CardinalityOfSubset ==
  ASSUME NEW T, IsFiniteSet(T), NEW S, S \subseteq T
  PROVE  /\ IsFiniteSet(S)
         /\ Cardinality(S) \in Nat
         /\ Cardinality(T) \in Nat
         /\ Cardinality(S) <= Cardinality(T)
  BY FS_Subset, FS_CardinalityType

\* Adding at most one element to a set below a bound reaches the bound at most.
LEMMA CardinalityWithOneMore ==
  ASSUME NEW T, IsFiniteSet(T), NEW x, NEW S, S \subseteq T \cup {x},
         NEW n \in Nat, Cardinality(T) < n
  PROVE  Cardinality(S) <= n
<1>0. Cardinality(T) \in Nat
  BY FS_CardinalityType
<1>1. /\ IsFiniteSet(T \cup {x})
      /\ Cardinality(T \cup {x}) \in {Cardinality(T), Cardinality(T) + 1}
  BY FS_AddElement, Zenon
<1>2. Cardinality(S) <= Cardinality(T \cup {x})
  BY <1>1, CardinalityOfSubset
<1>3. Cardinality(S) \in Nat
  BY <1>1, CardinalityOfSubset
<1> QED
  BY <1>0, <1>1, <1>2, <1>3

\* A union has at most as many elements as its two parts together.
LEMMA CardinalityOfUnion ==
  ASSUME NEW S, IsFiniteSet(S), NEW T, IsFiniteSet(T)
  PROVE  Cardinality(S \cup T) <= Cardinality(S) + Cardinality(T)
<1>1. Cardinality(S \cup T) = Cardinality(S) + Cardinality(T) - Cardinality(S \cap T)
  BY FS_Union, Zenon
<1>2. IsFiniteSet(S \cap T)
  BY CardinalityOfSubset
<1>3. Cardinality(S) \in Nat /\ Cardinality(T) \in Nat /\ Cardinality(S \cap T) \in Nat
  BY <1>2, FS_CardinalityType
<1> QED
  BY <1>1, <1>3

\* The row sets of the COUNT queries are finite.
LEMMA RowSetsFinite ==
  /\ IsFiniteSet(Active)
  /\ \A p : IsFiniteSet(QueuedOf(p)) /\ IsFiniteSet(RunningOf(p)) /\ IsFiniteSet(ActiveOf(p))
<1>1. Active \subseteq Submissions
  BY DEF Active
<1>2. \A p : /\ QueuedOf(p) \subseteq Submissions
             /\ RunningOf(p) \subseteq Submissions
             /\ ActiveOf(p) \subseteq Submissions
  BY DEF QueuedOf, RunningOf, ActiveOf
<1> QED
  BY <1>1, <1>2, CardinalityOfSubset, LifecycleAssumption

\* The queued limit bounds the active rows, given the running limit.
LEMMA AcceptedBelowBound ==
  ASSUME RunningQuota, NEW p \in Participants, Cardinality(QueuedOf(p)) < MaxQueued
  PROVE  Cardinality(ActiveOf(p)) < MaxQueued + MaxRunning
<1>1. Cardinality(ActiveOf(p)) <= Cardinality(QueuedOf(p)) + Cardinality(RunningOf(p))
  BY RowSetsFinite, CardinalityOfUnion DEF ActiveOf
<1>2. /\ Cardinality(ActiveOf(p)) \in Nat
      /\ Cardinality(QueuedOf(p)) \in Nat
      /\ Cardinality(RunningOf(p)) \in Nat
  BY RowSetsFinite, FS_CardinalityType
<1> QED
  BY <1>1, <1>2, LifecycleAssumption DEF RunningQuota

(***************************************************************************)
(* Every row has one of the statuses of the CHECK constraint.              *)
(***************************************************************************)
THEOREM LifecycleType == LifecycleSpec => []LifecycleTypeOK
<1>1. LifecycleInit => LifecycleTypeOK
  BY DEF LifecycleInit, LifecycleTypeOK, Status
<1>2. LifecycleTypeOK /\ [LifecycleNext]_status => LifecycleTypeOK'
  BY DEF LifecycleTypeOK, LifecycleNext, Status, Accept, Begin, Complete, GiveUp, Requeue
<1> QED
  BY <1>1, <1>2, PTL DEF LifecycleSpec

\* The three limits, with the typing their induction needs.
Limits == LifecycleTypeOK /\ RunningQuota /\ GlobalCapacity /\ ParticipantBound

LEMMA LimitsInitially == LifecycleInit => Limits
<1> SUFFICES ASSUME LifecycleInit PROVE Limits
  OBVIOUS
<1>1. Active = {} /\ \A p : RunningOf(p) = {} /\ ActiveOf(p) = {}
  BY DEF LifecycleInit, Active, QueuedOf, RunningOf, ActiveOf
<1> QED
  BY <1>1, FS_EmptySet, LifecycleAssumption
  DEF Limits, LifecycleTypeOK, RunningQuota, GlobalCapacity, ParticipantBound, LifecycleInit, Status

\* A step that takes the row s out of a set of the limits only shrinks them.
LEMMA LimitsShrink ==
  ASSUME Limits, LifecycleTypeOK',
         Active' \subseteq Active,
         \A p \in Participants : /\ RunningOf(p)' \subseteq RunningOf(p)
                                 /\ ActiveOf(p)' \subseteq ActiveOf(p)
  PROVE  Limits'
<1>1. GlobalCapacity'
  BY RowSetsFinite, CardinalityOfSubset, LifecycleAssumption DEF Limits, GlobalCapacity
<1>2. RunningQuota'
  BY RowSetsFinite, CardinalityOfSubset, LifecycleAssumption DEF Limits, RunningQuota
<1>3. ParticipantBound'
  BY RowSetsFinite, CardinalityOfSubset, LifecycleAssumption DEF Limits, ParticipantBound
<1> QED
  BY <1>1, <1>2, <1>3 DEF Limits

LEMMA LimitsAccept ==
  ASSUME Limits, NEW s \in Submissions, Accept(s)
  PROVE  Limits'
<1>1. LifecycleTypeOK'
  BY DEF Limits, LifecycleTypeOK, Accept, Status
<1>2. GlobalCapacity'
  <2>1. Active' \subseteq Active \cup {s}
    BY DEF Limits, LifecycleTypeOK, Accept, Active
  <2> QED
    BY <2>1, RowSetsFinite, CardinalityWithOneMore, LifecycleAssumption
    DEF GlobalCapacity, Accept
<1>3. \A p \in Participants : RunningOf(p)' \subseteq RunningOf(p)
  BY DEF Limits, LifecycleTypeOK, Accept, RunningOf
<1>4. RunningQuota'
  BY <1>3, RowSetsFinite, CardinalityOfSubset, LifecycleAssumption DEF Limits, RunningQuota
<1>5. ParticipantBound'
  <2> SUFFICES ASSUME NEW p \in Participants
               PROVE  Cardinality(ActiveOf(p)') <= MaxQueued + MaxRunning
    BY DEF ParticipantBound
  <2>1. CASE p # Owner[s]
    <3>1. ActiveOf(p)' \subseteq ActiveOf(p)
      BY <2>1 DEF Limits, LifecycleTypeOK, Accept, ActiveOf, QueuedOf, RunningOf
    <3> QED
      BY <3>1, RowSetsFinite, CardinalityOfSubset, LifecycleAssumption DEF Limits, ParticipantBound
  <2>2. CASE p = Owner[s]
    <3>1. ActiveOf(p)' \subseteq ActiveOf(p) \cup {s}
      BY DEF Limits, LifecycleTypeOK, Accept, ActiveOf, QueuedOf, RunningOf
    <3>2. Cardinality(ActiveOf(p)) < MaxQueued + MaxRunning
      BY <2>2 DEF Accept
    <3>3. IsFiniteSet(ActiveOf(p)) /\ MaxQueued + MaxRunning \in Nat
      BY RowSetsFinite, LifecycleAssumption
    <3> QED
      BY <3>1, <3>2, <3>3, CardinalityWithOneMore
  <2> QED
    BY <2>1, <2>2
<1> QED
  BY <1>1, <1>2, <1>4, <1>5 DEF Limits

LEMMA LimitsBegin ==
  ASSUME Limits, NEW s \in Submissions, Begin(s)
  PROVE  Limits'
<1>1. LifecycleTypeOK'
  BY DEF Limits, LifecycleTypeOK, Begin, Status
<1>2. Active' \subseteq Active
  BY DEF Limits, LifecycleTypeOK, Begin, Active
<1>3. GlobalCapacity'
  BY <1>2, RowSetsFinite, CardinalityOfSubset, LifecycleAssumption DEF Limits, GlobalCapacity
<1>4. \A p \in Participants : ActiveOf(p)' \subseteq ActiveOf(p)
  BY DEF Limits, LifecycleTypeOK, Begin, ActiveOf, QueuedOf, RunningOf
<1>5. ParticipantBound'
  BY <1>4, RowSetsFinite, CardinalityOfSubset, LifecycleAssumption DEF Limits, ParticipantBound
<1>6. RunningQuota'
  <2> SUFFICES ASSUME NEW p \in Participants
               PROVE  Cardinality(RunningOf(p)') <= MaxRunning
    BY DEF RunningQuota
  <2>1. CASE p # Owner[s]
    <3>1. RunningOf(p)' \subseteq RunningOf(p)
      BY <2>1 DEF Limits, LifecycleTypeOK, Begin, RunningOf
    <3> QED
      BY <3>1, RowSetsFinite, CardinalityOfSubset, LifecycleAssumption DEF Limits, RunningQuota
  <2>2. CASE p = Owner[s]
    <3>1. RunningOf(p)' \subseteq RunningOf(p) \cup {s}
      BY DEF Limits, LifecycleTypeOK, Begin, RunningOf
    <3> QED
      BY <2>2, <3>1, RowSetsFinite, CardinalityWithOneMore, LifecycleAssumption DEF Begin
  <2> QED
    BY <2>1, <2>2
<1> QED
  BY <1>1, <1>3, <1>5, <1>6 DEF Limits

LEMMA LimitsStep == Limits /\ [LifecycleNext]_status => Limits'
<1> SUFFICES ASSUME Limits, [LifecycleNext]_status PROVE Limits'
  OBVIOUS
<1>1. CASE UNCHANGED status
  BY <1>1 DEF Limits, LifecycleTypeOK, RunningQuota, GlobalCapacity, ParticipantBound,
              Active, ActiveOf, QueuedOf, RunningOf
<1>2. ASSUME NEW s \in Submissions, Accept(s) PROVE Limits'
  BY <1>2, LimitsAccept
<1>3. ASSUME NEW s \in Submissions, Begin(s) PROVE Limits'
  BY <1>3, LimitsBegin
<1>4. ASSUME NEW s \in Submissions, Complete(s) \/ GiveUp(s) \/ Requeue(s) PROVE Limits'
  <2>1. LifecycleTypeOK'
    BY <1>4 DEF Limits, LifecycleTypeOK, Complete, GiveUp, Requeue, Status
  <2>2. Active' \subseteq Active
    BY <1>4 DEF Limits, LifecycleTypeOK, Complete, GiveUp, Requeue, Active
  <2>3. \A p \in Participants : /\ RunningOf(p)' \subseteq RunningOf(p)
                                /\ ActiveOf(p)' \subseteq ActiveOf(p)
    BY <1>4 DEF Limits, LifecycleTypeOK, Complete, GiveUp, Requeue,
                Active, RunningOf, ActiveOf, QueuedOf
  <2> QED
    BY <2>1, <2>2, <2>3, LimitsShrink
<1> QED
  BY <1>1, <1>2, <1>3, <1>4 DEF LifecycleNext

(***************************************************************************)
(* CreateSubmissionQueued and TryStartSubmission enforce the limits for    *)
(* good: no interleaving of accepted submissions, attempts, results,       *)
(* timeouts and recoveries leads past the running limit of a participant,  *)
(* the global capacity, or MaxQueued + MaxRunning active rows of one       *)
(* participant.                                                            *)
(***************************************************************************)
THEOREM LimitsHold ==
  LifecycleSpec => [](RunningQuota /\ GlobalCapacity /\ ParticipantBound)
<1>1. Limits => RunningQuota /\ GlobalCapacity /\ ParticipantBound
  BY DEF Limits
<1> QED
  BY <1>1, LimitsInitially, LimitsStep, PTL DEF LifecycleSpec
=============================================================================
