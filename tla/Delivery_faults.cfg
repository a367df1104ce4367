CONSTANTS
  alice = alice
  Submissions = {s1, s2}
  Participants = {alice}
  Owner <- MCOwner
  Workers = {w1, w2}
  MaxActive = 2
  MaxQueued = 2
  MaxRunning = 1
  RecoveryBatch = 1
  MaxFaults = 1
  MaxStalls = 0
SPECIFICATION Spec
SYMMETRY MCSymmetry
INVARIANTS NoLostSubmission ExclusiveAttempt DeliveryInv
PROPERTIES QueuedNotGivenUp LifecycleSpec
