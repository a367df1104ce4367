SPECIFICATION Spec
CONSTANTS
  w2 = w2
  alice = alice
  Workers = {w1, w2}
  Submissions = {s1, s2}
  Participants = {alice}
  Owner <- MCOwner
  MaxActive = 2
  MaxQueued = 2
  MaxRunning = 2
  Work = 1
  Hard = 2
  Stale = 6
  Skew <- MCSkew
  StartTime = 1
  ReplyTime = 0
  GiveUpTime = 1
  RecoveryBatch = 1
  RecoverTime = 1
  Lag = 0
  MaxFaults = 2
  MaxTime = 13
SYMMETRY Symmetric
CONSTRAINT OneOrTheOther
INVARIANTS AttemptNotStolen NotStaleInHand RecoveredInTime
PROPERTIES FollowsLifecycle
CHECK_DEADLOCK FALSE
