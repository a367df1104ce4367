CONSTANTS
  s4 = s4
  s5 = s5
  alice = alice
  bob = bob
  Submissions = {s1, s2, s3, s4, s5}
  Participants = {alice, bob}
  Owner <- MCOwner
  Sessions = {x1, x2}
  MaxActive = 3
  MaxQueued = 1
  MaxRunning = 1
SPECIFICATION FairSpec
INVARIANTS LocksHeld DecisionsHold RunningQuota GlobalCapacity ParticipantBound
PROPERTIES LifecycleSpec TransactionsEnd
