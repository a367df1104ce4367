CONSTANTS
  alice = alice
  Submissions = {s1, s2}
  Participants = {alice}
  Owner <- MCOwner
  Workers = {w1}
  MaxActive = 2
  MaxQueued = 2
  MaxRunning = 1
  RecoveryBatch = 1
  MaxFaults = 1
  MaxStalls = 1
SPECIFICATION FairSpec
INVARIANT TypeOK
PROPERTIES EventuallyDecided PendingDrains
