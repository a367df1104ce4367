CONSTANTS
  alice = alice
  Submissions = {s1}
  Participants = {alice}
  Owner <- MCOwner
  Workers = {w1}
  MaxActive = 1
  MaxQueued = 1
  MaxRunning = 1
  RecoveryBatch = 1
  MaxFaults = 0
  MaxRestarts = 1
  MaxStalls = 0
SPECIFICATION CrashFairSpec
PROPERTY EventuallyDecided
