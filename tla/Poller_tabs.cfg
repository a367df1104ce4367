SPECIFICATION PollerFairSpec
CONSTANTS
  Second = 1
  s1 = s1
  alice = alice
  Submissions = {s1}
  Participants = {alice}
  Owner <- MCOwner
  MaxActive = 1
  MaxQueued = 1
  MaxRunning = 1
  Pages = {t1, t2}
  Shows <- MCShows
  Settings <- MCSettings
  Minute = 2
  pollInterval = 2
INVARIANTS ShownIsFinal TabsFitTheRate
PROPERTIES DecisionShown CrowdServed
CHECK_DEADLOCK FALSE
