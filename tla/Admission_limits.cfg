SPECIFICATION Spec
CONSTANTS
  Second = 1
  p1 = p1
  p2 = p2
  p3 = p3
  Participants = {p1, p2, p3}
  Senders = {a1}
  Proxies = {x1}
  NoHeader = NoHeader
  Slots = {r1, r2}
  Settings <- MCSettings
  MaxTime = 7
  Starts = {0, 2}
  MaxRequests = 5
SYMMETRY MCSymmetry
INVARIANTS ParticipantRates SenderRate PatienceRewarded
PROPERTIES KeysAreBuckets
CHECK_DEADLOCK FALSE
