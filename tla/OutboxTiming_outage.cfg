SPECIFICATION OutboxSpec
CONSTANTS
  Dispatchers = {d1, d2}
  Events = {1, 2}
  Second = 1
  ShiftCap = 2
  Width = 4
  MaxBackoff = 2
  PollInterval = 1
  OpTimeout = 2
  Batch = 1
  MaxFailures = 2
  Horizon = 8
SYMMETRY MCSymmetry
INVARIANTS RetriesSpaced CaughtUp
CHECK_DEADLOCK FALSE
