\* CHECK_DEADLOCK: every request is answered or dead in the end.
CONSTANTS
  Requests = {r1, r2}
  MaxParts = 2
SPECIFICATION Spec
SYMMETRY MCSymmetry
INVARIANTS AllOrNothing AcceptedIsDurable IntakeInv
CHECK_DEADLOCK FALSE
