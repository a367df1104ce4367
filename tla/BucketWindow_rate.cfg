SPECIFICATION Spec
CONSTANTS
  Rate = 2
  Period = 7
  Second = 2
  MaxDelay = 4
  MaxTime = 30
INVARIANTS RateBound ExpiryUnobservable RetrySuffices
