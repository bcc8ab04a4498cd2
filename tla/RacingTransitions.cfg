SPECIFICATION Spec
CONSTANTS
  r1 = r1
  r2 = r2
  Requests = {r1, r2}
  Serves <- AnyKind
  Results <- GoodResults
  Faults = FALSE
  RetryBound = 3
PROPERTIES OnlyAllowedTransitions
CHECK_DEADLOCK FALSE
