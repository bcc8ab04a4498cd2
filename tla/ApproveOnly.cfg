SPECIFICATION EagerSpec
CONSTANTS
  r1 = r1
  r2 = r2
  Requests = {r1}
  Serves <- AnyKind
  Results <- GoodResults
  Faults = FALSE
  RetryBound = 3
PROPERTIES ApprovedIsExecuted
CHECK_DEADLOCK FALSE
