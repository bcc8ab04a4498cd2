SPECIFICATION Spec
CONSTANTS
  r1 = r1
  r2 = r2
  Requests = {r1, r2}
  Serves <- DriverAndWebhook
  Results <- GoodResults
  Faults = FALSE
  RetryBound = 3
INVARIANTS LcInStep
CHECK_DEADLOCK FALSE
