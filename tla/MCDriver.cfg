SPECIFICATION Spec
CONSTANTS
  r1 = r1
  r2 = r2
  Requests = {r1, r2}
  Serves <- DriverAndWebhook
  Results <- AllResults
  Faults = TRUE
  RetryBound = 5
INVARIANTS PlansAreWellFormed
PROPERTIES OnlyAllowedTransitions
CHECK_DEADLOCK FALSE
