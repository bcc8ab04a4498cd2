SPECIFICATION Spec
CONSTANTS
  r1 = r1
  r2 = r2
  Requests = {r1, r2}
  Serves <- DriverAndWebhook
  Results <- AllResults
  Faults = FALSE
  RetryBound = 5
INVARIANTS RetryBudget
PROPERTIES FollowsLifecycle
CHECK_DEADLOCK FALSE
