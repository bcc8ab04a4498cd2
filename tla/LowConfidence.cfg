SPECIFICATION FairSpec
CONSTANTS
  r1 = r1
  r2 = r2
  Requests = {r1}
  Serves <- AnyKind
  Results <- PoorResults
  Faults = FALSE
  RetryBound = 3
PROPERTIES AnalysisEnds
CHECK_DEADLOCK FALSE
