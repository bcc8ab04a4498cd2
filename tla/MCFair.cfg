SPECIFICATION FairSpec
CONSTANTS
  r1 = r1
  r2 = r2
  Requests = {r1, r2}
  Serves <- AnyKind
  Results <- GoodResults
  Faults = FALSE
  RetryBound = 3
INVARIANTS RollbackOwned
PROPERTIES RollbackEnds AnalysisEnds
CHECK_DEADLOCK FALSE
