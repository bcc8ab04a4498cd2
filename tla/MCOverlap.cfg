SPECIFICATION Spec
CONSTANTS
  r1 = r1
  r2 = r2
  Requests = {r1, r2}
  Serves <- AnyKind
  Results <- FewResults
  Faults = TRUE
  RetryBound = 3
SYMMETRY Symmetry
INVARIANTS TypeOK NoEarlyEscalation ApprovalsAreWellFormed
CHECK_DEADLOCK FALSE
