SPECIFICATION Spec
CONSTANTS
  e1 = e1
  e2 = e2
  Executions = {e1}
  Plans <- MCPlans
  Files <- MCFiles
  Retries <- FirstOrLast
  Keys <- MCKeys
  Texts <- MCTexts
  Longer <- MCLonger
  Slashed <- MCSlashed
  Special <- MCSpecial
  Written <- MCWritten
INVARIANTS FailedRecoveryEscalates
CHECK_DEADLOCK FALSE
