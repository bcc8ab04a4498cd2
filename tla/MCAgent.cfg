SPECIFICATION Spec
CONSTANTS
  e1 = e1
  e2 = e2
  Executions = {e1, e2}
  Plans <- MCPlans
  Files <- MCFiles
  Retries <- FirstTry
  Keys <- MCKeys
  Texts <- MCTexts
  Longer <- MCLonger
  Slashed <- MCSlashed
  Special <- MCSpecial
  Written <- MCWritten
SYMMETRY Symmetry
INVARIANTS TypeOK KeysRestored ServiceRestored
PROPERTIES EditsTakeEffect ImplementsLogFixer
CHECK_DEADLOCK FALSE
