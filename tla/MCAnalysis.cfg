SPECIFICATION Spec
CONSTANTS
  TopK = 2
  Hits <- MCHits
  CauseReplies <- MCCause
  SolutionReplies <- MCSolutions
INVARIANTS TypeOK RankedBySum ArrivalDoesNotMatter ArticlesAreCited UnreadableIsRefused
CHECK_DEADLOCK FALSE
