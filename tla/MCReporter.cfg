SPECIFICATION FairSpec
CONSTANTS
  r1 = r1
  r2 = r2
  Requests = {r1, r2}
  Webhooks = 1
  MAX_RETRY = 5
INVARIANTS TypeOK OncePerReport ReportedIsStored AddendumMeansClosed
PROPERTIES ReportEnds
CHECK_DEADLOCK FALSE
