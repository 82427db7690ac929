SPECIFICATION FairSpec
CONSTANTS
  Jobs = {j1, j2}
  Cancels = {}
  Retries = {r1}
  MaxRetries = 1
  Faults = {}
  NoJob = NoJob
INVARIANT NoOrphan
PROPERTY JobEnds
PROPERTY Settles
CHECK_DEADLOCK FALSE
