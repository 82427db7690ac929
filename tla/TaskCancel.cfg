SPECIFICATION Spec
CONSTANTS
  Jobs = {j1, j2}
  Cancels = {c1}
  Retries = {r1}
  MaxRetries = 1
  Faults = {"kill", "keys", "broker"}
  NoJob = NoJob
SYMMETRY Symmetry
INVARIANT OnePullRequest
INVARIANT PublishedXorDeadLettered
CHECK_DEADLOCK FALSE
