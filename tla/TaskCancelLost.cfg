SPECIFICATION Spec
CONSTANTS
  Jobs = {j1}
  Cancels = {c1}
  Retries = {}
  MaxRetries = 0
  Faults = {}
  NoJob = NoJob
PROPERTY CancelSticks
CHECK_DEADLOCK FALSE
