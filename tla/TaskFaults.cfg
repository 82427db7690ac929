SPECIFICATION Spec
CONSTANTS
  Jobs = {j1, j2}
  Cancels = {c1}
  Retries = {r1}
  MaxRetries = 1
  Faults = {"keys", "db", "net"}
  NoJob = NoJob
SYMMETRY Symmetry
INVARIANT TypeOK
INVARIANT SuccessIsValidated
PROPERTY RunContract
CHECK_DEADLOCK FALSE
