SPECIFICATION Spec
CONSTANTS
  Python = {p1}
  Scripts = {q1}
  Others = {o1}
  Texts = {Blank, t1, bad}
  Blank = Blank
  Broken = {bad}
  Absent = Absent
  MaxTargets = 2
  MaxExtra = 1
  MaxAllowed = 2
  MaxRetries = 1
  SkipTests = FALSE
  FetchFails = TRUE
SYMMETRY Symmetry
INVARIANT TypeOK
INVARIANT CommittedWasValidated
INVARIANT AllowlistHolds
INVARIANT ReplacesOnlyWhatItRead
CHECK_DEADLOCK FALSE
