SPECIFICATION Spec
CONSTANTS
  Validations = {v1}
  Files <- SmallPatchFiles
  MaxFiles = 3
  NoFile = NoFile
INVARIANT ValidPasses
CHECK_DEADLOCK FALSE
