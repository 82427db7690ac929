SPECIFICATION Spec
CONSTANTS
  Runs = {r1, r2}
  Paths = {p1, p2}
  Branches = {b1, b2}
  MaxPushes = 3
  NoRun = NoRun
  NoEntry = NoEntry
SYMMETRY Symmetry
INVARIANT TypeOK
INVARIANT MadeFromWindow
INVARIANT OwnPatch
CHECK_DEADLOCK FALSE
