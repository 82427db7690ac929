SPECIFICATION Spec
CONSTANTS
  Syncs = {s1, s2}
  Paths = {p1, p2}
  Blobs = {b1, b2}
  Absent = Absent
  MaxCommits = 3
  ForceFull = {FALSE, TRUE}
  Reverts = TRUE
  Faults = {"fetch", "embed", "crash", "wipe"}
SYMMETRY Symmetry
INVARIANT TypeOK
INVARIANT StoredCommitIsIndexed
INVARIANT OneVersionPerPath
PROPERTY SyncAligns
PROPERTY FullIndexIsClean
