SPECIFICATION Spec
CONSTANTS
  Jobs = {j1, j2}
  Streaming = {j1}
  MaxPartials = 2
INVARIANT
  SnapshotIsAtomic
CHECK_DEADLOCK FALSE
