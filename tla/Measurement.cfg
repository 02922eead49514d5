SPECIFICATION Spec
CONSTANTS
  Jobs = {j1, j2}
  Streaming = {j1}
  MaxPartials = 3
INVARIANTS
  CountedOnce
  HeardInOrder
PROPERTIES
  SilentAfterVerdict
  ForwarderEnds
\* All measurements end, and the connection is closed.
CHECK_DEADLOCK FALSE
