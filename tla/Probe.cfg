SPECIFICATION ProbeSpec
CONSTANTS
  FirstJobs = {a1}
  Jobs = {b1}
  Cap = 1
INVARIANTS
  LastDrainIsItsOwn
PROPERTIES
  NoAckAfterClose
  ShutdownStopsProcess
\* The process ends.
CHECK_DEADLOCK FALSE
