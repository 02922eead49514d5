SPECIFICATION ProbeSpec
CONSTANTS
  FirstJobs = {a1}
  Jobs = {b1}
  Cap = 1
INVARIANT
  CapIsTheProbes
CHECK_DEADLOCK FALSE
