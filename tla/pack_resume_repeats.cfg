SPECIFICATION Spec
CONSTANTS
  N = 2
  Gates = {1}
  Connectors = {2}
  Guarded = {}
  Renamed = {}
  Reqs = {r1, r2, r3}
  MaxAborts = 0
INVARIANTS
  ResumeSkipsCompletedSteps
CHECK_DEADLOCK FALSE
