SPECIFICATION Spec
CONSTANTS
  N = 4
  Gates = {2, 4}
  Connectors = {1, 3}
  Guarded = {2, 3}
  Renamed = {2, 3}
  Reqs = {r1, r2, r3}
  MaxAborts = 1
SYMMETRY ReqSymmetry
INVARIANTS
  TypeOK
  GateRespected
  RowResumable
  TaskVerdictsGenuine
  ViewShowsPause
  ExecutorSound
CHECK_DEADLOCK FALSE
