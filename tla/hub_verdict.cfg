SPECIFICATION Spec
CONSTANTS
  Keys = {k1, echo}
  References = {echo}
  Reqs = {m1, a1, a2, a3}
  Managers = {a1, a2, a3}
  Ids = {i1}
  MaxFailures = 0
PROPERTIES
  VerdictIsFinal
CHECK_DEADLOCK FALSE
