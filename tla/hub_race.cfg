SPECIFICATION Spec
CONSTANTS
  Keys = {k1, k2, echo}
  References = {echo}
  Reqs = {m1, m2, a1, a2, a3}
  Managers = {a1, a2, a3}
  Ids = {i1, i2}
  MaxFailures = 1
SYMMETRY HubSymmetry
INVARIANTS
  CallsAuthorised
  DeskInOrder
CHECK_DEADLOCK FALSE
