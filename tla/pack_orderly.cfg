SPECIFICATION OrderlySpec
CONSTANTS
  N = 5
  Gates = {2, 4}
  Connectors = {1, 3}
  Guarded = {2, 5}
  Renamed = {1}
  Reqs = {r1, r2, r3, r4}
  MaxAborts = 1
INVARIANTS
  EffectsAtMostOnce
  InboxMirrorsRun
  AuditAgreesWithRun
PROPERTIES
  ImplementsLifecycle
  EveryRequestEnds
  RunLeavesRunning
CHECK_DEADLOCK FALSE
