SPECIFICATION ReviewedSpec
CONSTANTS
  d1 = d1
  d2 = d2
  Deciders = {d1, d2}
  Asks <- OneOfEach
  Nobody = Nobody
  MaxAttempts = 2
  Sizes = {2}
  MaxRead = 1
  Unread = Unread
INVARIANTS
  TypeOK
  FirstDecisionWins
  AuditIsBacked
  ClosedIsRecorded
  ReviewSound
  StatusIsTrue
  SummaryNotTorn
PROPERTIES
  DecisionTakesEffect
  ImplementsOutcome
CHECK_DEADLOCK FALSE
