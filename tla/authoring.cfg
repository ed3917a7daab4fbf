SPECIFICATION Spec
CONSTANTS
  Names = {w}
  Drafts <- Catalogue
  NoDef = NoDef
  MaxEdits = 3
  MaxDecisions = 3
INVARIANTS
  RunsAsListed
  GatesHoldAcrossEdits
  CalledOnce
  CompletedAsDefined
  WaitingRunHasTask
CHECK_DEADLOCK FALSE
