SPECIFICATION Spec
CONSTANTS
  Turns = {t1, t2}
  Streams = {t2}
  Askers = {t1, t2}
  Specs <- SameKeyTwice
  OwnPack = "accounting"
  Copilots = {"invoice"}
  MaxOpen = 2
  MaxDeletions = 0
  MaxFaults = 0
INVARIANTS
  OwnPackWhenItDefines
CHECK_DEADLOCK FALSE
