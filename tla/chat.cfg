SPECIFICATION Spec
CONSTANTS
  Turns = {t1, t2, t3}
  Streams = {t3}
  Askers = {t3}
  Specs <- ShippedAndCustom
  OwnPack = "accounting"
  Copilots = {"invoice", "lien_waiver"}
  MaxOpen = 2
  MaxDeletions = 1
  MaxFaults = 1
INVARIANTS
  HistoryFaithful
  NoReminderTwice
PROPERTIES
  EveryChatEnds
CHECK_DEADLOCK FALSE
