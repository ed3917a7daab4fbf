SPECIFICATION Spec
CONSTANTS
  Requests = {r1, r2, r3}
  Emails = {root, a}
  Owner = root
  Seeded <- OwnerOnly
  Industries = {legal, retail}
  Checked = {legal}
  Nobody = Nobody
  Realm = Realm
  NoSource = NoSource
  Asked = {"admin", "member", "other"}
  MaxFaults = 1
SYMMETRY Symmetry
INVARIANTS
  AnsweredComplete
  RecordsAreTrue
  RolesAsAsked
CHECK_DEADLOCK FALSE
