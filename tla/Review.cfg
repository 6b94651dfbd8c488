SPECIFICATION Spec
CONSTANTS
  payment = payment
  chat = chat
  Documents = {"manual", "twice"}
  Text <- Manuals
  Binding <- Duties
  Packs = {p1, p2}
  Sessions = {s1, s2}
  None = None
  Named <- Namings
  MaxPatches = 3
SYMMETRY Interchangeable
INVARIANTS
  OnlyApprovedReleased
  ReleasedAsAWhole
  ArticlesAreWhole
PROPERTIES
  RulesAreFixed
  DocumentsMoveOn
CHECK_DEADLOCK FALSE
