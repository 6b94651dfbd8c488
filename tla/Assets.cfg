SPECIFICATION Spec
CONSTANTS
  Entities <- Parties
  Attributes = {}
  Sources = {"policy", "copy"}
  Text <- Policies
  Finds <- Meaning
  MaxRules = 2
  Owner <- NoOwner
  Bodies = {"poor", "good", "better"}
  Good = {"good", "better"}
  Users = {author, boss}
  Admins = {boss}
  Versions = {v1}
  Sessions = {s1, s2}
  None = None
  MaxRequests = 5
SYMMETRY Interchangeable
INVARIANTS
  PackagesHoldQuality
  PackagesHoldReviewed
  PackagedWasPublished
PROPERTY FinalIsFinal
CHECK_DEADLOCK FALSE
