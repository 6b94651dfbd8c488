SPECIFICATION Spec
CONSTANTS
  Templates = {"standard", "custom"}
  Standard = "standard"
  Shipped = "seed"
  BuiltIn = BuiltIn
  Topologies = {"legacy", "canvas"}
  Says <- Meaning
  Tasks = {r1, r2}
  None = None
  MaxRequests = 4
  MaxVersions = 2
  MaxRestarts = 1
INVARIANTS
  CachedIsCurrent
  OneActive
  SetupIsSingle
PROPERTY GraphsAreServed
CHECK_DEADLOCK FALSE
