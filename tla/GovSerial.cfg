CONSTANTS
  Versions = {v1, v2}
  Contents = {c1}
  Approvals = {a1, a2, a3, a4}
  Stewards = {owner, admin}
  Sessions = {s1}
  Gated <- BothGates
  Asked <- BothGates
  None = none
SYMMETRY Interchangeable
SPECIFICATION Spec
INVARIANTS
  ActiveIsGA
  GatesHonoured
PROPERTIES
  ImplementsLifecycle
CHECK_DEADLOCK FALSE
