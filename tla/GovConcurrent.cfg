CONSTANTS
  Versions = {v1, v2}
  Contents = {c1}
  Approvals = {a1, a2}
  Stewards = {owner, admin}
  Sessions = {s1, s2}
  Gated <- StagingGate
  Asked <- StagingGate
  None = none
SYMMETRY Interchangeable
SPECIFICATION Spec
INVARIANTS
  SingleActive
  OnePendingPerGate
  FourEyes
  SwitchIsAccepted
CHECK_DEADLOCK FALSE
