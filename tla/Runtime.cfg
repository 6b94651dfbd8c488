SPECIFICATION Spec
CONSTANTS
  Fields = {"amount", "party"}
  Inputs = {{"sum"}, {"sum", "party"}}
  Packages = {"schema", "mapping", "block", "score"}
  Starts <- Contracts
  Says <- Payloads
  Sources = {crm}
  Configs = {"live", "sample"}
  Mode <- Modes
  Secrets = {key}
  LiveEnabled = TRUE
  Agents = {agent}
  Desks = {d1, d2}
  None = None
  MaxTurns = 1
  MaxRequests = 3
  MaxSwitches = 1
SYMMETRY Interchangeable
INVARIANTS
  LiveAsApproved
  FilledNotReplaced
  BlockIsKept
CHECK_DEADLOCK FALSE
