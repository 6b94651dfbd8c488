\* Two requests on one session, and a deletion or a switch of the agent.
SPECIFICATION Spec
CONSTANTS
  Requests = {r1, r2}
  Earlier = r0
  Agents = {a, b}
  None = None
  Starts = {"talked"}
  Window = 3
  UserDoes = {"delete", "truncate", "drop", "switch"}
  MaxChanges = 1
  Streams <- Answers
  DatabaseFails = FALSE
SYMMETRY Alike
PROPERTY DeletedStaysGone
CHECK_DEADLOCK FALSE
