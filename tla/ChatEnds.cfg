\* One request, two changes by the user, and a database that may fail.
SPECIFICATION Spec
CONSTANTS
  Requests = {r1}
  Earlier = r0
  Agents = {a, b}
  None = None
  Starts = {"absent", "new", "talked"}
  Window = 1
  UserDoes = {"delete", "truncate", "edit", "clear", "drop", "switch"}
  MaxChanges = 2
  Streams <- AnyStream
  DatabaseFails = TRUE
INVARIANTS EndIsTold NoGraphLeftBehind
PROPERTY ResponseEnds
CHECK_DEADLOCK FALSE
