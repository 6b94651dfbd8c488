CONSTANTS
  WebSearch = web_search
  Canvas = upsert_canvas
  Tools = {web_search, upsert_canvas}
  OntologyTools <- NoTools
  Root = root
  Experts = {e1, e2}
  SubApps = {}
  None = none
  Tasks <- DelegationTasks
  MaxIterations = 3
  MaxRepairs = 1
  MaxCalls = 2
SYMMETRY ExpertsAlike
SPECIFICATION Spec
INVARIANTS
  TagsBalanced
  RootHasLastWord
  ConsultedOnce
  SpeakerWasCalled
PROPERTIES
  ImplementsDelegation
CHECK_DEADLOCK FALSE
