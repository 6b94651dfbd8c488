CONSTANTS
  WebSearch = web_search
  Canvas = upsert_canvas
  Tools = {web_search, ontology_map, upsert_canvas}
  OntologyTools = {ontology_map}
  Root = root
  Experts = {e1}
  SubApps = {app}
  None = none
  Tasks <- ToolTasks
  MaxIterations = 3
  MaxRepairs = 1
  MaxCalls = 1
SPECIFICATION Spec
INVARIANTS
  CurrentStepOpen
  EndIsEarned
  SearchIsBound
PROPERTIES
  Terminates
CHECK_DEADLOCK FALSE
