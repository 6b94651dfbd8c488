CONSTANTS
  Desks = {d1, d2}
  MaxRequests = 6
  BuiltIns = {"web_search", "map_input"}
  Names = {"lookup", "web_search"}
  None = None
  MaxTools = 2
  Kinds = {"template", "own"}
  Preset <- TemplateModels
  ModelNames = {"chat", "mine"}
  Configured = "template"
  MaxProviders = 2
  Creations <- MCCreations
  Changes <- MCChanges
  Applications <- MCApplications
  OntologyTool = "map_input"
  All = "*"
  MaxAgents = 1
SPECIFICATION Spec
INVARIANT ContractIsEnacted
CHECK_DEADLOCK FALSE
