--------------------------- MODULE MCAgentCatalog ---------------------------
EXTENDS AgentCatalog, TLC

Symmetry == Permutations(Desks)

TemplateModels(k) == IF k = "template" THEN {"chat"} ELSE {}

MCCreations ==
  {<<>>,
   [tools |-> {"lookup", "*"}, role |-> "orchestrator"],
   [tools |-> {}, type |-> "workflow", policy |-> [swarm |-> FALSE]],
   [type |-> "ontology", config |-> [enabled |-> FALSE, mode |-> None]],
   [tools |-> {"lookup"}, type |-> "general", config |-> NoConfig, policy |-> <<>>]}

MCChanges ==
  {<<>>,
   [type |-> "tool"],
   [type |-> "ontology", policy |-> [ontology |-> FALSE]],
   [role |-> "orchestrator", type |-> "workflow"],
   [tools |-> {"lookup", "web_search"}],
   [config |-> [enabled |-> TRUE, mode |-> None]],
   [policy |-> [tools |-> FALSE, ontology |-> FALSE]]}

MCApplications == [tools : {{}, {"web_search"}}, space : BOOLEAN, policy : {<<>>}]
=============================================================================
