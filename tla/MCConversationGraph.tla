------------------------ MODULE MCConversationGraph ------------------------
(***************************************************************************)
(* Small requests for TLC: one set that exercises delegation, one that     *)
(* exercises tools and evidence.                                           *)
(***************************************************************************)
EXTENDS ConversationGraph

NoTools == {}

\* No definition tells experts apart but by equality.
ExpertsAlike == Permutations(Experts)

\* Requests that delegate, to an orchestrator and to an agent of role expert. A
\* repair never lacks evidence here.
DelegationTasks ==
  {t \in [kind : {"engineering", "general"}, realtime : {FALSE}, governance : {FALSE},
          lock : {FALSE}, swarm : {TRUE}, expertRoot : BOOLEAN,
          policyTools : {Tools}, appTools : {Tools}] :
     t.expertRoot <=> t.kind = "general"}

\* Requests that use tools, under every binding of the application and the
\* runtime policies the profile editor offers: the one without the search, and an
\* expert as root (under the one without tools), for requests that need facts.
ToolTasks ==
  {t \in [kind : {"realtime_research", "business_review", "general"},
          realtime : BOOLEAN, governance : BOOLEAN, lock : BOOLEAN, swarm : BOOLEAN,
          expertRoot : BOOLEAN,
          policyTools : {Tools, Tools \ {WebSearch}, {}}, appTools : SUBSET Tools] :
     /\ t.governance <=> t.kind = "business_review"
     /\ t.swarm <=> t.kind # "general"
     /\ t.kind # "realtime_research" => ~t.expertRoot /\ t.policyTools \in {Tools, {}}
     /\ t.expertRoot => t.policyTools = {}}
=============================================================================
