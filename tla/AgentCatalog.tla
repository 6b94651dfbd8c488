---------------------------- MODULE AgentCatalog ----------------------------
(***************************************************************************)
(* The agents users configure (api/endpoints/agents.py), an application    *)
(* built on one of them (api/endpoints/applications.py), and what a chat   *)
(* makes of the two, over the tools of the process and the models of the   *)
(* user's providers.                                                       *)
(***************************************************************************)
EXTENDS ToolRegistry, ModelProviders

CONSTANTS
  Creations,     \* what a request to create an agent may say; fields may be missing
  Changes,       \* what a request to change an agent may say
  Applications,  \* what a request about the application may say
  OntologyTool,  \* the tool that consults the ontology
  All,           \* the name that stands for every tool, "*"
  MaxAgents      \* bound on a behaviour

\* No request says of an agent whether there is a row of it.
ASSUME LiveIsNotTold == \A data \in Changes : "live" \notin DOMAIN data

VARIABLES
  agents,       \* the rows of agent_profiles, by id
  application,  \* a row of agent_applications
  raced         \* observer: agents two updates of which overlapped

catalogVars == <<agents, application, raced>>
vars == <<task, requests, toolVars, providerVars, catalogVars>>

Search == "web_search"
Has(r, field) == field \in DOMAIN r
Over(new, old) == [f \in DOMAIN new \union DOMAIN old |-> IF Has(new, f) THEN new[f] ELSE old[f]]
Or(r, field, otherwise) == IF Has(r, field) THEN r[field] ELSE otherwise

-----------------------------------------------------------------------------
(* What is stored of what a request says.                                  *)

\* An ontology_config as it is sent and as it is stored. None is a mode not told.
Mode(c) == IF c.mode # None THEN c.mode ELSE IF c.enabled THEN "auto" ELSE "off"
Config(mode) == [enabled |-> mode # "off", mode |-> mode]
NoConfig == [enabled |-> FALSE, mode |-> None]

Inferred(data) ==
  IF Has(data, "type") THEN data.type
  ELSE IF Or(data, "config", NoConfig).enabled THEN "ontology"
  ELSE IF Or(data, "role", "expert") = "orchestrator" THEN "workflow"
  ELSE IF Or(data, "tools", {}) # {} THEN "tool" ELSE "general"

Defaults(type, names, enabled) ==
  [tools |-> type \in {"tool", "workflow"},
   search |-> type \in {"tool", "workflow"} /\ names \cap {All, Search} # {},
   swarm |-> type = "workflow",
   ontology |-> type = "ontology" \/ (type = "workflow" /\ enabled)]

\* Mutant: what the request says of the policy stands.
PolicyAsTold(type, names, enabled, raw) == Over(raw, Defaults(type, names, enabled))

\* _normalize_runtime_policy
Policy(type, names, enabled, raw) ==
  LET said == Over(raw, Defaults(type, names, enabled))
      mayCall == \/ said.tools
                 \/ type = "tool" /\ names # {}
                 \/ type = "general" /\ names # {} /\ ~Has(raw, "tools")
  IN [tools |-> mayCall,
      search |-> said.search /\ mayCall,
      swarm |-> (said.swarm /\ type # "ontology") \/ type = "workflow",
      ontology |-> said.ontology \/ type = "ontology"]

Touched == {"type", "tools", "config", "policy", "role"}

\* What _normalize_agent_payload makes of data, field by field; fields that were
\* not sent stay missing.
Normalised(data) ==
  IF DOMAIN data \cap Touched = {} THEN data
  ELSE
    LET names == IF All \in Or(data, "tools", {}) THEN {All} ELSE Or(data, "tools", {})
        told == IF Has(data, "config") THEN Config(Mode(data.config)) ELSE NoConfig
        type == IF Inferred(data) = "general" /\ told.enabled THEN "ontology" ELSE Inferred(data)
        stored == IF type = "ontology" /\ ~told.enabled THEN Config("auto") ELSE told
        whole == [type |-> type, tools |-> names, config |-> stored,
                  policy |-> Policy(type, names, told.enabled, Or(data, "policy", <<>>))]
    IN [f \in DOMAIN data \union {"type", "policy"} |->
          IF Has(whole, f) THEN whole[f] ELSE data[f]]

\* Every tool is registered, or the request is refused. An ontology agent that
\* says nothing of its ontology fails.
Acceptable(data) ==
  /\ \A n \in Or(data, "tools", {}) \ {All} : actions[n] # None
  /\ Inferred(data) = "ontology" => Has(data, "config")

Blank == [tools |-> {}, type |-> "general", config |-> NoConfig, policy |-> <<>>,
          role |-> "expert", live |-> TRUE]

LiveAgents == {a \in DOMAIN agents : agents[a].live}

Fields == {"tools", "type", "role", "config", "policy", "model", "live"}
Types == {"general", "tool", "ontology", "workflow"}
Modes == {"off", "auto", "required"}
Configs == [enabled : BOOLEAN, mode : Modes \union {None}]

\* What a request may tell without being refused; a value in a policy counts as true
\* or false.
ASSUME ToldAssumption ==
  /\ None \notin Modes
  /\ \A data \in Creations \union Changes :
       /\ DOMAIN data \subseteq Fields
       /\ "type" \in DOMAIN data => data.type \in Types
       /\ "tools" \in DOMAIN data => data.tools \subseteq AllNames \union {All}
       /\ "config" \in DOMAIN data => data.config \in Configs
       /\ "policy" \in DOMAIN data =>
            \A f \in DOMAIN data.policy : data.policy[f] \in BOOLEAN

-----------------------------------------------------------------------------
(* Requests.                                                               *)

CreateAgent(data, m) ==
  /\ Len(agents) < MaxAgents
  /\ m \in models
  /\ Acceptable(data)
  /\ agents' = Append(agents, Over([model |-> m], Over(Normalised(data), Blank)))
  /\ AtOnce
  /\ UNCHANGED <<toolVars, providerVars, application, raced>>

\* Mutant: what was sent is normalised before it is merged with the row.
BeginUpdateSent(d, a, data) ==
  /\ a \in LiveAgents
  /\ Acceptable(data)
  /\ raced' = raced
  /\ Begin(d, [op |-> "agent", at |-> "update", of |-> a, read |-> agents[a],
               becomes |-> Over(Normalised(data), agents[a])])
  /\ UNCHANGED <<toolVars, providerVars, agents, application>>

\* The row is read, merged with what is sent and normalised ...
BeginUpdate(d, a, data) ==
  /\ a \in LiveAgents
  /\ Acceptable(Over(data, agents[a]))
  /\ LET open == {o \in Desks : Doing(o, "agent", "update") /\ task[o].of = a}
     IN raced' = IF open = {} THEN raced ELSE raced \union {a}
  /\ Begin(d, [op |-> "agent", at |-> "update", of |-> a, read |-> agents[a],
               becomes |-> Normalised(Over(data, agents[a]))])
  /\ UNCHANGED <<toolVars, providerVars, agents, application>>

\* ... and the columns that differ from those that were read are written.
FinishUpdate(d) ==
  /\ Doing(d, "agent", "update")
  /\ LET q == task[d]
         written == {f \in DOMAIN q.read : q.becomes[f] # q.read[f]}
     IN /\ q.of \in LiveAgents
        /\ "model" \in written => q.becomes.model \in models
        /\ agents' = [agents EXCEPT ![q.of] =
                        [f \in DOMAIN @ |-> IF f \in written THEN q.becomes[f] ELSE @[f]]]
  /\ End(d)
  /\ UNCHANGED <<toolVars, providerVars, application, raced>>

FailUpdate(d) ==
  /\ task[d].op = "agent"
  /\ Refuse(d)
  /\ UNCHANGED <<toolVars, providerVars, catalogVars>>

DeleteAgent(a) ==
  /\ a \in LiveAgents
  /\ agents' = [agents EXCEPT ![a].live = FALSE]
  /\ application' = IF application # None /\ application.agent = a
                    THEN [application EXCEPT !.agent = None] ELSE application
  /\ AtOnce
  /\ UNCHANGED <<toolVars, providerVars, raced>>

\* The agents an application may be built on; None is no agent.
Bindable == LiveAgents \union {None}

\* create_application, update_application
SaveApplication(data, a) ==
  /\ a \in Bindable
  /\ application' = Over([agent |-> a], data)
  /\ AtOnce
  /\ UNCHANGED <<toolVars, providerVars, agents, raced>>

\* Rows of models are gone, of agents that had them the reference is.
Orphaned == [a \in DOMAIN agents |->
               IF agents[a].model \in models' THEN agents[a]
               ELSE [agents[a] EXCEPT !.model = None]]

Restart ==
  /\ requests < MaxRequests
  /\ requests' = requests + 1
  /\ task' = [d \in Desks |-> Idle]
  /\ LoadAtStart
  /\ AutoConfigure
  /\ UNCHANGED <<tools, catalogVars>>

Init ==
  /\ task = [d \in Desks |-> Idle] /\ requests = 0
  /\ ToolInit /\ ProviderInit
  /\ agents = <<>> /\ application = None /\ raced = {}

Next ==
  \/ ToolNext /\ UNCHANGED <<providerVars, catalogVars>>
  \/ ProviderNext /\ agents' = Orphaned /\ UNCHANGED <<toolVars, application, raced>>
  \/ \E data \in Creations, m \in models : CreateAgent(data, m)
  \/ \E a \in LiveAgents : DeleteAgent(a)
  \/ \E d \in Desks :
       \/ \E a \in LiveAgents, data \in Changes : BeginUpdate(d, a, data)
       \/ FinishUpdate(d) \/ FailUpdate(d)
  \/ \E data \in Applications, a \in Bindable : SaveApplication(data, a)
  \/ Restart

Spec == Init /\ [][Next]_vars

-----------------------------------------------------------------------------
(* What a chat runs with.                                                  *)

\* build_runtime_contract: an application's own word over its agent's.
ContractConfig ==
  LET told == IF application.agent = None THEN NoConfig ELSE agents[application.agent].config
  IN IF application.space
     THEN [enabled |-> TRUE, mode |-> IF told.mode = None THEN "auto" ELSE told.mode]
     ELSE told

ContractPolicy ==
  IF application.agent = None THEN application.policy
  ELSE Over(application.policy, agents[application.agent].policy)

ContractTools ==
  IF application.tools # {} \/ application.agent = None THEN application.tools
  ELSE agents[application.agent].tools

\* chat_stream, for agent a alone or, if by holds, by way of the application.
RunPolicy(a, by) == IF by THEN Over(ContractPolicy, agents[a].policy) ELSE agents[a].policy

RunConfig(a, by) ==
  IF by /\ ContractConfig # NoConfig THEN ContractConfig
  ELSE IF ~Or(agents[a].policy, "ontology", TRUE) THEN Config("off") ELSE agents[a].config

RunTools(by) == IF by THEN ContractTools ELSE {}

Consults(a, by) == Mode(RunConfig(a, by)) # "off"

\* A chat: whether it goes by way of the application and allows to hand over, and
\* whether its text reads as any other, as one for the ontology, or as a review.
Chats == [by : BOOLEAN, swarm : BOOLEAN, text : {"plain", "ontology", "review"}]

\* runtime_task_lock_active: nothing is left for the model to call, the pipelines
\* of the ontology and of the review run ahead of it.
Locked(a, chat) ==
  chat.text = "review" \/ (chat.text = "ontology" /\ Consults(a, chat.by))

\* effective_enable_swarm; agent_node withholds transfer_to_agent in a locked turn.
Delegates(a, chat) ==
  ~Locked(a, chat) /\ chat.swarm /\ Or(RunPolicy(a, chat.by), "swarm", TRUE)

\* agent_node: no list of tools stands for all of them.
Within(names) == {n \in AllNames : names \cap {All, n} # {} \/ names = {}}

Offered(a, chat) ==
  IF Locked(a, chat) \/ ~Or(RunPolicy(a, chat.by), "tools", TRUE) THEN {}
  ELSE LET searching == IF Or(RunPolicy(a, chat.by), "search", TRUE) THEN {} ELSE {Search}
           own == Within(agents[a].tools) \ searching
           asked == IF Consults(a, chat.by) THEN {OntologyTool} ELSE {}
       IN {n \in (own \union asked) \cap Within(RunTools(chat.by)) : actions[n] # None}

-----------------------------------------------------------------------------
(* Properties.                                                             *)

TypeOK ==
  /\ \A a \in DOMAIN agents :
       /\ DOMAIN agents[a] = Fields
       /\ agents[a].tools \subseteq AllNames \union {All}
       /\ agents[a].type \in Types
       /\ agents[a].config \in Configs
  /\ application = None \/ application.agent \in DOMAIN agents \union {None}

(* The type of an agent says what a chat with it does, whatever a request  *)
(* says of its policy, its ontology and its tools, and in whichever order  *)
(* it was brought there: an ontology agent consults the ontology, and,     *)
(* unless the text locks the turn, a workflow agent may hand over where    *)
(* the chat allows it and a tool agent is offered the tools it names that  *)
(* are registered (the search can be switched off). A text can lock the    *)
(* turn of an agent that does not consult the ontology only as a review.   *)
(* Chats by way of the application have its policy and its tools instead,  *)
(* and agents two updates of which overlapped are excepted: each writes    *)
(* what it changes.                                                        *)
TypeIsHonoured ==
  \A a \in LiveAgents \ raced, chat \in Chats :
    LET agent == agents[a]
        free == chat.text = "plain" \/ (chat.text = "ontology" /\ ~Consults(a, FALSE))
    IN ~chat.by =>
         /\ agent.type = "ontology" => Consults(a, FALSE)
         /\ agent.type = "workflow" /\ chat.swarm /\ free => Delegates(a, chat)
         /\ agent.type = "tool" /\ free =>
              \A n \in agent.tools \ {All, Search} : actions[n] # None => n \in Offered(a, chat)

(* Saving an agent again without a change changes nothing of it, so that   *)
(* what a user sees is what is kept: an update that renames an agent does  *)
(* not switch off its tools. Excepted are agents that say nothing of what  *)
(* they may do, for which the first update decides, and overlapped ones.   *)
SavedIsFixed ==
  \A a \in LiveAgents \ raced :
    (DOMAIN agents[a].policy # {} /\ agents[a].config.mode # None)
      => Normalised(agents[a]) = agents[a]

(* Defaults, models and agents refer to what is there, whatever is deleted *)
(* while a request that read it is under way: once a user has a default,   *)
(* an answer finds a connected provider.                                   *)
ReferencesHold ==
  /\ default # None => Live(default.provider)
  /\ \A m \in models : Live(m.provider)
  /\ \A a \in LiveAgents : agents[a].model \in models \union {None}
  /\ application # None /\ application.agent # None => application.agent \in LiveAgents

(* docs/agent_platform_direction.md:161: the runtime contract shows what   *)
(* is really enabled. The code does not hold it for an application that is *)
(* bound to an ontology space, with an agent whose ontology is off.        *)
ContractIsEnacted ==
  application # None /\ application.agent # None =>
    ContractConfig.enabled = Consults(application.agent, TRUE)
=============================================================================
