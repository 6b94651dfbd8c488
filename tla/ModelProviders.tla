--------------------------- MODULE ModelProviders ---------------------------
(***************************************************************************)
(* The providers a user has connected, the models they offer and the       *)
(* user's default model (api/endpoints/providers.py). One user and one     *)
(* kind of model; the templates are those of config/provider_templates.py. *)
(***************************************************************************)
EXTENDS Requests, Sequences

CONSTANTS
  Kinds,        \* what can be connected: a template, or an address of one's own
  Preset(_),    \* the models a template lists
  ModelNames,
  Configured,   \* the kind the environment asks for (core/startup.py), or None
  MaxProviders  \* bound on a behaviour

VARIABLES
  providers,  \* the rows of user_providers, by id
  models,     \* the rows of provider_models
  default     \* the row of user_model_configs

providerVars == <<providers, models, default>>

Live(p) == p \in DOMAIN providers /\ providers[p].live
Connected == {p \in DOMAIN providers : providers[p].live}
Models(p, names) == {[provider |-> p, name |-> n] : n \in names}

ProviderInit == providers = <<>> /\ models = {} /\ default = None

-----------------------------------------------------------------------------
(* Connecting: the duplicate check, the provider, the models of its        *)
(* template. The last two are commits of their own.                        *)

\* The check compares the name and the address, which the rows that requests make have.
BeginConnect(d, k) ==
  /\ \A p \in Connected : providers[p].named => providers[p].kind # k
  /\ Begin(d, [op |-> "provider", at |-> "connect", kind |-> k])
  /\ UNCHANGED providerVars

StoreProvider(d) ==
  /\ Doing(d, "provider", "connect")
  /\ Len(providers) < MaxProviders
  /\ providers' = Append(providers, [kind |-> task[d].kind, named |-> TRUE, live |-> TRUE])
  /\ IF Preset(task[d].kind) = {} THEN End(d)
     ELSE GoOn(d, [op |-> "provider", at |-> "models", of |-> Len(providers'),
                   names |-> Preset(task[d].kind)])
  /\ UNCHANGED <<models, default>>

\* All of them or none: a name may have been added meanwhile, or the provider
\* be gone.
StoreModels(d) ==
  /\ Doing(d, "provider", "models")
  /\ LET added == Models(task[d].of, task[d].names)
     IN /\ Live(task[d].of)
        /\ added \cap models = {}
        /\ models' = models \union added
  /\ End(d)
  /\ UNCHANGED <<providers, default>>

BeginSync(d, p) ==
  /\ Live(p)
  /\ Begin(d, [op |-> "provider", at |-> "models", of |-> p,
               names |-> {n \in Preset(providers[p].kind) :
                            [provider |-> p, name |-> n] \notin models}])
  /\ UNCHANGED providerVars

AddModel(p, n) ==
  /\ Live(p)
  /\ [provider |-> p, name |-> n] \notin models
  /\ models' = models \union Models(p, {n})
  /\ AtOnce
  /\ UNCHANGED <<providers, default>>

\* A default goes on naming a model that is deleted.
DeleteModel(m) ==
  /\ m \in models
  /\ models' = models \ {m}
  /\ AtOnce
  /\ UNCHANGED <<providers, default>>

DeletableAlways(p) == Live(p)  \* mutant: the reference is not declared

\* What the database lets go: a provider no default refers to.
Deletable(p) == Live(p) /\ (default # None => default.provider # p)

DeleteProvider(p) ==
  /\ Deletable(p)
  /\ providers' = [providers EXCEPT ![p].live = FALSE]
  /\ models' = {m \in models : m.provider # p}
  /\ AtOnce
  /\ UNCHANGED default

BeginDefault(d, m) ==
  /\ m \in models
  /\ Begin(d, [op |-> "provider", at |-> "default", model |-> m, read |-> default])
  /\ UNCHANGED providerVars

\* A first default is inserted, once; later only the columns that differ from
\* those that were read are written.
StoreDefault(d) ==
  /\ Doing(d, "provider", "default")
  /\ LET m == task[d].model
         read == task[d].read
     IN /\ IF read = None
           THEN default = None /\ default' = m
           ELSE default' = [c \in {"provider", "name"} |->
                              IF m[c] = read[c] THEN default[c] ELSE m[c]]
        /\ Live(default'.provider)
  /\ End(d)
  /\ UNCHANGED <<providers, models>>

FailProvider(d) ==
  /\ task[d].op = "provider"
  /\ Refuse(d)
  /\ UNCHANGED providerVars

\* auto_configure_admin: a provider with neither a name of its own nor models and
\* then, unless the process stops in between, the default. Not again once there is
\* a provider.
AutoConfigure ==
  \/ UNCHANGED providerVars
  \/ /\ Configured # None /\ Connected = {}
     /\ Len(providers) < MaxProviders
     /\ LET p == Len(providers) + 1
        IN /\ providers' = Append(providers, [kind |-> Configured, named |-> FALSE, live |-> TRUE])
           /\ default' \in {default}
                 \union {m \in Models(p, Preset(Configured)) : default = None}
     /\ UNCHANGED models

ProviderNext ==
  \/ \E d \in Desks :
       \/ \E k \in Kinds : BeginConnect(d, k)
       \/ \E p \in DOMAIN providers : BeginSync(d, p)
       \/ \E m \in models : BeginDefault(d, m)
       \/ StoreProvider(d) \/ StoreModels(d) \/ StoreDefault(d) \/ FailProvider(d)
  \/ \E p \in DOMAIN providers : DeleteProvider(p) \/ \E n \in ModelNames : AddModel(p, n)
  \/ \E m \in models : DeleteModel(m)
=============================================================================
