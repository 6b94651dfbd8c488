# UniAI Kernel in TLA+

A model of the backend of UniAI Kernel (`backend/app`): the conversation graph
that runs a chat request, the ledger it keeps, the session it runs in and the
stream it answers on; the registry that says which graph a request runs on; the
governance of ontology packages and what a turn of an agent makes of them; the
two workshops in which people author rules and review knowledge; and the
catalogue of tools, providers, models, agents and applications. TLC checks the
modules on small instances. TLAPS proves, for every instance, all the safety
properties of the passing runs and both refinements.

Paths below are relative to `backend/app`.

## Modules

| Module | Models | Kind |
| --- | --- | --- |
| `TaskPlan` | `agents/task_runtime.py` | operators on plans |
| `ConversationGraph` | `agents/graph_builder.py`, `agents/nodes/`, `agents/adaptive_router.py`, `services/swarm_service.py` | state machine, one action per graph node |
| `Delegation` | what the graph promises about who speaks | abstract specification |
| `ChatSession` | `services/agent_service.py`, `agents/stream_callback.py`, `agents/nodes/context.py`, `services/context_service.py`, `api/endpoints/messages.py`, `sessions.py` | state machine, two processes per request |
| `GraphRegistry` | `agents/graph_registry.py`, `agents/builder.py`, `agents/pg_checkpointer.py`, `api/endpoints/graph.py` | state machine, requests cut at their awaits |
| `OntologyGovernance` | `ontology/persistent_service.py`, `ontology/repository.py`, `models/ontology.py` | state machine, two or three actions per HTTP request |
| `PackageLifecycle` | what governance promises about versions | abstract specification |
| `OntologyRuntime` | `ontology/pipeline.py`, `action_planner.py`, `action_executor.py`, the run-time half of `persistent_service.py` and its data sources | state machine, turns and requests cut at their awaits |
| `Clauses` | the two readers of policy texts in `rule_extraction/service.py` and `review/service.py` | operators on texts |
| `RuleAssets` | `ontology/asset_service.py`, `rule_extraction/service.py` | state machine, two or three actions per HTTP request |
| `ReviewKnowledge` | `review/service.py`, `models/review.py` | state machine, two actions per HTTP request |
| `Requests` | requests on one event loop | operators shared by the next three |
| `ToolRegistry` | `core/plugins.py`, `api/endpoints/dynamic_tools.py` | part of a state machine |
| `ModelProviders` | `api/endpoints/providers.py`, `core/startup.py` | part of a state machine |
| `AgentCatalog` | `api/endpoints/agents.py`, `applications.py`, `services/application_service.py`, the part of `agent_service.py` that reads them | composition of the two |
| `MC...` | constants and symmetry for TLC | instances |
| `...Proofs` | theorems about the module they are named after | proofs |

`ConversationGraph` EXTENDS `TaskPlan` and instantiates `Delegation`;
`OntologyGovernance` instantiates `PackageLifecycle`; `RuleAssets` and
`ReviewKnowledge` EXTEND `Clauses`; `AgentCatalog` EXTENDS `ToolRegistry` and
`ModelProviders`, whose requests share its desks, and joins their steps.

## Inventory of the system

**Conversation graph.** State: LangGraph's `AgentGraphState` (messages, current
agent, consulted experts, the expert being wrapped, pending tool calls, iteration
and repair counts, plan, artifacts, evaluation). Operations: the nodes `context`,
`task_planner`, `agent`, `tool_executor`, `handoff`, `orchestrator_invoke`,
`synthesize`, `task_evaluator`, and the router between them. Nodes run one at a
time. It calls the model client, the tool registry, the swarm service (agent
profiles) and the database, and writes to the stream bridge. Hard: the model
decides the path, several calls come in one turn, every collaborator may fail,
limits strike anywhere. Correct when every request ends with the root's turn,
tags are balanced, nobody is consulted twice, the verdict is earned.

**Task ledger** (`agents/task_runtime.py`). A plan with steps and a current step;
built by the planner, advanced by events of every node, consulted before a tool
runs, evaluated at the end, reopened for a repair. Correct when the current step
is open and the verdict agrees with the steps and the evidence.

**Ontology package governance.** Rows `ontology_packages` and
`ontology_approvals`; operations upsert, submit approval, review, release,
rollback, each one transaction of one HTTP request. Hard: requests interleave
between their reads and their commits, at READ COMMITTED, without row versions.
Correct when at most one version is active, gates are honoured, four eyes decide,
and versions follow the lifecycle.

**Stream bridge** (`agents/stream_callback.py`, `services/agent_service.py`). A
queue between the graph's task and the SSE response; emit, close with a sentinel,
keepalive after 30 s, cancellation of the graph when the client leaves. Correct
when every event emitted before the close is delivered once and in order and the
response ends.

**Session context** (`agents/nodes/context.py`, `api/endpoints/sessions.py`,
`api/endpoints/messages.py`, `services/context_service.py`). Stored messages, a
session's summary and thread state; send, resume, clear, delete, compress.
Correct when what was deleted does not come back to the model.

**Message protocol** (`core/llm.py`). `_clean_messages` turns a history into one
that providers accept: every tool result follows its call, every call is answered.

**Graph registry** (`agents/graph_registry.py`, `agents/pg_checkpointer.py`,
`api/endpoints/graph.py`). Rows of templates and of their versions, a cache of
compiled graphs, one checkpointer behind a double-checked lock. Operations: get a
compiled graph, save, activate, compile, seed at start-up. Hard: a compilation
spans awaits in which a version is activated; an activation updates the rows it
can see; setting up the checkpointer may hang. Correct when the cached graph is
the active version's, one version is active, and every request gets a graph.

**Ontology run time** (`ontology/pipeline.py` and what it calls). A turn maps its
input, evaluates the rules, plans and fetches what is missing, stores graph and
decision. Data sources with an approval of their configuration. Hard: packages
and sources change between two awaits of a turn; any step may fail after the
decision. Correct when a live call uses what was approved, a fetched value never
replaces a given one, and a decided block is kept.

**Rule assets** (`ontology/asset_service.py`, `rule_extraction/service.py`).
Sources, rule entries and terms; parse, create, edit, submit, review, deprecate,
compile. Hard: two commits in a compilation; reviews, edits and compilations of
the same asset interleave. Correct when a package holds only what was reviewed
and good, and what is packaged is final.

**Review knowledge** (`review/service.py`). Documents, articles, norms, checks,
packs, runs. Hard: packs share norms; patches overlap releases. Correct when a
released pack holds only approved content, is released whole, and its rules do
not change between reviews.

**Tools** (`core/plugins.py`). A process-wide registry, refilled from a table
after every change of it, without a lock. Correct when it follows the table.

**Providers, agents and applications** (`api/endpoints/providers.py`,
`agents.py`, `applications.py`). Rows that refer to each other; a normalisation
that decides what an agent may do. Correct when references hold, the type of an
agent is honoured, and saving it again changes nothing.

**Other parts**: memory and vectors, health and scorecard, audit, users and keys,
start-up, migrations, frontend. `PROJECT.json` lists each with the reason it is
not modelled.

## How the models correspond to the code

### TaskPlan

A plan is `[steps, current, status]`; a step keeps its owner, its tool candidates
and its status; titles and texts are left out. A step is identified with its
position, 0 is `None`. `Advance` is `advance_execution_plan` with
`_resolve_step_id` (`ResolveStep`), `_status_for_event` (`EventStatus`) and
`_next_open_step` (`MoveOn`); `ValidateTool` is `validate_tool_against_plan`;
`Missing`, `Evaluate` and `Stamp` are the evaluation and what the evaluator node
does with it; `Reopen` is `reopen_plan_for_repair`. The optional capability
providers (`agents/runtime_capabilities`) can replace classification, plan and
evaluation; the default ones are modelled.

### ConversationGraph

`node` is the node that runs next: LangGraph evaluates a conditional edge with the
node it leaves. Each action is the whole node.

- `Agent` is one turn. The model's answer is chosen by `\E`: any sequence of at
  most `MaxCalls` calls that the offered list permits, text or none, success or
  failure. `echo` says whether a canvas call's arguments stream in: only then does
  the call close the collaboration tag before the text does. The search the node makes on its own
  (`Prefetch`), the collaboration tags (`EndsWrapped`, `openTags`) and the plan's
  events are part of it.
- `Route` is the router. The score-based ranking assigns the pending calls inside
  a conditional edge, which LangGraph does not persist, so the next node sees the
  list as the agent wrote it; the model leaves the ranking out.
- `ToolExecutor`, `Handoff` and `OrchestratorInvoke` serve the turn's calls in
  order with a fold. What the database finds (`TransferFate`, `InvokeFate`) and
  whether a tool works is chosen per call. `HandleHandoff` is
  `swarm_service.handle_handoff`, which both nodes use and which returns experts
  only.
- A repair's request to the model is a user message, after which a search counts
  as missing again (`evidence.fresh`).
- `Crash` is any node raising; the run of the graph ends.

Messages are abstracted to what the checks read in them: a message named
`web_search`, one since the latest user message, one that mentions the ontology
runtime (which the user's own text may do, hence the choice in `Init`). Arguments
of calls are valid JSON by the time a node reads them (`_sanitize_tool_calls`).
An expert's own tool list only narrows what it is offered and is left out; the
profile a handoff builds carries no runtime policy, so experts are not bound by
the root's. `own` says whether the profile in force is the one the request began
with. The agent a chat addresses may have the role expert, which nothing checks and
which is the role's default (`models/agent.py:42`): `task.expertRoot`. Such a root
is wrapped like an expert, is sent to the evaluator and not to `synthesize`
(`agents/adaptive_router.py:39-43`), and may be consulted (`ExpertAgents`, which
`Delegation` gets as a variable that never changes). `called_expert_ids` also records invoked applications, as the code
does. `refused` is an observer for the comparisons with the repository's texts.

### OntologyGovernance

Each request is a session. `Begin...` is its reads and checks; `Finish...` its
writes and commit; a release to ga and a rollback have `SelectActive` in between,
the query for the rows to switch off. The checks of a release (the row, the
approval, the compatibility warnings) are one step: none of them is read again,
and they are reads of independent rows; `find_other_active_package`, which only
feeds the warnings, is merged with them. `switch_active_package` has three steps
after the checks: `SelectActive` is its query, `FlushOld` the first flush, with
which the old rows are off for this session and locked for the others
(`LockedFor`: PostgreSQL's row locks), `FinishSwitch` the second flush, where the
index is asked, and the commit. A commit that would write a locked row waits.
`overtaken` observes the sessions that looked for the active rows before another
switch committed. SQLAlchemy writes only the attributes that differ
from what it loaded: `Update` compares with `seen`, what the session loaded, not
with the row as it now is. The two partial unique indexes are the conditions
`IndexAllows` and `PendingAllowed`; a commit they refuse is an `Abort`, which also
stands for every other failure of a request.

`Stewards` stands for the users that `_ensure_space_access` lets in; membership
does not change during a run. `Approval.content`, `rolled` and `overtaken` are observers. The
template bootstrap endpoint calls `release` three times in one session and is not
modelled.

### ChatSession

A request is the graph's task (`chat[r].step`) and the SSE response (`reader[r]`),
joined by the queue of `StreamCallback`. `Begin` is `chat_stream` up to the task;
`LookUp`, `SaveCheckpoint`, `BuildContext`, `SaveUser` and `SaveBubble` are
`context_node`, cut at its commits; `Speak` and `Persist` stand for all the graph's
turns, which `ConversationGraph` has in detail: they stream what the model says,
the fault of a failed call of it, both or nothing (`Streams`), and write an answer
into the bubble. A fault is streamed and not stored (`agents/nodes/agent.py:622-630`). `Fail` is any exception in the task, `Leave` the client going
away, `CleanUp` the generator's `finally` when it is closed, which may be later.
`DatabaseFails` makes statements fail whose errors the code catches.

A text is a question, an answer, a blank bubble or an edit. What the client sends
is what the web client sends: one question. `text` with `skip` is a stored
question asked again (`skip_save_user`, after "regenerate" or an edit). The
snapshot `thread` is `thread_state`, which holds the messages of the request that
took it, that is, one text. The system message, memories and the token count are
left out; `Window` is the number of messages that fit.

`delete_message` is two steps, its reads and its commit: it resets the snapshot by
an attribute assignment, which SQLAlchemy writes only if it changes what was
loaded. (A new row's `{}` is not told apart from `None`; setting it to `None` is
written.) The user's other changes are one statement and a commit. Messages are
ordered by commit; the code orders them by the start of the transaction, which
differs only for requests that overlap. `Begin` creates a missing session in one
step; of two first requests that collide on the new id, one fails before its
stream begins. `seen` and `change.asked` are observers.

### GraphRegistry

A topology is its nodes with types, three kinds of edges and an entry;
`Normalised` is `_normalize_topology`, `Compiles` what the builder adds and the
graph library demands. A request is a task cut at its awaits: `GetGraph` finds no
cached graph, `SelectVersion` and `SelectBase` read the rows, `SaverReady`,
`EnterLock`, `Woken`, `SetupSucceeds` and `SetupFails` are
`create_pg_checkpointer` with its lock (`lock` is the holder and the queue of
`asyncio.Lock`), `Finish` compiles and caches. A transaction that activates a
version begins by updating the rows it sees (`sees`, `Held`: READ COMMITTED and
row locks), commits, and invalidates the cache in a later step. `WriteFails`
stands for every refused transaction, deadlock victims among them, and so for the
partial locking that leads to them. One process; version codes are left out.
`doubled` and `outdated` are observers, each set where the code leaves a case
open: a version inserted after an activation began is not deactivated by it; a
request that read the rows before an activation caches after its invalidation, or
the invalidation never runs (`LostAfterCommit`). `SetupIsSingle` is the promise of
`create_pg_checkpointer`'s comment: one set-up at a time, none once there is a
checkpointer. It says so of the lock too: it has each request that waits for it in
line once, and no other.

### OntologyRuntime

A turn is the record of what `pipeline.run` knows; each action ends at an await.
`Raise` is every other outcome of a step: the `except` of the pipeline. Values of
attributes are `None`, "given" and "fetched"; a mapping is a sequence of paths, of
which the last that writes an attribute decides (`Writers`, `Mapped`); a rule is a
set of conditions with a weight and a flag. `ExecuteFixture`,
`ReadSource` and `CallSource` are the executor; which source ranks first and what
it returns is any. Requests on data sources load the row, change it and commit the
columns that differ (`Merged`); configuration and approval are one JSON column.
Rights in the space are left out: losing one is a `Raise`. `approval` and `raced`
are observers.

### Clauses

Both readers go through the lines of a text; a line is what it starts with, its
number, what it says and how long it is. `Segments` is the loop both share,
`Sentences` the fallback, `Articles` the filter on length (`Only`), whose result is
what is stored. `ReadsWell` defines the results without reading line by line: a
clause starts at each mark and at the first line (`Starts`), has all the lines up to
the next start, in order (`CutAt`, `Under`), the number of its first line and the
chapter above it (`Located`). Of the articles for reviews exactly those of less than
four characters are missing (`ArticlesReadWell`); the clauses for rules are all
there, or the sentences where the text has no more than one start
(`ClausesReadWell`). `ReadingAssumption` in `MCRuleAssets` has TLC evaluate it for
every text of up to three lines, `ArticlesAreWhole` for the texts of the runs, and
`EveryTextIsReadWell` proves it for every text (`IsText`).

### RuleAssets

A phrase has what the extraction reads in it; `Condition` and `Approvable` are
`infer_rule` and the assessment of what it makes. An asset is named by its text
or term, with the suffix that a taken code gets. `Begin...` reads, `Finish...`
commits the columns that differ; `StorePackage` and `StampAssets` are the two
commits of a compilation, and `Fail` the crash between them. `reviewed`,
`published` and `raced` are observers: the last one holds assets that a request
wrote after another one had, from a row read before, where the code keeps no
order. The configurations leave attributes out (`Attributes = {}`); editing a
source document is not modelled, and assets made by hand name no source.

### ReviewKnowledge

Norms and checks are identified with the text of their article, as their codes
are. `BeginSegment` with `extract` is an extraction that segments first.
`Merged` writes what differs from what was read. `RunReview` records in `report`
the rule each check applied; it changes no row other requests read. A request may
name ids that no row has: `create_pack` stores them (`None` in a pack stands for
them), and a release, a run and the properties see only the rows that are found
(`ItemsOf`). Ids of a pack or a document in a request are those of rows, and there
is one scenario. `approved` observes the last decision on an item, so a patch that
takes an approval back takes it out; `raced` holds what a patch wrote over a
release.

### Requests, ToolRegistry, ModelProviders, AgentCatalog

A desk serves one request at a time, cut where it awaits. In `ToolRegistry` a
change commits (`CommitTool`), then `Clear`, `Read` and `Register` are
`load_dynamic_tools`; `behind` observes whether what is registered was read
before a change. `ModelProviders` has the two commits of connecting a provider,
the default that is written by columns, and start-up's `auto_configure_admin`, whose
row has neither a name nor an address (`named`), so that the duplicate check does
not find it.
`AgentCatalog` normalises what is sent (`Normalised`, `Policy`), keeps agents and
one application, and computes what a chat with them may do (`RunPolicy`,
`RunConfig`, `Offered`, `Delegates`) and what the contract shows (`ContractPolicy`,
`ContractConfig`). A chat has what the request allows and how its text reads: a
review, and for an agent that consults the ontology a text about it, locks the turn
(`Locked`), and the model is offered nothing to call. An agent's row is a function of the fields a request may say,
its model and whether it is there; `raced` names agents two updates of which
overlapped. One user, one kind of model; canvas and tool call modes are left out.

## Runs

| Run | Question | States |
| --- | --- | --- |
| `ConvDelegation` | an orchestrator or an expert as root, two experts, two calls in a turn: tags, last word, consulted once, the speaker's profile; implements `Delegation` | 0.5 M |
| `ConvTools` | research requests to orchestrators and experts under three runtime policies, business reviews and plain requests under two, one other application, every application binding: ledger, earned verdict, bound search, termination | 1.9 M |
| `GovSerial` | two versions, four approvals, one request at a time: ga and active agree, gates; implements `PackageLifecycle` | 0.9 M |
| `GovConcurrent` | two versions, two approvals, two requests at a time: single active, one pending per gate, four eyes, the index accepts a switch that none has overtaken | 5.8 M |
| `Chat` | two requests of a session of two agents, and a deletion or a switch: what was deleted stays gone | 5.0 M |
| `ChatEnds` | one request that streams an answer, a fault, both or nothing, failures everywhere, the client leaving, two changes to the session: every response ends, says how, has sent what was stored, leaves no graph behind | 0.4 M |
| `Review` | two documents, two packs, two sessions, three patches, packs of missing ids: packs are approved and released whole, articles are whole, rules fixed, documents move on | 4.8 M |
| `Assets` | two sources, one entity, two sessions, five requests: packages hold what was good and reviewed, what is packaged is published and final | 1.0 M |
| `Registry` | two templates, three topologies, two versions, four requests of which two overlap, one restart: the cache, the active version, one set-up at a time, everybody is served | 0.8 M |
| `Runtime` | one agent, one source, two overlapping requests on it, one switch of packages: live calls, gaps, blocks | 4.4 M |
| `Catalog` | two tools, providers, agents' changes and an application, six requests of which two overlap, and every chat: registry, types, saving again, references | 3.7 M |
| `CatalogContract` | "shows what is really enabled" | counterexample |

Every passing property has a mutant: a definition of the model changed the way a
bug would change the code, under which TLC finds the property violated. The
mutated forms stand beside the definitions, each with a comment.

No run checks a type invariant: each module's `TypeOK` is a theorem (`TypeCorrect`,
`TypesHold`).

### Bounds

- `MaxIterations = 3`, `MaxRepairs = 1` (shipped: 25 and 1). Three turns are
  enough for a consultation, its failure or handback, and the limit striking on
  either side of it.
- `MaxCalls = 2` in `ConvDelegation`: two calls in one turn show duplicates, mixed
  kinds and one failing after another. One in `ConvTools`, where the variety is in
  the requests.
- Two experts: the second handoff can repeat the first or differ. Another
  application, whose invocation always fails, is in `ConvTools` only; an expert as
  root in both.
- Package versions: two, the least with a switch. Four approval ids in the serial
  run are both gates of both versions; two in the concurrent run, where only the
  staging gate is switched on so that versions get to ga with few approvals.
  `Asked`, the stages approvals are asked for, is the gated ones. One payload.
- `Chat`: the session starts with a finished turn, so with two requests there are
  three turns; one change is enough to fall between any two steps of both. Its
  turns answer (`Answers`): a silent one stores nothing that could come back.
  `ChatEnds`: one request, whose stream depends on no other, every start, and every
  kind of stream (`AnyStream`).
  `UserDoes` names the changes a run allows.
- `Review`: a manual with chapters and lines that are too short, and a document
  that says an article twice and shares it with the manual, which no extraction
  accepts. A text that repeats a number, which `Locatable` refuses too, is left to
  the theorems; a second segmentation of a document meets the same index.
  `MaxPatches = 3` suffices to approve a norm and its check and to edit one of them.
  `Named`: a pack names nothing, a row, or ids that no row has; a mixture of the
  last two is treated as what is found of it.
- `Assets`: five requests are the least for parse, submit, review, compile and one
  more; two users of whom one is an administrator; a text that states a rule
  twice and shares it with another source.
- `Registry`: a topology that compiles, one that has to be normalised to compile,
  one that cannot. Two versions are the least with a switch, four requests an
  activation that overlaps another and a request that overlaps both.
- `Runtime`: two fields told by three paths, of which two lead to the same field;
  one package that blocks and one whose weights add up. One turn: turns share
  nothing but rows that only the requests change.
- `Catalog`: a stored tool with the name of one that comes with the process and
  one with another name; a kind of provider with a template and one without; seven
  changes of an agent that touch each field `Policy` depends on.
- Symmetry is over names that no definition orders or mentions; no run with
  symmetry checks liveness.

### Deadlock and fairness

All models may stop: requests that ended have nothing left to do and the counters
that bound a behaviour run out; the runs do not check deadlock. That nobody waits
for ever is what the liveness properties say.

`ConversationGraph!Spec` asks weak fairness of the steps that leave the running
node. The graph runs in one task of the event loop, which runs it until it
returns; a node waits only for the model, a tool or the database, and each
answers or raises (a raise is `Crash` or a failed call). The fairness does not
choose among outcomes: a graph that always fails is fair. `ChatSession!Spec` asks
the same of each request's graph, of the response, which the event loop resumes
whenever the queue has an event and the client reads, and of the clean-up of a
response whose client left. `GraphRegistry!Spec` asks it of each request that asks
for a graph: the event loop runs every task that can go on, the set-up of the
checkpointer ends, well or not, within the 30 seconds `create_pg_checkpointer`
gives it, and the lock wakes those that wait in their order. The other
specifications have only safety properties and no fairness.

## Findings

`CatalogContract`: the contract of an application says that the ontology is
enabled when the application is bound to a space, whatever the agent's mode; a
chat through an application whose agent has the ontology off skips it
(`services/application_service.py:157`, against
`docs/agent_platform_direction.md:161`).

### Known divergences

What the code does otherwise than a text of the repository, or than its other
parts, would suggest, met while modelling. Where a definition states it, the
definition stands in its module, is false of the model, and no run checks it.

Conversation and session:

- `SubAppServed`: `orchestrator_invoke` resolves its target with
  `handle_handoff`, which returns experts only, so its success branch is
  unreachable (`agents/nodes/orchestrator_invoke.py:4`). The same function refuses
  the transfer back to the orchestrator that experts are told to make
  (`agents/nodes/agent.py:251`); the plan's step is then marked failed.
- `HistoryIsTold`: a session's snapshot is taken by the first request and never
  brought up to date; later requests to the same agent send the model the first
  question and their own, without what was said between
  (`agents/nodes/context.py:22`, 59-69).
- `ClearedStaysGone`: clearing a session leaves the snapshot, so the cleared
  question reaches the model again (`api/endpoints/sessions.py:293`).
- `FactsRetrieved`: a blocked or failed search counts as a search result
  (`agents/task_runtime.py:728`, 939-940). An answer of collaboration tags alone
  counts as one (692-697). A request can pass with neither an answer nor a fact, and
  `EndIsEarned` promises no more than the code's own checks.
- Nothing keeps a chat from addressing an agent of role expert. Its answer opens a
  collaboration tag that nobody closes: the router sends it to the evaluator, and
  only `synthesize` closes tags. `RootHasLastWord` excepts it.
- A turn may stream no text, or the fault of a failed call of the model alone, after
  which the graph goes on and the response ends with `[DONE]` and no error; the
  answer's bubble stays blank, and later contexts contain it. `EndIsTold` promises
  an error just when the graph raised, and the answer if one was stored.

Governance:

- `ActiveOnlyAtGA`: a rollback that overtakes a release leaves a version active
  outside ga (`ontology/persistent_service.py:552`).
- `ApprovedContentInForce`: an approved payload may be replaced in place
  (`ontology/persistent_service.py:1173`, against `CHANGELOG.md:10`).

Graph registry:

- At READ COMMITTED an activation does not see a version inserted active since it
  began; two are active, and requests get the built-in graph until the next
  activation (`doubled`). A request that read before an activation caches the old
  graph after the invalidation; an activation that fails after its commit does not
  invalidate (`outdated`). A graph compiled while the checkpointer could not be
  set up keeps its in-memory one.
- `StoredTopologiesRun`: what the editor's canvas saves need not compile, every
  chat on the template then fails, and no endpoint switches a version off
  (`docs/agent_platform_direction.md:37`).

Ontology run time:

- An approval committed over an edit of the same row leaves a source approved
  whose secret or status nobody approved (`raced`). The value behind a secret's
  reference may change after the approval. Fixture sources have no approval;
  `draft` and `disabled` are alike to the executor.
- The decision is made before the graph is completed and is not made again,
  although the planner says that completion comes before deciding
  (`ontology/action_planner.py:91`). Nothing but the text put into the prompt
  enforces a block (`agents/nodes/context.py:114-137`). Required mode without a
  decision does not block; in auto mode a later failure loses the block. The
  versions a turn reports may differ from those it used.

Rule assets:

- Two requests that loaded the same row write over each other (`raced`).
- Compiling to a version that exists drops the entries it held; the entries stay
  packaged. Nothing sets the status `released`. A third parse of a text with
  overwriting ends in a conflict. A crash between the two commits leaves a package
  whose entries are not marked; compiling again repairs it.
- The field, the number and the comparison of a rule may come from different
  sentences. A duty becomes `exists`, which hits when the value is present.
- `ontology/asset_service.py:954-1160` is never reached.

Review knowledge:

- A text that says an article twice can never be extracted, one that repeats a
  number never segmented. A line after a chapter's heading that has no mark of its
  own joins the article before the heading (`docs/rule_ontology_asset_sop.md:64`).
  An upload looks up the version as sent and stores it stripped.
- Text between two marks that has less than four characters is dropped silently
  (`review/service.py:506`), a short heading of a clause with it.
- An approved norm may be edited and stays approved; a patch may set `released`
  directly. Of two packs that share a norm only one can be released. A pack may name
  ids that no row has, or no others: it is created, released with only the rows
  found being checked, and reviews apply none of the missing ones
  (`review/service.py:358-359`, 399-404).
- `FindingsAreCited`: a finding may cite nothing
  (`docs/rule_ontology_asset_sop.md:79-80`, `review/service.py:582`).

Tools, providers, agents:

- A stored tool may take the name of a built-in one, which after its deletion is
  gone until the next start. Overlapping loads can register a deleted tool again;
  a load that fails leaves stored tools out; one that never begins, because the
  answer after the commit was lost, leaves the old ones.
- Connecting a provider checks for duplicates and inserts later, and its models
  are a second commit. Overlapping changes of the default can mix the provider of
  one with the model of the other; a default goes on naming a deleted model. A
  start that dies between the commits of `auto_configure_admin` never sets a
  default. Deleting the default provider is refused by the foreign key.
  The provider that start-up configures can be connected a second
  time. `custom_api_base` is not read by `get_provider_config`.
- Deleting a model leaves its agents without one, and listing agents then fails
  the validation of the answer. An agent that names a deleted tool refuses every
  later update.
- An agent created with the required fields alone stores the policy `{}`, which
  allows everything; renaming it turns tools and experts off. An empty list of
  tools means all tools in a chat (`agents/nodes/agent.py:331-334`) and none in the
  comment of its column and in the policy (`models/agent.py:28-29`,
  `api/endpoints/agents.py:332`). A text that reads as a review takes every tool and
  the handoff from any agent, whatever its type (`agents/nodes/agent.py:219-220`,
  355-369). A warning says that the ontology will not run
  where it does (`services/agent_service.py:131`).
- `services/provider_manager.py` imports classes that do not exist.

`DeletedStaysGone` holds with one exemption, which the observer `change.asked`
states: a question that somebody asks again while its message is being deleted
may be in the snapshot that this request takes, after the deletion's reset.

## Proofs

All theorems hold for every value of the constants under the named assumptions,
with any number of concurrent requests unless said otherwise. The assumptions say
what the constants are (`GatedAssumption`, `AskedAssumption`,
`RuntimeAssumption`, `AssetsAssumption`, `KnowledgeAssumption`,
`RegistryAssumption`, `ChatAssumption`, `AgentsAssumption`, `LimitsAssumption`,
`CanvasAssumption`, `TasksAssumption`, `ToolsAssumption`), what a payload can say of
the attributes there are and that what is in force at first is of its kind
(`SaysAssumption`), that `None` is none of the rows and graphs (`NoneAssumption`,
`NoneIsNoRow`, `NoneIsNoGraph`), that no update of an agent says whether the agent is there
(`LiveIsNotTold`), and what a request about an agent can say without being refused
(`ToldAssumption`). TLC evaluates each in the runs; `OneAtATime` is a hypothesis of
the serial theorems only.

`ConversationGraphProofs`:

- `GraphSound` is the inductive invariant: the properties below, and four facts
  that none of them states. The ledger is there from the planner on, and never
  without an open current step (`LedgerThere`); the executor runs after a turn
  that names nobody but tools (`OnlyToolsRun`); a root that is no expert is never
  wrapped (`RootIsUnwrapped`), without which an expert's tag could be closed for it;
  and an answer of tags alone has an expert to owe them to (`TagsAreExperts`).
- What a node leaves is found by going through the calls of a turn: `Ran` and
  `Served` are recursive functions, and that the nodes keep `GraphSound` is an
  induction over the calls. The library's induction theorems take an operator,
  which the provers cannot instantiate; `RecursionExists` says that such a
  function exists, for steps given as functions, and `RecursionStays` that what
  its steps keep it keeps, by the least number for which it does not
  (`LeastNumber`). `AdvanceSound` says what an event does to a ledger.
- `TypeCorrect`, `TagsAreBalanced`, `TheRootHasTheLastWord`,
  `NobodyIsConsultedTwice`, `TheSpeakerWasCalled`, `TheCurrentStepIsOpen`,
  `TheEndIsEarned`, `SearchesAreBound`: the safety properties of both runs.
- `TheGraphDelegates`: the refinement `ImplementsDelegation`. A node that hands
  over consults the experts that it adds to the list (`HandOverConsults`), the
  synthesis gives back, the evaluator closes, and Delegation sees nothing of the
  other nodes (`DelegationStep`).

`OntologyGovernanceProofs`:

- `TypeCorrect`: `TypeOK`. One lemma per variable (`RowsType`, `ApprType`,
  `RequestsType`). `TypeOK` is not inductive alone: a review in progress must
  point to an existing approval, or its commit would write fields of `None`.
- `Sound` is the inductive invariant: `TypeOK`, every review in progress is about
  an existing approval that somebody else requested (`ReviewsOfOthers`), and
  `FourEyes`. A review is checked when it is read and written later, with nothing
  checked again; what makes `FourEyes` hold is that a requester never changes and
  approvals are never deleted (`ApprKept`).
- `NobodyDecidesForThemselves`: `FourEyes`, from `Sound`.
- `AtMostOneInForce`: `SingleActive`. Only the commit of a switch makes a version
  active, either again, when it was loaded active, or by leave of the index; the
  step from two sessions that both selected before either committed is the
  interesting case (`SwitchKeepsSingle`).
- `SwitchesAreAccepted`: `SwitchIsAccepted`, with any number of sessions. A switch
  that none has overtaken knows every active version but its target, between its
  query and its first flush as well as between its flushes (`KnowsActive`); only
  the commit of another switch makes a version active, and that overtakes it
  (`NewlyActive`, `OvertakenKept`).
- `OnePending`: `OnePendingPerGate`, from the index alone.

The second half of the module adds the assumption `OneAtATime`: all sessions are the
same one.

- `SerialSound` is the inductive invariant: `Sound`, `SingleActive`, what the
  session loaded is what the rows say (`SeenIsCurrent`), what it checked still
  holds (`CheckedIsCurrent`), and the two properties.
- `InForceIsGA`, `GatesAreHonoured`. The assumption is needed: with two sessions a rollback that overtakes a release refutes the first
  (see the known divergences).
- `LifecycleIsFollowed`: the refinement `ImplementsLifecycle`. A commit is the
  step of `PackageLifecycle` that its request checked before it read the rows, so
  the invariant also says that the checked transition is still one when it commits
  (`TransitionIsCurrent`). The version in force is chosen; `SingleActive` makes the
  choice unique, so a step maps to what it does to the one active version.

`ChatSessionProofs`, for any number of concurrent requests and of the user's changes:

- `Bridged` is the inductive invariant, one `Bridge(r)` per request: the response
  and the graph's task begin together (`Begun`), the sentinel is the last event and
  comes only when the task has ended (`SentinelIsLast`), what the client must be
  told is either in the queue or received as long as it reads
  (`SentWhileReading`), and once the response is over so is the task
  (`ToldWhenOver`). `EndIsTold` alone is not inductive: it speaks of `[DONE]`, which
  the client gets long after the task decided what to say.
- A step of one request leaves the bridges of the others alone (`Elsewhere`), and
  the user's changes leave all of them alone (`UserStep`); so each action needs
  one lemma about its own request. `ForwardBridged` is the interesting one: the
  sentinel is the last event, so all that was sent has been received when `[DONE]`
  is.
- `EndIsAlwaysTold`: `EndIsTold`, with `Streamed`: the answer that a bubble holds
  was sent to its client, or the client has left. `NoGraphIsLeftBehind`:
  `NoGraphLeftBehind`.
- `SessionSound` is about what is stored, asked and deleted: no message is stored
  twice (`Once`), a question or an answer is unknown before it is asked or given
  (`Fresh`), what was deleted is not stored, asked or in the snapshot (`Gone`), and
  a deletion that will not reset the snapshot found none, so that what has become
  the snapshot since was asked meanwhile (`Pending`). `Gone` needs `Pending` for the
  commit of a deletion (`CommitDeleteSound`), and `Fresh` for the question and the
  answer that a request stores after others were deleted.
- `DeletedTextsAreGone`: `DeletedStaysGone` (`BuiltOfWhatIsLeft`). `TypesHold`:
  `TypeOK`, from `SessionSound` and `Bridged`.
- `LeftWereThere` says that what a deletion leaves is made of what was there. It is
  an induction over the messages by the least number of which it fails
  (`LeastNumber`, from the library's theorem on well-founded relations; its
  induction theorems take an operator, which the provers cannot instantiate).

`GraphRegistryProofs`:

- `Sound` is the inductive invariant: one version is active, but for `doubled`
  (`AtMostOne`); the cache agrees with the rows where no invalidation is owed
  (`CacheSound`); a request that no activation has overtaken knows what is current
  (`GetSound`); and an activation sees exactly the versions that were there when
  it began, while later ones are inactive unless it has missed them
  (`WriteSound`). Neither property is inductive alone: what is about to be cached
  is in the request, and what is about to be deactivated in the transaction.
- The interesting step is the commit of an activation: `CommittedRows` and
  `CommittedOthers` say what the rows are after it, `WriterTold` and `OthersTold`
  that every request and transaction it overtakes learns so.
- `ActiveIsUnique`: `OneActive`. `CacheIsCurrent`: `CachedIsCurrent`.
- `SetupIsSingular`: `SetupIsSingle`, which is inductive with the type of the lock
  (`LockSound`). Requests come to the lock (`EnterSound`), leave it with or without
  a checkpointer, or dead (`LeaveSound`), and are woken (`WokenSound`), where the
  second look at the instance keeps them from a second set-up.
- `TypeCorrect`: `TypeOK`. A cached topology is one that compiles (`CachedRuns`).

`OntologyRuntimeProofs`:

- `Sound`: an approval covers the stored configuration and secret of its source
  unless an edit and an approval raced (`ApprovalCovers`), every desk loaded a row
  that was there, and the graph that a turn stores, the one its decision saw and
  the one it is completing agree outside what was fetched. An approval is
  committed from a row read earlier, so the property of calls follows only with
  what the desks have loaded (`CommitSound`).
- `LiveCallsAreApproved`: `LiveAsApproved`. `CompletionFillsGaps`:
  `FilledNotReplaced`. `DecidedBlockIsKept`: `BlockIsKept`.
- `TypeCorrect`: `TypeOK`. A switch may fall between any two steps of a turn, so
  what a turn takes out of a package is typed by what is in force when it looks
  (`ForceTyped`), and what it has taken before by the stage it is at (`TurnTyped`):
  a graph that is linked has a decision, and is stored.

`RuleAssetsProofs`:

- `Sound` has a part per row (`RowSound`: what is approved was reviewed, what is
  packaged was published, unless raced), per package (`PackagesSound`) and per
  request (`ReqSound`: what it read passed its checks, and the rows are still
  there).
  A compilation validates what it selected, which gives `PackagesAreGood` even
  where an edit races a review.
- `PackagesWereReviewed`, `MarkedWasPackaged`, and the action property
  `FinalStaysFinal`, which is proved of every step with the invariant before it
  (`Final`).
- `TypeCorrect`: `TypeOK`. A package is of one kind, and has each asset once; a
  compilation that waits has read assets of the kind it was asked for (`ReqTyped`).

`ReviewKnowledgeProofs`:

- `Sound`: what a released pack holds was approved and is released, but for
  `raced`; what a request read was there; the last report applies the rules as
  they are. A release stamps what it read as approved, together with the pack, in
  one commit; a patch that read before it can still write (`PatchSound`), which is
  what `raced` names.
- `ReleasesAreApproved`, `PacksAreReleasedWhole`, and the action property
  `ReviewsAgree` (`Fixed`).
- `DocsSound` is about the documents and the requests that hold one: articles are
  stored of segmented documents only, and norms are extracted of stored articles
  (`DocReqSound`). A segmentation writes the status without asking what it is by
  then; once norms were extracted there are articles, and the index on them
  refuses the segmentation (`DocumentsOnlyMoveOn`: `DocumentsMoveOn`).
- `EveryTextIsReadWell`: `ReadsWell`, for every text whose lines are of the kinds
  the readers know (`IsText`). After the n-th line the clauses, with the one that is
  open, cut the lines up to the n-th at the starts among them (`Cut`, `ReadUpTo`),
  each with its own number and chapter (`LocatedUpTo`). A line goes to the last
  clause or starts one (`CutGoOn`, `CutStart`); `SegmentsRead` and `SentencesRead`
  are the inductions, over either reader. Filtering by length keeps the order and
  takes away just what is too short (`OnlyIs`, `ArticlesAre`).
  `ArticlesAreStoredWhole`: `ArticlesAreWhole`, of the articles that are stored,
  with `DocsSound`.
- `TypeCorrect`: `TypeOK`, with `Known`: a norm is stored only when an article that
  says so is stored, because an extraction collects its texts from articles that
  nobody deletes.

`AgentCatalogProofs`:

- `ToolSound`: a name that no stored tool gave has the tool that came with the
  process, or lost it; a load that read after the last change holds what is stored
  (`RegistryIsStored`: `RegistryFollowsRows`).
- `ReferenceSound`: tables only grow or change in place, an update that was begun
  cannot bring a deleted agent back, and each reference names a row that is there
  (`ReferencesAreKept`: `ReferencesHold`). These two invariants are about disjoint
  variables and are proved side by side.
- What `_normalize_runtime_policy` makes of anything fits the type (`PolicyMade`),
  and what fits it leaves alone (`PolicyStays`); `NormalisedMade`, `UpdateMade` and
  `CreatedMade` say so of whole rows. `SavedSound` carries this over the steps: a
  row is what the normalisation made of something (`Kept`) unless `raced`, an open
  update has read what is stored of its agent unless `raced`, and two open updates
  of an agent are observed. The second part is what `FinishSaved` needs, for only
  columns that differ from what was read are written. `SavedSound` rests on
  `ReferenceSound`; `RowsSound` is both.
- `TypesAreHonoured`: `TypeIsHonoured`, of every chat. `SavingIsIdempotent`: `SavedIsFixed`, by
  `SavedAgain`. `TypeCorrect`: `TypeOK`, from `RowsSound`.

### Model-checked only

`Terminates`, `ResponseEnds` and `GraphsAreServed`: liveness under fairness is out
of the prover's reach. That a chat's contract shows what is enabled is false, and
its run the counterexample. Every other property of a run is a theorem.

## Not modelled

- `_clean_messages` (`core/llm.py`): message lists are abstracted to what the
  checks read in them, so its input does not exist in the models.
- Memory and vectors: I/O around external services. Its one shared state is a
  check for a duplicate before an insert (`services/memory_service.py:106`): two
  extractions can store a sentence twice, after which `scalar_one_or_none` fails
  for that sentence for ever.
- `ontology/ontology_service.py`: the twin of the persistent service without a
  database, used by tests.
- Bootstrapping a space from a template: three releases in one database session,
  each modelled on its own.
- The HTTP client of the providers and the tools themselves: their answers are
  nondeterministic choices.
- Health, scorecard, telemetry and audit: records on which no decision of the
  modelled code depends. Users, authentication and keys: who may act is a
  constant.
- Start-up beyond the seeding of templates, tools and providers; migrations; the
  frontend; generated code.
