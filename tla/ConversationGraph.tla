------------------------- MODULE ConversationGraph -------------------------
(***************************************************************************)
(* One chat request run by the kernel's conversation graph                 *)
(* (backend/app/agents/graph_builder.py and agents/nodes/): the root       *)
(* orchestrator and the experts it consults take turns calling the model,  *)
(* the router sends each turn's tool calls to the node that serves them,   *)
(* the evaluator judges the result and may send the task back for repair.  *)
(*                                                                         *)
(* One action per graph node. The conditional edge that leaves a node is   *)
(* evaluated with the node (LangGraph runs both in one superstep), so      *)
(* `node` is the node that runs next. What the model, the tools and the    *)
(* database answer is chosen by \E.                                        *)
(***************************************************************************)
EXTENDS TaskPlan, FiniteSets, SequencesExt

CONSTANTS
  Root,           \* the agent the request addresses, whatever its role
  Experts,        \* agents of role expert other than Root
  SubApps,        \* agents of role orchestrator other than Root
  Canvas,         \* the tool named upsert_canvas
  None,           \* Python's None
  Tasks,          \* the requests under study, see Task
  MaxIterations,  \* settings.MAX_AGENT_ITERATIONS
  MaxRepairs,     \* the request's max_task_repairs, clamped to 0 .. 3
  MaxCalls        \* bound: tool calls in one turn of the model

ASSUME AgentsAssumption ==
  /\ Root \notin Experts \union SubApps
  /\ Experts \intersect SubApps = {}
  /\ None \notin Experts \union SubApps \union {Root}

ASSUME LimitsAssumption ==
  MaxIterations \in Nat \ {0} /\ MaxRepairs \in 0 .. 3 /\ MaxCalls \in Nat

ASSUME CanvasAssumption == Canvas \in Tools \ (OntologyTools \union {WebSearch})

Agents == {Root} \union Experts \union SubApps

\* A request: how it is classified, whether it reads like a query about current
\* facts, whether it wants a governance trace, whether the business-review lock
\* is on, whether agents may delegate, whether the agent it addresses has the
\* role expert (nothing checks that it is an orchestrator), and the tools that the
\* root's runtime policy and the application's binding permit.
Task == [kind : Kinds, realtime : BOOLEAN, governance : BOOLEAN, lock : BOOLEAN,
         swarm : BOOLEAN, expertRoot : BOOLEAN,
         policyTools : SUBSET Tools, appTools : SUBSET Tools]

\* A business review always wants a governance trace.
ASSUME TasksAssumption ==
  /\ Tasks \subseteq Task
  /\ \A t \in Tasks : t.kind = "business_review" => t.governance

VARIABLES
  node,          \* the graph node that runs next
  task,          \* the request (constant)
  plan,          \* execution_plan
  cur,           \* current_agent_id
  own,           \* current_agent_profile is the one the request began with, and
                 \* not one that a handoff built
  called,        \* called_expert_ids
  wrapping,      \* wrapping_expert_id
  openTags,      \* collaboration tags opened and not closed in the answer
  pending,       \* pending_tool_calls
  iter,          \* iteration_count
  repairs,       \* task_repair_count
  verdict,       \* task_evaluation's status
  content,       \* what total_assistant_content holds: "none", "tags", "text"
  evidence,      \* what the messages and the artifacts show, see Evidence
  refused        \* observer: agents there to serve that the last turn's calls
                 \* asked for and that did not get the floor

vars == <<node, task, plan, cur, own, called, wrapping, openTags, pending, iter,
          repairs, verdict, content, evidence, refused>>

\* searched: a message named web_search is there; fresh: one is there since the
\* latest user message; retrieved: a search did succeed; traced: a message
\* mentions the ontology runtime.
Evidence == [searched : BOOLEAN, fresh : BOOLEAN, retrieved : BOOLEAN, traced : BOOLEAN]

Nodes == {"context", "task_planner", "agent", "tool_executor", "handoff",
          "orchestrator_invoke", "synthesize", "task_evaluator", "END", "failed"}

Running == node \notin {"END", "failed"}

\* Bound on iter: one above what the router and the evaluator can let happen.
IterationCap == MaxIterations + MaxRepairs + 2

Call == [kind : {"tool"}, target : Tools]
          \union [kind : {"transfer"}, target : Experts \union {Root}]
          \union [kind : {"invoke"}, target : SubApps \union {Root}]

RequiresFacts == task.kind = "realtime_research"

TypeOK ==
  /\ node \in Nodes
  /\ task \in Tasks
  /\ plan \in Plan \/ plan = None
  /\ cur \in Agents
  /\ own \in BOOLEAN
  /\ called \in Seq(Agents)
  /\ wrapping \in Experts \union {Root, None}
  /\ openTags \in Nat
  /\ pending \in Seq(Call) /\ Len(pending) <= MaxCalls
  /\ iter \in 0 .. IterationCap
  /\ repairs \in 0 .. MaxRepairs
  /\ verdict \in Verdicts \union {"none"}
  /\ content \in {"none", "tags", "text"}
  /\ evidence \in Evidence
  /\ refused \subseteq Agents

Init ==
  /\ node = "context"
  /\ task \in Tasks
  /\ plan = None
  /\ cur = Root
  /\ own = TRUE
  /\ called = <<>>
  /\ wrapping = None
  /\ openTags = 0
  /\ pending = <<>>
  /\ iter = 0
  /\ repairs = 0
  /\ verdict = "none"
  /\ content = "none"
  \* the prompt or the query may already speak of the ontology runtime
  /\ evidence \in {e \in Evidence : /\ ~e.searched /\ ~e.fresh /\ ~e.retrieved
                                    /\ e.traced => task.governance}
  /\ refused = {}

-----------------------------------------------------------------------------
(* The entry: context restores or builds the messages, the planner the plan. *)

Context ==
  /\ node = "context"
  /\ node' = "task_planner"
  /\ UNCHANGED <<task, plan, cur, own, called, wrapping, openTags, pending, iter,
                 repairs, verdict, content, evidence, refused>>

Planner ==
  /\ node = "task_planner"
  /\ node' = "agent"
  /\ plan' = BuildPlan(task.kind, task.appTools, task.swarm)
  /\ UNCHANGED <<task, cur, own, called, wrapping, openTags, pending, iter,
                 repairs, verdict, content, evidence, refused>>

-----------------------------------------------------------------------------
(* The agent node and the router.                                          *)

\* The agents of role expert, the root among them if that is its role.
ExpertAgents == IF task.expertRoot THEN Experts \union {Root} ELSE Experts

IsExpert == cur \in ExpertAgents

\* A runtime policy comes with the profile of the request only: the profiles that
\* a handoff builds have none, and permit every tool.
PolicyAllows(tool) == ~own \/ tool \in task.policyTools

\* Mutant: the list offered to the model is not filtered by the application.
OfferedUnbound == IF task.lock THEN {} ELSE {t \in Tools : PolicyAllows(t) \/ t = Canvas}

\* The registered tools offered to the model. The canvas is put back after the
\* policy filtered the list.
Offered ==
  IF task.lock THEN {}
  ELSE {t \in task.appTools : PolicyAllows(t) \/ t = Canvas}

\* The calls the model can make: any it can name as soon as one is offered.
Callable ==
  IF task.lock \/ (Offered = {} /\ ~task.swarm) THEN {<<>>}
  ELSE BoundedSeq(Call, MaxCalls)

\* Mutant: the iteration limit ends the request whoever speaks.
RouteCutsShort(a, calls, n) ==
  LET asks(kind) == \E i \in DOMAIN calls : calls[i].kind = kind
  IN IF n >= MaxIterations THEN "task_evaluator"
     ELSE IF asks("invoke") THEN "orchestrator_invoke"
     ELSE IF asks("transfer") THEN "handoff"
     ELSE IF asks("tool") THEN "tool_executor"
     ELSE IF a # Root THEN "synthesize"
     ELSE "task_evaluator"

\* Where the router sends the n-th turn of agent a, which ends with calls.
Route(a, calls, n) ==
  LET asks(kind) == n < MaxIterations /\ \E i \in DOMAIN calls : calls[i].kind = kind
  IN IF asks("invoke") THEN "orchestrator_invoke"
     ELSE IF asks("transfer") THEN "handoff"
     ELSE IF asks("tool") THEN "tool_executor"
     ELSE IF a # Root THEN "synthesize"
     ELSE "task_evaluator"

\* Mutant: only the root's turns are counted.
CountedForRoot == IF cur = Root THEN Min({iter + 1, IterationCap}) ELSE iter

\* The number of the turn.
Counted == Min({iter + 1, IterationCap})

\* The search the node makes on its own, before it asks the model.
Prefetches ==
  /\ task.realtime /\ WebSearch \in Offered
  /\ ~evidence.fresh

Prefetch(found) ==
  evidence' = IF Prefetches /\ found
              THEN [evidence EXCEPT !.searched = TRUE, !.fresh = TRUE, !.retrieved = TRUE]
              ELSE evidence

\* The collaboration tag: an expert's turn opens it unless it is open. The
\* arguments of a canvas call close it as they stream in (echo); text after them
\* opens it again.
EndsWrapped(echo, text) ==
  IF echo THEN IF IsExpert /\ text = "after" THEN cur ELSE None
  ELSE IF IsExpert /\ wrapping = None THEN cur
  ELSE wrapping

AnswerContent(text) ==
  IF text # "none" THEN "text"
  ELSE IF IsExpert /\ content = "none" THEN "tags"
  ELSE content

\* One turn: the model streams text (the mirrored canvas counts as text before)
\* and calls, or fails on the way.
Turn(calls, text, echo, failed) ==
  LET opens   == IF IsExpert /\ wrapping = None THEN openTags + 1 ELSE openTags
      closes  == IF echo /\ (IsExpert \/ wrapping # None) THEN 1 ELSE 0
      reopens == IF echo /\ IsExpert /\ text = "after" THEN 1 ELSE 0
  IN /\ echo => \E i \in DOMAIN calls : calls[i] = [kind |-> "tool", target |-> Canvas]
     /\ text = "after" => echo
     /\ pending' = calls
     /\ iter' = Counted
     /\ plan' = Advance(Advance(plan, Plain("agent_start")),
                        Plain(IF failed THEN "agent_error" ELSE "agent_complete"))
     /\ wrapping' = EndsWrapped(echo, text)
     /\ openTags' = opens - closes + reopens
     /\ content' = AnswerContent(text)
     /\ node' = Route(cur, calls, Counted)

Agent ==
  /\ node = "agent"
  /\ \E found \in BOOLEAN : Prefetch(found)
  /\ \E calls \in Callable, text \in {"none", "before", "after"},
        echo \in BOOLEAN, failed \in BOOLEAN : Turn(calls, text, echo, failed)
  /\ refused' = {}
  /\ UNCHANGED <<task, cur, own, called, repairs, verdict>>

-----------------------------------------------------------------------------
(* The tool executor: every call of the turn, in order.                    *)

\* The ledger and the evidence after a call of tool that ends with outcome.
RunTool(acc, tool, outcome) ==
  LET d       == ValidateTool(acc.plan, tool, RequiresFacts)
      allowed == d.allowed /\ PolicyAllows(tool) /\ tool \in task.appTools
      started == Advance(acc.plan, Event("tool_start", tool, d.step))
      done    == IF ~allowed THEN "tool_blocked" ELSE outcome
      search  == tool = WebSearch
  IN [plan     |-> Advance(started, Event(done, tool, d.step)),
      evidence |-> [searched  |-> acc.evidence.searched \/ search,
                    fresh     |-> acc.evidence.fresh \/ search,
                    retrieved |-> acc.evidence.retrieved \/ (search /\ done = "tool_success"),
                    traced    |-> acc.evidence.traced \/ tool \in OntologyTools]]

\* The same after all the calls of the turn, the n-th with the n-th outcome.
Ran(outcome) ==
  LET ran[n \in 0 .. Len(pending)] ==
        IF n = 0 THEN [plan |-> plan, evidence |-> evidence]
        ELSE RunTool(ran[n - 1], pending[n].target, outcome[n])
  IN ran[Len(pending)]

ToolExecutor ==
  /\ node = "tool_executor"
  /\ \E outcome \in [DOMAIN pending -> {"tool_success", "tool_error"}] :
       plan' = Ran(outcome).plan /\ evidence' = Ran(outcome).evidence
  /\ node' = "agent"
  /\ UNCHANGED <<task, cur, own, called, wrapping, openTags, pending, iter, repairs,
                 verdict, content, refused>>

-----------------------------------------------------------------------------
(* Handing the floor over.                                                 *)

\* swarm_service.handle_handoff: the target's profile, when it is there (exists,
\* is active) and its role is expert.
HandleHandoff(target, there) == IF there /\ target \in ExpertAgents THEN target ELSE None

\* What a transfer or an invocation changes: the ledger, the speaker, the agents
\* consulted. A call names its target or does not, the target is there or not, and
\* the delegation policy lets an invocation's task be delegated or does not.
TransferFate == {"served", "unnamed", "absent"}

InvokeFate == TransferFate \union {"denied"}

\* Mutant: the agent is not recorded as consulted.
TookUnrecorded(acc, agent, event) ==
  [acc EXCEPT !.plan = Advance(@, Plain(event)), !.cur = agent, !.own = FALSE]

Took(acc, agent, event) ==
  [acc EXCEPT !.plan = Advance(@, Plain(event)), !.cur = agent, !.own = FALSE,
              !.called = Append(@, agent)]

Kept(acc, event) == [acc EXCEPT !.plan = Advance(@, Plain(event))]

\* Mutant: a transfer does not look at who was consulted.
TransferAgain(acc, target, fate) ==
  LET started == Kept(acc, "handoff_start")
      expert  == HandleHandoff(target, fate = "served")
  IN IF fate = "unnamed" THEN Kept(started, "handoff_skipped")
     ELSE IF expert # None THEN Took(started, expert, "handoff_success")
     ELSE Kept(started, "handoff_error")

Transfer(acc, target, fate) ==
  LET started == Kept(acc, "handoff_start")
      expert  == HandleHandoff(target, fate = "served")
  IN IF fate = "unnamed" \/ target \in Range(acc.called)
     THEN Kept(started, "handoff_skipped")
     ELSE IF expert # None
     THEN Took(started, expert, "handoff_success")
     ELSE [Kept(started, "handoff_error")
             EXCEPT !.refused = IF fate = "served" THEN @ \union {target} ELSE @]

Invoke(acc, target, fate) ==
  LET started  == Kept(acc, "orchestrator_invoke_start")
      app      == HandleHandoff(target, fate = "served")
      rejected == \/ fate = "unnamed" \/ target = acc.cur
                  \/ target = Root /\ cur # Root
                  \/ target \in Range(acc.called)
                  \/ fate = "denied"
  IN IF rejected THEN Kept(started, "orchestrator_invoke_rejected")
     ELSE IF app \in SubApps
     THEN Took(started, app, "orchestrator_invoke_success")
     ELSE [Kept(started, "orchestrator_invoke_error")
             EXCEPT !.refused = IF fate = "served" THEN @ \union {target} ELSE @]

\* The calls of the turn that are of this kind.
Of(kind) == {i \in DOMAIN pending : pending[i].kind = kind}

Floor == [plan |-> plan, cur |-> cur, own |-> own, called |-> called, refused |-> refused]

\* The floor after the n-th call, if it is one of those that the node serves.
Serve(floor, kind, n, fate) ==
  IF n \notin Of(kind) THEN floor
  ELSE IF kind = "transfer" THEN Transfer(floor, pending[n].target, fate[n])
  ELSE Invoke(floor, pending[n].target, fate[n])

\* The floor after the turn's calls, those of this kind served in order.
Served(kind, fate) ==
  LET floor[n \in 0 .. Len(pending)] ==
        IF n = 0 THEN Floor ELSE Serve(floor[n - 1], kind, n, fate)
  IN floor[Len(pending)]

HandOver(floor) ==
  /\ plan' = floor.plan /\ cur' = floor.cur /\ own' = floor.own
  /\ called' = floor.called /\ refused' = floor.refused
  /\ pending' = <<>>
  /\ node' = "agent"
  /\ UNCHANGED <<task, wrapping, openTags, iter, repairs, verdict, content, evidence>>

Handoff ==
  /\ node = "handoff"
  /\ \E fate \in [Of("transfer") -> TransferFate] : HandOver(Served("transfer", fate))

OrchestratorInvoke ==
  /\ node = "orchestrator_invoke"
  /\ \E fate \in [Of("invoke") -> InvokeFate] : HandOver(Served("invoke", fate))

\* Mutant: the expert's tag is forgotten, not closed.
SynthesizeUnclosed ==
  /\ node = "synthesize"
  /\ plan' = Advance(plan, Plain("synthesize_complete"))
  /\ wrapping' = None
  /\ cur' = Root /\ own' = TRUE
  /\ pending' = <<>>
  /\ node' = "agent"
  /\ UNCHANGED <<task, called, openTags, iter, repairs, verdict, content, evidence,
                 refused>>

Synthesize ==
  /\ node = "synthesize"
  /\ plan' = Advance(plan, Plain("synthesize_complete"))
  /\ openTags' = IF wrapping = None THEN openTags ELSE openTags - 1
  /\ wrapping' = None
  /\ cur' = Root /\ own' = TRUE
  /\ pending' = <<>>
  /\ node' = "agent"
  /\ UNCHANGED <<task, called, iter, repairs, verdict, content, evidence, refused>>

-----------------------------------------------------------------------------
(* The evaluator and the end.                                              *)

ShouldRepair(v) == v = "failed" /\ repairs < MaxRepairs

TaskEvaluator ==
  /\ node = "task_evaluator"
  /\ LET response == content # "none"
         missing  == Missing(plan, RequiresFacts, response, evidence.searched)
         v        == Evaluate(plan, RequiresFacts, response, evidence.searched,
                              task.governance => evidence.traced)
         stamped  == Stamp(plan, v)
     IN /\ verdict' = v
        /\ IF ShouldRepair(v)
           THEN /\ plan' = Reopen(stamped, missing)
                /\ repairs' = repairs + 1
                \* the repair request is a user message
                /\ evidence' = [evidence EXCEPT !.fresh = FALSE]
                /\ node' = "agent"
           ELSE /\ plan' = stamped
                /\ node' = "END"
                /\ UNCHANGED <<repairs, evidence>>
  /\ UNCHANGED <<task, cur, own, called, wrapping, openTags, pending, iter, content, refused>>

\* A node raises: the telemetry wrapper re-raises and the run of the graph ends.
Crash ==
  /\ Running
  /\ node' = "failed"
  /\ UNCHANGED <<task, plan, cur, own, called, wrapping, openTags, pending, iter,
                 repairs, verdict, content, evidence, refused>>

Next == \/ Context \/ Planner \/ Agent \/ ToolExecutor \/ Handoff
        \/ OrchestratorInvoke \/ Synthesize \/ TaskEvaluator \/ Crash

\* Every step of the graph leaves the node it ran.
Moves == Running /\ node' \in Nodes \ {node}

\* The event loop runs the graph's task to its end; the model, the tools and the
\* database answer or raise. (A step of Next is one that moves, so this is
\* WF_vars(Next), in the form TLC evaluates without trying every turn.)
Spec == Init /\ [][Next]_vars /\ WF_node(Moves)

-----------------------------------------------------------------------------
(* Properties.                                                             *)

\* A collaboration tag is open in the streamed answer exactly when an expert is
\* being wrapped, whatever the mix of handoffs, canvas calls and failed turns.
TagsBalanced == openTags = IF wrapping = None THEN 0 ELSE 1

\* The request ends with the root's turn, although the router may leave another
\* agent's turn on every path (handback refused, iteration limit, failed call), and
\* an orchestrator's answer never stands inside an open collaboration tag: only
\* an agent of role expert that is the root itself, which the router sends to the
\* evaluator and not to synthesize, leaves one open.
RootHasLastWord ==
  node \in {"task_evaluator", "END"} =>
    cur = Root /\ (wrapping # None => task.expertRoot)

\* An agent consulted twice in one request is what called_expert_ids is to rule
\* out, also when one turn names the same expert twice or a repair asks again.
ConsultedOnce == IsInjective(called)

\* The speaker is the root with the request's own profile, or the agent consulted
\* last with the profile its handoff built: a policy is never left behind, nor
\* brought along.
SpeakerWasCalled ==
  IF own THEN cur = Root ELSE called # <<>> /\ Last(called) = cur

\* The ledger's current step is one that is still to be done, so no node marks
\* progress on a step that a call of another agent finished or blocked.
CurrentStepOpen == plan # None => CurrentOpen(plan)

\* A request ends as failed only after every repair it was granted was made. One
\* that ends as completed has every step done and something in its answer, at
\* least the tags of an expert that was consulted or addressed; if it needs
\* facts, a message of web_search is on record, be it that of a search that failed
\* or was blocked (task_runtime.py:692-728 asks for no more).
EndIsEarned ==
  node = "END" =>
    /\ verdict = "failed" => repairs = MaxRepairs
    /\ plan.status = "completed" =>
         /\ \A i \in DOMAIN plan.steps : plan.steps[i].status = "completed"
         /\ content # "none"
         /\ content = "tags" => called # <<>> \/ task.expertRoot
         /\ RequiresFacts => evidence.searched
    /\ plan.status \in {"completed", "completed_with_warnings", "failed"}

\* No search gets through that the application is not bound to, neither called
\* by the model nor made by the agent node on its own, which asks no executor.
SearchIsBound == evidence.retrieved => WebSearch \in task.appTools

\* Every request ends: it is evaluated for good, or a node raised.
Terminates == <>(~Running)

\* The graph passes the floor as Delegation promises.
D == INSTANCE Delegation WITH experts <- ExpertAgents, holder <- cur,
                              consulted <- Range(called), closed <- node = "END"
ImplementsDelegation == D!Spec

-----------------------------------------------------------------------------
(* What the repository says of the graph and the code does not do.         *)

\* orchestrator_invoke.py:4 says the node switches to the target application: one
\* that is there and that the policy approves gets the floor.
SubAppServed == refused \intersect SubApps = {}

\* task_runtime.py:728 passes a task that needs facts on "web_search result
\* available": a search did return one.
FactsRetrieved ==
  node = "END" /\ RequiresFacts /\ verdict # "failed" => evidence.retrieved
=============================================================================
