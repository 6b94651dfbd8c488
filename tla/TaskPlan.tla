------------------------------ MODULE TaskPlan ------------------------------
(***************************************************************************)
(* The execution ledger of the agent kernel: the plan the task planner     *)
(* builds for a request, how the graph's nodes advance it, how it gates    *)
(* tool calls, how it is evaluated and how it is reopened for a repair     *)
(* (backend/app/agents/task_runtime.py).                                   *)
(*                                                                         *)
(* Constant-level: every operator maps a plan to a plan or to a verdict.   *)
(* A step is identified with its position in the plan (the default         *)
(* provider's step ids are distinct); 0 stands for Python's None.          *)
(***************************************************************************)
EXTENDS Integers, Sequences

CONSTANTS Tools,          \* names of the registered tools
          WebSearch,      \* the tool named web_search
          OntologyTools   \* the tools whose name starts with ontology_

ASSUME ToolsAssumption == WebSearch \in Tools /\ OntologyTools \subseteq Tools

Kinds == {"realtime_research", "business_review", "engineering",
          "analysis", "workflow", "builder", "general"}

Owners == {"orchestrator", "tool", "expert"}

Terminal == {"completed", "failed", "blocked"}

StepStatus == Terminal \union {"pending", "in_progress"}

PlanStatus == {"planned", "running", "completed", "completed_with_warnings",
               "failed", "repairing"}

Step == [owner : Owners, tools : SUBSET Tools, status : StepStatus]

Plan == {p \in [steps : Seq(Step), current : Nat, status : PlanStatus] :
           p.current \in 0 .. Len(p.steps)}

-----------------------------------------------------------------------------
(* Building the plan.                                                      *)

NewStep(owner, tools) == [owner |-> owner, tools |-> tools, status |-> "pending"]

Solo == NewStep("orchestrator", {})

BaseSteps(kind, available) ==
  CASE kind = "realtime_research" ->
         <<Solo, NewStep("tool", available \intersect {WebSearch}), Solo>>
    [] kind = "business_review" ->
         <<Solo, NewStep("tool", available \intersect OntologyTools), Solo>>
    [] kind = "engineering" -> <<Solo, Solo, NewStep("tool", {})>>
    [] OTHER -> <<Solo, Solo, Solo>>

InsertDelegate(steps) ==
  <<Head(steps), NewStep("expert", {})>> \o Tail(steps)

BuildPlan(kind, available, swarm) ==
  LET base == BaseSteps(kind, available)
  IN [steps   |-> IF swarm /\ kind \in {"engineering", "analysis", "workflow"}
                  THEN InsertDelegate(base) ELSE base,
      current |-> 1,
      status  |-> "planned"]

-----------------------------------------------------------------------------
(* Advancing the plan.                                                     *)

\* The smallest element of a set of positions, 0 when there is none.
First(S) == IF S = {} THEN 0 ELSE CHOOSE i \in S : \A j \in S : i <= j

\* The first element of a sequence of positions that is not 0 (Python's a or b).
FirstSome(s) == s[First({i \in DOMAIN s : s[i] # 0})]

OpenSteps(steps) == {i \in DOMAIN steps : steps[i].status \notin Terminal}

EventStatus ==
  [agent_start |-> "in_progress", tool_start |-> "in_progress",
   handoff_start |-> "in_progress", orchestrator_invoke_start |-> "in_progress",
   agent_complete |-> "completed", tool_success |-> "completed",
   handoff_success |-> "completed", orchestrator_invoke_success |-> "completed",
   synthesize_complete |-> "completed",
   tool_blocked |-> "blocked", handoff_skipped |-> "blocked",
   orchestrator_invoke_rejected |-> "blocked",
   tool_error |-> "failed", handoff_error |-> "failed",
   orchestrator_invoke_error |-> "failed", agent_error |-> "failed"]

ToolEvents == {"tool_start", "tool_success", "tool_blocked", "tool_error"}

AgentEvents == {"agent_start", "agent_complete", "agent_error"}

DelegateEvents == DOMAIN EventStatus \ (ToolEvents \union AgentEvents)

\* An event of type t, about tool (for tool events) and naming a plan step.
Event(t, tool, step) == [type |-> t, tool |-> tool, step |-> step]

\* An event that names neither.
Plain(t) == Event(t, WebSearch, 0)

\* The step an event is about: the one it names, else the one its kind selects,
\* else the current one, else the first.
ResolveStep(p, e) ==
  LET owned(o) == First({i \in OpenSteps(p.steps) : p.steps[i].owner = o})
      named    == First({i \in DOMAIN p.steps : e.tool \in p.steps[i].tools})
      chosen   == CASE e.type \in ToolEvents ->
                         IF named # 0 THEN named ELSE owned("tool")
                    [] e.type \in DelegateEvents -> owned("expert")
                    [] OTHER -> 0
  IN FirstSome(<<e.step, chosen, p.current, 1>>)

\* Mutant: the step that follows becomes current whether it is open or not.
MoveOnBlindly(p, i) ==
  LET n == IF i < Len(p.steps) THEN i + 1 ELSE 0
  IN [p EXCEPT !.current = n, !.status = IF n = 0 THEN "completed" ELSE "running"]

\* The open step that follows step i becomes current, and starts.
MoveOn(p, i) ==
  LET n == First({j \in OpenSteps(p.steps) : j > i})
  IN [steps   |-> IF n = 0 THEN p.steps
                  ELSE [p.steps EXCEPT ![n].status = "in_progress"],
      current |-> n,
      status  |-> IF n = 0 THEN "completed" ELSE "running"]

Advance(p, e) ==
  LET i      == ResolveStep(p, e)
      status == EventStatus[e.type]
      marked == [p EXCEPT !.steps[i].status = status]
  IN IF status = "in_progress"
     THEN [marked EXCEPT !.current = i, !.status = "running"]
     ELSE MoveOn(marked, i)

-----------------------------------------------------------------------------
(* Gating a tool call by the plan.                                         *)

\* The decision of the plan for a tool: whether it may run and the step it is
\* about (0 when no step is).
ToolDecision(allowed, step) == [allowed |-> allowed, step |-> step]

ValidateTool(p, tool, requiresFacts) ==
  LET open    == First(OpenSteps(p.steps))
      cur     == FirstSome(<<p.current, open, 1>>)
      here    == p.steps[cur]
      matched == First({i \in OpenSteps(p.steps) : tool \in p.steps[i].tools})
      asked   == \E i \in DOMAIN p.steps :
                   p.steps[i].tools # {} /\ p.steps[i].status # "completed"
      fits    == tool \in here.tools \/ (here.owner = "tool" /\ here.tools = {})
      needed  == tool = WebSearch /\ requiresFacts
  IN IF fits THEN ToolDecision(TRUE, cur)
     ELSE IF matched # 0 THEN ToolDecision(TRUE, matched)
     ELSE IF needed THEN ToolDecision(TRUE, IF here.owner = "tool" THEN cur ELSE 0)
     ELSE ToolDecision(~asked, cur)

-----------------------------------------------------------------------------
(* Evaluating the task and reopening the plan.                             *)

WithStatus(p, s) == {i \in DOMAIN p.steps : p.steps[i].status = s}

\* What the task still lacks. response: some assistant text was recorded;
\* retrieved: a web_search result is on record.
Missing(p, requiresFacts, response, retrieved) ==
  {m \in {"final_response", "failed_steps_resolved", "web_search_result"} :
     CASE m = "final_response"        -> ~response
       [] m = "failed_steps_resolved" -> WithStatus(p, "failed") # {}
       [] m = "web_search_result"     -> requiresFacts /\ ~retrieved}

\* Mutant: steps nobody finished do not count against the task.
EvaluateLeniently(p, requiresFacts, response, retrieved, governed) ==
  IF Missing(p, requiresFacts, response, retrieved) # {} THEN "failed"
  ELSE IF WithStatus(p, "blocked") # {} \/ ~governed THEN "warning"
  ELSE "passed"

\* governed: the task asks for no governance trace, or has one.
Evaluate(p, requiresFacts, response, retrieved, governed) ==
  LET unmet == \E i \in DOMAIN p.steps : p.steps[i].status # "completed"
  IN IF Missing(p, requiresFacts, response, retrieved) # {} THEN "failed"
     ELSE IF unmet \/ ~governed THEN "warning"
     ELSE "passed"

Verdicts == {"passed", "warning", "failed"}

\* The evaluator stamps its verdict on the plan.
Stamp(p, verdict) ==
  [p EXCEPT !.status = CASE verdict = "passed"  -> "completed"
                         [] verdict = "warning" -> "completed_with_warnings"
                         [] OTHER               -> "failed"]

ReopenStep(p, missing) ==
  LET search  == First({i \in DOMAIN p.steps : \/ WebSearch \in p.steps[i].tools
                                               \/ p.steps[i].owner = "tool"})
      unmet   == First({i \in DOMAIN p.steps : p.steps[i].status # "completed"})
      wanted  == IF "web_search_result" \in missing THEN search ELSE 0
  IN FirstSome(<<wanted, unmet, Len(p.steps)>>)

Reopen(p, missing) ==
  LET i == ReopenStep(p, missing)
  IN [p EXCEPT !.steps[i].status = "pending", !.current = i, !.status = "repairing"]

-----------------------------------------------------------------------------
\* The plan's current step is one that is still to be done. Every node of the
\* graph reads current_step to decide what the next event is about.
CurrentOpen(p) == p.current # 0 => p.steps[p.current].status \notin Terminal
=============================================================================
