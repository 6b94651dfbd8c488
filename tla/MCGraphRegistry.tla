-------------------------- MODULE MCGraphRegistry --------------------------
(***************************************************************************)
(* Topologies for TLC: the one start-up writes, one from before there were *)
(* a planner and an evaluator, and what the topology editor saves, which   *)
(* has the agents and tools of the canvas for nodes.                       *)
(***************************************************************************)
EXTENDS GraphRegistry, TLC

Node(name) == [id |-> name, type |-> name]

Seed ==
  [nodes |-> {Node(n) : n \in NodeTypes}, entry |-> "context",
   edges |-> {<<"context", "task_planner">>, <<"task_planner", "agent">>,
               <<"synthesize", "agent">>},
   routes |-> {<<"agent", n>> : n \in {"handoff", "orchestrator_invoke", "tool_executor",
                                       "synthesize", "task_evaluator", End}},
   fixed |-> {<<n, "agent">> : n \in {"tool_executor", "handoff", "orchestrator_invoke"}}
               \union {<<"task_evaluator", End>>}]

Legacy ==
  [nodes |-> {Node("context"), Node("agent"), Node("tool_executor")}, entry |-> "context",
   edges |-> {<<"context", "agent">>},
   routes |-> {<<"agent", "tool_executor">>, <<"agent", End>>},
   fixed |-> {<<"tool_executor", "agent">>}]

Canvas ==
  [nodes |-> {[id |-> "agent:a1", type |-> "agent"], [id |-> "tool:search", type |-> "tool"]},
   entry |-> "context", edges |-> {<<"agent:a1", "tool:search">>}, routes |-> {}, fixed |-> {}]

Meaning == "seed" :> Seed @@ "legacy" :> Legacy @@ "canvas" :> Canvas
=============================================================================
