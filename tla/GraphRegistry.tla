--------------------------- MODULE GraphRegistry ---------------------------
(***************************************************************************)
(* Which graph a conversation runs on (agents/graph_registry.py and the    *)
(* version endpoints of api/endpoints/graph.py): topologies are stored as  *)
(* base templates and as versions of them, of which one is active; a       *)
(* request compiles the active one, gives it the checkpointer that one     *)
(* lock sets up for the whole process, and caches it. The steps of a       *)
(* request are what runs between two awaits; the rows of graph_topology_   *)
(* versions follow PostgreSQL's READ COMMITTED.                            *)
(***************************************************************************)
EXTENDS Naturals, FiniteSets, SequencesExt

CONSTANTS
  Templates,   \* ids of templates
  Standard,    \* the template that start-up writes
  Shipped,     \* the topology that start-up gives it
  BuiltIn,     \* the topology written out in graph_builder.py
  Topologies,  \* what users store
  Says,        \* per topology, its nodes and edges
  Tasks,       \* requests that may be served at the same time
  None,        \* no row, no graph
  MaxRequests, MaxVersions, MaxRestarts  \* bounds on a behaviour

ASSUME RegistryAssumption ==
  /\ Standard \in Templates
  /\ None \notin Topologies \union {Shipped}

VARIABLES
  base,      \* the rows of graph_templates
  versions,  \* the committed rows of graph_topology_versions, by id
  cache,     \* _compiled_cache: per template, the compiled graph
  default,   \* _compiled_graph: the built-in graph, compiled
  saver,     \* _saver_instance: whether the PostgreSQL checkpointer is set up
  lock,      \* _init_lock: the task that holds it, then those that wait for it
  task,      \* per task, the request it serves
  requests, restarts,
  doubled,   \* observer: templates whose last activation missed a version saved meanwhile
  outdated   \* observer: templates whose cache an invalidation missed

vars == <<base, versions, cache, default, saver, lock, task, requests, restarts,
          doubled, outdated>>

-----------------------------------------------------------------------------
(* Topologies: nodes with their types, plain edges, edges out of a router, *)
(* edges that always go one way, and the node to start from.               *)

End == "__end__"
NodeTypes == {"context", "task_planner", "task_evaluator", "agent", "tool_executor",
              "handoff", "orchestrator_invoke", "synthesize"}

Has(topology, kind) == \E n \in topology.nodes : kind \in {n.id, n.type}
Ids(topology) == {n.id : n \in topology.nodes}

\* A stored topology gets the planner between context and agent ...
Planned(t) ==
  IF {"context", "agent"} \subseteq Ids(t) /\ ~Has(t, "task_planner")
  THEN [t EXCEPT
          !.nodes = @ \union {[id |-> "task_planner", type |-> "task_planner"]},
          !.edges = (@ \ {<<"context", "agent">>})
                      \union {<<"context", "task_planner">>, <<"task_planner", "agent">>}]
  ELSE t

\* ... and the evaluator at the end, where every router can go.
Evaluated(t) ==
  [t EXCEPT
     !.nodes = IF Has(t, "task_evaluator") THEN @
               ELSE @ \union {[id |-> "task_evaluator", type |-> "task_evaluator"]},
     !.edges = {e \in @ : e[1] # "task_evaluator"},
     !.fixed = IF \E e \in @ \union t.routes : e[1] = "task_evaluator" THEN @
               ELSE @ \union {<<"task_evaluator", End>>},
     !.routes = @ \union {<<e[1], "task_evaluator">> : e \in @}]

Normalised(t) == Evaluated(Planned(t))

\* What the builder adds: nodes of a known type; from the evaluator, the way back
\* to the agent besides the end. The graph library wants every end of an edge to
\* be a node, and no node twice.
Compiles(t) ==
  LET kept == {n \in t.nodes : n.type \in NodeTypes}
      ids == {n.id : n \in kept}
      always == t.edges \union t.routes
                  \union {e \in t.fixed : e[1] # "task_evaluator"}
                  \union (IF \E e \in t.fixed : e[1] = "task_evaluator"
                          THEN {<<"task_evaluator", "agent">>} ELSE {})
  IN /\ Cardinality(ids) = Cardinality(kept)
     /\ t.entry \in ids
     /\ \A e \in always : e[1] \in ids /\ e[2] \in ids \union {End}

Runs(topology) == Compiles(Normalised(Says[topology]))

-----------------------------------------------------------------------------
Idle == [op |-> "idle"]
Graph(topology, kind) == [topology |-> topology, saver |-> kind]

VersionsOf(t) == {v \in DOMAIN versions : versions[v].template = t}
ActiveOf(t) == {v \in VersionsOf(t) : versions[v].active}

\* What a request that reads the rows of a template now would compile.
Current(t) ==
  LET active == ActiveOf(t)
  IN IF active = {} THEN base[t]
     ELSE IF Cardinality(active) = 1 THEN versions[CHOOSE v \in active : TRUE].topology
     ELSE None

\* The process comes up: the checkpointer and the standard template are tried
\* once, before any request is served.
Init ==
  /\ base \in {[t \in Templates |-> IF t = Standard THEN row ELSE None] : row \in {Shipped, None}}
  /\ versions = <<>>
  /\ cache = [t \in Templates |-> None]
  /\ default = None
  /\ saver \in BOOLEAN
  /\ lock = <<>>
  /\ task = [r \in Tasks |-> Idle]
  /\ requests = 0 /\ restarts = 0
  /\ doubled = {} /\ outdated = {}

Begin(r, request) ==
  /\ task[r] = Idle
  /\ requests < MaxRequests
  /\ task' = [task EXCEPT ![r] = request]
  /\ requests' = requests + 1

Serving(r, op, at) == task[r].op = op /\ task[r].at = at
At(r, at) == task[r].op = "get" /\ task[r].at = at

-----------------------------------------------------------------------------
(* get_compiled_graph. A cached graph is returned at once, which changes   *)
(* nothing; what follows is the other case.                                *)

Get(t) == [op |-> "get", template |-> t, at |-> "versions", want |-> None, late |-> FALSE]

GetGraph(r, t) ==
  /\ cache[t] = None
  /\ Begin(r, Get(t))
  /\ UNCHANGED <<base, versions, cache, default, saver, lock, restarts, doubled, outdated>>

\* /templates/{id}/compile: drop the cached graph and ask for it again.
CompileTemplate(r, t) ==
  /\ Begin(r, Get(t))
  /\ cache' = [cache EXCEPT ![t] = None]
  /\ outdated' = outdated \ {t}
  /\ UNCHANGED <<base, versions, default, saver, lock, restarts, doubled>>

\* The graph that the request compiles; a compiled built-in graph is there already.
Wants(r, topology) ==
  /\ task' = [task EXCEPT ![r] = IF topology = BuiltIn /\ default # None THEN Idle
                                 ELSE [@ EXCEPT !.at = "saver", !.want = topology]]
  /\ UNCHANGED <<base, versions, cache, default, saver, lock, requests, restarts,
                 doubled, outdated>>

\* The active version; two of them are an error, which leads to the built-in graph.
SelectVersion(r) ==
  /\ At(r, "versions")
  /\ LET active == ActiveOf(task[r].template)
     IN \/ /\ Cardinality(active) = 1
           /\ \E v \in active : Wants(r, versions[v].topology)
        \/ /\ Cardinality(active) > 1
           /\ Wants(r, BuiltIn)
        \/ /\ active = {}
           /\ task' = [task EXCEPT ![r].at = "base"]
           /\ UNCHANGED <<base, versions, cache, default, saver, lock, requests,
                          restarts, doubled, outdated>>

SelectBase(r) ==
  /\ At(r, "base")
  /\ LET row == base[task[r].template] IN Wants(r, IF row = None THEN BuiltIn ELSE row)

\* The tables cannot be read.
StorageFails(r) ==
  /\ At(r, "versions") \/ At(r, "base")
  /\ Wants(r, BuiltIn)

\* The checkpointer is at hand: compile and keep the graph. A topology that does
\* not compile fails the request.
Finish(r, kind) ==
  LET want == task[r].want
      t == task[r].template
  IN /\ task' = [task EXCEPT ![r] = Idle]
     /\ IF want = BuiltIn
        THEN default' = Graph(BuiltIn, kind) /\ UNCHANGED <<cache, outdated>>
        ELSE /\ cache' = IF Runs(want)
                         THEN [cache EXCEPT ![t] = Graph(want, kind)] ELSE cache
             /\ outdated' = IF cache' = cache THEN outdated
                            ELSE IF task[r].late THEN outdated \union {t} ELSE outdated \ {t}
             /\ UNCHANGED default
     /\ UNCHANGED <<base, versions, requests, restarts, doubled>>

\* create_pg_checkpointer: ready, or set up by the task that gets the lock.
SaverReady(r) ==
  /\ At(r, "saver")
  /\ saver
  /\ Finish(r, "postgres")
  /\ UNCHANGED <<saver, lock>>

EnterLock(r) ==
  /\ At(r, "saver")
  /\ ~saver
  /\ lock' = Append(lock, r)
  /\ task' = [task EXCEPT ![r].at = IF lock = <<>> THEN "setup" ELSE "queued"]
  /\ UNCHANGED <<base, versions, cache, default, saver, requests, restarts, doubled, outdated>>

\* Mutant: a failed setup does not give the lock back.
SetupKeepsLock(r) ==
  /\ At(r, "setup")
  /\ Head(lock) = r
  /\ Finish(r, "memory")
  /\ UNCHANGED <<saver, lock>>

LeaveLock(r) == Head(lock) = r /\ lock' = Tail(lock)

\* Mutant: whoever has waited for the lock does not look again.
WokenUnchecked(r) ==
  /\ At(r, "queued")
  /\ Head(lock) = r
  /\ task' = [task EXCEPT ![r].at = "setup"]
  /\ UNCHANGED <<base, versions, cache, default, saver, lock, requests, restarts,
                 doubled, outdated>>

\* The lock is its, and the checkpointer is there by now, or not.
Woken(r) ==
  /\ At(r, "queued")
  /\ Head(lock) = r
  /\ \/ saver /\ LeaveLock(r) /\ Finish(r, "postgres") /\ UNCHANGED saver
     \/ /\ ~saver
        /\ task' = [task EXCEPT ![r].at = "setup"]
        /\ UNCHANGED <<base, versions, cache, default, saver, lock, requests, restarts,
                       doubled, outdated>>

SetupSucceeds(r) ==
  /\ At(r, "setup")
  /\ LeaveLock(r)
  /\ saver' = TRUE
  /\ Finish(r, "postgres")

\* An error, or 30 seconds have passed: this graph keeps its state in memory.
SetupFails(r) ==
  /\ At(r, "setup")
  /\ LeaveLock(r)
  /\ Finish(r, "memory")
  /\ UNCHANGED saver

-----------------------------------------------------------------------------
(* Templates and versions. The bulk update that deactivates the versions   *)
(* of a template sees the rows committed when it starts, and waits for     *)
(* the ones another transaction holds.                                     *)

CreateTemplate(r, t, topology) ==
  /\ base[t] = None
  /\ task[r] = Idle
  /\ requests < MaxRequests
  /\ requests' = requests + 1
  /\ base' = [base EXCEPT ![t] = topology]
  /\ UNCHANGED <<versions, cache, default, saver, lock, task, restarts, doubled, outdated>>

\* A version saved as inactive is an insert and nothing else.
SaveVersion(r, t, topology, active) ==
  /\ base[t] # None
  /\ Len(versions) < MaxVersions
  /\ Begin(r, [op |-> "write", template |-> t, id |-> None,
               row |-> [template |-> t, topology |-> topology, active |-> active],
               at |-> IF active THEN "update" ELSE "commit",
               sees |-> IF active THEN VersionsOf(t) ELSE {},
               began |-> Len(versions), missed |-> FALSE])
  /\ UNCHANGED <<base, versions, cache, default, saver, lock, restarts, doubled, outdated>>

\* Mutant: only the version that is active now is deactivated.
ActivateInPlace(r, v) ==
  /\ v \in DOMAIN versions
  /\ LET t == versions[v].template
     IN Begin(r, [op |-> "write", template |-> t, id |-> v,
                  row |-> [versions[v] EXCEPT !.active = TRUE], at |-> "update",
                  sees |-> ActiveOf(t) \union {v}, began |-> Len(versions), missed |-> FALSE])
  /\ UNCHANGED <<base, versions, cache, default, saver, lock, restarts, doubled, outdated>>

ActivateVersion(r, v) ==
  /\ v \in DOMAIN versions
  /\ LET t == versions[v].template
     IN Begin(r, [op |-> "write", template |-> t, id |-> v,
                  row |-> [versions[v] EXCEPT !.active = TRUE], at |-> "update",
                  sees |-> VersionsOf(t), began |-> Len(versions), missed |-> FALSE])
  /\ UNCHANGED <<base, versions, cache, default, saver, lock, restarts, doubled, outdated>>

\* The rows that a transaction has updated and not committed.
Held(r) == IF Serving(r, "write", "commit") THEN task[r].sees ELSE {}

Deactivate(r) ==
  /\ Serving(r, "write", "update")
  /\ \A o \in Tasks : Held(o) \intersect task[r].sees = {}
  /\ task' = [task EXCEPT ![r].at = "commit"]
  /\ UNCHANGED <<base, versions, cache, default, saver, lock, requests, restarts,
                 doubled, outdated>>

\* The rows as the transaction leaves them.
Written(w) ==
  LET off == [v \in DOMAIN versions |-> IF v \in w.sees THEN [versions[v] EXCEPT !.active = FALSE]
                                        ELSE versions[v]]
  IN IF w.id = None THEN Append(off, w.row) ELSE [off EXCEPT ![w.id] = w.row]

\* What the others do not know of a change of t: requests that have read what was
\* active before, and transactions whose update began before row v was there.
Told(o, t, v) ==
  IF task[o] = Idle \/ task[o].template # t THEN task[o]
  ELSE IF task[o].op = "get"
       THEN [task[o] EXCEPT !.late = @ \/ task[o].at # "versions"]
       ELSE [task[o] EXCEPT !.missed = @ \/ (task[o].at # "invalidate" /\ v > task[o].began)]

Commit(r) ==
  LET w == task[r]
      t == w.template
  IN /\ Serving(r, "write", "commit")
     /\ w.id = None => Len(versions) < MaxVersions
     /\ versions' = Written(w)
     /\ IF w.row.active
        THEN /\ LET id == IF w.id = None THEN Len(versions') ELSE w.id
                IN task' = [o \in Tasks |-> IF o = r THEN [w EXCEPT !.at = "invalidate"]
                                            ELSE Told(o, t, id)]
             /\ doubled' = IF w.missed THEN doubled \union {t} ELSE doubled \ {t}
        ELSE task' = [task EXCEPT ![r] = Idle] /\ UNCHANGED doubled
     /\ UNCHANGED <<base, cache, default, saver, lock, requests, restarts, outdated>>

\* Mutant: the template is always the standard one.
InvalidateStandard(r) ==
  /\ Serving(r, "write", "invalidate")
  /\ cache' = [cache EXCEPT ![Standard] = None]
  /\ outdated' = outdated \ {task[r].template}
  /\ task' = [task EXCEPT ![r] = Idle]
  /\ UNCHANGED <<base, versions, default, saver, lock, requests, restarts, doubled>>

Invalidate(r) ==
  /\ Serving(r, "write", "invalidate")
  /\ cache' = [cache EXCEPT ![task[r].template] = None]
  /\ outdated' = outdated \ {task[r].template}
  /\ task' = [task EXCEPT ![r] = Idle]
  /\ UNCHANGED <<base, versions, default, saver, lock, requests, restarts, doubled>>

\* The answer to the commit, or the refresh that follows it, fails: what is
\* committed stays, and the cache is not told.
LostAfterCommit(r) ==
  /\ Serving(r, "write", "invalidate")
  /\ task' = [task EXCEPT ![r] = Idle]
  /\ outdated' = outdated \union {task[r].template}
  /\ UNCHANGED <<base, versions, cache, default, saver, lock, requests, restarts, doubled>>

\* A database error before the commit, a deadlock among them: rolled back.
WriteFails(r) ==
  /\ Serving(r, "write", "update") \/ Serving(r, "write", "commit")
  /\ task' = [task EXCEPT ![r] = Idle]
  /\ UNCHANGED <<base, versions, cache, default, saver, lock, requests, restarts,
                 doubled, outdated>>

-----------------------------------------------------------------------------
\* The process dies with everything it holds and starts again; start-up writes
\* the standard template, unless the database refuses.
Restart ==
  /\ restarts < MaxRestarts
  /\ restarts' = restarts + 1
  /\ cache' = [t \in Templates |-> None]
  /\ default' = None
  /\ saver' \in BOOLEAN
  /\ lock' = <<>>
  /\ task' = [r \in Tasks |-> Idle]
  /\ base' \in {base, [base EXCEPT ![Standard] = Shipped]}
  /\ outdated' = {}
  /\ UNCHANGED <<versions, requests, doubled>>

Serve(r) ==
  \/ SelectVersion(r) \/ SelectBase(r) \/ StorageFails(r)
  \/ SaverReady(r) \/ EnterLock(r) \/ Woken(r) \/ SetupSucceeds(r) \/ SetupFails(r)

Next ==
  \/ \E r \in Tasks :
       \/ Serve(r)
       \/ Deactivate(r) \/ Commit(r) \/ Invalidate(r) \/ LostAfterCommit(r) \/ WriteFails(r)
       \/ \E t \in Templates :
            \/ GetGraph(r, t) \/ CompileTemplate(r, t)
            \/ \E topology \in Topologies :
                 \/ CreateTemplate(r, t, topology)
                 \/ \E active \in BOOLEAN : SaveVersion(r, t, topology, active)
       \/ \E v \in DOMAIN versions : ActivateVersion(r, v)
  \/ Restart

\* The event loop runs every task that can go on, and the setup ends within its
\* 30 seconds.
Spec == Init /\ [][Next]_vars /\ \A r \in Tasks : WF_vars(Serve(r))

-----------------------------------------------------------------------------
TypeOK ==
  /\ \A t \in Templates : base[t] \in Topologies \union {Shipped, None}
  /\ \A v \in DOMAIN versions : versions[v].template \in Templates
                                /\ versions[v].topology \in Topologies
  /\ saver \in BOOLEAN
  /\ \A t \in Templates : cache[t] # None => Runs(cache[t].topology)

\* A cached graph is the one that a fresh request would compile. What the code
\* leaves open, and the observers name: a request that had read the old topology
\* when an activation was committed caches it after the invalidation, and an
\* activation whose answer is lost after the commit does not invalidate.
CachedIsCurrent ==
  \A t \in Templates :
    cache[t] # None /\ t \notin outdated
        /\ (\A r \in Tasks : Serving(r, "write", "invalidate") => task[r].template # t)
      => Current(t) # None /\ cache[t].topology = Current(t)

\* A template has one active version at most, whatever activations overlap; only
\* a version that was saved after the activation had begun to deactivate the others
\* can stay active beside its own, and the next activation puts it right.
OneActive ==
  \A t \in Templates \ doubled : Cardinality(ActiveOf(t)) <= 1

\* The checkpointer is set up by one request at a time, and never again once it is
\* there; whoever waits for it stands in line for the lock, once.
Waits(r) == At(r, "setup") \/ At(r, "queued")

SetupIsSingle ==
  /\ IsInjective(lock)
  /\ \A r \in Tasks : Waits(r) <=> r \in Range(lock)
  /\ \A r \in Tasks : At(r, "setup") => ~saver /\ Head(lock) = r

\* Who asks for a graph gets one or an error: nobody waits for ever on the lock of
\* the checkpointer, whether or not its setup ever succeeds.
GraphsAreServed ==
  \A r \in Tasks : task[r].op = "get" ~> task[r].op # "get"

\* The normalisation completes stored topologies so that they do not break the
\* runtime (docs/agent_platform_direction.md): a request finds a topology that
\* compiles. Saving and activating do not look at the topology, so it may not.
StoredTopologiesRun ==
  \A t \in Templates : Current(t) # None => Runs(Current(t))
=============================================================================
