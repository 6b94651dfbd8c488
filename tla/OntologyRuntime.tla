-------------------------- MODULE OntologyRuntime --------------------------
(***************************************************************************)
(* What an agent does with the packages in force before it answers         *)
(* (ontology/pipeline.py): it maps the business input to an instance       *)
(* graph, evaluates the rules on it, plans how to complete it, calls a     *)
(* data source and stores what came back. Each step reads and commits on   *)
(* its own, while packages are switched and data sources are edited and    *)
(* approved for live execution (ontology/persistent_service.py). One       *)
(* space, one entity per graph.                                            *)
(***************************************************************************)
EXTENDS Naturals, FiniteSets, SequencesExt

CONSTANTS
  Fields,      \* attributes of the entity
  Inputs,      \* business inputs: sets of paths that have a value
  Packages,    \* package versions, of the three kinds
  Says,        \* per package version, its payload
  Starts,      \* what may be in force at first
  Sources,     \* names of data sources
  Configs,     \* their configurations
  Mode,        \* per configuration, its runtime mode
  Secrets,     \* references to stored secrets
  LiveEnabled, \* ONTOLOGY_ENABLE_LIVE_DATA_SOURCE_EXECUTION
  Agents,      \* agents, one turn of each at a time
  Desks,       \* requests of governance that may be served at the same time
  None,
  MaxTurns, MaxRequests, MaxSwitches  \* bounds on a behaviour

ASSUME RuntimeAssumption ==
  /\ Mode \in [Configs -> {"disabled", "fixture", "live_api", "live_db"}]
  /\ LiveEnabled \in BOOLEAN
  /\ \A p \in Packages : Says[p].kind \in {"schema", "mapping", "rule"}
  /\ Agents \intersect Desks = {}
  /\ Starts \subseteq [{"schema", "mapping", "rule"} -> Packages \union {None}]

VARIABLES
  force,     \* per kind, the package version in force
  sources,   \* the rows of ontology_data_sources, by name
  secrets,   \* references that have a row in ontology_secrets
  task,      \* per agent its turn, per desk the request it serves
  turns, requests, switches,
  approval,  \* observer: per source, what the last word of governance approved
  raced      \* observer: sources whose last two writers had read the same row

vars == <<force, sources, secrets, task, turns, requests, switches, approval, raced>>

-----------------------------------------------------------------------------
(* Mapping, rules and plan. A mapping is the sequence of its field         *)
(* mappings, a schema the set of required attributes, rules a set.         *)

Kinds == {"schema", "mapping", "rule"}

\* What is found in what the user says: paths that have a value, in an object given as
\* JSON or in the clauses of a contract, or nothing to map.
Found == Inputs \union {None}

\* What a path yields, transformed or not, and what a source returns.
Values == {None, "given", "fetched"}

\* The field mappings that write an attribute: a required one only if its path has a
\* value.
Writers(mapping, input, f) ==
  {i \in DOMAIN mapping :
     mapping[i].to = f /\ (mapping[i].from \in input \/ ~mapping[i].required)}

\* The last of them decides, also that there is nothing.
Mapped(mapping, input) ==
  [f \in Fields |->
     IF \E i \in Writers(mapping, input, f) :
          /\ mapping[i].from \in input
          /\ \A j \in Writers(mapping, input, f) : j <= i
     THEN "given" ELSE None]

Untold(mapping, input) ==
  {m.to : m \in {n \in ToSet(mapping) : n.required /\ n.from \notin input}}

Holds(c, attrs) == (attrs[c.field] # None) = c.present

Hits(rules, attrs) == {r \in rules : \A c \in r.when : Holds(c, attrs)}

Level(hits) ==
  LET score == MapThenSumSet(LAMBDA r : r.weight, hits)
  IN IF score >= 80 THEN "critical" ELSE IF score >= 40 THEN "high"
     ELSE IF score >= 20 THEN "medium" ELSE "low"

\* What calls for a block: a rule that says so, a critical risk, a high one where
\* the agent is strict.
Blocks(hits, strict) ==
  \/ \E r \in hits : r.blocks
  \/ Level(hits) = "critical"
  \/ strict /\ Level(hits) = "high"

-----------------------------------------------------------------------------
(* Rows and requests.                                                      *)

\* Of the states of a source, only "active" makes a difference.
Row == [config : Configs, approved : BOOLEAN, secret : Secrets \union {None},
        active : BOOLEAN]

ASSUME NoneIsNoRow == None \notin Row

\* Packages speak of the attributes there are, and each is of the kind it stands for.
ASSUME SaysAssumption ==
  /\ \A p \in Packages :
       /\ Says[p].kind = "schema" => Says[p].payload \subseteq Fields
       /\ Says[p].kind = "mapping" => \A m \in ToSet(Says[p].payload) : m.to \in Fields
  /\ \A start \in Starts, kind \in Kinds : start[kind] # None => Says[start[kind]].kind = kind

\* A decision keeps the rules that applied, and the graph it was made on.
Rules == UNION {Says[p].payload : p \in {q \in Packages : Says[q].kind = "rule"}}
Attributes == [Fields -> Values]
Decision == [hits : SUBSET Rules, seen : Attributes]

ASSUME NoneIsNoGraph == None \notin Attributes \union Decision

Tasks == Agents \union Desks

Idle == [op |-> "idle"]

\* A turn of an agent: how it is configured, the input it found, and what it knows.
Turn(required, strict, input) ==
  [op |-> "turn", at |-> "contract", required |-> required, strict |-> strict,
   input |-> input, ruled |-> FALSE,
   graph |-> None, untold |-> {}, decision |-> None, missing |-> {}, source |-> None,
   row |-> None, called |-> FALSE,
   stored |-> None, linked |-> FALSE,  \* its row of ontology_instance_graphs
   status |-> None, block |-> FALSE]

Init ==
  /\ force \in Starts
  /\ sources = [s \in Sources |-> None]
  /\ secrets = {}
  /\ task = [t \in Tasks |-> Idle]
  /\ turns = 0 /\ requests = 0 /\ switches = 0
  /\ approval = [s \in Sources |-> None]
  /\ raced = {}

At(t, at) == task[t].op = "turn" /\ task[t].at = at

Payload(kind) == Says[force[kind]].payload

\* A step that only the turn itself sees.
Proceed(t, turn) ==
  /\ task' = [task EXCEPT ![t] = turn]
  /\ UNCHANGED <<force, sources, secrets, turns, requests, switches, approval, raced>>

Ended(turn, status, block) ==
  [turn EXCEPT !.at = "done", !.status = status, !.block = block]

\* Mutant: only rules that say so block.
SuccessByRules(turn) ==
  IF turn.decision = None THEN Ended(turn, "mapped_only", FALSE)
  ELSE Ended(turn, "success", \E r \in turn.decision.hits : r.blocks)

\* The end of a turn that came through: blocked if its decision says so.
Success(turn) ==
  IF turn.decision = None THEN Ended(turn, "mapped_only", FALSE)
  ELSE Ended(turn, "success", Blocks(turn.decision.hits, turn.strict))

-----------------------------------------------------------------------------
(* pipeline.run, after it has found that the ontology is called for.       *)

BeginTurn(a, required, strict, input) ==
  /\ task[a] = Idle \/ At(a, "done")
  /\ turns < MaxTurns
  /\ turns' = turns + 1
  /\ task' = [task EXCEPT ![a] = Turn(required, strict, input)]
  /\ UNCHANGED <<force, sources, secrets, requests, switches, approval, raced>>

\* No space to work in: an agent that requires one must be given it.
NoSpace(t) ==
  /\ At(t, "contract")
  /\ Proceed(t, Ended(task[t], "unavailable", task[t].required))

ReadContract(t) ==
  LET turn == task[t]
  IN /\ At(t, "contract")
     /\ Proceed(t, IF turn.input = None THEN Ended(turn, "waiting_for_input", FALSE)
                   ELSE IF force["mapping"] = None
                        THEN Ended(turn, "missing_mapping", turn.required)
                        ELSE [turn EXCEPT !.at = "rules"])

ReadRules(t) ==
  /\ At(t, "rules")
  /\ Proceed(t, [task[t] EXCEPT !.at = "map", !.ruled = force["rule"] # None])

\* execute_mapping, with the mapping that is in force by now; the graph is stored.
ExecuteMapping(t) ==
  LET turn == task[t]
      graph == Mapped(Payload("mapping"), turn.input)
  IN /\ At(t, "map")
     /\ force["mapping"] # None
     /\ Proceed(t, [turn EXCEPT !.at = IF turn.ruled THEN "evaluate" ELSE "plan",
                                !.graph = graph, !.stored = graph,
                                !.untold = Untold(Payload("mapping"), turn.input)])

\* evaluate_rules: the decision is stored with its explanation and with the graph it
\* was made on.
EvaluateRules(t) ==
  LET turn == task[t]
  IN /\ At(t, "evaluate")
     /\ force["rule"] # None
     /\ Proceed(t, [turn EXCEPT !.at = "link",
                      !.decision = [hits |-> Hits(Payload("rule"), turn.graph),
                                    seen |-> turn.graph]])

LinkDecision(t) ==
  /\ At(t, "link")
  /\ Proceed(t, [task[t] EXCEPT !.at = "plan", !.linked = TRUE])

\* What the mapping did not find, and what the schema requires of the entity and the
\* graph leaves empty.
Missing(turn, required) == turn.untold \union {f \in required : turn.graph[f] = None}

\* Which source ranks first is a matter of words in common; any may.
Ranked(listed) == IF listed = {} THEN {None} ELSE listed

\* _build_action_plan. What cannot be read counts as empty.
BuildPlan(t) ==
  LET turn == task[t]
      listed == {s \in Sources : sources[s] # None}
  IN /\ At(t, "plan")
     /\ \E required \in {IF force["schema"] = None THEN {} ELSE Payload("schema"), {}} :
          LET missing == Missing(turn, required)
          IN IF missing = {} THEN Proceed(t, Success(turn))
             ELSE \E s \in Ranked(listed) \union Ranked({}) :
                    Proceed(t, [turn EXCEPT !.at = "list", !.missing = missing, !.source = s])

\* Mutant: whatever the plan misses is filled.
FillableAll(turn) == turn.missing

\* Only empty attributes are filled.
Fillable(turn) == {f \in turn.missing : turn.graph[f] = None}

\* What a source returned is put into the graph; without a patch the turn is through.
Patched(turn, patches) ==
  IF patches = {} THEN Success(turn)
  ELSE [turn EXCEPT !.at = "store",
          !.graph = [f \in Fields |-> IF f \in patches THEN "fetched" ELSE @[f]]]

\* A live source must be active, and governance must have approved its configuration.
MayCall(row) ==
  /\ LiveEnabled
  /\ row.active
  /\ row.approved
  /\ Mode[row.config] \in {"live_api", "live_db"}

\* The executor reads the sources again, and acts on what it read. A source that is
\* not listed any more, or not to this user, or may not be called, adds nothing.
SkipSource(t) == At(t, "list") /\ Proceed(t, Success(task[t]))

ExecuteFixture(t) ==
  LET turn == task[t]
  IN /\ At(t, "list")
     /\ turn.source # None
     /\ Mode[sources[turn.source].config] = "fixture"
     /\ \E patches \in SUBSET Fillable(turn) : Proceed(t, Patched(turn, patches))

ReadSource(t) ==
  LET turn == task[t]
      row == sources[turn.source]
  IN /\ At(t, "list")
     /\ turn.source # None
     /\ MayCall(row)
     /\ Proceed(t, [turn EXCEPT !.at = "call",
          !.row = [config |-> row.config, secret |-> row.secret,
                   approval |-> approval[turn.source], raced |-> turn.source \in raced]])

\* A reference to a secret that is not stored by now cannot be resolved.
Resolvable(ref) == ref = None \/ ref \in secrets

\* The call. It may fail, or return any of the attributes.
CallSource(t) ==
  LET turn == [task[t] EXCEPT !.called = TRUE]
  IN /\ At(t, "call")
     /\ Resolvable(turn.row.secret)
     /\ \E patches \in SUBSET Fillable(turn) : Proceed(t, Patched(turn, patches))

UpdateSnapshot(t) ==
  /\ At(t, "store")
  /\ Proceed(t, [task[t] EXCEPT !.at = "stored", !.stored = task[t].graph])

Finish(t) == At(t, "stored") /\ Proceed(t, Success(task[t]))

\* Any other outcome of a step: the database, a right the user has lost, a package
\* that is not in force any more, a secret that is not there. Whatever was decided,
\* the turn ends as an error.
Raise(t) ==
  /\ task[t].op = "turn"
  /\ task[t].at \notin {"list", "done"}
  /\ Proceed(t, Ended(task[t], "error", task[t].required))

\* The chat is cancelled.
Cancel(t) ==
  /\ task[t].op = "turn"
  /\ task[t].at # "done"
  /\ Proceed(t, Idle)

-----------------------------------------------------------------------------
(* Governance and data sources. A request loads the row it will write; it  *)
(* writes the columns that differ from what it loaded, and the             *)
(* configuration, with the approval in it, is one column.                  *)

Switch(kind, p) ==
  /\ switches < MaxSwitches
  /\ force[kind] # p
  /\ p # None => Says[p].kind = kind
  /\ force' = [force EXCEPT ![kind] = p]
  /\ switches' = switches + 1
  /\ UNCHANGED <<sources, secrets, task, turns, requests, approval, raced>>

StoreSecret(ref) ==
  /\ ref \notin secrets
  /\ secrets' = secrets \union {ref}
  /\ UNCHANGED <<force, sources, task, turns, requests, switches, approval, raced>>

Begin(t, request) ==
  /\ task[t] = Idle
  /\ requests < MaxRequests
  /\ requests' = requests + 1
  /\ task' = [task EXCEPT ![t] = request]
  /\ UNCHANGED <<force, sources, secrets, turns, switches, approval, raced>>

\* Mutant: an edit keeps the approval of the row.
BeginUpsertApproved(t, s, row) ==
  /\ row.approved = FALSE
  /\ Begin(t, [op |-> "upsert", source |-> s, loaded |-> sources[s],
               row |-> [row EXCEPT !.approved = sources[s] # None /\ sources[s].approved]])

\* An edit takes the approval out of the configuration that it brings.
BeginUpsert(t, s, row) ==
  /\ row.approved = FALSE
  /\ Begin(t, [op |-> "upsert", source |-> s, loaded |-> sources[s], row |-> row])

BeginApproval(t, s, approve) ==
  /\ sources[s] # None
  /\ Begin(t, [op |-> "approve", source |-> s, loaded |-> sources[s],
               row |-> [sources[s] EXCEPT !.approved = approve]])

\* The columns of a request that are written, over what is stored by then.
Merged(stored, loaded, row) ==
  LET config == <<row.config, row.approved>> # <<loaded.config, loaded.approved>>
  IN [config |-> IF config THEN row.config ELSE stored.config,
      approved |-> IF config THEN row.approved ELSE stored.approved,
      secret |-> IF row.secret # loaded.secret THEN row.secret ELSE stored.secret,
      active |-> IF row.active # loaded.active THEN row.active ELSE stored.active]

Commit(t, row, approved) ==
  LET s == task[t].source
  IN /\ sources' = [sources EXCEPT ![s] = row]
     /\ approval' = [approval EXCEPT ![s] = approved]
     /\ raced' = IF sources[s] = task[t].loaded THEN raced \ {s} ELSE raced \union {s}
     /\ task' = [task EXCEPT ![t] = Idle]
     /\ UNCHANGED <<force, secrets, turns, requests, switches>>

\* A name is taken once: of two requests that create it, the second is refused.
FinishUpsert(t) ==
  LET q == task[t]
  IN /\ q.op = "upsert"
     /\ IF q.loaded # None THEN Commit(t, Merged(sources[q.source], q.loaded, q.row), None)
        ELSE sources[q.source] = None /\ Commit(t, q.row, None)

\* The time of the approval is in the configuration, so it is always written.
FinishApproval(t) ==
  LET q == task[t]
  IN /\ q.op = "approve"
     /\ Commit(t, [sources[q.source] EXCEPT !.config = q.row.config, !.approved = q.row.approved],
               IF q.row.approved THEN <<q.loaded.config, q.loaded.secret>> ELSE None)

\* Refused, or failed: nothing is written.
Refuse(t) ==
  /\ task[t].op \in {"upsert", "approve"}
  /\ Proceed(t, Idle)

-----------------------------------------------------------------------------
Work(t) ==
  \/ NoSpace(t) \/ ReadContract(t) \/ ReadRules(t) \/ ExecuteMapping(t) \/ EvaluateRules(t)
  \/ LinkDecision(t) \/ BuildPlan(t) \/ SkipSource(t) \/ ExecuteFixture(t) \/ ReadSource(t)
  \/ CallSource(t) \/ UpdateSnapshot(t) \/ Finish(t) \/ Raise(t)

\* In auto mode the words of a text decide whether the ontology is called for: any text
\* may, with anything in it.
AgentTurns(a) ==
  \/ \E required, strict \in BOOLEAN, input \in Found :
       BeginTurn(a, required, strict, input)
  \/ Work(a) \/ Cancel(a)

\* The requests on data sources.
SourceRequests(t) ==
  \/ \E s \in Sources :
       \/ \E row \in Row : BeginUpsert(t, s, row)
       \/ \E approve \in BOOLEAN : BeginApproval(t, s, approve)
  \/ FinishUpsert(t) \/ FinishApproval(t) \/ Refuse(t)

Next ==
  \/ \E a \in Agents : AgentTurns(a)
  \/ \E t \in Desks : SourceRequests(t)
  \/ \E kind \in Kinds, p \in Packages \union {None} : Switch(kind, p)
  \/ \E ref \in Secrets : StoreSecret(ref)

Spec == Init /\ [][Next]_vars

-----------------------------------------------------------------------------
TurnOK(turn) ==
  /\ turn.at \in {"contract", "rules", "map", "evaluate", "link", "plan", "list", "call",
                  "store", "stored", "done"}
  /\ turn.graph \in Attributes \union {None}
  /\ turn.stored \in Attributes \union {None}
  /\ turn.missing \subseteq Fields /\ turn.untold \subseteq Fields
  /\ turn.source \in Sources \union {None}
  /\ turn.decision \in Decision \union {None}
  /\ turn.linked => turn.decision # None /\ turn.stored # None

TypeOK ==
  /\ force \in [Kinds -> Packages \union {None}]
  /\ sources \in [Sources -> Row \union {None}]
  /\ secrets \subseteq Secrets
  /\ approval \in [Sources -> (Configs \X (Secrets \union {None})) \union {None}]
  /\ raced \subseteq Sources
  /\ \A a \in Agents : task[a] # Idle => TurnOK(task[a])

Turns == {task[a] : a \in {b \in Agents : task[b] # Idle}}

\* A live source is called with the configuration and the secret that governance had
\* approved when the executor read them, however edits, approvals, revocations and
\* the turn overlap. Excepted is the source of which an edit and an approval have
\* loaded the same row: each writes its own columns, and the approval then stands
\* beside a secret or a status that nobody approved.
LiveAsApproved ==
  \A turn \in Turns :
    turn.called /\ ~turn.row.raced => turn.row.approval = <<turn.row.config, turn.row.secret>>

\* Completing the graph never replaces what the rules have seen: the stored graph
\* differs from the graph of the decision in attributes that were empty, required and
\* fetched, although a required attribute may be told by another path.
FilledNotReplaced ==
  \A turn \in Turns : turn.decision # None =>
    \A f \in Fields :
      turn.stored[f] # turn.decision.seen[f] =>
        turn.decision.seen[f] = None /\ turn.stored[f] = "fetched" /\ f \in turn.missing

\* A turn whose stored decision calls for a block ends blocked, whatever was fetched
\* after the decision and whichever later step failed; an agent that does not
\* require the ontology loses the block with such a failure.
BlockIsKept ==
  \A turn \in Turns :
    turn.at = "done" /\ turn.decision # None /\ Blocks(turn.decision.hits, turn.strict)
        /\ (turn.required \/ turn.status # "error")
      => turn.block
=============================================================================
