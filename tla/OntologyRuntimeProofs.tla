------------------------ MODULE OntologyRuntimeProofs -----------------------
(***************************************************************************)
(* Proofs about OntologyRuntime: for any number of agents, sources and     *)
(* requests that overlap, any packages and any switches between them, live *)
(* calls use what was approved, a source fills only gaps, and a block that *)
(* was decided is kept.                                                    *)
(***************************************************************************)
EXTENDS OntologyRuntime, TLAPS

-----------------------------------------------------------------------------
(* The inductive invariant.                                                *)

\* An approval of the stored row covers its configuration and its secret, unless
\* its last two writers had loaded the same row.
ApprovalCovers ==
  \A s \in Sources :
    sources[s] # None /\ sources[s].approved /\ s \notin raced
      => approval[s] = <<sources[s].config, sources[s].secret>>

\* What a request of governance is about to write.
WritesLoaded(q) ==
  /\ q.op = "upsert" =>
       /\ q.source \in Sources
       /\ q.loaded \in Row \union {None}
       /\ q.row \in Row /\ q.row.approved = FALSE
       /\ q.loaded # None => sources[q.source] # None
  /\ q.op = "approve" =>
       /\ q.source \in Sources
       /\ q.loaded \in Row /\ q.row \in Row
       /\ q.row.config = q.loaded.config
       /\ sources[q.source] # None

\* What a turn knows of the source that it calls.
CallsApproved(q) ==
  /\ q.at = "list" => q.source = None \/ (q.source \in Sources /\ sources[q.source] # None)
  /\ q.at = "call" \/ q.called =>
       q.row.raced \/ q.row.approval = <<q.row.config, q.row.secret>>

\* Stored, seen and current graph of a turn: they part only when a source fills
\* attributes that were empty, and only the current one at first.
Fills(old, new, missing) ==
  \A f \in Fields :
    new[f] # old[f] => old[f] = None /\ new[f] = "fetched" /\ f \in missing

GraphsAgree(q) ==
  /\ q.at \in {"contract", "rules", "map", "evaluate"} => q.decision = None
  /\ q.at = "evaluate" => q.stored = q.graph
  /\ q.decision # None =>
       /\ q.at \in {"link", "plan", "list", "call"} =>
            q.stored = q.graph /\ q.decision.seen = q.graph
       /\ q.at \in {"store", "stored"} => Fills(q.decision.seen, q.graph, q.missing)
       /\ q.at \in {"store", "stored", "done"} =>
            Fills(q.decision.seen, q.stored, q.missing)

\* A turn that is over was blocked if its decision or its failure says so.
Blocked(q) ==
  q.at = "done" /\ q.decision # None =>
    \/ q.block = Blocks(q.decision.hits, q.strict)
    \/ q.status = "error" /\ q.block = q.required

Stages == {"contract", "rules", "map", "evaluate", "link", "plan", "list", "call",
           "store", "stored", "done"}

TurnFields == {"op", "at", "required", "strict", "input", "ruled", "graph", "untold",
               "decision", "missing", "source", "row", "called", "stored", "linked",
               "status", "block"}

TurnSound(q) ==
  /\ DOMAIN q = TurnFields
  /\ q.at \in Stages
  /\ q.called \in BOOLEAN
  /\ CallsApproved(q)
  /\ GraphsAgree(q)
  /\ Blocked(q)

TaskSound(t) ==
  /\ t \in Agents => task[t] = Idle \/ task[t].op = "turn"
  /\ t \in Desks => task[t].op \in {"idle", "upsert", "approve"}
  /\ task[t].op = "turn" => TurnSound(task[t])
  /\ WritesLoaded(task[t])

Sound ==
  /\ sources \in [Sources -> Row \union {None}]
  /\ DOMAIN approval = Sources
  /\ DOMAIN task = Tasks
  /\ ApprovalCovers
  /\ \A t \in Tasks : TaskSound(t)
-----------------------------------------------------------------------------
LEMMA InitSound == Init => Sound
  <1> SUFFICES ASSUME Init
               PROVE  Sound
    OBVIOUS
  <1>1. \A t \in Tasks : task[t] = Idle /\ task[t].op = "idle"
    BY DEF Init, Idle
  <1>2. ASSUME NEW t \in Tasks
        PROVE  TaskSound(t)
    BY <1>1 DEF TaskSound, WritesLoaded
  <1> QED BY <1>2 DEF Init, Sound, ApprovalCovers

-----------------------------------------------------------------------------
(* Steps of a turn. All but the reading of a source leave what is stored   *)
(* alone.                                                                  *)

\* Turn t becomes q.
Becomes(t, q) == task' = [task EXCEPT ![t] = q] /\ UNCHANGED <<sources, approval, raced>>

\* A sound turn in the place of another, or none.
LEMMA BecomesSound ==
  ASSUME Sound, NEW t \in Agents, NEW q, Becomes(t, q),
         q = Idle \/ (q.op = "turn" /\ TurnSound(q))
  PROVE  Sound'
  <1>1. t \in Tasks /\ t \notin Desks
    BY RuntimeAssumption DEF Tasks
  <1>2. task'[t] = q /\ DOMAIN task' = Tasks
    BY <1>1 DEF Sound, Becomes
  <1>3. TaskSound(t)'
    <2>1. q.op \in {"turn", "idle"}
      BY DEF Idle
    <2> QED
      BY <1>1, <1>2, <2>1
      DEF TaskSound, WritesLoaded, Idle, TurnSound, CallsApproved, Becomes
  <1>4. ASSUME NEW o \in Tasks, o # t
        PROVE  TaskSound(o)'
    <2>1. task'[o] = task[o] /\ TaskSound(o)
      BY <1>1, <1>4 DEF Sound, Becomes
    <2> QED BY <2>1 DEF TaskSound, WritesLoaded, TurnSound, CallsApproved, Becomes
  <1> QED BY <1>2, <1>3, <1>4 DEF Sound, ApprovalCovers, Becomes

LEMMA TurnOfAgent ==
  ASSUME Sound, NEW t \in Agents, NEW at, At(t, at)
  PROVE  task[t].op = "turn" /\ task[t].at = at /\ TurnSound(task[t])
  BY DEF Sound, Tasks, TaskSound, At

\* Ending a turn keeps what it is about.
LEMMA EndedFields ==
  ASSUME NEW q, TurnSound(q), NEW status, NEW block
  PROVE  LET e == Ended(q, status, block)
         IN /\ DOMAIN e = TurnFields
            /\ e.at = "done" /\ e.status = status /\ e.block = block
            /\ \A f \in TurnFields \ {"at", "status", "block"} : e[f] = q[f]
  BY DEF Ended, TurnSound, TurnFields

LEMMA EndedSound ==
  ASSUME NEW q, TurnSound(q), q.op = "turn", q.at # "done", NEW status, NEW block,
         \/ q.decision = None
         \/ block = Blocks(q.decision.hits, q.strict)
         \/ status = "error" /\ block = q.required
  PROVE  LET e == Ended(q, status, block) IN e.op = "turn" /\ TurnSound(e)
  <1> DEFINE e == Ended(q, status, block)
  <1>1. /\ DOMAIN e = TurnFields /\ e.op = "turn"
        /\ e.at = "done" /\ e.status = status /\ e.block = block
        /\ e.decision = q.decision /\ e.stored = q.stored /\ e.graph = q.graph
        /\ e.missing = q.missing /\ e.called = q.called /\ e.row = q.row
        /\ e.strict = q.strict /\ e.required = q.required
    BY EndedFields DEF TurnFields
  <1> HIDE DEF e
  <1>2. q.decision # None => Fills(q.decision.seen, q.stored, q.missing)
    BY DEF TurnSound, Stages, GraphsAgree, Fills
  <1>3. GraphsAgree(e)
    BY <1>1, <1>2 DEF GraphsAgree
  <1>4. CallsApproved(e) /\ Blocked(e)
    BY <1>1 DEF TurnSound, CallsApproved, Blocked
  <1>5. e.op = "turn" /\ TurnSound(e)
    BY <1>1, <1>3, <1>4 DEF TurnSound, Stages
  <1> QED BY <1>5 DEF e

LEMMA SuccessSound ==
  ASSUME NEW q, TurnSound(q), q.op = "turn", q.at # "done"
  PROVE  Success(q).op = "turn" /\ TurnSound(Success(q))
  <1>1. CASE q.decision = None
    BY <1>1, EndedSound DEF Success
  <1>2. CASE q.decision # None
    BY <1>2, EndedSound DEF Success
  <1> QED BY <1>1, <1>2

LEMMA BeginTurnSound ==
  ASSUME Sound, NEW a \in Agents, NEW required \in BOOLEAN, NEW strict \in BOOLEAN,
         NEW input \in Found, BeginTurn(a, required, strict, input)
  PROVE  Sound'
  <1>1. Becomes(a, Turn(required, strict, input))
    BY DEF BeginTurn, Becomes
  <1>2. Turn(required, strict, input).op = "turn" /\ TurnSound(Turn(required, strict, input))
    BY DEF Turn, TurnSound, TurnFields, Stages, CallsApproved, GraphsAgree, Blocked
  <1> QED BY <1>1, <1>2, BecomesSound

\* Until the mapping there is nothing to keep.
LEMMA ContractSound ==
  ASSUME Sound, NEW t \in Agents, NoSpace(t) \/ ReadContract(t) \/ ReadRules(t)
  PROVE  Sound'
  <1> DEFINE q == task[t]
  <1>1. /\ q.op = "turn" /\ TurnSound(q) /\ q.at \in {"contract", "rules"}
        /\ q.decision = None
    BY TurnOfAgent DEF NoSpace, ReadContract, ReadRules, TurnSound, GraphsAgree
  <1> HIDE DEF q
  <1>2. \A status, block :
          Ended(q, status, block).op = "turn" /\ TurnSound(Ended(q, status, block))
    BY <1>1, EndedSound
  <1>3. LET e == [q EXCEPT !.at = "rules"] IN e.op = "turn" /\ TurnSound(e)
    BY <1>1 DEF TurnSound, TurnFields, Stages, CallsApproved, GraphsAgree, Blocked
  <1>4. \A ruled : LET e == [q EXCEPT !.at = "map", !.ruled = ruled]
                   IN e.op = "turn" /\ TurnSound(e)
    BY <1>1 DEF TurnSound, TurnFields, Stages, CallsApproved, GraphsAgree, Blocked
  <1>5. CASE NoSpace(t)
    BY <1>2, <1>5, BecomesSound DEF NoSpace, Proceed, Becomes, q
  <1>6. CASE ReadContract(t)
    <2>1. \/ \E status, block : Becomes(t, Ended(q, status, block))
          \/ Becomes(t, [q EXCEPT !.at = "rules"])
      <3>1. CASE q.input = None
        BY <1>6, <3>1 DEF ReadContract, Proceed, Becomes, q
      <3>2. CASE q.input # None /\ force["mapping"] = None
        BY <1>6, <3>2 DEF ReadContract, Proceed, Becomes, q
      <3>3. CASE q.input # None /\ force["mapping"] # None
        BY <1>6, <3>3 DEF ReadContract, Proceed, Becomes, q
      <3> QED BY <3>1, <3>2, <3>3
    <2>2. CASE \E status, block : Becomes(t, Ended(q, status, block))
      BY <1>2, <2>2, BecomesSound
    <2>3. CASE Becomes(t, [q EXCEPT !.at = "rules"])
      BY <1>3, <2>3, BecomesSound
    <2> QED BY <2>1, <2>2, <2>3
  <1>7. CASE ReadRules(t)
    BY <1>4, <1>7, BecomesSound DEF ReadRules, Proceed, Becomes, q
  <1> QED BY <1>5, <1>6, <1>7

\* The graph that is stored is the one that the decision is made on.
LEMMA DecisionSound ==
  ASSUME Sound, NEW t \in Agents, ExecuteMapping(t) \/ EvaluateRules(t) \/ LinkDecision(t)
  PROVE  Sound'
  <1> DEFINE q == task[t]
  <1>1. /\ q.op = "turn" /\ TurnSound(q) /\ q.at \in {"map", "evaluate", "link"}
    BY TurnOfAgent DEF ExecuteMapping, EvaluateRules, LinkDecision
  <1> HIDE DEF q
  <1> USE DEF TurnSound, TurnFields, Stages, CallsApproved, GraphsAgree, Blocked
  <1>2. CASE ExecuteMapping(t)
    <2>1. q.at = "map" /\ q.decision = None
      BY <1>1, <1>2 DEF ExecuteMapping, At, q
    <2> DEFINE mapped(at, graph, untold) ==
                 [q EXCEPT !.at = at, !.graph = graph, !.stored = graph, !.untold = untold]
    <2>2. \A at \in {"evaluate", "plan"} : \A graph, untold :
            mapped(at, graph, untold).op = "turn" /\ TurnSound(mapped(at, graph, untold))
      BY <1>1, <2>1
    <2>3. \E at \in {"evaluate", "plan"} : \E graph, untold : Becomes(t, mapped(at, graph, untold))
      <3>1. CASE q.ruled
        BY <1>2, <3>1 DEF ExecuteMapping, Proceed, Becomes, q
      <3>2. CASE ~q.ruled
        BY <1>2, <3>2 DEF ExecuteMapping, Proceed, Becomes, q
      <3> QED BY <3>1, <3>2
    <2> HIDE DEF mapped
    <2>4. PICK e : Becomes(t, e) /\ e.op = "turn" /\ TurnSound(e)
      BY <2>2, <2>3
    <2> QED BY <2>4, BecomesSound
  <1>3. CASE EvaluateRules(t)
    <2>1. q.at = "evaluate"
      BY <1>3 DEF EvaluateRules, At, q
    <2>2. \A hits : LET e == [q EXCEPT !.at = "link",
                              !.decision = [hits |-> hits, seen |-> q.graph]]
                    IN e.op = "turn" /\ TurnSound(e)
      BY <1>1, <2>1
    <2>3. PICK e : Becomes(t, e) /\ e.op = "turn" /\ TurnSound(e)
      BY <1>3, <2>2 DEF EvaluateRules, Proceed, Becomes, q
    <2> QED BY <2>3, BecomesSound
  <1>4. CASE LinkDecision(t)
    <2>1. q.at = "link"
      BY <1>4 DEF LinkDecision, At, q
    <2>2. LET e == [q EXCEPT !.at = "plan", !.linked = TRUE] IN e.op = "turn" /\ TurnSound(e)
      BY <1>1, <2>1
    <2>3. PICK e : Becomes(t, e) /\ e.op = "turn" /\ TurnSound(e)
      BY <1>4, <2>2 DEF LinkDecision, Proceed, Becomes, q
    <2> QED BY <2>3, BecomesSound
  <1> QED BY <1>2, <1>3, <1>4

\* The source of the plan is one that is stored.
LEMMA PlanSound ==
  ASSUME Sound, NEW t \in Agents, BuildPlan(t)
  PROVE  Sound'
  <1> DEFINE q == task[t]
  <1>1. q.op = "turn" /\ TurnSound(q) /\ q.at = "plan"
    BY TurnOfAgent DEF BuildPlan
  <1> HIDE DEF q
  <1>2. Success(q).op = "turn" /\ TurnSound(Success(q))
    BY <1>1, SuccessSound
  <1>3. ASSUME NEW missing,
               NEW s \in {x \in Sources : sources[x] # None} \union {None}
        PROVE  LET e == [q EXCEPT !.at = "list", !.missing = missing, !.source = s]
               IN e.op = "turn" /\ TurnSound(e)
    BY <1>1 DEF TurnSound, TurnFields, Stages, CallsApproved, GraphsAgree, Blocked
  <1>4. PICK e : Becomes(t, e) /\ e.op = "turn" /\ TurnSound(e)
    <2>1. PICK missing :
            \/ Proceed(t, Success(q))
            \/ \E s \in Ranked({x \in Sources : sources[x] # None}) \union Ranked({}) :
                 Proceed(t, [q EXCEPT !.at = "list", !.missing = missing, !.source = s])
      BY DEF BuildPlan, q
    <2>2. CASE Proceed(t, Success(q))
      BY <1>2, <2>2 DEF Proceed, Becomes
    <2>3. CASE \E s \in Ranked({x \in Sources : sources[x] # None}) \union Ranked({}) :
                 Proceed(t, [q EXCEPT !.at = "list", !.missing = missing, !.source = s])
      BY <1>3, <2>3 DEF Proceed, Becomes, Ranked
    <2> QED BY <2>1, <2>2, <2>3
  <1> QED BY <1>4, BecomesSound

\* A source fills what is empty and missing, and nothing else.
LEMMA PatchedSound ==
  ASSUME NEW q, TurnSound(q), q.op = "turn", q.at \in {"list", "call"},
         NEW patches \in SUBSET Fillable(q)
  PROVE  Patched(q, patches).op = "turn" /\ TurnSound(Patched(q, patches))
  <1>1. CASE patches = {}
    BY <1>1, SuccessSound DEF Patched
  <1>2. CASE patches # {}
    <2> DEFINE graph == [f \in Fields |-> IF f \in patches THEN "fetched" ELSE q.graph[f]]
               e == [q EXCEPT !.at = "store", !.graph = graph]
    <2>1. Patched(q, patches) = e
      BY <1>2 DEF Patched, TurnSound, TurnFields
    <2>2. Fills(q.graph, graph, q.missing)
      BY DEF Fills, Fillable
    <2> HIDE DEF graph
    <2>3. /\ DOMAIN e = TurnFields /\ e.op = "turn" /\ e.at = "store" /\ e.graph = graph
          /\ e.decision = q.decision /\ e.stored = q.stored /\ e.missing = q.missing
          /\ e.called = q.called /\ e.row = q.row
      BY DEF TurnSound, TurnFields
    <2> HIDE DEF e
    <2>4. GraphsAgree(e)
      BY <2>2, <2>3 DEF GraphsAgree, TurnSound, Fills
    <2> QED BY <2>1, <2>3, <2>4 DEF TurnSound, Stages, CallsApproved, Blocked
  <1> QED BY <1>1, <1>2

\* What is called has been approved as it is read.
LEMMA SourceSound ==
  ASSUME Sound, NEW t \in Agents,
         SkipSource(t) \/ ExecuteFixture(t) \/ ReadSource(t) \/ CallSource(t)
  PROVE  Sound'
  <1> DEFINE q == task[t]
  <1>1. q.op = "turn" /\ TurnSound(q) /\ q.at \in {"list", "call"}
    BY TurnOfAgent DEF SkipSource, ExecuteFixture, ReadSource, CallSource
  <1> HIDE DEF q
  <1>2. CASE SkipSource(t)
    BY <1>1, <1>2, SuccessSound, BecomesSound DEF SkipSource, Proceed, Becomes, q
  <1>3. CASE ExecuteFixture(t)
    <2>1. PICK patches \in SUBSET Fillable(q) : Becomes(t, Patched(q, patches))
      BY <1>3 DEF ExecuteFixture, Proceed, Becomes, q
    <2> QED BY <1>1, <2>1, PatchedSound, BecomesSound
  <1>4. CASE ReadSource(t)
    <2> DEFINE row == sources[q.source]
               seen == [config |-> row.config, secret |-> row.secret,
                        approval |-> approval[q.source], raced |-> q.source \in raced]
               e == [q EXCEPT !.at = "call", !.row = seen]
    <2>1. /\ q.at = "list" /\ q.source # None /\ row.approved
          /\ Becomes(t, e)
      BY <1>4 DEF ReadSource, At, MayCall, Proceed, Becomes, q
    <2>2. q.source \in Sources /\ row # None
      BY <1>1, <2>1 DEF TurnSound, CallsApproved
    <2>3. seen.raced \/ seen.approval = <<seen.config, seen.secret>>
      BY <2>1, <2>2 DEF Sound, ApprovalCovers
    <2> HIDE DEF seen
    <2>4. e.op = "turn" /\ TurnSound(e)
      BY <1>1, <2>1, <2>3
      DEF TurnSound, TurnFields, Stages, CallsApproved, GraphsAgree, Blocked
    <2> QED BY <2>1, <2>4, BecomesSound
  <1>5. CASE CallSource(t)
    <2> DEFINE e == [q EXCEPT !.called = TRUE]
    <2>1. q.at = "call"
      BY <1>5 DEF CallSource, At, q
    <2>2. e.op = "turn" /\ TurnSound(e) /\ e.at = "call"
      BY <1>1, <2>1
      DEF TurnSound, TurnFields, Stages, CallsApproved, GraphsAgree, Blocked
    <2>3. PICK patches \in SUBSET Fillable(e) : Becomes(t, Patched(e, patches))
      BY <1>5 DEF CallSource, Proceed, Becomes, q
    <2> HIDE DEF e
    <2> QED BY <2>2, <2>3, PatchedSound, BecomesSound
  <1> QED BY <1>2, <1>3, <1>4, <1>5

LEMMA EndingSound ==
  ASSUME Sound, NEW t \in Agents,
         UpdateSnapshot(t) \/ Finish(t) \/ Raise(t) \/ Cancel(t)
  PROVE  Sound'
  <1> DEFINE q == task[t]
  <1>1. q.op = "turn" /\ TurnSound(q) /\ q.at # "done"
    BY DEF Sound, Tasks, TaskSound, At, UpdateSnapshot, Finish, Raise, Cancel
  <1> HIDE DEF q
  <1>2. CASE UpdateSnapshot(t)
    <2> DEFINE e == [q EXCEPT !.at = "stored", !.stored = q.graph]
    <2>1. q.at = "store" /\ Becomes(t, e)
      BY <1>2 DEF UpdateSnapshot, At, Proceed, Becomes, q
    <2>2. /\ DOMAIN e = TurnFields /\ e.op = "turn" /\ e.at = "stored"
          /\ e.graph = q.graph /\ e.stored = q.graph
          /\ e.decision = q.decision /\ e.missing = q.missing
          /\ e.called = q.called /\ e.row = q.row
      BY <1>1 DEF TurnSound, TurnFields
    <2> HIDE DEF e
    <2>3. e.op = "turn" /\ TurnSound(e)
      BY <1>1, <2>1, <2>2 DEF TurnSound, Stages, CallsApproved, GraphsAgree, Blocked
    <2> QED BY <2>1, <2>3, BecomesSound
  <1>3. CASE Finish(t)
    BY <1>1, <1>3, SuccessSound, BecomesSound DEF Finish, Proceed, Becomes, q
  <1>4. CASE Raise(t)
    <2>1. Becomes(t, Ended(q, "error", q.required))
      BY <1>4 DEF Raise, Proceed, Becomes, q
    <2> QED BY <1>1, <2>1, EndedSound, BecomesSound
  <1>5. CASE Cancel(t)
    BY <1>5, BecomesSound DEF Cancel, Proceed, Becomes
  <1> QED BY <1>2, <1>3, <1>4, <1>5

-----------------------------------------------------------------------------
(* Steps of governance.                                                    *)

\* A desk takes up a request or lays it down, and no source is taken away.
LEMMA DeskSound ==
  ASSUME Sound, NEW t \in Desks, NEW q, task' = [task EXCEPT ![t] = q],
         q.op \in {"idle", "upsert", "approve"}, WritesLoaded(q)',
         sources' \in [Sources -> Row \union {None}], DOMAIN approval' = Sources,
         ApprovalCovers',
         \A s \in Sources : sources[s] # None => sources'[s] # None
  PROVE  Sound'
  <1>1. t \in Tasks /\ t \notin Agents
    BY RuntimeAssumption DEF Tasks
  <1>2. task'[t] = q /\ DOMAIN task' = Tasks
    BY <1>1 DEF Sound
  <1>3. TaskSound(t)'
    BY <1>1, <1>2 DEF TaskSound, WritesLoaded
  <1>4. ASSUME NEW o \in Tasks, o # t
        PROVE  TaskSound(o)'
    <2>1. task'[o] = task[o] /\ TaskSound(o)
      BY <1>1, <1>4 DEF Sound
    <2>2. TurnSound(task[o]) => TurnSound(task[o])'
      BY <2>1 DEF TurnSound, CallsApproved, GraphsAgree, Blocked
    <2>3. WritesLoaded(task[o]) => WritesLoaded(task[o])'
      BY <2>1 DEF WritesLoaded
    <2> QED BY <2>1, <2>2, <2>3 DEF TaskSound, TurnSound, WritesLoaded
  <1> QED BY <1>2, <1>3, <1>4 DEF Sound

\* A step that leaves the rows of sources alone.
LEMMA RestSound ==
  ASSUME Sound, UNCHANGED <<sources, task, approval, raced>>
  PROVE  Sound'
  BY DEF Sound, ApprovalCovers, TaskSound, WritesLoaded, TurnSound, CallsApproved,
         GraphsAgree, Blocked

LEMMA BeginsSound ==
  ASSUME Sound, NEW t \in Desks, NEW s \in Sources,
         \/ \E row \in Row : BeginUpsert(t, s, row)
         \/ \E approve \in BOOLEAN : BeginApproval(t, s, approve)
  PROVE  Sound'
  <1>1. \A q : /\ task' = [task EXCEPT ![t] = q]
               /\ UNCHANGED <<sources, approval, raced>>
               /\ q.op \in {"idle", "upsert", "approve"} /\ WritesLoaded(q)'
               => Sound'
    <2>1. UNCHANGED <<sources, approval, raced>> =>
            /\ sources' \in [Sources -> Row \union {None}] /\ DOMAIN approval' = Sources
            /\ ApprovalCovers'
            /\ \A r \in Sources : sources[r] # None => sources'[r] # None
      BY DEF Sound, ApprovalCovers
    <2> QED BY <2>1, DeskSound
  <1>2. sources[s] \in Row \union {None}
    BY DEF Sound
  <1>3. ASSUME NEW row \in Row, BeginUpsert(t, s, row)
        PROVE  Sound'
    <2>1. PICK loaded :
            /\ loaded = sources[s] /\ row.approved = FALSE
            /\ task' = [task EXCEPT ![t] =
                          [op |-> "upsert", source |-> s, loaded |-> loaded, row |-> row]]
            /\ UNCHANGED <<sources, approval, raced>>
      BY <1>3 DEF BeginUpsert, Begin
    <2> DEFINE q == [op |-> "upsert", source |-> s, loaded |-> loaded, row |-> row]
    <2>2. WritesLoaded(q)'
      BY <1>2, <2>1 DEF WritesLoaded
    <2> QED BY <1>1, <2>1, <2>2
  <1>4. ASSUME NEW approve \in BOOLEAN, BeginApproval(t, s, approve)
        PROVE  Sound'
    <2>1. PICK loaded, row :
            /\ loaded = sources[s] /\ row = [loaded EXCEPT !.approved = approve]
            /\ sources[s] # None
            /\ task' = [task EXCEPT ![t] =
                          [op |-> "approve", source |-> s, loaded |-> loaded, row |-> row]]
            /\ UNCHANGED <<sources, approval, raced>>
      BY <1>4 DEF BeginApproval, Begin
    <2> DEFINE q == [op |-> "approve", source |-> s, loaded |-> loaded, row |-> row]
    <2>2. loaded \in Row /\ row \in Row /\ row.config = loaded.config
      BY <1>2, <2>1 DEF Row
    <2>3. WritesLoaded(q)'
      BY <2>1, <2>2 DEF WritesLoaded
    <2> QED BY <1>1, <2>1, <2>3
  <1> QED BY <1>3, <1>4

LEMMA RefuseSound ==
  ASSUME Sound, NEW t \in Desks, Refuse(t)
  PROVE  Sound'
  <1>1. task' = [task EXCEPT ![t] = Idle] /\ UNCHANGED <<sources, approval, raced>>
    BY DEF Refuse, Proceed
  <1>2. Idle.op = "idle" /\ WritesLoaded(Idle)'
    BY DEF Idle, WritesLoaded
  <1>3. /\ sources' \in [Sources -> Row \union {None}] /\ DOMAIN approval' = Sources
        /\ ApprovalCovers'
        /\ \A r \in Sources : sources[r] # None => sources'[r] # None
    BY <1>1 DEF Sound, ApprovalCovers
  <1> QED BY <1>1, <1>2, <1>3, DeskSound

\* What is written over what was loaded is a row.
LEMMA CommitSound ==
  ASSUME Sound, NEW t \in Desks, NEW row \in Row, NEW approved,
         task[t].source \in Sources, Commit(t, row, approved),
         row.approved /\ sources[task[t].source] = task[t].loaded
           => approved = <<row.config, row.secret>>
  PROVE  Sound'
  <1> DEFINE s == task[t].source
  <1>1. /\ sources' \in [Sources -> Row \union {None}] /\ DOMAIN approval' = Sources
        /\ sources'[s] = row /\ approval'[s] = approved
        /\ \A r \in Sources : r # s => sources'[r] = sources[r] /\ approval'[r] = approval[r]
        /\ s \notin raced' => sources[s] = task[t].loaded
        /\ \A r : r # s => (r \in raced <=> r \in raced')
        /\ task' = [task EXCEPT ![t] = Idle]
    BY DEF Commit, Sound
  <1>2. ApprovalCovers'
    <2> SUFFICES ASSUME NEW r \in Sources, sources'[r] # None, sources'[r].approved,
                        r \notin raced'
                 PROVE  approval'[r] = <<sources'[r].config, sources'[r].secret>>
      BY DEF ApprovalCovers
    <2>1. CASE r = s
      BY <1>1, <2>1
    <2>2. CASE r # s
      BY <1>1, <2>2 DEF Sound, ApprovalCovers
    <2> QED BY <2>1, <2>2
  <1>3. Idle.op = "idle" /\ WritesLoaded(Idle)'
    BY DEF Idle, WritesLoaded
  <1>4. \A r \in Sources : sources[r] # None => sources'[r] # None
    BY <1>1, NoneIsNoRow
  <1> QED BY <1>1, <1>2, <1>3, <1>4, DeskSound

LEMMA FinishesSound ==
  ASSUME Sound, NEW t \in Desks, FinishUpsert(t) \/ FinishApproval(t)
  PROVE  Sound'
  <1> DEFINE q == task[t]
             stored == sources[q.source]
  <1>1. WritesLoaded(q)
    BY DEF Sound, Tasks, TaskSound
  <1>2. q.source \in Sources /\ stored \in Row \union {None}
    BY <1>1 DEF WritesLoaded, FinishUpsert, FinishApproval, Sound
  <1>3. CASE FinishUpsert(t) /\ q.loaded # None
    <2> DEFINE row == Merged(stored, q.loaded, q.row)
    <2>1. q.loaded \in Row /\ q.row \in Row /\ q.row.approved = FALSE /\ stored \in Row
      BY <1>1, <1>2, <1>3 DEF WritesLoaded, FinishUpsert
    <2>2. Commit(t, row, None)
      BY <1>3 DEF FinishUpsert
    <2>3. row \in Row
      BY <2>1 DEF Merged, Row
    <2>4. stored = q.loaded => ~row.approved
      BY <2>1 DEF Merged, Row
    <2> QED BY <1>2, <2>2, <2>3, <2>4, CommitSound
  <1>4. CASE FinishUpsert(t) /\ q.loaded = None
    <2>1. q.row \in Row /\ ~q.row.approved /\ Commit(t, q.row, None)
      BY <1>1, <1>4 DEF WritesLoaded, FinishUpsert
    <2> QED BY <1>2, <2>1, CommitSound
  <1>5. CASE FinishApproval(t)
    <2> DEFINE row == [stored EXCEPT !.config = q.row.config, !.approved = q.row.approved]
               approved == IF q.row.approved THEN <<q.loaded.config, q.loaded.secret>> ELSE None
    <2>1. /\ q.loaded \in Row /\ q.row \in Row /\ stored \in Row
          /\ q.row.config = q.loaded.config
      BY <1>1, <1>2, <1>5 DEF WritesLoaded, FinishApproval
    <2>2. Commit(t, row, approved)
      BY <1>5 DEF FinishApproval
    <2>3. row \in Row /\ row.config = q.row.config /\ row.secret = stored.secret
          /\ row.approved = q.row.approved
      BY <2>1 DEF Row
    <2>4. row.approved /\ stored = q.loaded => approved = <<row.config, row.secret>>
      BY <2>1, <2>3
    <2> HIDE DEF row, approved
    <2> QED BY <1>2, <2>2, <2>3, <2>4, CommitSound
  <1> QED BY <1>3, <1>4, <1>5

-----------------------------------------------------------------------------
LEMMA StepSound == Sound /\ [Next]_vars => Sound'
  <1> SUFFICES ASSUME Sound, [Next]_vars
               PROVE  Sound'
    OBVIOUS
  <1>1. ASSUME NEW a \in Agents, AgentTurns(a)
        PROVE  Sound'
    BY <1>1, BeginTurnSound, ContractSound, DecisionSound, PlanSound, SourceSound, EndingSound
    DEF AgentTurns, Work
  <1>2. ASSUME NEW t \in Desks, SourceRequests(t)
        PROVE  Sound'
    <2>1. CASE FinishUpsert(t) \/ FinishApproval(t)
      BY <2>1, FinishesSound
    <2>2. CASE Refuse(t)
      BY <2>2, RefuseSound
    <2> QED BY <1>2, <2>1, <2>2, BeginsSound DEF SourceRequests
  <1>3. ASSUME NEW kind, NEW p, Switch(kind, p)
        PROVE  Sound'
    BY <1>3, RestSound DEF Switch
  <1>4. ASSUME NEW ref, StoreSecret(ref)
        PROVE  Sound'
    BY <1>4, RestSound DEF StoreSecret
  <1>5. CASE UNCHANGED vars
    BY <1>5, RestSound DEF vars
  <1> QED BY <1>1, <1>2, <1>3, <1>4, <1>5 DEF Next

LEMMA SoundImplies == Sound => LiveAsApproved /\ FilledNotReplaced /\ BlockIsKept
  <1> SUFFICES ASSUME Sound, NEW a \in Agents, task[a] # Idle
               PROVE  LET turn == task[a] IN
                 /\ turn.called /\ ~turn.row.raced =>
                      turn.row.approval = <<turn.row.config, turn.row.secret>>
                 /\ turn.decision # None => Fills(turn.decision.seen, turn.stored, turn.missing)
                 /\ turn.at = "done" /\ turn.decision # None
                      /\ Blocks(turn.decision.hits, turn.strict)
                      /\ (turn.required \/ turn.status # "error") => turn.block
    BY DEF LiveAsApproved, FilledNotReplaced, BlockIsKept, Turns, Fills
  <1> DEFINE q == task[a]
  <1>1. TurnSound(q)
    BY DEF Sound, Tasks, TaskSound
  <1> HIDE DEF q
  <1>2. q.called /\ ~q.row.raced => q.row.approval = <<q.row.config, q.row.secret>>
    BY <1>1 DEF TurnSound, CallsApproved
  <1>3. q.decision # None => Fills(q.decision.seen, q.stored, q.missing)
    BY <1>1 DEF TurnSound, Stages, GraphsAgree, Fills
  <1>4. q.at = "done" /\ q.decision # None /\ Blocks(q.decision.hits, q.strict)
           /\ (q.required \/ q.status # "error") => q.block
    BY <1>1 DEF TurnSound, Blocked
  <1> QED BY <1>2, <1>3, <1>4 DEF q

LEMMA SpecSound == Spec => []Sound
  BY InitSound, StepSound, PTL DEF Spec

\* A live source is called with the configuration and the secret that governance had
\* approved when the executor read them: for any sources and any requests that overlap
\* (evaluate, execute and the governance of data sources in persistent_service.py).
THEOREM LiveCallsAreApproved == Spec => []LiveAsApproved
  BY SpecSound, SoundImplies, PTL

\* Completing the graph fills attributes that were empty and missing, and replaces none
\* that the rules have seen (_execute_action_plan of the pipeline).
THEOREM CompletionFillsGaps == Spec => []FilledNotReplaced
  BY SpecSound, SoundImplies, PTL

\* A turn whose stored decision calls for a block ends blocked, whatever came after the
\* decision, unless an agent that does not require the ontology ends with a failure.
THEOREM DecidedBlockIsKept == Spec => []BlockIsKept
  BY SpecSound, SoundImplies, PTL

-----------------------------------------------------------------------------
(* What the variables hold.                                                *)

TurnTyped(q) ==
  q.op = "turn" =>
    /\ q.graph \in Attributes \union {None}
    /\ q.stored \in Attributes \union {None}
    /\ q.missing \subseteq Fields /\ q.untold \subseteq Fields
    /\ q.source \in Sources \union {None}
    /\ q.decision \in Decision \union {None}
    /\ q.linked => q.decision # None /\ q.stored # None
    /\ q.at \notin {"contract", "rules", "map", "done"} =>
         q.graph \in Attributes /\ q.stored \in Attributes
    /\ q.at = "link" => q.decision # None

\* Whatever is in force is of the kind it is in force as.
ForceTyped ==
  /\ force \in [Kinds -> Packages \union {None}]
  /\ \A kind \in Kinds : force[kind] # None => Says[force[kind]].kind = kind

Typed ==
  /\ ForceTyped
  /\ secrets \subseteq Secrets
  /\ approval \in [Sources -> (Configs \X (Secrets \union {None})) \union {None}]
  /\ raced \subseteq Sources
  /\ \A a \in Agents : TurnTyped(task[a])

LEMMA InitTyped == Init => Typed
<1> SUFFICES ASSUME Init
             PROVE  Typed
  OBVIOUS
<1>1. ForceTyped
  BY RuntimeAssumption, SaysAssumption DEF Init, ForceTyped, Kinds
<1>2. \A a \in Agents : TurnTyped(task[a])
  BY DEF Init, Tasks, Idle, TurnTyped
<1> QED
  BY <1>1, <1>2 DEF Init, Typed

\* A typed turn in the place of another, or none.
LEMMA ProceedTyped ==
  ASSUME Sound, Typed, NEW t \in Agents, NEW q, Proceed(t, q), TurnTyped(q)
  PROVE  Typed'
<1>1. \A a \in Agents : task'[a] = IF a = t THEN q ELSE task[a]
  BY DEF Sound, Tasks, Proceed
<1>2. \A a \in Agents : TurnTyped(task'[a])
  BY <1>1 DEF Typed
<1> QED
  BY <1>2 DEF Typed, ForceTyped, Proceed, TurnTyped

\* A turn that ends is about what it was.
LEMMA EndTyped ==
  ASSUME NEW q, TurnSound(q), TurnTyped(q), q.op = "turn", NEW status, NEW block
  PROVE  TurnTyped(Ended(q, status, block))
<1> DEFINE e == Ended(q, status, block)
<1>1. /\ e.at = "done" /\ e.op = q.op /\ e.graph = q.graph /\ e.stored = q.stored
      /\ e.missing = q.missing /\ e.untold = q.untold /\ e.source = q.source
      /\ e.decision = q.decision /\ e.linked = q.linked
  BY EndedFields DEF TurnFields
<1> HIDE DEF e
<1>2. TurnTyped(e)
  BY <1>1 DEF TurnTyped
<1> QED
  BY <1>2 DEF e

LEMMA SuccessTyped ==
  ASSUME NEW q, TurnSound(q), TurnTyped(q), q.op = "turn"
  PROVE  TurnTyped(Success(q))
<1>1. CASE q.decision = None
  BY <1>1, EndTyped DEF Success
<1>2. CASE q.decision # None
  BY <1>2, EndTyped DEF Success
<1> QED
  BY <1>1, <1>2

LEMMA ContractTyped ==
  ASSUME Sound, Typed, NEW t \in Agents, NoSpace(t) \/ ReadContract(t) \/ ReadRules(t)
  PROVE  Typed'
<1> DEFINE q == task[t]
<1>1. q.op = "turn" /\ TurnSound(q) /\ TurnTyped(q)
  BY TurnOfAgent DEF NoSpace, ReadContract, ReadRules, Typed
<1> HIDE DEF q
<1>2. \A status, block : TurnTyped(Ended(q, status, block))
  BY <1>1, EndTyped
<1>3. TurnTyped([q EXCEPT !.at = "rules"])
  BY <1>1 DEF TurnSound, TurnFields, TurnTyped
<1>4. \A ruled : TurnTyped([q EXCEPT !.at = "map", !.ruled = ruled])
  BY <1>1 DEF TurnSound, TurnFields, TurnTyped
<1>5. CASE NoSpace(t)
  BY <1>2, <1>5, ProceedTyped DEF NoSpace, q
<1>6. CASE ReadContract(t)
  <2>1. CASE q.input = None
    BY <1>2, <1>6, <2>1, ProceedTyped DEF ReadContract, q
  <2>2. CASE q.input # None /\ force["mapping"] = None
    BY <1>2, <1>6, <2>2, ProceedTyped DEF ReadContract, q
  <2>3. CASE q.input # None /\ force["mapping"] # None
    BY <1>3, <1>6, <2>3, ProceedTyped DEF ReadContract, q
  <2> QED
    BY <2>1, <2>2, <2>3
<1>7. CASE ReadRules(t)
  BY <1>4, <1>7, ProceedTyped DEF ReadRules, q
<1> QED
  BY <1>5, <1>6, <1>7

\* The mapping makes a graph of the attributes there are.
LEMMA MappingTyped ==
  ASSUME Typed, NEW input, force["mapping"] # None
  PROVE  /\ Mapped(Payload("mapping"), input) \in Attributes
         /\ Untold(Payload("mapping"), input) \subseteq Fields
<1> DEFINE p == force["mapping"]
<1>1. p \in Packages /\ Says[p].kind = "mapping"
  BY DEF Typed, ForceTyped, Kinds
<1>2. \A m \in ToSet(Payload("mapping")) : m.to \in Fields
  BY <1>1, SaysAssumption DEF Payload
<1>3. Mapped(Payload("mapping"), input) \in Attributes
  BY DEF Mapped, Attributes, Values
<1>4. Untold(Payload("mapping"), input) \subseteq Fields
  BY <1>2 DEF Untold
<1> QED
  BY <1>3, <1>4

LEMMA DecisionTyped ==
  ASSUME Sound, Typed, NEW t \in Agents, ExecuteMapping(t) \/ EvaluateRules(t) \/ LinkDecision(t)
  PROVE  Typed'
<1> DEFINE q == task[t]
<1>1. q.op = "turn" /\ TurnSound(q) /\ TurnTyped(q)
  BY TurnOfAgent DEF ExecuteMapping, EvaluateRules, LinkDecision, Typed
<1> HIDE DEF q
<1>2. CASE ExecuteMapping(t)
  <2> DEFINE graph == Mapped(Payload("mapping"), q.input)
             untold == Untold(Payload("mapping"), q.input)
             mapped(at) == [q EXCEPT !.at = at, !.graph = graph, !.stored = graph,
                                     !.untold = untold]
  <2>1. graph \in Attributes /\ untold \subseteq Fields /\ graph # None
    BY <1>2, MappingTyped, NoneIsNoGraph DEF ExecuteMapping
  <2>2. Proceed(t, mapped(IF q.ruled THEN "evaluate" ELSE "plan"))
    BY <1>2 DEF ExecuteMapping, q
  <2> HIDE DEF graph, untold
  <2>3. \A at \in {"evaluate", "plan"} : TurnTyped(mapped(at))
    BY <1>1, <2>1 DEF TurnSound, TurnFields, TurnTyped
  <2> HIDE DEF mapped
  <2> QED
    BY <2>2, <2>3, ProceedTyped
<1>3. CASE EvaluateRules(t)
  <2> DEFINE decision == [hits |-> Hits(Payload("rule"), q.graph), seen |-> q.graph]
             e == [q EXCEPT !.at = "link", !.decision = decision]
  <2>1. q.at = "evaluate" /\ force["rule"] # None /\ Proceed(t, e)
    BY <1>3 DEF EvaluateRules, At, q
  <2>2. force["rule"] \in Packages /\ Says[force["rule"]].kind = "rule"
    BY <2>1 DEF Typed, ForceTyped, Kinds
  <2>3. Payload("rule") \subseteq Rules
    BY <2>2 DEF Payload, Rules
  <2>4. Hits(Payload("rule"), q.graph) \in SUBSET Rules
    BY <2>3 DEF Hits
  <2>5. q.graph \in Attributes
    BY <1>1, <2>1 DEF TurnTyped
  <2>6. decision \in Decision
    BY <2>4, <2>5 DEF Decision
  <2> HIDE DEF decision
  <2>7. decision # None
    BY <2>6, NoneIsNoGraph
  <2>8. TurnTyped(e)
    BY <1>1, <2>1, <2>6, <2>7 DEF TurnSound, TurnFields, TurnTyped
  <2> HIDE DEF e
  <2> QED
    BY <2>1, <2>8, ProceedTyped
<1>4. CASE LinkDecision(t)
  <2> DEFINE e == [q EXCEPT !.at = "plan", !.linked = TRUE]
  <2>1. q.at = "link" /\ Proceed(t, e)
    BY <1>4 DEF LinkDecision, At, q
  <2>2. q.stored # None /\ q.decision # None
    BY <1>1, <2>1, NoneIsNoGraph DEF TurnTyped
  <2>3. TurnTyped(e)
    BY <1>1, <2>1, <2>2 DEF TurnSound, TurnFields, TurnTyped
  <2> HIDE DEF e
  <2> QED
    BY <2>1, <2>3, ProceedTyped
<1> QED
  BY <1>2, <1>3, <1>4

\* What the plan misses are attributes, and its source is one that has a name.
LEMMA PlanTyped ==
  ASSUME Sound, Typed, NEW t \in Agents, BuildPlan(t)
  PROVE  Typed'
<1> DEFINE q == task[t]
           required(all) == IF all THEN (IF force["schema"] = None THEN {} ELSE Payload("schema"))
                            ELSE {}
<1>1. q.op = "turn" /\ TurnSound(q) /\ TurnTyped(q) /\ q.at = "plan"
  BY TurnOfAgent DEF BuildPlan, Typed
<1>2. force["schema"] # None => Payload("schema") \subseteq Fields
  <2> SUFFICES ASSUME force["schema"] # None
               PROVE  Payload("schema") \subseteq Fields
    OBVIOUS
  <2>1. force["schema"] \in Packages /\ Says[force["schema"]].kind = "schema"
    BY DEF Typed, ForceTyped, Kinds
  <2> QED
    BY <2>1, SaysAssumption DEF Payload
<1> HIDE DEF q
<1>3. PICK missing \in SUBSET Fields :
        \/ Proceed(t, Success(q))
        \/ \E s \in Sources \union {None} :
             Proceed(t, [q EXCEPT !.at = "list", !.missing = missing, !.source = s])
  <2>1. PICK set \in {IF force["schema"] = None THEN {} ELSE Payload("schema"), {}} :
          LET missing == Missing(q, set)
          IN IF missing = {} THEN Proceed(t, Success(q))
             ELSE \E s \in Ranked({x \in Sources : sources[x] # None}) \union Ranked({}) :
                    Proceed(t, [q EXCEPT !.at = "list", !.missing = missing, !.source = s])
    BY DEF BuildPlan, q
  <2>2. Missing(q, set) \in SUBSET Fields
    BY <1>1, <1>2 DEF Missing, TurnTyped
  <2>3. Ranked({x \in Sources : sources[x] # None}) \union Ranked({}) \subseteq Sources \union {None}
    BY DEF Ranked
  <2> QED
    BY <2>1, <2>2, <2>3
<1>4. CASE Proceed(t, Success(q))
  BY <1>1, <1>4, SuccessTyped, ProceedTyped
<1>5. ASSUME NEW s \in Sources \union {None},
             Proceed(t, [q EXCEPT !.at = "list", !.missing = missing, !.source = s])
      PROVE  Typed'
  <2>1. TurnTyped([q EXCEPT !.at = "list", !.missing = missing, !.source = s])
    BY <1>1 DEF TurnSound, TurnFields, TurnTyped
  <2> QED
    BY <1>5, <2>1, ProceedTyped
<1> QED
  BY <1>3, <1>4, <1>5

LEMMA PatchedTyped ==
  ASSUME NEW q, TurnSound(q), TurnTyped(q), q.op = "turn", q.at \in {"list", "call"},
         NEW patches \in SUBSET Fillable(q)
  PROVE  TurnTyped(Patched(q, patches))
<1>1. CASE patches = {}
  BY <1>1, SuccessTyped DEF Patched
<1>2. CASE patches # {}
  <2> DEFINE graph == [f \in Fields |-> IF f \in patches THEN "fetched" ELSE q.graph[f]]
             e == [q EXCEPT !.at = "store", !.graph = graph]
  <2>1. Patched(q, patches) = e
    BY <1>2 DEF Patched, TurnSound, TurnFields
  <2>2. graph \in Attributes
    <3>1. q.graph \in Attributes
      BY DEF TurnTyped
    <3> QED
      BY <3>1 DEF Attributes, Values
  <2> HIDE DEF graph
  <2>3. TurnTyped(e)
    BY <2>2 DEF TurnSound, TurnFields, TurnTyped
  <2> QED
    BY <2>1, <2>3
<1> QED
  BY <1>1, <1>2

LEMMA SourceTyped ==
  ASSUME Sound, Typed, NEW t \in Agents,
         SkipSource(t) \/ ExecuteFixture(t) \/ ReadSource(t) \/ CallSource(t)
  PROVE  Typed'
<1> DEFINE q == task[t]
<1>1. q.op = "turn" /\ TurnSound(q) /\ TurnTyped(q) /\ q.at \in {"list", "call"}
  BY TurnOfAgent DEF SkipSource, ExecuteFixture, ReadSource, CallSource, Typed
<1> HIDE DEF q
<1>2. CASE SkipSource(t)
  BY <1>1, <1>2, SuccessTyped, ProceedTyped DEF SkipSource, q
<1>3. CASE ExecuteFixture(t)
  <2>1. PICK patches \in SUBSET Fillable(q) : Proceed(t, Patched(q, patches))
    BY <1>3 DEF ExecuteFixture, q
  <2> QED
    BY <1>1, <2>1, PatchedTyped, ProceedTyped
<1>4. CASE ReadSource(t)
  <2>1. PICK row : Proceed(t, [q EXCEPT !.at = "call", !.row = row])
    BY <1>4 DEF ReadSource, q
  <2>2. TurnTyped([q EXCEPT !.at = "call", !.row = row])
    BY <1>1 DEF TurnSound, TurnFields, TurnTyped
  <2> QED
    BY <2>1, <2>2, ProceedTyped
<1>5. CASE CallSource(t)
  <2> DEFINE e == [q EXCEPT !.called = TRUE]
  <2>1. q.at = "call"
    BY <1>5 DEF CallSource, At, q
  <2>2. e.op = "turn" /\ TurnSound(e) /\ e.at = "call"
    BY <1>1, <2>1
    DEF TurnSound, TurnFields, Stages, CallsApproved, GraphsAgree, Blocked
  <2>3. TurnTyped(e)
    BY <1>1 DEF TurnSound, TurnFields, TurnTyped
  <2>4. PICK patches \in SUBSET Fillable(e) : Proceed(t, Patched(e, patches))
    BY <1>5 DEF CallSource, q
  <2> HIDE DEF e
  <2> QED
    BY <2>2, <2>3, <2>4, PatchedTyped, ProceedTyped
<1> QED
  BY <1>2, <1>3, <1>4, <1>5

LEMMA EndingTyped ==
  ASSUME Sound, Typed, NEW t \in Agents,
         UpdateSnapshot(t) \/ Finish(t) \/ Raise(t) \/ Cancel(t)
  PROVE  Typed'
<1> DEFINE q == task[t]
<1>1. q.op = "turn" /\ TurnSound(q) /\ TurnTyped(q)
  BY DEF Sound, Tasks, TaskSound, Typed, At, UpdateSnapshot, Finish, Raise, Cancel
<1> HIDE DEF q
<1>2. CASE UpdateSnapshot(t)
  <2> DEFINE e == [q EXCEPT !.at = "stored", !.stored = q.graph]
  <2>1. q.at = "store" /\ Proceed(t, e)
    BY <1>2 DEF UpdateSnapshot, At, q
  <2>2. q.graph \in Attributes /\ q.graph # None
    BY <1>1, <2>1, NoneIsNoGraph DEF TurnTyped
  <2>3. TurnTyped(e)
    BY <1>1, <2>2 DEF TurnSound, TurnFields, TurnTyped
  <2> QED
    BY <2>1, <2>3, ProceedTyped
<1>3. CASE Finish(t)
  BY <1>1, <1>3, SuccessTyped, ProceedTyped DEF Finish, q
<1>4. CASE Raise(t)
  BY <1>1, <1>4, EndTyped, ProceedTyped DEF Raise, q
<1>5. CASE Cancel(t)
  <2>1. TurnTyped(Idle)
    BY DEF TurnTyped, Idle
  <2> QED
    BY <1>5, <2>1, ProceedTyped DEF Cancel
<1> QED
  BY <1>2, <1>3, <1>4, <1>5

\* A desk sees to the sources; the turns stay as they are.
LEMMA DesksTyped ==
  ASSUME Sound, Typed, NEW t \in Desks, SourceRequests(t)
  PROVE  Typed'
<1>1. t \notin Agents /\ WritesLoaded(task[t])
  BY RuntimeAssumption DEF Sound, Tasks, TaskSound
<1>2. UNCHANGED <<force, secrets>> /\ \E q : task' = [task EXCEPT ![t] = q]
  BY DEF SourceRequests, BeginUpsert, BeginApproval, Begin, FinishUpsert, FinishApproval,
         Commit, Refuse, Proceed
<1>3. \A a \in Agents : task'[a] = task[a]
  BY <1>1, <1>2
<1>4. ASSUME NEW row, NEW approved \in (Configs \X (Secrets \union {None})) \union {None},
             Commit(t, row, approved), task[t].source \in Sources
      PROVE  /\ approval' \in [Sources -> (Configs \X (Secrets \union {None})) \union {None}]
             /\ raced' \subseteq Sources
  BY <1>4 DEF Commit, Typed
<1>5. /\ approval' \in [Sources -> (Configs \X (Secrets \union {None})) \union {None}]
      /\ raced' \subseteq Sources
  <2>1. CASE UNCHANGED <<approval, raced>>
    BY <2>1 DEF Typed
  <2>2. CASE FinishUpsert(t)
    <3>1. PICK row : Commit(t, row, None)
      <4>1. CASE task[t].loaded # None
        BY <2>2, <4>1 DEF FinishUpsert
      <4>2. CASE task[t].loaded = None
        BY <2>2, <4>2 DEF FinishUpsert
      <4> QED
        BY <4>1, <4>2
    <3>2. task[t].source \in Sources
      BY <1>1, <2>2 DEF FinishUpsert, WritesLoaded
    <3> QED
      BY <1>4, <3>1, <3>2
  <2>3. CASE FinishApproval(t)
    <3>1. task[t].source \in Sources /\ task[t].loaded \in Row
      BY <1>1, <2>3 DEF FinishApproval, WritesLoaded
    <3>2. <<task[t].loaded.config, task[t].loaded.secret>> \in Configs \X (Secrets \union {None})
      BY <3>1 DEF Row
    <3>3. PICK approved \in (Configs \X (Secrets \union {None})) \union {None} :
            \E row : Commit(t, row, approved)
      BY <2>3, <3>2 DEF FinishApproval
    <3> QED
      BY <1>4, <3>1, <3>3
  <2> QED
    BY <2>1, <2>2, <2>3 DEF SourceRequests, BeginUpsert, BeginApproval, Begin, Refuse, Proceed
<1>6. \A a \in Agents : TurnTyped(task[a])'
  BY <1>3 DEF Typed, TurnTyped
<1> QED
  BY <1>2, <1>5, <1>6 DEF Typed, ForceTyped

LEMMA StepTyped == Sound /\ Typed /\ [Next]_vars => Typed'
<1> SUFFICES ASSUME Sound, Typed, [Next]_vars
             PROVE  Typed'
  OBVIOUS
<1>1. ASSUME NEW a \in Agents, NEW required, NEW strict, NEW input,
             BeginTurn(a, required, strict, input)
      PROVE  Typed'
  <2> DEFINE q == Turn(required, strict, input)
  <2>1. TurnTyped(q)
    BY DEF Turn, TurnTyped
  <2>2. \A o \in Agents : task'[o] = IF o = a THEN q ELSE task[o]
    BY <1>1 DEF BeginTurn, Sound, Tasks
  <2>3. \A o \in Agents : TurnTyped(task'[o])
    BY <2>1, <2>2 DEF Typed
  <2> QED
    BY <1>1, <2>3 DEF BeginTurn, Typed, ForceTyped, TurnTyped
<1>2. ASSUME NEW a \in Agents, AgentTurns(a)
      PROVE  Typed'
  BY <1>1, <1>2, ContractTyped, DecisionTyped, PlanTyped, SourceTyped, EndingTyped
  DEF AgentTurns, Work
<1>3. ASSUME NEW kind \in Kinds, NEW p \in Packages \union {None}, Switch(kind, p)
      PROVE  Typed'
  <2>1. ForceTyped'
    BY <1>3 DEF Switch, Typed, ForceTyped
  <2> QED
    BY <1>3, <2>1 DEF Switch, Typed, TurnTyped
<1>4. ASSUME NEW ref \in Secrets, StoreSecret(ref)
      PROVE  Typed'
  BY <1>4 DEF StoreSecret, Typed, ForceTyped, TurnTyped
<1>5. CASE UNCHANGED vars
  BY <1>5 DEF vars, Typed, ForceTyped, TurnTyped
<1> QED
  BY <1>2, <1>3, <1>4, <1>5, DesksTyped DEF Next

\* What is stored and what a turn knows are what the code takes them for, whatever is
\* switched and edited meanwhile: a graph has the attributes there are, and a graph that
\* refers to its decision is stored, and has one (link_instance_graph_decision).
THEOREM TypeCorrect == Spec => []TypeOK
<1>1. Spec => []Typed
  BY InitTyped, StepTyped, SpecSound, PTL DEF Spec
<1>2. Sound /\ Typed => TypeOK
  <2> SUFFICES ASSUME Sound, Typed, NEW a \in Agents, task[a] # Idle
               PROVE  TurnOK(task[a])
    BY DEF TypeOK, Sound, Typed, ForceTyped
  <2>1. task[a].op = "turn" /\ TurnSound(task[a]) /\ TurnTyped(task[a])
    BY DEF Sound, Tasks, TaskSound, Typed
  <2> QED
    BY <2>1 DEF TurnOK, TurnTyped, TurnSound, Stages
<1> QED
  BY <1>1, <1>2, SpecSound, PTL

=============================================================================
