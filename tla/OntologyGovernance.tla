------------------------- MODULE OntologyGovernance -------------------------
(***************************************************************************)
(* Governance of the versions of one kind of ontology package in one space *)
(* (backend/app/ontology/persistent_service.py, repository.py, models/     *)
(* ontology.py): writing a version, asking for and reviewing approvals,    *)
(* releasing to a stage, rolling back.                                     *)
(*                                                                         *)
(* Every HTTP request is a session with its own transaction. A request     *)
(* reads, decides in Python, and writes and commits later; in between,     *)
(* other requests commit. PostgreSQL runs it at READ COMMITTED: rows have  *)
(* no version column, an UPDATE waits for the row's lock and then          *)
(* overwrites. SQLAlchemy updates only the attributes whose value differs  *)
(* from the one the session loaded. A unique partial index refuses a       *)
(* commit. The writes of a request become visible together, so they are    *)
(* one step. A switch of the active version flushes twice and the index is *)
(* asked at the second flush, so the first is a step of its own: what it   *)
(* writes is the request's alone, and others meet its locks.               *)
(***************************************************************************)
CONSTANTS
  Versions,    \* version numbers of the kind
  Contents,    \* payloads
  Approvals,   \* ids of approval rows
  Stewards,    \* users with governance access: owner, admins, organisation roles
  Sessions,    \* requests served at the same time
  Gated,       \* stages whose release needs an approval (settings)
  Asked,       \* bound: stages that approvals are asked for
  None         \* Python's None

ASSUME GatedAssumption == Gated \subseteq {"staging", "ga"}

ASSUME AskedAssumption == Asked \subseteq {"review", "staging", "ga", "deprecated"}

Stages == {"draft", "review", "staging", "ga", "deprecated"}

\* Stages a release or an approval may ask for.
Targets == Stages \ {"draft"}

\* A row of ontology_packages; "absent" stands for no row.
Row == [stage : Stages \union {"absent"}, active : BOOLEAN,
        content : Contents \union {None}]

NoRow == [stage |-> "absent", active |-> FALSE, content |-> None]

\* A row of ontology_approvals. content is an observer: the payload the version
\* had when the approval was decided, None before.
Approval == [version : Versions, stage : Targets,
             status : {"pending", "approved", "rejected"},
             requester : Stewards, reviewer : Stewards \union {None},
             content : Contents \union {None}]

ASSUME NoneAssumption ==
  None \notin Stewards \union Contents \union Versions /\ None \notin Approval

VARIABLES
  rows,      \* ontology_packages, by version
  appr,      \* ontology_approvals, by id; None when there is no such row
  req,       \* what each session is doing, see Request
  rolled,    \* observer: versions last put in force by a rollback
  overtaken  \* observer: sessions that looked for the active versions before
             \* another session's switch committed

vars == <<rows, appr, req, rolled, overtaken>>

Idle == [op |-> "idle"]

\* What a session keeps in memory between its reads and its writes.
Request ==
  {Idle}
  \union [op : {"upsert"}, version : Versions, content : Contents,
          write : {"insert", "update", "nothing"}]
  \union [op : {"submit"}, version : Versions, stage : Targets, actor : Stewards]
  \union [op : {"review"}, id : Approvals, actor : Stewards,
          status : {"approved", "rejected"}]
  \union [op : {"move"}, version : Versions, stage : Targets \ {"ga"}, seen : Row]
  \union [op : {"publish"}, version : Versions, seen : Row, back : BOOLEAN]
  \union [op : {"switch"}, version : Versions, seen : Row, back : BOOLEAN,
          others : SUBSET Versions, relabel : SUBSET Versions]
  \union [op : {"enforce"}, version : Versions, seen : Row, back : BOOLEAN,
          off : SUBSET Versions, relabel : SUBSET Versions]

TypeOK ==
  /\ rows \in [Versions -> Row]
  /\ appr \in [Approvals -> Approval \union {None}]
  /\ req \in [Sessions -> Request]
  /\ \A s \in Sessions :
       /\ req[s].op = "switch" => req[s].version \notin req[s].others
       /\ req[s].op = "enforce" => req[s].version \notin req[s].off
  /\ rolled \subseteq Versions
  /\ overtaken \subseteq Sessions

Init ==
  /\ rows = [v \in Versions |-> NoRow]
  /\ appr = [a \in Approvals |-> None]
  /\ req = [s \in Sessions |-> Idle]
  /\ rolled = {}
  /\ overtaken = {}

-----------------------------------------------------------------------------
(* What the rows say.                                                      *)

Exists(v) == rows[v].stage # "absent"

Active(v) == rows[v].active

\* Mutant: a version may be staged without having been reviewed.
AllowedSkippingReview(current) ==
  CASE current = "draft"   -> {"review", "staging", "deprecated"}
    [] current = "review"  -> {"staging", "deprecated"}
    [] current = "staging" -> {"ga", "deprecated"}
    [] current = "ga"      -> {"deprecated"}
    [] OTHER               -> {}

Allowed(current) ==
  CASE current = "draft"   -> {"review", "deprecated"}
    [] current = "review"  -> {"staging", "deprecated"}
    [] current = "staging" -> {"ga", "deprecated"}
    [] current = "ga"      -> {"deprecated"}
    [] OTHER               -> {}

Transition(current, target) == target = current \/ target \in Allowed(current)

\* There is an approval of version v for stage t with this status.
GateIs(v, t, status) ==
  \E a \in Approvals : /\ appr[a] # None
                       /\ appr[a].version = v /\ appr[a].stage = t
                       /\ appr[a].status = status

\* Mutant: no release needs an approval.
GateOpenAlways(v, t) == TRUE

GateOpen(v, t) == t \in Gated => GateIs(v, t, "approved")

\* Mutant: the migration that adds the index was not run.
IndexAllowsAll(v, others) == TRUE

\* uix_ontology_pkg_single_active: v may become active once the rows in others, which
\* the session has switched off, no longer are.
IndexAllows(v, others) == \A w \in Versions \ (others \union {v}) : ~Active(w)

\* Mutant: the pending gate has no index.
PendingUnindexed(v, t) == TRUE

\* uix_ontology_pending_approval_gate.
PendingAllowed(v, t) == ~GateIs(v, t, "pending")

\* The row as an UPDATE leaves it: an attribute the session set to the value it
\* had loaded is not part of it.
Update(row, seen, stage, active) ==
  [row EXCEPT !.stage  = IF stage # seen.stage THEN stage ELSE @,
              !.active = IF active # seen.active THEN active ELSE @]

\* The rows of which another session has flushed an UPDATE that it has not committed.
LockedFor(s) ==
  UNION {req[q].off : q \in {q \in Sessions \ {s} : req[q].op = "enforce"}}

Start(s, r) == req[s] = Idle /\ req' = [req EXCEPT ![s] = r]

Finish(s) == req' = [req EXCEPT ![s] = Idle]

-----------------------------------------------------------------------------
(* Writing a version.                                                      *)

\* What the session will write: an equal payload is not part of the UPDATE.
Write(v, c) == IF ~Exists(v) THEN "insert"
               ELSE IF c # rows[v].content THEN "update" ELSE "nothing"

BeginUpsert(s, v, c) ==
  /\ Start(s, [op |-> "upsert", version |-> v, content |-> c, write |-> Write(v, c)])
  /\ UNCHANGED <<rows, appr, rolled, overtaken>>

\* The insert of a version another session inserted meanwhile is refused.
FinishUpsert(s) ==
  /\ req[s].op = "upsert"
  /\ LET v == req[s].version
         c == req[s].content
         write == req[s].write
     IN /\ write = "insert" => ~Exists(v)
        /\ write = "update" => v \notin LockedFor(s)
        /\ rows' = [rows EXCEPT ![v] =
                      IF write = "insert"
                      THEN [stage |-> "draft", active |-> FALSE, content |-> c]
                      ELSE IF write = "update" THEN [@ EXCEPT !.content = c]
                      ELSE @]
  /\ Finish(s)
  /\ UNCHANGED <<appr, rolled, overtaken>>

-----------------------------------------------------------------------------
(* Approvals.                                                              *)

BeginSubmit(s, u, v, t) ==
  /\ Exists(v) /\ Transition(rows[v].stage, t)
  /\ ~GateIs(v, t, "pending")
  /\ Start(s, [op |-> "submit", version |-> v, stage |-> t, actor |-> u])
  /\ UNCHANGED <<rows, appr, rolled, overtaken>>

FinishSubmit(s) ==
  /\ req[s].op = "submit"
  /\ PendingAllowed(req[s].version, req[s].stage)
  /\ \E a \in Approvals :
       /\ appr[a] = None
       /\ appr' = [appr EXCEPT ![a] =
                     [version |-> req[s].version, stage |-> req[s].stage,
                      status |-> "pending", requester |-> req[s].actor,
                      reviewer |-> None, content |-> None]]
  /\ Finish(s)
  /\ UNCHANGED <<rows, rolled, overtaken>>

\* Mutant: whoever has access may review.
MayReviewAnyone(u, a) == appr[a].status = "pending"

MayReview(u, a) == u # appr[a].requester /\ appr[a].status = "pending"

BeginReview(s, u, a, status) ==
  /\ appr[a] # None /\ MayReview(u, a)
  /\ Start(s, [op |-> "review", id |-> a, actor |-> u, status |-> status])
  /\ UNCHANGED <<rows, appr, rolled, overtaken>>

\* Nothing looks at the status again: the last of two reviewers wins.
FinishReview(s) ==
  /\ req[s].op = "review"
  /\ appr' = [appr EXCEPT ![req[s].id].status = req[s].status,
                          ![req[s].id].reviewer = req[s].actor,
                          ![req[s].id].content = rows[appr[req[s].id].version].content]
  /\ Finish(s)
  /\ UNCHANGED <<rows, rolled, overtaken>>

-----------------------------------------------------------------------------
(* Releases and rollbacks.                                                 *)

\* A release checks the transition and the gate; a release to ga and a rollback
\* go on to switch the active version.
BeginRelease(s, v, t) ==
  /\ Exists(v) /\ Transition(rows[v].stage, t) /\ GateOpen(v, t)
  /\ Start(s, IF t = "ga"
              THEN [op |-> "publish", version |-> v, seen |-> rows[v], back |-> FALSE]
              ELSE [op |-> "move", version |-> v, stage |-> t, seen |-> rows[v]])
  /\ UNCHANGED <<rows, appr, rolled, overtaken>>

BeginRollback(s, v) ==
  /\ Exists(v)
  /\ Start(s, [op |-> "publish", version |-> v, seen |-> rows[v], back |-> TRUE])
  /\ UNCHANGED <<rows, appr, rolled, overtaken>>

\* Mutant: a release to another stage leaves is_active as it is.
FinishMoveKeepingActive(s) ==
  /\ req[s].op = "move" /\ req[s].version \notin LockedFor(s)
  /\ LET v == req[s].version
     IN rows' = [rows EXCEPT ![v] =
                   Update(@, req[s].seen, req[s].stage, req[s].seen.active)]
  /\ Finish(s)
  /\ UNCHANGED <<appr, rolled, overtaken>>

FinishMove(s) ==
  /\ req[s].op = "move" /\ req[s].version \notin LockedFor(s)
  /\ LET v == req[s].version
     IN rows' = [rows EXCEPT ![v] = Update(@, req[s].seen, req[s].stage, FALSE)]
  /\ Finish(s)
  /\ UNCHANGED <<appr, rolled, overtaken>>

\* Mutant: only rows of an older major version, here none, are switched off.
ActiveNone(v) == {}

\* The other active rows.
ActiveOthers(v) == {w \in Versions \ {v} : Active(w)}

\* The query for the rows to switch off. Their stage is rewritten unless it was
\* loaded as deprecated.
SelectActive(s) ==
  /\ req[s].op = "publish"
  /\ LET v      == req[s].version
         others == ActiveOthers(v)
     IN req' = [req EXCEPT ![s] =
                  [op |-> "switch", version |-> v, seen |-> req[s].seen,
                   back |-> req[s].back, others |-> others,
                   relabel |-> {w \in others : rows[w].stage # "deprecated"}]]
  /\ UNCHANGED <<rows, appr, rolled, overtaken>>

\* Mutant: the UPDATE of the target is emitted before those of the old rows.
FlushTargetFirst(s) ==
  /\ req[s].op = "switch"
  /\ req[s].others \intersect LockedFor(s) = {}
  /\ req' = [req EXCEPT ![s] =
                [op |-> "enforce", version |-> req[s].version, seen |-> req[s].seen,
                 back |-> req[s].back, off |-> {}, relabel |-> req[s].relabel]]
  /\ UNCHANGED <<rows, appr, rolled, overtaken>>

\* The first flush: the old rows are off for this session, and locked for others.
FlushOld(s) ==
  /\ req[s].op = "switch"
  /\ req[s].others \intersect LockedFor(s) = {}
  /\ req' = [req EXCEPT ![s] =
                [op |-> "enforce", version |-> req[s].version, seen |-> req[s].seen,
                 back |-> req[s].back, off |-> req[s].others,
                 relabel |-> req[s].relabel]]
  /\ UNCHANGED <<rows, appr, rolled, overtaken>>

\* The rows with what the first flush wrote.
SwitchedOff(r) ==
  [w \in Versions |->
     IF w \notin r.off THEN rows[w]
     ELSE [rows[w] EXCEPT !.active = FALSE,
                          !.stage = IF w \in r.relabel THEN "deprecated" ELSE @]]

Switching(s) == req[s].op \in {"switch", "enforce"}

\* The second flush, of the target, and the commit.
FinishSwitch(s) ==
  /\ req[s].op = "enforce" /\ req[s].version \notin LockedFor(s)
  /\ LET r == req[s]
     IN /\ ~r.seen.active => IndexAllows(r.version, r.off)
        /\ rows' = [SwitchedOff(r) EXCEPT ![r.version] = Update(@, r.seen, "ga", TRUE)]
        /\ rolled' = IF r.back THEN rolled \union {r.version} ELSE rolled \ {r.version}
  /\ overtaken' = (overtaken \ {s}) \union {q \in Sessions \ {s} : Switching(q)}
  /\ Finish(s)
  /\ UNCHANGED appr

\* The request fails: a check of strict compatibility, an index, a lost
\* connection. The transaction is rolled back.
Abort(s) ==
  /\ req[s] # Idle
  /\ Finish(s)
  /\ overtaken' = overtaken \ {s}
  /\ UNCHANGED <<rows, appr, rolled>>

Next ==
  \E s \in Sessions :
    \/ \E v \in Versions, c \in Contents : BeginUpsert(s, v, c)
    \/ FinishUpsert(s)
    \/ \E u \in Stewards, v \in Versions, t \in Asked : BeginSubmit(s, u, v, t)
    \/ FinishSubmit(s)
    \/ \E u \in Stewards, a \in Approvals, status \in {"approved", "rejected"} :
         BeginReview(s, u, a, status)
    \/ FinishReview(s)
    \/ \E v \in Versions, t \in Targets : BeginRelease(s, v, t)
    \/ \E v \in Versions : BeginRollback(s, v)
    \/ FinishMove(s)
    \/ SelectActive(s)
    \/ FlushOld(s)
    \/ FinishSwitch(s)
    \/ Abort(s)

Spec == Init /\ [][Next]_vars

-----------------------------------------------------------------------------
(* Properties that hold whatever requests run at the same time.            *)

\* At most one version is active, although two requests may each have seen the
\* other's version inactive (persistent_service.py resolves packages by it).
SingleActive == \A v, w \in Versions : Active(v) /\ Active(w) => v = w

\* A gate has at most one approval waiting for review.
OnePendingPerGate ==
  \A a, b \in Approvals :
    /\ appr[a] # None /\ appr[b] # None
    /\ appr[a].status = "pending" /\ appr[b].status = "pending"
    /\ appr[a].version = appr[b].version /\ appr[a].stage = appr[b].stage
    => a = b

\* Nobody decides on a request of their own, even when several reviews of the
\* same approval race.
FourEyes ==
  \A a \in Approvals :
    appr[a] # None /\ appr[a].status # "pending" =>
      appr[a].reviewer \in Stewards \ {appr[a].requester}

\* Switching the old versions off first is enough for the index to accept the new
\* one (docstring of switch_active_package): when the target's UPDATE is flushed,
\* the index can refuse it only because another switch committed after this one
\* looked for the active versions.
SwitchIsAccepted ==
  \A s \in Sessions :
    req[s].op = "enforce" /\ s \notin overtaken => IndexAllows(req[s].version, req[s].off)

-----------------------------------------------------------------------------
(* Properties of requests served one at a time.                            *)

\* The version in force is the one at ga: nothing active is in another stage and
\* nothing at ga is inactive.
ActiveIsGA == \A v \in Versions : Active(v) <=> rows[v].stage = "ga"

\* A version got to a gated stage through an approval, unless a rollback put it
\* in force.
GatesHonoured ==
  \A v \in Versions :
    /\ rows[v].stage = "staging" /\ "staging" \in Gated => GateIs(v, "staging", "approved")
    /\ rows[v].stage = "ga" /\ "ga" \in Gated /\ v \notin rolled => GateIs(v, "ga", "approved")

\* The lifecycle of PackageLifecycle.
L == INSTANCE PackageLifecycle WITH
       stage   <- [v \in Versions |-> rows[v].stage],
       inForce <- IF \E v \in Versions : Active(v)
                  THEN CHOOSE v \in Versions : Active(v) ELSE None
ImplementsLifecycle == L!Spec

-----------------------------------------------------------------------------
(* What the repository says and the code does not do.                      *)

\* persistent_service.py:552: a version is marked active at ga only.
ActiveOnlyAtGA == \A v \in Versions : Active(v) => rows[v].stage = "ga"

\* CHANGELOG.md:10: the approval gates keep a human in the loop for critical
\* rule changes. A version in force that was not rolled back to has a payload
\* that was approved for ga.
ApprovedContentInForce ==
  \A v \in Versions \ rolled :
    Active(v) /\ "ga" \in Gated =>
      \E a \in Approvals :
        /\ appr[a] # None /\ appr[a].version = v /\ appr[a].stage = "ga"
        /\ appr[a].status = "approved" /\ appr[a].content = rows[v].content
=============================================================================
