---------------------- MODULE OntologyGovernanceProofs ----------------------
(***************************************************************************)
(* Proofs about OntologyGovernance: what holds for every number of         *)
(* versions, approvals, stewards and concurrent requests.                  *)
(***************************************************************************)
EXTENDS OntologyGovernance, TLAPS

\* A review under way is of an approval that is there, by somebody who did not
\* ask for it (persistent_service.py:656, review_approval). It was checked when
\* the review began; approvals are never deleted and keep their requester.
ReviewsOfOthers ==
  \A s \in Sessions :
    req[s].op = "review" =>
      /\ appr[req[s].id] # None
      /\ req[s].actor # appr[req[s].id].requester

\* The row that the commit of session s's review leaves.
Reviewed(s) ==
  [appr[req[s].id] EXCEPT !.status = req[s].status, !.reviewer = req[s].actor,
                          !.content = rows[appr[req[s].id].version].content]

\* What every step preserves.
Sound == TypeOK /\ ReviewsOfOthers

-----------------------------------------------------------------------------
(* Which steps touch what.                                                 *)

\* What a request in memory holds, by the operation it is serving.
LEMMA RequestFields ==
  ASSUME NEW r \in Request
  PROVE  /\ r.op = "upsert" => r.version \in Versions /\ r.content \in Contents
         /\ r.op = "submit" => /\ r.version \in Versions /\ r.stage \in Targets
                               /\ r.actor \in Stewards
         /\ r.op = "review" => /\ r.id \in Approvals /\ r.actor \in Stewards
                               /\ r.status \in {"approved", "rejected"}
         /\ r.op = "move" => /\ r.version \in Versions /\ r.stage \in Targets \ {"ga"}
                             /\ r.seen \in Row
         /\ r.op = "publish" => /\ r.version \in Versions /\ r.seen \in Row
                                /\ r.back \in BOOLEAN
         /\ r.op = "switch" => /\ r.version \in Versions /\ r.seen \in Row
                               /\ r.back \in BOOLEAN
                               /\ r.others \subseteq Versions
                               /\ r.relabel \subseteq Versions
         /\ r.op = "enforce" => /\ r.version \in Versions /\ r.seen \in Row
                                /\ r.back \in BOOLEAN
                                /\ r.off \subseteq Versions
                                /\ r.relabel \subseteq Versions
  BY DEF Request, Idle

\* Only a commit of an upsert, of a move or of a switch changes a version's row.
LEMMA RowsStep ==
  ASSUME [Next]_vars
  PROVE  \/ UNCHANGED rows
         \/ \E s \in Sessions : FinishUpsert(s) \/ FinishMove(s) \/ FinishSwitch(s)
  BY DEF Next, vars, BeginUpsert, BeginSubmit, FinishSubmit, BeginReview, FinishReview,
         BeginRelease, BeginRollback, SelectActive, FlushOld, Abort

\* Only a commit of a submission or of a review changes an approval.
LEMMA ApprStep ==
  ASSUME [Next]_vars
  PROVE  UNCHANGED appr \/ \E s \in Sessions : FinishSubmit(s) \/ FinishReview(s)
  BY DEF Next, vars, BeginUpsert, FinishUpsert, BeginSubmit, BeginReview, BeginRelease,
         BeginRollback, FinishMove, SelectActive, FlushOld, FinishSwitch, Abort

-----------------------------------------------------------------------------
(* Types, one variable at a time.                                          *)

\* A version's row stays a row: it is written whole by the insert and attribute
\* by attribute by the updates.
LEMMA RowsType ==
  ASSUME TypeOK, [Next]_vars
  PROVE  rows' \in [Versions -> Row]
<1> USE DEF TypeOK, Finish
<1>1. CASE UNCHANGED rows
  BY <1>1
<1>2. ASSUME NEW s \in Sessions, FinishUpsert(s)
      PROVE  rows' \in [Versions -> Row]
  <2> DEFINE v == req[s].version
             c == req[s].content
  <2>1. v \in Versions /\ c \in Contents
    BY <1>2, RequestFields DEF FinishUpsert
  <2>2. [rows[v] EXCEPT !.content = c] \in Row
    BY <2>1 DEF Row
  <2>3. [stage |-> "draft", active |-> FALSE, content |-> c] \in Row
    BY <2>1 DEF Row, Stages
  <2> QED
    BY <1>2, <2>1, <2>2, <2>3 DEF FinishUpsert
<1>3. ASSUME NEW s \in Sessions, FinishMove(s)
      PROVE  rows' \in [Versions -> Row]
  <2>1. /\ req[s].version \in Versions /\ req[s].stage \in Stages
        /\ req[s].seen \in Row
    BY <1>3, RequestFields DEF FinishMove, Targets
  <2>2. Update(rows[req[s].version], req[s].seen, req[s].stage, FALSE) \in Row
    BY <2>1 DEF Update, Row
  <2> QED
    BY <1>3, <2>1, <2>2 DEF FinishMove
<1>4. ASSUME NEW s \in Sessions, FinishSwitch(s)
      PROVE  rows' \in [Versions -> Row]
  <2>1. req[s].version \in Versions /\ req[s].seen \in Row
    BY <1>4, RequestFields DEF FinishSwitch
  <2>2. SwitchedOff(req[s]) \in [Versions -> Row]
    BY DEF SwitchedOff, Row, Stages
  <2>3. \A row \in Row : Update(row, req[s].seen, "ga", TRUE) \in Row
    BY DEF Update, Row, Stages
  <2> QED
    BY <1>4, <2>1, <2>2, <2>3 DEF FinishSwitch
<1> QED
  BY <1>1, <1>2, <1>3, <1>4, RowsStep

\* What the commit of a review leaves is an approval.
LEMMA ReviewedType ==
  ASSUME Sound, NEW s \in Sessions, req[s].op = "review"
  PROVE  /\ req[s].id \in Approvals /\ appr[req[s].id] \in Approval
         /\ Reviewed(s) \in Approval
<1> DEFINE a == req[s].id
<1>1. /\ a \in Approvals /\ req[s].actor \in Stewards
      /\ req[s].status \in {"approved", "rejected"}
  BY RequestFields DEF Sound, TypeOK
<1>2. appr[a] \in Approval
  BY <1>1 DEF Sound, TypeOK, ReviewsOfOthers
<1>3. rows[appr[a].version].content \in Contents \union {None}
  BY <1>2 DEF Approval, Row, Sound, TypeOK
<1> QED
  BY <1>1, <1>2, <1>3 DEF Approval, Reviewed

\* An approval stays an approval, because a review under way is of one.
LEMMA ApprType ==
  ASSUME Sound, [Next]_vars
  PROVE  appr' \in [Approvals -> Approval \union {None}]
<1> USE DEF Sound, TypeOK, Finish
<1>1. CASE UNCHANGED appr
  BY <1>1
<1>2. ASSUME NEW s \in Sessions, FinishSubmit(s)
      PROVE  appr' \in [Approvals -> Approval \union {None}]
  <2>1. /\ req[s].version \in Versions /\ req[s].stage \in Targets
        /\ req[s].actor \in Stewards
    BY <1>2, RequestFields DEF FinishSubmit
  <2>2. [version |-> req[s].version, stage |-> req[s].stage, status |-> "pending",
         requester |-> req[s].actor, reviewer |-> None, content |-> None] \in Approval
    BY <2>1 DEF Approval
  <2> QED
    BY <1>2, <2>2 DEF FinishSubmit
<1>3. ASSUME NEW s \in Sessions, FinishReview(s)
      PROVE  appr' \in [Approvals -> Approval \union {None}]
  BY <1>3, ReviewedType DEF FinishReview, Reviewed
<1> QED
  BY <1>1, <1>2, <1>3, ApprStep

\* The part of TypeOK about the requests in memory.
RequestsOK ==
  /\ req \in [Sessions -> Request]
  /\ \A s \in Sessions :
       /\ req[s].op = "switch" => req[s].version \notin req[s].others
       /\ req[s].op = "enforce" => req[s].version \notin req[s].off

\* A session that takes up a well-formed request leaves them all well-formed.
LEMMA OneRequest ==
  ASSUME RequestsOK, NEW s \in Sessions, NEW r \in Request,
         r.op = "switch" => r.version \notin r.others,
         r.op = "enforce" => r.version \notin r.off,
         req' = [req EXCEPT ![s] = r]
  PROVE  RequestsOK'
  BY DEF RequestsOK

\* What a session takes up is well-formed, and the query for the versions to
\* switch off leaves out the target.
LEMMA RequestsType ==
  ASSUME TypeOK, [Next]_vars
  PROVE  RequestsOK'
<1> USE DEF Start
<1>1. RequestsOK
  BY DEF TypeOK, RequestsOK
<1>2. CASE UNCHANGED vars
  BY <1>1, <1>2 DEF vars, RequestsOK
<1>3. ASSUME NEW s \in Sessions, req' = [req EXCEPT ![s] = Idle]
      PROVE  RequestsOK'
  <2>1. Idle \in Request /\ Idle.op \notin {"switch", "enforce"}
    BY DEF Request, Idle
  <2> QED
    BY <1>1, <1>3, <2>1, OneRequest
<1>4. ASSUME NEW s \in Sessions, NEW v \in Versions, NEW c \in Contents, BeginUpsert(s, v, c)
      PROVE  RequestsOK'
  <2> DEFINE r == [op |-> "upsert", version |-> v, content |-> c, write |-> Write(v, c)]
  <2>1. r \in Request /\ r.op \notin {"switch", "enforce"}
    BY DEF Request, Write
  <2> QED
    BY <1>1, <1>4, <2>1, OneRequest DEF BeginUpsert
<1>5. ASSUME NEW s \in Sessions, NEW u \in Stewards, NEW v \in Versions, NEW t \in Asked,
             BeginSubmit(s, u, v, t)
      PROVE  RequestsOK'
  <2> DEFINE r == [op |-> "submit", version |-> v, stage |-> t, actor |-> u]
  <2>1. r \in Request /\ r.op \notin {"switch", "enforce"}
    BY AskedAssumption DEF Request, Targets, Stages
  <2> QED
    BY <1>1, <1>5, <2>1, OneRequest DEF BeginSubmit
<1>6. ASSUME NEW s \in Sessions, NEW u \in Stewards, NEW a \in Approvals,
             NEW status \in {"approved", "rejected"}, BeginReview(s, u, a, status)
      PROVE  RequestsOK'
  <2> DEFINE r == [op |-> "review", id |-> a, actor |-> u, status |-> status]
  <2>1. r \in Request /\ r.op \notin {"switch", "enforce"}
    BY DEF Request
  <2> QED
    BY <1>1, <1>6, <2>1, OneRequest DEF BeginReview
<1>7. ASSUME NEW s \in Sessions, NEW v \in Versions, NEW t \in Targets, BeginRelease(s, v, t)
      PROVE  RequestsOK'
  <2>1. rows[v] \in Row
    BY DEF TypeOK
  <2>2. CASE t = "ga"
    <3> DEFINE r == [op |-> "publish", version |-> v, seen |-> rows[v], back |-> FALSE]
    <3>1. r \in Request /\ r.op \notin {"switch", "enforce"}
      BY <2>1 DEF Request
    <3> QED
      BY <1>1, <1>7, <2>2, <3>1, OneRequest DEF BeginRelease
  <2>3. CASE t # "ga"
    <3> DEFINE r == [op |-> "move", version |-> v, stage |-> t, seen |-> rows[v]]
    <3>1. r \in Request /\ r.op \notin {"switch", "enforce"}
      BY <2>1, <2>3 DEF Request
    <3> QED
      BY <1>1, <1>7, <2>3, <3>1, OneRequest DEF BeginRelease
  <2> QED
    BY <2>2, <2>3
<1>8. ASSUME NEW s \in Sessions, NEW v \in Versions, BeginRollback(s, v)
      PROVE  RequestsOK'
  <2> DEFINE r == [op |-> "publish", version |-> v, seen |-> rows[v], back |-> TRUE]
  <2>1. r \in Request /\ r.op \notin {"switch", "enforce"}
    BY DEF Request, TypeOK
  <2> QED
    BY <1>1, <1>8, <2>1, OneRequest DEF BeginRollback
<1>9. ASSUME NEW s \in Sessions, SelectActive(s)
      PROVE  RequestsOK'
  <2> DEFINE v      == req[s].version
             others == ActiveOthers(v)
             r      == [op |-> "switch", version |-> v, seen |-> req[s].seen,
                        back |-> req[s].back, others |-> others,
                        relabel |-> {w \in others : rows[w].stage # "deprecated"}]
  <2>1. v \in Versions /\ req[s].seen \in Row /\ req[s].back \in BOOLEAN
    BY <1>9, RequestFields DEF SelectActive, TypeOK
  <2>2. others \subseteq Versions /\ v \notin others
    BY DEF ActiveOthers
  <2>3. r \in Request /\ r.op # "enforce" /\ r.version \notin r.others
    BY <2>1, <2>2 DEF Request
  <2>4. req' = [req EXCEPT ![s] = r]
    BY <1>9 DEF SelectActive
  <2> HIDE DEF r
  <2> QED
    BY <1>1, <2>3, <2>4, OneRequest
<1>10. ASSUME NEW s \in Sessions, FlushOld(s)
       PROVE  RequestsOK'
  <2> DEFINE r == [op |-> "enforce", version |-> req[s].version, seen |-> req[s].seen,
                   back |-> req[s].back, off |-> req[s].others,
                   relabel |-> req[s].relabel]
  <2>1. /\ req[s].version \in Versions /\ req[s].seen \in Row /\ req[s].back \in BOOLEAN
        /\ req[s].others \subseteq Versions /\ req[s].relabel \subseteq Versions
        /\ req[s].version \notin req[s].others
    BY <1>10, RequestFields DEF FlushOld, TypeOK
  <2>2. r \in Request /\ r.op # "switch" /\ r.version \notin r.off
    BY <2>1 DEF Request
  <2>3. req' = [req EXCEPT ![s] = r]
    BY <1>10 DEF FlushOld
  <2> HIDE DEF r
  <2> QED
    BY <1>1, <2>2, <2>3, OneRequest
<1> QED
  BY <1>2, <1>3, <1>4, <1>5, <1>6, <1>7, <1>8, <1>9, <1>10
     DEF Next, FinishUpsert, FinishSubmit, FinishReview, FinishMove, FinishSwitch, Abort, Finish

-----------------------------------------------------------------------------
(* Soundness is inductive.                                                 *)

\* A session keeps its request, ends it, takes one up, or goes on with a switch.
LEMMA SessionStep ==
  ASSUME TypeOK, [Next]_vars, NEW s \in Sessions
  PROVE  \/ req'[s] = req[s]
         \/ req'[s] = Idle
         \/ \E v \in Versions, c \in Contents : BeginUpsert(s, v, c)
         \/ \E u \in Stewards, v \in Versions, t \in Asked : BeginSubmit(s, u, v, t)
         \/ \E u \in Stewards, a \in Approvals, status \in {"approved", "rejected"} :
              BeginReview(s, u, a, status)
         \/ \E v \in Versions, t \in Targets : BeginRelease(s, v, t)
         \/ \E v \in Versions : BeginRollback(s, v)
         \/ SelectActive(s)
         \/ FlushOld(s)
<1>1. req \in [Sessions -> Request]
  BY DEF TypeOK
<1>2. CASE UNCHANGED vars
  BY <1>2 DEF vars
<1>3. ASSUME NEW q \in Sessions, NEW r, req' = [req EXCEPT ![q] = r]
      PROVE  req'[s] = req[s] \/ q = s
  BY <1>1, <1>3
<1>4. ASSUME NEW q \in Sessions, Finish(q)
      PROVE  req'[s] \in {req[s], Idle}
  BY <1>1, <1>4 DEF Finish
<1>5. ASSUME NEW q \in Sessions,
             \/ FinishUpsert(q) \/ FinishSubmit(q) \/ FinishReview(q)
             \/ FinishMove(q) \/ FinishSwitch(q) \/ Abort(q)
      PROVE  req'[s] \in {req[s], Idle}
  BY <1>4, <1>5
     DEF FinishUpsert, FinishSubmit, FinishReview, FinishMove, FinishSwitch, Abort
<1>6. ASSUME NEW q \in Sessions, NEW v \in Versions, NEW c \in Contents, BeginUpsert(q, v, c)
      PROVE  req'[s] = req[s] \/ BeginUpsert(s, v, c)
  BY <1>3, <1>6 DEF BeginUpsert, Start
<1>7. ASSUME NEW q \in Sessions, NEW u \in Stewards, NEW v \in Versions, NEW t \in Asked,
             BeginSubmit(q, u, v, t)
      PROVE  req'[s] = req[s] \/ BeginSubmit(s, u, v, t)
  BY <1>3, <1>7 DEF BeginSubmit, Start
<1>8. ASSUME NEW q \in Sessions, NEW u \in Stewards, NEW a \in Approvals,
             NEW status \in {"approved", "rejected"}, BeginReview(q, u, a, status)
      PROVE  req'[s] = req[s] \/ BeginReview(s, u, a, status)
  BY <1>3, <1>8 DEF BeginReview, Start
<1>9. ASSUME NEW q \in Sessions, NEW v \in Versions, NEW t \in Targets, BeginRelease(q, v, t)
      PROVE  req'[s] = req[s] \/ BeginRelease(s, v, t)
  BY <1>3, <1>9 DEF BeginRelease, Start
<1>10. ASSUME NEW q \in Sessions, NEW v \in Versions, BeginRollback(q, v)
       PROVE  req'[s] = req[s] \/ BeginRollback(s, v)
  BY <1>3, <1>10 DEF BeginRollback, Start
<1>11. ASSUME NEW q \in Sessions, SelectActive(q)
       PROVE  req'[s] = req[s] \/ SelectActive(s)
  BY <1>3, <1>11 DEF SelectActive
<1>12. ASSUME NEW q \in Sessions, FlushOld(q)
       PROVE  req'[s] = req[s] \/ FlushOld(s)
  BY <1>3, <1>12 DEF FlushOld
<1> QED
  BY <1>2, <1>5, <1>6, <1>7, <1>8, <1>9, <1>10, <1>11, <1>12, Zenon DEF Next

\* An approval that is there stays, of the same gate and requester.
LEMMA ApprKept ==
  ASSUME Sound, [Next]_vars, NEW a \in Approvals, appr[a] # None
  PROVE  /\ appr'[a] # None
         /\ appr'[a].version = appr[a].version
         /\ appr'[a].stage = appr[a].stage
         /\ appr'[a].requester = appr[a].requester
<1>1. appr \in [Approvals -> Approval \union {None}] /\ appr[a] \in Approval
  BY DEF Sound, TypeOK
<1>2. CASE UNCHANGED appr
  BY <1>2
<1>3. ASSUME NEW s \in Sessions, FinishSubmit(s)
      PROVE  appr'[a] = appr[a]
  BY <1>1, <1>3 DEF FinishSubmit
<1>4. ASSUME NEW s \in Sessions, FinishReview(s)
      PROVE  /\ appr'[a] # None
             /\ appr'[a].version = appr[a].version
             /\ appr'[a].stage = appr[a].stage
             /\ appr'[a].requester = appr[a].requester
  <2>1. req[s].id \in Approvals /\ appr[req[s].id] \in Approval /\ Reviewed(s) \in Approval
    BY <1>4, ReviewedType DEF FinishReview
  <2>2. appr'[a] = IF a = req[s].id THEN Reviewed(s) ELSE appr[a]
    BY <1>1, <1>4 DEF FinishReview, Reviewed
  <2>3. /\ Reviewed(s).version = appr[req[s].id].version
        /\ Reviewed(s).stage = appr[req[s].id].stage
        /\ Reviewed(s).requester = appr[req[s].id].requester
    BY <2>1 DEF Approval, Reviewed
  <2> QED
    BY <1>1, <2>1, <2>2, <2>3, NoneAssumption
<1> QED
  BY <1>2, <1>3, <1>4, ApprStep

\* Reviews under way are of others' requests: it was checked when they began.
LEMMA ReviewsOfOthersKept ==
  ASSUME Sound, [Next]_vars
  PROVE  ReviewsOfOthers'
<1> SUFFICES ASSUME NEW s \in Sessions, req'[s].op = "review"
             PROVE  /\ appr'[req'[s].id] # None
                    /\ req'[s].actor # appr'[req'[s].id].requester
  BY DEF ReviewsOfOthers
<1>1. req'[s] \in Request
  BY RequestsType DEF RequestsOK, Sound
<1>2. req'[s].id \in Approvals
  BY <1>1, RequestFields
<1>3. CASE req'[s] = req[s]
  <2>1. appr[req[s].id] # None /\ req[s].actor # appr[req[s].id].requester
    BY <1>3 DEF Sound, ReviewsOfOthers
  <2> QED
    BY <1>2, <1>3, <2>1, ApprKept
<1>4. ASSUME NEW u \in Stewards, NEW a \in Approvals,
             NEW status \in {"approved", "rejected"}, BeginReview(s, u, a, status)
      PROVE  /\ appr'[req'[s].id] # None
             /\ req'[s].actor # appr'[req'[s].id].requester
  BY <1>4 DEF BeginReview, Start, MayReview, Sound, TypeOK
<1>5. \/ req'[s] = req[s]
      \/ \E u \in Stewards, a \in Approvals, status \in {"approved", "rejected"} :
           BeginReview(s, u, a, status)
  <2>1. Idle.op # "review"
    BY DEF Idle
  <2> USE DEF Start, Sound, TypeOK
  <2>2. ASSUME NEW v \in Versions, NEW c \in Contents, BeginUpsert(s, v, c) PROVE FALSE
    BY <2>2 DEF BeginUpsert
  <2>3. ASSUME NEW u \in Stewards, NEW v \in Versions, NEW t \in Asked,
               BeginSubmit(s, u, v, t) PROVE FALSE
    BY <2>3 DEF BeginSubmit
  <2>4. ASSUME NEW v \in Versions, NEW t \in Targets, BeginRelease(s, v, t) PROVE FALSE
    BY <2>4 DEF BeginRelease
  <2>5. ASSUME NEW v \in Versions, BeginRollback(s, v) PROVE FALSE
    BY <2>5 DEF BeginRollback
  <2>6. ASSUME SelectActive(s) PROVE FALSE
    BY <2>6 DEF SelectActive
  <2>7. ASSUME FlushOld(s) PROVE FALSE
    BY <2>7 DEF FlushOld
  <2> QED
    BY <2>1, <2>2, <2>3, <2>4, <2>5, <2>6, <2>7, SessionStep
<1> QED
  BY <1>3, <1>4, <1>5

\* Sound is an inductive invariant.
LEMMA SoundKept ==
  ASSUME Sound, [Next]_vars
  PROVE  Sound'
<1>1. rolled' \subseteq Versions
  <2>1. UNCHANGED rolled \/ \E s \in Sessions : FinishSwitch(s)
    BY DEF Next, vars, BeginUpsert, FinishUpsert, BeginSubmit, FinishSubmit, BeginReview,
           FinishReview, BeginRelease, BeginRollback, FinishMove, SelectActive, FlushOld, Abort
  <2>2. ASSUME NEW s \in Sessions, FinishSwitch(s)
        PROVE  rolled' \subseteq Versions
    <3>1. req[s].version \in Versions
      BY <2>2, RequestFields DEF FinishSwitch, Sound, TypeOK
    <3> QED
      BY <2>2, <3>1 DEF FinishSwitch, Sound, TypeOK
  <2> QED
    BY <2>1, <2>2 DEF Sound, TypeOK
<1>2. overtaken' \subseteq Sessions
  BY DEF Next, vars, BeginUpsert, FinishUpsert, BeginSubmit, FinishSubmit, BeginReview,
         FinishReview, BeginRelease, BeginRollback, FinishMove, SelectActive, FlushOld,
         FinishSwitch, Abort, Sound, TypeOK
<1>3. TypeOK'
  BY <1>1, <1>2, RowsType, ApprType, RequestsType DEF Sound, TypeOK, RequestsOK
<1> QED
  BY <1>3, ReviewsOfOthersKept DEF Sound

\* Before the first request there are no rows and no request is served.
LEMMA SoundInit ==
  ASSUME Init
  PROVE  Sound
<1>1. NoRow \in Row /\ Idle \in Request /\ Idle.op \notin {"switch", "enforce", "review"}
  BY DEF NoRow, Row, Request, Idle
<1> QED
  BY <1>1 DEF Init, Sound, TypeOK, ReviewsOfOthers

\* Every reachable state is sound.
LEMMA AlwaysSound == Spec => []Sound
  BY SoundInit, SoundKept, PTL DEF Spec

\* The types of the rows, the approvals and the requests in memory
\* (models/ontology.py) hold in every reachable state.
THEOREM TypeCorrect == Spec => []TypeOK
<1>1. Sound => TypeOK
  BY DEF Sound
<1> QED
  BY <1>1, AlwaysSound, PTL

-----------------------------------------------------------------------------
(* At most one version is active, however releases and rollbacks race.     *)

\* A step that puts no other version in force keeps SingleActive.
LEMMA NoNewActive ==
  ASSUME SingleActive, \A w \in Versions : rows'[w].active => rows[w].active
  PROVE  SingleActive'
  BY DEF SingleActive, Active

\* The commit of a switch: the index was asked, or the target is not touched.
LEMMA SwitchKeepsSingle ==
  ASSUME TypeOK, SingleActive, NEW s \in Sessions, FinishSwitch(s)
  PROVE  SingleActive'
<1> DEFINE r == req[s]
           v == r.version
<1>1. /\ r.op = "enforce" /\ v \in Versions /\ r.seen \in Row /\ v \notin r.off
  BY RequestFields DEF FinishSwitch, TypeOK
<1>2. rows \in [Versions -> Row]
  BY DEF TypeOK
<1>3. /\ SwitchedOff(r) \in [Versions -> Row]
      /\ \A w \in Versions :
           SwitchedOff(r)[w].active = IF w \in r.off THEN FALSE ELSE rows[w].active
      /\ SwitchedOff(r)[v] = rows[v]
  BY <1>1, <1>2 DEF SwitchedOff, Row, Stages
<1>4. Update(rows[v], r.seen, "ga", TRUE).active
        = IF r.seen.active THEN rows[v].active ELSE TRUE
  BY <1>1, <1>2 DEF Update, Row
<1>5. \A w \in Versions :
        rows'[w].active = IF w = v
                          THEN IF r.seen.active THEN rows[v].active ELSE TRUE
                          ELSE IF w \in r.off THEN FALSE ELSE rows[w].active
  <2>1. rows' = [SwitchedOff(r) EXCEPT ![v] = Update(@, r.seen, "ga", TRUE)]
    BY DEF FinishSwitch
  <2> HIDE DEF r, v
  <2> QED
    BY <1>1, <1>3, <1>4, <2>1
<1>6. CASE r.seen.active
  BY <1>5, <1>6, NoNewActive
<1>7. CASE ~r.seen.active
  <2>1. \A w \in Versions \ (r.off \union {v}) : ~rows[w].active
    BY <1>7 DEF FinishSwitch, IndexAllows, Active
  <2>2. \A w \in Versions : rows'[w].active => w = v
    BY <1>5, <2>1
  <2> QED
    BY <2>2 DEF SingleActive, Active
<1> QED
  BY <1>6, <1>7

\* At most one version is in force in every reachable state, for every number of
\* concurrent requests: uix_ontology_pkg_single_active (models/ontology.py:45)
\* makes up for the decision switch_active_package takes on rows it has read.
THEOREM AtMostOneInForce == Spec => []SingleActive
<1>1. Init => SingleActive
  BY DEF Init, SingleActive, Active, NoRow
<1>2. ASSUME TypeOK, SingleActive, [Next]_vars
      PROVE  SingleActive'
  <2>1. CASE UNCHANGED rows
    BY <1>2, <2>1 DEF SingleActive, Active
  <2>2. ASSUME NEW s \in Sessions, FinishUpsert(s)
        PROVE  SingleActive'
    <3>1. req[s].version \in Versions
      BY <1>2, <2>2, RequestFields DEF FinishUpsert, TypeOK
    <3>2. \A w \in Versions : rows'[w].active => rows[w].active
      BY <1>2, <2>2, <3>1 DEF FinishUpsert, TypeOK, Row
    <3> QED
      BY <1>2, <3>2, NoNewActive
  <2>3. ASSUME NEW s \in Sessions, FinishMove(s)
        PROVE  SingleActive'
    <3>1. req[s].version \in Versions /\ req[s].seen \in Row
      BY <1>2, <2>3, RequestFields DEF FinishMove, TypeOK
    <3>2. \A w \in Versions : rows'[w].active => rows[w].active
      BY <1>2, <2>3, <3>1 DEF FinishMove, TypeOK, Row, Update
    <3> QED
      BY <1>2, <3>2, NoNewActive
  <2> QED
    BY <1>2, <2>1, <2>2, <2>3, RowsStep, SwitchKeepsSingle
<1> QED
  BY <1>1, <1>2, TypeCorrect, PTL DEF Spec

-----------------------------------------------------------------------------
(* Switches are refused only when another overtook them.                   *)

\* A switch that no other has overtaken knows every active version but its target:
\* as the rows to switch off, then as the rows it has switched off.
KnowsActive ==
  \A s \in Sessions \ overtaken :
    /\ req[s].op = "switch" => ActiveOthers(req[s].version) \subseteq req[s].others
    /\ req[s].op = "enforce" => ActiveOthers(req[s].version) \subseteq req[s].off

\* Only the commit of a switch puts a version in force.
LEMMA NewlyActive ==
  ASSUME TypeOK, [Next]_vars
  PROVE  \/ \A w \in Versions : rows'[w].active => rows[w].active
         \/ \E s \in Sessions : FinishSwitch(s)
<1>1. CASE UNCHANGED rows
  BY <1>1
<1>2. ASSUME NEW s \in Sessions, FinishUpsert(s)
      PROVE  \A w \in Versions : rows'[w].active => rows[w].active
  <2>1. req[s].version \in Versions
    BY <1>2, RequestFields DEF FinishUpsert, TypeOK
  <2> QED
    BY <1>2, <2>1 DEF FinishUpsert, TypeOK, Row
<1>3. ASSUME NEW s \in Sessions, FinishMove(s)
      PROVE  \A w \in Versions : rows'[w].active => rows[w].active
  <2>1. req[s].version \in Versions /\ req[s].seen \in Row
    BY <1>3, RequestFields DEF FinishMove, TypeOK
  <2> QED
    BY <1>3, <2>1 DEF FinishMove, TypeOK, Row, Update
<1> QED
  BY <1>1, <1>2, <1>3, RowsStep

\* A session that no switch has overtaken was not overtaken before, unless its
\* request is over.
LEMMA OvertakenKept ==
  ASSUME TypeOK, [Next]_vars, NEW s \in Sessions \ overtaken'
  PROVE  /\ s \notin overtaken \/ req'[s] = Idle
         /\ \A q \in Sessions : FinishSwitch(q) => req'[s] = Idle \/ ~Switching(s)
<1>1. CASE UNCHANGED overtaken /\ \A q \in Sessions : ~FinishSwitch(q)
  BY <1>1
<1>2. ASSUME NEW q \in Sessions, FinishSwitch(q)
      PROVE  /\ s \notin overtaken \/ req'[s] = Idle
             /\ req'[s] = Idle \/ ~Switching(s)
  BY <1>2 DEF FinishSwitch, Finish, TypeOK
<1>3. ASSUME NEW q \in Sessions, Abort(q)
      PROVE  s \notin overtaken \/ req'[s] = Idle
  BY <1>3 DEF Abort, Finish, TypeOK
<1>4. \/ UNCHANGED overtaken
      \/ \E q \in Sessions : FinishSwitch(q) \/ Abort(q)
  BY DEF Next, vars, BeginUpsert, FinishUpsert, BeginSubmit, FinishSubmit, BeginReview,
         FinishReview, BeginRelease, BeginRollback, FinishMove, SelectActive, FlushOld
<1> QED
  BY <1>1, <1>2, <1>3, <1>4

\* What a session knows of the active versions stays true until it is overtaken.
LEMMA KnowsActiveKept ==
  ASSUME TypeOK, KnowsActive, [Next]_vars
  PROVE  KnowsActive'
<1> DEFINE Knows(s) == /\ req[s].op = "switch" => ActiveOthers(req[s].version) \subseteq req[s].others
                       /\ req[s].op = "enforce" => ActiveOthers(req[s].version) \subseteq req[s].off
<1> SUFFICES ASSUME NEW s \in Sessions \ overtaken'
             PROVE  Knows(s)'
  BY DEF KnowsActive
<1>1. Idle.op \notin {"switch", "enforce"}
  BY DEF Idle
<1>2. ASSUME req'[s] # Idle
      PROVE  Knows(s)
  BY <1>2, OvertakenKept DEF KnowsActive
<1>3. CASE req'[s] = Idle
  BY <1>1, <1>3
<1>4. CASE SelectActive(s)
  <2>1. /\ req'[s].op = "switch" /\ UNCHANGED rows
        /\ req'[s].others = ActiveOthers(req'[s].version)
    BY <1>4 DEF SelectActive, TypeOK
  <2> QED
    BY <2>1 DEF ActiveOthers, Active
<1>5. CASE FlushOld(s)
  <2>1. /\ req[s].op = "switch" /\ req'[s].op = "enforce" /\ UNCHANGED rows
        /\ req'[s].off = req[s].others /\ req'[s].version = req[s].version
    BY <1>5 DEF FlushOld, TypeOK
  <2>2. req'[s] # Idle
    BY <1>1, <2>1
  <2> QED
    BY <1>2, <2>1, <2>2 DEF ActiveOthers, Active
<1>6. CASE req'[s] = req[s] /\ req'[s] # Idle
  <2>1. CASE Switching(s)
    <3>1. \A w \in Versions : rows'[w].active => rows[w].active
      BY <1>6, <2>1, NewlyActive, OvertakenKept
    <3> QED
      BY <1>2, <1>6, <3>1 DEF ActiveOthers, Active
  <2>2. CASE ~Switching(s)
    BY <1>6, <2>2 DEF Switching
  <2> QED
    BY <2>1, <2>2
<1>7. ASSUME \/ \E v \in Versions, c \in Contents : BeginUpsert(s, v, c)
             \/ \E u \in Stewards, v \in Versions, t \in Asked : BeginSubmit(s, u, v, t)
             \/ \E u \in Stewards, a \in Approvals, status \in {"approved", "rejected"} :
                  BeginReview(s, u, a, status)
             \/ \E v \in Versions, t \in Targets : BeginRelease(s, v, t)
             \/ \E v \in Versions : BeginRollback(s, v)
      PROVE  Knows(s)'
  <2>1. req'[s].op \notin {"switch", "enforce"}
    BY <1>7 DEF BeginUpsert, BeginSubmit, BeginReview, BeginRelease, BeginRollback, Start, TypeOK
  <2> QED
    BY <2>1
<1> HIDE DEF Knows
<1> QED
  BY <1>3, <1>4, <1>5, <1>6, <1>7, SessionStep

\* However releases and rollbacks race, the index refuses a switch only because
\* another one committed after it had looked for the active versions: the rows it
\* has flushed before its target are all there are (switch_active_package).
THEOREM SwitchesAreAccepted == Spec => []SwitchIsAccepted
<1>1. Init => KnowsActive
  BY DEF Init, KnowsActive, Idle
<1>2. KnowsActive => SwitchIsAccepted
  BY DEF KnowsActive, SwitchIsAccepted, IndexAllows, ActiveOthers
<1> QED
  BY <1>1, <1>2, KnowsActiveKept, TypeCorrect, PTL DEF Spec

-----------------------------------------------------------------------------
(* Approvals.                                                              *)

\* A gate has at most one pending approval in every reachable state, although
\* submit_approval looks for one before another request commits its own
\* (models/ontology.py:100, uix_ontology_pending_approval_gate).
THEOREM OnePending == Spec => []OnePendingPerGate
<1>1. Init => OnePendingPerGate
  BY DEF Init, OnePendingPerGate
<1>2. ASSUME Sound, OnePendingPerGate, [Next]_vars
      PROVE  OnePendingPerGate'
  <2>1. CASE UNCHANGED appr
    BY <1>2, <2>1 DEF OnePendingPerGate
  <2>2. ASSUME NEW s \in Sessions, FinishSubmit(s)
        PROVE  OnePendingPerGate'
    <3>1. PICK a \in Approvals :
            appr' = [appr EXCEPT ![a] =
                      [version |-> req[s].version, stage |-> req[s].stage,
                       status |-> "pending", requester |-> req[s].actor,
                       reviewer |-> None, content |-> None]]
      BY <2>2 DEF FinishSubmit
    <3>2. appr'[a].version = req[s].version /\ appr'[a].stage = req[s].stage
      BY <1>2, <3>1 DEF Sound, TypeOK
    <3>3. \A b \in Approvals \ {a} : appr'[b] = appr[b]
      BY <1>2, <3>1 DEF Sound, TypeOK
    <3>4. \A b \in Approvals :
            appr[b] # None /\ appr[b].status = "pending" =>
              ~(appr[b].version = req[s].version /\ appr[b].stage = req[s].stage)
      BY <2>2 DEF FinishSubmit, PendingAllowed, GateIs
    <3> QED
      BY <1>2, <3>2, <3>3, <3>4 DEF OnePendingPerGate
  <2>3. ASSUME NEW s \in Sessions, FinishReview(s)
        PROVE  OnePendingPerGate'
    <3>1. /\ req[s].id \in Approvals /\ req[s].status \in {"approved", "rejected"}
          /\ appr[req[s].id] \in Approval
      BY <1>2, <2>3, RequestFields, ReviewedType DEF FinishReview, Sound, TypeOK
    <3>2. appr'[req[s].id] = Reviewed(s)
      BY <1>2, <2>3, <3>1 DEF FinishReview, Reviewed, Sound, TypeOK
    <3>3. appr'[req[s].id].status # "pending"
      BY <3>1, <3>2 DEF Reviewed, Approval
    <3>4. \A b \in Approvals \ {req[s].id} : appr'[b] = appr[b]
      BY <1>2, <2>3, <3>1 DEF FinishReview, Sound, TypeOK
    <3> QED
      BY <1>2, <3>3, <3>4 DEF OnePendingPerGate
  <2> QED
    BY <1>2, <2>1, <2>2, <2>3, ApprStep
<1> QED
  BY <1>1, <1>2, AlwaysSound, PTL DEF Spec

\* Nobody decides on an approval they asked for, in every reachable state and
\* whatever reviews race: the four-eyes rule of review_approval
\* (persistent_service.py:656) is checked against a row that another review may
\* have decided meanwhile, but whose requester never changes.
THEOREM NobodyDecidesForThemselves == Spec => []FourEyes
<1>1. Init => FourEyes
  BY DEF Init, FourEyes
<1>2. ASSUME Sound, FourEyes, [Next]_vars
      PROVE  FourEyes'
  <2>1. CASE UNCHANGED appr
    BY <1>2, <2>1 DEF FourEyes
  <2>2. ASSUME NEW s \in Sessions, FinishSubmit(s)
        PROVE  FourEyes'
    <3>1. PICK a \in Approvals :
            appr' = [appr EXCEPT ![a] =
                      [version |-> req[s].version, stage |-> req[s].stage,
                       status |-> "pending", requester |-> req[s].actor,
                       reviewer |-> None, content |-> None]]
      BY <2>2 DEF FinishSubmit
    <3>2. \A b \in Approvals : appr'[b] = appr[b] \/ appr'[b].status = "pending"
      BY <1>2, <3>1 DEF Sound, TypeOK
    <3> QED
      BY <1>2, <3>2 DEF FourEyes
  <2>3. ASSUME NEW s \in Sessions, FinishReview(s)
        PROVE  FourEyes'
    <3>1. /\ req[s].id \in Approvals /\ req[s].actor \in Stewards
          /\ appr[req[s].id] \in Approval
      BY <1>2, <2>3, RequestFields, ReviewedType DEF FinishReview, Sound, TypeOK
    <3>2. req[s].actor # appr[req[s].id].requester
      BY <1>2, <2>3 DEF FinishReview, Sound, ReviewsOfOthers
    <3>3. appr'[req[s].id] = Reviewed(s)
      BY <1>2, <2>3, <3>1 DEF FinishReview, Reviewed, Sound, TypeOK
    <3>4. /\ appr'[req[s].id].reviewer = req[s].actor
          /\ appr'[req[s].id].requester = appr[req[s].id].requester
      BY <3>1, <3>3 DEF Reviewed, Approval
    <3>5. \A b \in Approvals \ {req[s].id} : appr'[b] = appr[b]
      BY <1>2, <2>3, <3>1 DEF FinishReview, Sound, TypeOK
    <3> QED
      BY <1>2, <3>1, <3>2, <3>4, <3>5 DEF FourEyes
  <2> QED
    BY <1>2, <2>1, <2>2, <2>3, ApprStep
<1> QED
  BY <1>1, <1>2, AlwaysSound, PTL DEF Spec

-----------------------------------------------------------------------------
(* When requests are served one at a time: what each method of             *)
(* PersistentOntologyService guarantees by itself.                         *)

OneAtATime == \A s, t \in Sessions : s = t

\* What a request has read is still so when it writes.
SeenIsCurrent ==
  \A s \in Sessions :
    /\ req[s].op \in {"move", "publish", "switch", "enforce"} =>
         req[s].seen = rows[req[s].version]
    /\ req[s].op = "switch" =>
         /\ req[s].others = ActiveOthers(req[s].version)
         /\ req[s].relabel = {w \in req[s].others : rows[w].stage # "deprecated"}
    /\ req[s].op = "enforce" =>
         /\ req[s].off = ActiveOthers(req[s].version)
         /\ req[s].relabel = {w \in req[s].off : rows[w].stage # "deprecated"}

\* So is what it has checked.
CheckedIsCurrent ==
  \A s \in Sessions :
    /\ req[s].op = "review" => appr[req[s].id].status = "pending"
    /\ req[s].op = "move" => GateOpen(req[s].version, req[s].stage)
    /\ req[s].op \in {"publish", "switch", "enforce"} =>
         req[s].back \/ GateOpen(req[s].version, "ga")

\* What every step of a serial execution preserves.
SerialSound ==
  Sound /\ SeenIsCurrent /\ CheckedIsCurrent /\ ActiveIsGA /\ GatesHonoured

\* With one session, the request a step takes up is the only one.
LEMMA OnlyRequest ==
  ASSUME OneAtATime, TypeOK, NEW s \in Sessions, NEW r, req' = [req EXCEPT ![s] = r]
  PROVE  \A q \in Sessions : req'[q] = r
  BY DEF OneAtATime, TypeOK

\* No request is under way after a commit or a failure.
LEMMA CommitLeavesIdle ==
  ASSUME OneAtATime, TypeOK, NEW s \in Sessions, Finish(s)
  PROVE  SeenIsCurrent' /\ CheckedIsCurrent'
<1>1. \A q \in Sessions : req'[q] = Idle
  BY OnlyRequest DEF Finish
<1>2. Idle.op = "idle"
  BY DEF Idle
<1> QED
  BY <1>1, <1>2 DEF SeenIsCurrent, CheckedIsCurrent

\* Once a gate is open it stays open: in a serial execution nobody reviews an
\* approval that is decided.
LEMMA GateStaysOpen ==
  ASSUME SerialSound, [Next]_vars, NEW v \in Versions, NEW t \in Stages, GateOpen(v, t)
  PROVE  GateOpen(v, t)'
<1> SUFFICES ASSUME t \in Gated
             PROVE  GateIs(v, t, "approved")'
  BY DEF GateOpen
<1>1. PICK a \in Approvals : /\ appr[a] # None
                             /\ appr[a].version = v /\ appr[a].stage = t
                             /\ appr[a].status = "approved"
  BY DEF GateOpen, GateIs
<1>2. CASE UNCHANGED appr
  BY <1>1, <1>2 DEF GateIs
<1>3. ASSUME NEW s \in Sessions, FinishSubmit(s)
      PROVE  appr'[a] = appr[a]
  BY <1>1, <1>3 DEF FinishSubmit, SerialSound, Sound, TypeOK
<1>4. ASSUME NEW s \in Sessions, FinishReview(s)
      PROVE  appr'[a] = appr[a]
  BY <1>1, <1>4 DEF FinishReview, SerialSound, CheckedIsCurrent, Sound, TypeOK
<1> QED
  BY <1>1, <1>2, <1>3, <1>4, ApprStep DEF GateIs

-----------------------------------------------------------------------------
(* One lemma per kind of step.                                             *)

\* A step that changes no row and no rollback mark keeps what the rows promise.
LEMMA RowsUntouched ==
  ASSUME SerialSound, [Next]_vars, UNCHANGED <<rows, rolled>>
  PROVE  ActiveIsGA' /\ GatesHonoured'
<1>1. ActiveIsGA'
  BY DEF SerialSound, ActiveIsGA, Active
<1>2. GatesHonoured'
  BY GateStaysOpen DEF SerialSound, GatesHonoured, GateOpen, Stages
<1> QED
  BY <1>1, <1>2

\* The commit of an upsert creates a draft or replaces a payload.
LEMMA UpsertKeeps ==
  ASSUME SerialSound, [Next]_vars, NEW s \in Sessions, FinishUpsert(s)
  PROVE  ActiveIsGA' /\ GatesHonoured'
<1> DEFINE v == req[s].version
<1>1. v \in Versions
  BY RequestFields DEF SerialSound, Sound, TypeOK, FinishUpsert
<1>2. \A w \in Versions \ {v} : rows'[w] = rows[w]
  BY <1>1 DEF SerialSound, Sound, TypeOK, FinishUpsert
<1>3. \/ rows'[v].stage = rows[v].stage /\ rows'[v].active = rows[v].active
      \/ rows'[v].stage = "draft" /\ rows'[v].active = FALSE
  BY <1>1 DEF SerialSound, Sound, TypeOK, Row, FinishUpsert
<1>4. ActiveIsGA'
  BY <1>1, <1>2, <1>3 DEF SerialSound, ActiveIsGA, Active
<1>5. GatesHonoured'
  <2>1. rolled' = rolled
    BY DEF FinishUpsert
  <2> QED
    BY <1>1, <1>2, <1>3, <2>1, GateStaysOpen DEF SerialSound, GatesHonoured, GateOpen, Stages
<1> QED
  BY <1>4, <1>5

\* The commit of a release to another stage than ga puts the version out of force.
LEMMA MoveKeeps ==
  ASSUME SerialSound, [Next]_vars, NEW s \in Sessions, FinishMove(s)
  PROVE  ActiveIsGA' /\ GatesHonoured'
<1> DEFINE v == req[s].version
           t == req[s].stage
<1>1. v \in Versions /\ t \in Stages \ {"ga"} /\ rows[v] \in Row
  BY RequestFields DEF SerialSound, Sound, TypeOK, FinishMove, Targets
<1>2. req[s].seen = rows[v] /\ GateOpen(v, t)
  BY DEF SerialSound, SeenIsCurrent, CheckedIsCurrent, FinishMove
<1>3. \A w \in Versions \ {v} : rows'[w] = rows[w]
  BY <1>1 DEF SerialSound, Sound, TypeOK, FinishMove
<1>4. rows'[v] = Update(rows[v], rows[v], t, FALSE)
  BY <1>1, <1>2 DEF SerialSound, Sound, TypeOK, FinishMove
<1>5. rows'[v].stage = t /\ rows'[v].active = FALSE
  BY <1>1, <1>4 DEF Update, Row
<1>6. ActiveIsGA'
  BY <1>1, <1>3, <1>5 DEF SerialSound, ActiveIsGA, Active
<1>7. GatesHonoured'
  <2>1. rolled' = rolled
    BY DEF FinishMove
  <2> QED
    BY <1>1, <1>2, <1>3, <1>5, <2>1, GateStaysOpen DEF SerialSound, GatesHonoured, GateOpen, Stages
<1> QED
  BY <1>6, <1>7

\* The commit of a switch puts the target in force and deprecates what was.
LEMMA SwitchKeeps ==
  ASSUME SerialSound, [Next]_vars, NEW s \in Sessions, FinishSwitch(s)
  PROVE  ActiveIsGA' /\ GatesHonoured'
<1>0. PICK v \in Versions : v = req[s].version
  BY RequestFields DEF SerialSound, Sound, TypeOK, FinishSwitch
<1> DEFINE others == ActiveOthers(v)
<1>1. v \in Versions /\ rows \in [Versions -> Row] /\ req[s].back \in BOOLEAN
  BY RequestFields DEF SerialSound, Sound, TypeOK, FinishSwitch
<1>2. /\ req[s].seen = rows[v] /\ req[s].off = others
      /\ req[s].relabel = {w \in others : rows[w].stage # "deprecated"}
      /\ req[s].back \/ GateOpen(v, "ga")
  BY <1>0 DEF SerialSound, SeenIsCurrent, CheckedIsCurrent, FinishSwitch
<1>3. others = {w \in Versions \ {v} : rows[w].active}
  BY DEF ActiveOthers, Active
<1>4. \A w \in Versions \ {v} : rows'[w] = SwitchedOff(req[s])[w]
  BY <1>0, <1>1 DEF FinishSwitch, SwitchedOff
<1>5. \A w \in others : rows'[w].active = FALSE /\ rows'[w].stage = "deprecated"
  <2> SUFFICES ASSUME NEW w \in others
               PROVE  rows'[w].active = FALSE /\ rows'[w].stage = "deprecated"
    OBVIOUS
  <2>1. w \in Versions \ {v} /\ w \in req[s].off /\ rows[w] \in Row
    BY <1>1, <1>2, <1>3
  <2>2. rows'[w] = [rows[w] EXCEPT !.active = FALSE,
                                   !.stage = IF w \in req[s].relabel THEN "deprecated" ELSE @]
    BY <1>4, <2>1 DEF SwitchedOff
  <2>3. w \in req[s].relabel \/ rows[w].stage = "deprecated"
    BY <1>2
  <2> QED
    BY <2>1, <2>2, <2>3 DEF Row
<1>6. \A w \in Versions \ {v} : w \notin others => rows'[w] = rows[w]
  BY <1>1, <1>2, <1>4 DEF SwitchedOff
<1>7. rows'[v].stage = "ga" /\ rows'[v].active = TRUE
  <2>1. rows'[v] = Update(SwitchedOff(req[s])[v], rows[v], "ga", TRUE)
    BY <1>0, <1>1, <1>2 DEF FinishSwitch, SwitchedOff
  <2>2. SwitchedOff(req[s])[v] = rows[v]
    BY <1>1, <1>2, <1>3 DEF SwitchedOff
  <2> QED
    BY <1>1, <2>1, <2>2 DEF Update, Row
<1>8. ActiveIsGA'
  BY <1>3, <1>5, <1>6, <1>7 DEF SerialSound, ActiveIsGA, Active
<1>9. GatesHonoured'
  <2>1. rolled' = IF req[s].back THEN rolled \union {v} ELSE rolled \ {v}
    BY <1>0 DEF FinishSwitch
  <2>2. GateOpen(v, "ga")' \/ v \in rolled'
    <3>1. CASE req[s].back
      BY <2>1, <3>1
    <3>2. CASE GateOpen(v, "ga")
      <4>1. "ga" \in Stages
        BY DEF Stages
      <4> QED
        BY <1>1, <3>2, <4>1, GateStaysOpen
    <3> QED
      BY <1>2, <3>1, <3>2
  <2>3. \A w \in Versions \ {v} : w \in rolled => w \in rolled'
    BY <2>1
  <2>4. ASSUME NEW w \in Versions, w # v, w \notin others
        PROVE  /\ rows'[w].stage = "staging" => GateOpen(w, "staging")'
               /\ rows'[w].stage = "ga" => GateOpen(w, "ga")' \/ w \in rolled'
    BY <1>6, <2>3, <2>4, GateStaysOpen DEF SerialSound, GatesHonoured, GateOpen, Stages
  <2>5. ASSUME NEW w \in Versions
        PROVE  /\ rows'[w].stage = "staging" => GateOpen(w, "staging")'
               /\ rows'[w].stage = "ga" => GateOpen(w, "ga")' \/ w \in rolled'
    BY <1>5, <1>7, <2>2, <2>4
  <2> QED
    BY <2>5 DEF GatesHonoured, GateOpen
<1> QED
  BY <1>8, <1>9

-----------------------------------------------------------------------------
(* What requests know when they are served one at a time.                  *)

\* A request that starts knows what the rows say; the query for the versions to
\* switch off adds what they say of those.
LEMMA RequestsCurrent ==
  ASSUME OneAtATime, SerialSound, [Next]_vars
  PROVE  SeenIsCurrent' /\ CheckedIsCurrent'
<1>1. TypeOK
  BY DEF SerialSound, Sound
<1>2. CASE UNCHANGED vars
  BY <1>2 DEF vars, SerialSound, SeenIsCurrent, CheckedIsCurrent, ActiveOthers, Active,
              GateOpen, GateIs
<1>3. ASSUME NEW s \in Sessions, NEW v \in Versions, NEW c \in Contents, BeginUpsert(s, v, c)
      PROVE  SeenIsCurrent' /\ CheckedIsCurrent'
  <2>1. \A q \in Sessions : req'[q].op = "upsert"
    <3> DEFINE r == [op |-> "upsert", version |-> v, content |-> c, write |-> Write(v, c)]
    <3>1. req' = [req EXCEPT ![s] = r]
      BY <1>1, <1>3 DEF BeginUpsert, Start
    <3>2. \A q \in Sessions : req'[q] = r
      BY <1>1, <3>1, OnlyRequest
    <3> QED
      BY <3>2
  <2> QED
    BY <2>1 DEF SeenIsCurrent, CheckedIsCurrent
<1>4. ASSUME NEW s \in Sessions, NEW u \in Stewards, NEW v \in Versions, NEW t \in Asked,
             BeginSubmit(s, u, v, t)
      PROVE  SeenIsCurrent' /\ CheckedIsCurrent'
  <2>1. \A q \in Sessions : req'[q].op = "submit"
    <3> DEFINE r == [op |-> "submit", version |-> v, stage |-> t, actor |-> u]
    <3>1. req' = [req EXCEPT ![s] = r]
      BY <1>1, <1>4 DEF BeginSubmit, Start
    <3>2. \A q \in Sessions : req'[q] = r
      BY <1>1, <3>1, OnlyRequest
    <3> QED
      BY <3>2
  <2> QED
    BY <2>1 DEF SeenIsCurrent, CheckedIsCurrent
<1>5. ASSUME NEW s \in Sessions, NEW u \in Stewards, NEW a \in Approvals,
             NEW status \in {"approved", "rejected"}, BeginReview(s, u, a, status)
      PROVE  SeenIsCurrent' /\ CheckedIsCurrent'
  <2>1. \A q \in Sessions : req'[q].op = "review" /\ req'[q].id = a
    <3> DEFINE r == [op |-> "review", id |-> a, actor |-> u, status |-> status]
    <3>1. req' = [req EXCEPT ![s] = r]
      BY <1>1, <1>5 DEF BeginReview, Start
    <3>2. \A q \in Sessions : req'[q] = r
      BY <1>1, <3>1, OnlyRequest
    <3> QED
      BY <3>2
  <2>2. appr'[a].status = "pending"
    BY <1>5 DEF BeginReview, MayReview
  <2> QED
    BY <2>1, <2>2 DEF SeenIsCurrent, CheckedIsCurrent
<1>6. ASSUME NEW s \in Sessions, NEW v \in Versions, NEW t \in Targets, BeginRelease(s, v, t)
      PROVE  SeenIsCurrent' /\ CheckedIsCurrent'
  <2>1. UNCHANGED <<rows, appr>> /\ GateOpen(v, t)
    BY <1>6 DEF BeginRelease
  <2>2. GateOpen(v, t)'
    BY <2>1 DEF GateOpen, GateIs
  <2>3. CASE t = "ga"
    <3>1. \A q \in Sessions : /\ req'[q].op = "publish" /\ req'[q].version = v
                              /\ req'[q].seen = rows[v]
      <4> DEFINE r == [op |-> "publish", version |-> v, seen |-> rows[v], back |-> FALSE]
      <4>1. req' = [req EXCEPT ![s] = r]
        BY <1>1, <1>6, <2>3 DEF BeginRelease, Start
      <4>2. \A q \in Sessions : req'[q] = r
        BY <1>1, <4>1, OnlyRequest
      <4> QED
        BY <4>2
    <3> QED
      BY <2>1, <2>2, <2>3, <3>1 DEF SeenIsCurrent, CheckedIsCurrent
  <2>4. CASE t # "ga"
    <3>1. \A q \in Sessions : /\ req'[q].op = "move" /\ req'[q].version = v
                              /\ req'[q].stage = t /\ req'[q].seen = rows[v]
      <4> DEFINE r == [op |-> "move", version |-> v, stage |-> t, seen |-> rows[v]]
      <4>1. req' = [req EXCEPT ![s] = r]
        BY <1>1, <1>6, <2>4 DEF BeginRelease, Start
      <4>2. \A q \in Sessions : req'[q] = r
        BY <1>1, <4>1, OnlyRequest
      <4> QED
        BY <4>2
    <3> QED
      BY <2>1, <2>2, <3>1 DEF SeenIsCurrent, CheckedIsCurrent
  <2> QED
    BY <2>3, <2>4
<1>7. ASSUME NEW s \in Sessions, NEW v \in Versions, BeginRollback(s, v)
      PROVE  SeenIsCurrent' /\ CheckedIsCurrent'
  <2>1. \A q \in Sessions : /\ req'[q].op = "publish" /\ req'[q].version = v
                            /\ req'[q].seen = rows[v] /\ req'[q].back = TRUE
    <3> DEFINE r == [op |-> "publish", version |-> v, seen |-> rows[v], back |-> TRUE]
    <3>1. req' = [req EXCEPT ![s] = r]
      BY <1>1, <1>7 DEF BeginRollback, Start
    <3>2. \A q \in Sessions : req'[q] = r
      BY <1>1, <3>1, OnlyRequest
    <3> QED
      BY <3>2
  <2>2. UNCHANGED rows
    BY <1>7 DEF BeginRollback
  <2> QED
    BY <2>1, <2>2 DEF SeenIsCurrent, CheckedIsCurrent
<1>8. ASSUME NEW s \in Sessions, SelectActive(s)
      PROVE  SeenIsCurrent' /\ CheckedIsCurrent'
  <2>1. PICK v \in Versions : v = req[s].version
    BY <1>1, <1>8, RequestFields DEF TypeOK, SelectActive
  <2>2. UNCHANGED <<rows, appr>> /\ req[s].op = "publish"
    BY <1>8 DEF SelectActive
  <2>3. \A q \in Sessions :
          /\ req'[q].op = "switch" /\ req'[q].version = v
          /\ req'[q].seen = req[s].seen /\ req'[q].back = req[s].back
          /\ req'[q].others = ActiveOthers(v)
          /\ req'[q].relabel = {w \in ActiveOthers(v) : rows[w].stage # "deprecated"}
    BY <1>1, <1>8, <2>1, OnlyRequest DEF SelectActive
  <2>4. req[s].seen = rows[v] /\ (req[s].back \/ GateOpen(v, "ga"))
    BY <2>1, <2>2 DEF SerialSound, SeenIsCurrent, CheckedIsCurrent
  <2>5. ActiveOthers(v)' = ActiveOthers(v) /\ GateOpen(v, "ga")' = GateOpen(v, "ga")
    BY <2>2 DEF ActiveOthers, Active, GateOpen, GateIs
  <2>6. SeenIsCurrent'
    BY <2>2, <2>3, <2>4, <2>5 DEF SeenIsCurrent
  <2>7. CheckedIsCurrent'
    BY <2>3, <2>4, <2>5 DEF CheckedIsCurrent
  <2> QED
    BY <2>6, <2>7
<1>9. ASSUME NEW s \in Sessions, FlushOld(s)
      PROVE  SeenIsCurrent' /\ CheckedIsCurrent'
  <2>1. PICK v \in Versions : v = req[s].version
    BY <1>1, <1>9, RequestFields DEF TypeOK, FlushOld
  <2>2. UNCHANGED <<rows, appr>> /\ req[s].op = "switch"
    BY <1>9 DEF FlushOld
  <2>3. \A q \in Sessions :
          /\ req'[q].op = "enforce" /\ req'[q].version = v
          /\ req'[q].seen = req[s].seen /\ req'[q].back = req[s].back
          /\ req'[q].off = req[s].others /\ req'[q].relabel = req[s].relabel
    <3> DEFINE r == [op |-> "enforce", version |-> req[s].version, seen |-> req[s].seen,
                     back |-> req[s].back, off |-> req[s].others,
                     relabel |-> req[s].relabel]
    <3>1. req' = [req EXCEPT ![s] = r]
      BY <1>9 DEF FlushOld
    <3>2. \A q \in Sessions : req'[q] = r
      BY <1>1, <3>1, OnlyRequest
    <3> QED
      BY <2>1, <3>2
  <2>4. /\ req[s].seen = rows[v] /\ (req[s].back \/ GateOpen(v, "ga"))
        /\ req[s].others = ActiveOthers(v)
        /\ req[s].relabel = {w \in req[s].others : rows[w].stage # "deprecated"}
    BY <2>1, <2>2 DEF SerialSound, SeenIsCurrent, CheckedIsCurrent
  <2>5. ActiveOthers(v)' = ActiveOthers(v) /\ GateOpen(v, "ga")' = GateOpen(v, "ga")
    BY <2>2 DEF ActiveOthers, Active, GateOpen, GateIs
  <2>6. SeenIsCurrent'
    BY <2>2, <2>3, <2>4, <2>5 DEF SeenIsCurrent
  <2>7. CheckedIsCurrent'
    BY <2>3, <2>4, <2>5 DEF CheckedIsCurrent
  <2> QED
    BY <2>6, <2>7
<1>10. ASSUME NEW s \in Sessions, Finish(s)
       PROVE  SeenIsCurrent' /\ CheckedIsCurrent'
  BY <1>1, <1>10, CommitLeavesIdle
<1> QED
  BY <1>2, <1>3, <1>4, <1>5, <1>6, <1>7, <1>8, <1>9, <1>10
     DEF Next, FinishUpsert, FinishSubmit, FinishReview, FinishMove, FinishSwitch, Abort

\* A serial execution stays sound.
LEMMA SerialSoundKept ==
  ASSUME OneAtATime, SerialSound, [Next]_vars
  PROVE  SerialSound'
<1>1. Sound' /\ SeenIsCurrent' /\ CheckedIsCurrent'
  BY SoundKept, RequestsCurrent DEF SerialSound
<1>2. ActiveIsGA' /\ GatesHonoured'
  <2>1. \/ UNCHANGED <<rows, rolled>>
        \/ \E s \in Sessions : FinishUpsert(s) \/ FinishMove(s) \/ FinishSwitch(s)
    BY DEF Next, vars, BeginUpsert, BeginSubmit, FinishSubmit, BeginReview, FinishReview,
           BeginRelease, BeginRollback, SelectActive, FlushOld, Abort
  <2> QED
    BY <2>1, RowsUntouched, UpsertKeeps, MoveKeeps, SwitchKeeps
<1> QED
  BY <1>1, <1>2 DEF SerialSound

\* So it is sound from the first request on.
LEMMA AlwaysSerialSound ==
  ASSUME OneAtATime
  PROVE  Spec => []SerialSound
<1>1. Init => SerialSound
  BY SoundInit DEF Init, SerialSound, SeenIsCurrent, CheckedIsCurrent, ActiveIsGA,
                   GatesHonoured, Active, NoRow, Idle
<1> QED
  BY <1>1, SerialSoundKept, PTL DEF Spec

\* Requests served one at a time keep the version in force and the version at ga
\* the same (release_package and switch_active_package).
THEOREM InForceIsGA ==
  ASSUME OneAtATime
  PROVE  Spec => []ActiveIsGA
<1>1. SerialSound => ActiveIsGA
  BY DEF SerialSound
<1> QED
  BY <1>1, AlwaysSerialSound, PTL

\* Requests served one at a time let no version into a gated stage without an
\* approval for it, rollbacks aside (release_package, _ensure_approval_gate).
THEOREM GatesAreHonoured ==
  ASSUME OneAtATime
  PROVE  Spec => []GatesHonoured
<1>1. SerialSound => GatesHonoured
  BY DEF SerialSound
<1> QED
  BY <1>1, AlwaysSerialSound, PTL

-----------------------------------------------------------------------------
(* Requests served one at a time follow PackageLifecycle.                  *)

\* The stage a version had when its release or rollback was checked is the stage
\* it has when that commits.
TransitionIsCurrent ==
  \A s \in Sessions :
    /\ req[s].op = "move" => /\ Exists(req[s].version)
                             /\ Transition(rows[req[s].version].stage, req[s].stage)
    /\ req[s].op \in {"publish", "switch", "enforce"} =>
         /\ Exists(req[s].version)
         /\ req[s].back \/ Transition(rows[req[s].version].stage, "ga")

\* What the lifecycle calls the version in force.
InForce == IF \E v \in Versions : Active(v) THEN CHOOSE v \in Versions : Active(v) ELSE None

LifecycleSound == SerialSound /\ TransitionIsCurrent /\ SingleActive

\* A release or a rollback starts on a version it has just checked, and no other
\* request moves that version before it commits.
LEMMA TransitionsCurrent ==
  ASSUME OneAtATime, SerialSound, TransitionIsCurrent, [Next]_vars
  PROVE  TransitionIsCurrent'
<1>1. TypeOK
  BY DEF SerialSound, Sound
<1>2. CASE UNCHANGED vars
  BY <1>2 DEF vars, TransitionIsCurrent, Exists
<1>3. ASSUME NEW s \in Sessions, NEW v \in Versions, NEW t \in Targets, BeginRelease(s, v, t)
      PROVE  TransitionIsCurrent'
  <2> DEFINE move == [op |-> "move", version |-> v, stage |-> t, seen |-> rows[v]]
             publish == [op |-> "publish", version |-> v, seen |-> rows[v], back |-> FALSE]
  <2>1. UNCHANGED rows /\ Exists(v) /\ Transition(rows[v].stage, t)
    BY <1>3 DEF BeginRelease
  <2>2. req' = [req EXCEPT ![s] = IF t = "ga" THEN publish ELSE move]
    BY <1>3 DEF BeginRelease, Start
  <2>3. \A q \in Sessions : req'[q] = IF t = "ga" THEN publish ELSE move
    BY <1>1, <2>2, OnlyRequest
  <2> QED
    BY <2>1, <2>3 DEF TransitionIsCurrent, Exists
<1>4. ASSUME NEW s \in Sessions, NEW v \in Versions, BeginRollback(s, v)
      PROVE  TransitionIsCurrent'
  <2> DEFINE publish == [op |-> "publish", version |-> v, seen |-> rows[v], back |-> TRUE]
  <2>1. UNCHANGED rows /\ Exists(v) /\ req' = [req EXCEPT ![s] = publish]
    BY <1>4 DEF BeginRollback, Start
  <2>2. \A q \in Sessions : req'[q] = publish
    BY <1>1, <2>1, OnlyRequest
  <2> QED
    BY <2>1, <2>2 DEF TransitionIsCurrent, Exists
<1>5. ASSUME NEW s \in Sessions, SelectActive(s)
      PROVE  TransitionIsCurrent'
  <2>1. UNCHANGED rows /\ req[s].op = "publish"
    BY <1>5 DEF SelectActive
  <2>2. \A q \in Sessions : /\ req'[q].op = "switch" /\ req'[q].version = req[s].version
                            /\ req'[q].back = req[s].back
    BY <1>1, <1>5, OnlyRequest DEF SelectActive
  <2> QED
    BY <2>1, <2>2 DEF TransitionIsCurrent, Exists
<1>11. ASSUME NEW s \in Sessions, FlushOld(s)
       PROVE  TransitionIsCurrent'
  <2>1. UNCHANGED rows /\ req[s].op = "switch"
    BY <1>11 DEF FlushOld
  <2>2. \A q \in Sessions : /\ req'[q].op = "enforce" /\ req'[q].version = req[s].version
                            /\ req'[q].back = req[s].back
    <3> DEFINE r == [op |-> "enforce", version |-> req[s].version, seen |-> req[s].seen,
                     back |-> req[s].back, off |-> req[s].others,
                     relabel |-> req[s].relabel]
    <3>1. req' = [req EXCEPT ![s] = r]
      BY <1>11 DEF FlushOld
    <3>2. \A q \in Sessions : req'[q] = r
      BY <1>1, <3>1, OnlyRequest
    <3> QED
      BY <3>2
  <2> QED
    BY <2>1, <2>2 DEF TransitionIsCurrent, Exists
<1>6. ASSUME NEW s \in Sessions, NEW r, req' = [req EXCEPT ![s] = r],
             r.op \in {"idle", "upsert", "submit", "review"}
      PROVE  TransitionIsCurrent'
  <2>1. \A q \in Sessions : req'[q] = r
    BY <1>1, <1>6, OnlyRequest
  <2> QED
    BY <1>6, <2>1 DEF TransitionIsCurrent
<1>7. ASSUME NEW s \in Sessions, Finish(s)
      PROVE  TransitionIsCurrent'
  BY <1>6, <1>7 DEF Finish, Idle
<1>8. ASSUME NEW s \in Sessions, NEW v \in Versions, NEW c \in Contents, BeginUpsert(s, v, c)
      PROVE  TransitionIsCurrent'
  BY <1>6, <1>8 DEF BeginUpsert, Start
<1>9. ASSUME NEW s \in Sessions, NEW u \in Stewards, NEW v \in Versions, NEW t \in Asked,
             BeginSubmit(s, u, v, t)
      PROVE  TransitionIsCurrent'
  BY <1>6, <1>9 DEF BeginSubmit, Start
<1>10. ASSUME NEW s \in Sessions, NEW u \in Stewards, NEW a \in Approvals,
              NEW status \in {"approved", "rejected"}, BeginReview(s, u, a, status)
       PROVE  TransitionIsCurrent'
  BY <1>6, <1>10 DEF BeginReview, Start
<1> QED
  BY <1>2, <1>3, <1>4, <1>5, <1>7, <1>8, <1>9, <1>10, <1>11
     DEF Next, FinishUpsert, FinishSubmit, FinishReview, FinishMove, FinishSwitch, Abort

\* With at most one active version, InForce is that version.
LEMMA InForceIs ==
  ASSUME SingleActive
  PROVE  /\ \A v \in Versions : Active(v) => InForce = v
         /\ (\A v \in Versions : ~Active(v)) => InForce = None
         /\ \A v \in Versions : InForce = v => Active(v)
<1>1. ASSUME NEW v \in Versions, Active(v)
      PROVE  InForce = v
  <2> DEFINE w == CHOOSE u \in Versions : Active(u)
  <2>1. w \in Versions /\ Active(w)
    BY <1>1
  <2>2. w = v
    BY <1>1, <2>1 DEF SingleActive
  <2> QED
    BY <1>1, <2>2 DEF InForce
<1>2. ASSUME \A v \in Versions : ~Active(v)
      PROVE  InForce = None
  BY <1>2 DEF InForce
<1>3. ASSUME NEW v \in Versions, InForce = v
      PROVE  Active(v)
  <2>1. CASE \A u \in Versions : ~Active(u)
    BY <1>2, <1>3, <2>1, NoneAssumption
  <2>2. ASSUME NEW u \in Versions, Active(u)
        PROVE  Active(v)
    BY <1>1, <1>3, <2>2
  <2> QED
    BY <2>1, <2>2
<1> QED
  BY <1>1, <1>2, <1>3

\* The commit of an upsert creates a draft or leaves the lifecycle where it is.
LEMMA UpsertImplements ==
  ASSUME LifecycleSound, TypeOK', NEW s \in Sessions, FinishUpsert(s)
  PROVE  [L!Next]_(L!vars)
<1>1. PICK v \in Versions : v = req[s].version
  BY RequestFields DEF LifecycleSound, SerialSound, Sound, TypeOK, FinishUpsert
<1>2. rows \in [Versions -> Row] /\ rows' \in [Versions -> Row]
  BY DEF LifecycleSound, SerialSound, Sound, TypeOK
<1>3. \A w \in Versions \ {v} : rows'[w] = rows[w]
  BY <1>1, <1>2 DEF FinishUpsert
<1>4. CASE req[s].write = "insert"
  <2>1. rows[v].stage = "absent" /\ rows'[v].stage = "draft" /\ ~rows'[v].active
    BY <1>1, <1>2, <1>4 DEF FinishUpsert, Exists
  <2>2. ~rows[v].active
    BY <2>1 DEF LifecycleSound, SerialSound, ActiveIsGA, Active
  <2>3. \A w \in Versions : Active(w)' <=> Active(w)
    BY <1>3, <2>1, <2>2 DEF Active
  <2>4. InForce' = InForce
    BY <2>3 DEF InForce
  <2>5. [w \in Versions |-> rows'[w].stage]
          = [[w \in Versions |-> rows[w].stage] EXCEPT ![v] = "draft"]
    BY <1>3, <2>1
  <2>6. L!Create(v)
    BY <2>1, <2>4, <2>5 DEF L!Create, InForce
  <2> QED
    BY <2>6 DEF L!Next
<1>5. CASE req[s].write # "insert"
  <2>1. rows'[v].stage = rows[v].stage /\ rows'[v].active = rows[v].active
    BY <1>1, <1>2, <1>5 DEF FinishUpsert, Row
  <2>2. \A w \in Versions : rows'[w].stage = rows[w].stage /\ (Active(w)' <=> Active(w))
    BY <1>3, <2>1 DEF Active
  <2>3. InForce' = InForce
    BY <2>2 DEF InForce
  <2> QED
    BY <2>2, <2>3 DEF L!vars, InForce
<1> QED
  BY <1>4, <1>5

\* The commit of a release to another stage promotes the version, retires it or
\* leaves it where it is.
LEMMA MoveImplements ==
  ASSUME LifecycleSound, TypeOK', NEW s \in Sessions, FinishMove(s)
  PROVE  [L!Next]_(L!vars)
<1>1. PICK v \in Versions, t \in Targets \ {"ga"} : v = req[s].version /\ t = req[s].stage
  BY RequestFields DEF LifecycleSound, SerialSound, Sound, TypeOK, FinishMove
<1>2. rows \in [Versions -> Row] /\ rows' \in [Versions -> Row]
  BY DEF LifecycleSound, SerialSound, Sound, TypeOK
<1>3. /\ req[s].seen = rows[v]
      /\ rows[v].stage # "absent" /\ Transition(rows[v].stage, t)
  BY <1>1 DEF LifecycleSound, SerialSound, SeenIsCurrent, TransitionIsCurrent, Exists, FinishMove
<1>4. \A w \in Versions \ {v} : rows'[w] = rows[w]
  BY <1>1, <1>2 DEF FinishMove
<1>5. rows'[v].stage = t /\ rows'[v].active = FALSE
  <2>1. rows'[v] = Update(rows[v], rows[v], t, FALSE)
    BY <1>1, <1>2, <1>3 DEF FinishMove
  <2> QED
    BY <1>2, <2>1 DEF Update, Row
<1>6. [w \in Versions |-> rows'[w].stage] = [[w \in Versions |-> rows[w].stage] EXCEPT ![v] = t]
  BY <1>4, <1>5
<1>7. CASE ~Active(v)
  <2>1. InForce' = InForce
    <3>1. \A w \in Versions : Active(w)' <=> Active(w)
      BY <1>4, <1>5, <1>7 DEF Active
    <3> QED
      BY <3>1 DEF InForce
  <2>2. InForce # v
    BY <1>7, InForceIs DEF LifecycleSound
  <2>3. CASE t = rows[v].stage
    <3>1. [w \in Versions |-> rows'[w].stage] = [w \in Versions |-> rows[w].stage]
      BY <1>6, <2>3
    <3> QED
      BY <2>1, <3>1 DEF L!vars, InForce
  <2>4. CASE t = "deprecated"
    <3>1. L!Retire(v)
      BY <1>3, <1>6, <2>1, <2>2, <2>4 DEF L!Retire, InForce
    <3> QED
      BY <3>1 DEF L!Next
  <2>5. CASE \/ rows[v].stage = "draft" /\ t = "review"
             \/ rows[v].stage = "review" /\ t = "staging"
    <3>1. L!Promote(v)
      BY <1>6, <2>1, <2>5 DEF L!Promote, InForce
    <3> QED
      BY <3>1 DEF L!Next
  <2> QED
    BY <1>1, <1>3, <2>3, <2>4, <2>5 DEF Transition, Allowed
<1>8. CASE Active(v)
  <2>1. rows[v].stage = "ga" /\ InForce = v
    BY <1>8, InForceIs DEF LifecycleSound, SerialSound, ActiveIsGA
  <2>2. t = "deprecated"
    BY <1>1, <1>3, <2>1 DEF Transition, Allowed
  <2>3. InForce' = None
    <3>1. \A w \in Versions : ~Active(w)'
      BY <1>4, <1>5, <1>8 DEF Active, LifecycleSound, SingleActive
    <3> QED
      BY <3>1 DEF InForce
  <2>4. L!Retire(v)
    BY <1>3, <1>6, <2>1, <2>2, <2>3 DEF L!Retire, InForce
  <2> QED
    BY <2>4 DEF L!Next
<1> QED
  BY <1>7, <1>8

\* The commit of a switch enforces its version, and what was in force is deprecated
\* in the same step.
LEMMA SwitchImplements ==
  ASSUME LifecycleSound, SingleActive', TypeOK', NEW s \in Sessions, FinishSwitch(s)
  PROVE  [L!Next]_(L!vars)
<1>1. PICK v \in Versions : v = req[s].version
  BY RequestFields DEF LifecycleSound, SerialSound, Sound, TypeOK, FinishSwitch
<1> DEFINE others == ActiveOthers(v)
<1>2. rows \in [Versions -> Row]
  BY DEF LifecycleSound, SerialSound, Sound, TypeOK
<1>3. /\ req[s].seen = rows[v] /\ req[s].off = others
      /\ req[s].relabel = {w \in others : rows[w].stage # "deprecated"}
      /\ rows[v].stage # "absent"
      /\ req[s].back \/ Transition(rows[v].stage, "ga")
  BY <1>1 DEF LifecycleSound, SerialSound, SeenIsCurrent, TransitionIsCurrent, Exists, FinishSwitch
<1>4. \A w \in Versions \ {v} : rows'[w] = SwitchedOff(req[s])[w]
  BY <1>1, <1>2 DEF FinishSwitch, SwitchedOff
<1>5. \A w \in Versions : w \in others <=> w # v /\ w = InForce
  BY InForceIs DEF LifecycleSound, ActiveOthers
<1>6. \A w \in Versions \ {v} : rows'[w].stage = IF w = InForce THEN "deprecated" ELSE rows[w].stage
  <2> SUFFICES ASSUME NEW w \in Versions \ {v}
               PROVE  rows'[w].stage = IF w = InForce THEN "deprecated" ELSE rows[w].stage
    OBVIOUS
  <2>1. CASE w \notin others
    BY <1>3, <1>4, <1>5, <2>1 DEF SwitchedOff
  <2>2. CASE w \in others
    <3>1. rows'[w] = [rows[w] EXCEPT !.active = FALSE,
                                     !.stage = IF w \in req[s].relabel THEN "deprecated" ELSE @]
      BY <1>3, <1>4, <2>2 DEF SwitchedOff
    <3>2. w \in req[s].relabel \/ rows[w].stage = "deprecated"
      BY <1>3, <2>2
    <3> QED
      BY <1>2, <1>5, <2>2, <3>1, <3>2 DEF Row
  <2> QED
    BY <2>1, <2>2
<1>7. rows'[v].stage = "ga" /\ rows'[v].active = TRUE
  <2>1. SwitchedOff(req[s])[v] = rows[v]
    BY <1>3 DEF SwitchedOff, ActiveOthers
  <2>2. rows'[v] = Update(rows[v], rows[v], "ga", TRUE)
    BY <1>1, <1>2, <1>3, <2>1 DEF FinishSwitch, SwitchedOff
  <2> QED
    BY <1>2, <2>2 DEF Update, Row
<1>8. InForce' = v
  <2> DEFINE w == CHOOSE u \in Versions : rows'[u].active
  <2>1. InForce' = w
    BY <1>7 DEF InForce, Active
  <2>2. w \in Versions /\ rows'[w].active
    BY <1>7
  <2>3. w = v
    BY <1>7, <2>2 DEF SingleActive, Active
  <2> QED
    BY <2>1, <2>3
<1>9. L!Enforce(v)
  <2>1. [w \in Versions |-> rows'[w].stage]
          = [w \in Versions |-> IF w = v THEN "ga" ELSE IF w = InForce THEN "deprecated"
                                ELSE [u \in Versions |-> rows[u].stage][w]]
    BY <1>6, <1>7
  <2> QED
    BY <1>8, <2>1 DEF L!Enforce, InForce
<1>10. L!Publish(v) \/ L!Rollback(v)
  BY <1>3, <1>9 DEF L!Publish, L!Rollback, Transition, Allowed
<1> QED
  BY <1>10 DEF L!Next

\* Every step of requests served one at a time is a step of the lifecycle or none.
LEMMA LifecycleStep ==
  ASSUME LifecycleSound, LifecycleSound', [Next]_vars
  PROVE  [L!Next]_(L!vars)
<1>1. CASE UNCHANGED rows
  <2>1. \A w \in Versions : Active(w)' <=> Active(w)
    BY <1>1 DEF Active
  <2>2. InForce' = InForce
    BY <2>1 DEF InForce
  <2> QED
    BY <1>1, <2>2 DEF L!vars, InForce
<1>2. SingleActive' /\ TypeOK'
  BY DEF LifecycleSound, SerialSound, Sound
<1> QED
  BY <1>1, <1>2, RowsStep, UpsertImplements, MoveImplements, SwitchImplements

\* Governance requests served one at a time follow the lifecycle: a version is
\* promoted step by step, and the one it replaces is deprecated in the same step
\* (release, rollback, switch_active_package).
THEOREM LifecycleIsFollowed ==
  ASSUME OneAtATime
  PROVE  Spec => ImplementsLifecycle
<1>1. Init => L!Init
  <2> SUFFICES ASSUME Init
               PROVE  L!Init
    OBVIOUS
  <2>1. \A v \in Versions : rows[v].stage = "absent" /\ ~Active(v)
    BY DEF Init, Active, NoRow
  <2> QED
    BY <2>1 DEF L!Init
<1>2. Init => TransitionIsCurrent
  BY DEF Init, TransitionIsCurrent, Idle
<1>3. Spec => []TransitionIsCurrent
  BY <1>2, TransitionsCurrent, AlwaysSerialSound, PTL DEF Spec
<1>4. LifecycleSound /\ LifecycleSound' /\ [Next]_vars => [L!Next]_(L!vars)
  BY LifecycleStep
<1>5. SerialSound /\ TransitionIsCurrent /\ SingleActive => LifecycleSound
  BY DEF LifecycleSound
<1> QED
  BY <1>1, <1>3, <1>4, <1>5, AlwaysSerialSound, AtMostOneInForce, PTL
     DEF Spec, ImplementsLifecycle, L!Spec
=============================================================================
