-------------------------- MODULE RuleAssetsProofs --------------------------
(***************************************************************************)
(* Proofs about RuleAssets: whatever requests overlap and whatever fails,  *)
(* a package holds only what is good and what was approved, and an asset   *)
(* that is packaged or deprecated does not come back.                      *)
(***************************************************************************)
EXTENDS RuleAssets, TLAPS

-----------------------------------------------------------------------------
(* The inductive invariant.                                                *)

\* Somebody entitled to it has approved an asset as it is, unless two requests wrote
\* the asset at once.
Vetted(c, body) == c \in raced \/ <<c, body>> \in reviewed

RowSound(c) ==
  /\ assets[c].status = "approved" => Vetted(c, assets[c].body)
  /\ assets[c].status = "packaged" => c \in published

RowsSound == \A c \in Codes : Has(c) => RowSound(c)

PackagesSound ==
  \A p \in Kinds \X Versions : packages[p] # None =>
    \A e \in packages[p] : e[2] \in Good /\ (e[1] \in raced \/ e \in reviewed)

\* What a request may have read, by what it is about to do.
Read(op, row) ==
  CASE op = "edit" -> row.status \notin {"packaged", "deprecated"}
    [] op = "submit" -> row.status \in {"draft", "rejected"}
    [] op = "review" -> row.status = "reviewing"
    [] op \in {"compile", "stamp"} -> row.status = "approved" /\ row.body \in Good
    [] OTHER -> TRUE

Writers == {"edit", "submit", "review", "deprecate", "compile", "stamp"}

ReqSound(r) ==
  /\ r.op \in Writers =>
       /\ DOMAIN r.seen \subseteq Codes
       /\ \A c \in DOMAIN r.seen : /\ r.seen[c] \in Row /\ assets[c] \in Row
                                   /\ Read(r.op, r.seen[c])
  /\ r.op = "parse" => r.user \in Users /\ r.source \in Sources
  /\ r.op = "create" => r.row \in Row /\ r.row.status = "draft" /\ DOMAIN r.codes = {1}
  /\ r.op = "edit" => DOMAIN r.seen # {} /\ r.body \in Bodies
  /\ r.op = "review" /\ r.approve =>
       \A c \in DOMAIN r.seen : r.user # r.seen[c].by \/ r.user \in Admins
  /\ r.op \in {"compile", "stamp"} =>
       \A c \in DOMAIN r.seen : Vetted(c, r.seen[c].body)
  /\ r.op = "stamp" => DOMAIN r.seen \subseteq published

Sound ==
  /\ assets \in [Codes -> Row \union {None}]
  /\ DOMAIN packages = Kinds \X Versions
  /\ DOMAIN req = Sessions
  /\ RowsSound
  /\ PackagesSound
  /\ \A s \in Sessions : ReqSound(req[s])

-----------------------------------------------------------------------------
LEMMA IdleSound == ReqSound(Idle) /\ ReqSound(Idle)'
  BY DEF ReqSound, Idle, Writers

LEMMA InitSound == Init => Sound
  <1> SUFFICES ASSUME Init
               PROVE  Sound
    OBVIOUS
  <1>1. \A s \in Sessions : ReqSound(req[s])
    BY IdleSound DEF Init
  <1>2. RowsSound /\ PackagesSound
    BY DEF Init, RowsSound, PackagesSound, Has
  <1>3. /\ assets \in [Codes -> Row \union {None}]
        /\ DOMAIN packages = Kinds \X Versions /\ DOMAIN req = Sessions
    BY DEF Init
  <1> QED BY <1>1, <1>2, <1>3 DEF Sound

\* Nothing that a request relies on goes away.
Grows ==
  /\ raced \subseteq raced' /\ reviewed \subseteq reviewed' /\ published \subseteq published'
  /\ \A c \in Codes : assets[c] \in Row => assets'[c] \in Row

\* Session s goes on as r.
LEMMA RequestSound ==
  ASSUME Sound, NEW s \in Sessions, NEW r, req' = [req EXCEPT ![s] = r], ReqSound(r)',
         Grows, assets' \in [Codes -> Row \union {None}],
         DOMAIN packages' = Kinds \X Versions, RowsSound', PackagesSound'
  PROVE  Sound'
  <1>1. ASSUME NEW o \in Sessions
        PROVE  ReqSound(req[o])'
    <2>1. CASE o = s
      BY <2>1 DEF Sound
    <2>2. CASE o # s
      <3>1. req'[o] = req[o] /\ ReqSound(req[o])
        BY <2>2 DEF Sound
      <3> QED BY <3>1 DEF ReqSound, Grows, Vetted
    <2> QED BY <2>1, <2>2
  <1> QED BY <1>1 DEF Sound

\* A request that begins only reads.
LEMMA BeginSound ==
  ASSUME Sound, NEW s \in Sessions, NEW r, Begin(s, r), ReqSound(r)
  PROVE  Sound'
  <1>1. UNCHANGED <<assets, packages, reviewed, published, raced>>
        /\ req' = [req EXCEPT ![s] = r]
    BY DEF Begin
  <1>2. ReqSound(r)' /\ Grows /\ RowsSound' /\ PackagesSound'
    BY <1>1 DEF ReqSound, Grows, RowsSound, RowSound, PackagesSound, Vetted, Has, Sound
  <1> QED BY <1>1, <1>2, RequestSound DEF Sound

\* What a session reads of the rows that are there.
LEMMA SeenRows ==
  ASSUME Sound, NEW codes \in SUBSET Codes, \A c \in codes : Has(c)
  PROVE  /\ DOMAIN Seen(codes) = codes
         /\ \A c \in codes : Seen(codes)[c] = assets[c] /\ assets[c] \in Row
  BY DEF Sound, Seen, Has

\* The commit of a new status.
LEMMA StatusSet ==
  ASSUME Sound, NEW seen, DOMAIN seen \subseteq Codes, \A c \in DOMAIN seen : assets[c] \in Row,
         NEW status \in Statuses, SetStatus(seen, status)
  PROVE  /\ assets' \in [Codes -> Row \union {None}]
         /\ \A c \in Codes : assets[c] \in Row => assets'[c] \in Row
         /\ \A c \in DOMAIN seen : /\ assets'[c] \in Row
                                   /\ assets'[c].status = status
                                   /\ assets'[c].body = assets[c].body
                                   /\ c \in raced' \/ assets[c] = seen[c]
         /\ \A c \in Codes \ DOMAIN seen : assets'[c] = assets[c]
         /\ raced \subseteq raced'
  <1>1. \A c \in DOMAIN seen :
          /\ [assets[c] EXCEPT !.status = status] \in Row
          /\ [assets[c] EXCEPT !.status = status].status = status
          /\ [assets[c] EXCEPT !.status = status].body = assets[c].body
    BY DEF Row
  <1>2. /\ assets' = [c \in Codes |-> IF c \in DOMAIN seen
                                      THEN [assets[c] EXCEPT !.status = status]
                                      ELSE assets[c]]
        /\ raced' = raced \union {c \in DOMAIN seen : assets[c] # seen[c]}
    BY DEF SetStatus, Moved
  <1> QED BY <1>1, <1>2 DEF Sound

-----------------------------------------------------------------------------
(* The steps that only begin a request.                                    *)

LEMMA BeginsSound ==
  ASSUME Sound, NEW s \in Sessions, NEW user \in Users, NEW c \in Codes,
         \/ \E body \in Bodies : BeginCreate(s, c, user, body) \/ BeginEdit(s, c, body)
         \/ SubmitTerm(s, c)
         \/ \E approve \in BOOLEAN : BeginReview(s, c, user, approve)
         \/ BeginDeprecate(s, c)
  PROVE  Sound'
  <1>1. Has(c) => /\ DOMAIN Seen({c}) = {c} /\ Seen({c})[c] = assets[c] /\ assets[c] \in Row
    BY SeenRows
  <1>2. ASSUME NEW body \in Bodies, BeginCreate(s, c, user, body)
        PROVE  Sound'
    <2>1. PICK r : Begin(s, r) /\ r.op = "create" /\ r.row = Draft(body, user, None)
                   /\ r.codes = <<c>>
      BY <1>2 DEF BeginCreate
    <2>2. r.row \in Row /\ r.row.status = "draft"
      BY <2>1 DEF Draft, Row, Statuses
    <2>3. DOMAIN r.codes = {1}
      BY <2>1
    <2>4. ReqSound(r)
      BY <2>1, <2>2, <2>3 DEF ReqSound, Writers
    <2> QED BY <2>1, <2>4, BeginSound
  <1>3. ASSUME NEW body \in Bodies, BeginEdit(s, c, body)
        PROVE  Sound'
    <2>1. PICK r : /\ Begin(s, r) /\ r.op = "edit" /\ r.seen = Seen({c}) /\ r.body = body
      BY <1>3 DEF BeginEdit
    <2>2. Has(c) /\ assets[c].status \notin {"packaged", "deprecated"}
      BY <1>3 DEF BeginEdit, Editable
    <2>3. ReqSound(r)
      BY <1>1, <2>1, <2>2 DEF ReqSound, Writers, Read
    <2> QED BY <2>1, <2>3, BeginSound
  <1>4. CASE SubmitTerm(s, c)
    <2>1. PICK r : Begin(s, r) /\ r.op = "submit" /\ r.seen = Seen({c})
      BY <1>4 DEF SubmitTerm
    <2>2. Has(c) /\ assets[c].status \in {"draft", "rejected"}
      BY <1>4 DEF SubmitTerm, Submittable
    <2>3. ReqSound(r)
      BY <1>1, <2>1, <2>2 DEF ReqSound, Writers, Read
    <2> QED BY <2>1, <2>3, BeginSound
  <1>5. ASSUME NEW approve \in BOOLEAN, BeginReview(s, c, user, approve)
        PROVE  Sound'
    <2>1. PICK r : /\ Begin(s, r) /\ r.op = "review" /\ r.seen = Seen({c})
                   /\ r.user = user
      BY <1>5 DEF BeginReview
    <2>2. Has(c) /\ assets[c].status = "reviewing" /\ (user # assets[c].by \/ user \in Admins)
      BY <1>5 DEF BeginReview, MayReview
    <2>3. ReqSound(r)
      BY <1>1, <2>1, <2>2 DEF ReqSound, Writers, Read
    <2> QED BY <2>1, <2>3, BeginSound
  <1>6. CASE BeginDeprecate(s, c)
    <2>1. PICK r : Begin(s, r) /\ r.op = "deprecate" /\ r.seen = Seen({c})
      BY <1>6 DEF BeginDeprecate
    <2>2. Has(c)
      BY <1>6 DEF BeginDeprecate
    <2>3. ReqSound(r)
      BY <1>1, <2>1, <2>2 DEF ReqSound, Writers, Read
    <2> QED BY <2>1, <2>3, BeginSound
  <1> QED BY <1>2, <1>3, <1>4, <1>5, <1>6

\* A batch takes what can be submitted, a compilation what is approved and good.
LEMMA BatchesSound ==
  ASSUME Sound, NEW s \in Sessions, NEW codes \in SUBSET Codes,
         \/ SubmitRuleEntries(s, codes)
         \/ \E version \in Versions : CompileRules(s, version, codes)
                                    \/ CompileSchema(s, version, codes)
  PROVE  Sound'
  <1>1. CASE SubmitRuleEntries(s, codes)
    <2> DEFINE ready == {c \in codes : Submittable(c)}
    <2>1. PICK r : Begin(s, r) /\ r.op = "submit" /\ r.seen = Seen(ready)
      BY <1>1 DEF SubmitRuleEntries
    <2>2. \A c \in ready : Has(c) /\ assets[c].status \in {"draft", "rejected"}
      BY DEF Submittable
    <2> HIDE DEF ready
    <2>3. ready \in SUBSET Codes
      BY DEF ready
    <2>4. DOMAIN Seen(ready) = ready
          /\ \A c \in ready : Seen(ready)[c] = assets[c] /\ assets[c] \in Row
      BY <2>2, <2>3, SeenRows
    <2>5. ReqSound(r)
      BY <2>1, <2>2, <2>3, <2>4 DEF ReqSound, Writers, Read
    <2> QED BY <2>1, <2>5, BeginSound
  <1>2. ASSUME NEW kind, NEW version, BeginCompile(s, kind, version, Selected(kind, codes))
        PROVE  Sound'
    <2> DEFINE chosen == Selected(kind, codes)
    <2>1. PICK r : Begin(s, r) /\ r.op = "compile" /\ r.seen = Seen(chosen)
      BY <1>2 DEF BeginCompile
    <2>2. chosen \in SUBSET Codes
          /\ \A c \in chosen : /\ Has(c) /\ assets[c].status = "approved"
                               /\ assets[c].body \in Good
      BY <1>2 DEF BeginCompile, Selected, Assessed
    <2> HIDE DEF chosen
    <2>3. DOMAIN Seen(chosen) = chosen
          /\ \A c \in chosen : Seen(chosen)[c] = assets[c] /\ assets[c] \in Row
      BY <2>2, SeenRows
    <2>4. \A c \in chosen : Vetted(c, assets[c].body)
      BY <2>2 DEF Sound, RowsSound, RowSound
    <2>5. ReqSound(r)
      BY <2>1, <2>2, <2>3, <2>4 DEF ReqSound, Writers, Read
    <2> QED BY <2>1, <2>5, BeginSound
  <1> QED BY <1>1, <1>2 DEF CompileRules, CompileSchema

-----------------------------------------------------------------------------
(* The steps that write. Each keeps the invariant and what is final.       *)

\* FinalIsFinal, of one step.
Final ==
  \A c \in Codes \ raced' :
    Has(c) /\ assets[c].status \in {"packaged", "deprecated"} =>
      /\ assets'[c].body = assets[c].body
      /\ assets'[c].status \in {assets[c].status, "deprecated"}

\* The rows that are not written stay sound, and so do those that satisfy this.
LEMMA WrittenSound ==
  ASSUME Sound, Grows, NEW written \in SUBSET Codes,
         assets' \in [Codes -> Row \union {None}],
         \A c \in Codes \ written : assets'[c] = assets[c],
         \A c \in written : RowSound(c)'
  PROVE  RowsSound'
  <1> SUFFICES ASSUME NEW c \in Codes, Has(c)'
               PROVE  RowSound(c)'
    BY DEF RowsSound
  <1>1. CASE c \in written
    BY <1>1
  <1>2. CASE c \notin written
    BY <1>2 DEF Sound, RowsSound, RowSound, Grows, Vetted, Has
  <1> QED BY <1>1, <1>2

LEMMA SamePackages ==
  ASSUME Sound, Grows, UNCHANGED packages
  PROVE  DOMAIN packages' = Kinds \X Versions /\ PackagesSound'
  BY DEF Sound, Grows, PackagesSound

\* New rows are drafts, and there was no row before them.
LEMMA InsertsSound ==
  ASSUME Sound, NEW s \in Sessions, FinishParse(s) \/ FinishCreate(s)
  PROVE  Sound' /\ Final
  <1> DEFINE codes == req[s].codes
             written == Range(codes) \intersect Codes
  <1>1. /\ Insertable(codes) /\ req' = [req EXCEPT ![s] = Idle]
        /\ UNCHANGED <<packages, reviewed, published, raced>> /\ ReqSound(req[s])
    BY DEF FinishParse, FinishCreate, Answer, Sound
  <1>2. \A c \in written : ~Has(c)
    BY <1>1 DEF Insertable
  <1>3. /\ assets' \in [Codes -> Row \union {None}]
        /\ \A c \in Codes \ written : assets'[c] = assets[c]
        /\ \A c \in written : assets'[c] \in Row /\ assets'[c].status = "draft"
    <2>1. CASE FinishParse(s)
      <3>1. req[s].user \in Users /\ req[s].source \in Sources
        BY <1>1, <2>1 DEF FinishParse, ReqSound
      <3>2. PICK says \in [Range(codes) -> Bodies] :
              assets' = [c \in Codes |-> IF c \in Range(codes)
                                         THEN Draft(says[c], req[s].user, req[s].source)
                                         ELSE assets[c]]
        BY <2>1 DEF FinishParse
      <3>3. \A c \in written : LET row == Draft(says[c], req[s].user, req[s].source)
                               IN row \in Row /\ row.status = "draft"
        BY <3>1 DEF Draft, Row, Statuses
      <3> QED BY <3>2, <3>3 DEF Sound
    <2>2. CASE FinishCreate(s)
      <3>1. req[s].row \in Row /\ req[s].row.status = "draft" /\ DOMAIN codes = {1}
        BY <1>1, <2>2 DEF FinishCreate, ReqSound
      <3>2. assets' = [assets EXCEPT ![codes[1]] = req[s].row]
        BY <2>2 DEF FinishCreate
      <3>3. Range(codes) = {codes[1]}
        BY <3>1 DEF Range
      <3> QED BY <3>1, <3>2, <3>3 DEF Sound
    <2> QED BY <2>1, <2>2
  <1> HIDE DEF written
  <1>4. Grows
    BY <1>1, <1>3 DEF Grows, Sound
  <1>5. RowsSound'
    BY <1>3, <1>4, WrittenSound DEF written, RowSound
  <1>6. Sound'
    BY <1>1, <1>3, <1>4, <1>5, SamePackages, IdleSound, RequestSound
  <1>7. Final
    BY <1>2, <1>3 DEF Final, Has
  <1> QED BY <1>6, <1>7

\* What an edit has read it makes a draft, or leaves a draft.
LEMMA EditSound ==
  ASSUME Sound, NEW s \in Sessions, FinishEdit(s)
  PROVE  Sound' /\ Final
  <1> DEFINE q == req[s]
  <1>1. /\ q.op = "edit" /\ ReqSound(q) /\ req' = [req EXCEPT ![s] = Idle]
        /\ raced' = raced \union Moved(q.seen)
        /\ UNCHANGED <<packages, reviewed, published>>
    BY DEF FinishEdit, Answer, Sound
  <1>2. PICK c \in DOMAIN q.seen : c = CHOOSE x \in DOMAIN q.seen : TRUE
    BY <1>1 DEF ReqSound
  <1> DEFINE status == IF q.seen[c].status = "draft" THEN assets[c].status ELSE "draft"
             row == [assets[c] EXCEPT !.body = q.body, !.status = status]
  <1>3. /\ c \in Codes /\ assets[c] \in Row /\ q.body \in Bodies
        /\ q.seen[c].status \notin {"packaged", "deprecated"}
    BY <1>1 DEF ReqSound, Writers, Read
  <1>4. c \in raced' \/ assets[c] = q.seen[c]
    BY <1>1, <1>2 DEF Moved
  <1>5. assets' = [assets EXCEPT ![c] = row]
    BY <1>2, <1>3 DEF FinishEdit, Sound, Row
  <1>6. row \in Row /\ row.status = status /\ status \in Statuses
    BY <1>3 DEF Row, Statuses
  <1> HIDE DEF row
  <1>7. /\ assets' \in [Codes -> Row \union {None}]
        /\ assets'[c] = row /\ \A x \in Codes \ {c} : assets'[x] = assets[x]
    BY <1>3, <1>5, <1>6 DEF Sound
  <1>8. Grows
    BY <1>1, <1>6, <1>7 DEF Grows
  <1>9. RowSound(c)'
    <2>1. Has(c) /\ RowSound(c)
      BY <1>3, NoneIsNoRow DEF Has, Sound, RowsSound
    <2>2. assets'[c].status = status
      BY <1>6, <1>7
    <2>3. CASE status = "draft"
      BY <2>2, <2>3 DEF RowSound
    <2>4. CASE status # "draft"
      <3>1. q.seen[c].status = "draft" /\ status = assets[c].status /\ c \in raced'
        BY <1>4, <2>4
      <3> QED BY <1>1, <2>1, <2>2, <3>1 DEF RowSound, Vetted
    <2> QED BY <2>3, <2>4
  <1>10. RowsSound'
    <2>1. {c} \in SUBSET Codes /\ \A x \in {c} : RowSound(x)'
      BY <1>3, <1>9 DEF RowSound
    <2> QED BY <1>7, <1>8, <2>1, WrittenSound
  <1>11. Sound'
    BY <1>1, <1>7, <1>8, <1>10, SamePackages, IdleSound, RequestSound
  <1>12. Final
    BY <1>3, <1>4, <1>7 DEF Final
  <1> QED BY <1>11, <1>12

\* A status that is neither approved nor packaged needs no grounds.
LEMMA StatusesSound ==
  ASSUME Sound, NEW s \in Sessions,
         FinishSubmit(s) \/ FinishReview(s) \/ FinishDeprecate(s) \/ StampAssets(s)
  PROVE  Sound' /\ Final
  <1> DEFINE q == req[s]
             written == DOMAIN q.seen
  <1>1. PICK status :
          /\ SetStatus(q.seen, status)
          /\ \/ q.op = "submit" /\ status = "reviewing"
             \/ q.op = "review" /\ status = IF q.approve THEN "approved" ELSE "rejected"
             \/ q.op = "deprecate" /\ status = "deprecated"
             \/ q.op = "stamp" /\ status = "packaged"
    BY DEF FinishSubmit, FinishReview, FinishDeprecate, StampAssets
  <1>2. /\ ReqSound(q) /\ req' = [req EXCEPT ![s] = Idle]
        /\ UNCHANGED <<packages, published>> /\ reviewed \subseteq reviewed'
    BY DEF FinishSubmit, FinishReview, FinishDeprecate, StampAssets, Answer, Sound
  <1>3. /\ written \subseteq Codes /\ status \in Statuses
        /\ \A c \in written : q.seen[c] \in Row /\ assets[c] \in Row /\ Read(q.op, q.seen[c])
    BY <1>1, <1>2 DEF ReqSound, Writers, Statuses
  <1>4. /\ assets' \in [Codes -> Row \union {None}]
        /\ \A c \in Codes : assets[c] \in Row => assets'[c] \in Row
        /\ \A c \in written : /\ assets'[c] \in Row /\ assets'[c].status = status
                              /\ assets'[c].body = assets[c].body
                              /\ c \in raced' \/ assets[c] = q.seen[c]
        /\ \A c \in Codes \ written : assets'[c] = assets[c]
        /\ raced \subseteq raced'
    BY <1>1, <1>3, StatusSet
  <1>5. Grows
    BY <1>2, <1>4 DEF Grows
  <1>6. ASSUME NEW c \in written
        PROVE  RowSound(c)'
    <2>1. CASE status = "approved"
      <3>1. q.op = "review" /\ q.approve
        BY <1>1, <2>1
      <3>2. <<c, q.seen[c].body>> \in reviewed'
        BY <1>2, <3>1 DEF ReqSound, FinishReview, FinishSubmit, FinishDeprecate, StampAssets
      <3> QED BY <1>4, <2>1, <3>2 DEF RowSound, Vetted
    <2>2. CASE status = "packaged"
      <3>1. q.op = "stamp"
        BY <1>1, <2>2
      <3> QED BY <1>2, <1>4, <2>2, <3>1 DEF RowSound, ReqSound
    <2>3. CASE status \notin {"approved", "packaged"}
      BY <1>4, <2>3 DEF RowSound
    <2> QED BY <2>1, <2>2, <2>3
  <1>7. RowsSound'
    BY <1>3, <1>4, <1>5, <1>6, WrittenSound
  <1>8. Sound'
    BY <1>2, <1>4, <1>5, <1>7, SamePackages, IdleSound, RequestSound
  <1>9. Final
    <2> SUFFICES ASSUME NEW c \in Codes \ raced', Has(c),
                        assets[c].status \in {"packaged", "deprecated"}
                 PROVE  /\ assets'[c].body = assets[c].body
                        /\ assets'[c].status \in {assets[c].status, "deprecated"}
      BY DEF Final
    <2>1. CASE c \in written
      <3>1. q.seen[c].status \in {"packaged", "deprecated"}
        BY <1>4, <2>1
      <3>2. q.op = "deprecate"
        BY <1>1, <1>3, <2>1, <3>1 DEF Read
      <3> QED BY <1>1, <1>4, <2>1, <3>2
    <2>2. CASE c \notin written
      BY <1>4, <2>2
    <2> QED BY <2>1, <2>2
  <1> QED BY <1>8, <1>9

\* The package that is stored holds what was approved and good when it was read.
LEMMA StoreSound ==
  ASSUME Sound, NEW s \in Sessions, StorePackage(s)
  PROVE  Sound' /\ Final
  <1> DEFINE q == req[s]
             payload == {<<c, q.seen[c].body>> : c \in DOMAIN q.seen}
  <1>1. PICK next :
        /\ next = [q EXCEPT !.op = "stamp"]
        /\ q.op = "compile" /\ ReqSound(q)
        /\ packages' = [packages EXCEPT ![q.at] = payload]
        /\ published' = published \union DOMAIN q.seen
        /\ req' = [req EXCEPT ![s] = next]
        /\ UNCHANGED <<assets, reviewed, raced>>
    BY DEF StorePackage, Sound
  <1>2. \A e \in payload : e[2] \in Good /\ (e[1] \in raced \/ e \in reviewed)
    BY <1>1 DEF ReqSound, Writers, Read, Vetted
  <1>3. next.op = "stamp" /\ next.seen = q.seen
    BY <1>1
  <1> HIDE DEF payload
  <1>4. DOMAIN packages' = Kinds \X Versions /\ PackagesSound'
    BY <1>1, <1>2 DEF Sound, PackagesSound
  <1>5. Grows /\ RowsSound' /\ Final
    BY <1>1 DEF Sound, Grows, RowsSound, RowSound, Vetted, Has, Final
  <1>6. ReqSound(q) => ReqSound(next)'
    BY <1>1, <1>3 DEF ReqSound, Writers, Read, Vetted
  <1> QED
    BY <1>1, <1>4, <1>5, <1>6, RequestSound DEF Sound

-----------------------------------------------------------------------------
\* A step that leaves rows and packages alone, and whose session is idle or goes on.
LEMMA RestSound ==
  ASSUME Sound, UNCHANGED <<assets, packages, reviewed, published, raced>>,
         UNCHANGED req \/ \E s \in Sessions : req' = [req EXCEPT ![s] = Idle]
  PROVE  Sound'
  <1>1. Grows /\ RowsSound' /\ PackagesSound'
    BY DEF Sound, Grows, RowsSound, RowSound, PackagesSound, Vetted, Has
  <1>2. CASE UNCHANGED req
    <2>1. \A s \in Sessions : ReqSound(req[s])'
      BY <1>2 DEF Sound, ReqSound, Vetted
    <2> QED BY <1>1, <1>2, <2>1 DEF Sound
  <1>3. CASE \E s \in Sessions : req' = [req EXCEPT ![s] = Idle]
    BY <1>1, <1>3, IdleSound, RequestSound DEF Sound
  <1> QED BY <1>2, <1>3

LEMMA StepSound == Sound /\ [Next]_vars => Sound' /\ Final
  <1> SUFFICES ASSUME Sound, [Next]_vars
               PROVE  Sound' /\ Final
    OBVIOUS
  <1>1. UNCHANGED assets => Final
    BY DEF Final
  <1>2. ASSUME NEW s \in Sessions, NEW user \in Users,
               SourceRequests(s, user) \/ RuleRequests(s, user) \/ TermRequests(s, user)
        PROVE  Sound' /\ Final
    <2>1. CASE \E d \in Sources : CreateSource(d)
      BY <1>1, <2>1, RestSound DEF CreateSource
    <2>2. CASE \E d \in Sources, overwrite \in BOOLEAN : BeginParse(s, d, user, overwrite)
      <3>1. PICK d \in Sources, overwrite \in BOOLEAN : BeginParse(s, d, user, overwrite)
        BY <2>2
      <3>2. PICK r : Begin(s, r) /\ r.op = "parse" /\ r.user = user /\ r.source = d
        BY <3>1 DEF BeginParse
      <3>3. ReqSound(r)
        BY <3>2 DEF ReqSound, Writers
      <3> QED BY <1>1, <3>2, <3>3, BeginSound DEF Begin
    <2>3. ASSUME NEW c \in Codes,
                 \/ \E body \in Bodies : BeginCreate(s, c, user, body) \/ BeginEdit(s, c, body)
                 \/ SubmitTerm(s, c) \/ BeginDeprecate(s, c)
                 \/ \E approve \in BOOLEAN : BeginReview(s, c, user, approve)
          PROVE  Sound' /\ Final
      <3>1. Sound'
        BY <2>3, BeginsSound
      <3>2. UNCHANGED assets
        BY <2>3 DEF BeginCreate, BeginEdit, SubmitTerm, BeginDeprecate, BeginReview, Begin
      <3> QED BY <1>1, <3>1, <3>2
    <2>4. ASSUME NEW codes \in SUBSET Codes,
                 \/ SubmitRuleEntries(s, codes)
                 \/ \E version \in Versions : CompileRules(s, version, codes)
                                            \/ CompileSchema(s, version, codes)
          PROVE  Sound' /\ Final
      <3>1. Sound' /\ UNCHANGED assets
        BY <2>4, BatchesSound
        DEF SubmitRuleEntries, CompileRules, CompileSchema, BeginCompile, Begin
      <3> QED BY <1>1, <3>1
    <2>5. CASE SourceRequests(s, user)
      BY <2>1, <2>2, <2>5 DEF SourceRequests
    <2>6. CASE RuleRequests(s, user)
      <3>1. CASE \E c \in Codes :
                   \/ \E body \in Bodies : CreateRuleEntry(s, c, user, body)
                                         \/ UpdateRuleEntry(s, c, body)
                   \/ \E approve \in BOOLEAN : ReviewRuleEntry(s, c, user, approve)
                   \/ BeginDeprecate(s, c)
        BY <2>3, <3>1 DEF CreateRuleEntry, UpdateRuleEntry, ReviewRuleEntry
      <3>2. CASE \E codes \in SUBSET Codes :
                   \/ SubmitRuleEntries(s, codes)
                   \/ \E version \in Versions : CompileRules(s, version, codes)
        BY <2>4, <3>2
      <3> QED BY <2>6, <3>1, <3>2 DEF RuleRequests
    <2>7. CASE TermRequests(s, user)
      BY <2>3, <2>4, <2>7 DEF TermRequests, CreateTerm, UpdateTerm, ReviewTerm
    <2> QED BY <1>2, <2>5, <2>6, <2>7
  <1>3. ASSUME NEW s \in Sessions, Fail(s)
        PROVE  Sound' /\ Final
    BY <1>1, <1>3, RestSound DEF Fail, Answer
  <1>4. CASE UNCHANGED vars
    BY <1>1, <1>4, RestSound DEF vars
  <1> QED
    BY <1>2, <1>3, <1>4, InsertsSound, EditSound, StatusesSound, StoreSound DEF Next

LEMMA SpecSound == Spec => []Sound
  <1>1. Sound /\ [Next]_vars => Sound'
    BY StepSound
  <1> QED BY InitSound, <1>1, PTL DEF Spec

-----------------------------------------------------------------------------
(* Types. A compilation reads assets of one kind, and its package is of    *)
(* that kind and holds each once.                                          *)

Ops == {"idle", "parse", "create", "edit", "submit", "review", "deprecate", "compile", "stamp"}

ReqTyped(r) ==
  /\ r.op \in Ops
  /\ r.op = "compile" =>
       /\ r.at \in Kinds \X Versions
       /\ \A c \in DOMAIN r.seen : KindOf(c) = r.at[1]

Typed == TypeOK /\ \A s \in Sessions : ReqTyped(req[s])

LEMMA InitTyped == Init => Typed
  BY AssetsAssumption DEF Init, Typed, TypeOK, ReqTyped, Idle, Ops

\* Session s goes on as r.
LEMMA RequestTyped ==
  ASSUME Sound, Sound', Typed, NEW s \in Sessions, NEW r, req' = [req EXCEPT ![s] = r],
         ReqTyped(r), UNCHANGED packages,
         sources' \in [Sources -> {None, "uploaded", "parsed", "parse_failed"}],
         requests' \in 0..MaxRequests
  PROVE  Typed'
  <1>1. \A o \in Sessions : ReqTyped(req'[o])
    BY DEF Typed, Sound
  <1>2. \A o \in Sessions : ReqTyped(req[o])'
    BY <1>1 DEF ReqTyped
  <1>3. \A o \in Sessions : req'[o].op \in Ops
    BY <1>1 DEF ReqTyped
  <1> QED
    BY <1>2, <1>3 DEF Typed, TypeOK, Sound, Ops

LEMMA BeginTyped ==
  ASSUME Sound, Sound', Typed, NEW s \in Sessions, NEW r, Begin(s, r), ReqTyped(r)
  PROVE  Typed'
  <1>1. requests' \in 0..MaxRequests
    BY AssetsAssumption DEF Typed, TypeOK, Begin
  <1> QED
    BY <1>1, RequestTyped DEF Begin, Typed, TypeOK

LEMMA BeginsTyped ==
  ASSUME Sound, Sound', Typed, NEW s \in Sessions, NEW user \in Users,
         SourceRequests(s, user) \/ RuleRequests(s, user) \/ TermRequests(s, user)
  PROVE  Typed'
  <1>1. ASSUME NEW d \in Sources, CreateSource(d)
        PROVE  Typed'
    <2>1. /\ sources' \in [Sources -> {None, "uploaded", "parsed", "parse_failed"}]
          /\ requests' \in 0..MaxRequests /\ UNCHANGED <<packages, req>>
      BY <1>1, AssetsAssumption DEF CreateSource, Typed, TypeOK
    <2>2. \A o \in Sessions : ReqTyped(req[o])' /\ req'[o].op \in Ops
      BY <2>1 DEF Typed, ReqTyped
    <2>3. assets' \in [Codes -> Row \union {None}]
      BY DEF Sound
    <2> QED
      BY <2>1, <2>2, <2>3 DEF Typed, TypeOK, Ops
  <1>2. ASSUME NEW kind \in Kinds, NEW version \in Versions, NEW codes,
               BeginCompile(s, kind, version, Selected(kind, codes))
        PROVE  Typed'
    <2> DEFINE chosen == Selected(kind, codes)
    <2>1. PICK r : /\ Begin(s, r) /\ r.op = "compile" /\ r.seen = Seen(chosen)
                   /\ r.at = <<kind, version>>
      BY <1>2 DEF BeginCompile, Target
    <2>2. DOMAIN Seen(chosen) = chosen /\ \A c \in chosen : KindOf(c) = kind
      BY DEF Seen, Selected
    <2>3. ReqTyped(r)
      BY <2>1, <2>2 DEF ReqTyped, Ops
    <2> QED
      BY <2>1, <2>3, BeginTyped
  <1>3. ASSUME NEW r, Begin(s, r), r.op \in Ops \ {"compile"}
        PROVE  Typed'
    BY <1>3, BeginTyped DEF ReqTyped
  <1>4. ASSUME NEW d \in Sources, NEW overwrite \in BOOLEAN, BeginParse(s, d, user, overwrite)
        PROVE  Typed'
    <2>1. PICK r : Begin(s, r) /\ r.op = "parse"
      BY <1>4 DEF BeginParse
    <2> QED
      BY <1>3, <2>1 DEF Ops
  <1>5. ASSUME NEW c \in Codes, NEW body \in Bodies,
               BeginCreate(s, c, user, body) \/ BeginEdit(s, c, body)
        PROVE  Typed'
    <2>1. PICK r : Begin(s, r) /\ r.op \in {"create", "edit"}
      BY <1>5 DEF BeginCreate, BeginEdit
    <2> QED
      BY <1>3, <2>1 DEF Ops
  <1>6. ASSUME NEW c \in Codes, NEW approve \in BOOLEAN, BeginReview(s, c, user, approve)
        PROVE  Typed'
    <2>1. PICK r : Begin(s, r) /\ r.op = "review"
      BY <1>6 DEF BeginReview
    <2> QED
      BY <1>3, <2>1 DEF Ops
  <1>7. ASSUME NEW c \in Codes, NEW codes,
               BeginDeprecate(s, c) \/ SubmitTerm(s, c) \/ SubmitRuleEntries(s, codes)
        PROVE  Typed'
    <2>1. PICK r : Begin(s, r) /\ r.op \in {"deprecate", "submit"}
      BY <1>7 DEF BeginDeprecate, SubmitTerm, SubmitRuleEntries
    <2> QED
      BY <1>3, <2>1 DEF Ops
  <1>8. CASE SourceRequests(s, user)
    BY <1>1, <1>4, <1>8 DEF SourceRequests
  <1>9. CASE RuleRequests(s, user)
    <2>1. CASE \E c \in Codes :
                 \/ \E body \in Bodies : CreateRuleEntry(s, c, user, body)
                                       \/ UpdateRuleEntry(s, c, body)
                 \/ \E approve \in BOOLEAN : ReviewRuleEntry(s, c, user, approve)
                 \/ BeginDeprecate(s, c)
      BY <1>5, <1>6, <1>7, <2>1 DEF CreateRuleEntry, UpdateRuleEntry, ReviewRuleEntry
    <2>2. CASE \E codes \in SUBSET Codes :
                 \/ SubmitRuleEntries(s, codes)
                 \/ \E version \in Versions : CompileRules(s, version, codes)
      <3>1. CASE \E codes \in SUBSET Codes : SubmitRuleEntries(s, codes)
        <4>1. PICK codes \in SUBSET Codes : SubmitRuleEntries(s, codes)
          BY <3>1
        <4>2. \E c \in Codes : TRUE
          BY <4>1 DEF SubmitRuleEntries
        <4> QED
          BY <1>7, <4>1, <4>2
      <3>2. CASE \E codes \in SUBSET Codes, version \in Versions : CompileRules(s, version, codes)
        BY <1>2, <3>2 DEF CompileRules, Kinds
      <3> QED
        BY <2>2, <3>1, <3>2
    <2> QED
      BY <1>9, <2>1, <2>2 DEF RuleRequests
  <1>10. CASE TermRequests(s, user)
    <2>1. CASE \E codes \in SUBSET Codes, version \in Versions : CompileSchema(s, version, codes)
      BY <1>2, <2>1 DEF CompileSchema, Kinds
    <2>2. CASE \E c \in Codes :
                 \/ \E body \in Bodies : CreateTerm(s, c, user, body) \/ UpdateTerm(s, c, body)
                 \/ \E approve \in BOOLEAN : ReviewTerm(s, c, user, approve)
                 \/ SubmitTerm(s, c)
      BY <1>5, <1>6, <1>7, <2>2 DEF CreateTerm, UpdateTerm, ReviewTerm
    <2> QED
      BY <1>10, <2>1, <2>2 DEF TermRequests
  <1> QED
    BY <1>8, <1>9, <1>10

\* The package of a compilation is of the kind of its assets and has one body of each.
LEMMA StoreTyped ==
  ASSUME Sound, Sound', Typed, NEW s \in Sessions, StorePackage(s)
  PROVE  Typed'
  <1> DEFINE q == req[s]
             payload == {<<c, q.seen[c].body>> : c \in DOMAIN q.seen}
  <1>1. PICK next :
        /\ next = [q EXCEPT !.op = "stamp"]
        /\ q.op = "compile"
        /\ packages' = [packages EXCEPT ![q.at] = payload]
        /\ req' = [req EXCEPT ![s] = next]
        /\ UNCHANGED <<sources, requests>>
    BY DEF StorePackage
  <1>2. /\ q.at \in Kinds \X Versions
        /\ \A c \in DOMAIN q.seen : KindOf(c) = q.at[1]
        /\ DOMAIN q.seen \subseteq Codes
        /\ \A c \in DOMAIN q.seen : q.seen[c].body \in Bodies
    BY <1>1 DEF Typed, ReqTyped, Sound, ReqSound, Writers, Row
  <1>3. payload \in SUBSET (Codes \X Bodies)
    BY <1>2
  <1>4. \A e, f \in payload : KindOf(e[1]) = q.at[1] /\ (e[1] = f[1] => e = f)
    BY <1>2
  <1>5. next.op = "stamp"
    BY <1>1 DEF Typed, ReqTyped
  <1> HIDE DEF payload
  <1>6. packages' \in [Kinds \X Versions -> (SUBSET (Codes \X Bodies)) \union {None}]
    BY <1>1, <1>2, <1>3 DEF Typed, TypeOK
  <1>7. \A p \in Kinds \X Versions : packages'[p] # None =>
          \A e, f \in packages'[p] : KindOf(e[1]) = p[1] /\ (e[1] = f[1] => e = f)
    BY <1>1, <1>2, <1>4 DEF Typed, TypeOK
  <1>8. \A o \in Sessions : ReqTyped(req'[o])
    BY <1>1, <1>5 DEF Typed, Sound, ReqTyped, Ops
  <1>9. \A o \in Sessions : req'[o].op \in Ops /\ ReqTyped(req[o])'
    BY <1>8 DEF ReqTyped
  <1> QED
    BY <1>1, <1>6, <1>7, <1>9 DEF Typed, TypeOK, Sound, Ops

LEMMA AnswersTyped ==
  ASSUME Sound, Sound', Typed, NEW s \in Sessions,
         \/ FinishParse(s) \/ FinishCreate(s) \/ FinishEdit(s) \/ FinishSubmit(s)
         \/ FinishReview(s) \/ FinishDeprecate(s) \/ StampAssets(s) \/ Fail(s)
  PROVE  Typed'
  <1>1. Answer(s) /\ UNCHANGED packages
    BY DEF FinishParse, FinishCreate, FinishEdit, FinishSubmit, FinishReview,
           FinishDeprecate, StampAssets, Fail
  <1>2. sources' \in [Sources -> {None, "uploaded", "parsed", "parse_failed"}]
    <2>1. CASE FinishParse(s)
      BY <2>1 DEF FinishParse, Typed, TypeOK
    <2>2. CASE ~FinishParse(s)
      BY <2>2 DEF FinishCreate, FinishEdit, FinishSubmit, FinishReview, FinishDeprecate,
                  StampAssets, Fail, Typed, TypeOK
    <2> QED
      BY <2>1, <2>2
  <1>3. ReqTyped(Idle)
    BY DEF ReqTyped, Idle, Ops
  <1>4. requests' \in 0..MaxRequests
    BY <1>1 DEF Answer, Typed, TypeOK
  <1> QED
    BY <1>1, <1>2, <1>3, <1>4, RequestTyped DEF Answer

LEMMA StepTyped == Sound /\ Sound' /\ Typed /\ [Next]_vars => Typed'
  <1> SUFFICES ASSUME Sound, Sound', Typed, [Next]_vars
               PROVE  Typed'
    OBVIOUS
  <1>1. CASE UNCHANGED vars
    BY <1>1 DEF vars, Typed, TypeOK, ReqTyped
  <1> QED
    BY <1>1, BeginsTyped, AnswersTyped, StoreTyped DEF Next

\* A package holds only what meets the approval checks, whatever edits, approvals and
\* compilations overlap (compile_rules and compile_schema in asset_service.py).
THEOREM PackagesAreGood == Spec => []PackagesHoldQuality
  <1>1. Sound => PackagesHoldQuality
    BY DEF Sound, PackagesSound, PackagesHoldQuality
  <1> QED BY <1>1, SpecSound, PTL

\* A package holds only what somebody other than its author, or an administrator,
\* approved as it stands there; except assets that two requests wrote at once.
THEOREM PackagesWereReviewed == Spec => []PackagesHoldReviewed
  <1>1. Sound => PackagesHoldReviewed
    BY DEF Sound, PackagesSound, PackagesHoldReviewed
  <1> QED BY <1>1, SpecSound, PTL

\* An asset marked as packaged has been in a package: the package is committed before
\* the assets are marked.
THEOREM MarkedWasPackaged == Spec => []PackagedWasPublished
  <1>1. Sound => PackagedWasPublished
    BY DEF Sound, RowsSound, RowSound, PackagedWasPublished
  <1> QED BY <1>1, SpecSound, PTL

\* What is packaged or deprecated is not edited and does not come back, unless two
\* requests wrote it at once.
THEOREM FinalStaysFinal == Spec => FinalIsFinal
  <1>1. Sound /\ [Next]_vars =>
          [\A c \in Codes \ raced' :
             Has(c) /\ assets[c].status \in {"packaged", "deprecated"} =>
               /\ assets'[c].body = assets[c].body
               /\ assets'[c].status \in {assets[c].status, "deprecated"}]_vars
    BY StepSound DEF Final
  <1> QED BY <1>1, SpecSound, PTL DEF Spec, FinalIsFinal

\* Rows, packages and requests are what the code takes them for; above all, a package is
\* of one kind, that of the assets it holds, and has each of them once (_upsert_package).
THEOREM TypeCorrect == Spec => []TypeOK
  <1>1. Init => Typed
    BY InitTyped
  <1>2. Sound /\ Sound' /\ Typed /\ [Next]_vars => Typed'
    BY StepTyped
  <1>3. Typed => TypeOK
    BY DEF Typed
  <1> QED
    BY <1>1, <1>2, <1>3, SpecSound, PTL DEF Spec

=============================================================================
