----------------------------- MODULE RuleAssets -----------------------------
(***************************************************************************)
(* The authoring layer of one ontology space (ontology/asset_service.py):  *)
(* sources are parsed into rule entries, people write rule entries and     *)
(* ontology terms, submit and review them, and the approved ones are       *)
(* compiled into package versions. Every request reads first and commits   *)
(* later, in a database session of its own; compiling commits twice.       *)
(***************************************************************************)
EXTENDS Clauses

CONSTANTS
  Entities, Attributes,  \* ontology terms that can be authored
  Sources,     \* source documents
  Text,        \* per source, its lines
  Finds,       \* per phrase of a line, what infer_rule finds in it
  MaxRules,    \* how many rules a parse may make
  Owner,       \* per attribute, its entity
  Bodies,      \* what an asset can say
  Good,        \* what meets the approval checks
  Users, Admins,
  Versions,    \* versions of rule and schema packages
  Sessions,    \* database sessions that may be open at the same time
  None,        \* no row
  MaxRequests  \* bound on the requests of a behaviour

ASSUME AssetsAssumption ==
  /\ Good \subseteq Bodies
  /\ Admins \subseteq Users
  /\ \A a \in Attributes : Owner[a] \in Entities
  /\ MaxRequests \in Nat

VARIABLES
  sources,   \* per source, the status of its row
  assets,    \* the rows of rule_entries and ontology_terms
  packages,  \* per kind and version, the payload of its row
  req,       \* per session, the request it serves, with what it read
  requests,  \* how many requests were made
  reviewed,  \* observer: what somebody entitled to it has approved, as they saw it
  published, \* observer: the assets that a package has held
  raced      \* observer: the assets that a request wrote after another one did

vars == <<sources, assets, packages, req, requests, reviewed, published, raced>>

-----------------------------------------------------------------------------
(* Rules from a text. A phrase has the words of a rule or not, its topics  *)
(* by their rank in the list of fields, a number or None, a comparison     *)
(* ("gt", "lt") or None, whether it binds ("must", "must not"), and        *)
(* whether what it says is of high or critical severity.                   *)

\* segment_clauses finds these, and those with the words of a rule yield one.
RuleLike(says) == \E k \in DOMAIN says : Finds[says[k]].ruleLike

\* The field is the first of the list that is mentioned anywhere.
Field(says) ==
  LET topics == UNION {Finds[w].topics : w \in Range(says)}
  IN IF topics = {} THEN None ELSE Min(topics)

Threshold(says) ==
  LET numbers == SelectSeq(says, LAMBDA w : Finds[w].number # None)
  IN IF numbers = <<>> THEN None ELSE Finds[numbers[1]].number

Operator(says) ==
  LET compared == {Finds[w].compares : w \in Range(says)}
  IN IF "gt" \in compared THEN "gt" ELSE IF "lt" \in compared THEN "lt" ELSE None

\* infer_rule: field, comparison and number may come from different sentences of the
\* clause; a duty without a number only asks whether the field has a value.
Condition(says) ==
  IF None \notin {Field(says), Threshold(says), Operator(says)}
  THEN <<Field(says), Operator(says), Threshold(says)>>
  ELSE IF Field(says) # None /\ \E w \in Range(says) : Finds[w].binds
       THEN <<Field(says), "exists">>
       ELSE None

\* _assess_rule_payload, for a rule that quotes its clause and has no test case.
Approvable(says) ==
  Condition(says) # None /\ ~\E w \in Range(says) : Finds[w].grave

\* Per source, the rules of its clauses in order; the code of a rule is made from
\* the text of its clause.
Yields ==
  [d \in Sources |->
     LET clauses == Clauses(Text[d])
         rules == SelectSeq([k \in DOMAIN clauses |-> Says(Text[d], clauses[k])], RuleLike)
     IN SubSeq(rules, 1, Min({Len(rules), MaxRules}))]

Rules == UNION {Range(Yields[d]) : d \in Sources}

-----------------------------------------------------------------------------
(* Data. An asset is its name and whether its code carries the suffix that *)
(* parsing gives to a rule whose code is taken.                            *)

Terms == Entities \union Attributes
Codes == ((Rules \union Terms) \X {FALSE}) \union (Rules \X {TRUE})
Plain(name) == <<name, FALSE>>
IsRule(c) == c \in Rules \X BOOLEAN

Statuses == {"draft", "reviewing", "approved", "rejected", "packaged", "deprecated"}
Row == [status : Statuses, body : Bodies, by : Users, from : Sources \union {None}]

ASSUME NoneIsNoRow == None \notin Row

Draft(body, user, source) ==
  [status |-> "draft", body |-> body, by |-> user, from |-> source]
Has(c) == assets[c] # None

Kinds == {"rule", "schema"}
KindOf(c) == IF IsRule(c) THEN "rule" ELSE "schema"

Idle == [op |-> "idle"]

TypeOK ==
  /\ sources \in [Sources -> {None, "uploaded", "parsed", "parse_failed"}]
  /\ assets \in [Codes -> Row \union {None}]
  /\ packages \in [Kinds \X Versions -> (SUBSET (Codes \X Bodies)) \union {None}]
  /\ \A s \in Sessions :
       req[s].op \in {"idle", "parse", "create", "edit", "submit", "review",
                      "deprecate", "compile", "stamp"}
  /\ requests \in 0..MaxRequests
  \* a package holds assets of its kind, each once
  /\ \A p \in Kinds \X Versions : packages[p] # None =>
       \A e, f \in packages[p] : KindOf(e[1]) = p[1] /\ (e[1] = f[1] => e = f)

Init ==
  /\ sources = [d \in Sources |-> None]
  /\ assets = [c \in Codes |-> None]
  /\ packages = [p \in Kinds \X Versions |-> None]
  /\ req = [s \in Sessions |-> Idle]
  /\ requests = 0
  /\ reviewed = {} /\ published = {} /\ raced = {}

Begin(s, r) ==
  /\ req[s] = Idle
  /\ requests < MaxRequests
  /\ req' = [req EXCEPT ![s] = r]
  /\ requests' = requests + 1
  /\ UNCHANGED <<sources, assets, packages, reviewed, published, raced>>

Answer(s) == req' = [req EXCEPT ![s] = Idle] /\ UNCHANGED requests

\* The rows of the codes in seen, as the session read them.
Seen(codes) == [c \in codes |-> assets[c]]

\* The rows that changed since they were read.
Moved(seen) == {c \in DOMAIN seen : assets[c] # seen[c]}

\* The commit of a session that read the rows seen and sets their status.
SetStatus(seen, status) ==
  /\ assets' = [c \in Codes |-> IF c \in DOMAIN seen THEN [assets[c] EXCEPT !.status = status]
                                ELSE assets[c]]
  /\ raced' = raced \union Moved(seen)

-----------------------------------------------------------------------------
(* Sources and new assets.                                                 *)

\* create_source_document, also after an upload: a content that is there already
\* keeps its row.
CreateSource(d) ==
  /\ sources[d] = None
  /\ requests < MaxRequests
  /\ sources' = [sources EXCEPT ![d] = "uploaded"]
  /\ requests' = requests + 1
  /\ UNCHANGED <<assets, packages, req, reviewed, published, raced>>

\* The codes that a parse makes: what exists is skipped, or gets the suffix; the
\* code with the suffix is not looked up.
Parsed(d, overwrite) ==
  LET fresh == IF overwrite THEN Yields[d]
               ELSE SelectSeq(Yields[d], LAMBDA r : ~Has(Plain(r)))
  IN [i \in DOMAIN fresh |-> <<fresh[i], Has(Plain(fresh[i]))>>]

BeginParse(s, d, user, overwrite) ==
  /\ sources[d] # None
  /\ Begin(s, [op |-> "parse", source |-> d, user |-> user, codes |-> Parsed(d, overwrite),
               had |-> Text[d] # <<>> /\ \E c \in Codes : Has(c) /\ assets[c].from = d])

\* The unique index on the code lets these in.
Insertable(codes) == IsInjective(codes) /\ \A c \in Range(codes) : ~Has(c)

\* What a parsed rule says is good enough or not by its text.
FinishParse(s) ==
  LET codes == req[s].codes
  IN /\ req[s].op = "parse"
     /\ Insertable(codes)
     /\ \E says \in [Range(codes) -> Bodies] :
          /\ \A c \in Range(codes) : says[c] \in Good <=> Approvable(c[1])
          /\ assets' = [c \in Codes |-> IF c \in Range(codes)
                                        THEN Draft(says[c], req[s].user, req[s].source)
                                        ELSE assets[c]]
     /\ sources' = [sources EXCEPT ![req[s].source] =
                      IF codes # <<>> \/ req[s].had THEN "parsed" ELSE "parse_failed"]
     /\ Answer(s)
     /\ UNCHANGED <<packages, reviewed, published, raced>>

\* By hand; such an asset names no source here.
BeginCreate(s, c, user, body) ==
  /\ ~Has(c)
  /\ Begin(s, [op |-> "create", codes |-> <<c>>, row |-> Draft(body, user, None)])

CreateRuleEntry(s, c, user, body) == IsRule(c) /\ BeginCreate(s, c, user, body)
CreateTerm(s, c, user, body) == ~IsRule(c) /\ BeginCreate(s, c, user, body)

FinishCreate(s) ==
  /\ req[s].op = "create"
  /\ Insertable(req[s].codes)
  /\ assets' = [assets EXCEPT ![req[s].codes[1]] = req[s].row]
  /\ Answer(s)
  /\ UNCHANGED <<sources, packages, reviewed, published, raced>>

-----------------------------------------------------------------------------
(* Editing, submitting, reviewing.                                         *)

\* Mutated: what is packaged can be edited.
EditableAlways(row) == row.status # "deprecated"

Editable(row) == row.status \notin {"packaged", "deprecated"}

BeginEdit(s, c, body) ==
  /\ Has(c)
  /\ Editable(assets[c])
  /\ Begin(s, [op |-> "edit", seen |-> Seen({c}), body |-> body])

UpdateRuleEntry(s, c, body) == IsRule(c) /\ BeginEdit(s, c, body)
UpdateTerm(s, c, body) == ~IsRule(c) /\ BeginEdit(s, c, body)

\* Whatever was under review or reviewed is a draft again. The session leaves the
\* status alone if it read a draft.
FinishEdit(s) ==
  LET c == CHOOSE x \in DOMAIN req[s].seen : TRUE
  IN /\ req[s].op = "edit"
     /\ assets' = [assets EXCEPT ![c].body = req[s].body,
                     ![c].status = IF req[s].seen[c].status = "draft" THEN @ ELSE "draft"]
     /\ raced' = raced \union Moved(req[s].seen)
     /\ Answer(s)
     /\ UNCHANGED <<sources, packages, reviewed, published>>

Submittable(c) == Has(c) /\ assets[c].status \in {"draft", "rejected"}

\* One rule or a batch, of which it takes what can be submitted.
SubmitRuleEntries(s, codes) ==
  LET ready == {c \in codes : Submittable(c)}
  IN /\ ready # {}
     /\ \A c \in codes : IsRule(c)
     /\ Begin(s, [op |-> "submit", seen |-> Seen(ready)])

\* A term is assessed before it is reviewed, too.
SubmitTerm(s, c) ==
  /\ ~IsRule(c) /\ Submittable(c)
  /\ assets[c].body \in Good
  /\ Begin(s, [op |-> "submit", seen |-> Seen({c})])

FinishSubmit(s) ==
  /\ req[s].op = "submit"
  /\ SetStatus(req[s].seen, "reviewing")
  /\ Answer(s)
  /\ UNCHANGED <<sources, packages, reviewed, published>>

\* Mutated: whoever wrote it may approve it.
Anyone(user, row) == TRUE

MayReview(user, row) == user # row.by \/ user \in Admins

BeginReview(s, c, user, approve) ==
  /\ Has(c)
  /\ MayReview(user, assets[c])
  /\ assets[c].status = "reviewing"
  /\ approve => assets[c].body \in Good
  /\ Begin(s, [op |-> "review", seen |-> Seen({c}), user |-> user, approve |-> approve])

ReviewRuleEntry(s, c, user, approve) == IsRule(c) /\ BeginReview(s, c, user, approve)
ReviewTerm(s, c, user, approve) == ~IsRule(c) /\ BeginReview(s, c, user, approve)

FinishReview(s) ==
  LET entitled == {c \in DOMAIN req[s].seen :
                     req[s].approve /\ (\/ req[s].user # req[s].seen[c].by
                                        \/ req[s].user \in Admins)}
  IN /\ req[s].op = "review"
     /\ SetStatus(req[s].seen, IF req[s].approve THEN "approved" ELSE "rejected")
     /\ reviewed' = reviewed \union {<<c, req[s].seen[c].body>> : c \in entitled}
     /\ Answer(s)
     /\ UNCHANGED <<sources, packages, published>>

\* Asks for no status; terms have no such request.
BeginDeprecate(s, c) ==
  /\ IsRule(c) /\ Has(c)
  /\ Begin(s, [op |-> "deprecate", seen |-> Seen({c})])

FinishDeprecate(s) ==
  /\ req[s].op = "deprecate"
  /\ SetStatus(req[s].seen, "deprecated")
  /\ Answer(s)
  /\ UNCHANGED <<sources, packages, reviewed, published>>

-----------------------------------------------------------------------------
(* Compiling: one commit for the package, one for the assets.              *)

\* The approved ones among those named, or all that are approved.
Selected(kind, named) ==
  {c \in named : KindOf(c) = kind /\ Has(c) /\ assets[c].status = "approved"}

\* Mutated: what was approved is taken to be good.
Trusted(codes) == TRUE

\* What was approved is assessed again.
Assessed(codes) == \A c \in codes : assets[c].body \in Good

\* An attribute goes with its entity.
Complete(codes) ==
  \A c \in codes : c \in Attributes \X {FALSE} => Plain(Owner[c[1]]) \in codes

\* The row that _upsert_package writes for each of the two.
Target(kind, version) == <<kind, version>>

BeginCompile(s, kind, version, chosen) ==
  /\ chosen # {}
  /\ Assessed(chosen)
  /\ Begin(s, [op |-> "compile", at |-> Target(kind, version), seen |-> Seen(chosen),
               absent |-> packages[Target(kind, version)] = None])

CompileRules(s, version, named) ==
  BeginCompile(s, "rule", version, Selected("rule", named))

CompileSchema(s, version, named) ==
  /\ Complete(Selected("schema", named))
  /\ BeginCompile(s, "schema", version, Selected("schema", named))

\* Mutated: the assets are stamped before the package is stored.
StampFirst(s) ==
  /\ req[s].op = "compile"
  /\ SetStatus(req[s].seen, "packaged")
  /\ req' = [req EXCEPT ![s].op = "stamp"]
  /\ UNCHANGED <<sources, packages, requests, reviewed, published>>

\* _upsert_package replaces the payload of a version that is there.
StorePackage(s) ==
  LET seen == req[s].seen
  IN /\ req[s].op = "compile"
     /\ packages' = [packages EXCEPT ![req[s].at] = {<<c, seen[c].body>> : c \in DOMAIN seen}]
     /\ published' = published \union DOMAIN seen
     /\ req' = [req EXCEPT ![s].op = "stamp"]
     /\ UNCHANGED <<sources, assets, requests, reviewed, raced>>

StampAssets(s) ==
  /\ req[s].op = "stamp"
  /\ SetStatus(req[s].seen, "packaged")
  /\ Answer(s)
  /\ UNCHANGED <<sources, packages, reviewed, published>>

\* A commit that a unique index refuses, and a process that dies after the first
\* commit of a compilation.
Fail(s) ==
  /\ \/ req[s].op \in {"parse", "create"} /\ ~Insertable(req[s].codes)
     \/ req[s].op = "compile" /\ req[s].absent /\ packages[req[s].at] # None
     \/ req[s].op = "stamp"
  /\ Answer(s)
  /\ UNCHANGED <<sources, assets, packages, reviewed, published, raced>>

SourceRequests(s, user) ==
  \E d \in Sources : \/ CreateSource(d)
                     \/ \E overwrite \in BOOLEAN : BeginParse(s, d, user, overwrite)

RuleRequests(s, user) ==
  \/ \E c \in Codes :
       \/ \E body \in Bodies : CreateRuleEntry(s, c, user, body) \/ UpdateRuleEntry(s, c, body)
       \/ \E approve \in BOOLEAN : ReviewRuleEntry(s, c, user, approve)
       \/ BeginDeprecate(s, c)
  \/ \E codes \in SUBSET Codes :
       \/ SubmitRuleEntries(s, codes)
       \/ \E version \in Versions : CompileRules(s, version, codes)

TermRequests(s, user) ==
  \/ \E c \in Codes :
       \/ \E body \in Bodies : CreateTerm(s, c, user, body) \/ UpdateTerm(s, c, body)
       \/ \E approve \in BOOLEAN : ReviewTerm(s, c, user, approve)
       \/ SubmitTerm(s, c)
  \/ \E codes \in SUBSET Codes, version \in Versions : CompileSchema(s, version, codes)

Next ==
  \E s \in Sessions :
    \/ \E user \in Users :
         SourceRequests(s, user) \/ RuleRequests(s, user) \/ TermRequests(s, user)
    \/ FinishParse(s) \/ FinishCreate(s) \/ FinishEdit(s) \/ FinishSubmit(s)
    \/ FinishReview(s) \/ FinishDeprecate(s) \/ StorePackage(s) \/ StampAssets(s)
    \/ Fail(s)

Spec == Init /\ [][Next]_vars

-----------------------------------------------------------------------------
(* Properties.                                                             *)

\* Whatever requests interleave, a package holds only what meets the approval
\* checks: an edit that races an approval leaves an approved asset unchecked, and
\* the compilation finds it (compile_rules validates what it selected).
PackagesHoldQuality ==
  \A p \in Kinds \X Versions : packages[p] # None =>
    \A e \in packages[p] : e[2] \in Good

\* A package holds only what somebody other than its author, or an administrator,
\* approved as it stands there; except assets that two requests wrote at once.
PackagesHoldReviewed ==
  \A p \in Kinds \X Versions : packages[p] # None =>
    \A e \in packages[p] : e[1] \in raced \/ e \in reviewed

\* What is packaged or deprecated is not edited and does not come back, with the
\* same exception.
FinalIsFinal ==
  [][\A c \in Codes \ raced' :
       Has(c) /\ assets[c].status \in {"packaged", "deprecated"} =>
         /\ assets'[c].body = assets[c].body
         /\ assets'[c].status \in {assets[c].status, "deprecated"}]_vars

\* An asset that is marked as packaged, and so can no longer be edited, has been in
\* a package, also when the process died while compiling.
PackagedWasPublished ==
  \A c \in Codes : Has(c) /\ assets[c].status = "packaged" => c \in published
=============================================================================
