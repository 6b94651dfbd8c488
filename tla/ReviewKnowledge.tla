--------------------------- MODULE ReviewKnowledge --------------------------
(***************************************************************************)
(* The review knowledge of one space (review/service.py): policy documents *)
(* are cut into articles, articles become norms and checks, people patch   *)
(* and approve them, packs of them are released, and reviews run on        *)
(* released packs. Every request reads first and commits later, in a       *)
(* database session of its own; a session writes the attributes that       *)
(* differ from what it read.                                               *)
(***************************************************************************)
EXTENDS Clauses

CONSTANTS
  Documents,   \* sources that may be uploaded as a policy document
  Text,        \* per document, its lines
  Binding,     \* what a line may say to make a norm of its article
  Packs,       \* names of review packs
  Sessions,    \* database sessions that may be open at the same time
  None,        \* no row
  Named,       \* bound: the sets of ids that a request may name for a pack
  MaxPatches   \* bound on the edits of norms and checks

ASSUME KnowledgeAssumption ==
  /\ MaxPatches \in Nat
  /\ None \notin {"draft", "segmented", "norms_extracted"}
  /\ \A d \in Documents : IsText(Text[d])

VARIABLES
  docs,       \* per document, the status of its row
  segmented,  \* the documents whose articles are stored
  items,      \* the rows of norm_clauses and review_checks
  packs,      \* the rows of review_packs
  req,        \* per session, the request it serves, with what it read
  report,     \* per pack, the rules that its last review applied
  patches,    \* how many patches were asked for
  approved,   \* observer: the items whose last decision is an approval
  raced       \* observer: the items that a release and a patch wrote at once

vars == <<docs, segmented, items, packs, req, report, patches, approved, raced>>

-----------------------------------------------------------------------------
(* Data. A norm and its check have the same code, made from the text of    *)
(* their article.                                                          *)

\* The articles of each document, in order.
Contents ==
  [d \in Documents |->
     [k \in DOMAIN Articles(Text[d]) |->
        LET article == Articles(Text[d])[k]
        IN [locator |-> article.locator, text |-> Says(Text[d], article)]]]

Texts == {a.text : a \in UNION {Range(Contents[d]) : d \in Documents}}

\* infer_norm_candidate: an article with a word of duty holds a norm.
Normative == {t \in Texts : Range(t) \intersect Binding # {}}

Items == {"norm", "check"} \X Texts
Norm(t) == <<"norm", t>>
Check(t) == <<"check", t>>

Statuses == {"draft", "approved", "rejected", "released", "deprecated"}
Row == [status : Statuses, body : {"extracted", "edited"}, norms : SUBSET Texts]

\* A pack names norms and checks by their ids; None stands for ids that no row has.
Ids == Texts \union {None}
PackRow == [status : {"draft", "released"}, norms : SUBSET Ids, checks : SUBSET Ids]

ASSUME NoneIsNoRow == None \notin Row \union PackRow \union Texts

Fresh(t) == [status |-> "draft", body |-> "extracted", norms |-> {t}]

\* The rows that are found for what a pack names.
ItemsOf(p) == {Norm(t) : t \in packs[p].norms \ {None}}
                \union {Check(t) : t \in packs[p].checks \ {None}}
Released(p) == packs[p] # None /\ packs[p].status = "released"

Idle == [op |-> "idle"]

TypeOK ==
  /\ docs \in [Documents -> {None, "draft", "segmented", "norms_extracted"}]
  /\ segmented \subseteq Documents
  /\ items \in [Items -> Row \union {None}]
  /\ packs \in [Packs -> PackRow \union {None}]
  /\ \A s \in Sessions : req[s].op \in {"idle", "upload", "segment", "resume",
                                        "extract", "patch", "pack", "release"}
  /\ patches \in 0..MaxPatches
  \* a norm and its check are stored together, and only from a stored article
  /\ \A t \in Texts : items[Norm(t)] # None <=> items[Check(t)] # None
  /\ \A t \in Texts : items[Norm(t)] # None =>
       \E d \in segmented : \E a \in Range(Contents[d]) : a.text = t

Init ==
  /\ docs = [d \in Documents |-> None]
  /\ segmented = {}
  /\ items = [i \in Items |-> None]
  /\ packs = [p \in Packs |-> None]
  /\ req = [s \in Sessions |-> Idle]
  /\ report = [p \in Packs |-> None]
  /\ patches = 0
  /\ approved = {}
  /\ raced = {}

Begin(s, r) == req[s].op = "idle" /\ req' = [req EXCEPT ![s] = r]
Answer(s) == req' = [req EXCEPT ![s] = Idle]

\* The commit of s is refused by a constraint: an error, and no change.
Refused(s) ==
  /\ Answer(s)
  /\ UNCHANGED <<docs, segmented, items, packs, report, patches, approved, raced>>

-----------------------------------------------------------------------------
(* From a document to norms and checks.                                    *)

\* upload_policy_document looks for the version as the caller spelled it, and
\* stores it stripped.
BeginUpload(s, d, stripped) ==
  /\ stripped => docs[d] = None
  /\ Begin(s, [op |-> "upload", doc |-> d])
  /\ UNCHANGED <<docs, segmented, items, packs, report, patches, approved, raced>>

FinishUpload(s) ==
  LET d == req[s].doc
  IN /\ req[s].op = "upload"
     /\ docs[d] = None
     /\ docs' = [docs EXCEPT ![d] = "draft"]
     /\ Answer(s)
     /\ UNCHANGED <<segmented, items, packs, report, patches, approved, raced>>

\* segment_policy_document, by itself or from extract_norms: articles that are
\* there already are left as they are.
BeginSegment(s, d, extract) ==
  /\ docs[d] # None
  /\ d \notin segmented
  /\ Begin(s, [op |-> "segment", doc |-> d, extract |-> extract])
  /\ UNCHANGED <<docs, segmented, items, packs, report, patches, approved, raced>>

\* Mutated: no index on the document and the locator.
Unlocated(d) == TRUE

\* The index on the document and the locator lets its articles in.
Locatable(d) ==
  /\ d \notin segmented
  /\ \A i, j \in DOMAIN Contents[d] :
       Contents[d][i].locator = Contents[d][j].locator => i = j

FinishSegment(s) ==
  LET d == req[s].doc
  IN /\ req[s].op = "segment"
     /\ Locatable(d)
     /\ segmented' = IF Contents[d] = <<>> THEN segmented ELSE segmented \union {d}
     /\ docs' = [docs EXCEPT ![d] = "segmented"]
     /\ req' = [req EXCEPT ![s] = IF req[s].extract THEN [op |-> "resume", doc |-> d]
                                  ELSE Idle]
     /\ UNCHANGED <<items, packs, report, patches, approved, raced>>

\* The texts of d whose articles are stored and whose norms are not: no norm is made
\* twice, but two articles that say the same are not told apart (the session does
\* not flush).
Candidates(d) ==
  IF d \notin segmented THEN <<>>
  ELSE Only([i \in DOMAIN Contents[d] |-> Contents[d][i].text],
            {t \in Normative : items[Norm(t)] = None})

BeginExtract(s, d) ==
  /\ docs[d] # None
  /\ \/ req[s].op = "idle" /\ d \in segmented
     \/ req[s] = [op |-> "resume", doc |-> d]
  /\ req' = [req EXCEPT ![s] = [op |-> "extract", doc |-> d, texts |-> Candidates(d)]]
  /\ UNCHANGED <<docs, segmented, items, packs, report, patches, approved, raced>>

\* The index on the code lets the norms of these texts in.
NewCodes(texts) ==
  /\ IsInjective(texts)
  /\ \A t \in Range(texts) : items[Norm(t)] = None

\* Norms for these texts, each with a check.
Added(texts) == [i \in Items |-> IF i[2] \in texts THEN Fresh(i[2]) ELSE items[i]]

FinishExtract(s) ==
  LET texts == Range(req[s].texts)
  IN /\ req[s].op = "extract"
     /\ NewCodes(req[s].texts)
     /\ items' = Added(texts)
     /\ docs' = IF texts = {} THEN docs
                ELSE [docs EXCEPT ![req[s].doc] = "norms_extracted"]
     /\ Answer(s)
     /\ UNCHANGED <<segmented, packs, report, patches, approved, raced>>

Refuse(s) ==
  /\ \/ req[s].op = "upload" /\ docs[req[s].doc] # None
     \/ req[s].op = "segment" /\ ~Locatable(req[s].doc)
     \/ req[s].op = "extract" /\ ~NewCodes(req[s].texts)
     \/ req[s].op = "pack" /\ packs[req[s].pack] # None
  /\ Refused(s)

-----------------------------------------------------------------------------
(* Editing and approving.                                                  *)

\* Mutated: a released row can be edited.
Open(row) == row.status # "deprecated"

\* What may still be edited.
Editable(row) == row.status \notin {"released", "deprecated"}

\* update_norm and update_check set the given attributes on the row they read; a patch
\* that changes none of them writes nothing, and is left out.
BeginPatch(s, i, change) ==
  /\ patches < MaxPatches
  /\ items[i] # None
  /\ Editable(items[i])
  /\ \E a \in DOMAIN change : change[a] # items[i][a]
  /\ Begin(s, [op |-> "patch", item |-> i, seen |-> items[i],
               to |-> [a \in DOMAIN items[i] |->
                         IF a \in DOMAIN change THEN change[a] ELSE items[i][a]]])
  /\ patches' = patches + 1
  /\ UNCHANGED <<docs, segmented, items, packs, report, approved, raced>>

UpdateNorm(s) ==
  \E t \in Texts, change \in [status : Statuses] \union [body : {"edited"}] :
    BeginPatch(s, Norm(t), change)

UpdateCheck(s) ==
  \E t \in Texts, change \in [status : Statuses] \union [body : {"edited"}]
                             \union [norms : SUBSET Normative] :
    BeginPatch(s, Check(t), change)

\* The row after a session that read it as seen commits it as to.
Merged(row, seen, to) ==
  [a \in DOMAIN row |-> IF to[a] # seen[a] THEN to[a] ELSE row[a]]

FinishPatch(s) ==
  LET i == req[s].item
      row == Merged(items[i], req[s].seen, req[s].to)
  IN /\ req[s].op = "patch"
     /\ items' = [items EXCEPT ![i] = row]
     /\ approved' = IF req[s].to.status = req[s].seen.status THEN approved
                    ELSE IF req[s].to.status = "approved" THEN approved \union {i}
                         ELSE approved \ {i}
     /\ raced' = IF items[i].status = "released" /\ req[s].seen.status # "released"
                 THEN raced \union {i} ELSE raced
     /\ Answer(s)
     /\ UNCHANGED <<docs, segmented, packs, report, patches>>

-----------------------------------------------------------------------------
(* Packs and reviews.                                                      *)

Stored == {t \in Texts : items[Norm(t)] # None}
Approved == {i \in Items : items[i] # None /\ items[i].status = "approved"}

\* create_pack: named norms and checks are taken as they are, found or not; where none
\* are named, the approved ones.
BeginPack(s, p, norms, checks) ==
  LET taken == IF norms # {} THEN norms
               ELSE {t \in Texts : Norm(t) \in Approved}
      tests == IF checks # {} THEN checks
               ELSE {t \in Texts : /\ Check(t) \in Approved
                                   /\ items[Check(t)].norms \intersect taken # {}}
  IN /\ packs[p] = None
     /\ taken # {} /\ tests # {}
     /\ Begin(s, [op |-> "pack", pack |-> p, norms |-> taken, checks |-> tests])
     /\ UNCHANGED <<docs, segmented, items, packs, report, patches, approved, raced>>

FinishPack(s) ==
  LET p == req[s].pack
  IN /\ req[s].op = "pack"
     /\ packs[p] = None
     /\ packs' = [packs EXCEPT ![p] = [status |-> "draft", norms |-> req[s].norms,
                                       checks |-> req[s].checks]]
     /\ Answer(s)
     /\ UNCHANGED <<docs, segmented, items, report, patches, approved, raced>>

\* Mutated: the checks are taken on trust.
NormsApproved(set) == \A i \in set : i[1] = "norm" => items[i].status = "approved"

\* Only approved norms and checks can be released; ids that no row has are passed over.
Releasable(set) == \A i \in set : items[i].status = "approved"

BeginRelease(s, p) ==
  /\ packs[p] # None
  /\ Releasable(ItemsOf(p))
  /\ Begin(s, [op |-> "release", pack |-> p,
               seen |-> [i \in ItemsOf(p) |-> items[i]]])
  /\ UNCHANGED <<docs, segmented, items, packs, report, patches, approved, raced>>

\* Mutated: the checks stay as they are.
NormsStamped(read) ==
  [i \in Items |-> IF i \in DOMAIN read /\ i[1] = "norm"
                   THEN [items[i] EXCEPT !.status = "released"] ELSE items[i]]

\* The release of what was read.
Stamped(read) ==
  [i \in Items |-> IF i \in DOMAIN read THEN [items[i] EXCEPT !.status = "released"]
                   ELSE items[i]]

FinishRelease(s) ==
  LET seen == req[s].seen
  IN /\ req[s].op = "release"
     /\ items' = Stamped(seen)
     /\ packs' = [packs EXCEPT ![req[s].pack].status = "released"]
     /\ raced' = raced \union
          {i \in DOMAIN seen : /\ items[i] # seen[i]
                               /\ items[i].status = "released" => i \notin approved}
     /\ Answer(s)
     /\ UNCHANGED <<docs, segmented, report, patches, approved>>

\* What a check of pack p judges by, and the norms that its finding cites.
Rule(p, t) ==
  [body |-> items[Check(t)].body,
   cites |-> {<<n, items[Norm(n)].body>> : n \in items[Check(t)].norms \intersect packs[p].norms}]

\* run_review, which changes no row that another request reads.
RunReview(p) ==
  /\ Released(p)
  /\ report' = [report EXCEPT ![p] = [t \in packs[p].checks \ {None} |-> Rule(p, t)]]
  /\ UNCHANGED <<docs, segmented, items, packs, req, patches, approved, raced>>

DocumentRequests(s) ==
  \E d \in Documents :
    \/ \E stripped \in BOOLEAN : BeginUpload(s, d, stripped)
    \/ \E extract \in BOOLEAN : BeginSegment(s, d, extract)
    \/ BeginExtract(s, d)

\* Whoever names a norm or a check has seen its row, or names one that is not there.
PackRequests(s) ==
  \E p \in Packs :
    \/ \E norms, checks \in Named \intersect SUBSET (Stored \union {None}) :
         BeginPack(s, p, norms, checks)
    \/ BeginRelease(s, p)

Next ==
  \/ \E s \in Sessions :
       \/ DocumentRequests(s) \/ UpdateNorm(s) \/ UpdateCheck(s) \/ PackRequests(s)
       \/ FinishUpload(s) \/ FinishSegment(s) \/ FinishExtract(s) \/ FinishPatch(s)
       \/ FinishPack(s) \/ FinishRelease(s) \/ Refuse(s)
  \/ \E p \in Packs : RunReview(p)

Spec == Init /\ [][Next]_vars

-----------------------------------------------------------------------------
(* Properties.                                                             *)

\* Whatever requests interleave, a norm or a check that a released pack holds was
\* approved, and no later decision took that back, except one that a patch wrote while
\* the pack was being released (release_pack; rule_ontology_asset_sop.md:76). Nothing
\* is said of the ids that no row has: a pack that names them is released without.
OnlyApprovedReleased ==
  \A p \in Packs : Released(p) => ItemsOf(p) \ raced \subseteq approved

\* What a released pack holds is released with it, and so can no longer be
\* edited, except an item that a patch wrote while the pack was being released.
ReleasedAsAWhole ==
  \A p \in Packs : Released(p) =>
    \A i \in ItemsOf(p) \ raced : items[i].status = "released"

\* The rules of a released pack are fixed: each review applies to a check what the
\* review before it did, with the same exception.
RulesAreFixed ==
  [][\A p \in Packs : report[p] # None =>
       \A t \in DOMAIN report[p] :
         raced' \intersect ({Check(t)} \union {Norm(c[1]) : c \in report[p][t].cites}) = {}
           => report'[p][t] = report[p][t]]_vars

Progress(status) ==
  CHOOSE n \in 0..3 : status = <<None, "draft", "segmented", "norms_extracted">>[n + 1]

\* A document never falls back: a late segmentation does not undo the status that
\* an extraction stored meanwhile.
DocumentsMoveOn == [][\A d \in Documents : Progress(docs[d]) <= Progress(docs'[d])]_vars

\* The articles stored of a document are all that starts at one of its marks, or with
\* the text, and has four characters or more: each whole, with all lines up to the next
\* mark, in their order, and under the number and the chapter it has in the text
\* (segment_policy_text). Text that is shorter is not stored; a line that comes before
\* the first mark of its chapter counts with the article before it.
ReadWell == {d \in Documents : ArticlesReadWell(Text[d])}

ArticlesAreWhole == segmented \subseteq ReadWell

\* Every finding carries the article of a norm (rule_ontology_asset_sop.md:79).
FindingsAreCited ==
  \A p \in Packs : report[p] # None =>
    \A t \in DOMAIN report[p] : report[p][t].cites # {}
=============================================================================
