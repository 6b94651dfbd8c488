------------------------ MODULE ReviewKnowledgeProofs -----------------------
(***************************************************************************)
(* Proofs about ReviewKnowledge: for any documents, any number of requests *)
(* that overlap and any edits, a released pack holds only what somebody    *)
(* approved, is released as a whole, and judges by the same rules always;  *)
(* a document only moves on, its articles are whole and long enough, and a *)
(* norm is one that a stored article states.                               *)
(***************************************************************************)
EXTENDS ReviewKnowledge, TLAPS, WellFoundedInduction, NaturalsInduction, SequenceTheorems

-----------------------------------------------------------------------------
(* The inductive invariant.                                                *)

RowsSound ==
  /\ items \in [Items -> Row \union {None}]
  /\ \A t \in Texts : items[Norm(t)] # None <=> items[Check(t)] # None
  /\ \A i \in Items : items[i] # None /\ items[i].status = "approved" => i \in approved

\* What is found of a pack is there; if the pack is released, it is approved and released.
PackSound(p) ==
  packs[p] # None =>
    /\ \A i \in ItemsOf(p) : items[i] # None
    /\ packs[p].status = "released" =>
         /\ ItemsOf(p) \ raced \subseteq approved
         /\ \A i \in ItemsOf(p) \ raced : items[i].status = "released"

\* Neither the check nor a norm that its finding cites was written by a patch during a
\* release.
Unraced(t, rule) == raced \intersect ({Check(t)} \union {Norm(c[1]) : c \in rule.cites}) = {}

\* The last review applied the rules that are there.
ReportSound(p) ==
  report[p] # None =>
    /\ Released(p)
    /\ DOMAIN report[p] = packs[p].checks \ {None}
    /\ \A t \in packs[p].checks \ {None} : Unraced(t, report[p][t]) => report[p][t] = Rule(p, t)

ReqSound(r) ==
  /\ r.op = "patch" =>
       /\ r.item \in Items /\ items[r.item] # None
       /\ r.seen \in Row /\ r.to \in Row /\ r.seen.status # "released"
  /\ r.op = "pack" =>
       /\ r.pack \in Packs /\ r.norms \subseteq Ids /\ r.checks \subseteq Ids
       /\ \A t \in r.norms \ {None} : items[Norm(t)] # None
       /\ \A t \in r.checks \ {None} : items[Check(t)] # None
  /\ r.op = "release" =>
       /\ r.pack \in Packs /\ packs[r.pack] # None
       /\ DOMAIN r.seen = ItemsOf(r.pack)
       /\ \A i \in ItemsOf(r.pack) : r.seen[i].status = "approved"

Sound ==
  /\ RowsSound
  /\ packs \in [Packs -> PackRow \union {None}]
  /\ DOMAIN report = Packs
  /\ DOMAIN req = Sessions
  /\ \A p \in Packs : PackSound(p) /\ ReportSound(p)
  /\ \A s \in Sessions : ReqSound(req[s])

-----------------------------------------------------------------------------
LEMMA IdleSound == ReqSound(Idle) /\ ReqSound(Idle)'
  BY DEF ReqSound, Idle

\* The items of a pack are items.
LEMMA ItemsOfPack ==
  ASSUME Sound, NEW p \in Packs, packs[p] # None
  PROVE  /\ packs[p] \in PackRow
         /\ ItemsOf(p) \subseteq Items
         /\ packs[p].norms \ {None} \subseteq Texts /\ packs[p].checks \ {None} \subseteq Texts
         /\ \A t \in packs[p].checks \ {None} : Check(t) \in ItemsOf(p)
         /\ \A t \in packs[p].norms \ {None} : Norm(t) \in ItemsOf(p)
  <1>1. packs[p] \in PackRow
    BY DEF Sound
  <1>2. packs[p].norms \ {None} \subseteq Texts /\ packs[p].checks \ {None} \subseteq Texts
    BY <1>1 DEF PackRow, Ids
  <1> QED BY <1>1, <1>2 DEF ItemsOf, Items, Norm, Check

LEMMA InitSound == Init => Sound
  <1> SUFFICES ASSUME Init
               PROVE  Sound
    OBVIOUS
  <1>1. \A t \in Texts : Norm(t) \in Items /\ Check(t) \in Items
    BY DEF Norm, Check, Items
  <1>2. RowsSound
    BY <1>1 DEF Init, RowsSound
  <1>3. \A p \in Packs : PackSound(p) /\ ReportSound(p)
    BY DEF Init, PackSound, ReportSound
  <1>4. \A s \in Sessions : ReqSound(req[s])
    BY IdleSound DEF Init
  <1>5. packs \in [Packs -> PackRow \union {None}] /\ DOMAIN report = Packs
        /\ DOMAIN req = Sessions
    BY DEF Init
  <1> QED BY <1>2, <1>3, <1>4, <1>5 DEF Sound

\* Rows and packs stay, and a pack keeps what it holds.
Grows ==
  /\ raced \subseteq raced'
  /\ \A i \in Items : items[i] # None => items'[i] # None
  /\ \A p \in Packs : packs[p] # None =>
       /\ packs'[p] # None
       /\ packs'[p].norms = packs[p].norms /\ packs'[p].checks = packs[p].checks

LEMMA ItemsKept ==
  ASSUME Grows, NEW p \in Packs, packs[p] # None
  PROVE  ItemsOf(p)' = ItemsOf(p)
  BY DEF Grows, ItemsOf, Norm, Check

\* Session s goes on as r.
LEMMA RequestsSound ==
  ASSUME Sound, Grows, NEW s \in Sessions, NEW r, req' = [req EXCEPT ![s] = r], ReqSound(r)'
  PROVE  DOMAIN req' = Sessions /\ \A o \in Sessions : ReqSound(req[o])'
  <1>1. ASSUME NEW o \in Sessions
        PROVE  ReqSound(req[o])'
    <2>1. CASE o = s
      BY <2>1 DEF Sound
    <2>2. CASE o # s
      <3>1. req'[o] = req[o] /\ ReqSound(req[o])
        BY <2>2 DEF Sound
      <3>2. req[o].op = "pack" /\ req[o].norms \subseteq Ids /\ req[o].checks \subseteq Ids =>
              /\ \A t \in req[o].norms \ {None} : Norm(t) \in Items
              /\ \A t \in req[o].checks \ {None} : Check(t) \in Items
        BY DEF Norm, Check, Items, Ids
      <3>3. req[o].op = "release" => ItemsOf(req[o].pack)' = ItemsOf(req'[o].pack)
        BY <3>1, ItemsKept DEF ReqSound
      <3> QED BY <3>1, <3>2, <3>3 DEF ReqSound, Grows
    <2> QED BY <2>1, <2>2
  <1> QED BY <1>1 DEF Sound

\* A request that begins only reads.
LEMMA BeginSound ==
  ASSUME Sound, NEW s \in Sessions, NEW r, req' = [req EXCEPT ![s] = r], ReqSound(r),
         UNCHANGED <<items, packs, report, approved, raced>>
  PROVE  Sound'
  <1>1. Grows /\ ReqSound(r)'
    BY DEF Grows, ReqSound, ItemsOf
  <1>2. RowsSound' /\ \A p \in Packs : PackSound(p)' /\ ReportSound(p)'
    BY DEF Sound, RowsSound, PackSound, ReportSound, ItemsOf, Released, Unraced, Rule
  <1> QED BY <1>1, <1>2, RequestsSound DEF Sound

-----------------------------------------------------------------------------
(* The steps that leave items, packs and reports alone.                    *)

\* What is not about packs or items needs no grounds.
LEMMA DocumentsSound ==
  ASSUME Sound, NEW s \in Sessions,
         \/ DocumentRequests(s) \/ FinishUpload(s) \/ FinishSegment(s) \/ Refuse(s)
  PROVE  Sound'
  <1>1. PICK r : /\ req' = [req EXCEPT ![s] = r]
                 /\ r = Idle \/ r.op \in {"upload", "segment", "resume", "extract"}
                 /\ UNCHANGED <<items, packs, report, approved, raced>>
    <2>1. CASE DocumentRequests(s)
      <3>1. PICK d \in Documents :
              \/ \E stripped \in BOOLEAN : BeginUpload(s, d, stripped)
              \/ \E extract \in BOOLEAN : BeginSegment(s, d, extract)
              \/ BeginExtract(s, d)
        BY <2>1 DEF DocumentRequests
      <3>2. CASE \E stripped \in BOOLEAN : BeginUpload(s, d, stripped)
        BY <3>2 DEF BeginUpload, Begin
      <3>3. CASE \E extract \in BOOLEAN : BeginSegment(s, d, extract)
        BY <3>3 DEF BeginSegment, Begin
      <3>4. CASE BeginExtract(s, d)
        BY <3>4 DEF BeginExtract
      <3> QED BY <3>1, <3>2, <3>3, <3>4
    <2>2. CASE FinishUpload(s)
      BY <2>2 DEF FinishUpload, Answer
    <2>3. CASE FinishSegment(s)
      <3>1. CASE req[s].extract
        BY <2>3, <3>1 DEF FinishSegment
      <3>2. CASE ~req[s].extract
        BY <2>3, <3>2 DEF FinishSegment
      <3> QED BY <3>1, <3>2
    <2>4. CASE Refuse(s)
      BY <2>4 DEF Refuse, Refused, Answer
    <2> QED BY <2>1, <2>2, <2>3, <2>4
  <1>2. ReqSound(r)
    BY <1>1 DEF ReqSound, Idle
  <1> QED BY <1>1, <1>2, BeginSound

\* A row with some of its attributes given anew is a row.
LEMMA ChangedRow ==
  ASSUME NEW row \in Row,
         NEW change \in [status : Statuses] \union [body : {"edited"}]
                        \union [norms : SUBSET Texts]
  PROVE  [a \in DOMAIN row |-> IF a \in DOMAIN change THEN change[a] ELSE row[a]] \in Row
  <1> DEFINE to == [a \in DOMAIN row |-> IF a \in DOMAIN change THEN change[a] ELSE row[a]]
  <1>1. DOMAIN to = {"status", "body", "norms"}
    BY DEF Row
  <1>2. to.status \in Statuses /\ to.body \in {"extracted", "edited"}
        /\ to.norms \in SUBSET Texts
    BY DEF Row
  <1>3. to = [status |-> to.status, body |-> to.body, norms |-> to.norms]
    BY <1>1
  <1> HIDE DEF to
  <1> QED BY <1>2, <1>3 DEF Row, to

LEMMA BeginPatchSound ==
  ASSUME Sound, NEW s \in Sessions, UpdateNorm(s) \/ UpdateCheck(s)
  PROVE  Sound'
  <1>1. PICK i \in Items,
             change \in [status : Statuses] \union [body : {"edited"}]
                        \union [norms : SUBSET Texts] :
          BeginPatch(s, i, change)
    BY DEF UpdateNorm, UpdateCheck, Norm, Check, Items, Normative
  <1> DEFINE to == [a \in DOMAIN items[i] |-> IF a \in DOMAIN change THEN change[a]
                                              ELSE items[i][a]]
  <1>2. /\ items[i] # None /\ items[i].status # "released"
        /\ UNCHANGED <<items, packs, report, approved, raced>>
    BY <1>1 DEF BeginPatch, Editable
  <1>3. items[i] \in Row
    BY <1>2 DEF Sound, RowsSound
  <1>4. to \in Row
    BY <1>3, ChangedRow
  <1>5. req' = [req EXCEPT ![s] = [op |-> "patch", item |-> i, seen |-> items[i], to |-> to]]
    BY <1>1 DEF BeginPatch, Begin
  <1> HIDE DEF to
  <1>6. ReqSound([op |-> "patch", item |-> i, seen |-> items[i], to |-> to])
    BY <1>2, <1>3, <1>4 DEF ReqSound
  <1> QED BY <1>2, <1>5, <1>6, BeginSound

LEMMA PackRequestsSound ==
  ASSUME Sound, NEW s \in Sessions, PackRequests(s)
  PROVE  Sound'
  <1>1. ASSUME NEW p \in Packs, NEW norms \in SUBSET (Stored \union {None}),
               NEW checks \in SUBSET (Stored \union {None}), BeginPack(s, p, norms, checks)
        PROVE  Sound'
    <2>1. \A t \in Texts : /\ Norm(t) \in Approved => items[Norm(t)] # None
                           /\ Check(t) \in Approved => items[Check(t)] # None
      BY DEF Approved
    <2>2. \A t \in Stored : t \in Texts /\ items[Norm(t)] # None /\ items[Check(t)] # None
      BY DEF Stored, Sound, RowsSound
    <2>3. Stored \union {None} \subseteq Ids /\ Texts \subseteq Ids
      BY <2>2 DEF Ids
    <2>4. PICK taken \in SUBSET Ids, tests \in SUBSET Ids :
            /\ \A t \in taken \ {None} : items[Norm(t)] # None
            /\ \A t \in tests \ {None} : items[Check(t)] # None
            /\ Begin(s, [op |-> "pack", pack |-> p, norms |-> taken, checks |-> tests])
      <3> DEFINE taken == IF norms # {} THEN norms
                          ELSE {t \in Texts : Norm(t) \in Approved}
                 tests == IF checks # {} THEN checks
                          ELSE {t \in Texts : /\ Check(t) \in Approved
                                              /\ items[Check(t)].norms \intersect taken # {}}
      <3>1. taken \in SUBSET Ids /\ \A t \in taken \ {None} : items[Norm(t)] # None
        BY <2>1, <2>2, <2>3
      <3>2. tests \in SUBSET Ids /\ \A t \in tests \ {None} : items[Check(t)] # None
        BY <2>1, <2>2, <2>3
      <3>3. Begin(s, [op |-> "pack", pack |-> p, norms |-> taken, checks |-> tests])
        BY <1>1 DEF BeginPack
      <3> HIDE DEF taken, tests
      <3> QED BY <3>1, <3>2, <3>3
    <2> DEFINE r == [op |-> "pack", pack |-> p, norms |-> taken, checks |-> tests]
    <2>5. ReqSound(r)
      BY <2>4 DEF ReqSound
    <2>6. req' = [req EXCEPT ![s] = r] /\ UNCHANGED <<items, packs, report, approved, raced>>
      BY <1>1, <2>4 DEF BeginPack, Begin
    <2> HIDE DEF r
    <2> QED BY <2>5, <2>6, BeginSound
  <1>2. ASSUME NEW p \in Packs, BeginRelease(s, p)
        PROVE  Sound'
    <2> DEFINE seen == [i \in ItemsOf(p) |-> items[i]]
               r == [op |-> "release", pack |-> p, seen |-> seen]
    <2>1. /\ packs[p] # None /\ \A i \in ItemsOf(p) : items[i].status = "approved"
          /\ req' = [req EXCEPT ![s] = r]
          /\ UNCHANGED <<items, packs, report, approved, raced>>
      BY <1>2 DEF BeginRelease, Releasable, Begin
    <2>2. DOMAIN seen = ItemsOf(p) /\ \A i \in ItemsOf(p) : seen[i].status = "approved"
      BY <2>1
    <2> HIDE DEF seen
    <2>3. ReqSound(r)
      BY <2>1, <2>2 DEF ReqSound
    <2> HIDE DEF r
    <2> QED BY <2>1, <2>3, BeginSound
  <1> QED BY <1>1, <1>2 DEF PackRequests

-----------------------------------------------------------------------------
(* The steps that write.                                                   *)

\* The rules of a released pack stay when the items in it keep what they say.
LEMMA ReportKept ==
  ASSUME Sound, Grows, NEW p \in Packs, UNCHANGED report, Released(p) => Released(p)',
         Released(p) =>
           \A i \in ItemsOf(p) \ raced' :
             items'[i].body = items[i].body /\ items'[i].norms = items[i].norms
  PROVE  ReportSound(p)'
  <1> SUFFICES ASSUME report'[p] # None
               PROVE  /\ Released(p)'
                      /\ DOMAIN report'[p] = packs'[p].checks \ {None}
                      /\ \A t \in packs'[p].checks \ {None} :
                           Unraced(t, report[p][t])' => report'[p][t] = Rule(p, t)'
    BY DEF ReportSound
  <1>1. /\ Released(p) /\ DOMAIN report[p] = packs[p].checks \ {None}
        /\ \A t \in packs[p].checks \ {None} : Unraced(t, report[p][t]) => report[p][t] = Rule(p, t)
    BY DEF Sound, ReportSound
  <1>2. packs[p] # None /\ packs'[p].norms = packs[p].norms
        /\ packs'[p].checks = packs[p].checks
    BY <1>1 DEF Released, Grows
  <1>3. ASSUME NEW t \in packs[p].checks \ {None}, Unraced(t, report[p][t])'
        PROVE  report'[p][t] = Rule(p, t)'
    <2>1. raced' \intersect ({Check(t)} \union {Norm(c[1]) : c \in report[p][t].cites}) = {}
      BY <1>3 DEF Unraced, Norm, Check
    <2>2. report[p][t] = Rule(p, t)
      BY <1>1, <2>1 DEF Unraced, Grows
    <2>3. items'[Check(t)].body = items[Check(t)].body
          /\ items'[Check(t)].norms = items[Check(t)].norms
      BY <1>1, <1>2, <2>1, ItemsOfPack
    <2>4. ASSUME NEW n \in items[Check(t)].norms \intersect packs[p].norms
          PROVE  items'[Norm(n)].body = items[Norm(n)].body
      <3>1. <<n, items[Norm(n)].body>> \in report[p][t].cites
        BY <2>2 DEF Rule
      <3>2. Norm(n) \notin raced'
        BY <2>1, <3>1
      <3>3. n # None
        <4>1. items[Check(t)] \in Row
          BY <1>2, ItemsOfPack DEF Sound, PackSound, RowsSound
        <4> QED BY <4>1, NoneIsNoRow DEF Row
      <3> QED BY <1>1, <1>2, <3>2, <3>3, ItemsOfPack
    <2>5. {<<n, items'[Norm(n)].body>> : n \in items'[Check(t)].norms \intersect packs'[p].norms}
            = {<<n, items[Norm(n)].body>> : n \in items[Check(t)].norms \intersect packs[p].norms}
      BY <1>2, <2>3, <2>4
    <2>6. Rule(p, t)' = Rule(p, t)
      BY <2>3, <2>5 DEF Rule, Norm, Check
    <2> QED BY <2>2, <2>6
  <1> QED BY <1>1, <1>2, <1>3

\* RulesAreFixed, of one step.
Fixed ==
  \A p \in Packs : report[p] # None =>
    \A t \in DOMAIN report[p] :
      raced' \intersect ({Check(t)} \union {Norm(c[1]) : c \in report[p][t].cites}) = {}
        => report'[p][t] = report[p][t]

LEMMA FixedByRest == UNCHANGED report => Fixed
  BY DEF Fixed

\* New norms and checks are drafts, and nothing that was there is written.
LEMMA ExtractSound ==
  ASSUME Sound, NEW s \in Sessions, FinishExtract(s)
  PROVE  Sound'
  <1> DEFINE texts == Range(req[s].texts)
  <1>1. /\ \A t \in texts : items[Norm(t)] = None
        /\ items' = [i \in Items |-> IF i[2] \in texts THEN Fresh(i[2]) ELSE items[i]]
        /\ req' = [req EXCEPT ![s] = Idle]
        /\ UNCHANGED <<packs, report, approved, raced>>
    BY DEF FinishExtract, NewCodes, Added, Answer
  <1> HIDE DEF texts
  <1>2. \A i \in Items : i[2] \in Texts /\ (i = Norm(i[2]) \/ i = Check(i[2]))
    BY DEF Items, Norm, Check
  <1>3. \A t \in Texts : /\ Norm(t) \in Items /\ Check(t) \in Items
                         /\ Norm(t)[2] = t /\ Check(t)[2] = t
    BY DEF Items, Norm, Check
  <1>4. \A t \in Texts : Fresh(t) \in Row /\ Fresh(t) # None /\ Fresh(t).status = "draft"
    BY NoneIsNoRow DEF Fresh, Row, Statuses
  <1>5. \A i \in Items : items[i] # None => items'[i] = items[i]
    BY <1>1, <1>2 DEF Sound, RowsSound
  <1>6. Grows
    BY <1>1, <1>5 DEF Grows
  <1>7. RowsSound'
    <2>1. items' \in [Items -> Row \union {None}]
      BY <1>1, <1>2, <1>4 DEF Sound, RowsSound
    <2>2. \A t \in Texts : items'[Norm(t)] # None <=> items'[Check(t)] # None
      BY <1>1, <1>3, <1>4 DEF Sound, RowsSound
    <2>3. \A i \in Items : items'[i] # None /\ items'[i].status = "approved" => i \in approved'
      BY <1>1, <1>2, <1>4 DEF Sound, RowsSound
    <2> QED BY <2>1, <2>2, <2>3 DEF RowsSound, Norm, Check
  <1>8. ASSUME NEW p \in Packs
        PROVE  PackSound(p)' /\ ReportSound(p)'
    <2>1. packs[p] # None => \A i \in ItemsOf(p) : items[i] # None /\ items'[i] = items[i]
      BY <1>5, ItemsOfPack DEF Sound, PackSound
    <2>2. packs[p] # None => ItemsOf(p)' = ItemsOf(p)
      BY <1>6, ItemsKept
    <2>3. PackSound(p)'
      BY <1>1, <2>1, <2>2 DEF Sound, PackSound
    <2>4. ReportSound(p)'
      BY <1>1, <1>6, <2>1, ReportKept DEF Released
    <2> QED BY <2>3, <2>4
  <1> QED BY <1>1, <1>6, <1>7, <1>8, IdleSound, RequestsSound DEF Sound


\* Of two rows, those attributes of one that differ from a third.
LEMMA MergedRow ==
  ASSUME NEW row \in Row, NEW seen \in Row, NEW to \in Row
  PROVE  Merged(row, seen, to) \in Row
  <1> DEFINE new == [a \in DOMAIN row |-> IF to[a] # seen[a] THEN to[a] ELSE row[a]]
  <1>1. DOMAIN new = {"status", "body", "norms"}
    BY DEF Row
  <1>2. new.status \in Statuses /\ new.body \in {"extracted", "edited"}
        /\ new.norms \in SUBSET Texts
    BY DEF Row
  <1>3. new = [status |-> new.status, body |-> new.body, norms |-> new.norms]
    BY <1>1
  <1> HIDE DEF new
  <1> QED BY <1>2, <1>3 DEF Row, Merged, new

\* Only a patch that read before a release writes what is released.
LEMMA PatchSound ==
  ASSUME Sound, NEW s \in Sessions, FinishPatch(s)
  PROVE  Sound'
  <1>1. PICK i, row :
          /\ i \in Items /\ items[i] # None /\ row \in Row
          /\ items' = [items EXCEPT ![i] = row]
          /\ row.status = "approved" => i \in approved'
          /\ \A j \in Items \ {i} : j \in approved' <=> j \in approved
          /\ raced' = IF items[i].status = "released" THEN raced \union {i} ELSE raced
          /\ req' = [req EXCEPT ![s] = Idle]
          /\ UNCHANGED <<packs, report>>
    <2> DEFINE q == req[s]
    <2>1. q.item \in Items /\ items[q.item] # None
          /\ q.seen \in Row /\ q.to \in Row /\ q.seen.status # "released"
      BY DEF FinishPatch, Sound, ReqSound
    <2>2. Merged(items[q.item], q.seen, q.to) \in Row
      BY <2>1, MergedRow DEF Sound, RowsSound
    <2>3. /\ Merged(items[q.item], q.seen, q.to).status = "approved" => q.item \in approved'
          /\ \A j \in Items \ {q.item} : j \in approved' <=> j \in approved
      <3>1. items[q.item] \in Row
        BY <2>1 DEF Sound, RowsSound
      <3>2. Merged(items[q.item], q.seen, q.to).status =
              IF q.to.status # q.seen.status THEN q.to.status ELSE items[q.item].status
        BY <3>1 DEF Merged, Row
      <3>3. approved' = IF q.to.status = q.seen.status THEN approved
                        ELSE IF q.to.status = "approved" THEN approved \union {q.item}
                             ELSE approved \ {q.item}
        BY DEF FinishPatch
      <3> QED BY <2>1, <3>2, <3>3 DEF Sound, RowsSound
    <2> QED BY <2>1, <2>2, <2>3 DEF FinishPatch, Answer
  <1>2. items'[i] = row /\ row # None /\ \A j \in Items \ {i} : items'[j] = items[j]
    BY <1>1, NoneIsNoRow DEF Sound, RowsSound
  <1>3. Grows
    BY <1>1, <1>2 DEF Grows
  <1>4. RowsSound'
    <2>1. \A j \in Items : items'[j] # None <=> items[j] # None
      BY <1>1, <1>2
    <2>2. \A t \in Texts : Norm(t) \in Items /\ Check(t) \in Items
      BY DEF Items, Norm, Check
    <2>3. \A t \in Texts : items'[Norm(t)] # None <=> items'[Check(t)] # None
      BY <2>1, <2>2 DEF Sound, RowsSound
    <2>4. \A j \in Items : items'[j] # None /\ items'[j].status = "approved" => j \in approved'
      BY <1>1, <1>2 DEF Sound, RowsSound
    <2>5. items' \in [Items -> Row \union {None}]
      BY <1>1 DEF Sound, RowsSound
    <2> QED BY <2>3, <2>4, <2>5 DEF RowsSound, Norm, Check
  <1>5. ASSUME NEW p \in Packs
        PROVE  PackSound(p)' /\ ReportSound(p)'
    <2>1. packs[p] # None => ItemsOf(p)' = ItemsOf(p) /\ ItemsOf(p) \subseteq Items
      BY <1>3, ItemsKept, ItemsOfPack
    <2>2. Released(p) => \A j \in ItemsOf(p) \ raced' : items'[j] = items[j]
      BY <1>1, <1>2, <2>1 DEF Released, Sound, PackSound
    <2>3. Released(p) => i \notin ItemsOf(p) \ raced'
      BY <1>1, <2>1 DEF Released, Sound, PackSound
    <2>4. PackSound(p)'
      <3>1. packs[p] # None => \A j \in ItemsOf(p) : items'[j] # None
        BY <1>1, <1>2, <2>1 DEF Sound, PackSound
      <3>2. Released(p) => \A j \in ItemsOf(p) \ raced' :
                             j \in approved' /\ items'[j].status = "released"
        BY <1>1, <1>2, <1>3, <2>1, <2>2, <2>3 DEF Sound, PackSound, Grows, Released
      <3> QED BY <1>1, <2>1, <3>1, <3>2 DEF PackSound, Released
    <2>5. ReportSound(p)'
      BY <1>1, <1>3, <2>2, ReportKept DEF Released
    <2> QED BY <2>4, <2>5
  <1> QED BY <1>1, <1>3, <1>4, <1>5, IdleSound, RequestsSound DEF Sound

LEMMA PackMadeSound ==
  ASSUME Sound, NEW s \in Sessions, FinishPack(s)
  PROVE  Sound'
  <1>1. PICK p, pack :
          /\ p \in Packs /\ packs[p] = None /\ pack \in PackRow /\ pack.status = "draft"
          /\ \A t \in pack.norms \ {None} : items[Norm(t)] # None
          /\ \A t \in pack.checks \ {None} : items[Check(t)] # None
          /\ packs' = [packs EXCEPT ![p] = pack]
          /\ req' = [req EXCEPT ![s] = Idle]
          /\ UNCHANGED <<items, report, approved, raced>>
    <2> DEFINE q == req[s]
               pack == [status |-> "draft", norms |-> q.norms, checks |-> q.checks]
    <2>1. /\ q.pack \in Packs /\ q.norms \subseteq Ids /\ q.checks \subseteq Ids
          /\ \A t \in q.norms \ {None} : items[Norm(t)] # None
          /\ \A t \in q.checks \ {None} : items[Check(t)] # None
      BY DEF FinishPack, Sound, ReqSound
    <2>2. pack \in PackRow
      BY <2>1 DEF PackRow
    <2>3. /\ packs[q.pack] = None /\ packs' = [packs EXCEPT ![q.pack] = pack]
          /\ req' = [req EXCEPT ![s] = Idle]
          /\ UNCHANGED <<items, report, approved, raced>>
      BY DEF FinishPack, Answer
    <2>4. pack.status = "draft" /\ pack.norms = q.norms /\ pack.checks = q.checks
      OBVIOUS
    <2> HIDE DEF pack
    <2> QED BY <2>1, <2>2, <2>3, <2>4
  <1>2. packs'[p] = pack /\ \A o \in Packs \ {p} : packs'[o] = packs[o]
    BY <1>1 DEF Sound
  <1>3. Grows
    BY <1>1, <1>2 DEF Grows
  <1>4. RowsSound'
    BY <1>1 DEF Sound, RowsSound
  <1>5. ASSUME NEW o \in Packs
        PROVE  PackSound(o)' /\ ReportSound(o)'
    <2>1. Released(o) => o # p
      BY <1>1 DEF Released
    <2>2. ReportSound(o)'
      BY <1>1, <1>2, <1>3, <2>1, ReportKept DEF Released
    <2>3. CASE o = p
      <3>1. packs'[o].status # "released"
        BY <1>1, <1>2, <2>3
      <3>2. \A i \in ItemsOf(o)' : items'[i] # None
        BY <1>1, <1>2, <2>3 DEF ItemsOf, Norm, Check
      <3> QED BY <2>2, <3>1, <3>2 DEF PackSound
    <2>4. CASE o # p
      <3>1. packs[o] # None => ItemsOf(o)' = ItemsOf(o)
        BY <1>3, ItemsKept
      <3> QED BY <1>1, <1>2, <2>2, <2>4, <3>1 DEF Sound, PackSound
    <2> QED BY <2>3, <2>4
  <1>6. packs' \in [Packs -> PackRow \union {None}]
    BY <1>1 DEF Sound
  <1> QED BY <1>1, <1>3, <1>4, <1>5, <1>6, IdleSound, RequestsSound DEF Sound


\* What is stamped was read as approved, and keeps what it says.
LEMMA ReleaseSound ==
  ASSUME Sound, NEW s \in Sessions, FinishRelease(s)
  PROVE  Sound'
  <1>1. PICK p, seen :
          /\ p \in Packs /\ packs[p] # None
          /\ DOMAIN seen = ItemsOf(p) /\ \A i \in ItemsOf(p) : seen[i].status = "approved"
          /\ items' = [i \in Items |-> IF i \in DOMAIN seen
                                       THEN [items[i] EXCEPT !.status = "released"]
                                       ELSE items[i]]
          /\ packs' = [packs EXCEPT ![p].status = "released"]
          /\ raced' = raced \union
               {i \in ItemsOf(p) : /\ items[i] # seen[i]
                                   /\ items[i].status = "released" => i \notin approved}
          /\ req' = [req EXCEPT ![s] = Idle]
          /\ UNCHANGED <<report, approved>>
    BY DEF FinishRelease, Stamped, Answer, Sound, ReqSound
  <1>2. /\ ItemsOf(p) \subseteq Items
        /\ \A i \in ItemsOf(p) : items[i] # None /\ items[i] \in Row
    BY <1>1, ItemsOfPack DEF Sound, PackSound, RowsSound
  <1>3. \A i \in ItemsOf(p) : LET row == [items[i] EXCEPT !.status = "released"]
                              IN /\ row \in Row /\ row.status = "released"
                                 /\ row.body = items[i].body /\ row.norms = items[i].norms
    BY <1>2 DEF Row, Statuses
  <1>4. /\ \A i \in ItemsOf(p) : /\ items'[i] \in Row /\ items'[i].status = "released"
                                 /\ items'[i].body = items[i].body
                                 /\ items'[i].norms = items[i].norms
        /\ \A i \in Items \ ItemsOf(p) : items'[i] = items[i]
        /\ items' \in [Items -> Row \union {None}]
    BY <1>1, <1>2, <1>3 DEF Sound, RowsSound
  <1>5. /\ packs'[p] \in PackRow /\ packs'[p].status = "released"
        /\ packs'[p].norms = packs[p].norms /\ packs'[p].checks = packs[p].checks
        /\ \A o \in Packs \ {p} : packs'[o] = packs[o]
        /\ packs' \in [Packs -> PackRow \union {None}]
    BY <1>1 DEF Sound, PackRow
  <1>6. \A i \in Items : items'[i] # None <=> items[i] # None
    BY <1>2, <1>4, NoneIsNoRow
  <1>7. Grows
    BY <1>1, <1>5, <1>6, NoneIsNoRow DEF Grows
  <1>8. RowsSound'
    <2>1. \A t \in Texts : Norm(t) \in Items /\ Check(t) \in Items
      BY DEF Items, Norm, Check
    <2>2. \A t \in Texts : items'[Norm(t)] # None <=> items'[Check(t)] # None
      BY <1>6, <2>1 DEF Sound, RowsSound
    <2>3. \A i \in Items : items'[i] # None /\ items'[i].status = "approved" => i \in approved'
      BY <1>1, <1>4 DEF Sound, RowsSound
    <2> QED BY <1>4, <2>2, <2>3 DEF RowsSound, Norm, Check
  <1>9. ASSUME NEW o \in Packs
        PROVE  PackSound(o)' /\ ReportSound(o)'
    <2>1. packs[o] # None => ItemsOf(o)' = ItemsOf(o) /\ ItemsOf(o) \subseteq Items
      BY <1>7, ItemsKept, ItemsOfPack
    <2>2. packs[o] # None =>
            \A i \in ItemsOf(o) : /\ items'[i] # None
                                  /\ items'[i].body = items[i].body
                                  /\ items'[i].norms = items[i].norms
                                  /\ items[i].status = "released" => items'[i].status = "released"
      BY <1>4, <1>6, <2>1 DEF Sound, PackSound
    <2>3. Released(o) => Released(o)'
      BY <1>5, <1>7 DEF Released, Grows
    <2>4. ReportSound(o)'
      BY <1>1, <1>7, <2>2, <2>3, ReportKept DEF Released
    <2>5. CASE o = p
      <3>1. \A i \in ItemsOf(p) \ raced' : i \in approved
        BY <1>1, <1>2 DEF Sound, RowsSound
      <3>2. PackSound(o)'
        BY <1>1, <1>4, <2>1, <2>2, <2>5, <3>1 DEF PackSound
      <3> QED BY <2>4, <3>2
    <2>6. CASE o # p
      <3>1. PackSound(o) /\ raced \subseteq raced'
        BY <1>1 DEF Sound
      <3>2. packs'[o] = packs[o] /\ approved' = approved
        BY <1>1, <1>5, <2>6
      <3>3. CASE packs[o] = None
        BY <2>4, <3>2, <3>3 DEF PackSound
      <3>4. CASE packs[o] # None
        <4>1. ItemsOf(o)' = ItemsOf(o) /\ \A i \in ItemsOf(o) : items'[i] # None
          BY <2>1, <2>2, <3>4
        <4>2. packs[o].status = "released" =>
                /\ ItemsOf(o) \ raced' \subseteq approved
                /\ \A i \in ItemsOf(o) \ raced' : items'[i].status = "released"
          BY <2>2, <3>1, <3>4 DEF PackSound
        <4> QED BY <2>4, <3>2, <4>1, <4>2 DEF PackSound
      <3> QED BY <3>3, <3>4
    <2> QED BY <2>5, <2>6
  <1> QED BY <1>1, <1>5, <1>7, <1>8, <1>9, IdleSound, RequestsSound DEF Sound

\* A review applies the rules that are there, and so did the one before it.
LEMMA ReviewSound ==
  ASSUME Sound, NEW p \in Packs, RunReview(p)
  PROVE  Sound' /\ Fixed
  <1> DEFINE new == [t \in packs[p].checks \ {None} |-> Rule(p, t)]
  <1>1. /\ Released(p) /\ report' = [report EXCEPT ![p] = new]
        /\ UNCHANGED <<items, packs, req, approved, raced>>
    BY DEF RunReview
  <1>2. /\ report'[p] = new /\ DOMAIN report' = Packs
        /\ \A o \in Packs \ {p} : report'[o] = report[o]
    BY <1>1 DEF Sound
  <1>3. DOMAIN new = packs[p].checks \ {None} /\ \A t \in packs[p].checks \ {None} : new[t] = Rule(p, t)
    OBVIOUS
  <1> HIDE DEF new
  <1>4. ASSUME NEW o \in Packs
        PROVE  ReportSound(o)'
    <2>1. \A t : Rule(o, t)' = Rule(o, t)
      BY <1>1 DEF Rule, Norm, Check
    <2>2. Released(o)' <=> Released(o)
      BY <1>1 DEF Released
    <2>3. CASE o = p
      BY <1>1, <1>2, <1>3, <2>1, <2>2, <2>3 DEF ReportSound
    <2>4. CASE o # p
      <3>1. report'[o] = report[o]
        BY <1>2, <2>4
      <3>2. \A t : Unraced(t, report[o][t])' <=> Unraced(t, report[o][t])
        BY <1>1, <3>1 DEF Unraced, Norm, Check
      <3>3. ReportSound(o)
        BY DEF Sound
      <3> QED BY <1>1, <2>1, <2>2, <3>1, <3>2, <3>3 DEF ReportSound
    <2> QED BY <2>3, <2>4
  <1>5. Sound'
    <2>1. RowsSound' /\ \A o \in Packs : PackSound(o)'
      BY <1>1 DEF Sound, RowsSound, PackSound, ItemsOf
    <2>2. \A s \in Sessions : ReqSound(req[s])'
      BY <1>1 DEF Sound, ReqSound, ItemsOf
    <2> QED BY <1>1, <1>2, <1>4, <2>1, <2>2 DEF Sound
  <1>6. Fixed
    <2> SUFFICES ASSUME NEW o \in Packs, report[o] # None, NEW t \in DOMAIN report[o],
                        raced' \intersect
                          ({Check(t)} \union {Norm(c[1]) : c \in report[o][t].cites}) = {}
                 PROVE  report'[o][t] = report[o][t]
      BY DEF Fixed
    <2>1. CASE o = p
      <3>1. t \in packs[p].checks \ {None} /\ report[p][t] = Rule(p, t)
        BY <1>1, <2>1 DEF Sound, ReportSound, Unraced
      <3> QED BY <1>2, <1>3, <2>1, <3>1
    <2>2. CASE o # p
      BY <1>2, <2>2
    <2> QED BY <2>1, <2>2
  <1> QED BY <1>5, <1>6

-----------------------------------------------------------------------------
LEMMA StepSound == Sound /\ [Next]_vars => Sound' /\ Fixed
  <1> SUFFICES ASSUME Sound, [Next]_vars
               PROVE  Sound' /\ Fixed
    OBVIOUS
  <1>1. ASSUME NEW s \in Sessions,
               \/ DocumentRequests(s) \/ FinishUpload(s) \/ FinishSegment(s) \/ Refuse(s)
        PROVE  Sound' /\ Fixed
    <2>1. UNCHANGED report
      BY <1>1 DEF DocumentRequests, BeginUpload, BeginSegment, BeginExtract, FinishUpload,
                  FinishSegment, Refuse, Refused
    <2> QED BY <1>1, <2>1, DocumentsSound, FixedByRest
  <1>2. ASSUME NEW s \in Sessions, UpdateNorm(s) \/ UpdateCheck(s) \/ PackRequests(s)
        PROVE  Sound' /\ Fixed
    <2>1. UNCHANGED report
      BY <1>2 DEF UpdateNorm, UpdateCheck, BeginPatch, PackRequests, BeginPack, BeginRelease
    <2> QED BY <1>2, <2>1, BeginPatchSound, PackRequestsSound, FixedByRest
  <1>3. ASSUME NEW s \in Sessions,
               FinishExtract(s) \/ FinishPatch(s) \/ FinishPack(s) \/ FinishRelease(s)
        PROVE  Sound' /\ Fixed
    <2>1. UNCHANGED report
      BY <1>3 DEF FinishExtract, FinishPatch, FinishPack, FinishRelease
    <2> QED BY <1>3, <2>1, ExtractSound, PatchSound, PackMadeSound, ReleaseSound, FixedByRest
  <1>4. CASE UNCHANGED vars
    <2>1. UNCHANGED <<items, packs, req, report, approved, raced>>
      BY <1>4 DEF vars
    <2>2. RowsSound'
      BY <2>1 DEF Sound, RowsSound
    <2>3. \A p \in Packs : PackSound(p)' /\ ReportSound(p)'
      BY <2>1 DEF Sound, PackSound, ReportSound, ItemsOf, Released, Unraced, Rule
    <2>4. \A s \in Sessions : ReqSound(req[s])'
      BY <2>1 DEF Sound, ReqSound, ItemsOf
    <2> QED BY <2>1, <2>2, <2>3, <2>4, FixedByRest DEF Sound
  <1> QED BY <1>1, <1>2, <1>3, <1>4, ReviewSound DEF Next

LEMMA SpecSound == Spec => []Sound
  <1>1. Sound /\ [Next]_vars => Sound'
    BY StepSound
  <1> QED BY InitSound, <1>1, PTL DEF Spec

\* A released pack holds only norms and checks that somebody approved, whatever patches
\* and releases overlap (release_pack in review/service.py).
THEOREM ReleasesAreApproved == Spec => []OnlyApprovedReleased
  <1>1. Sound => OnlyApprovedReleased
    BY DEF Sound, PackSound, OnlyApprovedReleased, Released
  <1> QED BY <1>1, SpecSound, PTL

\* What a released pack holds is released with it, except what a patch that had read it
\* before wrote afterwards.
THEOREM PacksAreReleasedWhole == Spec => []ReleasedAsAWhole
  <1>1. Sound => ReleasedAsAWhole
    BY DEF Sound, PackSound, ReleasedAsAWhole, Released
  <1> QED BY <1>1, SpecSound, PTL

\* Each review of a released pack applies to a check the rule that the review before it
\* applied, with the same exception (run_review).
THEOREM ReviewsAgree == Spec => RulesAreFixed
  <1>1. Sound /\ [Next]_vars =>
          [\A p \in Packs : report[p] # None =>
             \A t \in DOMAIN report[p] :
               raced' \intersect ({Check(t)} \union {Norm(c[1]) : c \in report[p][t].cites}) = {}
                 => report'[p][t] = report[p][t]]_vars
    BY StepSound DEF Fixed
  <1> QED BY <1>1, SpecSound, PTL DEF Spec, RulesAreFixed

-----------------------------------------------------------------------------
(* Documents. What has been extracted was segmented before, and norms are  *)
(* made only of stored articles; so no segmentation is let in after it.    *)

DocumentStatuses == {None, "draft", "segmented", "norms_extracted"}

DocSound(d) ==
  /\ docs[d] \in DocumentStatuses
  /\ docs[d] = "norms_extracted" => d \in segmented
  /\ d \in segmented => docs[d] \in {"segmented", "norms_extracted"}

DocReqSound(r) ==
  /\ r.op \in {"upload", "segment", "resume", "extract"} => r.doc \in Documents
  /\ r.op \in {"segment", "resume"} => docs[r.doc] # None
  /\ r.op = "extract" => Range(r.texts) = {} \/ r.doc \in segmented

DocsSound ==
  /\ DOMAIN docs = Documents /\ DOMAIN req = Sessions
  /\ segmented \subseteq Documents
  /\ \A d \in Documents : DocSound(d)
  /\ \A s \in Sessions : DocReqSound(req[s])

Onward == \A d \in Documents : Progress(docs[d]) <= Progress(docs'[d])

LEMMA ProgressOrder ==
  /\ Progress(None) = 0 /\ Progress("draft") = 1
  /\ Progress("segmented") = 2 /\ Progress("norms_extracted") = 3
  BY KnowledgeAssumption DEF Progress

\* The document d becomes status, and session s goes on as r.
LEMMA DocumentBecomes ==
  ASSUME DocsSound, NEW d \in Documents, NEW status \in DocumentStatuses,
         NEW s \in Sessions, NEW r,
         docs' = [docs EXCEPT ![d] = status], req' = [req EXCEPT ![s] = r],
         segmented' = segmented \/ segmented' = segmented \union {d},
         status # None, Progress(docs[d]) <= Progress(status),
         DocSound(d)', DocReqSound(r)'
  PROVE  DocsSound' /\ Onward
  <1>1. docs'[d] = status /\ \A o \in Documents \ {d} : docs'[o] = docs[o]
    BY DEF DocsSound
  <1>2. \A o \in Documents : DocSound(o)'
    BY <1>1 DEF DocsSound, DocSound
  <1>3. ASSUME NEW o \in Sessions
        PROVE  DocReqSound(req[o])'
    <2>1. CASE o = s
      BY <2>1 DEF DocsSound
    <2>2. CASE o # s
      <3>1. req'[o] = req[o] /\ DocReqSound(req[o])
        BY <2>2 DEF DocsSound
      <3> QED BY <1>1, <3>1 DEF DocReqSound
    <2> QED BY <2>1, <2>2
  <1>4. Onward
    BY <1>1, ProgressOrder DEF Onward, DocsSound, DocSound, DocumentStatuses
  <1> QED BY <1>2, <1>3, <1>4 DEF DocsSound

\* Documents are left alone, and at most one session goes on.
LEMMA DocumentsRest ==
  ASSUME DocsSound, UNCHANGED <<docs, segmented>>, DOMAIN req' = Sessions,
         \A o \in Sessions : req'[o] = req[o] \/ DocReqSound(req'[o])
  PROVE  DocsSound' /\ Onward
  <1>1. \A o \in Sessions : DocReqSound(req'[o])
    BY DEF DocsSound
  <1>2. Onward
    BY ProgressOrder DEF Onward, DocsSound, DocSound, DocumentStatuses
  <1> QED BY <1>1, <1>2 DEF DocsSound, DocSound, DocReqSound

LEMMA DocumentSteps ==
  ASSUME DocsSound, NEW s \in Sessions,
         \/ DocumentRequests(s) \/ FinishUpload(s) \/ FinishSegment(s) \/ FinishExtract(s)
  PROVE  DocsSound' /\ Onward
  <1>1. CASE DocumentRequests(s)
    <2>1. PICK d \in Documents :
            \/ \E stripped \in BOOLEAN : BeginUpload(s, d, stripped)
            \/ \E extract \in BOOLEAN : BeginSegment(s, d, extract)
            \/ BeginExtract(s, d)
      BY <1>1 DEF DocumentRequests
    <2>2. CASE \E stripped \in BOOLEAN : BeginUpload(s, d, stripped)
      <3> DEFINE r == [op |-> "upload", doc |-> d]
      <3>1. req' = [req EXCEPT ![s] = r] /\ UNCHANGED <<docs, segmented>> /\ DocReqSound(r)
        BY <2>2 DEF BeginUpload, Begin, DocReqSound
      <3> QED BY <3>1, DocumentsRest DEF DocsSound
    <2>3. CASE \E extract \in BOOLEAN : BeginSegment(s, d, extract)
      <3>1. PICK extract \in BOOLEAN : BeginSegment(s, d, extract)
        BY <2>3
      <3> DEFINE r == [op |-> "segment", doc |-> d, extract |-> extract]
      <3>2. req' = [req EXCEPT ![s] = r] /\ UNCHANGED <<docs, segmented>> /\ DocReqSound(r)
        BY <3>1 DEF BeginSegment, Begin, DocReqSound
      <3> QED BY <3>2, DocumentsRest DEF DocsSound
    <2>4. CASE BeginExtract(s, d)
      <3> DEFINE r == [op |-> "extract", doc |-> d, texts |-> Candidates(d)]
      <3>1. d \notin segmented => Range(Candidates(d)) = {}
        BY DEF Candidates, Range
      <3>2. DocReqSound(r)
        BY <3>1 DEF DocReqSound
      <3>3. req' = [req EXCEPT ![s] = r] /\ UNCHANGED <<docs, segmented>>
        BY <2>4 DEF BeginExtract
      <3> HIDE DEF r
      <3> QED BY <3>2, <3>3, DocumentsRest DEF DocsSound
    <2> QED BY <2>1, <2>2, <2>3, <2>4
  <1>2. CASE FinishUpload(s)
    <2>1. PICK d \in Documents : d = req[s].doc /\ DocSound(d)
      BY <1>2 DEF FinishUpload, DocsSound, DocReqSound
    <2>2. /\ docs[d] = None /\ docs' = [docs EXCEPT ![d] = "draft"]
          /\ req' = [req EXCEPT ![s] = Idle] /\ segmented' = segmented
      BY <1>2, <2>1 DEF FinishUpload, Answer
    <2>3. DocSound(d)' /\ DocReqSound(Idle)'
      BY <2>1, <2>2, KnowledgeAssumption
      DEF DocsSound, DocSound, DocReqSound, DocumentStatuses, Idle
    <2>4. Progress(docs[d]) <= Progress("draft")
      BY <2>2, ProgressOrder
    <2>5. "draft" # None /\ "draft" \in DocumentStatuses
      BY KnowledgeAssumption DEF DocumentStatuses
    <2> QED BY <2>1, <2>2, <2>3, <2>4, <2>5, DocumentBecomes
  <1>3. CASE FinishSegment(s)
    <2>1. PICK d \in Documents :
            d = req[s].doc /\ DocSound(d) /\ d \notin segmented /\ docs[d] # None
      BY <1>3 DEF FinishSegment, Locatable, DocsSound, DocReqSound
    <2>2. PICK r \in {[op |-> "resume", doc |-> d], Idle} :
          /\ docs' = [docs EXCEPT ![d] = "segmented"] /\ req' = [req EXCEPT ![s] = r]
          /\ segmented' = segmented \/ segmented' = segmented \union {d}
      BY <1>3, <2>1 DEF FinishSegment
    <2>3. docs'[d] = "segmented"
      BY <2>1, <2>2 DEF DocsSound
    <2>4. DocSound(d)' /\ DocReqSound(r)'
      BY <2>1, <2>2, <2>3, KnowledgeAssumption
      DEF DocSound, DocReqSound, DocumentStatuses, Idle
    <2>5. Progress(docs[d]) <= Progress("segmented")
      BY <2>1, ProgressOrder DEF DocSound, DocumentStatuses
    <2>6. "segmented" # None /\ "segmented" \in DocumentStatuses
      BY KnowledgeAssumption DEF DocumentStatuses
    <2> QED BY <2>1, <2>2, <2>4, <2>5, <2>6, DocumentBecomes
  <1>4. CASE FinishExtract(s)
    <2>1. PICK d \in Documents :
          /\ d = req[s].doc /\ DocSound(d)
          /\ Range(req[s].texts) = {} \/ d \in segmented
      BY <1>4 DEF FinishExtract, DocsSound, DocReqSound
    <2>2. req' = [req EXCEPT ![s] = Idle] /\ segmented' = segmented
      BY <1>4 DEF FinishExtract, Answer
    <2>3. DocReqSound(Idle) /\ DocReqSound(Idle)'
      BY DEF DocReqSound, Idle
    <2>4. CASE docs' = docs
      BY <2>2, <2>3, <2>4, DocumentsRest DEF DocsSound
    <2>5. CASE docs' # docs
      <3>1. d \in segmented /\ docs' = [docs EXCEPT ![d] = "norms_extracted"]
        BY <1>4, <2>1, <2>5 DEF FinishExtract
      <3>2. DocSound(d)'
        BY <2>1, <2>2, <3>1 DEF DocSound, DocsSound, DocumentStatuses
      <3>3. Progress(docs[d]) <= Progress("norms_extracted")
        BY <2>1, ProgressOrder DEF DocSound, DocumentStatuses
      <3> QED BY <2>1, <2>2, <2>3, <3>1, <3>2, <3>3, DocumentBecomes, KnowledgeAssumption
              DEF DocumentStatuses
    <2> QED BY <2>4, <2>5
  <1> QED BY <1>1, <1>2, <1>3, <1>4

LEMMA DocsStep == DocsSound /\ [Next]_vars => DocsSound' /\ Onward
  <1> SUFFICES ASSUME DocsSound, [Next]_vars
               PROVE  DocsSound' /\ Onward
    OBVIOUS
  <1>1. ASSUME NEW s \in Sessions,
               \/ UpdateNorm(s) \/ UpdateCheck(s) \/ PackRequests(s) \/ FinishPatch(s)
               \/ FinishPack(s) \/ FinishRelease(s) \/ Refuse(s)
        PROVE  DocsSound' /\ Onward
    <2>1. UNCHANGED <<docs, segmented>>
      BY <1>1 DEF UpdateNorm, UpdateCheck, BeginPatch, PackRequests, BeginPack, BeginRelease,
                  FinishPatch, FinishPack, FinishRelease, Refuse, Refused
    <2>2. DOMAIN req' = Sessions
          /\ \A o \in Sessions : req'[o] = req[o]
               \/ req'[o].op \in {"patch", "pack", "release", "idle"}
      <3>1. CASE UpdateNorm(s) \/ UpdateCheck(s)
        BY <3>1 DEF UpdateNorm, UpdateCheck, BeginPatch, Begin, DocsSound
      <3>2. CASE PackRequests(s)
        BY <3>2 DEF PackRequests, BeginPack, BeginRelease, Begin, DocsSound
      <3>3. CASE FinishPatch(s) \/ FinishPack(s) \/ FinishRelease(s) \/ Refuse(s)
        BY <3>3 DEF FinishPatch, FinishPack, FinishRelease, Refuse, Refused, Answer, Idle,
                    DocsSound
      <3> QED BY <1>1, <3>1, <3>2, <3>3
    <2>3. \A o \in Sessions : req'[o] = req[o] \/ DocReqSound(req'[o])
      BY <2>2 DEF DocReqSound
    <2> QED BY <2>1, <2>2, <2>3, DocumentsRest
  <1>2. ASSUME NEW p \in Packs, RunReview(p)
        PROVE  DocsSound' /\ Onward
    BY <1>2, DocumentsRest DEF RunReview, DocsSound
  <1>3. CASE UNCHANGED vars
    BY <1>3, DocumentsRest DEF vars, DocsSound
  <1> QED BY <1>1, <1>2, <1>3, DocumentSteps DEF Next

\* No late segmentation undoes what an extraction has stored, whatever uploads,
\* segmentations and extractions of a document overlap (segment_policy_document and
\* extract_norms in review/service.py).
THEOREM DocumentsOnlyMoveOn == Spec => DocumentsMoveOn
  <1>1. Init => DocsSound
    BY KnowledgeAssumption DEF Init, DocsSound, DocSound, DocReqSound, DocumentStatuses, Idle
  <1>2. DocsSound /\ [Next]_vars =>
          DocsSound' /\ [\A d \in Documents : Progress(docs[d]) <= Progress(docs'[d])]_vars
    BY DocsStep DEF Onward
  <1> QED BY <1>1, <1>2, PTL DEF Spec, DocumentsMoveOn

-----------------------------------------------------------------------------
(* Induction and recursion. No theorem of the library with an operator     *)
(* parameter can be used, so these are about sets and functions.           *)

\* A set of naturals that has a member has a least one.
LEMMA LeastNumber ==
  ASSUME NEW S \in SUBSET Nat, S # {}
  PROVE  \E n \in S : \A m \in S : n <= m
<1> DEFINE R == OpToRel(<, Nat)
<1>1. IsWellFoundedOn(R, Nat)
  BY NatLessThanWellFounded
<1>2. \A m, n \in Nat : m < n => <<m, n>> \in R
  BY DEF OpToRel
<1> HIDE DEF R
<1>3. PICK n \in S : \A m \in S : ~(<<m, n>> \in R)
  BY <1>1, WFMin
<1>4. ASSUME NEW m \in S
      PROVE  n <= m
  <2>1. m \in Nat /\ n \in Nat
    OBVIOUS
  <2>2. ~(m < n)
    BY <1>2, <1>3, <2>1, Zenon
  <2> QED
    BY <2>1, <2>2
<1> QED
  BY <1>4

\* What a recursion over 0 .. n that starts with base and whose k-th step maps A
\* into itself may compute.
Recursions(n, A, base, step) ==
  {f \in [0..n -> A] : f[0] = base /\ \A k \in 1..n : f[k] = step[k][f[k - 1]]}

\* It computes something.
LEMMA RecursionExists ==
  ASSUME NEW n \in Nat, NEW A, NEW base \in A, NEW step \in [1..n -> [A -> A]]
  PROVE  Recursions(n, A, base, step) # {}
<1> DEFINE Solves(f, m) == /\ f \in [0..m -> A]
                           /\ \A k \in 0..m : f[k] = IF k = 0 THEN base ELSE step[k][f[k - 1]]
           S == {m \in 0..n : ~\E f : Solves(f, m)}
<1>1. \E f : Solves(f, 0)
  <2> DEFINE f == [k \in 0..0 |-> base]
  <2>1. Solves(f, 0)
    OBVIOUS
  <2> QED
    BY <2>1
<1>2. ASSUME NEW m \in 1..n, NEW f, Solves(f, m - 1)
      PROVE  \E g : Solves(g, m)
  <2> DEFINE g == [k \in 0..m |-> IF k = m THEN step[m][f[m - 1]] ELSE f[k]]
  <2>1. m \in Nat /\ m - 1 \in Nat /\ m - 1 \in 0..(m - 1) /\ m # 0
    OBVIOUS
  <2>2. f[m - 1] \in A /\ step[m][f[m - 1]] \in A
    BY <1>2, <2>1
  <2>3. \A k \in 0..m : k # m => k \in 0..(m - 1) /\ (k # 0 => k - 1 \in 0..m /\ k - 1 # m)
    BY <2>1
  <2>4. g \in [0..m -> A]
    BY <1>2, <2>2, <2>3
  <2>5. ASSUME NEW k \in 0..m
        PROVE  g[k] = IF k = 0 THEN base ELSE step[k][g[k - 1]]
    <3>1. CASE k = m
      BY <2>1, <3>1
    <3>2. CASE k # m
      BY <1>2, <2>3, <3>2
    <3> QED
      BY <3>1, <3>2
  <2> HIDE DEF g
  <2>6. Solves(g, m)
    BY <2>4, <2>5
  <2> QED
    BY <2>6
<1>3. S = {}
  <2> SUFFICES ASSUME S # {} PROVE FALSE
    OBVIOUS
  <2>1. S \in SUBSET Nat
    OBVIOUS
  <2>2. PICK m \in S : \A k \in S : m <= k
    BY <2>1, LeastNumber
  <2> HIDE DEF Solves
  <2>3. m \in 1..n /\ m - 1 \in 0..n /\ ~(m <= m - 1)
    BY <1>1
  <2>4. m - 1 \notin S
    BY <2>2, <2>3
  <2>5. \E f : Solves(f, m - 1)
    BY <2>3, <2>4
  <2> QED
    BY <1>2, <2>3, <2>5
<1>4. \E f : Solves(f, n)
  <2> HIDE DEF Solves
  <2>1. n \in 0..n /\ n \notin S
    BY <1>3
  <2> QED
    BY <2>1
<1>5. \A k \in 1..n : k \in 0..n /\ k # 0
  OBVIOUS
<1> QED
  BY <1>4, <1>5 DEF Recursions

\* What holds of 0 and is kept from each number to the next holds up to n.
LEMMA UpTo ==
  ASSUME NEW n \in Nat, NEW S, 0 \in S, \A k \in 1..n : k - 1 \in S => k \in S
  PROVE  0..n \subseteq S
<1> DEFINE R == {k \in 0..n : k \notin S}
<1> SUFFICES ASSUME R # {} PROVE FALSE
  OBVIOUS
<1>1. PICK m \in R : \A k \in R : m <= k
  <2>1. R \in SUBSET Nat
    OBVIOUS
  <2> QED
    BY <2>1, LeastNumber
<1>2. m \in 1..n /\ m - 1 \in 0..n /\ ~(m <= m - 1)
  OBVIOUS
<1>3. m - 1 \in S
  BY <1>1, <1>2
<1> QED
  BY <1>2, <1>3

-----------------------------------------------------------------------------
(* What is picked out of a sequence.                                       *)

\* Only what is in S, all of it, and in the order it was in: what holds of each two
\* elements, the first before the second, holds of them still.
LEMMA OnlyIs ==
  ASSUME NEW T, NEW seq \in Seq(T), NEW S, NEW R,
         \A j, k \in DOMAIN seq : j < k => <<seq[j], seq[k]>> \in R
  PROVE  LET only == Only(seq, S)
         IN /\ only \in Seq(T \intersect S)
            /\ Range(only) = Range(seq) \intersect S
            /\ \A j, k \in DOMAIN only : j < k => <<only[j], only[k]>> \in R
<1> DEFINE A          == Seq(T \intersect S)
           take(a, k) == IF seq[k] \in S THEN Append(a, seq[k]) ELSE a
           Q(h)       == h = [k \in 0 .. Len(seq) |-> IF k = 0 THEN <<>> ELSE take(h[k - 1], k)]
<1>1. PICK n \in Nat : n = Len(seq) /\ DOMAIN seq = 1..n
  OBVIOUS
<1> DEFINE step == [k \in 1..n |-> [a \in A |-> take(a, k)]]
<1>2. \A k \in 1..n, a \in A : take(a, k) \in A
  <2> SUFFICES ASSUME NEW k \in 1..n, NEW a \in A, seq[k] \in S
               PROVE  Append(a, seq[k]) \in A
    OBVIOUS
  <2>1. seq[k] \in T \intersect S
    BY <1>1
  <2> QED
    BY <2>1, AppendProperties
<1>3. <<>> \in A
  OBVIOUS
<1> HIDE DEF A, take
<1>4. PICK f \in [0..n -> A] : f[0] = <<>> /\ \A k \in 1..n : f[k] = step[k][f[k - 1]]
  <2>1. step \in [1..n -> [A -> A]]
    BY <1>2
  <2> HIDE DEF step
  <2>2. Recursions(n, A, <<>>, step) # {}
    BY <1>3, <2>1, RecursionExists
  <2> QED
    BY <2>2 DEF Recursions
<1>5. \A k \in 1..n : f[k] = take(f[k - 1], k)
  <2> SUFFICES ASSUME NEW k \in 1..n
               PROVE  f[k] = take(f[k - 1], k)
    OBVIOUS
  <2>1. f[k - 1] \in A
    BY <1>4
  <2> QED
    BY <1>4, <2>1
<1> HIDE DEF step
<1>6. Q(f)
  BY <1>1, <1>4, <1>5
<1>7. Q(CHOOSE h : Q(h))
  <2> HIDE DEF Q
  <2> QED
    BY <1>6
<1> DEFINE g == CHOOSE h : Q(h)
<1>8. Only(seq, S) = g[Len(seq)]
  BY Zenon DEF Only, take
<1>9. g[0] = <<>> /\ \A k \in 1..n : g[k] = take(g[k - 1], k)
  <2>1. g = [k \in 0 .. Len(seq) |-> IF k = 0 THEN <<>> ELSE take(g[k - 1], k)]
    BY <1>7, Zenon
  <2> HIDE DEF g
  <2> QED
    BY <1>1, <2>1
<1> HIDE DEF g
<1> DEFINE Before(k)   == {seq[j] : j \in 1..k} \intersect S
           Ordered(a)  == \A i, j \in DOMAIN a : i < j => <<a[i], a[j]>> \in R
           Taken(a, k) == a \in A /\ Range(a) = Before(k) /\ Ordered(a)
<1>10. ASSUME NEW k \in 1..n, NEW a, Taken(a, k - 1)
       PROVE  Taken(take(a, k), k)
  <2>1. Before(k) = Before(k - 1) \union ({seq[k]} \intersect S)
    <3>1. 1..k = (1..k - 1) \union {k}
      OBVIOUS
    <3> QED
      BY <3>1
  <2>2. CASE seq[k] \notin S
    BY <1>10, <2>1, <2>2 DEF take
  <2>3. CASE seq[k] \in S
    <3>1. PICK m \in Nat : m = Len(a) /\ DOMAIN a = 1..m
      BY <1>10 DEF A
    <3>2. PICK b : /\ b = Append(a, seq[k]) /\ b = take(a, k) /\ b \in A
                   /\ DOMAIN b = 1..m + 1
                   /\ \A j \in 1..m : b[j] = a[j]
                   /\ b[m + 1] = seq[k]
      <4> DEFINE b == Append(a, seq[k])
      <4>1. b = take(a, k) /\ b \in A
        BY <1>2, <1>10, <2>3 DEF take
      <4>2. seq[k] \in T \intersect S /\ a \in Seq(T \intersect S)
        BY <1>1, <1>10, <2>3 DEF A
      <4>3. /\ b \in Seq(T \intersect S) /\ Len(b) = m + 1
            /\ \A j \in 1..m : b[j] = a[j]
            /\ b[m + 1] = seq[k]
        BY <3>1, <4>2, AppendProperties
      <4> HIDE DEF b
      <4>4. DOMAIN b = 1..m + 1
        BY <4>3, LenProperties
      <4> QED
        BY <4>1, <4>3, <4>4 DEF b
    <3>3. Range(b) = Range(a) \union {seq[k]}
      BY <3>1, <3>2 DEF Range
    <3>4. \A j \in 1..m : <<a[j], seq[k]>> \in R
      <4> SUFFICES ASSUME NEW j \in 1..m
                   PROVE  <<a[j], seq[k]>> \in R
        OBVIOUS
      <4>1. a[j] \in Before(k - 1)
        BY <1>10, <3>1 DEF Range
      <4>2. PICK i \in 1..k - 1 : a[j] = seq[i]
        BY <4>1
      <4>3. i \in DOMAIN seq /\ k \in DOMAIN seq /\ i < k
        BY <1>1
      <4> QED
        BY <4>2, <4>3
    <3>5. Ordered(b)
      <4> SUFFICES ASSUME NEW i \in 1..m + 1, NEW j \in 1..m + 1, i < j
                   PROVE  <<b[i], b[j]>> \in R
        BY <3>2
      <4>1. i \in 1..m
        OBVIOUS
      <4>2. CASE j = m + 1
        BY <3>2, <3>4, <4>1, <4>2
      <4>3. CASE j \in 1..m
        BY <1>10, <3>1, <3>2, <4>1, <4>3
      <4> QED
        BY <4>2, <4>3
    <3>6. Range(b) = Before(k)
      BY <1>10, <2>1, <2>3, <3>3
    <3> HIDE DEF Before, Ordered
    <3> QED
      BY <3>2, <3>5, <3>6
  <2> QED
    BY <2>2, <2>3
<1>11. Taken(<<>>, 0)
  BY <1>3 DEF Range
<1> HIDE DEF Taken
<1>12. Taken(g[n], n)
  <2> DEFINE N == {k \in 0..n : Taken(g[k], k)}
  <2>1. 0 \in N
    BY <1>9, <1>11
  <2>2. ASSUME NEW k \in 1..n, k - 1 \in N
        PROVE  k \in N
    BY <1>9, <1>10, <2>2
  <2> HIDE DEF N
  <2>3. 0..n \subseteq N
    BY <2>1, <2>2, UpTo
  <2> QED
    BY <2>3 DEF N
<1>13. Before(n) = Range(seq) \intersect S
  BY <1>1 DEF Range
<1> HIDE DEF Before
<1> QED
  BY <1>1, <1>8, <1>12, <1>13 DEF Taken, A

-----------------------------------------------------------------------------
(* Cutting lines into clauses.                                             *)

\* A number above all of an increasing sequence may follow it.
LEMMA OneMore ==
  ASSUME NEW s \in Seq(Nat), NEW i \in Nat, Increasing(s), \A n \in ToSet(s) : n < i
  PROVE  /\ Increasing(Append(s, i))
         /\ ToSet(Append(s, i)) = ToSet(s) \union {i}
<1>1. PICK n \in Nat : n = Len(s) /\ DOMAIN s = 1..n
  OBVIOUS
<1>2. PICK t : /\ t = Append(s, i) /\ DOMAIN t = 1..n + 1
               /\ \A k \in 1..n : t[k] = s[k]
               /\ t[n + 1] = i
  <2> DEFINE t == Append(s, i)
  <2>1. t \in Seq(Nat) /\ Len(t) = n + 1 /\ (\A k \in 1..n : t[k] = s[k]) /\ t[n + 1] = i
    BY <1>1, AppendProperties
  <2> HIDE DEF t
  <2>2. DOMAIN t = 1..n + 1
    BY <2>1, LenProperties
  <2> QED
    BY <2>1, <2>2 DEF t
<1>3. \A k \in 1..n : s[k] \in ToSet(s) /\ s[k] < i
  BY <1>1 DEF ToSet
<1>4. Increasing(t)
  BY <1>1, <1>2, <1>3 DEF Increasing
<1>5. ToSet(t) = ToSet(s) \union {i}
  BY <1>1, <1>2 DEF ToSet
<1> QED
  BY <1>2, <1>4, <1>5

\* The last of an increasing sequence is the greatest in it, the first the least.
LEMMA Ends ==
  ASSUME NEW s \in Seq(Nat), s # <<>>, Increasing(s)
  PROVE  /\ s[1] \in ToSet(s) /\ Last(s) \in ToSet(s)
         /\ \A n \in ToSet(s) : s[1] <= n /\ n <= Last(s)
<1>1. PICK n \in Nat : n = Len(s) /\ DOMAIN s = 1..n /\ n >= 1
  OBVIOUS
<1>2. Last(s) = s[n]
  BY <1>1 DEF Last
<1>3. \A k \in 1..n : s[1] <= s[k] /\ s[k] <= s[n]
  <2> SUFFICES ASSUME NEW k \in 1..n
               PROVE  s[1] <= s[k] /\ s[k] <= s[n]
    OBVIOUS
  <2>1. s[1] \in Nat /\ s[k] \in Nat /\ s[n] \in Nat
    BY <1>1
  <2>2. (1 < k => s[1] < s[k]) /\ (k < n => s[k] < s[n])
    BY <1>1 DEF Increasing
  <2> QED
    BY <1>1, <2>1, <2>2
<1> QED
  BY <1>1, <1>2, <1>3 DEF ToSet

Locators(text) ==
  {<<>>} \union {<<text[i].kind, text[i].mark>> : i \in DOMAIN text}
         \union {<<"line", i>> : i \in DOMAIN text}
         \union {<<"sentence", k>> : k \in Nat}

Chapters(text) == {0} \union {text[i].mark : i \in DOMAIN text}

ClauseOf(text) == [locator : Locators(text), chapter : Chapters(text), lines : Seq(Nat)]

\* The lines L are cut at H into these clauses, none of them empty.
Cut(clauses, L, H) ==
  /\ CutAt(clauses, L, H, H)
  /\ \A k \in DOMAIN clauses : clauses[k].lines # <<>>

\* One more clause, and what it consists of.
LEMMA ClauseAppended ==
  ASSUME NEW text, NEW cs \in Seq(ClauseOf(text)), NEW c \in ClauseOf(text)
  PROVE  \E n \in Nat :
           /\ DOMAIN cs = 1..n /\ n = Len(cs)
           /\ DOMAIN Append(cs, c) = 1..n + 1
           /\ \A k \in 1..n : Append(cs, c)[k] = cs[k]
           /\ Append(cs, c)[n + 1] = c
<1>1. PICK n \in Nat : n = Len(cs) /\ DOMAIN cs = 1..n
  OBVIOUS
<1> DEFINE ds == Append(cs, c)
<1>2. /\ ds \in Seq(ClauseOf(text)) /\ Len(ds) = n + 1
      /\ \A k \in 1..n : ds[k] = cs[k]
      /\ ds[n + 1] = c
  BY <1>1, AppendProperties
<1> HIDE DEF ds
<1>3. DOMAIN ds = 1..n + 1
  BY <1>2, LenProperties
<1> QED
  BY <1>1, <1>2, <1>3 DEF ds

\* A clause starts at line i, above all lines that were cut.
LEMMA CutStart ==
  ASSUME NEW text, NEW cs \in Seq(ClauseOf(text)), NEW c \in ClauseOf(text), NEW i \in Nat,
         NEW L \in SUBSET (1..i - 1), NEW H \in SUBSET L,
         Cut(cs, L, H), c.lines = <<i>>
  PROVE  Cut(Append(cs, c), L \union {i}, H \union {i})
<1> DEFINE M == L \union {i}
           J == H \union {i}
           ds == Append(cs, c)
<1>0. /\ \A l \in L : l \in Nat /\ l < i
      /\ \A h \in H : h \in L
  OBVIOUS
<1>1. PICK n \in Nat :
        /\ DOMAIN cs = 1..n /\ DOMAIN ds = 1..n + 1
        /\ \A k \in 1..n : ds[k] = cs[k]
        /\ ds[n + 1] = c
  BY ClauseAppended
<1> HIDE DEF ds
<1>2. c.lines # <<>> /\ c.lines[1] = i /\ ToSet(c.lines) = {i} /\ Increasing(c.lines)
  BY DEF ToSet, Increasing
<1>3. {ds[k].lines[1] : k \in 1..n} = H
  BY <1>1 DEF Cut, CutAt
<1>4. {ds[k].lines[1] : k \in DOMAIN ds} = J
  <2>1. DOMAIN ds = 1..n \union {n + 1}
    BY <1>1
  <2> QED
    BY <1>1, <1>2, <1>3, <2>1
<1>5. \A k \in 1..n : ds[k].lines[1] \in H /\ ds[k].lines[1] < i
  <2>1. \A k \in 1..n : ds[k].lines[1] \in H
    BY <1>3
  <2> QED
    BY <1>0, <2>1
<1>6. \A j, k \in DOMAIN ds : j < k => ds[j].lines[1] < ds[k].lines[1]
  <2> SUFFICES ASSUME NEW j \in 1..n + 1, NEW k \in 1..n + 1, j < k
               PROVE  ds[j].lines[1] < ds[k].lines[1]
    BY <1>1
  <2>1. CASE k = n + 1
    BY <1>1, <1>2, <1>5, <2>1
  <2>2. CASE k # n + 1
    BY <1>1, <2>2 DEF Cut, CutAt
  <2> QED
    BY <2>1, <2>2
<1>7. \A h \in H : Under(M, J, h) = Under(L, H, h)
  <2> SUFFICES ASSUME NEW h \in H
               PROVE  Under(M, J, h) = Under(L, H, h)
    OBVIOUS
  <2>1. i \notin Under(M, J, h)
    BY <1>0 DEF Under
  <2>2. \A l \in L : ~(i <= l)
    BY <1>0
  <2> QED
    BY <2>1, <2>2 DEF Under
<1>8. Under(M, J, i) = {i}
  <2>1. \A l \in M : i <= l => l = i
    BY <1>0
  <2>2. \A j \in J : j <= i
    BY <1>0
  <2> QED
    BY <2>1, <2>2 DEF Under
<1> HIDE DEF M, J
<1>9. \A k \in DOMAIN ds : /\ Increasing(ds[k].lines) /\ ds[k].lines # <<>>
                           /\ ToSet(ds[k].lines) = Under(M, J, ds[k].lines[1])
  <2> SUFFICES ASSUME NEW k \in 1..n + 1
               PROVE  /\ Increasing(ds[k].lines) /\ ds[k].lines # <<>>
                      /\ ToSet(ds[k].lines) = Under(M, J, ds[k].lines[1])
    BY <1>1
  <2>1. CASE k = n + 1
    BY <1>1, <1>2, <1>8, <2>1
  <2>2. CASE k \in 1..n
    <3>1. /\ Increasing(cs[k].lines) /\ cs[k].lines # <<>>
          /\ ToSet(cs[k].lines) = Under(L, H, cs[k].lines[1])
      BY <1>1, <2>2 DEF Cut, CutAt
    <3> QED
      BY <1>1, <1>5, <1>7, <2>2, <3>1
  <2> QED
    BY <2>1, <2>2
<1> QED
  BY <1>4, <1>6, <1>9, Zenon DEF Cut, CutAt, M, J, ds

\* The last of the clauses goes on with line i.
LEMMA CutGoOn ==
  ASSUME NEW text, NEW cs \in Seq(ClauseOf(text)), NEW b \in ClauseOf(text),
         NEW c \in ClauseOf(text), NEW i \in Nat,
         NEW L \in SUBSET (1..i - 1), NEW H \in SUBSET L,
         Cut(Append(cs, b), L, H), c.lines = Append(b.lines, i)
  PROVE  Cut(Append(cs, c), L \union {i}, H)
<1> DEFINE M == L \union {i}
           ds == Append(cs, b)
           es == Append(cs, c)
<1>0. /\ \A l \in L : l \in Nat /\ l < i
      /\ \A h \in H : h \in L
  OBVIOUS
<1>1. PICK n \in Nat :
        /\ DOMAIN ds = 1..n + 1 /\ DOMAIN es = 1..n + 1
        /\ \A k \in 1..n : es[k] = ds[k]
        /\ ds[n + 1] = b /\ es[n + 1] = c
  <2>1. PICK m \in Nat :
          /\ DOMAIN cs = 1..m /\ m = Len(cs)
          /\ DOMAIN Append(cs, b) = 1..m + 1
          /\ \A k \in 1..m : Append(cs, b)[k] = cs[k]
          /\ Append(cs, b)[m + 1] = b
    BY ClauseAppended
  <2>2. PICK o \in Nat :
          /\ DOMAIN cs = 1..o /\ o = Len(cs)
          /\ DOMAIN Append(cs, c) = 1..o + 1
          /\ \A k \in 1..o : Append(cs, c)[k] = cs[k]
          /\ Append(cs, c)[o + 1] = c
    BY ClauseAppended
  <2>3. m = o
    BY <2>1, <2>2
  <2> QED
    BY <2>1, <2>2, <2>3
<1>2. Cut(ds, L, H)
  OBVIOUS
<1> HIDE DEF ds, es
<1>3. /\ \A k \in 1..n + 1 : ds[k].lines[1] \in H
      /\ b.lines[1] \in H
      /\ \A h \in H : h <= b.lines[1]
  <2>1. {ds[k].lines[1] : k \in 1..n + 1} = H
    BY <1>1, <1>2 DEF Cut, CutAt
  <2>2. \A k \in 1..n : ds[k].lines[1] < ds[n + 1].lines[1]
    BY <1>1, <1>2 DEF Cut, CutAt
  <2>3. ds[n + 1].lines[1] \in H /\ H \subseteq Nat
    <3>1. n + 1 \in 1..n + 1
      OBVIOUS
    <3>2. H \subseteq Nat
      BY <1>0
    <3> QED
      BY <2>1, <3>1, <3>2
  <2>4. \A k \in 1..n + 1 : ds[k].lines[1] <= ds[n + 1].lines[1]
    <3> SUFFICES ASSUME NEW k \in 1..n + 1
                 PROVE  ds[k].lines[1] <= ds[n + 1].lines[1]
      OBVIOUS
    <3>1. k = n + 1 \/ k \in 1..n
      OBVIOUS
    <3>2. ds[k].lines[1] \in H
      BY <2>1
    <3>3. ds[k].lines[1] \in Nat /\ ds[n + 1].lines[1] \in Nat
      BY <2>3, <3>2
    <3> QED
      BY <2>2, <3>1, <3>3
  <2>5. \A k \in 1..n + 1 : ds[k].lines[1] \in H
    BY <2>1
  <2>6. \A h \in H : \E k \in 1..n + 1 : h = ds[k].lines[1]
    BY <2>1
  <2> QED
    BY <1>1, <2>3, <2>4, <2>5, <2>6
<1>4. b.lines \in Seq(Nat) /\ b.lines # <<>> /\ Increasing(b.lines)
      /\ ToSet(b.lines) = Under(L, H, b.lines[1])
  <2>1. n + 1 \in DOMAIN ds
    BY <1>1
  <2>2. b.lines \in Seq(Nat)
    BY DEF ClauseOf
  <2> QED
    BY <1>1, <1>2, <2>1, <2>2 DEF Cut, CutAt
<1>5. /\ c.lines # <<>> /\ c.lines[1] = b.lines[1]
      /\ Increasing(c.lines) /\ ToSet(c.lines) = ToSet(b.lines) \union {i}
  <2>1. \A l \in ToSet(b.lines) : l < i
    BY <1>0, <1>4 DEF Under
  <2>2. Append(b.lines, i) # <<>> /\ Append(b.lines, i)[1] = b.lines[1]
    BY <1>4
  <2> QED
    BY <1>4, <2>1, <2>2, OneMore
<1>6. Under(M, H, b.lines[1]) = Under(L, H, b.lines[1]) \union {i}
  <2>1. b.lines[1] <= i /\ b.lines[1] \in Nat
    <3>1. b.lines[1] \in L
      BY <1>0, <1>3
    <3>2. b.lines[1] \in Nat /\ b.lines[1] < i
      BY <1>0, <3>1
    <3> QED
      BY <3>2
  <2>2. i \in Under(M, H, b.lines[1])
    BY <1>3, <2>1 DEF Under
  <2> QED
    BY <2>2 DEF Under
<1>7. \A k \in 1..n : Under(M, H, ds[k].lines[1]) = Under(L, H, ds[k].lines[1])
  <2> SUFFICES ASSUME NEW k \in 1..n
               PROVE  Under(M, H, ds[k].lines[1]) = Under(L, H, ds[k].lines[1])
    OBVIOUS
  <2>1. ds[k].lines[1] < b.lines[1]
    BY <1>1, <1>2 DEF Cut, CutAt
  <2>2. ds[k].lines[1] \in H
    BY <1>3
  <2>3. i \notin Under(M, H, ds[k].lines[1])
    <3>1. b.lines[1] \in H /\ b.lines[1] \in L /\ ds[k].lines[1] \in L
      BY <1>0, <1>3, <2>2
    <3>2. b.lines[1] <= i /\ ~(b.lines[1] <= ds[k].lines[1])
      <4>1. /\ b.lines[1] \in Nat /\ ds[k].lines[1] \in Nat
            /\ b.lines[1] < i
        BY <1>0, <3>1
      <4> QED
        BY <2>1, <4>1
    <3> QED
      BY <3>1, <3>2 DEF Under
  <2> QED
    BY <2>3 DEF Under
<1>8. \A k \in 1..n + 1 : es[k].lines[1] = ds[k].lines[1]
  <2> SUFFICES ASSUME NEW k \in 1..n + 1
               PROVE  es[k].lines[1] = ds[k].lines[1]
    OBVIOUS
  <2>1. k = n + 1 \/ k \in 1..n
    OBVIOUS
  <2> QED
    BY <1>1, <1>5, <2>1
<1> HIDE DEF M
<1>9. \A k \in DOMAIN es : /\ Increasing(es[k].lines) /\ es[k].lines # <<>>
                           /\ ToSet(es[k].lines) = Under(M, H, es[k].lines[1])
  <2> SUFFICES ASSUME NEW k \in 1..n + 1
               PROVE  /\ Increasing(es[k].lines) /\ es[k].lines # <<>>
                      /\ ToSet(es[k].lines) = Under(M, H, es[k].lines[1])
    BY <1>1
  <2>1. CASE k = n + 1
    BY <1>1, <1>4, <1>5, <1>6, <2>1
  <2>2. CASE k \in 1..n
    <3>1. /\ Increasing(ds[k].lines) /\ ds[k].lines # <<>>
          /\ ToSet(ds[k].lines) = Under(L, H, ds[k].lines[1])
      BY <1>1, <1>2, <2>2 DEF Cut, CutAt
    <3> QED
      BY <1>1, <1>7, <2>2, <3>1
  <2> QED
    BY <2>1, <2>2
<1>10. /\ {es[k].lines[1] : k \in DOMAIN es} = H
       /\ \A j, k \in DOMAIN es : j < k => es[j].lines[1] < es[k].lines[1]
  <2>1. /\ {ds[k].lines[1] : k \in 1..n + 1} = H
        /\ \A j, k \in 1..n + 1 : j < k => ds[j].lines[1] < ds[k].lines[1]
    BY <1>1, <1>2 DEF Cut, CutAt
  <2>2. \A j, k \in 1..n + 1 : j < k => es[j].lines[1] < es[k].lines[1]
    BY <1>8, <2>1
  <2>3. {es[k].lines[1] : k \in 1..n + 1} = {ds[k].lines[1] : k \in 1..n + 1}
    BY <1>8
  <2> QED
    BY <1>1, <2>1, <2>2, <2>3
<1> QED
  BY <1>9, <1>10, Zenon DEF Cut, CutAt, M, es

\* The last line of the last clause is the last line that was cut.
LEMMA LastLine ==
  ASSUME NEW text, NEW cs \in Seq(ClauseOf(text)), NEW b \in ClauseOf(text),
         NEW L \in SUBSET Nat, NEW H \in SUBSET L, Cut(Append(cs, b), L, H)
  PROVE  /\ Last(b.lines) \in L
         /\ \A l \in L : l <= Last(b.lines)
<1> DEFINE ds == Append(cs, b)
<1>1. PICK n \in Nat : DOMAIN ds = 1..n + 1 /\ ds[n + 1] = b
  BY ClauseAppended
<1>11. Cut(ds, L, H)
  OBVIOUS
<1> HIDE DEF ds
<1>2. {ds[k].lines[1] : k \in 1..n + 1} = H
  BY <1>11, <1>1 DEF Cut, CutAt
<1>3. \A k \in 1..n : ds[k].lines[1] < b.lines[1]
  BY <1>11, <1>1 DEF Cut, CutAt
<1>4. b.lines \in Seq(Nat) /\ b.lines # <<>> /\ Increasing(b.lines)
      /\ ToSet(b.lines) = Under(L, H, b.lines[1])
  <2>1. n + 1 \in DOMAIN ds
    BY <1>1
  <2>2. b.lines \in Seq(Nat)
    BY DEF ClauseOf
  <2> QED
    BY <1>11, <1>1, <2>1, <2>2 DEF Cut, CutAt
<1>5. b.lines[1] \in H
  BY <1>1, <1>2
<1>6. \A h \in H : h <= b.lines[1]
  <2> SUFFICES ASSUME NEW k \in 1..n + 1
               PROVE  ds[k].lines[1] <= b.lines[1]
    BY <1>2
  <2>1. ds[k].lines[1] \in Nat /\ b.lines[1] \in Nat
    BY <1>2, <1>5
  <2>2. k = n + 1 \/ k \in 1..n
    OBVIOUS
  <2> QED
    BY <1>1, <1>3, <2>1, <2>2
<1>7. /\ b.lines[1] \in ToSet(b.lines) /\ Last(b.lines) \in ToSet(b.lines)
      /\ \A m \in ToSet(b.lines) : b.lines[1] <= m /\ m <= Last(b.lines)
  BY <1>4, Ends
<1>8. Last(b.lines) \in L
  BY <1>4, <1>7 DEF Under
<1>9. ASSUME NEW l \in L
      PROVE  l <= Last(b.lines)
  <2>1. l \in Nat /\ Last(b.lines) \in Nat /\ b.lines[1] \in Nat
        /\ b.lines[1] <= Last(b.lines)
    BY <1>5, <1>7, <1>8
  <2>2. CASE b.lines[1] <= l
    <3>1. l \in Under(L, H, b.lines[1])
      BY <1>6, <2>2 DEF Under
    <3> QED
      BY <1>4, <1>7, <3>1
  <2>3. CASE ~(b.lines[1] <= l)
    BY <2>1, <2>3
  <2> QED
    BY <2>2, <2>3
<1> QED
  BY <1>8, <1>9

-----------------------------------------------------------------------------
(* A reader of a text.                                                     *)

ReaderOf(text) ==
  [clauses : Seq(ClauseOf(text)), open : ClauseOf(text), chapter : Chapters(text)]

\* A reader is in a clause as soon as it has met a line of one, and from then on.
Reading(r) == IF r.open = NoClause THEN r.clauses = <<>> ELSE r.open.lines # <<>>

\* The reader has cut these lines at these starts, up to the n-th.
ReadUpTo(text, lines, starts, r, n) ==
  /\ r \in ReaderOf(text) /\ Reading(r)
  /\ Cut(Finished(r), lines \intersect (1..n), starts \intersect (1..n))

\* What it has read is located, and it knows the chapter of the n-th line.
LocatedUpTo(text, marks, r, n) ==
  r.chapter = ChapterAt(text, n) /\ WellLocated(text, marks, Finished(r))

\* The fields of a reader.
LEMMA ReaderFields ==
  ASSUME NEW text, NEW r \in ReaderOf(text)
  PROVE  /\ r.clauses \in Seq(ClauseOf(text)) /\ r.open \in ClauseOf(text)
         /\ r.chapter \in Chapters(text)
         /\ r = [clauses |-> r.clauses, open |-> r.open, chapter |-> r.chapter]
         /\ r.open.lines \in Seq(Nat) /\ r.open.locator \in Locators(text)
         /\ r.open.chapter \in Chapters(text)
         /\ r.open = [locator |-> r.open.locator, chapter |-> r.open.chapter,
                      lines |-> r.open.lines]
         /\ Finished(r) \in Seq(ClauseOf(text))
<1>1. /\ r.clauses \in Seq(ClauseOf(text)) /\ r.open \in ClauseOf(text)
      /\ r.chapter \in Chapters(text)
      /\ r = [clauses |-> r.clauses, open |-> r.open, chapter |-> r.chapter]
  BY DEF ReaderOf
<1>2. /\ r.open.lines \in Seq(Nat) /\ r.open.locator \in Locators(text)
      /\ r.open.chapter \in Chapters(text)
      /\ r.open = [locator |-> r.open.locator, chapter |-> r.open.chapter,
                   lines |-> r.open.lines]
  BY <1>1 DEF ClauseOf
<1>3. Finished(r) \in Seq(ClauseOf(text))
  BY <1>1, AppendProperties DEF Finished
<1> QED
  BY <1>1, <1>2, <1>3

\* Starting a clause at line i.
LEMMA StartIs ==
  ASSUME NEW text, NEW r \in ReaderOf(text), NEW loc \in Locators(text), NEW i \in Nat
  PROVE  LET c == [locator |-> loc, chapter |-> r.chapter, lines |-> <<i>>]
         IN /\ Start(r, loc, i) \in ReaderOf(text)
            /\ Start(r, loc, i).open = c /\ Start(r, loc, i).chapter = r.chapter
            /\ Reading(Start(r, loc, i))
            /\ Finished(Start(r, loc, i)) = Append(Finished(r), c)
            /\ c \in ClauseOf(text)
<1> DEFINE c == [locator |-> loc, chapter |-> r.chapter, lines |-> <<i>>]
           q == Start(r, loc, i)
<1>1. q = [clauses |-> Finished(r), open |-> c, chapter |-> r.chapter]
  <2>1. PICK cl, op, ch : r = [clauses |-> cl, open |-> op, chapter |-> ch]
    <3>1. r = [clauses |-> r.clauses, open |-> r.open, chapter |-> r.chapter]
      BY ReaderFields
    <3> QED
      BY <3>1, Zenon
  <2>2. r.clauses = cl /\ r.open = op /\ r.chapter = ch
    BY <2>1
  <2>3. q = [r EXCEPT !.clauses = Finished(r), !.open = c]
    BY DEF Start
  <2> HIDE DEF q, c
  <2> QED
    BY <2>1, <2>2, <2>3
<1>2. <<i>> \in Seq(Nat) /\ <<i>> # <<>>
  OBVIOUS
<1>3. c \in ClauseOf(text) /\ c.lines = <<i>>
  BY <1>2, ReaderFields DEF ClauseOf
<1>4. c # NoClause
  BY <1>2 DEF NoClause
<1> HIDE DEF c
<1>5. q \in ReaderOf(text) /\ q.open = c /\ q.chapter = r.chapter /\ q.clauses = Finished(r)
  BY <1>1, <1>3, ReaderFields DEF ReaderOf
<1> HIDE DEF q
<1>6. Reading(q) /\ Finished(q) = Append(Finished(r), c)
  BY <1>2, <1>3, <1>4, <1>5 DEF Reading, Finished
<1> QED
  BY <1>3, <1>5, <1>6 DEF c, q

\* Going on with line i in the clause that is open.
LEMMA GoOnIs ==
  ASSUME NEW text, NEW r \in ReaderOf(text), NEW i \in Nat, r.open # NoClause
  PROVE  LET c == [locator |-> r.open.locator, chapter |-> r.open.chapter,
                   lines |-> Append(r.open.lines, i)]
         IN /\ GoOn(r, i) \in ReaderOf(text)
            /\ GoOn(r, i).open = c /\ GoOn(r, i).chapter = r.chapter
            /\ Reading(GoOn(r, i))
            /\ Finished(r) = Append(r.clauses, r.open)
            /\ Finished(GoOn(r, i)) = Append(r.clauses, c)
            /\ c \in ClauseOf(text)
<1> DEFINE c == [locator |-> r.open.locator, chapter |-> r.open.chapter,
                 lines |-> Append(r.open.lines, i)]
           q == GoOn(r, i)
<1>1. q = [clauses |-> r.clauses, open |-> c, chapter |-> r.chapter]
  <2>1. PICK cl, op, ch : r = [clauses |-> cl, open |-> op, chapter |-> ch]
    <3>1. r = [clauses |-> r.clauses, open |-> r.open, chapter |-> r.chapter]
      BY ReaderFields
    <3> QED
      BY <3>1, Zenon
  <2>2. r.clauses = cl /\ r.open = op /\ r.chapter = ch
    BY <2>1
  <2>3. q = [r EXCEPT !.open = [r.open EXCEPT !.lines = Append(r.open.lines, i)]]
    BY <2>1, <2>2 DEF GoOn
  <2>4. [r.open EXCEPT !.lines = Append(r.open.lines, i)] = c
    <3>1. r.open = [locator |-> r.open.locator, chapter |-> r.open.chapter,
                    lines |-> r.open.lines]
      BY ReaderFields
    <3> QED
      BY <3>1
  <2> HIDE DEF q, c
  <2> QED
    BY <2>1, <2>2, <2>3, <2>4
<1>2. Append(r.open.lines, i) \in Seq(Nat) /\ Append(r.open.lines, i) # <<>>
  <2>1. r.open.lines \in Seq(Nat)
    BY ReaderFields
  <2> QED
    BY <2>1, AppendProperties
<1>3. c \in ClauseOf(text) /\ c.lines = Append(r.open.lines, i)
  BY <1>2, ReaderFields DEF ClauseOf
<1>4. c # NoClause
  BY <1>2 DEF NoClause
<1> HIDE DEF c
<1>5. q \in ReaderOf(text) /\ q.open = c /\ q.chapter = r.chapter /\ q.clauses = r.clauses
  BY <1>1, <1>3, ReaderFields DEF ReaderOf
<1> HIDE DEF q
<1>6. /\ Reading(q) /\ Finished(q) = Append(r.clauses, c)
      /\ Finished(r) = Append(r.clauses, r.open)
  BY <1>2, <1>3, <1>4, <1>5 DEF Reading, Finished
<1> QED
  BY <1>3, <1>5, <1>6 DEF c, q

-----------------------------------------------------------------------------
(* Reading one line.                                                       *)

\* A line that is not one of them is passed over.
LEMMA SkipLine ==
  ASSUME NEW text, IsText(text), NEW lines, NEW starts \in SUBSET lines,
         NEW i \in DOMAIN text, i \notin lines,
         NEW r, ReadUpTo(text, lines, starts, r, i - 1),
         NEW q \in ReaderOf(text), q.clauses = r.clauses, q.open = r.open
  PROVE  ReadUpTo(text, lines, starts, q, i)
<1>1. i \in Nat \ {0}
  BY DEF IsText
<1>2. /\ lines \intersect (1..i) = lines \intersect (1..i - 1)
      /\ starts \intersect (1..i) = starts \intersect (1..i - 1)
  BY <1>1
<1>3. Finished(q) = Finished(r) /\ Reading(q)
  BY DEF Finished, Reading, ReadUpTo
<1> QED
  BY <1>2, <1>3 DEF ReadUpTo

\* A start starts a clause.
LEMMA StartLine ==
  ASSUME NEW text, IsText(text), NEW lines, NEW starts \in SUBSET lines,
         NEW i \in DOMAIN text, i \in starts,
         NEW r, ReadUpTo(text, lines, starts, r, i - 1), NEW loc \in Locators(text)
  PROVE  ReadUpTo(text, lines, starts, Start(r, loc, i), i)
<1> DEFINE c == [locator |-> loc, chapter |-> r.chapter, lines |-> <<i>>]
           L == lines \intersect (1..i - 1)
           H == starts \intersect (1..i - 1)
<1>1. i \in Nat \ {0}
  BY DEF IsText
<1>2. /\ lines \intersect (1..i) = L \union {i}
      /\ starts \intersect (1..i) = H \union {i}
  BY <1>1
<1>3. r \in ReaderOf(text) /\ Cut(Finished(r), L, H)
  BY DEF ReadUpTo
<1>4. /\ Start(r, loc, i) \in ReaderOf(text) /\ Reading(Start(r, loc, i))
      /\ Finished(Start(r, loc, i)) = Append(Finished(r), c)
      /\ c \in ClauseOf(text)
  BY <1>1, <1>3, StartIs
<1>5. Finished(r) \in Seq(ClauseOf(text)) /\ c.lines = <<i>>
  BY <1>3, ReaderFields
<1>6. L \in SUBSET (1..i - 1) /\ H \in SUBSET L
  OBVIOUS
<1> HIDE DEF c, L, H
<1>7. Cut(Append(Finished(r), c), L \union {i}, H \union {i})
  BY <1>1, <1>3, <1>4, <1>5, <1>6, CutStart
<1> QED
  BY <1>2, <1>4, <1>7 DEF ReadUpTo

\* A line that is none goes on.
LEMMA GoOnLine ==
  ASSUME NEW text, IsText(text), NEW lines, NEW starts \in SUBSET lines,
         NEW i \in DOMAIN text, i \in lines \ starts,
         NEW r, ReadUpTo(text, lines, starts, r, i - 1), r.open # NoClause
  PROVE  ReadUpTo(text, lines, starts, GoOn(r, i), i)
<1> DEFINE c == [locator |-> r.open.locator, chapter |-> r.open.chapter,
                 lines |-> Append(r.open.lines, i)]
           L == lines \intersect (1..i - 1)
           H == starts \intersect (1..i - 1)
<1>1. i \in Nat \ {0}
  BY DEF IsText
<1>2. /\ lines \intersect (1..i) = L \union {i}
      /\ starts \intersect (1..i) = H
  BY <1>1
<1>3. r \in ReaderOf(text) /\ Cut(Finished(r), L, H)
  BY DEF ReadUpTo
<1>4. /\ GoOn(r, i) \in ReaderOf(text) /\ Reading(GoOn(r, i))
      /\ Finished(r) = Append(r.clauses, r.open)
      /\ Finished(GoOn(r, i)) = Append(r.clauses, c)
      /\ c \in ClauseOf(text)
  BY <1>1, <1>3, GoOnIs
<1>5. /\ r.clauses \in Seq(ClauseOf(text)) /\ r.open \in ClauseOf(text)
      /\ c.lines = Append(r.open.lines, i)
  BY <1>3, ReaderFields
<1>6. L \in SUBSET (1..i - 1) /\ H \in SUBSET L
  OBVIOUS
<1> HIDE DEF c, L, H
<1>7. Cut(Append(r.clauses, r.open), L, H)
  BY <1>3, <1>4
<1>8. Cut(Append(r.clauses, c), L \union {i}, H)
  BY <1>1, <1>4, <1>5, <1>6, <1>7, CutGoOn
<1> QED
  BY <1>2, <1>4, <1>8 DEF ReadUpTo

\* A reader that is in no clause has met no start; one that is in a clause has, and the
\* last line of the clause is the last of the lines that it has met.
LEMMA WhereItIs ==
  ASSUME NEW text, NEW n \in Nat, NEW lines, NEW starts \in SUBSET lines,
         NEW r, ReadUpTo(text, lines, starts, r, n)
  PROVE  /\ r.open = NoClause => starts \intersect (1..n) = {}
         /\ r.open # NoClause =>
              /\ starts \intersect (1..n) # {}
              /\ Last(r.open.lines) \in lines \intersect (1..n)
              /\ \A l \in lines \intersect (1..n) : l <= Last(r.open.lines)
<1> DEFINE L == lines \intersect (1..n)
           H == starts \intersect (1..n)
<1>1. r \in ReaderOf(text) /\ Reading(r) /\ Cut(Finished(r), L, H)
  BY DEF ReadUpTo
<1>2. L \in SUBSET Nat /\ H \in SUBSET L
  OBVIOUS
<1> HIDE DEF L, H
<1>3. CASE r.open = NoClause
  <2>1. Finished(r) = <<>>
    BY <1>1, <1>3 DEF Reading, Finished
  <2>2. H = {}
    BY <1>1, <2>1 DEF Cut, CutAt
  <2> QED
    BY <1>3, <2>2 DEF H
<1>4. CASE r.open # NoClause
  <2>1. /\ Finished(r) = Append(r.clauses, r.open)
        /\ r.clauses \in Seq(ClauseOf(text)) /\ r.open \in ClauseOf(text)
    BY <1>1, <1>4, ReaderFields DEF Finished
  <2>2. Last(r.open.lines) \in L /\ \A l \in L : l <= Last(r.open.lines)
    BY <1>1, <1>2, <2>1, LastLine
  <2>3. H # {}
    <3>1. PICK k : k \in DOMAIN Finished(r)
      <4>1. PICK m \in Nat : DOMAIN Append(r.clauses, r.open) = 1..m + 1
        BY <2>1, ClauseAppended
      <4> QED
        BY <2>1, <4>1
    <3> QED
      BY <1>1, <3>1 DEF Cut, CutAt
  <2> QED
    BY <1>4, <2>2, <2>3 DEF L, H
<1> QED
  BY <1>3, <1>4

\* The chapter is that of the line before, unless the line begins one.
LEMMA ChapterIs ==
  ASSUME NEW text, IsText(text), NEW i \in DOMAIN text
  PROVE  ChapterAt(text, i) = IF text[i].kind = "chapter" THEN text[i].mark
                              ELSE ChapterAt(text, i - 1)
<1>1. i \in Nat \ {0}
  BY DEF IsText
<1> DEFINE above(n) == {j \in 1..n : text[j].kind = "chapter"}
<1>2. CASE text[i].kind # "chapter"
  <2>1. above(i) = above(i - 1)
    BY <1>1, <1>2
  <2> QED
    BY <1>2, <2>1, Zenon DEF ChapterAt
<1>3. CASE text[i].kind = "chapter"
  <2>1. i \in above(i) /\ \A j \in above(i) : i >= j
    BY <1>1, <1>3
  <2>2. Max(above(i)) = i
    <3> DEFINE m == CHOOSE x \in above(i) : \A y \in above(i) : x >= y
    <3>1. m \in above(i) /\ \A y \in above(i) : m >= y
      <4> HIDE DEF above
      <4> QED
        BY <2>1
    <3>2. m = i
      <4>1. m \in Nat /\ m >= i /\ i >= m
        BY <1>1, <2>1, <3>1
      <4> QED
        BY <1>1, <4>1
    <3> QED
      BY <3>2, Zenon DEF Max
  <2> HIDE DEF above
  <2>3. above(i) # {}
    BY <2>1
  <2>4. ChapterAt(text, i) = IF above(i) = {} THEN 0 ELSE text[Max(above(i))].mark
    BY Zenon DEF ChapterAt, above
  <2> QED
    BY <1>3, <2>2, <2>3, <2>4
<1> QED
  BY <1>2, <1>3

\* A clause that is started where its locator says is located.
LEMMA LocateStart ==
  ASSUME NEW text, IsText(text), NEW marks, NEW i \in DOMAIN text, text[i].kind # "chapter",
         NEW r \in ReaderOf(text), LocatedUpTo(text, marks, r, i - 1),
         NEW loc \in Locators(text),
         Located(text, marks, [locator |-> loc, chapter |-> ChapterAt(text, i), lines |-> <<i>>])
  PROVE  LocatedUpTo(text, marks, Start(r, loc, i), i)
<1>1. i \in Nat \ {0}
  BY DEF IsText
<1> DEFINE c == [locator |-> loc, chapter |-> r.chapter, lines |-> <<i>>]
           q == Start(r, loc, i)
<1>2. q.chapter = r.chapter /\ Finished(q) = Append(Finished(r), c) /\ c \in ClauseOf(text)
  BY <1>1, StartIs
<1>3. r.chapter = ChapterAt(text, i)
  BY ChapterIs DEF LocatedUpTo
<1>4. Located(text, marks, c)
  BY <1>3
<1> HIDE DEF c, q
<1>5. PICK n \in Nat :
        /\ DOMAIN Finished(r) = 1..n /\ DOMAIN Finished(q) = 1..n + 1
        /\ \A k \in 1..n : Finished(q)[k] = Finished(r)[k]
        /\ Finished(q)[n + 1] = c
  <2>1. Finished(r) \in Seq(ClauseOf(text))
    BY ReaderFields
  <2> QED
    BY <1>2, <2>1, ClauseAppended
<1>6. ASSUME NEW k \in DOMAIN Finished(q)
      PROVE  Located(text, marks, Finished(q)[k])
  <2>1. CASE k = n + 1
    BY <1>4, <1>5, <2>1
  <2>2. CASE k \in 1..n
    BY <1>5, <2>2 DEF LocatedUpTo, WellLocated
  <2> QED
    BY <1>5, <1>6, <2>1, <2>2
<1>7. WellLocated(text, marks, Finished(q))
  BY <1>6 DEF WellLocated
<1> QED
  BY <1>2, <1>3, <1>7 DEF LocatedUpTo, q

\* So is a clause that goes on.
LEMMA LocateGoOn ==
  ASSUME NEW text, IsText(text), NEW marks, NEW i \in DOMAIN text, text[i].kind # "chapter",
         NEW r \in ReaderOf(text), Reading(r), LocatedUpTo(text, marks, r, i - 1),
         r.open # NoClause
  PROVE  LocatedUpTo(text, marks, GoOn(r, i), i)
<1>1. i \in Nat \ {0}
  BY DEF IsText
<1> DEFINE c == [locator |-> r.open.locator, chapter |-> r.open.chapter,
                 lines |-> Append(r.open.lines, i)]
           q == GoOn(r, i)
<1>2. /\ q.chapter = r.chapter
      /\ Finished(r) = Append(r.clauses, r.open)
      /\ Finished(q) = Append(r.clauses, c)
      /\ c \in ClauseOf(text)
  BY <1>1, GoOnIs
<1>3. c.chapter = r.open.chapter /\ c.lines[1] = r.open.lines[1] /\ c.locator = r.open.locator
  <2>1. r.open.lines \in Seq(Nat) /\ r.open.lines # <<>>
    BY ReaderFields DEF Reading
  <2>2. Append(r.open.lines, i)[1] = r.open.lines[1]
    BY <1>1, <2>1
  <2> QED
    BY <2>2
<1>4. q.chapter = ChapterAt(text, i)
  BY <1>2, ChapterIs DEF LocatedUpTo
<1>5. PICK n \in Nat : n = Len(r.clauses) /\ DOMAIN r.clauses = 1..n
  <2>1. r.clauses \in Seq(ClauseOf(text))
    BY ReaderFields
  <2> QED
    BY <2>1
<1> HIDE DEF c, q
<1>6. /\ DOMAIN Finished(q) = 1..n + 1 /\ DOMAIN Finished(r) = 1..n + 1
      /\ \A k \in 1..n : Finished(q)[k] = Finished(r)[k]
      /\ Finished(q)[n + 1] = c /\ Finished(r)[n + 1] = r.open
  <2>1. r.clauses \in Seq(ClauseOf(text))
    BY ReaderFields
  <2> QED
    BY <1>2, <1>5, <2>1
<1>7. ASSUME NEW k \in DOMAIN Finished(q)
      PROVE  /\ Finished(q)[k].lines[1] = Finished(r)[k].lines[1]
             /\ Finished(q)[k].locator = Finished(r)[k].locator
             /\ Finished(q)[k].chapter = Finished(r)[k].chapter
  <2>1. CASE k = n + 1
    BY <1>3, <1>6, <2>1
  <2>2. CASE k \in 1..n
    BY <1>6, <2>2
  <2> QED
    BY <1>6, <1>7, <2>1, <2>2
<1>8. WellLocated(text, marks, Finished(q))
  BY <1>6, <1>7 DEF LocatedUpTo, WellLocated, Located
<1> QED
  BY <1>4, <1>8 DEF LocatedUpTo, q

-----------------------------------------------------------------------------
(* Reading a whole text.                                                   *)

Marks == {"article", "paragraph", "number"}

\* The least of some lines.
LEMMA FirstLine ==
  ASSUME NEW text, IsText(text), NEW lines \in SUBSET DOMAIN text, NEW i \in lines
  PROVE  \E m \in lines : m <= i /\ \A j \in lines : m <= j
<1>1. lines \in SUBSET Nat /\ lines # {}
  BY DEF IsText
<1> QED
  BY <1>1, LeastNumber

\* The segmentation reads on: what it has read is cut at the starts, and located.
LEMMA ReadLineKeeps ==
  ASSUME NEW text, IsText(text), NEW marks \in SUBSET Marks, NEW i \in DOMAIN text,
         NEW r, ReadUpTo(text, Body(text), Starts(text, marks), r, i - 1),
         LocatedUpTo(text, marks, r, i - 1)
  PROVE  LET q == ReadLine(text, marks, r, i)
         IN /\ ReadUpTo(text, Body(text), Starts(text, marks), q, i)
            /\ LocatedUpTo(text, marks, q, i)
<1> DEFINE q == ReadLine(text, marks, r, i)
           B == Body(text)
           H == Starts(text, marks)
<1>1. i \in Nat \ {0} /\ text[i].kind \in LineKinds /\ r \in ReaderOf(text) /\ Reading(r)
  BY DEF IsText, ReadUpTo
<1>2. H \in SUBSET B /\ B \in SUBSET DOMAIN text
  BY DEF Starts, Body
<1>3. CASE text[i].kind = "blank"
  <2>1. q = r
    BY <1>3 DEF ReadLine, Marks
  <2>2. i \notin B
    BY <1>3 DEF Body
  <2> HIDE DEF B, H
  <2>3. ReadUpTo(text, B, H, r, i)
    BY <1>1, <1>2, <2>2, SkipLine DEF B, H
  <2>4. LocatedUpTo(text, marks, r, i)
    BY <1>3, ChapterIs DEF LocatedUpTo
  <2> QED
    BY <2>1, <2>3, <2>4 DEF B, H
<1>4. CASE text[i].kind = "chapter"
  <2>1. q = [r EXCEPT !.chapter = text[i].mark]
    BY <1>4 DEF ReadLine, Marks
  <2>2. /\ q \in ReaderOf(text) /\ q.clauses = r.clauses /\ q.open = r.open
        /\ q.chapter = text[i].mark
    <3>1. text[i].mark \in Chapters(text)
      BY DEF Chapters
    <3> HIDE DEF q
    <3> QED
      BY <1>1, <2>1, <3>1 DEF ReaderOf
  <2>3. i \notin B
    BY <1>4 DEF Body
  <2> HIDE DEF q, B, H
  <2>4. ReadUpTo(text, B, H, q, i)
    BY <1>2, <2>2, <2>3, SkipLine DEF B, H
  <2>5. Finished(q) = Finished(r)
    BY <2>2 DEF Finished
  <2>6. LocatedUpTo(text, marks, q, i)
    BY <1>4, <2>2, <2>5, ChapterIs DEF LocatedUpTo
  <2> QED
    BY <2>4, <2>6 DEF q, B, H
<1>5. ASSUME NEW loc \in Locators(text), i \in H, q = Start(r, loc, i),
             Located(text, marks,
                     [locator |-> loc, chapter |-> ChapterAt(text, i), lines |-> <<i>>])
      PROVE  ReadUpTo(text, B, H, q, i) /\ LocatedUpTo(text, marks, q, i)
  <2>1. text[i].kind # "chapter"
    BY <1>5 DEF Starts, Body
  <2>2. LocatedUpTo(text, marks, Start(r, loc, i), i)
    BY <1>1, <1>5, <2>1, LocateStart
  <2> HIDE DEF q
  <2>3. ReadUpTo(text, B, H, Start(r, loc, i), i)
    BY <1>2, <1>5, StartLine
  <2> QED
    BY <1>5, <2>2, <2>3
<1>6. CASE text[i].kind \in marks
  <2> DEFINE loc == <<text[i].kind, text[i].mark>>
  <2>1. text[i].kind \notin {"blank", "chapter"}
    BY <1>6 DEF Marks
  <2>2. loc \in Locators(text) /\ i \in H
    BY <1>6, <2>1 DEF Locators, Starts, Body
  <2>3. q = Start(r, loc, i)
    BY <1>6, <2>1 DEF ReadLine
  <2>4. Located(text, marks, [locator |-> loc, chapter |-> ChapterAt(text, i), lines |-> <<i>>])
    BY <1>6 DEF Located
  <2> QED
    BY <1>5, <2>2, <2>3, <2>4
<1>7. CASE text[i].kind \notin {"blank", "chapter"} \union marks
  <2>1. i \in B
    BY <1>7 DEF Body
  <2>2. CASE r.open = NoClause
    <3> DEFINE loc == <<"line", i>>
    <3>1. loc \in Locators(text)
      BY DEF Locators
    <3>2. q = Start(r, loc, i)
      BY <1>7, <2>2 DEF ReadLine
    <3>3. i \in H
      <4>1. H \intersect (1..i - 1) = {}
        BY <1>1, <1>2, <2>2, WhereItIs
      <4>2. PICK m \in B : m <= i /\ \A j \in B : m <= j
        BY <1>2, <2>1, FirstLine
      <4>3. m \in H
        BY <4>2 DEF Starts
      <4>4. m \in 1..i
        <5>1. m \in Nat \ {0}
          BY <1>2, <4>2 DEF IsText
        <5> QED
          BY <1>1, <4>2, <5>1
      <4>5. m = i
        BY <1>1, <4>1, <4>3, <4>4
      <4> QED
        BY <4>3, <4>5
    <3>4. Located(text, marks, [locator |-> loc, chapter |-> ChapterAt(text, i), lines |-> <<i>>])
      BY <1>7 DEF Located
    <3> QED
      BY <1>5, <3>1, <3>2, <3>3, <3>4
  <2>3. CASE r.open # NoClause
    <3>1. q = GoOn(r, i)
      BY <1>7, <2>3 DEF ReadLine
    <3>2. text[i].kind # "chapter"
      BY <1>7
    <3>3. LocatedUpTo(text, marks, GoOn(r, i), i)
      BY <1>1, <2>3, <3>2, LocateGoOn
    <3>4. i \notin H
      <4>1. PICK h \in H : h \in 1..i - 1
        BY <1>1, <1>2, <2>3, WhereItIs
      <4>2. h \in B /\ ~(i <= h)
        BY <1>1, <1>2, <4>1
      <4> QED
        BY <1>7, <4>2 DEF Starts
    <3> HIDE DEF B, H, q
    <3>5. ReadUpTo(text, B, H, GoOn(r, i), i)
      BY <1>2, <2>1, <2>3, <3>4, GoOnLine DEF B, H
    <3> QED
      BY <3>1, <3>3, <3>5 DEF B, H, q
  <2> QED
    BY <2>2, <2>3
<1> QED
  BY <1>3, <1>4, <1>6, <1>7

\* Sentences are numbered.
Numbered(clauses) == \A k \in DOMAIN clauses : clauses[k].locator = <<"sentence", k>>

\* They stay numbered when the last of them goes on.
LEMMA StillNumbered ==
  ASSUME NEW text, NEW cs \in Seq(ClauseOf(text)), NEW b \in ClauseOf(text),
         NEW c \in ClauseOf(text), c.locator = b.locator, Numbered(Append(cs, b))
  PROVE  Numbered(Append(cs, c))
<1>1. PICK n \in Nat :
        /\ DOMAIN cs = 1..n /\ n = Len(cs)
        /\ DOMAIN Append(cs, b) = 1..n + 1
        /\ \A k \in 1..n : Append(cs, b)[k] = cs[k]
        /\ Append(cs, b)[n + 1] = b
  BY ClauseAppended
<1>2. PICK o \in Nat :
        /\ DOMAIN cs = 1..o /\ o = Len(cs)
        /\ DOMAIN Append(cs, c) = 1..o + 1
        /\ \A k \in 1..o : Append(cs, c)[k] = cs[k]
        /\ Append(cs, c)[o + 1] = c
  BY ClauseAppended
<1>3. n = o
  BY <1>1, <1>2
<1> QED
  BY <1>1, <1>2, <1>3 DEF Numbered

\* The cut into sentences reads on.
LEMMA ReadSentenceKeeps ==
  ASSUME NEW text, IsText(text), NEW i \in DOMAIN text, NEW r,
         ReadUpTo(text, Written(text), SentenceStarts(text), r, i - 1),
         Numbered(Finished(r))
  PROVE  LET q == ReadSentence(text, r, i)
         IN /\ ReadUpTo(text, Written(text), SentenceStarts(text), q, i)
            /\ Numbered(Finished(q))
<1> DEFINE q == ReadSentence(text, r, i)
           W == Written(text)
           H == SentenceStarts(text)
           loc == <<"sentence", Len(Finished(r)) + 1>>
<1>1. i \in Nat \ {0} /\ r \in ReaderOf(text)
  BY DEF IsText, ReadUpTo
<1>2. H \in SUBSET W /\ W \in SUBSET DOMAIN text
  BY DEF SentenceStarts, Written
<1>3. \A j \in W : j \in Nat \ {0}
  BY <1>2 DEF IsText
<1>4. CASE text[i].kind = "blank"
  <2>1. q = r
    BY <1>4 DEF ReadSentence
  <2>2. i \notin W
    BY <1>4 DEF Written
  <2> HIDE DEF W, H
  <2>3. ReadUpTo(text, W, H, r, i)
    BY <1>1, <1>2, <2>2, SkipLine DEF W, H
  <2> QED
    BY <2>1, <2>3 DEF W, H
<1>5. ASSUME i \in H, q = Start(r, loc, i)
      PROVE  ReadUpTo(text, W, H, q, i) /\ Numbered(Finished(q))
  <2>1. Finished(r) \in Seq(ClauseOf(text)) /\ Len(Finished(r)) \in Nat
    <3> HIDE DEF q
    <3>1. Finished(r) \in Seq(ClauseOf(text))
      BY <1>1, ReaderFields
    <3> QED
      BY <3>1
  <2>2. loc \in Locators(text)
    BY <2>1 DEF Locators
  <2> DEFINE c == [locator |-> loc, chapter |-> r.chapter, lines |-> <<i>>]
  <2>3. c \in ClauseOf(text) /\ c.locator = loc
    BY <1>1, <2>2, StartIs
  <2>4. Finished(Start(r, loc, i)) = Append(Finished(r), c)
    BY <1>1, <2>2, StartIs
  <2> HIDE DEF q, loc, c
  <2>5. ReadUpTo(text, W, H, Start(r, loc, i), i)
    BY <1>2, <1>5, <2>2, StartLine
  <2>6. Numbered(Append(Finished(r), c))
    <3>1. PICK n \in Nat :
            /\ DOMAIN Finished(r) = 1..n /\ n = Len(Finished(r))
            /\ DOMAIN Append(Finished(r), c) = 1..n + 1
            /\ \A k \in 1..n : Append(Finished(r), c)[k] = Finished(r)[k]
            /\ Append(Finished(r), c)[n + 1] = c
      BY <2>1, <2>3, ClauseAppended
    <3>2. c.locator = <<"sentence", n + 1>>
      BY <2>3, <3>1 DEF loc
    <3> QED
      BY <3>1, <3>2 DEF Numbered
  <2> QED
    BY <1>5, <2>4, <2>5, <2>6
<1>6. CASE text[i].kind # "blank" /\ r.open = NoClause
  <2>1. q = Start(r, loc, i)
    BY <1>6 DEF ReadSentence
  <2>2. i \in H
    <3>1. i \in W
      BY <1>6 DEF Written
    <3>2. H \intersect (1..i - 1) = {}
      BY <1>1, <1>2, <1>6, WhereItIs
    <3>3. PICK m \in W : m <= i /\ \A j \in W : m <= j
      BY <1>2, <3>1, FirstLine
    <3>4. m \in H
      <4>1. \A j \in W : ~(j < m)
        BY <1>3, <3>3
      <4> QED
        BY <4>1 DEF SentenceStarts
    <3>5. m = i
      BY <1>1, <1>3, <3>2, <3>3, <3>4
    <3> QED
      BY <3>4, <3>5
  <2> QED
    BY <1>5, <2>1, <2>2
<1>7. CASE text[i].kind # "blank" /\ r.open # NoClause
  <2> DEFINE m == Last(r.open.lines)
  <2>1. i \in W
    BY <1>7 DEF Written
  <2>2. m \in W \intersect (1..i - 1) /\ \A j \in W \intersect (1..i - 1) : j <= m
    BY <1>1, <1>2, <1>7, WhereItIs
  <2> HIDE DEF m
  <2>3. m \in W /\ m < i /\ \A j \in W : j < i => j = m \/ j < m
    <3>1. \A j \in W : j < i => j \in 1..i - 1
      BY <1>1, <1>3
    <3> QED
      BY <1>1, <1>3, <2>2, <3>1
  <2>4. CASE text[m].ends
    <3>1. q = Start(r, loc, i)
      BY <1>7, <2>4 DEF ReadSentence, m
    <3>2. i \in H
      BY <2>1, <2>3, <2>4 DEF SentenceStarts
    <3> QED
      BY <1>5, <3>1, <3>2
  <2>5. CASE ~text[m].ends
    <3>1. q = GoOn(r, i)
      BY <1>7, <2>5 DEF ReadSentence, m
    <3>2. i \notin H
      <4>1. ~\E k \in W : m < k /\ k < i
        <5> SUFFICES ASSUME NEW k \in W, m < k, k < i
                     PROVE  FALSE
          OBVIOUS
        <5>1. k = m \/ k < m
          BY <2>3
        <5> QED
          BY <1>3, <2>3, <5>1
      <4> QED
        BY <2>3, <2>5, <4>1 DEF SentenceStarts
    <3> DEFINE c == [locator |-> r.open.locator, chapter |-> r.open.chapter,
                     lines |-> Append(r.open.lines, i)]
    <3>3. /\ Finished(r) = Append(r.clauses, r.open)
          /\ Finished(GoOn(r, i)) = Append(r.clauses, c)
          /\ c \in ClauseOf(text) /\ c.locator = r.open.locator
      BY <1>1, <1>7, GoOnIs
    <3> HIDE DEF q, W, H, c
    <3>4. ReadUpTo(text, W, H, GoOn(r, i), i)
      BY <1>2, <1>7, <2>1, <3>2, GoOnLine DEF W, H
    <3>5. Numbered(Append(r.clauses, c))
      <4>1. r.clauses \in Seq(ClauseOf(text)) /\ r.open \in ClauseOf(text)
        BY <1>1, ReaderFields
      <4>2. Numbered(Append(r.clauses, r.open))
        BY <3>3
      <4> QED
        BY <3>3, <4>1, <4>2, StillNumbered
    <3> QED
      BY <3>1, <3>3, <3>4, <3>5 DEF q, W, H
  <2> QED
    BY <2>4, <2>5
<1> QED
  BY <1>4, <1>6, <1>7

\* A reader that has read nothing.
LEMMA ReaderStarts ==
  ASSUME NEW text, IsText(text), NEW lines, NEW starts \in SUBSET lines, NEW marks
  PROVE  /\ ReadUpTo(text, lines, starts, Reader, 0)
         /\ LocatedUpTo(text, marks, Reader, 0)
         /\ Numbered(Finished(Reader))
<1>1. NoClause \in ClauseOf(text)
  BY DEF NoClause, ClauseOf, Locators, Chapters
<1>2. Reader \in ReaderOf(text) /\ Finished(Reader) = <<>> /\ Reading(Reader) /\ Reader.chapter = 0
  BY <1>1 DEF Reader, ReaderOf, Finished, Reading, Chapters
<1>3. Cut(<<>>, {}, {})
  BY DEF Cut, CutAt
<1>4. lines \intersect (1..0) = {} /\ starts \intersect (1..0) = {}
  OBVIOUS
<1>5. ReadUpTo(text, lines, starts, Reader, 0)
  BY <1>2, <1>3, <1>4 DEF ReadUpTo
<1>6. ChapterAt(text, 0) = 0
  BY DEF ChapterAt
<1>7. WellLocated(text, marks, <<>>) /\ Numbered(<<>>)
  BY DEF WellLocated, Numbered
<1> QED
  BY <1>2, <1>5, <1>6, <1>7 DEF LocatedUpTo

\* Whatever line comes next, a reader stays one.
LEMMA ReadersRead ==
  ASSUME NEW text, IsText(text), NEW marks \in SUBSET Marks,
         NEW i \in DOMAIN text, NEW r \in ReaderOf(text)
  PROVE  /\ ReadLine(text, marks, r, i) \in ReaderOf(text)
         /\ ReadSentence(text, r, i) \in ReaderOf(text)
<1>1. i \in Nat
  BY DEF IsText
<1>2. ASSUME NEW loc \in Locators(text)
      PROVE  Start(r, loc, i) \in ReaderOf(text)
  BY <1>1, StartIs
<1>3. r.open # NoClause => GoOn(r, i) \in ReaderOf(text)
  BY <1>1, GoOnIs
<1>4. text[i].mark \in Chapters(text) /\ Len(Finished(r)) \in Nat
  BY ReaderFields DEF Chapters
<1>5. [r EXCEPT !.chapter = text[i].mark] \in ReaderOf(text)
  BY <1>4 DEF ReaderOf
<1>6. /\ <<"line", i>> \in Locators(text) /\ <<text[i].kind, text[i].mark>> \in Locators(text)
      /\ <<"sentence", Len(Finished(r)) + 1>> \in Locators(text)
  BY <1>4 DEF Locators
<1>7. ReadLine(text, marks, r, i) \in ReaderOf(text)
  BY <1>2, <1>3, <1>5, <1>6, Zenon DEF ReadLine
<1>8. ReadSentence(text, r, i) \in ReaderOf(text)
  BY <1>2, <1>3, <1>6, Zenon DEF ReadSentence
<1> QED
  BY <1>7, <1>8

\* What a segmentation makes of a text: its body lines, cut at the starts, in located
\* clauses.
LEMMA SegmentsRead ==
  ASSUME NEW text, IsText(text), NEW marks \in SUBSET Marks
  PROVE  /\ Cut(Segments(text, marks), Body(text), Starts(text, marks))
         /\ WellLocated(text, marks, Segments(text, marks))
         /\ Segments(text, marks) \in Seq(ClauseOf(text))
<1>0. Starts(text, marks) \in SUBSET Body(text) /\ Body(text) \in SUBSET DOMAIN text
  BY DEF Starts, Body
<1>1. PICK n \in Nat : n = Len(text) /\ DOMAIN text = 1..n
  BY DEF IsText
<1> DEFINE A    == ReaderOf(text)
           Q(h) == h = [k \in 0 .. Len(text) |->
                          IF k = 0 THEN Reader ELSE ReadLine(text, marks, h[k - 1], k)]
           step == [k \in 1..n |-> [r \in A |-> ReadLine(text, marks, r, k)]]
<1>2. Reader \in A /\ step \in [1..n -> [A -> A]]
  <2>1. Reader \in A
    BY <1>0, ReaderStarts DEF ReadUpTo
  <2>2. \A k \in 1..n, r \in A : ReadLine(text, marks, r, k) \in A
    BY <1>1, ReadersRead
  <2> QED
    BY <2>1, <2>2
<1>3. PICK f \in [0..n -> A] : f[0] = Reader /\ \A k \in 1..n : f[k] = step[k][f[k - 1]]
  <2> HIDE DEF step, A
  <2>1. Recursions(n, A, Reader, step) # {}
    BY <1>2, RecursionExists
  <2> QED
    BY <2>1 DEF Recursions
<1>4. \A k \in 1..n : f[k] = ReadLine(text, marks, f[k - 1], k)
  <2> SUFFICES ASSUME NEW k \in 1..n
               PROVE  f[k] = ReadLine(text, marks, f[k - 1], k)
    OBVIOUS
  <2>1. f[k - 1] \in A
    BY <1>3
  <2> QED
    BY <1>3, <2>1
<1>5. Q(f)
  BY <1>1, <1>3, <1>4
<1>6. Q(CHOOSE h : Q(h))
  <2> HIDE DEF Q
  <2> QED
    BY <1>5
<1> DEFINE g == CHOOSE h : Q(h)
<1>7. Segments(text, marks) = Finished(g[Len(text)])
  BY Zenon DEF Segments
<1>8. g[0] = Reader /\ \A k \in 1..n : g[k] = ReadLine(text, marks, g[k - 1], k)
  <2>1. g = [k \in 0 .. Len(text) |-> IF k = 0 THEN Reader ELSE ReadLine(text, marks, g[k - 1], k)]
    BY <1>6, Zenon
  <2> HIDE DEF g
  <2> QED
    BY <1>1, <2>1
<1> HIDE DEF g
<1> DEFINE Good(k) == /\ ReadUpTo(text, Body(text), Starts(text, marks), g[k], k)
                      /\ LocatedUpTo(text, marks, g[k], k)
<1>9. Good(n)
  <2> DEFINE S == {k \in 0..n : Good(k)}
  <2>1. 0 \in S
    BY <1>0, <1>8, ReaderStarts
  <2>2. ASSUME NEW k \in 1..n, k - 1 \in S
        PROVE  k \in S
    <3>1. k \in DOMAIN text /\ Good(k - 1)
      BY <1>1, <2>2
    <3>2. LET q == ReadLine(text, marks, g[k - 1], k)
          IN /\ ReadUpTo(text, Body(text), Starts(text, marks), q, k)
             /\ LocatedUpTo(text, marks, q, k)
      BY <3>1, ReadLineKeeps
    <3> QED
      BY <1>8, <3>2
  <2> HIDE DEF S
  <2>3. 0..n \subseteq S
    BY <2>1, <2>2, UpTo
  <2> QED
    BY <2>3 DEF S
<1>10. Finished(g[n]) \in Seq(ClauseOf(text))
  BY <1>9, ReaderFields DEF ReadUpTo
<1>11. /\ Body(text) \intersect (1..n) = Body(text)
       /\ Starts(text, marks) \intersect (1..n) = Starts(text, marks)
  BY <1>0, <1>1
<1> QED
  BY <1>1, <1>7, <1>9, <1>10, <1>11 DEF ReadUpTo, LocatedUpTo

\* What a cut into sentences makes of it: its lines that are not blank, cut where a
\* sentence starts, and numbered.
LEMMA SentencesRead ==
  ASSUME NEW text, IsText(text)
  PROVE  /\ Cut(Sentences(text), Written(text), SentenceStarts(text))
         /\ Numbered(Sentences(text))
<1>0. /\ SentenceStarts(text) \in SUBSET Written(text)
      /\ Written(text) \in SUBSET DOMAIN text
  BY DEF SentenceStarts, Written
<1>1. PICK n \in Nat : n = Len(text) /\ DOMAIN text = 1..n
  BY DEF IsText
<1> DEFINE A    == ReaderOf(text)
           Q(h) == h = [k \in 0 .. Len(text) |->
                          IF k = 0 THEN Reader ELSE ReadSentence(text, h[k - 1], k)]
           step == [k \in 1..n |-> [r \in A |-> ReadSentence(text, r, k)]]
<1>2. Reader \in A /\ step \in [1..n -> [A -> A]]
  <2>1. Reader \in A
    BY <1>0, ReaderStarts DEF ReadUpTo
  <2>2. \A k \in 1..n, r \in A : ReadSentence(text, r, k) \in A
    <3>1. {} \in SUBSET Marks
      OBVIOUS
    <3> QED
      BY <1>1, <3>1, ReadersRead
  <2> QED
    BY <2>1, <2>2
<1>3. PICK f \in [0..n -> A] : f[0] = Reader /\ \A k \in 1..n : f[k] = step[k][f[k - 1]]
  <2> HIDE DEF step, A
  <2>1. Recursions(n, A, Reader, step) # {}
    BY <1>2, RecursionExists
  <2> QED
    BY <2>1 DEF Recursions
<1>4. \A k \in 1..n : f[k] = ReadSentence(text, f[k - 1], k)
  <2> SUFFICES ASSUME NEW k \in 1..n
               PROVE  f[k] = ReadSentence(text, f[k - 1], k)
    OBVIOUS
  <2>1. f[k - 1] \in A
    BY <1>3
  <2> QED
    BY <1>3, <2>1
<1>5. Q(f)
  BY <1>1, <1>3, <1>4
<1>6. Q(CHOOSE h : Q(h))
  <2> HIDE DEF Q
  <2> QED
    BY <1>5
<1> DEFINE g == CHOOSE h : Q(h)
<1>7. Sentences(text) = Finished(g[Len(text)])
  BY Zenon DEF Sentences
<1>8. g[0] = Reader /\ \A k \in 1..n : g[k] = ReadSentence(text, g[k - 1], k)
  <2>1. g = [k \in 0 .. Len(text) |-> IF k = 0 THEN Reader ELSE ReadSentence(text, g[k - 1], k)]
    BY <1>6, Zenon
  <2> HIDE DEF g
  <2> QED
    BY <1>1, <2>1
<1> HIDE DEF g
<1> DEFINE Good(k) == /\ ReadUpTo(text, Written(text), SentenceStarts(text), g[k], k)
                      /\ Numbered(Finished(g[k]))
<1>9. Good(n)
  <2> DEFINE S == {k \in 0..n : Good(k)}
  <2>1. 0 \in S
    BY <1>0, <1>8, ReaderStarts
  <2>2. ASSUME NEW k \in 1..n, k - 1 \in S
        PROVE  k \in S
    <3>1. k \in DOMAIN text /\ Good(k - 1)
      BY <1>1, <2>2
    <3>2. LET q == ReadSentence(text, g[k - 1], k)
          IN /\ ReadUpTo(text, Written(text), SentenceStarts(text), q, k)
             /\ Numbered(Finished(q))
      BY <3>1, ReadSentenceKeeps
    <3> QED
      BY <1>8, <3>2
  <2> HIDE DEF S
  <2>3. 0..n \subseteq S
    BY <2>1, <2>2, UpTo
  <2> QED
    BY <2>3 DEF S
<1>10. /\ Written(text) \intersect (1..n) = Written(text)
       /\ SentenceStarts(text) \intersect (1..n) = SentenceStarts(text)
  BY <1>0, <1>1
<1> QED
  BY <1>1, <1>7, <1>9, <1>10 DEF ReadUpTo

-----------------------------------------------------------------------------
(* What is kept of it.                                                     *)

\* Articles are some of the clauses that are marked, in their order.
LEMMA ArticlesAre ==
  ASSUME NEW text, IsText(text)
  PROVE  LET marked == Segments(text, {"article", "number"})
         IN /\ Articles(text) \in Seq(ClauseOf(text))
            /\ Range(Articles(text)) =
                 {c \in Range(marked) : Length(text, ToSet(c.lines)) >= 4}
            /\ \A j, k \in DOMAIN Articles(text) :
                 j < k => Articles(text)[j].lines[1] < Articles(text)[k].lines[1]
<1> DEFINE marked == Segments(text, {"article", "number"})
           C      == ClauseOf(text)
           long   == {clause \in Range(marked) : Length(text, ToSet(clause.lines)) >= 4}
           R      == {p \in C \X C : p[1].lines[1] < p[2].lines[1]}
<1>1. {"article", "number"} \in SUBSET Marks
  BY DEF Marks
<1>2. marked \in Seq(C) /\ Cut(marked, Body(text), Starts(text, {"article", "number"}))
  BY <1>1, SegmentsRead
<1>3. Articles(text) = Only(marked, long)
  BY DEF Articles
<1> HIDE DEF marked, C
<1>4. \A j, k \in DOMAIN marked : j < k => <<marked[j], marked[k]>> \in R
  <2> SUFFICES ASSUME NEW j \in DOMAIN marked, NEW k \in DOMAIN marked, j < k
               PROVE  <<marked[j], marked[k]>> \in R
    OBVIOUS
  <2>1. marked[j] \in C /\ marked[k] \in C
    BY <1>2
  <2>2. marked[j].lines[1] < marked[k].lines[1]
    BY <1>2 DEF Cut, CutAt
  <2> QED
    BY <2>1, <2>2
<1> HIDE DEF R, long
<1>5. /\ Only(marked, long) \in Seq(C \intersect long)
      /\ Range(Only(marked, long)) = Range(marked) \intersect long
      /\ \A j, k \in DOMAIN Only(marked, long) :
           j < k => <<Only(marked, long)[j], Only(marked, long)[k]>> \in R
  BY <1>2, <1>4, OnlyIs
<1>6. Articles(text) \in Seq(C)
  BY <1>3, <1>5
<1>7. Range(Articles(text)) = long
  BY <1>3, <1>5 DEF long
<1>8. \A j, k \in DOMAIN Articles(text) :
        j < k => Articles(text)[j].lines[1] < Articles(text)[k].lines[1]
  BY <1>3, <1>5 DEF R
<1> QED
  BY <1>6, <1>7, <1>8 DEF long, marked, C

\* The articles stored of any text are all that is long enough of what starts at a mark,
\* or with the text; each is whole and has its number and its chapter
\* (segment_policy_text).
LEMMA EveryArticleIsWhole ==
  ASSUME NEW text, IsText(text)
  PROVE  ArticlesReadWell(text)
<1> DEFINE two    == {"article", "number"}
           starts == Starts(text, two)
           marked == Segments(text, two)
           whole  == Articles(text)
           size(h) == Length(text, Under(Body(text), starts, h))
           kept   == {h \in starts : size(h) >= 4}
<1>1. /\ Cut(marked, Body(text), starts)
      /\ WellLocated(text, two, marked)
  <2>1. two \in SUBSET Marks
    BY DEF Marks
  <2> QED
    BY <2>1, SegmentsRead
<1>2. /\ Range(whole) = {c \in Range(marked) : Length(text, ToSet(c.lines)) >= 4}
      /\ \A j, k \in DOMAIN whole : j < k => whole[j].lines[1] < whole[k].lines[1]
  BY ArticlesAre
<1> HIDE DEF marked, whole, starts, two
<1>3. ASSUME NEW c \in Range(marked)
      PROVE  /\ Increasing(c.lines)
             /\ ToSet(c.lines) = Under(Body(text), starts, c.lines[1])
             /\ c.lines[1] \in starts
             /\ Located(text, two, c)
  <2>1. PICK k \in DOMAIN marked : c = marked[k]
    BY DEF Range
  <2> QED
    BY <1>1, <2>1 DEF Cut, CutAt, WellLocated
<1>4. \A c \in Range(marked) : c \in Range(whole) <=> size(c.lines[1]) >= 4
  BY <1>2, <1>3
<1>5. \A k \in DOMAIN whole : whole[k] \in Range(whole) /\ whole[k] \in Range(marked)
  BY <1>2 DEF Range
<1>6. {whole[k].lines[1] : k \in DOMAIN whole} = kept
  <2>1. ASSUME NEW k \in DOMAIN whole
        PROVE  whole[k].lines[1] \in kept
    BY <1>3, <1>4, <1>5
  <2>2. ASSUME NEW h \in kept
        PROVE  \E k \in DOMAIN whole : whole[k].lines[1] = h
    <3>1. PICK j \in DOMAIN marked : marked[j].lines[1] = h
      <4>1. {marked[j].lines[1] : j \in DOMAIN marked} = starts
        BY <1>1 DEF Cut, CutAt
      <4> QED
        BY <4>1
    <3>2. marked[j] \in Range(marked)
      BY DEF Range
    <3>3. marked[j] \in Range(whole)
      BY <1>4, <3>1, <3>2
    <3> QED
      BY <3>1, <3>3 DEF Range
  <2> HIDE DEF kept
  <2> QED
    BY <2>1, <2>2
<1> HIDE DEF kept
<1>7. CutAt(whole, Body(text), starts, kept)
  BY <1>2, <1>3, <1>5, <1>6 DEF CutAt
<1>8. WellLocated(text, two, whole)
  BY <1>3, <1>5 DEF WellLocated
<1> QED
  BY <1>7, <1>8 DEF ArticlesReadWell, whole, kept, starts, two

\* So are the clauses that rules are made of, or else the sentences (segment_clauses).
LEMMA EveryClauseIsWhole ==
  ASSUME NEW text, IsText(text)
  PROVE  ClausesReadWell(text)
<1> DEFINE starts   == Starts(text, Marks)
           clauses  == Segments(text, Marks)
           named(t) == t \in {"article", "paragraph"}
           many     == \E i \in starts : (\E j \in starts : i # j) \/ named(text[i].kind)
<1>1. /\ Cut(clauses, Body(text), starts)
      /\ WellLocated(text, Marks, clauses)
      /\ clauses \in Seq(ClauseOf(text))
  <2>1. Marks \in SUBSET Marks
    OBVIOUS
  <2> QED
    BY <2>1, SegmentsRead
<1>2. /\ Cut(Sentences(text), Written(text), SentenceStarts(text))
      /\ Numbered(Sentences(text))
  BY SentencesRead
<1>3. Clauses(text) = IF /\ Len(clauses) <= 1
                         /\ \A i \in DOMAIN clauses : ~named(clauses[i].locator[1])
                      THEN Sentences(text) ELSE clauses
  BY DEF Clauses, Marks
<1>4. starts \subseteq Nat
  <2>1. starts \subseteq DOMAIN text
    BY DEF Starts, Body
  <2> QED
    BY <2>1 DEF IsText
<1> HIDE DEF starts, clauses
<1>5. PICK n \in Nat : n = Len(clauses) /\ DOMAIN clauses = 1..n
  BY <1>1
<1>6. /\ starts = {clauses[k].lines[1] : k \in 1..n}
      /\ \A j, k \in 1..n : j < k => clauses[j].lines[1] < clauses[k].lines[1]
  BY <1>1, <1>5 DEF Cut, CutAt
<1>7. \A k \in 1..n : clauses[k].lines[1] \in starts /\ clauses[k].lines[1] \in Nat
  BY <1>4, <1>6
<1>8. \A k \in 1..n : named(clauses[k].locator[1]) <=> named(text[clauses[k].lines[1]].kind)
  <2> SUFFICES ASSUME NEW k \in 1..n
               PROVE  named(clauses[k].locator[1]) <=> named(text[clauses[k].lines[1]].kind)
    OBVIOUS
  <2> DEFINE start == clauses[k].lines[1]
  <2>1. clauses[k].locator = IF text[start].kind \in Marks
                             THEN <<text[start].kind, text[start].mark>>
                             ELSE <<"line", start>>
    BY <1>1, <1>5 DEF WellLocated, Located
  <2>2. CASE text[start].kind \in Marks
    BY <2>1, <2>2
  <2>3. CASE text[start].kind \notin Marks
    <3>1. clauses[k].locator[1] = "line"
      BY <2>1, <2>3
    <3>2. ~named(text[start].kind)
      BY <2>3 DEF Marks
    <3> QED
      BY <3>1, <3>2
  <2> QED
    BY <2>2, <2>3
<1>9. (\E i, j \in starts : i # j) <=> n > 1
  <2>1. CASE n > 1
    <3>1. 1 \in 1..n /\ 2 \in 1..n
      BY <2>1
    <3>2. clauses[1].lines[1] # clauses[2].lines[1]
      BY <1>6, <1>7, <3>1
    <3> QED
      BY <1>7, <2>1, <3>1, <3>2
  <2>2. CASE ~(n > 1)
    <3>1. \A j, k \in 1..n : j = k
      BY <2>2
    <3> QED
      BY <1>6, <2>2, <3>1
  <2> QED
    BY <2>1, <2>2
<1>10. (\E i \in starts : named(text[i].kind))
         <=> \E k \in 1..n : named(clauses[k].locator[1])
  BY <1>6, <1>8
<1>11. Clauses(text) = IF many THEN clauses ELSE Sentences(text)
  <2>1. many <=> ~(Len(clauses) <= 1 /\ \A i \in DOMAIN clauses : ~named(clauses[i].locator[1]))
    BY <1>5, <1>9, <1>10
  <2> HIDE DEF many, named
  <2> QED
    BY <1>3, <2>1
<1>12. CASE many
  <2>1. /\ CutAt(Clauses(text), Body(text), starts, starts)
        /\ WellLocated(text, Marks, Clauses(text))
    BY <1>1, <1>11, <1>12 DEF Cut
  <2> QED
    BY <1>12, <2>1 DEF ClausesReadWell, starts, Marks
<1>13. CASE ~many
  <2>1. /\ CutAt(Clauses(text), Written(text), SentenceStarts(text), SentenceStarts(text))
        /\ \A k \in DOMAIN Clauses(text) : Clauses(text)[k].locator = <<"sentence", k>>
    BY <1>2, <1>11, <1>13 DEF Cut, Numbered
  <2> QED
    BY <1>13, <2>1 DEF ClausesReadWell, starts, Marks
<1> QED
  BY <1>12, <1>13

\* Both readers: what is stored of any text is all that it should be, and nothing is
\* lost, repeated, reordered, or located anywhere else (segment_policy_text,
\* segment_clauses).
THEOREM EveryTextIsReadWell ==
  ASSUME NEW text, IsText(text)
  PROVE  ReadsWell(text)
BY EveryArticleIsWhole, EveryClauseIsWhole DEF ReadsWell

\* What is stored of a document are its articles of four characters or more, all of them,
\* each whole and under its number and chapter (segment_policy_text), for any documents
\* whatever their texts.
THEOREM ArticlesAreStoredWhole == Spec => []ArticlesAreWhole
<1>1. Init => DocsSound
  BY KnowledgeAssumption DEF Init, DocsSound, DocSound, DocReqSound, DocumentStatuses, Idle
<1>2. DocsSound => ArticlesAreWhole
  <2> SUFFICES ASSUME DocsSound, NEW d \in segmented
               PROVE  d \in Documents /\ ArticlesReadWell(Text[d])
    BY DEF ArticlesAreWhole, ReadWell
  <2>1. d \in Documents
    BY DEF DocsSound
  <2>2. IsText(Text[d])
    BY <2>1, KnowledgeAssumption
  <2> QED
    BY <2>1, <2>2, EveryArticleIsWhole
<1> QED
  BY <1>1, <1>2, DocsStep, PTL DEF Spec

-----------------------------------------------------------------------------
(* Where norms come from.                                                  *)

Ops == {"idle", "upload", "segment", "resume", "extract", "patch", "pack", "release"}

\* A stored article says t.
Quoted(t) == \E d \in segmented : \E a \in Range(Contents[d]) : a.text = t

ReqKnown(r) ==
  /\ r.op \in Ops
  /\ r.op = "extract" => \A t \in Range(r.texts) : Quoted(t)

Known ==
  /\ patches \in 0..MaxPatches
  /\ \A t \in Texts : items[Norm(t)] # None => Quoted(t)
  /\ \A s \in Sessions : ReqKnown(req[s])

LEMMA CandidatesQuoted ==
  ASSUME NEW d \in Documents
  PROVE  \A t \in Range(Candidates(d)) : Quoted(t)
<1>1. CASE d \notin segmented
  BY <1>1 DEF Candidates, Range
<1>2. CASE d \in segmented
  <2> DEFINE T     == {a.text : a \in Range(Contents[d])}
             texts == [i \in DOMAIN Contents[d] |-> Contents[d][i].text]
             new   == {t \in Normative : items[Norm(t)] = None}
  <2>1. PICK n \in Nat : DOMAIN Contents[d] = 1..n
    <3>1. IsText(Text[d])
      BY KnowledgeAssumption
    <3>2. Articles(Text[d]) \in Seq(ClauseOf(Text[d]))
      BY <3>1, ArticlesAre
    <3>3. DOMAIN Contents[d] = DOMAIN Articles(Text[d])
      BY DEF Contents
    <3> QED
      BY <3>2, <3>3
  <2>2. texts \in Seq(T)
    <3>1. \A i \in 1..n : Contents[d][i].text \in T
      BY <2>1 DEF Range
    <3> HIDE DEF T
    <3> QED
      BY <2>1, <3>1
  <2>3. Candidates(d) = Only(texts, new)
    BY <1>2 DEF Candidates
  <2> HIDE DEF T, texts, new
  <2>4. Candidates(d) \in Seq(T \intersect new)
    <3>1. \A j, k \in DOMAIN texts : <<texts[j], texts[k]>> \in T \X T
      BY <2>2
    <3>2. Only(texts, new) \in Seq(T \intersect new)
      BY <2>2, <3>1, OnlyIs
    <3> QED
      BY <2>3, <3>2
  <2>5. Range(Candidates(d)) \subseteq T
    BY <2>4 DEF Range
  <2> QED
    BY <1>2, <2>5 DEF T, Quoted
<1> QED
  BY <1>1, <1>2

\* No norm is added, and the sessions that go on know where theirs come from.
LEMMA KnownKept ==
  ASSUME Known, segmented \subseteq segmented', patches' \in 0..MaxPatches,
         \A t \in Texts : items'[Norm(t)] # None => items[Norm(t)] # None \/ Quoted(t),
         \A o \in Sessions : req'[o] = req[o] \/ ReqKnown(req'[o])
  PROVE  Known'
<1>1. \A t : Quoted(t) => Quoted(t)'
  BY DEF Quoted
<1>2. \A o \in Sessions : ReqKnown(req'[o])
  BY DEF Known
<1>3. \A o \in Sessions : ReqKnown(req[o])'
  BY <1>1, <1>2 DEF ReqKnown
<1> QED
  BY <1>1, <1>3 DEF Known

LEMMA NormItems == \A t \in Texts : Norm(t) \in Items /\ Norm(t)[2] = t
BY DEF Norm, Items

LEMMA RequestsKnown ==
  ASSUME Sound, DocsSound, Known, NEW s \in Sessions,
         DocumentRequests(s) \/ UpdateNorm(s) \/ UpdateCheck(s) \/ PackRequests(s)
  PROVE  Known'
<1>1. ASSUME NEW r, req' = [req EXCEPT ![s] = r], ReqKnown(r),
             UNCHANGED <<segmented, items>>, patches' \in 0..MaxPatches
      PROVE  Known'
  BY <1>1, KnownKept DEF Sound
<1>2. patches \in 0..MaxPatches
  BY DEF Known
<1>3. CASE DocumentRequests(s)
  <2>1. PICK d \in Documents :
          \/ \E stripped \in BOOLEAN : BeginUpload(s, d, stripped)
          \/ \E extract \in BOOLEAN : BeginSegment(s, d, extract)
          \/ BeginExtract(s, d)
    BY <1>3 DEF DocumentRequests
  <2>2. CASE \E stripped \in BOOLEAN : BeginUpload(s, d, stripped)
    <3> DEFINE r == [op |-> "upload", doc |-> d]
    <3>1. ReqKnown(r)
      BY DEF ReqKnown, Ops
    <3> QED
      BY <1>1, <1>2, <2>2, <3>1 DEF BeginUpload, Begin
  <2>3. CASE \E extract \in BOOLEAN : BeginSegment(s, d, extract)
    <3>1. PICK extract \in BOOLEAN : BeginSegment(s, d, extract)
      BY <2>3
    <3> DEFINE r == [op |-> "segment", doc |-> d, extract |-> extract]
    <3>2. ReqKnown(r)
      BY DEF ReqKnown, Ops
    <3> QED
      BY <1>1, <1>2, <3>1, <3>2 DEF BeginSegment, Begin
  <2>4. CASE BeginExtract(s, d)
    <3> DEFINE r == [op |-> "extract", doc |-> d, texts |-> Candidates(d)]
    <3>1. ReqKnown(r)
      BY CandidatesQuoted DEF ReqKnown, Ops
    <3>2. req' = [req EXCEPT ![s] = r] /\ UNCHANGED <<segmented, items, patches>>
      BY <2>4 DEF BeginExtract
    <3> HIDE DEF r
    <3> QED
      BY <1>1, <1>2, <3>1, <3>2
  <2> QED
    BY <2>1, <2>2, <2>3, <2>4
<1>4. CASE UpdateNorm(s) \/ UpdateCheck(s)
  <2>1. PICK r : /\ req' = [req EXCEPT ![s] = r] /\ r.op = "patch"
                 /\ UNCHANGED <<segmented, items>>
                 /\ patches < MaxPatches /\ patches' = patches + 1
    BY <1>4 DEF UpdateNorm, UpdateCheck, BeginPatch, Begin
  <2>2. patches' \in 0..MaxPatches
    BY <1>2, <2>1, KnowledgeAssumption
  <2> QED
    BY <1>1, <2>1, <2>2 DEF ReqKnown, Ops
<1>5. CASE PackRequests(s)
  <2>1. PICK r : /\ req' = [req EXCEPT ![s] = r] /\ r.op \in {"pack", "release"}
                 /\ UNCHANGED <<segmented, items, patches>>
    BY <1>5 DEF PackRequests, BeginPack, BeginRelease, Begin
  <2> QED
    BY <1>1, <1>2, <2>1 DEF ReqKnown, Ops
<1> QED
  BY <1>3, <1>4, <1>5

LEMMA AnswersKnown ==
  ASSUME Sound, DocsSound, Known, NEW s \in Sessions,
         \/ FinishUpload(s) \/ FinishSegment(s) \/ FinishExtract(s) \/ FinishPatch(s)
         \/ FinishPack(s) \/ FinishRelease(s) \/ Refuse(s)
  PROVE  Known'
<1>1. ReqKnown(Idle)
  BY DEF ReqKnown, Idle, Ops
<1>2. ASSUME req' = [req EXCEPT ![s] = Idle]
      PROVE  \A o \in Sessions : req'[o] = req[o] \/ ReqKnown(req'[o])
  BY <1>1, <1>2 DEF Sound
<1>3. patches \in 0..MaxPatches
  BY DEF Known
<1>4. CASE FinishUpload(s) \/ FinishPack(s) \/ Refuse(s)
  BY <1>2, <1>3, <1>4, KnownKept DEF FinishUpload, FinishPack, Refuse, Refused, Answer
<1>5. CASE FinishSegment(s)
  <2>1. PICK r \in {[op |-> "resume", doc |-> req[s].doc], Idle} :
          /\ req' = [req EXCEPT ![s] = r]
          /\ segmented \subseteq segmented' /\ UNCHANGED <<items, patches>>
    BY <1>5 DEF FinishSegment
  <2>2. ReqKnown(r)
    BY <1>1, <2>1 DEF ReqKnown, Ops
  <2>3. \A o \in Sessions : req'[o] = req[o] \/ ReqKnown(req'[o])
    BY <2>1, <2>2 DEF Sound
  <2> QED
    BY <1>3, <2>1, <2>3, KnownKept
<1>6. CASE FinishExtract(s)
  <2>1. /\ req[s].op = "extract" /\ items' = Added(Range(req[s].texts))
        /\ req' = [req EXCEPT ![s] = Idle] /\ UNCHANGED <<segmented, patches>>
    BY <1>6 DEF FinishExtract, Answer
  <2>2. \A t \in Range(req[s].texts) : Quoted(t)
    BY <2>1 DEF Known, ReqKnown
  <2>3. \A t \in Texts : items'[Norm(t)] # None => items[Norm(t)] # None \/ Quoted(t)
    BY <2>1, <2>2, NormItems DEF Added
  <2> QED
    BY <1>2, <1>3, <2>1, <2>3, KnownKept
<1>7. CASE FinishPatch(s)
  <2>1. PICK i, row : /\ i \in Items /\ items[i] # None
                      /\ items' = [items EXCEPT ![i] = row]
                      /\ req' = [req EXCEPT ![s] = Idle] /\ UNCHANGED <<segmented, patches>>
    BY <1>7 DEF FinishPatch, Answer, Sound, ReqSound
  <2>2. \A t \in Texts : items'[Norm(t)] # None => items[Norm(t)] # None
    BY <2>1, NormItems DEF Sound, RowsSound
  <2> QED
    BY <1>2, <1>3, <2>1, <2>2, KnownKept
<1>8. CASE FinishRelease(s)
  <2>1. PICK p, seen : /\ p \in Packs /\ packs[p] # None /\ DOMAIN seen = ItemsOf(p)
                       /\ items' = Stamped(seen)
                       /\ req' = [req EXCEPT ![s] = Idle] /\ UNCHANGED <<segmented, patches>>
    BY <1>8 DEF FinishRelease, Answer, Sound, ReqSound
  <2>2. \A i \in ItemsOf(p) : items[i] # None
    BY <2>1 DEF Sound, PackSound
  <2>3. \A t \in Texts : items'[Norm(t)] # None => items[Norm(t)] # None
    BY <2>1, <2>2, NormItems DEF Stamped
  <2> QED
    BY <1>2, <1>3, <2>1, <2>3, KnownKept
<1> QED
  BY <1>4, <1>5, <1>6, <1>7, <1>8

LEMMA StepKnown == Sound /\ DocsSound /\ Known /\ [Next]_vars => Known'
<1> SUFFICES ASSUME Sound, DocsSound, Known, [Next]_vars
             PROVE  Known'
  OBVIOUS
<1>1. CASE UNCHANGED vars
  BY <1>1, KnownKept DEF vars, Known
<1>2. ASSUME NEW p \in Packs, RunReview(p)
      PROVE  Known'
  BY <1>2, KnownKept DEF RunReview, Known
<1> QED
  BY <1>1, <1>2, RequestsKnown, AnswersKnown DEF Next

DocsTyped == docs \in [Documents -> DocumentStatuses]

LEMMA StepDocuments == DocsSound' /\ DocsTyped /\ [Next]_vars => DocsTyped'
<1> SUFFICES ASSUME DocsSound', docs \in [Documents -> DocumentStatuses], [Next]_vars
             PROVE  docs' \in [Documents -> DocumentStatuses]
  BY DEF DocsTyped, DocumentStatuses
<1>1. docs' = docs \/ \E d, status : docs' = [docs EXCEPT ![d] = status]
  <2>1. ASSUME NEW s \in Sessions, DocumentRequests(s) \/ PackRequests(s)
        PROVE  docs' = docs
    BY <2>1 DEF DocumentRequests, BeginUpload, BeginSegment, BeginExtract,
                PackRequests, BeginPack, BeginRelease
  <2>2. ASSUME NEW s \in Sessions, UpdateNorm(s) \/ UpdateCheck(s)
        PROVE  docs' = docs
    BY <2>2 DEF UpdateNorm, UpdateCheck, BeginPatch
  <2>3. ASSUME NEW s \in Sessions, FinishPatch(s) \/ FinishPack(s) \/ FinishRelease(s) \/ Refuse(s)
        PROVE  docs' = docs
    BY <2>3 DEF FinishPatch, FinishPack, FinishRelease, Refuse, Refused
  <2>4. ASSUME NEW s \in Sessions, FinishUpload(s) \/ FinishSegment(s) \/ FinishExtract(s)
        PROVE  docs' = docs \/ \E d, status : docs' = [docs EXCEPT ![d] = status]
    BY <2>4 DEF FinishUpload, FinishSegment, FinishExtract
  <2>5. ASSUME NEW p \in Packs, RunReview(p)
        PROVE  docs' = docs
    BY <2>5 DEF RunReview
  <2> QED
    BY <2>1, <2>2, <2>3, <2>4, <2>5 DEF Next, vars
<1>2. docs' = [d \in Documents |-> docs'[d]]
  BY <1>1
<1>3. \A d \in Documents : docs'[d] \in DocumentStatuses
  BY DEF DocsSound, DocSound
<1> QED
  BY <1>2, <1>3

\* What is stored is what the code takes it for; above all, a norm and its check are
\* stored together, and only once an article that says so is stored (extract_norms),
\* whatever segmentations and extractions overlap.
THEOREM TypeCorrect == Spec => []TypeOK
<1>1. Init => DocsSound
  BY KnowledgeAssumption DEF Init, DocsSound, DocSound, DocReqSound, DocumentStatuses, Idle
<1>2. Init => Known
  <2>1. \A t \in Texts : Norm(t) \in Items
    BY NormItems
  <2> QED
    BY <2>1, KnowledgeAssumption DEF Init, Known, ReqKnown, Ops, Idle
<1>3. DocsSound /\ [Next]_vars => DocsSound'
  BY DocsStep
<1>4. Init => DocsTyped
  BY DEF Init, DocsTyped, DocumentStatuses
<1>5. Sound /\ DocsSound /\ Known /\ DocsTyped => TypeOK
  BY DEF TypeOK, DocsTyped, Sound, RowsSound, DocsSound, DocumentStatuses, Known, ReqKnown, Ops, Quoted
<1> QED
  BY <1>1, <1>2, <1>3, <1>4, <1>5, StepKnown, StepDocuments, SpecSound, PTL DEF Spec
=============================================================================
