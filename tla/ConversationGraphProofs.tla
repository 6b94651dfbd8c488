----------------------- MODULE ConversationGraphProofs -----------------------
(***************************************************************************)
(* Proofs about ConversationGraph and the ledger it advances (TaskPlan):   *)
(* what holds for every set of agents, tools and requests and for every    *)
(* limit on turns, repairs and calls.                                      *)
(***************************************************************************)
EXTENDS ConversationGraph, TLAPS, WellFoundedInduction, NaturalsInduction, SequenceTheorems

-----------------------------------------------------------------------------
(* The ledger.                                                             *)

\* Plans in which every node of the graph finds its current step open.
SoundPlan == {p \in Plan : p.steps # <<>> /\ CurrentOpen(p)}

\* A set of naturals that has a member has a least one.
LEMMA LeastNumber ==
  ASSUME NEW S \in SUBSET Nat, S # {}
  PROVE  \E n \in S : \A m \in S : n <= m
<1> DEFINE R == OpToRel(<, Nat)
<1>1. IsWellFoundedOn(R, Nat)
  BY NatLessThanWellFounded
<1>2. \A m, n \in Nat : m < n => <<m, n>> \in R
  BY DEF OpToRel
<1> HIDE DEF R
<1>3. PICK n \in S : \A m \in S : ~(<<m, n>> \in R)
  BY <1>1, WFMin
<1>4. ASSUME NEW m \in S
      PROVE  n <= m
  <2>1. m \in Nat /\ n \in Nat
    OBVIOUS
  <2>2. ~(m < n)
    BY <1>2, <1>3, <2>1, Zenon
  <2> QED
    BY <2>1, <2>2
<1> QED
  BY <1>4

\* First is a member of its set, and 0 when there is none.
LEMMA FirstIs ==
  ASSUME NEW n \in Nat, NEW S \in SUBSET (1..n)
  PROVE  First(S) \in 0..n /\ (First(S) # 0 => First(S) \in S)
<1>1. CASE S = {}
  BY <1>1 DEF First
<1>2. CASE S # {}
  <2>1. \E i \in S : \A j \in S : i <= j
    BY <1>2, LeastNumber
  <2>2. First(S) \in S
    BY <1>2, <2>1 DEF First
  <2>3. \A i \in S : i \in 0..n
    OBVIOUS
  <2> QED
    BY <2>2, <2>3
<1> QED
  BY <1>1, <1>2

\* FirstSome of naturals one of which is not 0 is one of them, and not 0.
LEMMA FirstSomeIs ==
  ASSUME NEW s \in Seq(Nat), NEW k \in DOMAIN s, s[k] # 0
  PROVE  \E i \in DOMAIN s : s[i] # 0 /\ FirstSome(s) = s[i]
<1> DEFINE S == {i \in DOMAIN s : s[i] # 0}
<1>1. k \in S /\ S \in SUBSET (1..Len(s)) /\ Len(s) \in Nat
  OBVIOUS
<1>2. S # {} /\ S \in SUBSET Nat
  BY <1>1
<1>3. \E i \in S : \A j \in S : i <= j
  BY <1>2, LeastNumber
<1>4. First(S) \in S
  BY <1>2, <1>3 DEF First
<1> QED
  BY <1>4 DEF FirstSome

\* The fields of a plan.
LEMMA PlanFields ==
  ASSUME NEW p \in Plan
  PROVE  /\ p.steps \in Seq(Step) /\ Len(p.steps) \in Nat /\ DOMAIN p.steps = 1..Len(p.steps)
         /\ p.current \in 0..Len(p.steps) /\ p.status \in PlanStatus
         /\ \A i \in 1..Len(p.steps) : p.steps[i] \in Step
  BY DEF Plan

\* The step an event is about is one of the plan.
LEMMA ResolvedInPlan ==
  ASSUME NEW p \in SoundPlan, NEW e, e.step \in 0..Len(p.steps)
  PROVE  ResolveStep(p, e) \in 1..Len(p.steps)
<1> DEFINE n        == Len(p.steps)
           owned(o) == First({i \in OpenSteps(p.steps) : p.steps[i].owner = o})
           named    == First({i \in DOMAIN p.steps : e.tool \in p.steps[i].tools})
           chosen   == CASE e.type \in ToolEvents ->
                              IF named # 0 THEN named ELSE owned("tool")
                         [] e.type \in DelegateEvents -> owned("expert")
                         [] OTHER -> 0
           s        == <<e.step, chosen, p.current, 1>>
<1>1. n \in Nat /\ n >= 1 /\ DOMAIN p.steps = 1..n /\ p.current \in 0..n
  <2>1. p \in Plan /\ p.steps # <<>>
    BY DEF SoundPlan
  <2> QED
    BY <2>1, PlanFields
<1>2. \A o : owned(o) \in 0..n
  <2> SUFFICES ASSUME NEW o PROVE owned(o) \in 0..n
    OBVIOUS
  <2>1. {i \in OpenSteps(p.steps) : p.steps[i].owner = o} \in SUBSET (1..n)
    BY <1>1 DEF OpenSteps
  <2> QED
    BY <1>1, <2>1, FirstIs
<1>3. named \in 0..n
  BY <1>1, FirstIs
<1>4. chosen \in 0..n
  <2> HIDE DEF owned, named
  <2>1. 0 \in 0..n
    BY <1>1
  <2> QED
    BY <1>2, <1>3, <2>1, Zenon
<1> HIDE DEF chosen
<1>5. s \in Seq(Nat) /\ DOMAIN s = 1..4 /\ s[4] # 0
  BY <1>1, <1>4
<1>6. \A i \in 1..4 : s[i] \in 0..n
  BY <1>1, <1>4
<1>7. PICK i \in 1..4 : s[i] # 0 /\ FirstSome(s) = s[i]
  <2> HIDE DEF s
  <2>1. 4 \in DOMAIN s
    BY <1>5
  <2> QED
    BY <1>5, <2>1, FirstSomeIs
<1>8. FirstSome(s) \in 1..n
  <2> HIDE DEF s
  <2> QED
    BY <1>1, <1>6, <1>7
<1>9. ResolveStep(p, e) = FirstSome(s)
  BY Zenon DEF ResolveStep, chosen
<1> QED
  BY <1>8, <1>9

\* Every event sets a status that a step can have.
LEMMA EventStatusIs ==
  ASSUME NEW t \in DOMAIN EventStatus
  PROVE  EventStatus[t] \in {"in_progress", "completed", "blocked", "failed"}
BY DEF EventStatus

\* A step that is given another status makes another plan.
LEMMA Marked ==
  ASSUME NEW p \in Plan, NEW i \in 1..Len(p.steps), NEW st \in StepStatus
  PROVE  /\ [p.steps EXCEPT ![i].status = st] \in Seq(Step)
         /\ Len([p.steps EXCEPT ![i].status = st]) = Len(p.steps)
         /\ [p.steps EXCEPT ![i].status = st][i].status = st
<1> DEFINE s == [p.steps EXCEPT ![i].status = st]
<1>1. p.steps \in Seq(Step) /\ DOMAIN p.steps = 1..Len(p.steps) /\ Len(p.steps) \in Nat
  BY PlanFields
<1>2. p.steps[i] \in Step
  BY <1>1
<1>3. [p.steps[i] EXCEPT !.status = st] \in Step
  BY <1>2 DEF Step
<1>4. s = [p.steps EXCEPT ![i] = [p.steps[i] EXCEPT !.status = st]]
  BY <1>1
<1>5. s \in Seq(Step) /\ Len(s) = Len(p.steps)
  BY <1>1, <1>3, <1>4
<1>6. s[i].status = st
  BY <1>1, <1>2, <1>4 DEF Step
<1> QED
  BY <1>5, <1>6

\* Moving on from a step leaves a plan whose current step is open.
LEMMA MoveOnSound ==
  ASSUME NEW p \in Plan, p.steps # <<>>, NEW i \in 1..Len(p.steps)
  PROVE  MoveOn(p, i) \in SoundPlan /\ Len(MoveOn(p, i).steps) = Len(p.steps)
<1> DEFINE n == First({j \in OpenSteps(p.steps) : j > i})
<1>1. p.steps \in Seq(Step) /\ DOMAIN p.steps = 1..Len(p.steps) /\ Len(p.steps) \in Nat
  BY PlanFields
<1>2. n \in 0..Len(p.steps)
  <2>1. {j \in OpenSteps(p.steps) : j > i} \in SUBSET (1..Len(p.steps))
    BY <1>1 DEF OpenSteps
  <2> QED
    BY <1>1, <2>1, FirstIs
<1>3. MoveOn(p, i) = [steps   |-> IF n = 0 THEN p.steps
                                  ELSE [p.steps EXCEPT ![n].status = "in_progress"],
                      current |-> n,
                      status  |-> IF n = 0 THEN "completed" ELSE "running"]
  BY Zenon DEF MoveOn
<1> HIDE DEF n
<1>4. CASE n = 0
  BY <1>1, <1>2, <1>3, <1>4 DEF SoundPlan, Plan, PlanStatus, CurrentOpen
<1>5. CASE n # 0
  <2> DEFINE s == [p.steps EXCEPT ![n].status = "in_progress"]
  <2>1. n \in 1..Len(p.steps)
    BY <1>1, <1>2, <1>5
  <2>2. "in_progress" \in StepStatus /\ "in_progress" \notin Terminal
    BY DEF StepStatus, Terminal
  <2>3. s \in Seq(Step) /\ Len(s) = Len(p.steps) /\ s[n].status = "in_progress"
    BY <2>1, <2>2, Marked
  <2>4. MoveOn(p, i) = [steps |-> s, current |-> n, status |-> "running"]
    BY <1>3, <1>5
  <2>5. s # <<>>
    BY <1>1, <2>1, <2>3
  <2> HIDE DEF s
  <2> QED
    BY <2>1, <2>2, <2>3, <2>4, <2>5 DEF SoundPlan, Plan, PlanStatus, CurrentOpen
<1> QED
  BY <1>4, <1>5

\* Whatever event a node reports, the ledger's current step is open after it.
LEMMA AdvanceSound ==
  ASSUME NEW p \in SoundPlan, NEW e, e.type \in DOMAIN EventStatus, e.step \in 0..Len(p.steps)
  PROVE  Advance(p, e) \in SoundPlan /\ Len(Advance(p, e).steps) = Len(p.steps)
<1> DEFINE i      == ResolveStep(p, e)
           st     == EventStatus[e.type]
           s      == [p.steps EXCEPT ![i].status = st]
           marked == [p EXCEPT !.steps[i].status = st]
<1>1. p \in Plan /\ p.steps # <<>> /\ i \in 1..Len(p.steps)
  BY ResolvedInPlan DEF SoundPlan
<1>2. st \in StepStatus /\ (st = "in_progress" => st \notin Terminal)
  <2>1. st \in {"in_progress", "completed", "blocked", "failed"}
    BY EventStatusIs
  <2> QED
    BY <2>1 DEF StepStatus, Terminal
<1>3. Advance(p, e) = IF st = "in_progress"
                      THEN [marked EXCEPT !.current = i, !.status = "running"]
                      ELSE MoveOn(marked, i)
  BY Zenon DEF Advance
<1> HIDE DEF i, st
<1>4. s \in Seq(Step) /\ Len(s) = Len(p.steps) /\ s[i].status = st
  BY <1>1, <1>2, Marked
<1>5. marked = [steps |-> s, current |-> p.current, status |-> p.status]
  <2>1. p = [steps |-> p.steps, current |-> p.current, status |-> p.status]
    BY <1>1 DEF Plan
  <2>2. marked = [p EXCEPT !.steps = s]
    OBVIOUS
  <2> HIDE DEF s, marked
  <2> QED
    BY <2>1, <2>2
<1>6. s # <<>> /\ Len(p.steps) \in Nat
  BY <1>1, <1>4, PlanFields
<1>7. CASE st = "in_progress"
  <2>1. Advance(p, e) = [steps |-> s, current |-> i, status |-> "running"]
    <3> HIDE DEF s
    <3> QED
      BY <1>3, <1>5, <1>7
  <2> HIDE DEF s
  <2> QED
    BY <1>1, <1>2, <1>4, <1>6, <1>7, <2>1 DEF SoundPlan, Plan, PlanStatus, CurrentOpen
<1>8. CASE st # "in_progress"
  <2>1. marked \in Plan /\ marked.steps # <<>> /\ Len(marked.steps) = Len(p.steps)
    <3> HIDE DEF s
    <3> QED
      BY <1>1, <1>4, <1>5, <1>6 DEF Plan
  <2> HIDE DEF marked
  <2> QED
    BY <1>1, <1>3, <1>8, <2>1, MoveOnSound
<1> QED
  BY <1>7, <1>8

\* The ledger lets a tool run or not, and names one of its steps or none.
LEMMA ValidatedStep ==
  ASSUME NEW p \in SoundPlan, NEW tool, NEW facts \in BOOLEAN
  PROVE  /\ ValidateTool(p, tool, facts).allowed \in BOOLEAN
         /\ ValidateTool(p, tool, facts).step \in 0..Len(p.steps)
<1> DEFINE n       == Len(p.steps)
           open    == First(OpenSteps(p.steps))
           s       == <<p.current, open, 1>>
           now     == FirstSome(s)
           here    == p.steps[now]
           matched == First({i \in OpenSteps(p.steps) : tool \in p.steps[i].tools})
           asked   == \E i \in DOMAIN p.steps :
                        p.steps[i].tools # {} /\ p.steps[i].status # "completed"
           fits    == tool \in here.tools \/ (here.owner = "tool" /\ here.tools = {})
           needed  == tool = WebSearch /\ facts
<1>1. n \in Nat /\ n >= 1 /\ DOMAIN p.steps = 1..n /\ p.current \in 0..n
  <2>1. p \in Plan /\ p.steps # <<>>
    BY DEF SoundPlan
  <2> QED
    BY <2>1, PlanFields
<1>2. open \in 0..n
  <2>1. OpenSteps(p.steps) \in SUBSET (1..n)
    BY <1>1 DEF OpenSteps
  <2> QED
    BY <1>1, <2>1, FirstIs
<1>3. matched \in 0..n
  <2>1. {i \in OpenSteps(p.steps) : tool \in p.steps[i].tools} \in SUBSET (1..n)
    BY <1>1 DEF OpenSteps
  <2> QED
    BY <1>1, <2>1, FirstIs
<1>4. now \in 0..n
  <2> HIDE DEF open
  <2>1. s \in Seq(Nat) /\ DOMAIN s = 1..3 /\ s[3] # 0
    BY <1>1, <1>2
  <2>2. \A i \in 1..3 : s[i] \in 0..n
    BY <1>1, <1>2
  <2> HIDE DEF s
  <2>3. 3 \in DOMAIN s
    BY <2>1
  <2>4. PICK i \in 1..3 : s[i] # 0 /\ FirstSome(s) = s[i]
    BY <2>1, <2>3, FirstSomeIs
  <2> QED
    BY <2>2, <2>4
<1>5. ValidateTool(p, tool, facts) =
        IF fits THEN ToolDecision(TRUE, now)
        ELSE IF matched # 0 THEN ToolDecision(TRUE, matched)
        ELSE IF needed THEN ToolDecision(TRUE, IF here.owner = "tool" THEN now ELSE 0)
        ELSE ToolDecision(~asked, now)
  BY Zenon DEF ValidateTool
<1>6. asked \in BOOLEAN /\ 0 \in 0..n
  BY <1>1
<1> HIDE DEF n, now, matched, fits, needed, here, asked
<1>7. ValidateTool(p, tool, facts) \in [allowed : BOOLEAN, step : 0..n]
  <2>1. \A b \in BOOLEAN, k \in 0..n : ToolDecision(b, k) \in [allowed : BOOLEAN, step : 0..n]
    BY DEF ToolDecision
  <2> QED
    BY <1>3, <1>4, <1>5, <1>6, <2>1
<1> QED
  BY <1>7 DEF n

\* The ledger's current step is open when the planner makes it.
LEMMA BuildPlanSound ==
  ASSUME NEW kind, NEW available \in SUBSET Tools, NEW swarm
  PROVE  BuildPlan(kind, available, swarm) \in SoundPlan
<1> DEFINE base  == BaseSteps(kind, available)
           steps == IF swarm /\ kind \in {"engineering", "analysis", "workflow"}
                    THEN InsertDelegate(base) ELSE base
<1>1. \A owner \in Owners, tools \in SUBSET Tools :
        NewStep(owner, tools) \in {st \in Step : st.status = "pending"}
  BY DEF NewStep, Step, StepStatus
<1>2. Solo \in {st \in Step : st.status = "pending"}
  BY <1>1 DEF Solo, Owners
<1>3. PICK a, b, c \in {st \in Step : st.status = "pending"} : base = <<a, b, c>>
  <2>1. /\ NewStep("tool", available \intersect {WebSearch}) \in {st \in Step : st.status = "pending"}
        /\ NewStep("tool", available \intersect OntologyTools) \in {st \in Step : st.status = "pending"}
        /\ NewStep("tool", {}) \in {st \in Step : st.status = "pending"}
    BY <1>1 DEF Owners
  <2> QED
    BY <1>2, <2>1, Zenon DEF BaseSteps
<1>4. base \in Seq(Step) /\ Len(base) = 3 /\ base[1].status = "pending" /\ base # <<>>
  BY <1>3
<1>5. /\ InsertDelegate(base) \in Seq(Step) /\ Len(InsertDelegate(base)) = 4
      /\ InsertDelegate(base)[1].status = "pending"
  <2>1. PICK d \in {st \in Step : st.status = "pending"} : d = NewStep("expert", {})
    BY <1>1 DEF Owners
  <2>2. Head(base) = a /\ Tail(base) = <<b, c>>
    BY <1>3
  <2>3. InsertDelegate(base) = <<a, d>> \o <<b, c>>
    BY <2>1, <2>2, Zenon DEF InsertDelegate
  <2>4. /\ <<a, d>> \in Seq(Step) /\ <<b, c>> \in Seq(Step)
        /\ Len(<<a, d>>) = 2 /\ Len(<<b, c>>) = 2 /\ <<a, d>>[1] = a
    OBVIOUS
  <2> DEFINE x == <<a, d>>
             y == <<b, c>>
  <2> HIDE DEF x, y
  <2>5. x \o y \in Seq(Step) /\ Len(x \o y) = 4 /\ (x \o y)[1] = a
    BY <2>4, ConcatProperties DEF x, y
  <2> QED
    BY <2>3, <2>5 DEF x, y
<1> HIDE DEF base
<1>7. steps \in Seq(Step) /\ Len(steps) >= 1 /\ steps[1].status = "pending" /\ steps # <<>>
  <2>1. steps = base \/ steps = InsertDelegate(base)
    OBVIOUS
  <2> HIDE DEF steps
  <2>2. CASE steps = base
    BY <1>4, <2>2
  <2>3. CASE steps = InsertDelegate(base)
    BY <1>5, <2>3
  <2> QED
    BY <2>1, <2>2, <2>3
<1>8. BuildPlan(kind, available, swarm) = [steps |-> steps, current |-> 1, status |-> "planned"]
  BY Zenon DEF BuildPlan, base
<1> HIDE DEF steps
<1> QED
  BY <1>7, <1>8 DEF SoundPlan, Plan, PlanStatus, CurrentOpen, Terminal

\* The evaluator's stamp touches no step.
LEMMA StampSound ==
  ASSUME NEW p \in SoundPlan, NEW v
  PROVE  /\ Stamp(p, v) \in SoundPlan /\ Stamp(p, v).steps = p.steps
         /\ Stamp(p, v).status = (CASE v = "passed"  -> "completed"
                                    [] v = "warning" -> "completed_with_warnings"
                                    [] OTHER         -> "failed")
<1> DEFINE st == CASE v = "passed"  -> "completed"
                   [] v = "warning" -> "completed_with_warnings"
                   [] OTHER         -> "failed"
<1>1. st \in PlanStatus
  BY DEF PlanStatus
<1>2. Stamp(p, v) = [p EXCEPT !.status = st]
  BY Zenon DEF Stamp
<1> HIDE DEF st
<1>3. p \in Plan /\ p.steps # <<>> /\ CurrentOpen(p)
  BY DEF SoundPlan
<1>4. /\ Stamp(p, v) \in Plan /\ Stamp(p, v).steps = p.steps
      /\ Stamp(p, v).current = p.current /\ Stamp(p, v).status = st
  BY <1>1, <1>2, <1>3 DEF Plan
<1> QED
  BY <1>3, <1>4 DEF SoundPlan, CurrentOpen, st

\* A plan reopened for a repair has the reopened step as its current one.
LEMMA ReopenSound ==
  ASSUME NEW p \in SoundPlan, NEW missing
  PROVE  Reopen(p, missing) \in SoundPlan
<1> DEFINE n      == Len(p.steps)
           search == First({i \in DOMAIN p.steps : \/ WebSearch \in p.steps[i].tools
                                                   \/ p.steps[i].owner = "tool"})
           unmet  == First({i \in DOMAIN p.steps : p.steps[i].status # "completed"})
           wanted == IF "web_search_result" \in missing THEN search ELSE 0
           s      == <<wanted, unmet, n>>
           i      == FirstSome(s)
           steps  == [p.steps EXCEPT ![i].status = "pending"]
<1>1. /\ p \in Plan /\ p.steps # <<>>
      /\ n \in Nat /\ n >= 1 /\ DOMAIN p.steps = 1..n /\ p.steps \in Seq(Step)
  <2>1. p \in Plan /\ p.steps # <<>>
    BY DEF SoundPlan
  <2> QED
    BY <2>1, PlanFields
<1>2. wanted \in 0..n /\ unmet \in 0..n
  <2>1. search \in 0..n /\ unmet \in 0..n
    BY <1>1, FirstIs
  <2> HIDE DEF search, unmet
  <2> QED
    BY <1>1, <2>1
<1>3. ReopenStep(p, missing) = i
  BY Zenon DEF ReopenStep
<1> HIDE DEF wanted, unmet
<1>4. i \in 1..n
  <2>1. s \in Seq(Nat) /\ DOMAIN s = 1..3 /\ s[3] # 0
    BY <1>1, <1>2
  <2>2. \A k \in 1..3 : s[k] \in 0..n
    BY <1>1, <1>2
  <2> HIDE DEF s
  <2>3. 3 \in DOMAIN s
    BY <2>1
  <2>4. PICK k \in 1..3 : s[k] # 0 /\ FirstSome(s) = s[k]
    BY <2>1, <2>3, FirstSomeIs
  <2> QED
    BY <1>1, <2>2, <2>4
<1> HIDE DEF i
<1>5. "pending" \in StepStatus /\ "pending" \notin Terminal
  BY DEF StepStatus, Terminal
<1>6. steps \in Seq(Step) /\ Len(steps) = n /\ steps[i].status = "pending"
  BY <1>1, <1>4, <1>5, Marked
<1>7. Reopen(p, missing) = [steps |-> steps, current |-> i, status |-> "repairing"]
  <2>1. p = [steps |-> p.steps, current |-> p.current, status |-> p.status]
    BY <1>1 DEF Plan
  <2>2. Reopen(p, missing)
          = [p EXCEPT !.steps[i].status = "pending", !.current = i, !.status = "repairing"]
    BY <1>3, Zenon DEF Reopen
  <2>3. Reopen(p, missing)
          = [p EXCEPT !.steps = steps, !.current = i, !.status = "repairing"]
    BY <2>2
  <2> HIDE DEF steps
  <2> QED
    BY <2>1, <2>3
<1>8. steps # <<>>
  BY <1>1, <1>6
<1> HIDE DEF steps
<1> QED
  BY <1>1, <1>4, <1>5, <1>6, <1>7, <1>8 DEF SoundPlan, Plan, PlanStatus, CurrentOpen

-----------------------------------------------------------------------------
(* Calls served in order.                                                  *)

\* What a recursion over 0 .. n that starts with base and whose k-th step maps A
\* into itself may compute.
Recursions(n, A, base, step) ==
  {f \in [0..n -> A] : f[0] = base /\ \A k \in 1..n : f[k] = step[k][f[k - 1]]}

\* It computes something.
LEMMA RecursionExists ==
  ASSUME NEW n \in Nat, NEW A, NEW base \in A, NEW step \in [1..n -> [A -> A]]
  PROVE  Recursions(n, A, base, step) # {}
<1> DEFINE Solves(f, m) == /\ f \in [0..m -> A]
                           /\ \A k \in 0..m : f[k] = IF k = 0 THEN base ELSE step[k][f[k - 1]]
           S == {m \in 0..n : ~\E f : Solves(f, m)}
<1>1. \E f : Solves(f, 0)
  <2> DEFINE f == [k \in 0..0 |-> base]
  <2>1. Solves(f, 0)
    OBVIOUS
  <2> QED
    BY <2>1
<1>2. ASSUME NEW m \in 1..n, NEW f, Solves(f, m - 1)
      PROVE  \E g : Solves(g, m)
  <2> DEFINE g == [k \in 0..m |-> IF k = m THEN step[m][f[m - 1]] ELSE f[k]]
  <2>1. m \in Nat /\ m - 1 \in Nat /\ m - 1 \in 0..(m - 1) /\ m # 0
    OBVIOUS
  <2>2. f[m - 1] \in A /\ step[m][f[m - 1]] \in A
    BY <1>2, <2>1
  <2>3. \A k \in 0..m : k # m => k \in 0..(m - 1) /\ (k # 0 => k - 1 \in 0..m /\ k - 1 # m)
    BY <2>1
  <2>4. g \in [0..m -> A]
    BY <1>2, <2>2, <2>3
  <2>5. ASSUME NEW k \in 0..m
        PROVE  g[k] = IF k = 0 THEN base ELSE step[k][g[k - 1]]
    <3>1. CASE k = m
      BY <2>1, <3>1
    <3>2. CASE k # m
      BY <1>2, <2>3, <3>2
    <3> QED
      BY <3>1, <3>2
  <2> HIDE DEF g
  <2>6. Solves(g, m)
    BY <2>4, <2>5
  <2> QED
    BY <2>6
<1>3. S = {}
  <2> SUFFICES ASSUME S # {} PROVE FALSE
    OBVIOUS
  <2>1. S \in SUBSET Nat
    OBVIOUS
  <2>2. PICK m \in S : \A k \in S : m <= k
    BY <2>1, LeastNumber
  <2> HIDE DEF Solves
  <2>3. m \in 1..n /\ m - 1 \in 0..n /\ ~(m <= m - 1)
    BY <1>1
  <2>4. m - 1 \notin S
    BY <2>2, <2>3
  <2>5. \E f : Solves(f, m - 1)
    BY <2>3, <2>4
  <2> QED
    BY <1>2, <2>3, <2>5
<1>4. \E f : Solves(f, n)
  <2> HIDE DEF Solves
  <2>1. n \in 0..n /\ n \notin S
    BY <1>3
  <2> QED
    BY <2>1
<1>5. \A k \in 1..n : k \in 0..n /\ k # 0
  OBVIOUS
<1> QED
  BY <1>4, <1>5 DEF Recursions

\* What holds of the base and is kept by every step holds at the end.
LEMMA RecursionStays ==
  ASSUME NEW n \in Nat, NEW A, NEW f, f[0] \in A,
         \A k \in 1..n : f[k - 1] \in A => f[k] \in A
  PROVE  f[n] \in A
<1> DEFINE S == {k \in 0..n : f[k] \notin A}
<1> SUFFICES ASSUME S # {} PROVE FALSE
  OBVIOUS
<1>1. PICK m \in S : \A k \in S : m <= k
  <2>1. S \in SUBSET Nat
    OBVIOUS
  <2> QED
    BY <2>1, LeastNumber
<1>2. m \in 1..n /\ m - 1 \in 0..n /\ ~(m <= m - 1)
  OBVIOUS
<1>3. f[m - 1] \in A
  BY <1>1, <1>2
<1> QED
  BY <1>2, <1>3

-----------------------------------------------------------------------------
(* What every node of the graph leaves.                                    *)

\* The planner makes the ledger and no node loses it: from the first turn on its
\* current step is open.
LedgerThere ==
  IF node \in {"context", "task_planner"} THEN plan = None
  ELSE plan \in SoundPlan \/ (node = "failed" /\ plan = None)

\* The executor runs after a turn that hands the floor to nobody.
OnlyToolsRun == node = "tool_executor" => \A i \in DOMAIN pending : pending[i].kind = "tool"

\* No application but the root, and an orchestrator root never wrapped:
\* orchestrator_invoke serves nobody (HandleHandoff returns experts only), and
\* synthesize is the only way back from another agent.
RootIsUnwrapped ==
  called \in Seq(ExpertAgents) /\ (cur = Root /\ ~task.expertRoot => wrapping = None)

\* Tags come from an expert: one that was consulted, or the root itself.
TagsAreExperts == content = "tags" => called # <<>> \/ task.expertRoot

\* What every step preserves.
GraphSound ==
  /\ TypeOK
  /\ LedgerThere
  /\ OnlyToolsRun
  /\ RootIsUnwrapped
  /\ TagsAreExperts
  /\ TagsBalanced
  /\ RootHasLastWord
  /\ ConsultedOnce
  /\ SpeakerWasCalled
  /\ EndIsEarned
  /\ SearchIsBound

\* Whom a call names, by its kind.
LEMMA CallTarget ==
  ASSUME NEW c \in Call
  PROVE  /\ c.kind = "tool" => c.target \in Tools
         /\ c.kind = "transfer" => c.target \in Experts \union {Root}
         /\ c.kind = "invoke" => c.target \in SubApps \union {Root}
  BY DEF Call

\* The calls of a turn.
LEMMA CallableCalls ==
  ASSUME NEW calls \in Callable
  PROVE  calls \in Seq(Call) /\ Len(calls) <= MaxCalls
<1>1. MaxCalls \in Nat
  BY LimitsAssumption
<1>2. CASE calls = <<>>
  BY <1>1, <1>2
<1>3. CASE calls \in BoundedSeq(Call, MaxCalls)
  <2>1. PICK m \in 0..MaxCalls : calls \in [1..m -> Call]
    BY <1>3 DEF BoundedSeq, SeqOf
  <2> QED
    BY <1>1, <2>1
<1> QED
  BY <1>2, <1>3 DEF Callable

\* The number of the turn.
LEMMA CountedIs ==
  ASSUME iter \in 0..IterationCap
  PROVE  Counted \in 0..IterationCap
<1>1. IterationCap \in Nat
  BY LimitsAssumption DEF IterationCap
<1>2. CASE iter + 1 <= IterationCap
  BY <1>1, <1>2 DEF Counted, Min
<1>3. CASE iter + 1 > IterationCap
  BY <1>1, <1>3 DEF Counted, Min
<1> QED
  BY <1>1, <1>2, <1>3

LEMMA SoundInit == Init => GraphSound
<1> SUFFICES ASSUME Init PROVE GraphSound
  OBVIOUS
<1>1. IterationCap \in Nat /\ MaxRepairs \in Nat /\ MaxCalls \in Nat
  BY LimitsAssumption DEF IterationCap
<1>2. TypeOK
  BY <1>1 DEF Init, TypeOK, Nodes, Agents
<1>3. /\ LedgerThere /\ OnlyToolsRun /\ RootIsUnwrapped /\ TagsAreExperts
      /\ TagsBalanced /\ RootHasLastWord
  BY DEF Init, LedgerThere, OnlyToolsRun, RootIsUnwrapped, TagsAreExperts, TagsBalanced,
       RootHasLastWord
<1>4. ConsultedOnce /\ SpeakerWasCalled /\ EndIsEarned /\ SearchIsBound
  BY DEF Init, ConsultedOnce, IsInjective, SpeakerWasCalled, EndIsEarned, SearchIsBound
<1> QED
  BY <1>2, <1>3, <1>4 DEF GraphSound

\* The entry: the context changes nothing, the planner makes the ledger.
LEMMA EntrySound ==
  ASSUME GraphSound, Context \/ Planner
  PROVE  GraphSound'
<1> USE DEF GraphSound
<1>1. CASE Context
  BY <1>1 DEF Context, TypeOK, Nodes, LedgerThere, OnlyToolsRun, ExpertAgents,
       RootIsUnwrapped, TagsAreExperts, TagsBalanced, RootHasLastWord, ConsultedOnce,
       SpeakerWasCalled, EndIsEarned,
       SearchIsBound
<1>2. CASE Planner
  <2>1. plan' \in SoundPlan
    <3>1. task.appTools \in SUBSET Tools
      BY TasksAssumption DEF TypeOK, Task
    <3> QED
      BY <1>2, <3>1, BuildPlanSound DEF Planner
  <2>2. plan' \in Plan
    BY <2>1 DEF SoundPlan
  <2>3. TypeOK' /\ LedgerThere'
    BY <1>2, <2>1, <2>2 DEF Planner, TypeOK, Nodes, LedgerThere
  <2> QED
    BY <1>2, <2>3 DEF Planner, OnlyToolsRun, ExpertAgents,
       RootIsUnwrapped, TagsAreExperts, TagsBalanced, RootHasLastWord, ConsultedOnce,
       SpeakerWasCalled, EndIsEarned,
       SearchIsBound
<1> QED
  BY <1>1, <1>2

\* A node that raises changes nothing.
LEMMA CrashSound ==
  ASSUME GraphSound, Crash
  PROVE  GraphSound'
  BY DEF GraphSound, Crash, Running, TypeOK, Nodes, LedgerThere, OnlyToolsRun,
       RootIsUnwrapped, TagsAreExperts, ExpertAgents, TagsBalanced, RootHasLastWord, ConsultedOnce, SpeakerWasCalled,
       EndIsEarned, SearchIsBound

\* An event that names no step keeps the ledger sound.
LEMMA PlainSound ==
  ASSUME NEW p \in SoundPlan, NEW t \in DOMAIN EventStatus
  PROVE  Advance(p, Plain(t)) \in SoundPlan
<1>1. Plain(t).type = t /\ Plain(t).step = 0
  BY DEF Plain, Event
<1>2. 0 \in 0..Len(p.steps)
  BY PlanFields DEF SoundPlan
<1> QED
  BY <1>1, <1>2, AdvanceSound

\* The expert's answer is closed and the floor goes back to the root.
LEMMA SynthesizeSound ==
  ASSUME GraphSound, Synthesize
  PROVE  GraphSound'
<1> USE DEF GraphSound
<1>1. plan' \in SoundPlan /\ plan' \in Plan
  <2>1. plan \in SoundPlan
    BY DEF Synthesize, LedgerThere
  <2>2. "synthesize_complete" \in DOMAIN EventStatus
    BY DEF EventStatus
  <2> QED
    BY <2>1, <2>2, PlainSound DEF Synthesize, SoundPlan
<1>2. /\ openTags' = 0 /\ wrapping' = None /\ cur' = Root /\ own' = TRUE
      /\ pending' = <<>> /\ node' = "agent"
  BY DEF Synthesize, TagsBalanced
<1>3. MaxCalls \in Nat
  BY LimitsAssumption
<1>4. TypeOK'
  BY <1>1, <1>2, <1>3 DEF Synthesize, TypeOK, Nodes, Agents
<1> QED
  BY <1>1, <1>2, <1>4 DEF Synthesize, LedgerThere, OnlyToolsRun, ExpertAgents,
       RootIsUnwrapped, TagsAreExperts, TagsBalanced, RootHasLastWord, ConsultedOnce,
       SpeakerWasCalled, EndIsEarned,
       SearchIsBound

\* The evaluator ends the request on a verdict that the ledger and the evidence
\* bear out, or opens the ledger again.
LEMMA EvaluatorSound ==
  ASSUME GraphSound, TaskEvaluator
  PROVE  GraphSound'
<1> USE DEF GraphSound
<1> DEFINE response == content # "none"
           missing  == Missing(plan, RequiresFacts, response, evidence.searched)
           governed == task.governance => evidence.traced
           v        == Evaluate(plan, RequiresFacts, response, evidence.searched, governed)
           stamped  == Stamp(plan, v)
<1>1. plan \in SoundPlan /\ cur = Root
  BY DEF TaskEvaluator, LedgerThere, RootHasLastWord
<1>2. /\ verdict' = v
      /\ IF ShouldRepair(v)
         THEN /\ plan' = Reopen(stamped, missing)
              /\ repairs' = repairs + 1
              /\ evidence' = [evidence EXCEPT !.fresh = FALSE]
              /\ node' = "agent"
         ELSE /\ plan' = stamped
              /\ node' = "END"
              /\ UNCHANGED <<repairs, evidence>>
      /\ UNCHANGED <<task, cur, own, called, wrapping, openTags, pending, iter, content, refused>>
  BY Zenon DEF TaskEvaluator
<1>3. v \in Verdicts
  BY DEF Evaluate, Verdicts
<1>4. v = "passed" => /\ \A i \in DOMAIN plan.steps : plan.steps[i].status = "completed"
                      /\ missing = {}
  BY DEF Evaluate
<1>5. missing = {} => response /\ (RequiresFacts => evidence.searched)
  <2> SUFFICES ASSUME missing = {} PROVE response /\ (RequiresFacts => evidence.searched)
    OBVIOUS
  <2>1. "final_response" \notin missing /\ "web_search_result" \notin missing
    OBVIOUS
  <2> QED
    BY <2>1, Zenon DEF Missing
<1> HIDE DEF missing, v, stamped
<1>6. /\ stamped \in SoundPlan /\ stamped.steps = plan.steps
      /\ stamped.status = (CASE v = "passed"  -> "completed"
                             [] v = "warning" -> "completed_with_warnings"
                             [] OTHER         -> "failed")
  BY <1>1, StampSound DEF stamped
<1>7. MaxRepairs \in Nat /\ repairs \in 0..MaxRepairs
  BY LimitsAssumption DEF TypeOK
<1>8. CASE ShouldRepair(v)
  <2>1. plan' \in SoundPlan /\ plan' \in Plan
    BY <1>2, <1>6, <1>8, ReopenSound DEF SoundPlan
  <2>2. repairs' \in 0..MaxRepairs
    BY <1>2, <1>7, <1>8 DEF ShouldRepair
  <2>3. evidence' \in Evidence /\ evidence'.retrieved = evidence.retrieved
    BY <1>2, <1>8 DEF TypeOK, Evidence
  <2>4. TypeOK'
    BY <1>2, <1>3, <1>8, <2>1, <2>2, <2>3 DEF TypeOK, Nodes
  <2> QED
    BY <1>2, <1>8, <2>1, <2>3, <2>4 DEF LedgerThere, OnlyToolsRun, ExpertAgents,
       RootIsUnwrapped, TagsAreExperts, TagsBalanced, RootHasLastWord, ConsultedOnce,
       SpeakerWasCalled, EndIsEarned,
       SearchIsBound
<1>9. CASE ~ShouldRepair(v)
  <2>1. plan' = stamped /\ plan' \in Plan /\ node' = "END" /\ UNCHANGED <<repairs, evidence>>
    BY <1>2, <1>6, <1>9 DEF SoundPlan
  <2>2. TypeOK'
    BY <1>2, <1>3, <2>1 DEF TypeOK, Nodes
  <2>3. EndIsEarned'
    <3>1. verdict' = "failed" => repairs' = MaxRepairs
      BY <1>2, <1>7, <1>9, <2>1 DEF ShouldRepair
    <3>2. plan'.status \in {"completed", "completed_with_warnings", "failed"}
      BY <1>3, <1>6, <2>1 DEF Verdicts
    <3>3. plan'.status = "completed" => v = "passed"
      BY <1>3, <1>6, <2>1 DEF Verdicts
    <3>4. plan'.status = "completed" =>
            /\ \A i \in DOMAIN plan'.steps : plan'.steps[i].status = "completed"
            /\ content' # "none"
            /\ content' = "tags" => called' # <<>> \/ task'.expertRoot
            /\ RequiresFacts' => evidence'.searched
      BY <1>2, <1>4, <1>5, <1>6, <2>1, <3>3 DEF RequiresFacts, TagsAreExperts
    <3> QED
      BY <3>1, <3>2, <3>4 DEF EndIsEarned
  <2> QED
    BY <1>1, <1>2, <1>6, <2>1, <2>2, <2>3 DEF LedgerThere, OnlyToolsRun, ExpertAgents,
       RootIsUnwrapped, TagsAreExperts, TagsBalanced, RootHasLastWord, ConsultedOnce,
       SpeakerWasCalled, SearchIsBound
<1> QED
  BY <1>8, <1>9

\* The search the agent node makes on its own passes the application's binding.
LEMMA PrefetchIsBound ==
  ASSUME GraphSound, NEW found \in BOOLEAN, Prefetch(found), UNCHANGED task
  PROVE  evidence' \in Evidence /\ SearchIsBound'
<1> USE DEF GraphSound
<1>1. evidence \in Evidence
  BY DEF TypeOK
<1>2. CASE Prefetches /\ found
  <2>1. WebSearch \in task.appTools
    BY <1>2 DEF Prefetches, Offered
  <2>2. evidence' = [evidence EXCEPT !.searched = TRUE, !.fresh = TRUE, !.retrieved = TRUE]
    BY <1>2 DEF Prefetch
  <2>3. evidence' \in Evidence
    BY <1>1, <2>2 DEF Evidence
  <2> QED
    BY <2>1, <2>3 DEF SearchIsBound
<1>3. CASE ~(Prefetches /\ found)
  BY <1>1, <1>3 DEF Prefetch, SearchIsBound
<1> QED
  BY <1>2, <1>3

\* A turn of an expert leaves a tag open, a turn of an orchestrator root leaves none,
\* and whoever leaves tags alone is an expert.
LEMMA TurnWraps ==
  ASSUME GraphSound, NEW calls \in Callable, NEW text \in {"none", "before", "after"},
         NEW echo \in BOOLEAN, NEW failed \in BOOLEAN, Turn(calls, text, echo, failed),
         UNCHANGED <<task, cur, called>>
  PROVE  /\ openTags' \in Nat /\ wrapping' \in Experts \union {Root, None}
         /\ TagsBalanced' /\ RootIsUnwrapped' /\ TagsAreExperts'
<1> USE DEF GraphSound
<1>1. /\ None \notin ExpertAgents /\ ExpertAgents \subseteq Experts \union {Root}
      /\ Root \in ExpertAgents => task.expertRoot
      /\ ExpertAgents' = ExpertAgents
  BY AgentsAssumption DEF ExpertAgents
<1>2. openTags = IF wrapping = None THEN 0 ELSE 1
  BY DEF TagsBalanced
<1>3. wrapping' = EndsWrapped(echo, text)
  BY DEF Turn
<1>4. text = "after" => echo
  BY DEF Turn
<1>5. openTags' = (IF IsExpert /\ wrapping = None THEN openTags + 1 ELSE openTags)
                  - (IF echo /\ (IsExpert \/ wrapping # None) THEN 1 ELSE 0)
                  + (IF echo /\ IsExpert /\ text = "after" THEN 1 ELSE 0)
  BY DEF Turn
<1>6. openTags' = IF wrapping' = None THEN 0 ELSE 1
  BY <1>1, <1>2, <1>3, <1>4, <1>5 DEF EndsWrapped, IsExpert
<1>7. wrapping' \in Experts \union {Root, None}
  BY <1>1, <1>3 DEF EndsWrapped, IsExpert, TypeOK
<1>8. cur = Root /\ ~task.expertRoot => wrapping' = None
  BY <1>1, <1>3 DEF EndsWrapped, IsExpert, RootIsUnwrapped
<1>9. content' = "tags" => called # <<>> \/ task.expertRoot
  <2>1. content' = AnswerContent(text)
    BY DEF Turn
  <2>2. IsExpert => called # <<>> \/ task.expertRoot
    BY <1>1 DEF IsExpert, SpeakerWasCalled
  <2> QED
    BY <2>1, <2>2 DEF AnswerContent, TagsAreExperts
<1> QED
  BY <1>1, <1>6, <1>7, <1>8, <1>9 DEF TagsBalanced, RootIsUnwrapped, TagsAreExperts

\* Where a turn goes next.
LEMMA RouteIs ==
  ASSUME NEW a, NEW calls \in Seq(Call), NEW n
  PROVE  /\ Route(a, calls, n) \in {"orchestrator_invoke", "handoff", "tool_executor",
                                    "synthesize", "task_evaluator"}
         /\ Route(a, calls, n) = "task_evaluator" => a = Root
         /\ Route(a, calls, n) = "tool_executor" => \A i \in DOMAIN calls : calls[i].kind = "tool"
<1> DEFINE asks(kind) == n < MaxIterations /\ \E i \in DOMAIN calls : calls[i].kind = kind
<1>1. Route(a, calls, n) = IF asks("invoke") THEN "orchestrator_invoke"
                           ELSE IF asks("transfer") THEN "handoff"
                           ELSE IF asks("tool") THEN "tool_executor"
                           ELSE IF a # Root THEN "synthesize"
                           ELSE "task_evaluator"
  BY Zenon DEF Route
<1>2. Route(a, calls, n) = "tool_executor" => ~asks("invoke") /\ ~asks("transfer") /\ asks("tool")
  <2> HIDE DEF asks
  <2> QED
    BY <1>1
<1>3. \A i \in DOMAIN calls : calls[i].kind \in {"tool", "transfer", "invoke"}
  BY DEF Call
<1>4. /\ Route(a, calls, n) \in {"orchestrator_invoke", "handoff", "tool_executor",
                                 "synthesize", "task_evaluator"}
      /\ Route(a, calls, n) = "task_evaluator" => a = Root
  <2> HIDE DEF asks
  <2> QED
    BY <1>1
<1> QED
  BY <1>2, <1>3, <1>4

\* A turn of the root or of an expert.
LEMMA AgentSound ==
  ASSUME GraphSound, Agent
  PROVE  GraphSound'
<1> USE DEF GraphSound
<1>1. PICK found \in BOOLEAN : Prefetch(found)
  BY DEF Agent
<1>2. PICK calls \in Callable, text \in {"none", "before", "after"},
           echo \in BOOLEAN, failed \in BOOLEAN : Turn(calls, text, echo, failed)
  BY DEF Agent
<1>3. /\ node = "agent" /\ refused' = {}
      /\ UNCHANGED <<task, cur, own, called, repairs, verdict>>
  BY DEF Agent
<1>4. evidence' \in Evidence /\ SearchIsBound'
  BY <1>1, <1>3, PrefetchIsBound
<1>5. /\ openTags' \in Nat /\ wrapping' \in Experts \union {Root, None}
      /\ TagsBalanced' /\ RootIsUnwrapped' /\ TagsAreExperts'
  BY <1>2, <1>3, TurnWraps
<1>6. calls \in Seq(Call) /\ Len(calls) <= MaxCalls
  BY CallableCalls
<1>7. pending' = calls /\ iter' = Counted /\ node' = Route(cur, calls, Counted)
  BY <1>2 DEF Turn
<1>8. /\ node' \in {"orchestrator_invoke", "handoff", "tool_executor", "synthesize",
                    "task_evaluator"}
      /\ node' = "task_evaluator" => cur = Root
      /\ OnlyToolsRun'
  BY <1>6, <1>7, RouteIs DEF OnlyToolsRun
<1>9. plan' \in SoundPlan /\ plan' \in Plan
  <2>1. plan \in SoundPlan
    BY <1>3 DEF LedgerThere
  <2>2. {"agent_start", "agent_error", "agent_complete"} \subseteq DOMAIN EventStatus
    BY DEF EventStatus
  <2>3. Advance(plan, Plain("agent_start")) \in SoundPlan
    BY <2>1, <2>2, PlainSound
  <2>4. plan' = Advance(Advance(plan, Plain("agent_start")),
                        Plain(IF failed THEN "agent_error" ELSE "agent_complete"))
    BY <1>2 DEF Turn
  <2>5. plan' \in SoundPlan
    BY <2>2, <2>3, <2>4, PlainSound
  <2> QED
    BY <2>5 DEF SoundPlan
<1>10. content' \in {"none", "tags", "text"}
  BY <1>2 DEF Turn, AnswerContent, TypeOK
<1>11. iter' \in 0..IterationCap
  BY <1>7, CountedIs DEF TypeOK
<1>12. TypeOK'
  BY <1>3, <1>4, <1>5, <1>6, <1>7, <1>8, <1>9, <1>10, <1>11 DEF TypeOK, Nodes
<1>13. LedgerThere' /\ RootHasLastWord' /\ EndIsEarned'
  BY <1>3, <1>5, <1>8, <1>9 DEF LedgerThere, RootHasLastWord, EndIsEarned, RootIsUnwrapped
<1>14. ConsultedOnce' /\ SpeakerWasCalled'
  BY <1>3 DEF ConsultedOnce, SpeakerWasCalled
<1> QED
  BY <1>4, <1>5, <1>8, <1>12, <1>13, <1>14

-----------------------------------------------------------------------------
(* The tool executor.                                                      *)

\* What running the turn's calls one after the other leaves.
LEMMA RanRecursion ==
  ASSUME NEW A, NEW outcome, pending \in Seq(Call),
         [plan |-> plan, evidence |-> evidence] \in A,
         \A acc \in A, i \in DOMAIN pending : RunTool(acc, pending[i].target, outcome[i]) \in A
  PROVE  Ran(outcome) \in A
<1> DEFINE start    == [plan |-> plan, evidence |-> evidence]
           n        == Len(pending)
           Q(h)     == h = [k \in 0 .. Len(pending) |->
                              IF k = 0 THEN [plan |-> plan, evidence |-> evidence]
                              ELSE RunTool(h[k - 1], pending[k].target, outcome[k])]
           step     == [k \in 1..n |-> [acc \in A |-> RunTool(acc, pending[k].target, outcome[k])]]
<1>1. n \in Nat /\ DOMAIN pending = 1..n
  OBVIOUS
<1>2. step \in [1..n -> [A -> A]]
  BY <1>1
<1>3. PICK f \in [0..n -> A] : f[0] = start /\ \A k \in 1..n : f[k] = step[k][f[k - 1]]
  <2> HIDE DEF step, n, start
  <2>1. start \in A
    BY DEF start
  <2>2. Recursions(n, A, start, step) # {}
    BY <1>1, <1>2, <2>1, RecursionExists
  <2> QED
    BY <2>2 DEF Recursions
<1>4. \A k \in 0..n : k # 0 => k \in 1..n /\ k - 1 \in 0..n
  BY <1>1
<1>5. \A k \in 1..n : step[k][f[k - 1]] = RunTool(f[k - 1], pending[k].target, outcome[k])
  <2> SUFFICES ASSUME NEW k \in 1..n
               PROVE  step[k][f[k - 1]] = RunTool(f[k - 1], pending[k].target, outcome[k])
    OBVIOUS
  <2>1. f[k - 1] \in A
    BY <1>3, <1>4
  <2> QED
    BY <2>1
<1> HIDE DEF step
<1>6. Q(f)
  BY <1>3, <1>4, <1>5
<1>7. Q(CHOOSE h : Q(h))
  <2> HIDE DEF Q
  <2> QED
    BY <1>6
<1>8. Ran(outcome) = (CHOOSE h : Q(h))[Len(pending)]
  BY Zenon DEF Ran
<1> DEFINE g == CHOOSE h : Q(h)
<1>9. g[0] \in A /\ \A k \in 1..n : g[k] = RunTool(g[k - 1], pending[k].target, outcome[k])
  <2>1. g = [k \in 0 .. n |-> IF k = 0 THEN start
                              ELSE RunTool(g[k - 1], pending[k].target, outcome[k])]
    BY <1>7, Zenon
  <2> HIDE DEF g, n
  <2> QED
    BY <1>1, <2>1
<1> HIDE DEF g, n
<1>10. \A k \in 1..n : g[k - 1] \in A => g[k] \in A
  BY <1>1, <1>9
<1>11. g[n] \in A
  BY <1>1, <1>9, <1>10, RecursionStays
<1> QED
  BY <1>8, <1>11 DEF g, n

\* The ledgers and the evidence that the executor may be left with: no search got
\* through that the application is not bound to.
Tallies ==
  {acc \in [plan : SoundPlan, evidence : Evidence] :
     acc.evidence.retrieved => WebSearch \in task.appTools}

\* Running one call keeps them so, whether it is blocked, fails or succeeds.
LEMMA RunToolKeeps ==
  ASSUME NEW acc \in Tallies, NEW tool \in Tools, NEW outcome \in {"tool_success", "tool_error"}
  PROVE  RunTool(acc, tool, outcome) \in Tallies
<1> DEFINE d       == ValidateTool(acc.plan, tool, RequiresFacts)
           allowed == d.allowed /\ PolicyAllows(tool) /\ tool \in task.appTools
           start   == Event("tool_start", tool, d.step)
           started == Advance(acc.plan, start)
           done    == IF ~allowed THEN "tool_blocked" ELSE outcome
           stop    == Event(done, tool, d.step)
           search  == tool = WebSearch
           seen    == [searched  |-> acc.evidence.searched \/ search,
                       fresh     |-> acc.evidence.fresh \/ search,
                       retrieved |-> acc.evidence.retrieved \/ (search /\ done = "tool_success"),
                       traced    |-> acc.evidence.traced \/ tool \in OntologyTools]
<1>1. /\ acc.plan \in SoundPlan /\ acc.evidence \in Evidence
      /\ acc.evidence.retrieved => WebSearch \in task.appTools
  BY DEF Tallies
<1>2. RunTool(acc, tool, outcome) = [plan |-> Advance(started, stop), evidence |-> seen]
  BY Zenon DEF RunTool
<1>3. d.step \in 0..Len(acc.plan.steps)
  BY <1>1, ValidatedStep DEF RequiresFacts
<1>4. {"tool_start", "tool_blocked", "tool_success", "tool_error"} \subseteq DOMAIN EventStatus
  BY DEF EventStatus
<1>5. done \in {"tool_blocked", "tool_success", "tool_error"} /\ (done = "tool_success" => allowed)
  OBVIOUS
<1>6. start.type = "tool_start" /\ start.step = d.step /\ stop.type = done /\ stop.step = d.step
  BY DEF Event
<1>7. seen \in Evidence
  BY <1>1 DEF Evidence
<1>8. seen.retrieved => WebSearch \in task.appTools
  BY <1>1, <1>5
<1> HIDE DEF d, start, done, stop, seen, allowed
<1>9. started \in SoundPlan /\ Len(started.steps) = Len(acc.plan.steps)
  BY <1>1, <1>3, <1>4, <1>6, AdvanceSound
<1> HIDE DEF started
<1>10. Advance(started, stop) \in SoundPlan
  BY <1>3, <1>4, <1>5, <1>6, <1>9, AdvanceSound
<1> QED
  BY <1>2, <1>7, <1>8, <1>10 DEF Tallies

\* A turn's tools run in order.
LEMMA ToolExecutorSound ==
  ASSUME GraphSound, ToolExecutor
  PROVE  GraphSound'
<1> USE DEF GraphSound
<1>1. /\ node = "tool_executor" /\ node' = "agent"
      /\ UNCHANGED <<task, cur, own, called, wrapping, openTags, pending, iter, repairs,
                     verdict, content, refused>>
  BY DEF ToolExecutor
<1>2. PICK outcome \in [DOMAIN pending -> {"tool_success", "tool_error"}] :
        plan' = Ran(outcome).plan /\ evidence' = Ran(outcome).evidence
  BY DEF ToolExecutor
<1>3. pending \in Seq(Call)
  BY DEF TypeOK
<1>4. \A i \in DOMAIN pending : pending[i].target \in Tools
  <2>1. \A i \in DOMAIN pending : pending[i] \in Call /\ pending[i].kind = "tool"
    BY <1>1, <1>3 DEF OnlyToolsRun
  <2> QED
    BY <2>1, CallTarget
<1>5. [plan |-> plan, evidence |-> evidence] \in Tallies
  <2>1. plan \in SoundPlan /\ evidence \in Evidence
    BY <1>1 DEF LedgerThere, TypeOK
  <2> QED
    BY <2>1 DEF Tallies, SearchIsBound
<1>6. \A acc \in Tallies, i \in DOMAIN pending :
        RunTool(acc, pending[i].target, outcome[i]) \in Tallies
  BY <1>4, RunToolKeeps
<1>7. Ran(outcome) \in Tallies
  BY <1>3, <1>5, <1>6, RanRecursion
<1>8. /\ plan' \in SoundPlan /\ plan' \in Plan /\ evidence' \in Evidence
      /\ evidence'.retrieved => WebSearch \in task.appTools
  BY <1>2, <1>7 DEF Tallies, SoundPlan
<1>9. TypeOK'
  BY <1>1, <1>8 DEF TypeOK, Nodes
<1> QED
  BY <1>1, <1>8, <1>9 DEF LedgerThere, OnlyToolsRun, ExpertAgents,
       RootIsUnwrapped, TagsAreExperts, TagsBalanced, RootHasLastWord, ConsultedOnce,
       SpeakerWasCalled, EndIsEarned,
       SearchIsBound

-----------------------------------------------------------------------------
(* Handing the floor over.                                                 *)

\* What serving the turn's calls one after the other leaves.
LEMMA ServedRecursion ==
  ASSUME NEW A, NEW kind, NEW fate, pending \in Seq(Call), Floor \in A,
         \A floor \in A, i \in DOMAIN pending : Serve(floor, kind, i, fate) \in A
  PROVE  Served(kind, fate) \in A
<1> DEFINE n        == Len(pending)
           Q(h)     == h = [k \in 0 .. Len(pending) |->
                              IF k = 0 THEN Floor ELSE Serve(h[k - 1], kind, k, fate)]
           step     == [k \in 1..n |-> [floor \in A |-> Serve(floor, kind, k, fate)]]
<1>1. n \in Nat /\ DOMAIN pending = 1..n
  OBVIOUS
<1>2. step \in [1..n -> [A -> A]]
  BY <1>1
<1>3. PICK f \in [0..n -> A] : f[0] = Floor /\ \A k \in 1..n : f[k] = step[k][f[k - 1]]
  <2> HIDE DEF step, n
  <2>1. Recursions(n, A, Floor, step) # {}
    BY <1>1, <1>2, RecursionExists
  <2> QED
    BY <2>1 DEF Recursions
<1>4. \A k \in 0..n : k # 0 => k \in 1..n /\ k - 1 \in 0..n
  BY <1>1
<1>5. \A k \in 1..n : step[k][f[k - 1]] = Serve(f[k - 1], kind, k, fate)
  <2> SUFFICES ASSUME NEW k \in 1..n
               PROVE  step[k][f[k - 1]] = Serve(f[k - 1], kind, k, fate)
    OBVIOUS
  <2>1. f[k - 1] \in A
    BY <1>3, <1>4
  <2> QED
    BY <2>1
<1> HIDE DEF step
<1>6. Q(f)
  BY <1>3, <1>4, <1>5
<1>7. Q(CHOOSE h : Q(h))
  <2> HIDE DEF Q
  <2> QED
    BY <1>6
<1>8. Served(kind, fate) = (CHOOSE h : Q(h))[Len(pending)]
  BY Zenon DEF Served
<1> DEFINE g == CHOOSE h : Q(h)
<1>9. g[0] \in A /\ \A k \in 1..n : g[k] = Serve(g[k - 1], kind, k, fate)
  <2>1. g = [k \in 0 .. n |-> IF k = 0 THEN Floor ELSE Serve(g[k - 1], kind, k, fate)]
    BY <1>7, Zenon
  <2> HIDE DEF g, n
  <2> QED
    BY <1>1, <2>1
<1> HIDE DEF g, n
<1>10. \A k \in 1..n : g[k - 1] \in A => g[k] \in A
  BY <1>1, <1>9
<1>11. g[n] \in A
  BY <1>1, <1>9, <1>10, RecursionStays
<1> QED
  BY <1>8, <1>11 DEF g, n

\* A speaker, the agents consulted, the ledger.
FloorType == [plan : SoundPlan, cur : Agents, own : BOOLEAN, called : Seq(ExpertAgents),
              refused : SUBSET Agents]

\* The floors a turn can lead to: who has it either had it before or is one of the
\* experts that the turn consulted, whom nobody had consulted before.
Floors ==
  {floor \in FloorType :
     /\ IsInjective(floor.called)
     /\ IF floor.own THEN floor.cur = Root
        ELSE floor.called # <<>> /\ Last(floor.called) = floor.cur
     /\ Range(called) \subseteq Range(floor.called)
     /\ \/ floor.cur = cur /\ floor.called = called
        \/ floor.cur \in Range(floor.called) \ Range(called)}

\* One more agent that was not in a list.
LEMMA AppendOnce ==
  ASSUME NEW S, NEW s \in Seq(S), NEW x \in S, x \notin Range(s), IsInjective(s)
  PROVE  /\ Append(s, x) \in Seq(S) /\ Append(s, x) # <<>> /\ Last(Append(s, x)) = x
         /\ Range(Append(s, x)) = Range(s) \union {x}
         /\ IsInjective(Append(s, x))
<1> DEFINE t == Append(s, x)
           n == Len(s)
<1>1. /\ n \in Nat /\ DOMAIN s = 1..n /\ t \in Seq(S)
      /\ Len(t) = n + 1 /\ DOMAIN t = 1..(n + 1) /\ t[n + 1] = x
      /\ \A i \in 1..n : t[i] = s[i]
  OBVIOUS
<1> HIDE DEF t, n
<1>2. \A i \in 1..(n + 1) : i = n + 1 \/ i \in 1..n
  BY <1>1
<1>3. \A i \in 1..n : i \in 1..(n + 1) /\ s[i] # x
  BY <1>1 DEF Range
<1>4. n + 1 \in 1..(n + 1)
  BY <1>1
<1>5. Range(t) = Range(s) \union {x}
  BY <1>1, <1>2, <1>3, <1>4 DEF Range
<1>6. IsInjective(t)
  BY <1>1, <1>2, <1>3 DEF IsInjective
<1>7. t # <<>> /\ Last(t) = x
  BY <1>1 DEF Last
<1> QED
  BY <1>1, <1>5, <1>6, <1>7 DEF t

\* Whoever is not given the floor changes the ledger and nothing else.
LEMMA KeptIn ==
  ASSUME NEW floor \in Floors, NEW t \in DOMAIN EventStatus
  PROVE  /\ Kept(floor, t) \in Floors /\ Kept(floor, t).called = floor.called
         /\ Kept(floor, t).cur = floor.cur /\ Kept(floor, t).own = floor.own
<1>1. floor \in FloorType
  BY DEF Floors
<1>2. Advance(floor.plan, Plain(t)) \in SoundPlan
  BY <1>1, PlainSound DEF FloorType
<1>3. Kept(floor, t) = [floor EXCEPT !.plan = Advance(floor.plan, Plain(t))]
  BY DEF Kept
<1>4. /\ Kept(floor, t) \in FloorType
      /\ Kept(floor, t).called = floor.called /\ Kept(floor, t).cur = floor.cur
      /\ Kept(floor, t).own = floor.own
  BY <1>1, <1>2, <1>3 DEF FloorType
<1> QED
  BY <1>4 DEF Floors

\* Noting whom the floor was refused to changes nothing else.
LEMMA RefusedIn ==
  ASSUME NEW floor \in Floors, NEW r \in SUBSET Agents
  PROVE  [floor EXCEPT !.refused = r] \in Floors
<1>1. floor \in FloorType
  BY DEF Floors
<1>2. /\ [floor EXCEPT !.refused = r] \in FloorType
      /\ [floor EXCEPT !.refused = r].called = floor.called
      /\ [floor EXCEPT !.refused = r].cur = floor.cur
      /\ [floor EXCEPT !.refused = r].own = floor.own
  BY <1>1 DEF FloorType
<1> QED
  BY <1>2 DEF Floors

\* An expert that was not consulted takes the floor.
LEMMA TookIn ==
  ASSUME NEW floor \in Floors, NEW t \in DOMAIN EventStatus, NEW x \in ExpertAgents,
         x \notin Range(floor.called)
  PROVE  Took(floor, x, t) \in Floors
<1>1. /\ floor \in FloorType
      /\ IsInjective(floor.called) /\ Range(called) \subseteq Range(floor.called)
  BY DEF Floors
<1>2. Advance(floor.plan, Plain(t)) \in SoundPlan
  BY <1>1, PlainSound DEF FloorType
<1> DEFINE c == Append(floor.called, x)
<1>3. /\ c \in Seq(ExpertAgents) /\ c # <<>> /\ Last(c) = x
      /\ Range(c) = Range(floor.called) \union {x} /\ IsInjective(c)
  BY <1>1, AppendOnce DEF FloorType
<1> HIDE DEF c
<1>4. Took(floor, x, t)
        = [plan |-> Advance(floor.plan, Plain(t)), cur |-> x, own |-> FALSE, called |-> c,
           refused |-> floor.refused]
  <2>1. floor = [plan |-> floor.plan, cur |-> floor.cur, own |-> floor.own, called |-> floor.called,
                 refused |-> floor.refused]
    BY <1>1 DEF FloorType
  <2>2. Took(floor, x, t)
          = [floor EXCEPT !.plan = Advance(floor.plan, Plain(t)), !.cur = x, !.own = FALSE,
                          !.called = c]
    BY DEF Took, c
  <2> QED
    BY <2>1, <2>2
<1>5. x \in Agents
  BY DEF Agents, ExpertAgents
<1> QED
  BY <1>1, <1>2, <1>3, <1>4, <1>5 DEF Floors, FloorType

LEMMA TransferIn ==
  ASSUME NEW floor \in Floors, NEW target \in Experts \union {Root}, NEW fate \in TransferFate
  PROVE  Transfer(floor, target, fate) \in Floors
<1> DEFINE started == Kept(floor, "handoff_start")
           expert  == HandleHandoff(target, fate = "served")
           failed  == Kept(started, "handoff_error")
           r       == IF fate = "served" THEN failed.refused \union {target} ELSE failed.refused
<1>1. {"handoff_start", "handoff_skipped", "handoff_success", "handoff_error"}
        \subseteq DOMAIN EventStatus
  BY DEF EventStatus
<1>2. started \in Floors /\ started.called = floor.called
  BY <1>1, KeptIn
<1>3. Transfer(floor, target, fate) =
        IF fate = "unnamed" \/ target \in Range(floor.called)
        THEN Kept(started, "handoff_skipped")
        ELSE IF expert # None THEN Took(started, expert, "handoff_success")
        ELSE [failed EXCEPT !.refused = r]
  BY DEF Transfer
<1>4. expert # None => expert = target /\ expert \in ExpertAgents
  BY DEF HandleHandoff
<1> HIDE DEF started, expert
<1>5. failed \in Floors /\ Kept(started, "handoff_skipped") \in Floors
  BY <1>1, <1>2, KeptIn
<1>6. r \in SUBSET Agents
  BY <1>5 DEF Floors, FloorType, Agents
<1> HIDE DEF failed, r
<1>7. [failed EXCEPT !.refused = r] \in Floors
  BY <1>5, <1>6, RefusedIn
<1>8. expert # None /\ target \notin Range(floor.called)
        => Took(started, expert, "handoff_success") \in Floors
  BY <1>1, <1>2, <1>4, TookIn
<1> QED
  BY <1>3, <1>5, <1>7, <1>8

LEMMA InvokeIn ==
  ASSUME NEW floor \in Floors, NEW target \in SubApps \union {Root}, NEW fate \in InvokeFate
  PROVE  Invoke(floor, target, fate) \in Floors
<1> DEFINE started  == Kept(floor, "orchestrator_invoke_start")
           app      == HandleHandoff(target, fate = "served")
           rejected == \/ fate = "unnamed" \/ target = floor.cur
                       \/ target = Root /\ cur # Root
                       \/ target \in Range(floor.called)
                       \/ fate = "denied"
           failed   == Kept(started, "orchestrator_invoke_error")
           r        == IF fate = "served" THEN failed.refused \union {target} ELSE failed.refused
<1>1. {"orchestrator_invoke_start", "orchestrator_invoke_rejected", "orchestrator_invoke_error"}
        \subseteq DOMAIN EventStatus
  BY DEF EventStatus
<1>2. started \in Floors
  BY <1>1, KeptIn
<1>3. Invoke(floor, target, fate) =
        IF rejected THEN Kept(started, "orchestrator_invoke_rejected")
        ELSE IF app \in SubApps THEN Took(started, app, "orchestrator_invoke_success")
        ELSE [failed EXCEPT !.refused = r]
  BY DEF Invoke
<1>4. app \notin SubApps
  BY AgentsAssumption DEF HandleHandoff, ExpertAgents
<1> HIDE DEF started, app, rejected
<1>5. failed \in Floors /\ Kept(started, "orchestrator_invoke_rejected") \in Floors
  BY <1>1, <1>2, KeptIn
<1>6. r \in SUBSET Agents
  BY <1>5 DEF Floors, FloorType, Agents
<1> HIDE DEF failed, r
<1>7. [failed EXCEPT !.refused = r] \in Floors
  BY <1>5, <1>6, RefusedIn
<1> QED
  BY <1>3, <1>4, <1>5, <1>7

\* What a turn that hands the floor over leads to.
LEMMA ServedIn ==
  ASSUME GraphSound, node \in {"handoff", "orchestrator_invoke"},
         NEW kind \in {"transfer", "invoke"}, NEW fate,
         fate \in [Of(kind) -> IF kind = "transfer" THEN TransferFate ELSE InvokeFate]
  PROVE  Served(kind, fate) \in Floors
<1> USE DEF GraphSound
<1>1. Floor \in Floors
  <2>1. plan \in SoundPlan
    BY DEF LedgerThere
  <2> QED
    BY <2>1 DEF Floor, Floors, FloorType, TypeOK, RootIsUnwrapped, ConsultedOnce, SpeakerWasCalled
<1>2. pending \in Seq(Call)
  BY DEF TypeOK
<1>3. ASSUME NEW floor \in Floors, NEW i \in DOMAIN pending
      PROVE  Serve(floor, kind, i, fate) \in Floors
  <2>1. CASE i \notin Of(kind)
    BY <2>1 DEF Serve
  <2>2. CASE i \in Of(kind)
    <3>1. pending[i] \in Call /\ pending[i].kind = kind
      BY <1>2, <2>2 DEF Of
    <3>2. CASE kind = "transfer"
      <4>1. pending[i].target \in Experts \union {Root} /\ fate[i] \in TransferFate
        BY <2>2, <3>1, <3>2, CallTarget
      <4> QED
        BY <2>2, <3>2, <4>1, TransferIn DEF Serve
    <3>3. CASE kind = "invoke"
      <4>1. pending[i].target \in SubApps \union {Root} /\ fate[i] \in InvokeFate
        BY <2>2, <3>1, <3>3, CallTarget
      <4> QED
        BY <2>2, <3>3, <4>1, InvokeIn DEF Serve
    <3> QED
      BY <3>2, <3>3
  <2> QED
    BY <2>1, <2>2
<1> QED
  BY <1>1, <1>2, <1>3, ServedRecursion

\* Both nodes hand the floor over as one of the floors says.
LEMMA HandedOver ==
  ASSUME GraphSound, Handoff \/ OrchestratorInvoke
  PROVE  \E floor \in Floors : HandOver(floor)
<1>1. CASE Handoff
  <2>1. PICK fate \in [Of("transfer") -> TransferFate] : HandOver(Served("transfer", fate))
    BY <1>1 DEF Handoff
  <2>2. Served("transfer", fate) \in Floors
    BY <1>1, ServedIn DEF Handoff
  <2> QED
    BY <2>1, <2>2
<1>2. CASE OrchestratorInvoke
  <2>1. PICK fate \in [Of("invoke") -> InvokeFate] : HandOver(Served("invoke", fate))
    BY <1>2 DEF OrchestratorInvoke
  <2>2. Served("invoke", fate) \in Floors
    BY <1>2, ServedIn DEF OrchestratorInvoke
  <2> QED
    BY <2>1, <2>2
<1> QED
  BY <1>1, <1>2

LEMMA HandOverSound ==
  ASSUME GraphSound, Handoff \/ OrchestratorInvoke
  PROVE  GraphSound'
<1> USE DEF GraphSound
<1>1. PICK floor \in Floors : HandOver(floor)
  BY HandedOver
<1>2. /\ plan' \in SoundPlan /\ plan' \in Plan /\ cur' \in Agents /\ own' \in BOOLEAN
      /\ called' \in Seq(ExpertAgents)
      /\ refused' \subseteq Agents /\ IsInjective(called')
      /\ IF own' THEN cur' = Root ELSE called' # <<>> /\ Last(called') = cur'
      /\ cur' = cur \/ cur' \in ExpertAgents
      /\ called = <<>> \/ called' # <<>>
  BY <1>1 DEF Floors, FloorType, HandOver, SoundPlan, Range
<1>3. /\ pending' = <<>> /\ node' = "agent"
      /\ UNCHANGED <<task, wrapping, openTags, iter, repairs, verdict, content, evidence>>
  BY <1>1 DEF HandOver
<1>4. /\ ExpertAgents' = ExpertAgents
      /\ cur' = Root /\ ~task'.expertRoot => wrapping' = None
  BY <1>2, <1>3, AgentsAssumption DEF RootIsUnwrapped, ExpertAgents
<1>5. MaxCalls \in Nat /\ called' \in Seq(Agents)
  <2>1. ExpertAgents \subseteq Agents
    BY DEF ExpertAgents, Agents
  <2> QED
    BY <1>2, <2>1, LimitsAssumption
<1>6. TypeOK'
  BY <1>2, <1>3, <1>5 DEF TypeOK, Nodes
<1> QED
  BY <1>2, <1>3, <1>4, <1>6 DEF LedgerThere, OnlyToolsRun, ExpertAgents,
       RootIsUnwrapped, TagsAreExperts, TagsBalanced, RootHasLastWord, ConsultedOnce,
       SpeakerWasCalled, EndIsEarned,
       SearchIsBound

-----------------------------------------------------------------------------
(* Soundness is inductive, and what follows from it.                       *)

LEMMA SoundStep == GraphSound /\ [Next]_vars => GraphSound'
<1> SUFFICES ASSUME GraphSound, [Next]_vars PROVE GraphSound'
  OBVIOUS
<1>1. CASE Context \/ Planner
  BY <1>1, EntrySound
<1>2. CASE Agent
  BY <1>2, AgentSound
<1>3. CASE ToolExecutor
  BY <1>3, ToolExecutorSound
<1>4. CASE Handoff \/ OrchestratorInvoke
  BY <1>4, HandOverSound
<1>5. CASE Synthesize
  BY <1>5, SynthesizeSound
<1>6. CASE TaskEvaluator
  BY <1>6, EvaluatorSound
<1>7. CASE Crash
  BY <1>7, CrashSound
<1>8. CASE UNCHANGED vars
  BY <1>8 DEF vars, GraphSound, TypeOK, LedgerThere, OnlyToolsRun,
       RootIsUnwrapped, TagsAreExperts, ExpertAgents, TagsBalanced, RootHasLastWord, ConsultedOnce, SpeakerWasCalled,
       EndIsEarned, SearchIsBound, RequiresFacts
<1> QED
  BY <1>1, <1>2, <1>3, <1>4, <1>5, <1>6, <1>7, <1>8 DEF Next

LEMMA AlwaysSound == Spec => []GraphSound
  BY SoundInit, SoundStep, PTL DEF Spec

\* The graph's state is what the nodes expect: pending calls name agents and tools
\* that are there, and turns and repairs stay within their limits.
THEOREM TypeCorrect == Spec => []TypeOK
<1>1. GraphSound => TypeOK
  BY DEF GraphSound
<1> QED
  BY <1>1, AlwaysSound, PTL

\* The streamed answer never holds an unclosed or a doubly closed collaboration
\* tag: it is open exactly while an expert is wrapped (agent.py, synthesize.py).
THEOREM TagsAreBalanced == Spec => []TagsBalanced
<1>1. GraphSound => TagsBalanced
  BY DEF GraphSound
<1> QED
  BY <1>1, AlwaysSound, PTL

\* However a request goes, it is the root's turn that is evaluated and ends it, with
\* no collaboration tag left open unless the root itself has the role expert.
THEOREM TheRootHasTheLastWord == Spec => []RootHasLastWord
<1>1. GraphSound => RootHasLastWord
  BY DEF GraphSound
<1> QED
  BY <1>1, AlwaysSound, PTL

\* No agent is consulted twice, whatever the turns and the repairs ask for.
THEOREM NobodyIsConsultedTwice == Spec => []ConsultedOnce
<1>1. GraphSound => ConsultedOnce
  BY DEF GraphSound
<1> QED
  BY <1>1, AlwaysSound, PTL

\* Whoever speaks is the root with its own profile or the agent consulted last with
\* the profile that its handoff built.
THEOREM TheSpeakerWasCalled == Spec => []SpeakerWasCalled
<1>1. GraphSound => SpeakerWasCalled
  BY DEF GraphSound
<1> QED
  BY <1>1, AlwaysSound, PTL

\* No sequence of events, of any tools, agents and repairs, leaves the ledger's
\* current step on one that is finished (task_runtime.py).
THEOREM TheCurrentStepIsOpen == Spec => []CurrentStepOpen
<1>1. GraphSound => CurrentStepOpen
  BY DEF GraphSound, LedgerThere, CurrentStepOpen, SoundPlan
<1> QED
  BY <1>1, AlwaysSound, PTL

\* A request ends as failed after its last repair only, and as completed with its
\* steps done, an answer that is not empty (tags alone if an expert gave them) and,
\* if it needs facts, a message of web_search, be it of a failed or blocked search
\* (task_evaluator.py, task_runtime.py).
THEOREM TheEndIsEarned == Spec => []EndIsEarned
<1>1. GraphSound => EndIsEarned
  BY DEF GraphSound
<1> QED
  BY <1>1, AlwaysSound, PTL

\* No search passes the application's binding, neither the executor's nor the one
\* that the agent node makes on its own.
THEOREM SearchesAreBound == Spec => []SearchIsBound
<1>1. GraphSound => SearchIsBound
  BY DEF GraphSound
<1> QED
  BY <1>1, AlwaysSound, PTL

-----------------------------------------------------------------------------
(* The graph implements Delegation.                                        *)

\* A handing over consults the experts that it adds to the list, or changes nothing
\* that Delegation sees.
LEMMA HandOverConsults ==
  ASSUME GraphSound, Handoff \/ OrchestratorInvoke
  PROVE  (\E S \in SUBSET ExpertAgents : D!Consult(S)) \/ UNCHANGED D!vars
<1> USE DEF GraphSound
<1>1. PICK floor \in Floors : HandOver(floor)
  BY HandedOver
<1>2. /\ called' \in Seq(ExpertAgents) /\ Range(called) \subseteq Range(called')
      /\ \/ cur' = cur /\ called' = called
         \/ cur' \in Range(called') \ Range(called)
  BY <1>1 DEF Floors, FloorType, HandOver
<1>3. node \notin {"END", "failed"} /\ node' = "agent" /\ ExpertAgents' = ExpertAgents
  BY <1>1 DEF HandOver, Handoff, OrchestratorInvoke, ExpertAgents
<1>4. CASE cur' = cur /\ called' = called
  BY <1>3, <1>4 DEF D!vars
<1>5. CASE cur' \in Range(called') \ Range(called)
  <2> DEFINE S == Range(called') \ Range(called)
  <2>1. S \in SUBSET ExpertAgents
    BY <1>2 DEF Range
  <2>2. S # {} /\ S \intersect Range(called) = {} /\ Range(called') = Range(called) \union S
    BY <1>2, <1>5
  <2>3. D!Consult(S)
    BY <1>3, <1>5, <2>2 DEF D!Consult
  <2> QED
    BY <2>1, <2>3
<1> QED
  BY <1>2, <1>4, <1>5

\* A step of the graph is one of Delegation, or one that Delegation does not see.
LEMMA DelegationStep ==
  ASSUME GraphSound, [Next]_vars
  PROVE  [D!Next]_(D!vars)
<1> USE DEF GraphSound
<1>0. ExpertAgents' = ExpertAgents
  BY DEF Next, Context, Planner, Agent, ToolExecutor, Handoff, OrchestratorInvoke, HandOver,
     Synthesize, TaskEvaluator, Crash, vars, ExpertAgents
<1>1. CASE Context \/ Planner
  BY <1>0, <1>1 DEF Context, Planner, D!vars
<1>2. CASE Agent
  <2>1. PICK calls \in Callable : node' = Route(cur, calls, Counted)
    BY <1>2 DEF Agent, Turn
  <2>2. node' # "END"
    BY <2>1, CallableCalls, RouteIs
  <2> QED
    BY <1>0, <1>2, <2>2 DEF Agent, D!vars
<1>3. CASE ToolExecutor
  BY <1>0, <1>3 DEF ToolExecutor, D!vars
<1>4. CASE Handoff \/ OrchestratorInvoke
  BY <1>4, HandOverConsults DEF D!Next
<1>5. CASE Synthesize
  <2>1. node = "synthesize" /\ node' = "agent" /\ cur' = Root /\ called' = called
    BY <1>5 DEF Synthesize
  <2>2. CASE cur = Root
    BY <1>0, <2>1, <2>2 DEF D!vars
  <2>3. CASE cur # Root
    BY <1>0, <2>1, <2>3 DEF D!Next, D!GiveBack
  <2> QED
    BY <2>2, <2>3
<1>6. CASE TaskEvaluator
  <2>1. node = "task_evaluator" /\ cur = Root /\ UNCHANGED <<cur, called>>
    BY <1>6 DEF TaskEvaluator, RootHasLastWord
  <2> QED
    BY <1>0, <2>1 DEF D!Next, D!Close, D!vars
<1>7. CASE Crash
  BY <1>0, <1>7 DEF Crash, Running, D!vars
<1>8. CASE UNCHANGED vars
  BY <1>0, <1>8 DEF vars, D!vars
<1> QED
  BY <1>1, <1>2, <1>3, <1>4, <1>5, <1>6, <1>7, <1>8 DEF Next

\* The conversation graph passes the floor as Delegation promises, for every set of
\* experts and whatever the root's role: an expert gets it by being consulted, once,
\* and gives it back to the root, which alone closes the request.
THEOREM TheGraphDelegates == Spec => ImplementsDelegation
<1>1. Init => D!Init
  BY DEF Init, D!Init, Range
<1>2. GraphSound /\ [Next]_vars => [D!Next]_(D!vars)
  BY DelegationStep
<1> QED
  BY <1>1, <1>2, AlwaysSound, PTL DEF Spec, ImplementsDelegation, D!Spec
=============================================================================
