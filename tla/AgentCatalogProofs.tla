------------------------- MODULE AgentCatalogProofs -------------------------
(***************************************************************************)
(* Proofs about AgentCatalog and the two modules it joins: for any tools,  *)
(* providers, agents and requests, the registry follows the stored tools,  *)
(* defaults, models, agents and the application refer to rows that are     *)
(* there, and what is stored of an agent fits its type.                    *)
(***************************************************************************)
EXTENDS AgentCatalog, SequenceTheorems, TLAPS

-----------------------------------------------------------------------------
(* Tables: sequences of rows that are only added or changed.               *)

Rows(s) == s \in Seq({s[i] : i \in DOMAIN s})

LEMMA RowsDomain ==
  ASSUME NEW s, Rows(s)
  PROVE  DOMAIN s = 1..Len(s) /\ Len(s) \in Nat
  BY DEF Rows

LEMMA RowsAppended ==
  ASSUME NEW s, Rows(s), NEW row
  PROVE  /\ Rows(Append(s, row))
         /\ DOMAIN Append(s, row) = 1..(Len(s) + 1)
         /\ Len(Append(s, row)) = Len(s) + 1
         /\ \A i \in DOMAIN s : i \in DOMAIN Append(s, row) /\ Append(s, row)[i] = s[i]
         /\ Append(s, row)[Len(s) + 1] = row
         /\ \A i \in DOMAIN Append(s, row) : i \in DOMAIN s \/ i = Len(s) + 1
  <1> DEFINE S == {s[i] : i \in DOMAIN s} \union {row}
  <1>1. s \in Seq(S) /\ row \in S
    <2>1. DOMAIN s = 1..Len(s) /\ Len(s) \in Nat /\ s \in [1..Len(s) -> {s[i] : i \in DOMAIN s}]
      BY DEF Rows
    <2>2. s \in [1..Len(s) -> S]
      BY <2>1
    <2> HIDE DEF S
    <2>3. s \in Seq(S)
      BY <2>1, <2>2
    <2> QED BY <2>3 DEF S
  <1> HIDE DEF S
  <1>2. /\ Append(s, row) \in Seq(S) /\ Len(Append(s, row)) = Len(s) + 1
        /\ \A i \in 1..Len(s) : Append(s, row)[i] = s[i]
        /\ Append(s, row)[Len(s) + 1] = row
    BY <1>1, AppendProperties
  <1>3. DOMAIN s = 1..Len(s) /\ Len(s) \in Nat
    BY RowsDomain
  <1>4. PICK u : u = Append(s, row)
    OBVIOUS
  <1>5. u \in Seq(S) /\ Len(u) = Len(s) + 1
    BY <1>2, <1>4
  <1>6. DOMAIN u = 1..(Len(s) + 1) /\ u \in [1..(Len(s) + 1) -> S]
    BY <1>3, <1>5
  <1>7. PICK R : R = {u[i] : i \in DOMAIN u}
    OBVIOUS
  <1>8. u \in [1..(Len(s) + 1) -> R]
    BY <1>6, <1>7
  <1>9. Rows(u)
    BY <1>3, <1>7, <1>8 DEF Rows
  <1> QED BY <1>2, <1>3, <1>4, <1>6, <1>9

LEMMA RowsChanged ==
  ASSUME NEW s, Rows(s), NEW u, DOMAIN u = DOMAIN s, u = [i \in DOMAIN u |-> u[i]]
  PROVE  Rows(u)
  <1>1. DOMAIN u = 1..Len(s) /\ Len(s) \in Nat
    BY RowsDomain
  <1>2. PICK R : R = {u[i] : i \in DOMAIN u}
    OBVIOUS
  <1>3. PICK n \in Nat : n = Len(s)
    BY <1>1
  <1>4. u \in [1..n -> R]
    BY <1>1, <1>2, <1>3
  <1>5. u \in Seq(R)
    BY <1>4
  <1> QED BY <1>2, <1>5 DEF Rows

-----------------------------------------------------------------------------
(* The registry of tools. A name that is not among the dynamic ones has    *)
(* the tool of the process, or has lost it to a stored tool; a load whose  *)
(* rows are fresh has read what is stored.                                 *)

Taken(n) == \E i \in DOMAIN tools : tools[i].name = n
Own(n) == actions[n] = Plugins[n] \/ (Taken(n) /\ actions[n] = None)

LoadSound(q) ==
  q.op = "tool" /\ q.at = "register" =>
    /\ DOMAIN q = {"op", "at", "ids", "fresh"}
    /\ q.ids \subseteq DOMAIN tools
    /\ q.fresh => q.ids = Active

ToolSound ==
  /\ Rows(tools)
  /\ \A i \in DOMAIN tools : DOMAIN tools[i] = {"name", "status"}
  /\ DOMAIN actions = AllNames /\ DOMAIN task = Desks
  /\ \A d \in Desks : LoadSound(task[d])
  /\ \A n \in dynamic : Taken(n)
  /\ \A n \in AllNames \ dynamic : Own(n)
  /\ behind \in {"no", "empty", "mixed"} /\ (behind = "empty" => dynamic = {})
  /\ RegistryFollowsRows

LEMMA WithNames ==
  ASSUME NEW a, NEW ids, NEW n \in AllNames
  PROVE  /\ (\E i \in ids : tools[i].name = n) =>
              With(a, ids)[n] \in ids /\ tools[With(a, ids)[n]].name = n
         /\ (~\E i \in ids : tools[i].name = n) => With(a, ids)[n] = a[n]
         /\ DOMAIN With(a, ids) = AllNames
  <1>1. (\E i \in ids : tools[i].name = n) =>
          LET c == CHOOSE i \in ids : tools[i].name = n IN c \in ids /\ tools[c].name = n
    OBVIOUS
  <1> QED BY <1>1 DEF With

LEMMA ToolInitSound == Init => ToolSound
  <1> SUFFICES ASSUME Init
               PROVE  ToolSound
    OBVIOUS
  <1>1. tools = <<>> /\ actions = Plugins /\ dynamic = {} /\ behind = "no"
        /\ task = [d \in Desks |-> Idle]
    BY DEF Init, ToolInit
  <1>2. Rows(tools)
    BY <1>1 DEF Rows
  <1>3. \A d \in Desks : LoadSound(task[d])
    BY <1>1 DEF LoadSound, Idle
  <1>4. \A n \in AllNames : Own(n)
    BY <1>1 DEF Own
  <1>5. RegistryFollowsRows
    BY <1>1 DEF RegistryFollowsRows, Active
  <1> QED BY <1>1, <1>2, <1>3, <1>4, <1>5 DEF ToolSound, Plugins

\* Desk d goes on with something that is not the end of a load.
LEMMA ToolsKept ==
  ASSUME ToolSound, UNCHANGED toolVars, DOMAIN task' = Desks,
         \A d \in Desks : task'[d] = task[d] \/ LoadSound(task'[d])
  PROVE  ToolSound'
  <1> USE DEF toolVars
  <1>1. \A d \in Desks : LoadSound(task[d])'
    BY DEF ToolSound, LoadSound, Active
  <1> QED BY <1>1 DEF ToolSound, Taken, Own, RegistryFollowsRows, Active, Plugins

\* A load ends: what is registered is what is stored, unless it is mixed.
LEMMA RegisterSound ==
  ASSUME ToolSound, NEW d \in Desks, Register(d)
  PROVE  ToolSound'
  <1>1. PICK q, ids :
          /\ q = task[d] /\ ids = q.ids /\ LoadSound(q) /\ q.op = "tool" /\ q.at = "register"
          /\ actions' = With(actions, ids)
          /\ dynamic' = dynamic \union {tools[i].name : i \in ids}
          /\ behind' = IF q.fresh /\ behind # "mixed" THEN "no" ELSE "mixed"
          /\ task' = [task EXCEPT ![d] = Idle] /\ tools' = tools
    BY DEF Register, Doing, End, GoOn, ToolSound
  <1>2. ids \subseteq DOMAIN tools /\ (q.fresh => ids = Active)
    BY <1>1 DEF LoadSound
  <1>3. \A n : Taken(n)' <=> Taken(n)
    BY <1>1 DEF Taken
  <1>4. \A o \in Desks : LoadSound(task[o])'
    BY <1>1 DEF ToolSound, LoadSound, Active, Idle
  <1>5. \A n \in dynamic' : Taken(n)'
    BY <1>1, <1>2, <1>3 DEF ToolSound, Taken
  <1>6. ASSUME NEW n \in AllNames, ~\E i \in ids : tools[i].name = n, Own(n)
        PROVE  Own(n)'
    BY <1>1, <1>3, <1>6, WithNames DEF Own, Plugins
  <1>7. \A n \in AllNames \ dynamic' : Own(n)'
    BY <1>1, <1>6 DEF ToolSound
  <1>8. RegistryFollowsRows'
    <2> SUFFICES ASSUME behind' = "no", NEW n \in AllNames
                 PROVE  LET active == {i \in Active : tools[i].name = n}
                        IN IF active # {} THEN actions'[n] \in active ELSE Own(n)'
      BY <1>1 DEF RegistryFollowsRows, Own, Taken, Active
    <2>1. ids = Active /\ behind \in {"no", "empty"}
      BY <1>1, <1>2 DEF ToolSound
    <2>2. CASE \E i \in Active : tools[i].name = n
      BY <1>1, <2>1, <2>2, WithNames
    <2>3. CASE ~\E i \in Active : tools[i].name = n
      <3>1. Own(n)
        BY <2>1, <2>3 DEF ToolSound, RegistryFollowsRows, Own, Taken
      <3> QED BY <1>6, <2>1, <2>3, <3>1
    <2> QED BY <2>2, <2>3
  <1>9. DOMAIN actions' = AllNames
    BY <1>1 DEF With
  <1> QED BY <1>1, <1>4, <1>5, <1>7, <1>8, <1>9 DEF ToolSound


\* A change of the rows leaves the names as they are, and no load fresh.
LEMMA CommitToolSound ==
  ASSUME ToolSound, NEW d \in Desks, CommitTool(d)
  PROVE  ToolSound'
  <1>1. PICK q : /\ q = task[d] /\ tools' = Stored(q) /\ UNCHANGED <<actions, dynamic>>
                 /\ behind' = IF behind = "no" THEN "mixed" ELSE behind
    BY DEF CommitTool
  <1>2. task' = [o \in Desks |->
                   IF o = d THEN [op |-> "tool", at |-> "clear"]
                   ELSE IF Doing(o, "tool", "register") THEN [task[o] EXCEPT !.fresh = FALSE]
                   ELSE task[o]]
    BY DEF CommitTool
  <1>3. /\ Rows(tools')
        /\ \A i \in DOMAIN tools' : DOMAIN tools'[i] = {"name", "status"}
        /\ \A i \in DOMAIN tools : i \in DOMAIN tools' /\ tools'[i].name = tools[i].name
    <2>1. CASE q.do = "create"
      <3>1. PICK row : row = [name |-> q.name, status |-> q.status]
        OBVIOUS
      <3>2. tools' = Append(tools, row) /\ DOMAIN row = {"name", "status"}
        BY <1>1, <2>1, <3>1 DEF Stored
      <3> QED BY <3>2, RowsAppended DEF ToolSound
    <2>2. CASE q.do # "create"
      <3>1. tools' = [tools EXCEPT ![q.id].status = q.status]
        BY <1>1, <2>2 DEF Stored
      <3>2. /\ DOMAIN tools' = DOMAIN tools /\ tools' = [i \in DOMAIN tools' |-> tools'[i]]
            /\ \A i \in DOMAIN tools : DOMAIN tools'[i] = {"name", "status"}
                                       /\ tools'[i].name = tools[i].name
        BY <3>1 DEF ToolSound
      <3> QED BY <3>2, RowsChanged DEF ToolSound
    <2> QED BY <2>1, <2>2
  <1>4. \A n : Taken(n) => Taken(n)'
    BY <1>3 DEF Taken
  <1>5. \A o \in Desks : LoadSound(task[o])'
    <2> SUFFICES ASSUME NEW o \in Desks
                 PROVE  LoadSound(task[o])'
      OBVIOUS
    <2>1. CASE o # d /\ Doing(o, "tool", "register")
      <3>1. PICK u : u = task'[o] /\ u = [task[o] EXCEPT !.fresh = FALSE]
        BY <1>2, <2>1
      <3>2. LoadSound(task[o])
        BY DEF ToolSound
      <3>3. DOMAIN u = {"op", "at", "ids", "fresh"} /\ u.ids = task[o].ids /\ u.fresh = FALSE
        BY <2>1, <3>1, <3>2 DEF LoadSound, Doing
      <3>4. u.ids \subseteq DOMAIN tools'
        BY <1>3, <2>1, <3>2, <3>3 DEF LoadSound, Doing
      <3> QED BY <3>1, <3>3, <3>4 DEF LoadSound
    <2>2. CASE o = d
      BY <1>2, <2>2 DEF LoadSound
    <2>3. CASE o # d /\ ~Doing(o, "tool", "register")
      BY <1>2, <2>3 DEF LoadSound, Doing
    <2> QED BY <2>1, <2>2, <2>3
  <1>6. \A n : Own(n) => Own(n)'
    BY <1>1, <1>4 DEF Own, Plugins
  <1>7. behind' # "no" /\ (behind' = "empty" => behind = "empty")
        /\ behind' \in {"no", "empty", "mixed"}
    BY <1>1 DEF ToolSound
  <1>8. RegistryFollowsRows'
    BY <1>7 DEF RegistryFollowsRows
  <1> QED BY <1>1, <1>2, <1>3, <1>4, <1>5, <1>6, <1>7, <1>8 DEF ToolSound

LEMMA ClearSound ==
  ASSUME ToolSound, NEW d \in Desks, Clear(d)
  PROVE  ToolSound'
  <1>1. /\ actions' = [n \in AllNames |-> IF n \in dynamic THEN None ELSE actions[n]]
        /\ dynamic' = {} /\ behind' = "empty" /\ tools' = tools
        /\ task' = [task EXCEPT ![d] = [op |-> "tool", at |-> "read"]]
    BY DEF Clear, GoOn
  <1>2. \A n : Taken(n)' <=> Taken(n)
    BY <1>1 DEF Taken
  <1>3. \A n \in AllNames : Own(n)'
    BY <1>1, <1>2 DEF ToolSound, Own, Plugins
  <1>4. \A o \in Desks : LoadSound(task[o])'
    BY <1>1 DEF ToolSound, LoadSound, Active
  <1>5. RegistryFollowsRows'
    BY <1>1 DEF RegistryFollowsRows
  <1> QED BY <1>1, <1>3, <1>4, <1>5 DEF ToolSound

LEMMA ReadSound ==
  ASSUME ToolSound, NEW d \in Desks, Read(d)
  PROVE  ToolSound'
  <1>1. PICK q : /\ q = [op |-> "tool", at |-> "register", ids |-> Active, fresh |-> TRUE]
                 /\ task' = [task EXCEPT ![d] = q] /\ UNCHANGED toolVars
    BY DEF Read, GoOn
  <1>2. LoadSound(q)
    BY <1>1 DEF LoadSound, Active
  <1>3. DOMAIN task' = Desks /\ \A o \in Desks : task'[o] = task[o] \/ LoadSound(task'[o])
    BY <1>1, <1>2 DEF ToolSound
  <1> QED BY <1>1, <1>3, ToolsKept

LEMMA LoadAtStartSound ==
  ASSUME ToolSound, LoadAtStart, tools' = tools, task' = [d \in Desks |-> Idle]
  PROVE  ToolSound'
  <1>1. \A d \in Desks : LoadSound(task[d])'
    BY DEF LoadSound, Idle
  <1>2. \A n : Taken(n)' <=> Taken(n)
    BY DEF Taken
  <1>3. CASE actions' = Plugins /\ dynamic' = {} /\ behind' = "empty"
    <2>1. \A n \in AllNames : Own(n)'
      BY <1>3 DEF Own, Plugins
    <2>2. RegistryFollowsRows'
      BY <1>3 DEF RegistryFollowsRows
    <2> QED BY <1>1, <1>3, <2>1, <2>2 DEF ToolSound, Plugins
  <1>4. CASE /\ actions' = With(Plugins, Active)
             /\ dynamic' = {tools[i].name : i \in Active}
             /\ behind' = "no"
    <2>1. Active \subseteq DOMAIN tools
      BY DEF Active
    <2>2. \A n \in dynamic' : Taken(n)'
      BY <1>2, <1>4, <2>1 DEF Taken
    <2>3. \A n \in AllNames : (~\E i \in Active : tools[i].name = n) => Own(n)'
      BY <1>4, WithNames DEF Own, Plugins
    <2>4. \A n \in AllNames \ dynamic' : Own(n)'
      BY <1>4, <2>3
    <2>5. RegistryFollowsRows'
      <3> SUFFICES ASSUME NEW n \in AllNames
                   PROVE  LET active == {i \in Active : tools[i].name = n}
                          IN IF active # {} THEN actions'[n] \in active ELSE Own(n)'
        BY DEF RegistryFollowsRows, Own, Taken, Active
      <3>1. CASE \E i \in Active : tools[i].name = n
        BY <1>4, <3>1, WithNames
      <3>2. CASE ~\E i \in Active : tools[i].name = n
        BY <2>3, <3>2
      <3> QED BY <3>1, <3>2
    <2>6. DOMAIN actions' = AllNames
      BY <1>4 DEF With
    <2> QED BY <1>1, <1>4, <2>2, <2>4, <2>5, <2>6 DEF ToolSound
  <1> QED BY <1>3, <1>4 DEF LoadAtStart


\* What other requests do is no load, and leaves the registry alone.
LEMMA NoLoadSound ==
  ASSUME ToolSound, UNCHANGED toolVars,
         UNCHANGED task \/ \E d \in Desks : \E q : LoadSound(q) /\ task' = [task EXCEPT ![d] = q]
  PROVE  ToolSound'
  <1>1. DOMAIN task' = Desks /\ \A d \in Desks : task'[d] = task[d] \/ LoadSound(task'[d])
    BY DEF ToolSound
  <1> QED BY <1>1, ToolsKept

LEMMA ToolNextSound ==
  ASSUME ToolSound, ToolNext
  PROVE  ToolSound'
  <1> USE DEF LoadSound
  <1>1. LoadSound(Idle)
    BY DEF Idle
  <1>2. ASSUME NEW d \in Desks, NEW n \in Names, BeginCreate(d, n)
        PROVE  ToolSound'
    <2>1. PICK q : q.at = "commit" /\ task' = [task EXCEPT ![d] = q] /\ UNCHANGED toolVars
      BY <1>2 DEF BeginCreate, Begin
    <2> QED BY <2>1, NoLoadSound
  <1>3. ASSUME NEW d \in Desks, NEW i \in DOMAIN tools, BeginToggle(d, i) \/ BeginDelete(d, i)
        PROVE  ToolSound'
    <2>1. PICK q : q.at = "commit" /\ task' = [task EXCEPT ![d] = q] /\ UNCHANGED toolVars
      BY <1>3 DEF BeginToggle, BeginDelete, Begin
    <2> QED BY <2>1, NoLoadSound
  <1>4. ASSUME NEW d \in Desks, FailTool(d)
        PROVE  ToolSound'
    BY <1>1, <1>4, NoLoadSound DEF FailTool, Refuse, End, GoOn
  <1> QED BY <1>2, <1>3, <1>4, CommitToolSound, ClearSound, ReadSound, RegisterSound DEF ToolNext

LEMMA ToolStepSound ==
  ASSUME ToolSound, [Next]_vars
  PROVE  ToolSound'
  <1> USE DEF LoadSound
  <1>1. LoadSound(Idle)
    BY DEF Idle
  <1>2. CASE UNCHANGED vars
    BY <1>2, NoLoadSound DEF vars
  <1>3. CASE ToolNext
    BY <1>3, ToolNextSound
  <1>4. CASE ProviderNext /\ UNCHANGED toolVars
    <2>1. UNCHANGED task \/ \E d \in Desks : \E q : q.op # "tool" /\ task' = [task EXCEPT ![d] = q]
      <3>1. ASSUME NEW d \in Desks, NEW k \in Kinds, BeginConnect(d, k)
            PROVE  \E q : q.op # "tool" /\ task' = [task EXCEPT ![d] = q]
        <4>1. [op |-> "provider", at |-> "connect", kind |-> k].op # "tool"
          OBVIOUS
        <4> QED BY <3>1, <4>1 DEF BeginConnect, Begin
      <3>2. ASSUME NEW d \in Desks, NEW p \in DOMAIN providers, BeginSync(d, p)
            PROVE  \E q : q.op # "tool" /\ task' = [task EXCEPT ![d] = q]
        <4>1. PICK q : q.op = "provider" /\ task' = [task EXCEPT ![d] = q]
          BY <3>2 DEF BeginSync, Begin
        <4> QED BY <4>1
      <3>3. ASSUME NEW d \in Desks, NEW m \in models, BeginDefault(d, m)
            PROVE  \E q : q.op # "tool" /\ task' = [task EXCEPT ![d] = q]
        <4>1. PICK q : q.op = "provider" /\ task' = [task EXCEPT ![d] = q]
          BY <3>3 DEF BeginDefault, Begin
        <4> QED BY <4>1
      <3>4. ASSUME NEW d \in Desks,
                   StoreProvider(d) \/ StoreModels(d) \/ StoreDefault(d) \/ FailProvider(d)
            PROVE  \E q : q.op # "tool" /\ task' = [task EXCEPT ![d] = q]
        <4>1. PICK q : q.op \in {"provider", "idle"} /\ task' = [task EXCEPT ![d] = q]
          BY <3>4 DEF StoreProvider, StoreModels, StoreDefault, FailProvider, Refuse, End, GoOn, Idle
        <4> QED BY <4>1
      <3> QED BY <1>4, <3>1, <3>2, <3>3, <3>4
            DEF ProviderNext, AddModel, DeleteModel, DeleteProvider, AtOnce
    <2> QED BY <1>4, <2>1, NoLoadSound
  <1>5. ASSUME \/ \E data \in Creations, m \in models : CreateAgent(data, m)
               \/ \E a \in LiveAgents : DeleteAgent(a)
               \/ \E data \in Applications, a \in Bindable : SaveApplication(data, a)
        PROVE  ToolSound'
    BY <1>5, NoLoadSound DEF CreateAgent, DeleteAgent, SaveApplication, AtOnce
  <1>6. ASSUME NEW d \in Desks, NEW a \in LiveAgents, NEW data \in Changes, BeginUpdate(d, a, data)
        PROVE  ToolSound'
    <2>1. PICK q : q.op = "agent" /\ task' = [task EXCEPT ![d] = q] /\ UNCHANGED toolVars
      BY <1>6 DEF BeginUpdate, Begin
    <2> QED BY <2>1, NoLoadSound
  <1>7. ASSUME NEW d \in Desks, FinishUpdate(d) \/ FailUpdate(d)
        PROVE  ToolSound'
    BY <1>1, <1>7, NoLoadSound DEF FinishUpdate, FailUpdate, Refuse, End, GoOn
  <1>8. CASE Restart
    BY <1>8, LoadAtStartSound DEF Restart
  <1> QED BY <1>2, <1>3, <1>4, <1>5, <1>6, <1>7, <1>8 DEF Next


-----------------------------------------------------------------------------
(* References. A row of providers or of agents is there until it is        *)
(* deleted, which takes away what refers to it, or is refused; an update   *)
(* that was begun cannot bring a deleted agent back.                       *)

UpdateSound(q) ==
  q.op = "agent" /\ q.at = "update" => q.becomes["live"] = q.read["live"]

TablesSound ==
  /\ Rows(providers) /\ Rows(agents)
  /\ \A p \in DOMAIN providers : "live" \in DOMAIN providers[p]
  /\ \A a \in DOMAIN agents : {"model", "live"} \subseteq DOMAIN agents[a]
  /\ application = None \/ "agent" \in DOMAIN application
  /\ DOMAIN task = Desks
  /\ \A d \in Desks : UpdateSound(task[d])

ProvidersHold ==
  /\ default # None => Live(default.provider)
  /\ \A m \in models : Live(m.provider)

AgentsHold ==
  /\ \A a \in LiveAgents : agents[a].model \in models \union {None}
  /\ application # None /\ application.agent # None => application.agent \in LiveAgents

ReferenceSound == TablesSound /\ ProvidersHold /\ AgentsHold

LEMMA ReferenceInitSound == Init => ReferenceSound
  <1> SUFFICES ASSUME Init
               PROVE  ReferenceSound
    OBVIOUS
  <1>1. Rows(providers) /\ Rows(agents)
    BY DEF Init, ProviderInit, Rows
  <1>2. \A d \in Desks : UpdateSound(task[d])
    BY DEF Init, UpdateSound, Idle
  <1> QED BY <1>1, <1>2
       DEF Init, ProviderInit, ReferenceSound, TablesSound, ProvidersHold, AgentsHold, LiveAgents

\* Requests about tools and providers are not about agents.
LEMMA OthersWork ==
  ASSUME DOMAIN task = Desks, ToolNext \/ ProviderNext
  PROVE  DOMAIN task' = Desks /\ \A d \in Desks : task'[d] = task[d] \/ task'[d].op # "agent"
  <1> DEFINE One == \E d \in Desks : \E q : q.op # "agent" /\ task' = [task EXCEPT ![d] = q]
             Goal == DOMAIN task' = Desks
                       /\ \A d \in Desks : task'[d] = task[d] \/ task'[d].op # "agent"
  <1> SUFFICES Goal
    OBVIOUS
  <1>1. One \/ UNCHANGED task => Goal
    OBVIOUS
  <1>2. CASE ToolNext
    <2>1. ASSUME NEW d \in Desks, NEW n \in Names, BeginCreate(d, n)
          PROVE  One
      <3>1. PICK q : q.op = "tool" /\ task' = [task EXCEPT ![d] = q]
        BY <2>1 DEF BeginCreate, Begin
      <3> QED BY <3>1
    <2>2. ASSUME NEW d \in Desks, NEW i \in DOMAIN tools, BeginToggle(d, i) \/ BeginDelete(d, i)
          PROVE  One
      <3>1. PICK q : q.op = "tool" /\ task' = [task EXCEPT ![d] = q]
        BY <2>2 DEF BeginToggle, BeginDelete, Begin
      <3> QED BY <3>1
    <2>3. ASSUME NEW d \in Desks, Clear(d) \/ Read(d) \/ Register(d) \/ FailTool(d)
          PROVE  One
      <3>1. PICK q : q.op \in {"tool", "idle"} /\ task' = [task EXCEPT ![d] = q]
        BY <2>3 DEF Clear, Read, Register, FailTool, Refuse, End, GoOn, Idle
      <3> QED BY <3>1
    <2>4. ASSUME NEW d \in Desks, CommitTool(d)
          PROVE  Goal
      <3>1. task' = [o \in Desks |->
              IF o = d THEN [op |-> "tool", at |-> "clear"]
              ELSE IF Doing(o, "tool", "register") THEN [task[o] EXCEPT !.fresh = FALSE]
              ELSE task[o]]
        BY <2>4 DEF CommitTool
      <3>2. \A o \in Desks : Doing(o, "tool", "register") =>
              [task[o] EXCEPT !.fresh = FALSE].op # "agent"
        BY DEF Doing
      <3> QED BY <3>1, <3>2
    <2> HIDE DEF One, Goal
    <2> QED BY <1>1, <1>2, <2>1, <2>2, <2>3, <2>4 DEF ToolNext
  <1>3. CASE ProviderNext
    <2>1. ASSUME NEW d \in Desks, NEW k \in Kinds, BeginConnect(d, k)
          PROVE  One
      <3>1. PICK q : q.op = "provider" /\ task' = [task EXCEPT ![d] = q]
        BY <2>1 DEF BeginConnect, Begin
      <3> QED BY <3>1
    <2>2. ASSUME NEW d \in Desks, NEW p \in DOMAIN providers, BeginSync(d, p)
          PROVE  One
      <3>1. PICK q : q.op = "provider" /\ task' = [task EXCEPT ![d] = q]
        BY <2>2 DEF BeginSync, Begin
      <3> QED BY <3>1
    <2>3. ASSUME NEW d \in Desks, NEW m \in models, BeginDefault(d, m)
          PROVE  One
      <3>1. PICK q : q.op = "provider" /\ task' = [task EXCEPT ![d] = q]
        BY <2>3 DEF BeginDefault, Begin
      <3> QED BY <3>1
    <2>4. ASSUME NEW d \in Desks,
                 StoreProvider(d) \/ StoreModels(d) \/ StoreDefault(d) \/ FailProvider(d)
          PROVE  One
      <3>1. PICK q : q.op \in {"provider", "idle"} /\ task' = [task EXCEPT ![d] = q]
        BY <2>4 DEF StoreProvider, StoreModels, StoreDefault, FailProvider, Refuse, End, GoOn, Idle
      <3> QED BY <3>1
    <2>5. ASSUME \/ \E p \in DOMAIN providers :
                      DeleteProvider(p) \/ \E n \in ModelNames : AddModel(p, n)
                 \/ \E m \in models : DeleteModel(m)
          PROVE  UNCHANGED task
      BY <2>5 DEF DeleteProvider, AddModel, DeleteModel, AtOnce
    <2> HIDE DEF One, Goal
    <2> QED BY <1>1, <1>3, <2>1, <2>2, <2>3, <2>4, <2>5 DEF ProviderNext
  <1> QED BY <1>2, <1>3

\* Requests that neither add nor remove a row.
LEMMA RowsUntouched ==
  ASSUME ReferenceSound, UNCHANGED <<providers, models, default, agents, application>>,
         DOMAIN task' = Desks, \A d \in Desks : task'[d] = task[d] \/ UpdateSound(task'[d])
  PROVE  ReferenceSound'
  <1>1. \A d \in Desks : UpdateSound(task[d])'
    BY DEF ReferenceSound, TablesSound, UpdateSound
  <1> QED BY <1>1 DEF ReferenceSound, TablesSound, ProvidersHold, AgentsHold, Live, LiveAgents

-----------------------------------------------------------------------------
(* The steps of the providers.                                             *)

\* What a request does to providers, models and defaults.
LEMMA ProvidersStepSound ==
  ASSUME ReferenceSound, ProviderNext
  PROVE  /\ Rows(providers') /\ \A p \in DOMAIN providers' : "live" \in DOMAIN providers'[p]
         /\ ProvidersHold'
         /\ DOMAIN task' = Desks /\ \A d \in Desks : UpdateSound(task[d])'
  <1> USE DEF UpdateSound
  <1> DEFINE Tables == Rows(providers) /\ \A p \in DOMAIN providers : "live" \in DOMAIN providers[p]
  <1>1. Tables /\ ProvidersHold
    BY DEF ReferenceSound, TablesSound
  <1>2. DOMAIN task' = Desks /\ \A d \in Desks : UpdateSound(task[d])'
    BY OthersWork DEF ReferenceSound, TablesSound
  <1>3. ASSUME UNCHANGED providerVars
        PROVE  Tables' /\ ProvidersHold'
    BY <1>1, <1>3 DEF providerVars, ProvidersHold, Live
  <1>4. ASSUME NEW d \in Desks,
               \/ \E k \in Kinds : BeginConnect(d, k)
               \/ \E p \in DOMAIN providers : BeginSync(d, p)
               \/ \E m \in models : BeginDefault(d, m)
        PROVE  UNCHANGED providerVars
    BY <1>4 DEF BeginConnect, BeginSync, BeginDefault
  <1>6. ASSUME NEW d \in Desks, StoreProvider(d)
        PROVE  Tables' /\ ProvidersHold'
    <2>1. PICK row : row = [kind |-> task[d].kind, named |-> TRUE, live |-> TRUE]
      OBVIOUS
    <2>2. providers' = Append(providers, row) /\ "live" \in DOMAIN row
          /\ UNCHANGED <<models, default>>
      BY <1>6, <2>1 DEF StoreProvider
    <2>3. Tables' /\ \A p : Live(p) => Live(p)'
      BY <1>1, <2>2, RowsAppended DEF Live
    <2> QED BY <1>1, <2>2, <2>3 DEF ProvidersHold
  <1>7. ASSUME NEW d \in Desks, StoreModels(d)
        PROVE  Tables' /\ ProvidersHold'
    BY <1>1, <1>7 DEF StoreModels, Models, ProvidersHold, Live
  <1>8. ASSUME NEW d \in Desks, StoreDefault(d)
        PROVE  Tables' /\ ProvidersHold'
    <2>1. UNCHANGED <<providers, models>> /\ Live(default'.provider)
      BY <1>8 DEF StoreDefault
    <2> QED BY <1>1, <2>1 DEF ProvidersHold, Live
  <1>9. ASSUME NEW p \in DOMAIN providers, NEW n \in ModelNames, AddModel(p, n)
        PROVE  Tables' /\ ProvidersHold'
    BY <1>1, <1>9 DEF AddModel, Models, ProvidersHold, Live
  <1>10. ASSUME NEW m \in models, DeleteModel(m)
         PROVE  Tables' /\ ProvidersHold'
    BY <1>1, <1>10 DEF DeleteModel, ProvidersHold, Live
  <1>11. ASSUME NEW p \in DOMAIN providers, DeleteProvider(p)
         PROVE  Tables' /\ ProvidersHold'
    <2>1. /\ providers' = [providers EXCEPT ![p].live = FALSE]
          /\ models' = {m \in models : m.provider # p} /\ default' = default
          /\ default # None => default.provider # p
      BY <1>11 DEF DeleteProvider, Deletable
    <2>2. /\ DOMAIN providers' = DOMAIN providers
          /\ providers' = [i \in DOMAIN providers' |-> providers'[i]]
          /\ \A i \in DOMAIN providers : "live" \in DOMAIN providers'[i]
          /\ \A i \in DOMAIN providers \ {p} : providers'[i] = providers[i]
      BY <1>1, <2>1
    <2>3. Tables' /\ \A i : Live(i) /\ i # p => Live(i)'
      BY <1>1, <2>2, RowsChanged DEF Live
    <2> QED BY <1>1, <2>1, <2>3 DEF ProvidersHold
  <1>13. ASSUME NEW d \in Desks, FailProvider(d)
         PROVE  UNCHANGED providerVars
    BY <1>13 DEF FailProvider
  <1> HIDE DEF Tables
  <1>14. Tables' /\ ProvidersHold'
    BY <1>3, <1>4, <1>6, <1>7, <1>8, <1>9, <1>10, <1>11, <1>13 DEF ProviderNext
  <1> QED BY <1>2, <1>14 DEF Tables

\* With its model, an agent loses the reference to it.
LEMMA OrphanedSound ==
  ASSUME ReferenceSound, ProviderNext, agents' = Orphaned, application' = application
  PROVE  ReferenceSound'
  <1>1. /\ DOMAIN agents' = DOMAIN agents /\ agents' = [a \in DOMAIN agents' |-> agents'[a]]
        /\ \A a \in DOMAIN agents :
             /\ {"model", "live"} \subseteq DOMAIN agents'[a]
             /\ agents'[a].live = agents[a].live
             /\ agents'[a].model \in models' \union {None}
    BY DEF Orphaned, ReferenceSound, TablesSound
  <1>2. Rows(agents')
    BY <1>1, RowsChanged DEF ReferenceSound, TablesSound
  <1>3. LiveAgents' = LiveAgents
    BY <1>1 DEF LiveAgents
  <1>4. AgentsHold'
    BY <1>1, <1>3 DEF ReferenceSound, AgentsHold, LiveAgents
  <1>5. TablesSound'
    BY <1>1, <1>2, ProvidersStepSound DEF ReferenceSound, TablesSound
  <1> QED BY <1>4, <1>5, ProvidersStepSound DEF ReferenceSound

-----------------------------------------------------------------------------
(* The steps of the agents and of the application.                         *)

LEMMA CreateAgentSound ==
  ASSUME ReferenceSound, NEW data, NEW m \in models, CreateAgent(data, m)
  PROVE  ReferenceSound'
  <1>1. PICK row : /\ agents' = Append(agents, row)
                   /\ row = Over([model |-> m], Over(Normalised(data), Blank))
                   /\ UNCHANGED <<providers, models, default, application, task>>
    BY DEF CreateAgent, AtOnce, providerVars
  <1>2. {"model", "live"} \subseteq DOMAIN row /\ row.model = m
    BY <1>1 DEF Over, Blank, Has
  <1>3. /\ Rows(agents')
        /\ DOMAIN agents' = 1..(Len(agents) + 1) /\ DOMAIN agents = 1..Len(agents)
        /\ \A a \in DOMAIN agents : a \in DOMAIN agents' /\ agents'[a] = agents[a]
        /\ \A a \in DOMAIN agents' : a \in DOMAIN agents \/ agents'[a] = row
    BY <1>1, RowsAppended, RowsDomain DEF ReferenceSound, TablesSound
  <1>4. TablesSound'
    BY <1>1, <1>2, <1>3 DEF ReferenceSound, TablesSound, UpdateSound
  <1>5. AgentsHold'
    BY <1>1, <1>2, <1>3 DEF ReferenceSound, AgentsHold, LiveAgents
  <1>6. ProvidersHold'
    BY <1>1 DEF ReferenceSound, ProvidersHold, Live
  <1> QED BY <1>4, <1>5, <1>6 DEF ReferenceSound

\* Rows of agents change, and those that are there stay there.
LEMMA AgentsChanged ==
  ASSUME ReferenceSound, UNCHANGED <<providers, models, default>>,
         DOMAIN agents' = DOMAIN agents, agents' = [a \in DOMAIN agents' |-> agents'[a]],
         \A a \in DOMAIN agents : {"model", "live"} \subseteq DOMAIN agents'[a],
         DOMAIN task' = Desks, \A d \in Desks : task'[d] = task[d] \/ UpdateSound(task'[d]),
         application' = None \/ "agent" \in DOMAIN application',
         AgentsHold'
  PROVE  ReferenceSound'
  <1>1. Rows(agents')
    BY RowsChanged DEF ReferenceSound, TablesSound
  <1>2. \A d \in Desks : UpdateSound(task[d])'
    BY DEF ReferenceSound, TablesSound, UpdateSound
  <1>3. ProvidersHold'
    BY DEF ReferenceSound, ProvidersHold, Live
  <1> QED BY <1>1, <1>2, <1>3 DEF ReferenceSound, TablesSound

LEMMA DeleteAgentSound ==
  ASSUME ReferenceSound, NEW a \in LiveAgents, DeleteAgent(a)
  PROVE  ReferenceSound'
  <1>1. /\ agents' = [agents EXCEPT ![a].live = FALSE]
        /\ application' = IF application # None /\ application.agent = a
                          THEN [application EXCEPT !.agent = None] ELSE application
        /\ UNCHANGED <<providers, models, default, task>>
    BY DEF DeleteAgent, AtOnce, providerVars
  <1>2. /\ DOMAIN agents' = DOMAIN agents /\ agents' = [o \in DOMAIN agents' |-> agents'[o]]
        /\ \A o \in DOMAIN agents : {"model", "live"} \subseteq DOMAIN agents'[o]
        /\ \A o \in DOMAIN agents \ {a} : agents'[o] = agents[o]
        /\ agents'[a].live = FALSE
    BY <1>1 DEF ReferenceSound, TablesSound, LiveAgents
  <1>3. LiveAgents' = LiveAgents \ {a}
    BY <1>2 DEF LiveAgents
  <1>4. /\ application' = None \/ "agent" \in DOMAIN application'
        /\ application' # None /\ application'.agent # None =>
             application # None /\ application'.agent = application.agent /\ application.agent # a
    BY <1>1 DEF ReferenceSound, TablesSound
  <1>5. AgentsHold'
    BY <1>1, <1>2, <1>3, <1>4 DEF ReferenceSound, AgentsHold, LiveAgents
  <1> QED BY <1>1, <1>2, <1>4, <1>5, AgentsChanged DEF ReferenceSound, TablesSound

\* The row becomes what is sent, and nothing that is sent says that it is there.
LEMMA BeginUpdateSound ==
  ASSUME ReferenceSound, NEW d \in Desks, NEW a \in LiveAgents, NEW data \in Changes,
         BeginUpdate(d, a, data)
  PROVE  ReferenceSound'
  <1>1. PICK q : /\ q = [op |-> "agent", at |-> "update", of |-> a, read |-> agents[a],
                         becomes |-> Normalised(Over(data, agents[a]))]
                 /\ task' = [task EXCEPT ![d] = q]
                 /\ UNCHANGED <<providers, models, default, agents, application>>
    BY DEF BeginUpdate, Begin, providerVars
  <1>2. PICK merged : merged = Over(data, agents[a])
    OBVIOUS
  <1>3. "live" \in DOMAIN merged /\ merged["live"] = agents[a]["live"]
    BY <1>2, LiveIsNotTold DEF Over, Has, ReferenceSound, TablesSound, LiveAgents
  <1>4. Normalised(merged)["live"] = merged["live"]
    BY <1>3 DEF Normalised, Has
  <1>5. UpdateSound(q)
    BY <1>1, <1>2, <1>3, <1>4 DEF UpdateSound
  <1>6. DOMAIN task' = Desks /\ \A o \in Desks : task'[o] = task[o] \/ UpdateSound(task'[o])
    BY <1>1, <1>5 DEF ReferenceSound, TablesSound
  <1> QED BY <1>1, <1>6, RowsUntouched

LEMMA FinishUpdateSound ==
  ASSUME ReferenceSound, NEW d \in Desks, FinishUpdate(d)
  PROVE  ReferenceSound'
  <1>1. PICK q, written :
          /\ q = task[d] /\ written = {f \in DOMAIN q.read : q.becomes[f] # q.read[f]}
          /\ q.op = "agent" /\ q.at = "update" /\ q.of \in LiveAgents
          /\ "model" \in written => q.becomes.model \in models
          /\ agents' = [agents EXCEPT ![q.of] =
                          [f \in DOMAIN @ |-> IF f \in written THEN q.becomes[f] ELSE @[f]]]
          /\ task' = [task EXCEPT ![d] = Idle]
          /\ UNCHANGED <<providers, models, default, application>>
    BY DEF FinishUpdate, Doing, End, GoOn, providerVars
  <1>2. "live" \notin written
    BY <1>1 DEF ReferenceSound, TablesSound, UpdateSound
  <1>3. PICK a, row : /\ a = q.of /\ agents' = [agents EXCEPT ![a] = row]
                      /\ row = [f \in DOMAIN agents[a] |->
                                  IF f \in written THEN q.becomes[f] ELSE agents[a][f]]
    BY <1>1
  <1>4. /\ {"model", "live"} \subseteq DOMAIN row /\ row.live = agents[a].live
        /\ row.model \in models \union {None}
    BY <1>1, <1>2, <1>3 DEF ReferenceSound, TablesSound, AgentsHold, LiveAgents
  <1>5. /\ DOMAIN agents' = DOMAIN agents /\ agents' = [o \in DOMAIN agents' |-> agents'[o]]
        /\ \A o \in DOMAIN agents : {"model", "live"} \subseteq DOMAIN agents'[o]
        /\ \A o \in DOMAIN agents \ {a} : agents'[o] = agents[o]
        /\ agents'[a] = row /\ a \in DOMAIN agents
    <2>1. a \in DOMAIN agents /\ agents' = [agents EXCEPT ![a] = row]
      BY <1>1, <1>3 DEF LiveAgents
    <2>2. \A o \in DOMAIN agents : {"model", "live"} \subseteq DOMAIN agents[o]
      BY DEF ReferenceSound, TablesSound
    <2> QED BY <1>4, <2>1, <2>2
  <1>6. LiveAgents' = LiveAgents
    BY <1>4, <1>5 DEF LiveAgents
  <1>7. AgentsHold'
    BY <1>1, <1>4, <1>5, <1>6 DEF ReferenceSound, AgentsHold, LiveAgents
  <1>8. DOMAIN task' = Desks /\ \A o \in Desks : task'[o] = task[o] \/ UpdateSound(task'[o])
    BY <1>1 DEF ReferenceSound, TablesSound, UpdateSound, Idle
  <1> QED BY <1>1, <1>5, <1>7, <1>8, AgentsChanged DEF ReferenceSound, TablesSound

LEMMA SaveApplicationSound ==
  ASSUME ReferenceSound, NEW data, NEW a \in Bindable, SaveApplication(data, a)
  PROVE  ReferenceSound'
  <1>1. /\ application' = Over([agent |-> a], data)
        /\ UNCHANGED <<providers, models, default, agents, task>>
    BY DEF SaveApplication, AtOnce, providerVars
  <1>2. "agent" \in DOMAIN application' /\ application'.agent = a
    BY <1>1 DEF Over, Has
  <1>3. AgentsHold'
    BY <1>1, <1>2 DEF ReferenceSound, AgentsHold, LiveAgents, Bindable
  <1>4. ProvidersHold'
    BY <1>1 DEF ReferenceSound, ProvidersHold, Live
  <1>5. TablesSound'
    BY <1>1, <1>2 DEF ReferenceSound, TablesSound, UpdateSound
  <1> QED BY <1>3, <1>4, <1>5 DEF ReferenceSound

LEMMA RestartSound ==
  ASSUME ReferenceSound, Restart
  PROVE  ReferenceSound'
  <1>1. task' = [d \in Desks |-> Idle] /\ AutoConfigure /\ UNCHANGED <<agents, application>>
    BY DEF Restart, catalogVars
  <1>2. DOMAIN task' = Desks /\ \A d \in Desks : UpdateSound(task[d])'
    BY <1>1 DEF UpdateSound, Idle
  <1>3. CASE UNCHANGED providerVars
    BY <1>1, <1>2, <1>3, RowsUntouched DEF providerVars, UpdateSound
  <1>4. CASE ~UNCHANGED providerVars
    <2>1. PICK p, row :
            /\ p = Len(providers) + 1 /\ row = [kind |-> Configured, named |-> FALSE, live |-> TRUE]
            /\ providers' = Append(providers, row) /\ models' = models
            /\ default' = default \/ default'.provider = p
      BY <1>1, <1>4 DEF AutoConfigure, Models
    <2>2. "live" \in DOMAIN row /\ row.live
      BY <2>1
    <2>3. /\ Rows(providers') /\ \A i \in DOMAIN providers' : "live" \in DOMAIN providers'[i]
          /\ Live(p)' /\ \A i : Live(i) => Live(i)'
      <3>1. DOMAIN providers = 1..Len(providers) /\ Len(providers) \in Nat
        BY RowsDomain DEF ReferenceSound, TablesSound
      <3> QED BY <2>1, <2>2, <3>1, RowsAppended DEF ReferenceSound, TablesSound, Live
    <2>4. ProvidersHold'
      BY <2>1, <2>3 DEF ReferenceSound, ProvidersHold
    <2>5. AgentsHold'
      BY <1>1, <2>1 DEF ReferenceSound, AgentsHold, LiveAgents
    <2>6. TablesSound'
      BY <1>1, <1>2, <2>3 DEF ReferenceSound, TablesSound
    <2> QED BY <2>4, <2>5, <2>6 DEF ReferenceSound
  <1> QED BY <1>3, <1>4

LEMMA ReferenceStepSound ==
  ASSUME ReferenceSound, [Next]_vars
  PROVE  ReferenceSound'
  <1> USE DEF UpdateSound
  <1>1. UpdateSound(Idle)
    BY DEF Idle
  <1>2. DOMAIN task = Desks
    BY DEF ReferenceSound, TablesSound
  <1>3. CASE UNCHANGED vars
    BY <1>2, <1>3, RowsUntouched DEF vars, providerVars, catalogVars
  <1>4. CASE ToolNext /\ UNCHANGED <<providerVars, catalogVars>>
    <2>1. DOMAIN task' = Desks /\ \A o \in Desks : task'[o] = task[o] \/ UpdateSound(task'[o])
      BY <1>2, <1>4, OthersWork
    <2> QED BY <1>4, <2>1, RowsUntouched DEF providerVars, catalogVars
  <1>5. CASE ProviderNext /\ agents' = Orphaned /\ UNCHANGED <<toolVars, application, raced>>
    BY <1>5, OrphanedSound
  <1>6. ASSUME NEW d \in Desks, FailUpdate(d)
        PROVE  ReferenceSound'
    BY <1>1, <1>2, <1>6, RowsUntouched DEF FailUpdate, Refuse, End, GoOn, providerVars, catalogVars
  <1> QED BY <1>3, <1>4, <1>5, <1>6, CreateAgentSound, DeleteAgentSound, BeginUpdateSound,
             FinishUpdateSound, SaveApplicationSound, RestartSound DEF Next

-----------------------------------------------------------------------------
(* What agents may do. A row is what _normalize_agent_payload makes of     *)
(* something, unless two updates of it overlapped.                         *)

\* What is told or stored of an agent.
Told(data) ==
  /\ DOMAIN data \subseteq Fields
  /\ "type" \in DOMAIN data => data["type"] \in Types
  /\ "tools" \in DOMAIN data => data["tools"] \subseteq AllNames \union {All}
  /\ "config" \in DOMAIN data => data["config"] \in Configs
  /\ "policy" \in DOMAIN data => \A f \in DOMAIN data["policy"] : data["policy"][f] \in BOOLEAN

Policies == [tools : BOOLEAN, search : BOOLEAN, swarm : BOOLEAN, ontology : BOOLEAN]

\* A policy that the type agrees with.
PolicyFits(type, names, p) ==
  /\ p \in Policies
  /\ p["search"] = TRUE => p["tools"] = TRUE
  /\ type = "tool" /\ names # {} => p["tools"] = TRUE
  /\ type = "workflow" => p["swarm"] = TRUE
  /\ type = "ontology" => p["ontology"] = TRUE /\ p["swarm"] = FALSE

ConfigFits(type, c) ==
  /\ c \in Configs
  /\ c["mode"] # None => c = Config(c["mode"])
  /\ type = "ontology" => c["mode"] \notin {None, "off"}
  /\ type = "general" => c["mode"] \in {None, "off"}

\* A policy that says nothing is that of an agent created without one.
Kept(r) ==
  /\ All \in r["tools"] => r["tools"] = {All}
  /\ r["policy"] = <<>> => r["type"] = "general"
  /\ r["policy"] # <<>> => PolicyFits(r["type"], r["tools"], r["policy"])
  /\ ConfigFits(r["type"], r["config"])

LEMMA SaidIsBoolean ==
  ASSUME NEW type, NEW names, NEW enabled, NEW raw,
         \A f \in DOMAIN raw : raw[f] \in BOOLEAN
  PROVE  LET said == Over(raw, Defaults(type, names, enabled))
         IN /\ said["tools"] \in BOOLEAN /\ said["search"] \in BOOLEAN
            /\ said["swarm"] \in BOOLEAN /\ said["ontology"] \in BOOLEAN
  <1> DEFINE d == Defaults(type, names, enabled)
             said == Over(raw, d)
  <1>1. /\ d["tools"] \in BOOLEAN /\ d["search"] \in BOOLEAN
        /\ d["swarm"] \in BOOLEAN /\ d["ontology"] \in BOOLEAN
        /\ DOMAIN d = {"tools", "search", "swarm", "ontology"}
    BY DEF Defaults
  <1> HIDE DEF d
  <1>2. \A f \in {"tools", "search", "swarm", "ontology"} :
          said[f] = IF f \in DOMAIN raw THEN raw[f] ELSE d[f]
    BY <1>1 DEF Over, Has
  <1> QED BY <1>1, <1>2 DEF d

\* What _normalize_runtime_policy makes of anything fits.
LEMMA PolicyMade ==
  ASSUME NEW type, NEW names, NEW enabled, NEW raw,
         \A f \in DOMAIN raw : raw[f] \in BOOLEAN
  PROVE  PolicyFits(type, names, Policy(type, names, enabled, raw))
  <1> DEFINE said == Over(raw, Defaults(type, names, enabled))
  <1>1. /\ said["tools"] \in BOOLEAN /\ said["search"] \in BOOLEAN
        /\ said["swarm"] \in BOOLEAN /\ said["ontology"] \in BOOLEAN
    BY SaidIsBoolean
  <1>2. PICK t \in BOOLEAN, e \in BOOLEAN, w \in BOOLEAN, o \in BOOLEAN :
          t = said["tools"] /\ e = said["search"] /\ w = said["swarm"] /\ o = said["ontology"]
    BY <1>1
  <1>3. PICK c \in BOOLEAN :
          c = (\/ t
               \/ type = "tool" /\ names # {}
               \/ type = "general" /\ names # {} /\ ~Has(raw, "tools"))
    OBVIOUS
  <1>4. PICK s \in BOOLEAN, h \in BOOLEAN, y \in BOOLEAN :
          /\ s = (e /\ c)
          /\ h = ((w /\ type # "ontology") \/ type = "workflow")
          /\ y = (o \/ type = "ontology")
    OBVIOUS
  <1>5. Policy(type, names, enabled, raw) = [tools |-> c, search |-> s, swarm |-> h, ontology |-> y]
    <2>1. Policy(type, names, enabled, raw) =
            [tools |-> c, search |-> e /\ c, swarm |-> (w /\ type # "ontology") \/ type = "workflow",
             ontology |-> o \/ type = "ontology"]
      BY <1>2, <1>3 DEF Policy
    <2> QED BY <1>4, <2>1
  <1>6. /\ s = TRUE => c = TRUE
        /\ type = "tool" /\ names # {} => c = TRUE
        /\ type = "workflow" => h = TRUE
        /\ type = "ontology" => y = TRUE /\ h = FALSE
    BY <1>3, <1>4
  <1> HIDE DEF said
  <1> QED BY <1>5, <1>6 DEF PolicyFits, Policies

\* And what fits stays as it is.
LEMMA PolicyStays ==
  ASSUME NEW type, NEW names, NEW enabled, NEW p, PolicyFits(type, names, p)
  PROVE  Policy(type, names, enabled, p) = p
  <1> DEFINE d == Defaults(type, names, enabled)
             said == Over(p, d)
  <1>1. DOMAIN d = {"tools", "search", "swarm", "ontology"} /\ DOMAIN p = DOMAIN d
    BY DEF Defaults, PolicyFits, Policies
  <1> HIDE DEF d
  <1>2. said = p
    BY <1>1 DEF Over, Has, PolicyFits, Policies
  <1> HIDE DEF said
  <1>3. PICK t \in BOOLEAN, e \in BOOLEAN, w \in BOOLEAN, o \in BOOLEAN :
          /\ p = [tools |-> t, search |-> e, swarm |-> w, ontology |-> o]
          /\ e = TRUE => t = TRUE
          /\ type = "tool" /\ names # {} => t = TRUE
          /\ type = "workflow" => w = TRUE
          /\ type = "ontology" => o = TRUE /\ w = FALSE
    BY DEF PolicyFits, Policies
  <1>4. Has(p, "tools")
    BY <1>3 DEF Has
  <1>5. t = said["tools"] /\ e = said["search"] /\ w = said["swarm"] /\ o = said["ontology"]
    BY <1>2, <1>3
  <1>6. PICK c \in BOOLEAN :
          c = (\/ t
               \/ type = "tool" /\ names # {}
               \/ type = "general" /\ names # {} /\ ~Has(p, "tools"))
    OBVIOUS
  <1>7. Policy(type, names, enabled, p) =
          [tools |-> c, search |-> e /\ c, swarm |-> (w /\ type # "ontology") \/ type = "workflow",
           ontology |-> o \/ type = "ontology"]
    BY <1>5, <1>6 DEF Policy, said, d
  <1>8. /\ c = t /\ (e /\ c) = e
        /\ ((w /\ type # "ontology") \/ type = "workflow") = w
        /\ (o \/ type = "ontology") = o
    BY <1>3, <1>4, <1>6
  <1> QED BY <1>3, <1>7, <1>8

\* What _normalize_agent_payload makes of something that is told.
Made(data, n, type, names, stored, policy) ==
  /\ DOMAIN n = DOMAIN data \union {"type", "policy"}
  /\ n = [f \in DOMAIN n |-> n[f]]
  /\ n["type"] = type /\ n["policy"] = policy
  /\ IF "tools" \in DOMAIN data THEN n["tools"] = names ELSE names = {}
  /\ "config" \in DOMAIN data => n["config"] = stored
  /\ type \in Types /\ names \subseteq AllNames \union {All}
  /\ All \in names => names = {All}
  /\ PolicyFits(type, names, policy)
  /\ ConfigFits(type, stored)
  /\ type = "ontology" => "config" \in DOMAIN data

LEMMA ModeTold ==
  ASSUME NEW c \in Configs
  PROVE  /\ Mode(c) \in Modes /\ Config(Mode(c)) \in Configs
         /\ Config(Mode(c))["mode"] = Mode(c) /\ Mode(c) # None
         /\ Config(Mode(c))["enabled"] = (Mode(c) # "off")
  BY ToldAssumption DEF Mode, Config, Configs, Modes

LEMMA NormalisedMade ==
  ASSUME NEW data, Told(data), DOMAIN data \intersect Touched # {},
         Inferred(data) = "ontology" => "config" \in DOMAIN data
  PROVE  \E type, names, stored, policy : Made(data, Normalised(data), type, names, stored, policy)
  <1>1. PICK names : names = IF All \in Or(data, "tools", {}) THEN {All} ELSE Or(data, "tools", {})
    OBVIOUS
  <1>2. PICK told : told = IF Has(data, "config") THEN Config(Mode(data.config)) ELSE NoConfig
    OBVIOUS
  <1>3. PICK type : type = IF Inferred(data) = "general" /\ told.enabled THEN "ontology"
                           ELSE Inferred(data)
    OBVIOUS
  <1>4. PICK stored : stored = IF type = "ontology" /\ ~told.enabled THEN Config("auto") ELSE told
    OBVIOUS
  <1>5. PICK raw : raw = Or(data, "policy", <<>>)
    OBVIOUS
  <1>6. PICK policy : policy = Policy(type, names, told.enabled, raw)
    OBVIOUS
  <1>7. PICK whole : whole = [type |-> type, tools |-> names, config |-> stored, policy |-> policy]
    OBVIOUS
  <1>8. Normalised(data) = [f \in DOMAIN data \union {"type", "policy"} |->
                              IF Has(whole, f) THEN whole[f] ELSE data[f]]
    BY <1>1, <1>2, <1>3, <1>4, <1>5, <1>6, <1>7 DEF Normalised
  <1>9. Inferred(data) \in Types
    BY DEF Inferred, Has, Told, Types
  <1>10. type \in Types
    BY <1>3, <1>9 DEF Types
  <1>11. names \subseteq AllNames \union {All} /\ (All \in names => names = {All})
    BY <1>1 DEF Told, Or, Has
  <1>12. told \in Configs /\ ("config" \in DOMAIN data => told = Config(told["mode"])
                                 /\ told["mode"] \in Modes
                                 /\ told["enabled"] = (told["mode"] # "off"))
         /\ ("config" \notin DOMAIN data => told["enabled"] = FALSE /\ told["mode"] = None)
    <2>1. CASE "config" \in DOMAIN data
      <3>1. data["config"] \in Configs
        BY <2>1 DEF Told
      <3>2. told = Config(Mode(data["config"]))
        BY <1>2, <2>1 DEF Has
      <3> QED BY <2>1, <3>1, <3>2, ModeTold
    <2>2. CASE "config" \notin DOMAIN data
      BY <1>2, <2>2 DEF Has, NoConfig, Configs
    <2> QED BY <2>1, <2>2
  <1>13. type = "ontology" => "config" \in DOMAIN data
    BY <1>3, <1>12
  <1>14. ConfigFits(type, stored)
    <2>1. PICK b \in BOOLEAN : Config("auto") = [enabled |-> b, mode |-> "auto"]
      BY DEF Config
    <2>2. CASE type = "ontology" /\ ~told.enabled
      <3>1. stored = Config("auto") /\ stored["mode"] = "auto"
        BY <1>4, <2>1, <2>2
      <3>2. Config("auto") \in Configs
        BY <2>1 DEF Configs, Modes
      <3> QED BY <2>2, <3>1, <3>2, ToldAssumption DEF ConfigFits, Modes
    <2>3. CASE ~(type = "ontology" /\ ~told.enabled)
      <3>1. stored = told
        BY <1>4, <2>3
      <3>2. type = "ontology" => told["mode"] \notin {None, "off"}
        BY <1>12, <1>13, <2>3, ToldAssumption
      <3>3. type = "general" => told["mode"] \in {None, "off"}
        BY <1>3, <1>12
      <3>4. told["mode"] # None => told = Config(told["mode"])
        BY <1>12
      <3> QED BY <1>12, <3>1, <3>2, <3>3, <3>4 DEF ConfigFits
    <2> QED BY <2>2, <2>3
  <1>15. PolicyFits(type, names, policy)
    <2>1. \A f \in DOMAIN raw : raw[f] \in BOOLEAN
      BY <1>5 DEF Told, Or, Has
    <2> QED BY <1>6, <2>1, PolicyMade
  <1>16. PICK n : n = Normalised(data)
    OBVIOUS
  <1>17. /\ DOMAIN n = DOMAIN data \union {"type", "policy"}
         /\ n = [f \in DOMAIN n |-> n[f]]
         /\ n["type"] = type /\ n["policy"] = policy
         /\ "tools" \in DOMAIN data => n["tools"] = names
         /\ "config" \in DOMAIN data => n["config"] = stored
    BY <1>7, <1>8, <1>16 DEF Has
  <1>18. "tools" \notin DOMAIN data => names = {}
    BY <1>1 DEF Or, Has
  <1>19. Made(data, n, type, names, stored, policy)
    BY <1>10, <1>11, <1>13, <1>14, <1>15, <1>17, <1>18 DEF Made
  <1> QED BY <1>16, <1>19

RowShape(r) == r = [f \in DOMAIN r |-> r[f]] /\ DOMAIN r = Fields /\ Told(r)

LEMMA PolicyTold ==
  ASSUME NEW type, NEW names, NEW p, PolicyFits(type, names, p)
  PROVE  p # <<>> /\ \A f \in DOMAIN p : p[f] \in BOOLEAN
  <1>1. DOMAIN p = {"tools", "search", "swarm", "ontology"}
        /\ p["tools"] \in BOOLEAN /\ p["search"] \in BOOLEAN
        /\ p["swarm"] \in BOOLEAN /\ p["ontology"] \in BOOLEAN
    BY DEF PolicyFits, Policies
  <1>2. DOMAIN <<>> = {}
    OBVIOUS
  <1> QED BY <1>1, <1>2

\* An update makes a row of what it has read and of what is sent.
LEMMA UpdateMade ==
  ASSUME NEW data \in Changes, NEW r, RowShape(r)
  PROVE  RowShape(Normalised(Over(data, r))) /\ Kept(Normalised(Over(data, r)))
  <1>1. PICK m : m = Over(data, r)
    OBVIOUS
  <1>2. DOMAIN m = Fields
    BY <1>1, ToldAssumption DEF Over, Has, RowShape
  <1>3. \A f \in Fields : m[f] = IF f \in DOMAIN data THEN data[f] ELSE r[f]
    BY <1>1, <1>2 DEF Over, Has, RowShape
  <1>4. Told(m)
    <2>1. Told(r) /\ DOMAIN r = Fields
      BY DEF RowShape
    <2> QED BY <1>2, <1>3, <2>1, ToldAssumption DEF Told, Fields
  <1>5. {"type", "tools", "config", "policy"} \subseteq DOMAIN m
        /\ DOMAIN m \intersect Touched # {}
    BY <1>2 DEF Fields, Touched
  <1>6. PICK type, names, stored, policy :
          Made(m, Normalised(m), type, names, stored, policy)
    BY <1>4, <1>5, NormalisedMade
  <1>7. PICK n : n = Normalised(m)
    OBVIOUS
  <1>8. /\ DOMAIN n = Fields /\ n = [f \in DOMAIN n |-> n[f]]
        /\ n["type"] = type /\ n["tools"] = names /\ n["config"] = stored /\ n["policy"] = policy
        /\ type \in Types /\ names \subseteq AllNames \union {All}
        /\ All \in names => names = {All}
        /\ PolicyFits(type, names, policy) /\ ConfigFits(type, stored)
    BY <1>2, <1>5, <1>6, <1>7 DEF Made
  <1>9. RowShape(n)
    <2>1. stored \in Configs
      BY <1>8 DEF ConfigFits
    <2> QED BY <1>8, <2>1, PolicyTold DEF RowShape, Told
  <1>10. Kept(n)
    BY <1>8, PolicyTold DEF Kept
  <1> QED BY <1>1, <1>7, <1>9, <1>10

\* So does a creation; what is not sent has its default.
LEMMA CreatedMade ==
  ASSUME NEW data \in Creations, NEW m, Acceptable(data)
  PROVE  LET row == Over([model |-> m], Over(Normalised(data), Blank))
         IN RowShape(row) /\ Kept(row)
  <1>1. Told(data) /\ DOMAIN data \subseteq Fields
    BY ToldAssumption DEF Told
  <1>2. PICK n : n = Normalised(data)
    OBVIOUS
  <1>3. PICK row : row = Over([model |-> m], Over(n, Blank))
    OBVIOUS
  <1>4. /\ DOMAIN Blank = {"tools", "type", "config", "policy", "role", "live"}
        /\ Blank["tools"] = {} /\ Blank["type"] = "general" /\ Blank["policy"] = <<>>
        /\ Blank["config"] = NoConfig
    BY DEF Blank
  <1>5. DOMAIN n \subseteq Fields =>
          /\ DOMAIN row = Fields /\ row = [f \in DOMAIN row |-> row[f]]
          /\ \A f \in {"tools", "type", "config", "policy"} :
               row[f] = IF f \in DOMAIN n THEN n[f] ELSE Blank[f]
    <2>1. PICK o : o = Over(n, Blank)
      OBVIOUS
    <2>2. DOMAIN n \subseteq Fields =>
            /\ DOMAIN o = DOMAIN n \union DOMAIN Blank
            /\ \A f \in DOMAIN o : o[f] = IF f \in DOMAIN n THEN n[f] ELSE Blank[f]
      BY <2>1 DEF Over, Has
    <2>3. row = [f \in {"model"} \union DOMAIN o |-> IF f = "model" THEN m ELSE o[f]]
      BY <1>3, <2>1 DEF Over, Has
    <2> QED BY <1>4, <2>2, <2>3 DEF Fields
  <1>6. NoConfig \in Configs /\ ConfigFits("general", NoConfig)
    <2>1. PICK b \in BOOLEAN : NoConfig = [enabled |-> b, mode |-> None]
      BY DEF NoConfig
    <2> QED BY <2>1 DEF Configs, ConfigFits
  <1>7. DOMAIN <<>> = {}
    OBVIOUS
  <1>8. CASE DOMAIN data \intersect Touched = {}
    <2>1. n = data /\ {"tools", "type", "config", "policy"} \intersect DOMAIN n = {}
      BY <1>2, <1>8 DEF Normalised, Touched
    <2>2. /\ row["tools"] = {} /\ row["type"] = "general" /\ row["policy"] = <<>>
          /\ row["config"] = NoConfig /\ DOMAIN row = Fields
          /\ row = [f \in DOMAIN row |-> row[f]]
      BY <1>1, <1>4, <1>5, <2>1
    <2>3. RowShape(row)
      BY <1>6, <1>7, <2>2 DEF RowShape, Told, Types
    <2>4. Kept(row)
      BY <1>6, <2>2 DEF Kept
    <2> QED BY <1>2, <1>3, <2>3, <2>4
  <1>9. CASE DOMAIN data \intersect Touched # {}
    <2>1. PICK type, names, stored, policy : Made(data, n, type, names, stored, policy)
      BY <1>1, <1>2, <1>9, NormalisedMade DEF Acceptable, Has
    <2>2. DOMAIN n \subseteq Fields
      BY <1>1, <2>1 DEF Made, Fields
    <2>3. /\ row["type"] = type /\ row["tools"] = names /\ row["policy"] = policy
          /\ row["config"] = (IF "config" \in DOMAIN data THEN stored ELSE NoConfig)
          /\ DOMAIN row = Fields /\ row = [f \in DOMAIN row |-> row[f]]
      BY <1>4, <1>5, <2>1, <2>2 DEF Made
    <2>4. /\ type \in Types /\ names \subseteq AllNames \union {All}
          /\ All \in names => names = {All}
          /\ PolicyFits(type, names, policy) /\ ConfigFits(type, stored)
          /\ type = "ontology" => "config" \in DOMAIN data
      BY <2>1 DEF Made
    <2>5. ConfigFits(type, row["config"])
      BY <1>6, <2>3, <2>4 DEF ConfigFits, NoConfig
    <2>6. RowShape(row)
      <3>1. row["config"] \in Configs
        BY <2>5 DEF ConfigFits
      <3> QED BY <2>3, <2>4, <3>1, PolicyTold DEF RowShape, Told
    <2>7. Kept(row)
      BY <2>3, <2>4, <2>5, PolicyTold DEF Kept
    <2> QED BY <1>2, <1>3, <2>6, <2>7
  <1> QED BY <1>8, <1>9

\* Saving a row again changes nothing of it.
LEMMA SavedAgain ==
  ASSUME NEW r, RowShape(r), Kept(r), DOMAIN r["policy"] # {}, r["config"]["mode"] # None
  PROVE  Normalised(r) = r
  <1>1. /\ {"type", "tools", "config", "policy"} \subseteq DOMAIN r
        /\ DOMAIN r \intersect Touched # {}
    BY DEF RowShape, Fields, Touched
  <1>2. PolicyFits(r["type"], r["tools"], r["policy"])
    <2>1. r["policy"] # <<>>
      OBVIOUS
    <2> QED BY <2>1 DEF Kept
  <1>3. /\ r["config"] \in Configs /\ r["config"] = Config(r["config"]["mode"])
        /\ r["type"] = "ontology" => r["config"]["mode"] # "off"
        /\ r["type"] = "general" => r["config"]["mode"] = "off"
    BY DEF Kept, ConfigFits
  <1>4. Inferred(r) = r["type"]
    BY <1>1 DEF Inferred, Has
  <1>5. PICK told : told = IF Has(r, "config") THEN Config(Mode(r.config)) ELSE NoConfig
    OBVIOUS
  <1>6. told = r["config"]
    BY <1>1, <1>3, <1>5 DEF Has, Mode
  <1>7. (r["type"] = "ontology" => told.enabled) /\ (r["type"] = "general" => ~told.enabled)
    <2>1. PICK mode : mode = r["config"]["mode"]
      OBVIOUS
    <2>2. PICK b \in BOOLEAN : b = (mode # "off") /\ Config(mode) = [enabled |-> b, mode |-> mode]
      BY DEF Config
    <2>3. told = [enabled |-> b, mode |-> mode]
      BY <1>3, <1>6, <2>1, <2>2
    <2>4. told.enabled = b
      BY <2>3
    <2> QED BY <1>3, <2>1, <2>2, <2>4
  <1>8. PICK names : names = IF All \in Or(r, "tools", {}) THEN {All} ELSE Or(r, "tools", {})
    OBVIOUS
  <1>9. names = r["tools"]
    BY <1>1, <1>8 DEF Or, Has, Kept
  <1>10. PICK type : type = IF Inferred(r) = "general" /\ told.enabled THEN "ontology"
                            ELSE Inferred(r)
    OBVIOUS
  <1>11. type = r["type"]
    BY <1>4, <1>7, <1>10
  <1>12. PICK stored : stored = IF type = "ontology" /\ ~told.enabled THEN Config("auto") ELSE told
    OBVIOUS
  <1>13. stored = r["config"]
    BY <1>6, <1>7, <1>11, <1>12
  <1>14. PICK policy : policy = Policy(type, names, told.enabled, Or(r, "policy", <<>>))
    OBVIOUS
  <1>15. policy = r["policy"]
    BY <1>1, <1>2, <1>9, <1>11, <1>14, PolicyStays DEF Or, Has
  <1>16. PICK whole : whole = [type |-> type, tools |-> names, config |-> stored, policy |-> policy]
    OBVIOUS
  <1>17. Normalised(r) = [f \in DOMAIN r \union {"type", "policy"} |->
                            IF Has(whole, f) THEN whole[f] ELSE r[f]]
    BY <1>1, <1>5, <1>8, <1>10, <1>12, <1>14, <1>16 DEF Normalised
  <1>18. DOMAIN r \union {"type", "policy"} = DOMAIN r
    BY <1>1
  <1>19. \A f \in DOMAIN r : (IF Has(whole, f) THEN whole[f] ELSE r[f]) = r[f]
    BY <1>9, <1>11, <1>13, <1>15, <1>16 DEF Has
  <1>20. Normalised(r) = [f \in DOMAIN r |-> r[f]]
    BY <1>17, <1>18, <1>19
  <1> QED BY <1>20 DEF RowShape

\* The fields an update writes.
Data == Fields \ {"model", "live"}

Saving(d) == Doing(d, "agent", "update")

\* What an update has made of a row is a row; unless it overlaps another, what it has
\* read is what is stored.
SaveSound(q) ==
  q.op = "agent" /\ q.at = "update" =>
    /\ q.of \in DOMAIN agents /\ DOMAIN q.read = Fields
    /\ RowShape(q.becomes) /\ Kept(q.becomes)
    /\ q.of \notin raced => \A f \in Data : agents[q.of][f] = q.read[f]

SavedSound ==
  /\ \A a \in DOMAIN agents : RowShape(agents[a]) /\ (a \notin raced => Kept(agents[a]))
  /\ \A d \in Desks : SaveSound(task[d])
  /\ \A d, e \in Desks :
       Saving(d) /\ Saving(e) /\ d # e /\ task[d].of = task[e].of => task[d].of \in raced

\* A row is sound by the fields an update writes.
LEMMA SameData ==
  ASSUME NEW r, NEW u, RowShape(r), DOMAIN u = Fields, u = [f \in DOMAIN u |-> u[f]],
         \A f \in Data : u[f] = r[f]
  PROVE  RowShape(u) /\ (Kept(r) => Kept(u))
  <1>1. \A f \in {"type", "tools", "config", "policy"} : u[f] = r[f]
    BY DEF Data, Fields
  <1> QED BY <1>1 DEF RowShape, Told, Kept, Fields

\* No row is written by an update, and no update begins.
LEMMA RowsKept ==
  ASSUME SavedSound, raced' = raced, DOMAIN agents \subseteq DOMAIN agents',
         \A a \in DOMAIN agents :
           /\ DOMAIN agents'[a] = Fields /\ agents'[a] = [f \in DOMAIN agents'[a] |-> agents'[a][f]]
           /\ \A f \in Data : agents'[a][f] = agents[a][f],
         \A a \in DOMAIN agents' \ DOMAIN agents : RowShape(agents'[a]) /\ Kept(agents'[a]),
         \A d \in Desks : task'[d] = task[d] \/ task'[d].op # "agent"
  PROVE  SavedSound'
  <1>1. ASSUME NEW a \in DOMAIN agents'
        PROVE  RowShape(agents'[a]) /\ (a \notin raced' => Kept(agents'[a]))
    <2>1. CASE a \in DOMAIN agents
      BY <2>1, SameData DEF SavedSound
    <2>2. CASE a \notin DOMAIN agents
      BY <1>1, <2>2
    <2> QED BY <2>1, <2>2
  <1>2. ASSUME NEW d \in Desks
        PROVE  SaveSound(task[d])'
    <2>1. CASE task'[d] = task[d]
      <3>1. SaveSound(task[d])
        BY DEF SavedSound
      <3>2. \A a \in DOMAIN agents : a \in DOMAIN agents' /\ \A f \in Data : agents'[a][f] = agents[a][f]
        OBVIOUS
      <3>3. PICK q : q = task[d] /\ q = task'[d]
        BY <2>1
      <3>4. SaveSound(q)'
        BY <3>1, <3>2, <3>3 DEF SaveSound, RowShape, Told, Kept, PolicyFits, ConfigFits, Policies,
                                Config
      <3> QED BY <3>3, <3>4
    <2>2. CASE task'[d].op # "agent"
      BY <2>2 DEF SaveSound
    <2> QED BY <2>1, <2>2
  <1>3. \A d \in Desks : Saving(d)' => Saving(d) /\ task'[d] = task[d]
    BY DEF Saving, Doing
  <1>4. \A d, e \in Desks :
          Saving(d)' /\ Saving(e)' /\ d # e /\ task'[d].of = task'[e].of => task'[d].of \in raced'
    BY <1>3 DEF SavedSound
  <1>5. \A a \in DOMAIN agents' : RowShape(agents[a])' /\ (a \notin raced' => Kept(agents[a])')
    BY <1>1 DEF RowShape, Told, Kept, PolicyFits, ConfigFits, Policies, Config
  <1> QED BY <1>2, <1>4, <1>5 DEF SavedSound

\* What is stored of agents stays as it is.
LEMMA SavedRest ==
  ASSUME SavedSound, UNCHANGED <<agents, raced>>,
         \A d \in Desks : task'[d] = task[d] \/ task'[d].op # "agent"
  PROVE  SavedSound'
  <1>1. \A a \in DOMAIN agents : DOMAIN agents[a] = Fields
                                  /\ agents[a] = [f \in DOMAIN agents[a] |-> agents[a][f]]
    BY DEF SavedSound, RowShape
  <1> QED BY <1>1, RowsKept

LEMMA OrphanedSaved ==
  ASSUME SavedSound, agents' = Orphaned, raced' = raced,
         \A d \in Desks : task'[d] = task[d] \/ task'[d].op # "agent"
  PROVE  SavedSound'
  <1>1. \A a \in DOMAIN agents : DOMAIN agents[a] = Fields
                                  /\ agents[a] = [f \in DOMAIN agents[a] |-> agents[a][f]]
    BY DEF SavedSound, RowShape
  <1>2. DOMAIN agents' = DOMAIN agents
    BY DEF Orphaned
  <1>3. ASSUME NEW a \in DOMAIN agents
        PROVE  /\ DOMAIN agents'[a] = Fields
               /\ agents'[a] = [f \in DOMAIN agents'[a] |-> agents'[a][f]]
               /\ \A f \in Data : agents'[a][f] = agents[a][f]
    <2>1. agents'[a] = agents[a] \/ agents'[a] = [agents[a] EXCEPT !.model = None]
      BY DEF Orphaned
    <2> QED BY <1>1, <2>1 DEF Data
  <1> QED BY <1>2, <1>3, RowsKept

LEMMA DeletedSaved ==
  ASSUME SavedSound, ReferenceSound, NEW a \in LiveAgents, DeleteAgent(a)
  PROVE  SavedSound'
  <1>1. agents' = [agents EXCEPT ![a].live = FALSE] /\ UNCHANGED <<task, raced>>
    BY DEF DeleteAgent, AtOnce
  <1>2. \A o \in DOMAIN agents : DOMAIN agents[o] = Fields
                                  /\ agents[o] = [f \in DOMAIN agents[o] |-> agents[o][f]]
    BY DEF SavedSound, RowShape
  <1>3. DOMAIN agents' = DOMAIN agents
    BY <1>1
  <1>4. ASSUME NEW o \in DOMAIN agents
        PROVE  /\ DOMAIN agents'[o] = Fields
               /\ agents'[o] = [f \in DOMAIN agents'[o] |-> agents'[o][f]]
               /\ \A f \in Data : agents'[o][f] = agents[o][f]
    <2>1. agents'[o] = agents[o] \/ agents'[o] = [agents[o] EXCEPT !.live = FALSE]
      BY <1>1
    <2> QED BY <1>2, <2>1 DEF Data
  <1> QED BY <1>1, <1>3, <1>4, RowsKept

LEMMA CreatedSaved ==
  ASSUME SavedSound, ReferenceSound, NEW data \in Creations, NEW m \in models,
         CreateAgent(data, m)
  PROVE  SavedSound'
  <1>1. PICK row : /\ row = Over([model |-> m], Over(Normalised(data), Blank))
                   /\ agents' = Append(agents, row) /\ UNCHANGED <<task, raced>>
                   /\ Acceptable(data)
    BY DEF CreateAgent, AtOnce
  <1>2. RowShape(row) /\ Kept(row)
    BY <1>1, CreatedMade
  <1>3. /\ \A a \in DOMAIN agents : a \in DOMAIN agents' /\ agents'[a] = agents[a]
        /\ \A a \in DOMAIN agents' : a \in DOMAIN agents \/ agents'[a] = row
    BY <1>1, RowsAppended, RowsDomain DEF ReferenceSound, TablesSound
  <1>4. \A a \in DOMAIN agents : DOMAIN agents[a] = Fields
                                  /\ agents[a] = [f \in DOMAIN agents[a] |-> agents[a][f]]
    BY DEF SavedSound, RowShape
  <1> QED BY <1>1, <1>2, <1>3, <1>4, RowsKept

\* An update begins with what is stored, and names the agent if another has begun.
LEMMA BeginSaved ==
  ASSUME SavedSound, ReferenceSound, NEW d \in Desks, NEW a \in LiveAgents,
         NEW data \in Changes, BeginUpdate(d, a, data)
  PROVE  SavedSound'
  <1>1. PICK q : /\ q = [op |-> "agent", at |-> "update", of |-> a, read |-> agents[a],
                         becomes |-> Normalised(Over(data, agents[a]))]
                 /\ task' = [task EXCEPT ![d] = q] /\ agents' = agents
    BY DEF BeginUpdate, Begin
  <1>2. a \in DOMAIN agents /\ RowShape(agents[a]) /\ DOMAIN task = Desks
    BY DEF LiveAgents, SavedSound, ReferenceSound, TablesSound
  <1>3. RowShape(q.becomes) /\ Kept(q.becomes)
    BY <1>1, <1>2, UpdateMade
  <1>4. /\ raced \subseteq raced' /\ raced' \subseteq raced \union {a}
        /\ (\E o \in Desks : Saving(o) /\ task[o].of = a) => a \in raced'
    BY DEF BeginUpdate, Saving
  <1>5. task'[d] = q /\ \A o \in Desks \ {d} : task'[o] = task[o]
    BY <1>1, <1>2
  <1>6. SaveSound(q)'
    BY <1>1, <1>2, <1>3 DEF SaveSound, RowShape, Told, Kept, PolicyFits, ConfigFits, Policies,
                            Config
  <1>7. ASSUME NEW o \in Desks
        PROVE  SaveSound(task[o])'
    <2>1. CASE o = d
      BY <1>5, <1>6, <2>1
    <2>2. CASE o # d
      <3>1. task'[o] = task[o] /\ SaveSound(task[o])
        BY <1>5, <2>2 DEF SavedSound
      <3> QED BY <1>1, <1>4, <3>1 DEF SaveSound, RowShape, Told, Kept, PolicyFits, ConfigFits,
                                      Policies, Config
    <2> QED BY <2>1, <2>2
  <1>8. \A o, e \in Desks :
          Saving(o)' /\ Saving(e)' /\ o # e /\ task'[o].of = task'[e].of => task'[o].of \in raced'
    BY <1>1, <1>4, <1>5 DEF SavedSound, Saving, Doing
  <1>9. \A o \in DOMAIN agents' : RowShape(agents[o])' /\ (o \notin raced' => Kept(agents[o])')
    BY <1>1, <1>4 DEF SavedSound, RowShape, Told, Kept, PolicyFits, ConfigFits, Policies, Config
  <1> QED BY <1>7, <1>8, <1>9 DEF SavedSound

\* It ends with the row it has made, field by field if it was overlapped.
LEMMA FinishSaved ==
  ASSUME SavedSound, ReferenceSound, NEW d \in Desks, FinishUpdate(d)
  PROVE  SavedSound'
  <1>1. PICK q, written :
          /\ q = task[d] /\ written = {f \in DOMAIN q.read : q.becomes[f] # q.read[f]}
          /\ q.op = "agent" /\ q.at = "update"
          /\ agents' = [agents EXCEPT ![q.of] =
                          [f \in DOMAIN @ |-> IF f \in written THEN q.becomes[f] ELSE @[f]]]
          /\ task' = [task EXCEPT ![d] = Idle] /\ raced' = raced
    BY DEF FinishUpdate, Doing, End, GoOn
  <1>2. PICK a, row : /\ a = q.of /\ agents' = [agents EXCEPT ![a] = row]
                      /\ row = [f \in DOMAIN agents[a] |->
                                  IF f \in written THEN q.becomes[f] ELSE agents[a][f]]
    BY <1>1
  <1>3. /\ a \in DOMAIN agents /\ DOMAIN q.read = Fields
        /\ RowShape(q.becomes) /\ Kept(q.becomes) /\ RowShape(agents[a])
        /\ a \notin raced => \A f \in Data : agents[a][f] = q.read[f]
    <2>1. SaveSound(q)
      BY <1>1 DEF SavedSound
    <2> QED BY <1>1, <1>2, <2>1 DEF SaveSound, SavedSound
  <1>4. /\ DOMAIN row = Fields /\ row = [f \in DOMAIN row |-> row[f]]
        /\ \A f \in Fields : row[f] = q.becomes[f] \/ row[f] = agents[a][f]
    BY <1>2, <1>3 DEF RowShape
  <1>5. RowShape(row)
    BY <1>3, <1>4 DEF RowShape, Told, Fields
  <1>6. a \notin raced => Kept(row)
    <2>1. a \notin raced => \A f \in Data : row[f] = q.becomes[f]
      BY <1>1, <1>2, <1>3 DEF Data, RowShape
    <2> QED BY <1>3, <1>4, <2>1, SameData
  <1>7. DOMAIN agents' = DOMAIN agents /\ agents'[a] = row
        /\ \A o \in DOMAIN agents \ {a} : agents'[o] = agents[o]
    BY <1>2, <1>3
  <1>8. task'[d] = Idle /\ \A o \in Desks \ {d} : task'[o] = task[o]
    BY <1>1 DEF ReferenceSound, TablesSound
  <1>9. ASSUME NEW o \in Desks
        PROVE  SaveSound(task[o])'
    <2>1. CASE o = d
      BY <1>8, <2>1 DEF SaveSound, Idle
    <2>2. CASE o # d
      <3>1. task'[o] = task[o] /\ SaveSound(task[o])
        BY <1>8, <2>2 DEF SavedSound
      <3>2. task[o].op = "agent" /\ task[o].at = "update" /\ task[o].of = a => a \in raced
        BY <1>1, <1>2, <2>2 DEF SavedSound, Saving, Doing
      <3> QED BY <1>1, <1>7, <3>1, <3>2 DEF SaveSound, RowShape, Told, Kept, PolicyFits,
                                            ConfigFits, Policies, Config
    <2> QED BY <2>1, <2>2
  <1>10. \A o, e \in Desks :
           Saving(o)' /\ Saving(e)' /\ o # e /\ task'[o].of = task'[e].of => task'[o].of \in raced'
    BY <1>1, <1>8 DEF SavedSound, Saving, Doing, Idle
  <1>11. \A o \in DOMAIN agents' : RowShape(agents'[o]) /\ (o \notin raced' => Kept(agents'[o]))
    BY <1>1, <1>5, <1>6, <1>7 DEF SavedSound
  <1>12. \A o \in DOMAIN agents' : RowShape(agents[o])' /\ (o \notin raced' => Kept(agents[o])')
    BY <1>11 DEF RowShape, Told, Kept, PolicyFits, ConfigFits, Policies, Config
  <1> QED BY <1>9, <1>10, <1>12 DEF SavedSound

LEMMA SavedStep ==
  ASSUME SavedSound, ReferenceSound, [Next]_vars
  PROVE  SavedSound'
  <1>1. DOMAIN task = Desks
    BY DEF ReferenceSound, TablesSound
  <1>2. CASE ToolNext /\ UNCHANGED <<providerVars, catalogVars>>
    BY <1>1, <1>2, OthersWork, SavedRest DEF catalogVars
  <1>3. CASE ProviderNext /\ agents' = Orphaned /\ UNCHANGED <<toolVars, application, raced>>
    BY <1>1, <1>3, OthersWork, OrphanedSaved
  <1>4. ASSUME NEW d \in Desks, FailUpdate(d)
        PROVE  SavedSound'
    BY <1>1, <1>4, SavedRest DEF FailUpdate, Refuse, End, GoOn, Idle, catalogVars
  <1>5. ASSUME NEW data \in Applications, NEW a \in Bindable, SaveApplication(data, a)
        PROVE  SavedSound'
    BY <1>5, SavedRest DEF SaveApplication, AtOnce
  <1>6. CASE Restart
    BY <1>6, SavedRest DEF Restart, Idle, catalogVars
  <1>7. CASE UNCHANGED vars
    BY <1>7, SavedRest DEF vars, catalogVars
  <1> QED BY <1>2, <1>3, <1>4, <1>5, <1>6, <1>7, CreatedSaved, DeletedSaved, BeginSaved,
             FinishSaved DEF Next

\* The rows are sound for references that are.
RowsSound == ReferenceSound /\ SavedSound

LEMMA RowsInit == Init => RowsSound
  <1>1. Init => SavedSound
    BY DEF Init, SavedSound, SaveSound, Saving, Doing, Idle
  <1> QED BY <1>1, ReferenceInitSound DEF RowsSound

LEMMA RowsStep == RowsSound /\ [Next]_vars => RowsSound'
  BY ReferenceStepSound, SavedStep DEF RowsSound

-----------------------------------------------------------------------------
(* What follows.                                                           *)

\* However changes of stored tools and loads of core/plugins.py overlap, what is
\* registered is what is stored and switched on, and else the tools of the process.
THEOREM RegistryIsStored == Spec => []RegistryFollowsRows
  <1>1. Spec => []ToolSound
    BY ToolInitSound, ToolStepSound, PTL DEF Spec
  <1>2. ToolSound => RegistryFollowsRows
    BY DEF ToolSound
  <1> QED BY <1>1, <1>2, PTL

\* Whatever is deleted, connected or updated at the same time, a default has its
\* provider, a model its provider, an agent its model or none, and an application
\* its agent or none.
THEOREM ReferencesAreKept == Spec => []ReferencesHold
  <1>1. Spec => []ReferenceSound
    BY ReferenceInitSound, ReferenceStepSound, PTL DEF Spec
  <1>2. ReferenceSound => ReferencesHold
    BY DEF ReferenceSound, ProvidersHold, AgentsHold, ReferencesHold
  <1> QED BY <1>1, <1>2, PTL

\* Unless two updates of it overlapped, an agent does what its type says in a chat,
\* whatever the requests said of its policy, its ontology and its tools, and in
\* whichever order they came: create_agent and update_agent store what
\* _normalize_agent_payload and _normalize_runtime_policy make.
THEOREM TypesAreHonoured == Spec => []TypeIsHonoured
  <1>1. Spec => []RowsSound
    BY RowsInit, RowsStep, PTL DEF Spec
  <1>2. SavedSound => TypeIsHonoured
    <2> SUFFICES ASSUME SavedSound, NEW a \in LiveAgents \ raced, NEW chat \in Chats, ~chat.by
                 PROVE  LET free == \/ chat.text = "plain"
                                    \/ chat.text = "ontology" /\ ~Consults(a, FALSE)
                        IN /\ agents[a].type = "ontology" => Consults(a, FALSE)
                           /\ agents[a].type = "workflow" /\ chat.swarm /\ free
                                => Delegates(a, chat)
                           /\ agents[a].type = "tool" /\ free =>
                                \A n \in agents[a].tools \ {All, Search} :
                                  actions[n] # None => n \in Offered(a, chat)
      BY DEF TypeIsHonoured
    <2> DEFINE free == chat.text = "plain" \/ (chat.text = "ontology" /\ ~Consults(a, FALSE))
    <2>1. RowShape(agents[a]) /\ Kept(agents[a])
      BY DEF SavedSound, LiveAgents
    <2>2. agents[a].type # "general" =>
            /\ agents[a].policy # <<>>
            /\ PolicyFits(agents[a].type, agents[a].tools, agents[a].policy)
      BY <2>1 DEF Kept
    <2>3. chat.by = FALSE /\ RunPolicy(a, chat.by) = agents[a].policy
      BY DEF RunPolicy, Chats
    <2>7. free => ~Locked(a, chat)
      BY <2>3 DEF Locked
    <2>4. ASSUME agents[a].type = "ontology"
          PROVE  Consults(a, FALSE)
      <3>1. Or(agents[a].policy, "ontology", TRUE) = TRUE
        BY <2>2, <2>4 DEF PolicyFits, Or
      <3>2. RunConfig(a, FALSE) = agents[a].config
        BY <3>1 DEF RunConfig
      <3>3. agents[a].config.mode \notin {None, "off"}
        BY <2>1, <2>4 DEF Kept, ConfigFits
      <3> QED BY <3>2, <3>3 DEF Consults, Mode
    <2>5. ASSUME agents[a].type = "workflow", chat.swarm, free
          PROVE  Delegates(a, chat)
      <3>1. agents[a].policy.swarm = TRUE
        BY <2>2, <2>5 DEF PolicyFits
      <3> QED BY <2>3, <2>5, <2>7, <3>1 DEF Delegates, Or
    <2>6. ASSUME agents[a].type = "tool", free, NEW n \in agents[a].tools \ {All, Search},
                 actions[n] # None
          PROVE  n \in Offered(a, chat)
      <3>1. agents[a].policy.tools = TRUE
        BY <2>2, <2>6 DEF PolicyFits
      <3>2. Or(RunPolicy(a, chat.by), "tools", TRUE) = TRUE
        BY <2>3, <3>1 DEF Or
      <3>3. n \in AllNames
        BY <2>1, <2>6 DEF RowShape, Told, Fields
      <3>4. n \in Within(agents[a].tools) /\ n \in Within(RunTools(chat.by))
        BY <2>3, <3>3 DEF Within, RunTools
      <3> QED BY <2>6, <2>7, <3>2, <3>4 DEF Offered
    <2> QED BY <2>4, <2>5, <2>6
  <1>3. RowsSound => TypeIsHonoured
    BY <1>2 DEF RowsSound
  <1> QED BY <1>1, <1>3, PTL

\* Unless two updates of it overlapped, saving an agent again without a change
\* changes nothing of it: what update_agent normalises it has normalised already.
THEOREM SavingIsIdempotent == Spec => []SavedIsFixed
  <1>1. Spec => []RowsSound
    BY RowsInit, RowsStep, PTL DEF Spec
  <1>2. RowsSound => SavedIsFixed
    BY SavedAgain DEF RowsSound, SavedSound, LiveAgents, SavedIsFixed
  <1> QED BY <1>1, <1>2, PTL

\* Whatever requests say, and however updates of an agent overlap, its row has every
\* field, and in each a value that a chat reads (models/agent.py); the application's
\* agent has a row.
THEOREM TypeCorrect == Spec => []TypeOK
  <1>1. Spec => []RowsSound
    BY RowsInit, RowsStep, PTL DEF Spec
  <1>2. RowsSound => TypeOK
    <2>1. RowsSound => \A a \in DOMAIN agents : RowShape(agents[a])
      BY DEF RowsSound, SavedSound
    <2>2. RowsSound => application = None \/ application.agent \in DOMAIN agents \union {None}
      BY DEF RowsSound, ReferenceSound, AgentsHold, LiveAgents
    <2> QED BY <2>1, <2>2 DEF TypeOK, RowShape, Told, Fields
  <1> QED BY <1>1, <1>2, PTL

=============================================================================
