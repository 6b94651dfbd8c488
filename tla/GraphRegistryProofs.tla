------------------------- MODULE GraphRegistryProofs ------------------------
(***************************************************************************)
(* Proofs about GraphRegistry: for any templates, any number of versions   *)
(* and any requests that overlap, a template has one active version, and   *)
(* a cached graph is the one that a fresh request would compile, but for   *)
(* what the observers of the module name; the checkpointer is set up once. *)
(***************************************************************************)
EXTENDS GraphRegistry, FiniteSetTheorems, SequenceTheorems, TLAPS

-----------------------------------------------------------------------------
(* The inductive invariant.                                                *)

VersionRow == [template : Templates, topology : Topologies, active : BOOLEAN]

\* A request for a graph, unless an activation has overtaken it, knows what is current.
GetSound(g) ==
  /\ g = Idle \/ g.op \in {"get", "write"}
  /\ g.op = "get" =>
    /\ DOMAIN g = {"op", "template", "at", "want", "late"}
    /\ g.template \in Templates
    /\ g.at \in {"versions", "base", "saver", "queued", "setup"}
    /\ ~g.late =>
         /\ g.at = "base" => ActiveOf(g.template) = {}
         /\ g.at \in {"saver", "queued", "setup"} /\ g.want # BuiltIn =>
              g.want # None /\ g.want = Current(g.template)

\* A transaction deactivates what was there when it began; what is there since then is
\* inactive, unless it has missed it.
WriteSound(w) ==
  w.op = "write" =>
    /\ DOMAIN w = {"op", "template", "id", "row", "at", "sees", "began", "missed"}
    /\ w.template \in Templates
    /\ w.row \in VersionRow /\ w.row.template = w.template
    /\ w.at \in {"update", "commit", "invalidate"}
    /\ w.id # None => w.id \in DOMAIN versions /\ versions[w.id].template = w.template
    /\ w.began \in Nat /\ w.began <= Len(versions)
    /\ ~w.row.active => w.sees = {} /\ w.id = None
    /\ w.row.active => w.sees = {v \in VersionsOf(w.template) : v <= w.began}
    /\ w.row.active /\ w.at # "invalidate" /\ ~w.missed =>
         \A v \in VersionsOf(w.template) : v > w.began => ~versions[v].active

AtMostOne(S) == \A a, b \in S : a = b

\* Nothing is on its way to the cache of t, and nothing was lost.
Settled(t) ==
  /\ t \notin outdated
  /\ \A r \in Tasks : Serving(r, "write", "invalidate") => task[r].template # t

CacheSound ==
  \A t \in Templates : cache[t] # None /\ Settled(t) =>
    Current(t) # None /\ cache[t].topology = Current(t)

RowsSound ==
  /\ versions \in Seq(VersionRow)
  /\ base \in [Templates -> Topologies \union {Shipped, None}]
  /\ DOMAIN cache = Templates
  /\ DOMAIN task = Tasks

Sound ==
  /\ RowsSound
  /\ \A r \in Tasks : GetSound(task[r]) /\ WriteSound(task[r])
  /\ \A t \in Templates \ doubled : AtMostOne(ActiveOf(t))
  /\ CacheSound
-----------------------------------------------------------------------------
LEMMA InitSound == Init => Sound
  <1> SUFFICES ASSUME Init
               PROVE  Sound
    OBVIOUS
  <1>1. RowsSound
    <2>1. base \in [Templates -> Topologies \union {Shipped, None}]
      BY DEF Init
    <2> QED BY <2>1 DEF Init, RowsSound
  <1>2. \A r \in Tasks : GetSound(task[r]) /\ WriteSound(task[r])
    BY DEF Init, Idle, GetSound, WriteSound
  <1>3. \A t : ActiveOf(t) = {}
    BY DEF Init, ActiveOf, VersionsOf
  <1>4. CacheSound
    BY DEF Init, CacheSound
  <1> QED BY <1>1, <1>2, <1>3, <1>4 DEF Sound, AtMostOne

\* The versions of a template are finitely many.
LEMMA FiniteVersions ==
  ASSUME Sound, NEW t
  PROVE  /\ IsFiniteSet(ActiveOf(t))
         /\ DOMAIN versions = 1..Len(versions) /\ Len(versions) \in Nat
         /\ \A v \in DOMAIN versions : versions[v] \in VersionRow
  <1>1. DOMAIN versions = 1..Len(versions) /\ Len(versions) \in Nat
    BY DEF Sound, RowsSound
  <1>2. ActiveOf(t) \in SUBSET (1..Len(versions))
    BY <1>1 DEF ActiveOf, VersionsOf
  <1>3. IsFiniteSet(1..Len(versions))
    BY <1>1, FS_Interval
  <1>4. \A v \in DOMAIN versions : versions[v] \in VersionRow
    BY <1>1 DEF Sound, RowsSound
  <1> QED BY <1>1, <1>2, <1>3, <1>4, FS_Subset

\* What is current, without counting.
LEMMA CurrentVersion ==
  ASSUME Sound, NEW t \in Templates
  PROVE  /\ ActiveOf(t) = {} => Current(t) = base[t]
         /\ \A v \in ActiveOf(t) : Cardinality(ActiveOf(t)) = 1 =>
              Current(t) = versions[v].topology /\ Current(t) # None
         /\ Current(t) # None /\ ActiveOf(t) # {} => Cardinality(ActiveOf(t)) = 1
  <1>1. ActiveOf(t) # {} => Cardinality(ActiveOf(t)) # 0
    BY FiniteVersions, FS_EmptySet
  <1>2. ASSUME NEW v \in ActiveOf(t), Cardinality(ActiveOf(t)) = 1
        PROVE  Current(t) = versions[v].topology /\ Current(t) # None
    <2>1. PICK x : ActiveOf(t) = {x}
      BY <1>2, FiniteVersions, FS_Singleton
    <2>2. (CHOOSE y \in ActiveOf(t) : TRUE) = v
      BY <2>1
    <2>3. versions[v].topology \in Topologies
      BY FiniteVersions DEF ActiveOf, VersionsOf, VersionRow
    <2> QED BY <1>2, <2>2, <2>3, RegistryAssumption DEF Current
  <1> QED BY <1>1, <1>2 DEF Current

LEMMA OneActiveCounts ==
  ASSUME NEW S, IsFiniteSet(S)
  PROVE  AtMostOne(S) => Cardinality(S) <= 1
  <1> SUFFICES ASSUME AtMostOne(S)
               PROVE  Cardinality(S) <= 1
    OBVIOUS
  <1>1. CASE S = {}
    BY <1>1, FS_EmptySet
  <1>2. CASE S # {}
    <2>1. PICK x : S = {x}
      BY <1>2 DEF AtMostOne
    <2> QED BY <2>1, FS_Singleton
  <1> QED BY <1>1, <1>2

-----------------------------------------------------------------------------
(* Steps that leave the rows alone.                                        *)

\* Task r goes on as q.
LEMMA TaskSound ==
  ASSUME Sound, NEW r \in Tasks, NEW q, task' = [task EXCEPT ![r] = q],
         UNCHANGED <<base, versions, doubled>>, GetSound(q), WriteSound(q),
         CacheSound', DOMAIN cache' = Templates
  PROVE  Sound'
  <1>1. \A t : VersionsOf(t)' = VersionsOf(t) /\ ActiveOf(t)' = ActiveOf(t)
    BY DEF VersionsOf, ActiveOf
  <1>2. \A t : Current(t)' = Current(t)
    BY DEF Current, ActiveOf, VersionsOf
  <1>3. RowsSound'
    BY DEF Sound, RowsSound
  <1>4. ASSUME NEW o \in Tasks
        PROVE  GetSound(task[o])' /\ WriteSound(task[o])'
    <2>1. PICK w : w = task'[o]
      OBVIOUS
    <2>2. GetSound(w) /\ WriteSound(w)
      BY <2>1 DEF Sound, RowsSound
    <2>3. GetSound(w)' /\ WriteSound(w)'
      BY <1>1, <1>2, <2>2 DEF GetSound, WriteSound
    <2> QED BY <2>1, <2>3 DEF GetSound, WriteSound
  <1>5. \A t \in Templates \ doubled' : AtMostOne(ActiveOf(t))'
    BY <1>1 DEF Sound, AtMostOne
  <1> QED BY <1>3, <1>4, <1>5 DEF Sound

\* The cache is as current as it was, unless an activation ends without it.
LEMMA CacheKept ==
  ASSUME Sound, NEW r \in Tasks, NEW q, task' = [task EXCEPT ![r] = q],
         ~Serving(r, "write", "invalidate"),
         UNCHANGED <<base, versions, cache, outdated>>
  PROVE  CacheSound' /\ DOMAIN cache' = Templates
  <1>1. \A t : VersionsOf(t)' = VersionsOf(t) /\ ActiveOf(t)' = ActiveOf(t)
    BY DEF VersionsOf, ActiveOf
  <1>2. \A t : Current(t)' = Current(t)
    BY DEF Current, ActiveOf, VersionsOf
  <1>3. \A o \in Tasks : Serving(o, "write", "invalidate") =>
          Serving(o, "write", "invalidate")' /\ task'[o] = task[o]
    BY DEF Sound, RowsSound, Serving
  <1>4. \A t \in Templates : Settled(t)' => Settled(t)
    BY <1>3 DEF Settled
  <1> QED BY <1>2, <1>4 DEF Sound, RowsSound, CacheSound

\* A task that is not a transaction needs no grounds to be idle.
LEMMA IdleSound == GetSound(Idle) /\ WriteSound(Idle)
  BY DEF GetSound, WriteSound, Idle

LEMMA BeginSound ==
  ASSUME Sound, NEW r \in Tasks, NEW t \in Templates, GetGraph(r, t) \/ CompileTemplate(r, t)
  PROVE  Sound'
  <1>1. /\ task[r] = Idle /\ task' = [task EXCEPT ![r] = Get(t)]
        /\ UNCHANGED <<base, versions, doubled>>
    BY DEF GetGraph, CompileTemplate, Begin
  <1>2. GetSound(Get(t)) /\ WriteSound(Get(t))
    BY DEF GetSound, WriteSound, Get
  <1>3. ~Serving(r, "write", "invalidate")
    BY <1>1 DEF Serving, Idle
  <1>4. CASE GetGraph(r, t)
    BY <1>1, <1>2, <1>3, <1>4, CacheKept, TaskSound DEF GetGraph
  <1>5. CASE CompileTemplate(r, t)
    <2>1. \A o \in Templates : VersionsOf(o)' = VersionsOf(o) /\ ActiveOf(o)' = ActiveOf(o)
      BY <1>1 DEF VersionsOf, ActiveOf
    <2>2. \A o \in Templates : Current(o)' = Current(o)
      BY <1>1 DEF Current, ActiveOf, VersionsOf
    <2>3. cache' = [cache EXCEPT ![t] = None] /\ outdated' = outdated \ {t}
      BY <1>5 DEF CompileTemplate
    <2>4. \A o \in Tasks : Serving(o, "write", "invalidate") =>
            Serving(o, "write", "invalidate")' /\ task'[o] = task[o]
      BY <1>1, <1>3 DEF Sound, RowsSound, Serving
    <2>5. \A o \in Templates \ {t} : Settled(o)' => Settled(o)
      BY <2>3, <2>4 DEF Settled
    <2>6. CacheSound' /\ DOMAIN cache' = Templates
      BY <2>2, <2>3, <2>5 DEF CacheSound, Sound, RowsSound
    <2> QED BY <1>1, <1>2, <2>6, TaskSound
  <1> QED BY <1>4, <1>5

\* Wanting the built-in graph, or the current topology.
LEMMA WantsSound ==
  ASSUME Sound, NEW r \in Tasks, NEW topology, task[r].op = "get", Wants(r, topology),
         topology # BuiltIn =>
           topology # None /\ topology = Current(task[r].template)
  PROVE  Sound'
  <1>1. PICK q : /\ task' = [task EXCEPT ![r] = q] /\ GetSound(q) /\ WriteSound(q)
                 /\ UNCHANGED <<base, versions, cache, doubled, outdated>>
    <2> DEFINE e == [task[r] EXCEPT !.at = "saver", !.want = topology]
    <2>1. task' = [task EXCEPT ![r] = IF topology = BuiltIn /\ default # None THEN Idle ELSE e]
          /\ UNCHANGED <<base, versions, cache, doubled, outdated>>
      BY DEF Wants, Sound, RowsSound
    <2>2. GetSound(e) /\ WriteSound(e)
      <3>1. GetSound(task[r])
        BY DEF Sound
      <3>2. /\ DOMAIN e = DOMAIN task[r] /\ e.op = "get" /\ e.template = task[r].template
            /\ e.at = "saver" /\ e.want = topology
        BY <3>1 DEF GetSound
      <3> HIDE DEF e
      <3> QED BY <3>1, <3>2 DEF GetSound, WriteSound
    <2> HIDE DEF e
    <2> QED BY <2>1, <2>2, IdleSound
  <1>2. ~Serving(r, "write", "invalidate")
    BY DEF Serving
  <1> QED BY <1>1, <1>2, CacheKept, TaskSound


\* What a request selects is current, unless it is late already.
LEMMA SelectSound ==
  ASSUME Sound, NEW r \in Tasks, SelectVersion(r) \/ SelectBase(r) \/ StorageFails(r)
  PROVE  Sound'
  <1> DEFINE t == task[r].template
  <1>1. /\ task[r].op = "get" /\ GetSound(task[r]) /\ t \in Templates
        /\ task[r].at \in {"versions", "base"}
    BY DEF SelectVersion, SelectBase, StorageFails, At, Sound, GetSound
  <1>2. CASE StorageFails(r)
    BY <1>1, <1>2, WantsSound DEF StorageFails
  <1>3. CASE SelectVersion(r)
    <2>1. CASE Cardinality(ActiveOf(t)) = 1 /\ \E v \in ActiveOf(t) : Wants(r, versions[v].topology)
      BY <1>1, <2>1, CurrentVersion, WantsSound
    <2>2. CASE Wants(r, BuiltIn)
      BY <1>1, <2>2, WantsSound
    <2>3. CASE /\ ActiveOf(t) = {}
               /\ task' = [task EXCEPT ![r].at = "base"]
               /\ UNCHANGED <<base, versions, cache, doubled, outdated>>
      <3> DEFINE q == [task[r] EXCEPT !.at = "base"]
      <3>1. task' = [task EXCEPT ![r] = q]
        BY <2>3 DEF Sound, RowsSound
      <3>2. DOMAIN q = DOMAIN task[r] /\ q.op = "get" /\ q.template = t /\ q.at = "base"
        BY <1>1 DEF GetSound
      <3> HIDE DEF q
      <3>3. GetSound(q) /\ WriteSound(q)
        BY <1>1, <2>3, <3>2 DEF GetSound, WriteSound
      <3>4. ~Serving(r, "write", "invalidate")
        BY <1>1 DEF Serving
      <3> QED BY <2>3, <3>1, <3>3, <3>4, CacheKept, TaskSound
    <2> QED BY <1>3, <2>1, <2>2, <2>3 DEF SelectVersion
  <1>4. CASE SelectBase(r)
    <2>1. PICK topology : /\ Wants(r, topology)
                          /\ topology = IF base[t] = None THEN BuiltIn ELSE base[t]
      BY <1>4 DEF SelectBase
    <2>2. CASE task[r].late
      <3> DEFINE q == IF topology = BuiltIn /\ default # None THEN Idle
                      ELSE [task[r] EXCEPT !.at = "saver", !.want = topology]
      <3>1. task' = [task EXCEPT ![r] = q]
            /\ UNCHANGED <<base, versions, cache, doubled, outdated>>
        BY <2>1 DEF Wants, Sound, RowsSound
      <3>2. q = Idle \/ (/\ DOMAIN q = DOMAIN task[r] /\ q.op = "get" /\ q.template = t
                         /\ q.at = "saver" /\ q.late = task[r].late)
        BY <1>1 DEF GetSound
      <3> HIDE DEF q
      <3>3. GetSound(q) /\ WriteSound(q)
        BY <1>1, <2>2, <3>2, IdleSound DEF GetSound, WriteSound
      <3>4. ~Serving(r, "write", "invalidate")
        BY <1>1 DEF Serving
      <3> QED BY <3>1, <3>3, <3>4, CacheKept, TaskSound
    <2>3. CASE ~task[r].late
      <3>1. task[r].at = "base"
        BY <1>4 DEF SelectBase, At
      <3>2. Current(t) = base[t]
        BY <1>1, <2>3, <3>1, CurrentVersion DEF GetSound
      <3> QED BY <1>1, <2>1, <3>2, WantsSound
    <2> QED BY <2>2, <2>3
  <1> QED BY <1>2, <1>3, <1>4


\* A request that goes on with the same graph in mind.
LEMMA WaitSound ==
  ASSUME Sound, NEW r \in Tasks, task[r].op = "get",
         task[r].at \in {"saver", "queued", "setup"}, NEW at \in {"saver", "queued", "setup"},
         task' = [task EXCEPT ![r].at = at],
         UNCHANGED <<base, versions, cache, doubled, outdated>>
  PROVE  Sound'
  <1> DEFINE q == [task[r] EXCEPT !.at = at]
  <1>1. GetSound(task[r])
    BY DEF Sound
  <1>2. task' = [task EXCEPT ![r] = q]
    BY DEF Sound, RowsSound
  <1>3. /\ DOMAIN q = DOMAIN task[r] /\ q.op = "get" /\ q.template = task[r].template
        /\ q.at = at /\ q.want = task[r].want /\ q.late = task[r].late
    BY <1>1 DEF GetSound
  <1> HIDE DEF q
  <1>4. GetSound(q) /\ WriteSound(q)
    BY <1>1, <1>3 DEF GetSound, WriteSound
  <1>5. ~Serving(r, "write", "invalidate")
    BY DEF Serving
  <1> QED BY <1>2, <1>4, <1>5, CacheKept, TaskSound

\* What is cached is current, or an activation has overtaken the request.
LEMMA FinishSound ==
  ASSUME Sound, NEW r \in Tasks, NEW kind, task[r].op = "get",
         task[r].at \in {"saver", "queued", "setup"}, Finish(r, kind)
  PROVE  Sound'
  <1>1. PICK t, want :
          /\ t = task[r].template /\ want = task[r].want /\ t \in Templates
          /\ task' = [task EXCEPT ![r] = Idle] /\ UNCHANGED <<base, versions, doubled>>
    BY DEF Finish, Sound, GetSound
  <1>2. ~Serving(r, "write", "invalidate")
    BY DEF Serving
  <1>3. CASE UNCHANGED <<cache, outdated>>
    BY <1>1, <1>2, <1>3, IdleSound, CacheKept, TaskSound
  <1>4. CASE ~UNCHANGED <<cache, outdated>>
    <2>1. /\ want # BuiltIn /\ cache' = [cache EXCEPT ![t] = Graph(want, kind)]
          /\ outdated' = IF task[r].late THEN outdated \union {t} ELSE outdated \ {t}
      BY <1>1, <1>4 DEF Finish
    <2>2. \A o \in Templates : Current(o)' = Current(o)
      BY <1>1 DEF Current, ActiveOf, VersionsOf
    <2>3. \A o \in Tasks : Serving(o, "write", "invalidate") =>
            Serving(o, "write", "invalidate")' /\ task'[o] = task[o]
      BY <1>1, <1>2 DEF Sound, RowsSound, Serving
    <2>4. \A o \in Templates \ {t} : Settled(o)' => Settled(o)
      BY <2>1, <2>3 DEF Settled
    <2>5. cache'[t].topology = want /\ DOMAIN cache' = Templates
          /\ \A o \in Templates \ {t} : cache'[o] = cache[o]
      BY <1>1, <2>1 DEF Graph, Sound, RowsSound
    <2>6. Settled(t)' => Current(t) # None /\ want = Current(t)
      <3>1. Settled(t)' => ~task[r].late
        BY <2>1 DEF Settled
      <3> QED BY <1>1, <2>1, <3>1 DEF Sound, GetSound
    <2>7. CacheSound'
      <3> SUFFICES ASSUME NEW o \in Templates, cache'[o] # None, Settled(o)'
                   PROVE  Current(o)' # None /\ cache'[o].topology = Current(o)'
        BY DEF CacheSound
      <3>1. CASE o = t
        BY <2>2, <2>5, <2>6, <3>1
      <3>2. CASE o # t
        BY <2>2, <2>4, <2>5, <3>2 DEF Sound, CacheSound
      <3> QED BY <3>1, <3>2
    <2> QED BY <1>1, <2>5, <2>7, IdleSound, TaskSound
  <1> QED BY <1>3, <1>4

LEMMA SaverSound ==
  ASSUME Sound, NEW r \in Tasks,
         SaverReady(r) \/ EnterLock(r) \/ Woken(r) \/ SetupSucceeds(r) \/ SetupFails(r)
  PROVE  Sound'
  <1>1. task[r].op = "get" /\ task[r].at \in {"saver", "queued", "setup"}
    BY DEF SaverReady, EnterLock, Woken, SetupSucceeds, SetupFails, At
  <1>2. CASE \E kind : Finish(r, kind)
    BY <1>1, <1>2, FinishSound
  <1>3. CASE EnterLock(r)
    <2>1. PICK at \in {"saver", "queued", "setup"} : task' = [task EXCEPT ![r].at = at]
      BY <1>3 DEF EnterLock
    <2> QED BY <1>1, <1>3, <2>1, WaitSound DEF EnterLock
  <1>4. CASE Woken(r) /\ ~\E kind : Finish(r, kind)
    BY <1>1, <1>4, WaitSound DEF Woken
  <1> QED BY <1>2, <1>3, <1>4 DEF SaverReady, SetupSucceeds, SetupFails


-----------------------------------------------------------------------------
(* Transactions on versions.                                               *)

LEMMA BeginWriteSound ==
  ASSUME Sound, NEW r \in Tasks,
         \/ \E t \in Templates, topology \in Topologies, active \in BOOLEAN :
              SaveVersion(r, t, topology, active)
         \/ \E v \in DOMAIN versions : ActivateVersion(r, v)
  PROVE  Sound'
  <1> USE FiniteVersions
  <1>1. \A v \in DOMAIN versions : v \in Nat /\ v <= Len(versions)
    OBVIOUS
  <1> DEFINE Begun(q) ==
               /\ task[r] = Idle /\ task' = [task EXCEPT ![r] = q]
               /\ WriteSound(q) /\ GetSound(q)
               /\ UNCHANGED <<base, versions, cache, doubled, outdated>>
  <1>2. PICK q : Begun(q)
    <2>1. ASSUME NEW t \in Templates, NEW topology \in Topologies, NEW active \in BOOLEAN,
                 SaveVersion(r, t, topology, active)
          PROVE  \E q : Begun(q)
      <3> DEFINE row == [template |-> t, topology |-> topology, active |-> active]
                 at == IF active THEN "update" ELSE "commit"
                 sees == IF active THEN VersionsOf(t) ELSE {}
                 q == [op |-> "write", template |-> t, id |-> None, row |-> row, at |-> at,
                       sees |-> sees, began |-> Len(versions), missed |-> FALSE]
      <3>1. row \in VersionRow /\ row.template = t /\ row.active = active
        BY DEF VersionRow
      <3>2. at \in {"update", "commit", "invalidate"}
        OBVIOUS
      <3>3. /\ ~active => sees = {}
            /\ active => sees = {v \in VersionsOf(t) : v <= Len(versions)}
        BY <1>1 DEF VersionsOf
      <3>4. task[r] = Idle /\ task' = [task EXCEPT ![r] = q]
            /\ UNCHANGED <<base, versions, cache, doubled, outdated>>
        BY <2>1 DEF SaveVersion, Begin
      <3> HIDE DEF row, at, sees
      <3>5. WriteSound(q) /\ GetSound(q)
        BY <1>1, <3>1, <3>2, <3>3 DEF WriteSound, GetSound, VersionsOf
      <3> HIDE DEF q
      <3> QED BY <3>4, <3>5
    <2>2. ASSUME NEW v \in DOMAIN versions, ActivateVersion(r, v)
          PROVE  \E q : Begun(q)
      <3> DEFINE t == versions[v].template
                 row == [versions[v] EXCEPT !.active = TRUE]
                 q == [op |-> "write", template |-> t, id |-> v, row |-> row, at |-> "update",
                       sees |-> VersionsOf(t), began |-> Len(versions), missed |-> FALSE]
      <3>1. row \in VersionRow /\ row.template = t /\ row.active = TRUE /\ t \in Templates
        BY DEF VersionRow
      <3>2. VersionsOf(t) = {x \in VersionsOf(t) : x <= Len(versions)}
        BY <1>1 DEF VersionsOf
      <3>3. task[r] = Idle /\ task' = [task EXCEPT ![r] = q]
            /\ UNCHANGED <<base, versions, cache, doubled, outdated>>
        BY <2>2 DEF ActivateVersion, Begin
      <3> HIDE DEF row
      <3>4. WriteSound(q) /\ GetSound(q)
        BY <1>1, <3>1, <3>2 DEF WriteSound, GetSound, VersionsOf
      <3> HIDE DEF q
      <3> QED BY <3>3, <3>4
    <2> QED BY <2>1, <2>2
  <1>3. ~Serving(r, "write", "invalidate")
    BY <1>2 DEF Serving, Idle
  <1> QED BY <1>2, <1>3, CacheKept, TaskSound

\* The end of a transaction that was told to nobody, and its middle.
LEMMA NotCommittedSound ==
  ASSUME Sound, NEW r \in Tasks, Deactivate(r) \/ WriteFails(r)
  PROVE  Sound'
  <1>1. ~Serving(r, "write", "invalidate") /\ WriteSound(task[r]) /\ task[r].op = "write"
    BY DEF Deactivate, WriteFails, Serving, Sound
  <1>2. CASE WriteFails(r)
    BY <1>1, <1>2, IdleSound, CacheKept, TaskSound DEF WriteFails
  <1>3. CASE Deactivate(r)
    <2> DEFINE q == [task[r] EXCEPT !.at = "commit"]
    <2>1. task' = [task EXCEPT ![r] = q] /\ task[r].at = "update"
          /\ UNCHANGED <<base, versions, cache, doubled, outdated>>
      BY <1>3 DEF Deactivate, Serving, Sound, RowsSound
    <2>2. /\ DOMAIN q = DOMAIN task[r] /\ q.op = "write" /\ q.template = task[r].template
          /\ q.id = task[r].id /\ q.row = task[r].row /\ q.at = "commit"
          /\ q.sees = task[r].sees /\ q.began = task[r].began /\ q.missed = task[r].missed
      BY <1>1 DEF WriteSound
    <2> HIDE DEF q
    <2>3. GetSound(q) /\ WriteSound(q)
      BY <1>1, <2>1, <2>2 DEF GetSound, WriteSound
    <2> QED BY <1>1, <2>1, <2>3, CacheKept, TaskSound
  <1> QED BY <1>2, <1>3

\* The cache is told, or an observer is.
LEMMA ToldSound ==
  ASSUME Sound, NEW r \in Tasks, Invalidate(r) \/ LostAfterCommit(r)
  PROVE  Sound'
  <1>1. PICK t :
          /\ t = task[r].template /\ t \in Templates
          /\ task' = [task EXCEPT ![r] = Idle] /\ UNCHANGED <<base, versions, doubled>>
          /\ \/ cache' = [cache EXCEPT ![t] = None] /\ outdated' = outdated \ {t}
             \/ UNCHANGED cache /\ outdated' = outdated \union {t}
    BY DEF Invalidate, LostAfterCommit, Serving, Sound, WriteSound
  <1>2. \A o \in Templates : Current(o)' = Current(o)
    BY <1>1 DEF Current, ActiveOf, VersionsOf
  <1>3. \A o \in Tasks : Serving(o, "write", "invalidate") /\ o # r =>
          Serving(o, "write", "invalidate")' /\ task'[o] = task[o]
    BY <1>1 DEF Sound, RowsSound, Serving
  <1>4. \A o \in Templates \ {t} : Settled(o)' => Settled(o)
    BY <1>1, <1>3 DEF Settled
  <1>5. DOMAIN cache' = Templates /\ \A o \in Templates \ {t} : cache'[o] = cache[o]
    BY <1>1 DEF Sound, RowsSound
  <1>6. cache'[t] = None \/ ~Settled(t)'
    BY <1>1 DEF Sound, RowsSound, Settled
  <1>7. CacheSound'
    <2> SUFFICES ASSUME NEW o \in Templates, cache'[o] # None, Settled(o)'
                 PROVE  Current(o)' # None /\ cache'[o].topology = Current(o)'
      BY DEF CacheSound
    <2>1. o # t
      BY <1>6
    <2> QED BY <1>2, <1>4, <1>5, <2>1 DEF Sound, CacheSound
  <1> QED BY <1>1, <1>5, <1>7, IdleSound, TaskSound


LEMMA CreateSound ==
  ASSUME Sound, NEW r \in Tasks, NEW t \in Templates, NEW topology \in Topologies,
         CreateTemplate(r, t, topology)
  PROVE  Sound'
  <1>1. /\ base[t] = None /\ base' = [base EXCEPT ![t] = topology]
        /\ UNCHANGED <<versions, cache, task, doubled, outdated>>
    BY DEF CreateTemplate
  <1>2. \A o : VersionsOf(o)' = VersionsOf(o) /\ ActiveOf(o)' = ActiveOf(o)
    BY <1>1 DEF VersionsOf, ActiveOf
  <1>3. \A o \in Templates : base[o] # None => base'[o] = base[o]
    BY <1>1 DEF Sound, RowsSound
  <1>4. \A o \in Templates : Current(o) # None => Current(o)' = Current(o)
    <2> SUFFICES ASSUME NEW o \in Templates, Current(o) # None
                 PROVE  Current(o)' = Current(o)
      OBVIOUS
    <2>1. CASE ActiveOf(o) = {}
      BY <1>2, <1>3, <2>1 DEF Current
    <2>2. CASE ActiveOf(o) # {}
      BY <1>1, <2>2 DEF Current, ActiveOf, VersionsOf
    <2> QED BY <2>1, <2>2
  <1>5. RowsSound'
    BY <1>1 DEF Sound, RowsSound
  <1>6. ASSUME NEW o \in Tasks
        PROVE  GetSound(task[o])' /\ WriteSound(task[o])'
    <2>1. task'[o] = task[o] /\ GetSound(task[o]) /\ WriteSound(task[o])
      BY <1>1 DEF Sound
    <2> QED BY <1>1, <1>2, <1>4, <2>1 DEF GetSound, WriteSound
  <1>7. CacheSound'
    BY <1>1, <1>4 DEF Sound, CacheSound, Settled, Serving
  <1> QED BY <1>1, <1>2, <1>5, <1>6, <1>7 DEF Sound, AtMostOne

LEMMA RestartSound ==
  ASSUME Sound, Restart
  PROVE  Sound'
  <1>1. /\ cache' = [t \in Templates |-> None] /\ task' = [r \in Tasks |-> Idle]
        /\ base' \in {base, [base EXCEPT ![Standard] = Shipped]}
        /\ UNCHANGED <<versions, doubled>>
    BY DEF Restart
  <1>2. RowsSound'
    <2>1. base' \in [Templates -> Topologies \union {Shipped, None}]
      BY <1>1, RegistryAssumption DEF Sound, RowsSound
    <2> QED BY <1>1, <2>1 DEF Sound, RowsSound
  <1>3. \A r \in Tasks : GetSound(task[r])' /\ WriteSound(task[r])'
    BY <1>1 DEF GetSound, WriteSound, Idle
  <1>4. \A t : ActiveOf(t)' = ActiveOf(t)
    BY <1>1 DEF ActiveOf, VersionsOf
  <1>5. CacheSound'
    BY <1>1 DEF CacheSound
  <1> QED BY <1>1, <1>2, <1>3, <1>4, <1>5 DEF Sound, AtMostOne

-----------------------------------------------------------------------------
(* The commit of a version.                                                *)

\* The rows after it: the new one, and the old ones, some of them inactive now.
NewRow(w) == IF w.id = None THEN Len(versions') ELSE w.id

Committed(w, id) ==
  /\ versions' \in Seq(VersionRow)
  /\ Len(versions') \in Nat /\ Len(versions) <= Len(versions')
  /\ id \in DOMAIN versions' /\ versions'[id] = w.row
  /\ id \in DOMAIN versions => versions[id].template = w.template
  /\ id \notin DOMAIN versions => id = Len(versions) + 1
  /\ \A v \in DOMAIN versions : v \in DOMAIN versions'
  /\ \A v \in DOMAIN versions' \ {id} :
       /\ v \in DOMAIN versions
       /\ versions'[v].template = versions[v].template
       /\ versions'[v].topology = versions[v].topology
       /\ versions'[v].active <=> versions[v].active /\ v \notin w.sees

LEMMA CommittedRows ==
  ASSUME Sound, NEW r \in Tasks, Commit(r)
  PROVE  Committed(task[r], NewRow(task[r]))
  <1> DEFINE after(v, see) == IF see THEN [versions[v] EXCEPT !.active = FALSE] ELSE versions[v]
  <1>1. PICK w, n, off :
          /\ w = task[r] /\ n = Len(versions)
          /\ off = [v \in DOMAIN versions |-> after(v, v \in w.sees)]
          /\ versions' = IF w.id = None THEN Append(off, w.row) ELSE [off EXCEPT ![w.id] = w.row]
    BY DEF Commit, Written
  <1>2. /\ DOMAIN versions = 1..n /\ n \in Nat
        /\ \A v \in DOMAIN versions : versions[v] \in VersionRow
    BY <1>1, FiniteVersions
  <1>3. /\ w.row \in VersionRow
        /\ w.id # None => w.id \in 1..n /\ versions[w.id].template = w.template
    BY <1>1, <1>2 DEF WriteSound, Commit, Serving, Sound
  <1>4. \A v \in 1..n :
          /\ off[v] \in VersionRow
          /\ off[v].template = versions[v].template
          /\ off[v].topology = versions[v].topology
          /\ off[v].active <=> versions[v].active /\ v \notin w.sees
    BY <1>1, <1>2 DEF VersionRow
  <1>5. off \in [1..n -> VersionRow]
    BY <1>1, <1>2, <1>4
  <1>6. off \in Seq(VersionRow) /\ Len(off) = n
    BY <1>2, <1>5
  <1>7. CASE w.id = None
    <2>1. /\ Append(off, w.row) \in Seq(VersionRow)
          /\ Len(Append(off, w.row)) = n + 1
          /\ \A v \in 1..n : Append(off, w.row)[v] = off[v]
          /\ Append(off, w.row)[n + 1] = w.row
      BY <1>3, <1>6, AppendProperties
    <2>2. /\ versions' \in Seq(VersionRow) /\ Len(versions') = n + 1
          /\ \A v \in 1..n : versions'[v] = off[v]
          /\ versions'[n + 1] = w.row
      BY <1>1, <1>7, <2>1
    <2>3. DOMAIN versions' = 1..(n + 1)
      BY <1>2, <2>2
    <2>4. \A v \in DOMAIN versions' \ {n + 1} :
            /\ v \in DOMAIN versions
            /\ versions'[v].template = versions[v].template
            /\ versions'[v].topology = versions[v].topology
            /\ versions'[v].active <=> versions[v].active /\ v \notin w.sees
      BY <1>2, <1>4, <2>2, <2>3
    <2>5. /\ Len(versions') \in Nat /\ n <= Len(versions')
          /\ n + 1 \in DOMAIN versions' /\ n + 1 \notin DOMAIN versions
          /\ \A v \in DOMAIN versions : v \in DOMAIN versions'
      BY <1>2, <2>2, <2>3
    <2> HIDE DEF after
    <2> QED BY <1>1, <1>7, <2>2, <2>4, <2>5 DEF Committed, NewRow
  <1>8. CASE w.id # None
    <2>1. versions' = [off EXCEPT ![w.id] = w.row]
      BY <1>1, <1>8
    <2>2. versions' \in [1..n -> VersionRow]
      BY <1>3, <1>5, <2>1
    <2>3. versions' \in Seq(VersionRow) /\ Len(versions') = n /\ DOMAIN versions' = 1..n
      BY <1>2, <2>2
    <2>4. \A v \in 1..n : versions'[v] = IF v = w.id THEN w.row ELSE off[v]
      BY <1>5, <2>1
    <2>5. \A v \in DOMAIN versions' \ {w.id} :
            /\ v \in DOMAIN versions
            /\ versions'[v].template = versions[v].template
            /\ versions'[v].topology = versions[v].topology
            /\ versions'[v].active <=> versions[v].active /\ v \notin w.sees
      BY <1>2, <1>4, <2>3, <2>4
    <2>6. /\ Len(versions') \in Nat /\ n <= Len(versions')
          /\ w.id \in DOMAIN versions' /\ w.id \in DOMAIN versions
          /\ versions'[w.id] = w.row
          /\ \A v \in DOMAIN versions : v \in DOMAIN versions'
      BY <1>2, <1>3, <1>8, <2>3, <2>4
    <2> HIDE DEF after
    <2> QED BY <1>1, <1>3, <1>8, <2>3, <2>5, <2>6 DEF Committed, NewRow
  <1> QED BY <1>7, <1>8

\* What other templates have is not touched, nor are older versions of this one.
LEMMA CommittedOthers ==
  ASSUME Sound, NEW r \in Tasks, Commit(r), NEW w, w = task[r]
  PROVE  /\ \A v : v <= Len(versions) => (v \in VersionsOf(w.template)' <=> v \in VersionsOf(w.template))
         /\ \A o \in Templates \ {w.template} :
              /\ VersionsOf(o)' = VersionsOf(o) /\ ActiveOf(o)' = ActiveOf(o)
              /\ Current(o)' = Current(o)
              /\ \A v \in VersionsOf(o) : versions'[v].active <=> versions[v].active
  <1>1. PICK id : Committed(w, id) /\ base' = base
    BY CommittedRows DEF Commit
  <1>2. /\ WriteSound(w) /\ w.op = "write"
    BY DEF Commit, Serving, Sound
  <1>3. /\ w.template \in Templates /\ w.row.template = w.template
        /\ w.sees \subseteq VersionsOf(w.template)
    BY <1>2 DEF WriteSound
  <1>4. DOMAIN versions = 1..Len(versions) /\ Len(versions) \in Nat
    BY FiniteVersions
  <1>5. DOMAIN versions' = 1..Len(versions')
    BY <1>1 DEF Committed
  <1>6. \A v : v <= Len(versions) => (v \in VersionsOf(w.template)' <=> v \in VersionsOf(w.template))
    BY <1>1, <1>3, <1>4, <1>5 DEF Committed, VersionsOf
  <1>7. ASSUME NEW o \in Templates \ {w.template}
        PROVE  /\ VersionsOf(o)' = VersionsOf(o) /\ ActiveOf(o)' = ActiveOf(o)
               /\ Current(o)' = Current(o)
               /\ \A v \in VersionsOf(o) : versions'[v].active <=> versions[v].active
    <2>1. \A v \in VersionsOf(o) : v # id /\ v \in DOMAIN versions' /\ v \notin w.sees
      BY <1>1, <1>3 DEF Committed, VersionsOf
    <2>2. VersionsOf(o)' = VersionsOf(o)
      BY <1>1, <1>3, <2>1 DEF Committed, VersionsOf
    <2>3. \A v \in VersionsOf(o) : /\ versions'[v].active <=> versions[v].active
                                  /\ versions'[v].topology = versions[v].topology
      BY <1>1, <2>1 DEF Committed
    <2>4. ActiveOf(o)' = ActiveOf(o)
      BY <2>2, <2>3 DEF ActiveOf
    <2>5. PICK S, c : S = ActiveOf(o) /\ c = CHOOSE v \in S : TRUE
      OBVIOUS
    <2>6. S # {} => c \in S /\ versions'[c].topology = versions[c].topology
      BY <2>3, <2>5 DEF ActiveOf
    <2>7. Current(o)' = Current(o)
      BY <1>1, <2>4, <2>5, <2>6 DEF Current
    <2> QED BY <2>2, <2>3, <2>4, <2>7
  <1> QED BY <1>6, <1>7

\* A transaction of the same template is as sound as before the commit, if it is told
\* of a version that was not there when it began.
LEMMA WriterTold ==
  ASSUME Sound, NEW r \in Tasks, Commit(r), NEW w, w = task[r],
         NEW o \in Tasks, NEW q, WriteSound(task[o]), task[o].op = "write",
         task[o].template = w.template, DOMAIN q = DOMAIN task[o],
         q.op = "write", q.template = w.template, q.id = task[o].id, q.row = task[o].row,
         q.at = task[o].at, q.sees = task[o].sees, q.began = task[o].began,
         ~q.missed => /\ ~task[o].missed
                      /\ q.at # "invalidate" =>
                           ~w.row.active \/ NewRow(w) <= q.began
  PROVE  WriteSound(q)'
  <1>1. PICK id : id = NewRow(w) /\ Committed(w, id)
    BY CommittedRows
  <1>2. \A v : v <= Len(versions) => (v \in VersionsOf(w.template)' <=> v \in VersionsOf(w.template))
    BY CommittedOthers
  <1>3. /\ DOMAIN versions = 1..Len(versions) /\ Len(versions) \in Nat
        /\ DOMAIN versions' = 1..Len(versions') /\ Len(versions') \in Nat
        /\ Len(versions) <= Len(versions')
    BY <1>1, FiniteVersions DEF Committed
  <1>4. q.began \in Nat /\ q.began <= Len(versions) /\ q.began <= Len(versions')
    BY <1>3 DEF WriteSound
  <1>5. q.row.active => q.sees = {v \in VersionsOf(q.template)' : v <= q.began}
    <2> SUFFICES ASSUME q.row.active
                 PROVE  q.sees = {v \in VersionsOf(q.template)' : v <= q.began}
      OBVIOUS
    <2>1. q.sees = {v \in VersionsOf(q.template) : v <= q.began}
      BY DEF WriteSound
    <2>2. \A v \in VersionsOf(q.template) \union VersionsOf(q.template)' : v \in Nat
      BY <1>3 DEF VersionsOf
    <2> QED BY <1>2, <1>3, <1>4, <2>1, <2>2
  <1>6. q.id # None => q.id \in DOMAIN versions' /\ versions'[q.id].template = q.template
    <2>1. WriteSound(w)
      BY DEF Sound
    <2>2. w.op = "write" /\ w.row.template = w.template
      BY <2>1 DEF Commit, Serving, WriteSound
    <2> QED BY <1>1, <2>2 DEF WriteSound, Committed
  <1>7. ASSUME q.row.active, q.at # "invalidate", ~q.missed,
               NEW v \in VersionsOf(q.template)', v > q.began
        PROVE  ~versions'[v].active
    <2>1. CASE v = id
      <3>1. v \in Nat
        BY <1>3 DEF VersionsOf
      <3>2. ~w.row.active
        BY <1>1, <1>4, <1>7, <2>1, <3>1
      <3> QED BY <1>1, <2>1, <3>2 DEF Committed
    <2>2. CASE v # id
      <3>1. v \in VersionsOf(q.template) /\ (versions'[v].active => versions[v].active)
        BY <1>1, <1>7, <2>2 DEF Committed, VersionsOf
      <3> QED BY <1>7, <3>1 DEF WriteSound
    <2> QED BY <2>1, <2>2
  <1> QED BY <1>4, <1>5, <1>6, <1>7 DEF WriteSound

\* So are the requests and the transactions of the other templates.
LEMMA OthersTold ==
  ASSUME Sound, NEW r \in Tasks, Commit(r), NEW q, GetSound(q), WriteSound(q),
         q.op \in {"get", "write"} => q.template # task[r].template
  PROVE  GetSound(q)' /\ WriteSound(q)'
  <1>1. PICK w, id : w = task[r] /\ id = NewRow(w) /\ Committed(w, id)
    BY CommittedRows
  <1>2. \A o \in Templates \ {w.template} :
              /\ VersionsOf(o)' = VersionsOf(o) /\ ActiveOf(o)' = ActiveOf(o)
              /\ Current(o)' = Current(o)
              /\ \A v \in VersionsOf(o) : versions'[v].active <=> versions[v].active
    BY <1>1, CommittedOthers
  <1>3. GetSound(q)'
    BY <1>1, <1>2 DEF GetSound
  <1>4. Len(versions) \in Nat /\ Len(versions') \in Nat /\ Len(versions) <= Len(versions')
    BY <1>1, FiniteVersions DEF Committed
  <1>5. ASSUME q.op = "write"
        PROVE  /\ q.id # None => q.id \in DOMAIN versions' /\ versions'[q.id].template = q.template
               /\ q.began <= Len(versions')
    BY <1>1, <1>4, <1>5 DEF WriteSound, Committed
  <1>6. WriteSound(q)'
    BY <1>1, <1>2, <1>5 DEF WriteSound
  <1> QED BY <1>3, <1>6

\* An inactive version changes nothing that is current.
LEMMA CommitInactiveSound ==
  ASSUME Sound, NEW r \in Tasks, Commit(r), ~task[r].row.active
  PROVE  Sound'
  <1>1. PICK w, id, t : /\ w = task[r] /\ id = NewRow(w) /\ Committed(w, id) /\ t = w.template
    BY CommittedRows
  <1>2. /\ task' = [task EXCEPT ![r] = Idle] /\ UNCHANGED <<base, cache, doubled, outdated>>
        /\ w.op = "write" /\ w.at = "commit" /\ WriteSound(w)
    BY <1>1 DEF Commit, Serving, Sound
  <1>3. t \in Templates /\ w.id = None /\ w.sees = {} /\ ~w.row.active /\ w.row.template = t
    BY <1>1, <1>2 DEF WriteSound
  <1>4. /\ DOMAIN versions = 1..Len(versions) /\ Len(versions) \in Nat
        /\ DOMAIN versions' = 1..Len(versions')
    BY <1>1, FiniteVersions DEF Committed
  <1>5. id \notin DOMAIN versions
    <2>1. id = Len(versions')
      BY <1>1, <1>3 DEF NewRow
    <2>2. Len(versions') = Len(versions) + 1
      <3>1. versions' = Append([v \in DOMAIN versions |-> IF v \in w.sees THEN [versions[v] EXCEPT !.active = FALSE]
                                        ELSE versions[v]], w.row)
        BY <1>1, <1>3 DEF Commit, Written
      <3>2. versions' = Append(versions, w.row)
        BY <1>3, <1>4, <3>1 DEF Sound, RowsSound
      <3> QED BY <1>1, <1>2, <3>2, AppendProperties DEF WriteSound, Sound, RowsSound
    <2> QED BY <1>4, <2>1, <2>2
  <1>6. ActiveOf(t)' = ActiveOf(t) /\ \A v \in ActiveOf(t) : versions'[v].topology = versions[v].topology
    BY <1>1, <1>3, <1>5 DEF Committed, ActiveOf, VersionsOf
  <1>7. Current(t)' = Current(t)
    <2>1. PICK S, c : S = ActiveOf(t) /\ c = CHOOSE v \in S : TRUE
      OBVIOUS
    <2>2. S # {} => c \in S /\ versions'[c].topology = versions[c].topology
      BY <1>6, <2>1
    <2> QED BY <1>2, <1>6, <2>1, <2>2 DEF Current
  <1>8. \A o \in Templates : ActiveOf(o)' = ActiveOf(o) /\ Current(o)' = Current(o)
    BY <1>1, <1>6, <1>7, CommittedOthers
  <1>9. \A o \in Tasks : GetSound(task[o])' /\ WriteSound(task[o])'
    <2> SUFFICES ASSUME NEW o \in Tasks
                 PROVE  GetSound(task[o])' /\ WriteSound(task[o])'
      OBVIOUS
    <2>1. CASE o = r
      BY <1>2, <2>1 DEF Sound, RowsSound, GetSound, WriteSound, Idle
    <2>2. CASE o # r
      <3>1. PICK q : q = task[o] /\ q = task'[o] /\ GetSound(q) /\ WriteSound(q)
        BY <1>2, <2>2 DEF Sound
      <3>2. GetSound(q)'
        BY <1>8, <3>1 DEF GetSound
      <3>3. CASE q.op = "write" /\ q.template = t
        <4>1. WriteSound(q)'
          BY <1>1, <1>3, <3>1, <3>3, WriterTold
        <4> QED BY <3>1, <3>2, <4>1 DEF GetSound, WriteSound
      <3>4. CASE q.op = "write" /\ q.template # t
        <4>1. WriteSound(q)'
          BY <1>1, <3>1, <3>4, OthersTold
        <4> QED BY <3>1, <3>2, <4>1 DEF GetSound, WriteSound
      <3>5. CASE q.op # "write"
        BY <3>1, <3>2, <3>5 DEF GetSound, WriteSound
      <3> QED BY <3>3, <3>4, <3>5
    <2> QED BY <2>1, <2>2
  <1>10. \A o \in Templates : Settled(o)' => Settled(o)
    <2>1. \A o \in Tasks : Serving(o, "write", "invalidate") =>
            Serving(o, "write", "invalidate")' /\ task'[o] = task[o]
      BY <1>1, <1>2 DEF Sound, RowsSound, Serving
    <2> QED BY <1>2, <2>1 DEF Settled
  <1>11. CacheSound'
    BY <1>2, <1>8, <1>10 DEF Sound, CacheSound
  <1>12. RowsSound'
    BY <1>1, <1>2 DEF Committed, Sound, RowsSound
  <1>13. \A o \in Templates \ doubled' : AtMostOne(ActiveOf(o))'
    BY <1>2, <1>8 DEF Sound, AtMostOne
  <1> QED BY <1>9, <1>11, <1>12, <1>13 DEF Sound

\* An active version becomes the only one, or an observer names its template.
LEMMA CommitActiveSound ==
  ASSUME Sound, NEW r \in Tasks, Commit(r), task[r].row.active
  PROVE  Sound'
  <1>1. PICK w, id, t : /\ w = task[r] /\ id = NewRow(w) /\ Committed(w, id) /\ t = w.template
    BY CommittedRows
  <1>2. /\ task' = [o \in Tasks |-> IF o = r THEN [w EXCEPT !.at = "invalidate"]
                                    ELSE Told(o, t, id)]
        /\ doubled' = IF w.missed THEN doubled \union {t} ELSE doubled \ {t}
        /\ UNCHANGED <<base, cache, outdated>>
        /\ w.op = "write" /\ w.at = "commit" /\ WriteSound(w)
    BY <1>1 DEF Commit, Serving, Sound, NewRow
  <1>3. t \in Templates /\ w.row.template = t /\ w.row.active
    BY <1>1, <1>2 DEF WriteSound
  <1>4. RowsSound'
    BY <1>1, <1>2 DEF Committed, Sound, RowsSound
  <1>5. \A o \in Templates \ doubled' : AtMostOne(ActiveOf(o))'
    <2> SUFFICES ASSUME NEW o \in Templates \ doubled'
                 PROVE  AtMostOne(ActiveOf(o))'
      OBVIOUS
    <2>1. CASE o # t
      <3>1. o \notin doubled /\ ActiveOf(o)' = ActiveOf(o)
        BY <1>1, <1>2, <2>1, CommittedOthers
      <3> QED BY <3>1 DEF Sound, AtMostOne
    <2>2. CASE o = t
      <3>1. ~w.missed
        BY <1>2, <2>2
      <3>2. \A v \in VersionsOf(t) : v \notin w.sees => ~versions[v].active
        <4> SUFFICES ASSUME NEW v \in VersionsOf(t), v \notin w.sees
                     PROVE  ~versions[v].active
          OBVIOUS
        <4>1. v \in Nat /\ w.began \in Nat
          BY <1>2, FiniteVersions DEF WriteSound, VersionsOf
        <4>2. ~(v <= w.began)
          BY <1>1, <1>2, <1>3 DEF WriteSound
        <4>3. v > w.began
          BY <4>1, <4>2
        <4> QED BY <1>1, <1>2, <1>3, <3>1, <4>3 DEF WriteSound
      <3>3. ActiveOf(t)' \subseteq {id}
        BY <1>1, <3>2 DEF Committed, ActiveOf, VersionsOf
      <3> QED BY <2>2, <3>3 DEF AtMostOne
    <2> QED BY <2>1, <2>2
  <1>6. \A o \in Tasks \ {r} : Serving(o, "write", "invalidate") =>
          Serving(o, "write", "invalidate")' /\ task'[o].template = task[o].template
    <2> SUFFICES ASSUME NEW o \in Tasks \ {r}, Serving(o, "write", "invalidate")
                 PROVE  Serving(o, "write", "invalidate")' /\ task'[o].template = task[o].template
      OBVIOUS
    <2>1. DOMAIN task[o] = {"op", "template", "id", "row", "at", "sees", "began", "missed"}
      BY DEF Serving, Sound, WriteSound
    <2>2. task'[o] = Told(o, t, id)
      BY <1>2
    <2> QED BY <2>1, <2>2 DEF Serving, Told
  <1>7. ~Settled(t)'
    <2>1. Serving(r, "write", "invalidate")' /\ task'[r].template = t
      BY <1>1, <1>2 DEF Serving, WriteSound
    <2> QED BY <2>1 DEF Settled
  <1>8. \A o \in Templates : Settled(o)' => Settled(o)
    <2>1. ~Serving(r, "write", "invalidate")
      BY <1>1, <1>2 DEF Serving
    <2> QED BY <1>2, <1>6, <2>1 DEF Settled
  <1>9. CacheSound'
    <2> SUFFICES ASSUME NEW o \in Templates, cache'[o] # None, Settled(o)'
                 PROVE  Current(o)' # None /\ cache'[o].topology = Current(o)'
      BY DEF CacheSound
    <2>1. o # t
      BY <1>7
    <2>2. Current(o)' = Current(o)
      BY <1>1, <2>1, CommittedOthers
    <2> QED BY <1>2, <1>8, <2>2 DEF Sound, CacheSound
  <1>10. ASSUME NEW o \in Tasks
         PROVE  GetSound(task[o])' /\ WriteSound(task[o])'
    <2>1. CASE o = r
      <3>1. PICK q : q = task'[o] /\ q = [w EXCEPT !.at = "invalidate"]
        BY <1>2, <2>1
      <3>2. /\ DOMAIN q = DOMAIN w /\ q.op = "write" /\ q.template = t
            /\ q.id = w.id /\ q.row = w.row /\ q.at = "invalidate"
            /\ q.sees = w.sees /\ q.began = w.began
        BY <1>1, <1>2, <3>1 DEF WriteSound
      <3>3. /\ q.id # None => q.id \in DOMAIN versions' /\ versions'[q.id].template = t
            /\ q.began <= Len(versions')
        <4>1. Len(versions) \in Nat /\ Len(versions') \in Nat /\ Len(versions) <= Len(versions')
          BY <1>1, FiniteVersions DEF Committed
        <4>2. q.began \in Nat /\ q.began <= Len(versions)
          BY <1>2, <3>2 DEF WriteSound
        <4>3. q.id # None => q.id = id
          BY <1>1, <3>2 DEF NewRow
        <4> QED BY <1>1, <1>3, <4>1, <4>2, <4>3 DEF Committed
      <3>4. q.sees = {v \in VersionsOf(t)' : v <= q.began}
        <4>1. q.sees = {v \in VersionsOf(t) : v <= q.began}
          BY <1>1, <1>2, <1>3, <3>2 DEF WriteSound
        <4>2. \A v : v <= Len(versions) => (v \in VersionsOf(t)' <=> v \in VersionsOf(t))
          BY <1>1, CommittedOthers
        <4>3. /\ q.began \in Nat /\ q.began <= Len(versions) /\ Len(versions) \in Nat
              /\ \A v \in VersionsOf(t) \union VersionsOf(t)' : v \in Nat
          BY <1>1, <1>2, <3>2, FiniteVersions DEF WriteSound, VersionsOf, Committed
        <4> QED BY <4>1, <4>2, <4>3
      <3>5. WriteSound(q)' /\ GetSound(q)'
        BY <1>2, <1>3, <3>2, <3>3, <3>4 DEF WriteSound, GetSound
      <3> QED BY <3>1, <3>5 DEF GetSound, WriteSound
    <2>2. CASE o # r /\ (task[o] = Idle \/ task[o].template # t)
      <3>1. PICK q : q = task[o] /\ q = task'[o] /\ GetSound(q) /\ WriteSound(q)
        BY <1>2, <2>2 DEF Told, Sound
      <3>2. q.op \in {"get", "write"} => q.template # t
        BY <2>2, <3>1 DEF Idle
      <3>3. GetSound(q)' /\ WriteSound(q)'
        BY <1>1, <3>1, <3>2, OthersTold
      <3> QED BY <3>1, <3>3 DEF GetSound, WriteSound
    <2>3. CASE o # r /\ task[o] # Idle /\ task[o].template = t /\ task[o].op = "get"
      <3>1. GetSound(task[o])
        BY DEF Sound
      <3>2. PICK q : q = task'[o] /\ q = [task[o] EXCEPT !.late = @ \/ task[o].at # "versions"]
        BY <1>2, <2>3 DEF Told
      <3>3. /\ DOMAIN q = DOMAIN task[o] /\ q.op = "get" /\ q.template = t
            /\ q.at = task[o].at /\ q.want = task[o].want
        BY <2>3, <3>1, <3>2 DEF GetSound
      <3>4. q.late <=> task[o].late \/ task[o].at # "versions"
        BY <2>3, <3>1, <3>2, Zenon DEF GetSound
      <3>5. GetSound(q)' /\ WriteSound(q)'
        BY <1>3, <2>3, <3>1, <3>3, <3>4 DEF GetSound, WriteSound
      <3> QED BY <3>2, <3>5 DEF GetSound, WriteSound
    <2>4. CASE o # r /\ task[o] # Idle /\ task[o].template = t /\ task[o].op = "write"
      <3>1. WriteSound(task[o])
        BY DEF Sound
      <3>2. PICK q : /\ q = task'[o]
                     /\ q = [task[o] EXCEPT !.missed = @ \/ (task[o].at # "invalidate" /\ id > task[o].began)]
        BY <1>2, <2>4 DEF Told
      <3>3. /\ DOMAIN q = DOMAIN task[o] /\ q.op = "write" /\ q.template = t
            /\ q.id = task[o].id /\ q.row = task[o].row
            /\ q.at = task[o].at /\ q.sees = task[o].sees /\ q.began = task[o].began
        BY <2>4, <3>1, <3>2 DEF WriteSound
      <3>4. q.missed <=> task[o].missed \/ (task[o].at # "invalidate" /\ id > task[o].began)
        BY <2>4, <3>1, <3>2, Zenon DEF WriteSound
      <3>5. id \in Nat /\ task[o].began \in Nat
        BY <1>1, <2>4, <3>1 DEF Committed, WriteSound
      <3>6. WriteSound(q)'
        BY <1>1, <2>4, <3>1, <3>3, <3>4, <3>5, WriterTold
      <3> QED BY <3>2, <3>3, <3>6 DEF GetSound, WriteSound
    <2>5. GetSound(task[o])
      BY DEF Sound
    <2> QED BY <2>1, <2>2, <2>3, <2>4, <2>5 DEF GetSound
  <1> QED BY <1>4, <1>5, <1>9, <1>10 DEF Sound

LEMMA StutterSound ==
  ASSUME Sound, UNCHANGED vars
  PROVE  Sound'
  <1> USE DEF vars
  <1>1. \A t : VersionsOf(t)' = VersionsOf(t) /\ ActiveOf(t)' = ActiveOf(t)
    BY DEF VersionsOf, ActiveOf
  <1>2. \A t : Current(t)' = Current(t)
    BY DEF Current, ActiveOf, VersionsOf
  <1>3. \A o \in Tasks : GetSound(task[o])' /\ WriteSound(task[o])'
    BY <1>1, <1>2 DEF Sound, GetSound, WriteSound
  <1> QED BY <1>1, <1>2, <1>3 DEF Sound, RowsSound, AtMostOne, CacheSound, Settled, Serving

LEMMA StepSound ==
  ASSUME Sound, [Next]_vars
  PROVE  Sound'
  <1>1. CASE UNCHANGED vars
    BY <1>1, StutterSound
  <1>2. ASSUME NEW r \in Tasks, Serve(r)
        PROVE  Sound'
    BY <1>2, SelectSound, SaverSound DEF Serve
  <1>3. ASSUME NEW r \in Tasks, Deactivate(r) \/ Invalidate(r) \/ LostAfterCommit(r) \/ WriteFails(r)
        PROVE  Sound'
    BY <1>3, NotCommittedSound, ToldSound
  <1>4. ASSUME NEW r \in Tasks, Commit(r)
        PROVE  Sound'
    BY <1>4, CommitActiveSound, CommitInactiveSound
  <1>5. ASSUME NEW r \in Tasks, NEW t \in Templates, GetGraph(r, t) \/ CompileTemplate(r, t)
        PROVE  Sound'
    BY <1>5, BeginSound
  <1>6. ASSUME NEW r \in Tasks, NEW t \in Templates, NEW topology \in Topologies,
               \/ CreateTemplate(r, t, topology)
               \/ \E active \in BOOLEAN : SaveVersion(r, t, topology, active)
        PROVE  Sound'
    BY <1>6, CreateSound, BeginWriteSound
  <1>7. ASSUME NEW r \in Tasks, NEW v \in DOMAIN versions, ActivateVersion(r, v)
        PROVE  Sound'
    BY <1>7, BeginWriteSound
  <1>8. CASE Restart
    BY <1>8, RestartSound
  <1> QED BY <1>1, <1>2, <1>3, <1>4, <1>5, <1>6, <1>7, <1>8 DEF Next

LEMMA SpecSound == Spec => []Sound
  BY InitSound, StepSound, PTL DEF Spec

-----------------------------------------------------------------------------
(* Types, and what is cached.                                              *)

CachedRuns ==
  /\ saver \in BOOLEAN
  /\ \A t \in Templates : cache[t] # None => Runs(cache[t].topology)

\* A graph is cached when it has compiled, and only then.
LEMMA FinishRuns ==
  ASSUME Sound, CachedRuns, NEW r \in Tasks, NEW kind, Finish(r, kind), saver' \in BOOLEAN
  PROVE  CachedRuns'
<1> DEFINE want == task[r].want
           t == task[r].template
<1>1. CASE UNCHANGED cache
  BY <1>1 DEF CachedRuns
<1>2. CASE Runs(want) /\ cache' = [cache EXCEPT ![t] = Graph(want, kind)]
  <2>1. Graph(want, kind).topology = want
    BY DEF Graph
  <2> HIDE DEF want
  <2>2. \A x \in Templates :
          cache'[x] = IF x = t THEN Graph(want, kind) ELSE cache[x]
    BY <1>2 DEF Sound, RowsSound
  <2>3. \A x \in Templates : cache'[x] # None => Runs(cache'[x].topology)
    BY <1>2, <2>1, <2>2 DEF CachedRuns
  <2> QED
    BY <2>3 DEF CachedRuns
<1> QED
  BY <1>1, <1>2 DEF Finish

\* What is dropped from the cache leaves the rest as it was.
LEMMA DropRuns ==
  ASSUME Sound, CachedRuns, NEW t, cache' = [cache EXCEPT ![t] = None], UNCHANGED saver
  PROVE  CachedRuns'
<1>1. \A x \in Templates : cache'[x] = IF x = t THEN None ELSE cache[x]
  BY DEF Sound, RowsSound
<1> QED
  BY <1>1 DEF CachedRuns

LEMMA StepRuns == Sound /\ CachedRuns /\ [Next]_vars => CachedRuns'
<1> SUFFICES ASSUME Sound, CachedRuns, [Next]_vars
             PROVE  CachedRuns'
  OBVIOUS
<1>1. UNCHANGED <<cache, saver>> => CachedRuns'
  BY DEF CachedRuns
<1>2. CASE UNCHANGED vars
  BY <1>1, <1>2 DEF vars
<1>3. ASSUME NEW r \in Tasks, Serve(r)
      PROVE  CachedRuns'
  <2>1. CASE SelectVersion(r) \/ SelectBase(r) \/ StorageFails(r)
    BY <1>1, <2>1 DEF SelectVersion, SelectBase, StorageFails, Wants
  <2>2. CASE SaverReady(r) \/ SetupSucceeds(r) \/ SetupFails(r)
    BY <2>2, FinishRuns DEF SaverReady, SetupSucceeds, SetupFails, CachedRuns
  <2>3. CASE EnterLock(r)
    BY <1>1, <2>3 DEF EnterLock
  <2>4. CASE Woken(r)
    BY <1>1, <2>4, FinishRuns DEF Woken, CachedRuns
  <2> QED
    BY <1>3, <2>1, <2>2, <2>3, <2>4 DEF Serve
<1>4. ASSUME NEW r \in Tasks,
             \/ Deactivate(r) \/ Commit(r) \/ LostAfterCommit(r) \/ WriteFails(r)
      PROVE  CachedRuns'
  BY <1>1, <1>4 DEF Deactivate, Commit, LostAfterCommit, WriteFails
<1>5. ASSUME NEW r \in Tasks, Invalidate(r)
      PROVE  CachedRuns'
  BY <1>5, DropRuns DEF Invalidate
<1>6. ASSUME NEW r \in Tasks, NEW t \in Templates,
             \/ GetGraph(r, t) \/ CompileTemplate(r, t)
             \/ \E topology \in Topologies :
                  \/ CreateTemplate(r, t, topology)
                  \/ \E active \in BOOLEAN : SaveVersion(r, t, topology, active)
      PROVE  CachedRuns'
  BY <1>1, <1>6, DropRuns DEF GetGraph, CompileTemplate, CreateTemplate, SaveVersion
<1>7. ASSUME NEW r \in Tasks, NEW v \in DOMAIN versions, ActivateVersion(r, v)
      PROVE  CachedRuns'
  BY <1>1, <1>7 DEF ActivateVersion
<1>8. CASE Restart
  BY <1>8 DEF Restart, CachedRuns
<1> QED
  BY <1>2, <1>3, <1>4, <1>5, <1>6, <1>7, <1>8 DEF Next

-----------------------------------------------------------------------------
(* The lock of the checkpointer.                                           *)

LockSound == lock \in Seq(Tasks) /\ SetupIsSingle

\* Nobody comes to the lock or leaves it.
LEMMA LockKept ==
  ASSUME LockSound, UNCHANGED <<lock, saver>>,
         \A r \in Tasks : /\ At(r, "setup")' <=> At(r, "setup")
                          /\ At(r, "queued")' <=> At(r, "queued")
  PROVE  LockSound'
BY DEF LockSound, SetupIsSingle, Waits

\* What the others do about the lock.
LEMMA OthersWait ==
  ASSUME Sound, NEW r \in Tasks, NEW q, task' = [task EXCEPT ![r] = q]
  PROVE  /\ task'[r] = q
         /\ \A o \in Tasks \ {r} : task'[o] = task[o]
BY DEF Sound, RowsSound

\* Task r goes on as q, and neither was nor is at the lock.
LEMMA AwayFromLock ==
  ASSUME Sound, LockSound, NEW r \in Tasks, NEW q, task' = [task EXCEPT ![r] = q],
         UNCHANGED <<lock, saver>>, ~Waits(r),
         q.op = "get" => q.at \notin {"setup", "queued"}
  PROVE  LockSound'
<1>1. \A o \in Tasks : /\ At(o, "setup")' <=> At(o, "setup")
                       /\ At(o, "queued")' <=> At(o, "queued")
  BY OthersWait DEF At, Waits
<1> QED
  BY <1>1, LockKept

LEMMA EnterSound ==
  ASSUME Sound, LockSound, NEW r \in Tasks, EnterLock(r)
  PROVE  LockSound'
<1> DEFINE next == IF lock = <<>> THEN "setup" ELSE "queued"
<1>1. /\ At(r, "saver") /\ ~saver /\ UNCHANGED saver
      /\ lock' = Append(lock, r) /\ lock \in Seq(Tasks)
      /\ task' = [task EXCEPT ![r] = [task[r] EXCEPT !.at = next]]
  BY DEF EnterLock, LockSound
<1>2. ~Waits(r) /\ r \notin Range(lock)
  BY <1>1 DEF At, Waits, LockSound, SetupIsSingle
<1>3. [task[r] EXCEPT !.at = next].op = "get" /\ [task[r] EXCEPT !.at = next].at = next
  BY <1>1 DEF At, Sound, GetSound
<1> HIDE DEF next
<1>4. /\ task'[r].op = "get" /\ task'[r].at = next
      /\ \A o \in Tasks \ {r} : task'[o] = task[o]
  BY <1>1, <1>3, OthersWait
<1>5. /\ lock' \in Seq(Tasks) /\ Len(lock') = Len(lock) + 1 /\ Len(lock) \in Nat
      /\ DOMAIN lock = 1..Len(lock) /\ DOMAIN lock' = 1..Len(lock')
      /\ \A i \in DOMAIN lock : lock'[i] = lock[i]
      /\ lock'[Len(lock) + 1] = r
  BY <1>1
<1>6. IsInjective(lock')
  <2>1. \A i \in DOMAIN lock : lock[i] # r
    BY <1>2 DEF Range
  <2> QED
    BY <1>5, <2>1 DEF IsInjective, LockSound, SetupIsSingle
<1>7. \A o \in Tasks : o \in Range(lock') <=> o = r \/ o \in Range(lock)
  <2>1. \A i \in DOMAIN lock' : i \in DOMAIN lock \/ i = Len(lock) + 1
    BY <1>5
  <2>2. DOMAIN lock \subseteq DOMAIN lock' /\ Len(lock) + 1 \in DOMAIN lock'
    BY <1>5
  <2> QED
    BY <1>5, <2>1, <2>2 DEF Range
<1>8. \A o \in Tasks : Waits(o)' <=> o = r \/ Waits(o)
  BY <1>4 DEF Waits, At, next
<1>9. ASSUME NEW o \in Tasks, At(o, "setup")'
      PROVE  ~saver' /\ Head(lock') = o
  <2>1. CASE o = r
    <3>1. lock = <<>>
      BY <1>4, <1>9, <2>1 DEF At, next
    <3> QED
      BY <1>1, <2>1, <3>1
  <2>2. CASE o # r
    <3>1. At(o, "setup") /\ Head(lock) = o /\ o \in Range(lock)
      BY <1>4, <1>9, <2>2 DEF At, Waits, LockSound, SetupIsSingle
    <3>2. lock # <<>>
      BY <3>1 DEF Range
    <3>3. Head(lock') = Head(lock)
      BY <1>1, <3>2
    <3> QED
      BY <1>1, <3>1, <3>3
  <2> QED
    BY <2>1, <2>2
<1>10. \A o \in Tasks : Waits(o)' <=> o \in Range(lock')
  BY <1>7, <1>8 DEF LockSound, SetupIsSingle
<1> QED
  BY <1>5, <1>6, <1>9, <1>10 DEF LockSound, SetupIsSingle

\* Who leaves the lock, with the checkpointer set up or not, was the first in line.
LEMMA LeaveSound ==
  ASSUME Sound, LockSound, NEW r \in Tasks, Waits(r), LeaveLock(r),
         task' = [task EXCEPT ![r] = Idle]
  PROVE  LockSound'
<1>1. /\ lock \in Seq(Tasks) /\ r \in Range(lock) /\ Head(lock) = r /\ lock' = Tail(lock)
      /\ IsInjective(lock)
  BY DEF LeaveLock, LockSound, SetupIsSingle
<1>2. lock # <<>>
  BY <1>1 DEF Range
<1>3. /\ lock' \in Seq(Tasks) /\ Len(lock') = Len(lock) - 1 /\ Len(lock) \in Nat \ {0}
      /\ DOMAIN lock = 1..Len(lock) /\ DOMAIN lock' = 1..Len(lock')
      /\ \A i \in DOMAIN lock' : lock'[i] = lock[i + 1]
      /\ lock[1] = r
  BY <1>1, <1>2
<1>4. IsInjective(lock')
  <2>1. \A i \in DOMAIN lock' : i \in Int /\ i + 1 \in DOMAIN lock
    BY <1>3
  <2> SUFFICES ASSUME NEW i \in DOMAIN lock', NEW j \in DOMAIN lock', lock'[i] = lock'[j]
               PROVE  i = j
    BY DEF IsInjective
  <2>2. lock[i + 1] = lock[j + 1]
    BY <1>3
  <2>3. i + 1 = j + 1
    BY <1>1, <2>1, <2>2 DEF IsInjective
  <2> QED
    BY <2>1, <2>3
<1>5. \A o \in Tasks : o \in Range(lock') <=> o # r /\ o \in Range(lock)
  <2>1. ASSUME NEW i \in DOMAIN lock'
        PROVE  lock'[i] # r /\ lock'[i] \in Range(lock)
    <3>1. i + 1 \in DOMAIN lock /\ i + 1 # 1 /\ 1 \in DOMAIN lock
      BY <1>3
    <3>2. lock[i + 1] # lock[1]
      BY <1>1, <3>1 DEF IsInjective
    <3> QED
      BY <1>3, <3>1, <3>2 DEF Range
  <2>2. ASSUME NEW i \in DOMAIN lock, lock[i] # r
        PROVE  lock[i] \in Range(lock')
    <3>1. i - 1 \in DOMAIN lock' /\ lock'[i - 1] = lock[i]
      BY <1>3, <2>2
    <3> QED
      BY <3>1 DEF Range
  <2> QED
    BY <2>1, <2>2 DEF Range
<1>6. \A o \in Tasks : /\ Waits(o)' <=> o # r /\ Waits(o)
                       /\ At(o, "setup")' => o # r /\ At(o, "setup")
  <2>1. task'[r] = Idle /\ \A o \in Tasks \ {r} : task'[o] = task[o]
    BY OthersWait
  <2>2. task'[r].op # "get"
    BY <2>1 DEF Idle
  <2> QED
    BY <2>1, <2>2 DEF Waits, At
<1>7. \A o \in Tasks : ~At(o, "setup")'
  BY <1>1, <1>6 DEF LockSound, SetupIsSingle
<1>8. \A o \in Tasks : Waits(o)' <=> o \in Range(lock')
  BY <1>5, <1>6 DEF LockSound, SetupIsSingle
<1> QED
  BY <1>3, <1>4, <1>7, <1>8 DEF LockSound, SetupIsSingle

\* Who has the lock by now, and finds no checkpointer, sets it up.
LEMMA WokenSound ==
  ASSUME Sound, LockSound, NEW r \in Tasks, Woken(r)
  PROVE  LockSound'
<1>1. At(r, "queued") /\ Waits(r) /\ Head(lock) = r
  BY DEF Woken, Waits
<1>2. CASE saver
  <2>1. LeaveLock(r) /\ task' = [task EXCEPT ![r] = Idle]
    BY <1>2 DEF Woken, Finish
  <2> QED
    BY <1>1, <2>1, LeaveSound
<1>3. CASE ~saver
  <2>1. /\ UNCHANGED <<lock, saver>>
        /\ task' = [task EXCEPT ![r] = [task[r] EXCEPT !.at = "setup"]]
    BY <1>3 DEF Woken
  <2>2. /\ [task[r] EXCEPT !.at = "setup"].op = "get"
        /\ [task[r] EXCEPT !.at = "setup"].at = "setup"
    BY <1>1 DEF At, Sound, GetSound
  <2>3. /\ task'[r].op = "get" /\ task'[r].at = "setup"
        /\ \A o \in Tasks \ {r} : task'[o] = task[o]
    BY <2>1, <2>2, OthersWait
  <2>4. \A o \in Tasks : Waits(o)' <=> Waits(o)
    BY <1>1, <2>3 DEF Waits, At
  <2>5. \A o \in Tasks \ {r} : At(o, "setup")' => At(o, "setup")
    BY <2>3 DEF At
  <2> QED
    BY <1>1, <1>3, <2>1, <2>4, <2>5 DEF LockSound, SetupIsSingle
<1> QED
  BY <1>2, <1>3

LEMMA ServeLocks ==
  ASSUME Sound, LockSound, NEW r \in Tasks, Serve(r)
  PROVE  LockSound'
<1>1. CASE SelectVersion(r) \/ SelectBase(r) \/ StorageFails(r)
  <2>1. /\ At(r, "versions") \/ At(r, "base")
        /\ UNCHANGED <<lock, saver>>
        /\ \/ \E topology : task' = [task EXCEPT ![r] =
                 IF topology = BuiltIn /\ default # None THEN Idle
                 ELSE [task[r] EXCEPT !.at = "saver", !.want = topology]]
           \/ task' = [task EXCEPT ![r] = [task[r] EXCEPT !.at = "base"]]
    BY <1>1 DEF SelectVersion, SelectBase, StorageFails, Wants
  <2>2. DOMAIN task[r] = {"op", "template", "at", "want", "late"} /\ ~Waits(r)
    BY <2>1 DEF At, Waits, Sound, GetSound
  <2>3. [task[r] EXCEPT !.at = "base"].at = "base"
    BY <2>2
  <2>4. \A topology : [task[r] EXCEPT !.at = "saver", !.want = topology].at = "saver"
    BY <2>2
  <2>5. PICK q : /\ task' = [task EXCEPT ![r] = q]
                 /\ q = Idle \/ q.at \in {"saver", "base"}
    BY <2>1, <2>3, <2>4
  <2> QED
    BY <2>1, <2>2, <2>5, AwayFromLock DEF Idle
<1>2. CASE SaverReady(r)
  <2>1. ~Waits(r) /\ task' = [task EXCEPT ![r] = Idle] /\ UNCHANGED <<lock, saver>>
    BY <1>2 DEF SaverReady, Finish, At, Waits
  <2> QED
    BY <2>1, AwayFromLock DEF Idle
<1>3. CASE SetupSucceeds(r) \/ SetupFails(r)
  <2>1. Waits(r) /\ LeaveLock(r) /\ task' = [task EXCEPT ![r] = Idle]
    BY <1>3 DEF SetupSucceeds, SetupFails, Finish, Waits
  <2> QED
    BY <2>1, LeaveSound
<1> QED
  BY <1>1, <1>2, <1>3, EnterSound, WokenSound DEF Serve

\* A request that changes rows never comes near the lock.
LEMMA WriteLocks ==
  ASSUME Sound, LockSound, NEW r \in Tasks,
         Deactivate(r) \/ Commit(r) \/ Invalidate(r) \/ LostAfterCommit(r) \/ WriteFails(r)
  PROVE  LockSound'
<1>1. task[r].op = "write" /\ UNCHANGED <<lock, saver>> /\ ~Waits(r)
  BY DEF Deactivate, Commit, Invalidate, LostAfterCommit, WriteFails, Serving, Waits, At
<1>2. CASE Deactivate(r)
  <2>1. task' = [task EXCEPT ![r] = [task[r] EXCEPT !.at = "commit"]]
    BY <1>2 DEF Deactivate
  <2>2. [task[r] EXCEPT !.at = "commit"].op = "write"
    BY <1>1 DEF Sound, WriteSound
  <2> QED
    BY <1>1, <2>1, <2>2, AwayFromLock
<1>3. CASE Invalidate(r) \/ LostAfterCommit(r) \/ WriteFails(r)
  <2>1. task' = [task EXCEPT ![r] = Idle]
    BY <1>3 DEF Invalidate, LostAfterCommit, WriteFails
  <2> QED
    BY <1>1, <2>1, AwayFromLock DEF Idle
<1>4. CASE Commit(r)
  <2>1. CASE task' = [task EXCEPT ![r] = Idle]
    BY <1>1, <2>1, AwayFromLock DEF Idle
  <2>2. CASE \E t, id : task' = [o \in Tasks |-> IF o = r THEN [task[r] EXCEPT !.at = "invalidate"]
                                                 ELSE Told(o, t, id)]
    <3>1. PICK t, id : task' = [o \in Tasks |-> IF o = r THEN [task[r] EXCEPT !.at = "invalidate"]
                                                ELSE Told(o, t, id)]
      BY <2>2
    <3>2. task'[r].op = "write"
      BY <1>1, <3>1 DEF Sound, WriteSound
    <3>3. ASSUME NEW o \in Tasks \ {r}
          PROVE  task'[o].op = task[o].op /\ (task[o].op = "get" => task'[o].at = task[o].at)
      <4>1. task'[o] = Told(o, t, id)
        BY <3>1
      <4>2. GetSound(task[o]) /\ WriteSound(task[o])
        BY DEF Sound
      <4> QED
        BY <4>1, <4>2 DEF Told, GetSound, WriteSound, Idle
    <3>4. \A o \in Tasks : /\ At(o, "setup")' <=> At(o, "setup")
                           /\ At(o, "queued")' <=> At(o, "queued")
      BY <1>1, <3>2, <3>3 DEF At
    <3> QED
      BY <1>1, <3>4, LockKept
  <2> QED
    BY <1>4, <2>1, <2>2 DEF Commit
<1> QED
  BY <1>2, <1>3, <1>4

LEMMA StepLocks == Sound /\ LockSound /\ [Next]_vars => LockSound'
<1> SUFFICES ASSUME Sound, LockSound, [Next]_vars
             PROVE  LockSound'
  OBVIOUS
<1>1. CASE UNCHANGED vars
  BY <1>1, LockKept DEF vars, At
<1>2. ASSUME NEW r \in Tasks, NEW q, Begin(r, q), UNCHANGED <<lock, saver>>,
             q.op = "get" => q.at = "versions"
      PROVE  LockSound'
  <2>1. task' = [task EXCEPT ![r] = q] /\ ~Waits(r)
    BY <1>2 DEF Begin, Waits, At, Idle
  <2> QED
    BY <1>2, <2>1, AwayFromLock
<1>3. ASSUME NEW r \in Tasks, NEW t \in Templates, GetGraph(r, t) \/ CompileTemplate(r, t)
      PROVE  LockSound'
  BY <1>2, <1>3 DEF GetGraph, CompileTemplate, Get
<1>4. ASSUME NEW r \in Tasks, NEW t \in Templates, NEW topology \in Topologies,
             CreateTemplate(r, t, topology)
      PROVE  LockSound'
  BY <1>4, LockKept DEF CreateTemplate, At
<1>5. ASSUME NEW r \in Tasks, NEW t \in Templates, NEW topology \in Topologies,
             NEW active \in BOOLEAN, SaveVersion(r, t, topology, active)
      PROVE  LockSound'
  <2>1. PICK q : Begin(r, q) /\ q.op = "write" /\ UNCHANGED <<lock, saver>>
    BY <1>5 DEF SaveVersion
  <2> QED
    BY <1>2, <2>1
<1>6. ASSUME NEW r \in Tasks, NEW v \in DOMAIN versions, ActivateVersion(r, v)
      PROVE  LockSound'
  <2>1. PICK q : Begin(r, q) /\ q.op = "write" /\ UNCHANGED <<lock, saver>>
    BY <1>6 DEF ActivateVersion
  <2> QED
    BY <1>2, <2>1
<1>7. CASE Restart
  <2>1. lock' = <<>> /\ task' = [r \in Tasks |-> Idle]
    BY <1>7 DEF Restart
  <2> QED
    BY <2>1 DEF LockSound, SetupIsSingle, Waits, At, Idle, IsInjective, Range
<1> QED
  BY <1>1, <1>3, <1>4, <1>5, <1>6, <1>7, ServeLocks, WriteLocks DEF Next

-----------------------------------------------------------------------------
(* What follows.                                                           *)

\* Whatever activations and saves of versions overlap, in api/endpoints/graph.py, a
\* template that no observer names has one active version at most.
THEOREM ActiveIsUnique == Spec => []OneActive
  <1>1. Sound => OneActive
    BY FiniteVersions, OneActiveCounts DEF Sound, OneActive
  <1> QED BY <1>1, SpecSound, PTL

\* Whatever requests, activations and failures overlap, a graph that the registry
\* keeps is the one that a request compiling now would get, but for the two cases
\* that the observer names.
THEOREM CacheIsCurrent == Spec => []CachedIsCurrent
  <1>1. Sound => CachedIsCurrent
    BY DEF Sound, CacheSound, Settled, CachedIsCurrent
  <1> QED BY <1>1, SpecSound, PTL

\* Whatever is stored, saved and activated, a topology that is cached is one that
\* compiles (get_compiled_graph), and rows refer to templates and topologies.
THEOREM TypeCorrect == Spec => []TypeOK
<1>1. Init => CachedRuns
  BY DEF Init, CachedRuns
<1>2. Sound /\ CachedRuns => TypeOK
  <2> SUFFICES ASSUME Sound, CachedRuns
               PROVE  TypeOK
    OBVIOUS
  <2>1. \A v \in DOMAIN versions : versions[v] \in VersionRow
    BY FiniteVersions
  <2> QED
    BY <2>1 DEF TypeOK, CachedRuns, Sound, RowsSound, VersionRow
<1> QED
  BY <1>1, <1>2, StepRuns, SpecSound, PTL DEF Spec

\* However many requests come while the checkpointer is not there, and however often its
\* setup fails, it is set up by one at a time and never twice, and whoever waits for it
\* is in line (create_pg_checkpointer).
THEOREM SetupIsSingular == Spec => []SetupIsSingle
<1>1. Init => LockSound
  BY DEF Init, LockSound, SetupIsSingle, Waits, At, Idle, IsInjective, Range
<1>2. LockSound => SetupIsSingle
  BY DEF LockSound
<1> QED
  BY <1>1, <1>2, StepLocks, SpecSound, PTL DEF Spec
=============================================================================
