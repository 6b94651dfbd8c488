---------------------------- MODULE ToolRegistry ----------------------------
(***************************************************************************)
(* The tools of the process (core/plugins.py): those that come with it,    *)
(* and those users store (api/endpoints/dynamic_tools.py). After every     *)
(* change the registry forgets the stored tools, reads the table and       *)
(* registers what it has read; requests run in between.                    *)
(***************************************************************************)
EXTENDS Requests, Sequences

CONSTANTS
  BuiltIns,  \* names of the tools in app.tools
  Names,     \* names a stored tool can have
  MaxTools   \* bound on a behaviour

VARIABLES
  tools,     \* the rows of dynamic_tools, by id: name and status, "gone" if deleted
  actions,   \* _actions: per name, what is registered
  dynamic,   \* _dynamic_action_names
  behind     \* observer: "no", "empty" after a clearing, "mixed" if what is
             \* registered was read before a change

toolVars == <<tools, actions, dynamic, behind>>

Native == 0  \* the tool that comes with the process; a stored one is its id

AllNames == BuiltIns \union Names

Active == {i \in DOMAIN tools : tools[i].status = "on"}
Named(n) == {i \in DOMAIN tools : tools[i].name = n /\ tools[i].status # "gone"}

Plugins == [n \in AllNames |-> IF n \in BuiltIns THEN Native ELSE None]

\* What load_dynamic_tools makes of the registry a and of the rows it has read.
With(a, ids) ==
  [n \in AllNames |-> IF \E i \in ids : tools[i].name = n
                      THEN CHOOSE i \in ids : tools[i].name = n ELSE a[n]]

\* The process comes up and loads what is stored, unless the table cannot be read.
LoadAtStart ==
  \/ /\ actions' = With(Plugins, Active)
     /\ dynamic' = {tools[i].name : i \in Active}
     /\ behind' = "no"
  \/ actions' = Plugins /\ dynamic' = {} /\ behind' = "empty"

ToolInit ==
  /\ tools = <<>>
  /\ actions = Plugins /\ dynamic = {} /\ behind = "no"

-----------------------------------------------------------------------------
(* Requests: look the row up, commit, load.                                *)

BeginCreate(d, n) ==
  /\ Named(n) = {}
  /\ Begin(d, [op |-> "tool", at |-> "commit", do |-> "create", name |-> n, id |-> 0,
               status |-> "on"])
  /\ UNCHANGED toolVars

BeginToggle(d, i) ==
  /\ tools[i].status # "gone"
  /\ Begin(d, [op |-> "tool", at |-> "commit", do |-> "toggle", name |-> tools[i].name,
               id |-> i, status |-> IF tools[i].status = "on" THEN "off" ELSE "on"])
  /\ UNCHANGED toolVars

BeginDelete(d, i) ==
  /\ tools[i].status # "gone"
  /\ Begin(d, [op |-> "tool", at |-> "commit", do |-> "delete", name |-> tools[i].name,
               id |-> i, status |-> "gone"])
  /\ UNCHANGED toolVars

\* The rows as request q leaves them. A name is taken once, and a row that was
\* deleted meanwhile cannot be updated.
Stored(q) ==
  IF q.do = "create" THEN Append(tools, [name |-> q.name, status |-> q.status])
  ELSE [tools EXCEPT ![q.id].status = q.status]

Accepted(q) ==
  CASE q.do = "create" -> Named(q.name) = {} /\ Len(tools) < MaxTools
    [] q.do = "toggle" -> tools[q.id].status # "gone"
    [] q.do = "delete" -> TRUE

\* Rows that were read before are not fresh any more.
CommitTool(d) ==
  /\ Doing(d, "tool", "commit")
  /\ Accepted(task[d])
  /\ tools' = Stored(task[d])
  /\ behind' = IF behind = "no" THEN "mixed" ELSE behind
  /\ task' = [o \in Desks |->
                IF o = d THEN [op |-> "tool", at |-> "clear"]
                ELSE IF Doing(o, "tool", "register") THEN [task[o] EXCEPT !.fresh = FALSE]
                ELSE task[o]]
  /\ UNCHANGED <<requests, actions, dynamic>>

\* Mutant: only the tools that are switched on are forgotten.
ClearActive(d) ==
  /\ Doing(d, "tool", "clear")
  /\ LET forgotten == {n \in dynamic : \E i \in Active : tools[i].name = n}
     IN /\ actions' = [n \in AllNames |-> IF n \in forgotten THEN None ELSE actions[n]]
        /\ dynamic' = dynamic \ forgotten
  /\ behind' = "empty"
  /\ GoOn(d, [op |-> "tool", at |-> "read"])
  /\ UNCHANGED tools

\* clear_dynamic_actions, also where a stored tool has taken the name of another.
Clear(d) ==
  /\ Doing(d, "tool", "clear")
  /\ actions' = [n \in AllNames |-> IF n \in dynamic THEN None ELSE actions[n]]
  /\ dynamic' = {}
  /\ behind' = "empty"
  /\ GoOn(d, [op |-> "tool", at |-> "read"])
  /\ UNCHANGED tools

Read(d) ==
  /\ Doing(d, "tool", "read")
  /\ GoOn(d, [op |-> "tool", at |-> "register", ids |-> Active, fresh |-> TRUE])
  /\ UNCHANGED toolVars

Register(d) ==
  /\ Doing(d, "tool", "register")
  /\ LET q == task[d]
     IN /\ actions' = With(actions, q.ids)
        /\ dynamic' = dynamic \union {tools[i].name : i \in q.ids}
        /\ behind' = IF q.fresh /\ behind # "mixed" THEN "no" ELSE "mixed"
  /\ End(d)
  /\ UNCHANGED tools

\* A commit that is refused, an answer to it that is lost, a table that cannot be
\* read: the request ends, and the registry stays as it is, cleared perhaps.
FailTool(d) ==
  /\ task[d].op = "tool"
  /\ task[d].at # "register"
  /\ Refuse(d)
  /\ UNCHANGED toolVars

ToolNext ==
  \E d \in Desks :
    \/ \E n \in Names : BeginCreate(d, n)
    \/ \E i \in DOMAIN tools : BeginToggle(d, i) \/ BeginDelete(d, i)
    \/ CommitTool(d) \/ Clear(d) \/ Read(d) \/ Register(d) \/ FailTool(d)

-----------------------------------------------------------------------------
(* The registered tools are the stored ones that are switched on, and the  *)
(* tools of the process whose name none has taken, however loads and       *)
(* changes overlap. Excepted is the time until the next load, where what   *)
(* was registered last had been read before a change, or could not be read *)
(* at all. The name of a deleted tool that hid one of the process stays    *)
(* empty until the next start.                                             *)
RegistryFollowsRows ==
  behind = "no" =>
    \A n \in AllNames :
      LET active == {i \in Active : tools[i].name = n}
          taken == \E i \in DOMAIN tools : tools[i].name = n
      IN IF active # {} THEN actions[n] \in active
         ELSE actions[n] = Plugins[n] \/ (taken /\ actions[n] = None)
=============================================================================
