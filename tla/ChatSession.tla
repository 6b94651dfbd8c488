---------------------------- MODULE ChatSession ----------------------------
(***************************************************************************)
(* One chat session and the requests on it: what each request tells the    *)
(* model of the conversation, what it stores, and how its events reach the *)
(* client (services/agent_service.py, agents/nodes/context.py,             *)
(* agents/stream_callback.py), while the user deletes, truncates, edits    *)
(* and clears messages (api/endpoints/messages.py, sessions.py).           *)
(*                                                                         *)
(* A request is two processes that share a queue: the graph's task, whose  *)
(* step is chat[r].step, and the SSE response, reader[r].                  *)
(***************************************************************************)
EXTENDS Naturals, FiniteSets, SequencesExt

CONSTANTS
  Requests,      \* the requests that may arrive
  Earlier,       \* the request that an existing conversation began with
  Agents,        \* the agents that a request may address
  None,          \* no session, no snapshot, no agent
  Starts,        \* how the session may start: absent, new, talked
  Window,        \* how many messages fit the history's token budget
  UserDoes,      \* which changes the user makes to the session
  MaxChanges,    \* bound on their number
  Streams,       \* what the turns of a request may stream: the answer, and the
                 \* fault of a call of the model; or neither, when it says nothing
  DatabaseFails  \* whether statements whose errors the code swallows may fail

ASSUME ChatAssumption ==
  /\ Earlier \notin Requests
  /\ None \notin Agents \union Requests \union {Earlier}
  /\ Starts \subseteq {"absent", "new", "talked"}
  /\ Window \in Nat
  /\ UserDoes \subseteq {"delete", "truncate", "edit", "clear", "drop", "switch"}
  /\ MaxChanges \in Nat
  /\ Streams # {}
  /\ Streams \subseteq Seq({"content", "fault"})
  /\ DatabaseFails \in BOOLEAN

VARIABLES
  row,       \* the row of chat_sessions: its active agent and thread_state
  messages,  \* the rows of chat_messages, in the order of created_at
  chat,      \* per request, the graph's task
  queue,     \* per request, the StreamCallback's queue
  reader,    \* per request, the SSE response
  got,       \* per request, what the client received
  change,    \* the deletion between its reads and its commit, or None, and
             \* (observer) what is asked meanwhile
  changes,   \* how many changes the user made
  seen       \* observer: which texts were deleted and cleared

vars == <<row, messages, chat, queue, reader, got, change, changes, seen>>

-----------------------------------------------------------------------------
(* Data.                                                                   *)

Question(r) == [kind |-> "question", of |-> r]
Answer(r)   == [kind |-> "answer",   of |-> r]
Blank       == [kind |-> "blank",    of |-> None]  \* a bubble not yet answered
Revised     == [kind |-> "revised",  of |-> None]  \* what the user edits to

Asking == Requests \union {Earlier}

Texts ==
  [kind : {"question", "answer"}, of : Asking] \union {Blank, Revised}

\* A message is identified by the request that stored it and its role.
Message(r, role, text) == [by |-> r, role |-> role, text |-> text]
Id(m) == <<m.by, m.role>>
Stored == {Id(m) : m \in Range(messages)}
TextsOf(ms) == {m.text : m \in Range(ms)}

Running(r) == chat[r].step \notin {"idle", "stopped"}

\* What is being asked.
Asked == {chat[r].text : r \in {q \in Requests : Running(q)}}

\* The rows of chat_sessions.
Sessions == [active : Agents \union {None},
             thread : [agent : Agents, text : Texts] \union {None}]

ASSUME NoneIsNoRow == None \notin Sessions

TypeOK ==
  /\ row \in Sessions \union {None}
  /\ \A m \in Range(messages) :
       m \in [by : Asking, role : {"user", "assistant"}, text : Texts]
  /\ Cardinality(Stored) = Len(messages)
  /\ row = None => messages = <<>>
  /\ \A r \in Requests :
       /\ chat[r].step \in {"idle", "look", "checkpoint", "history", "user",
                            "bubble", "speak", "persist", "finish", "stopped"}
       /\ chat[r].ended \in {"no", "done", "failed", "cancelled"}
       /\ Range(chat[r].context) \subseteq Texts
       /\ Range(got[r]) \subseteq {"content", "fault", "error", "[DONE]"}
  /\ reader \in [Requests -> {"idle", "reading", "left", "over"}]
  /\ changes \in 0..MaxChanges

Idle ==
  [step |-> "idle", ended |-> "no", agent |-> None, skip |-> FALSE,
   text |-> Blank, context |-> <<>>]

\* A session that does not exist, that is new, or that holds a finished turn,
\* with its snapshot or, after a deletion, without.
Init ==
  /\ \/ "absent" \in Starts /\ row = None /\ messages = <<>>
     \/ "new" \in Starts /\ row = [active |-> None, thread |-> None] /\ messages = <<>>
     \/ \E a \in Agents,
          thread \in [agent : Agents, text : {Question(Earlier)}] \union {None} :
          /\ "talked" \in Starts
          /\ row = [active |-> a, thread |-> thread]
          /\ messages = <<Message(Earlier, "user", Question(Earlier)),
                          Message(Earlier, "assistant", Answer(Earlier))>>
  /\ chat = [r \in Requests |-> Idle]
  /\ queue = [r \in Requests |-> <<>>]
  /\ reader = [r \in Requests |-> "idle"]
  /\ got = [r \in Requests |-> <<>>]
  /\ change = None
  /\ changes = 0
  /\ seen = [deleted |-> {}, cleared |-> {}]

-----------------------------------------------------------------------------
(* The stream bridge. The queue is unbounded, so emitting never waits. The *)
(* events are the answer's content, the fault a turn reports when its call *)
(* of the model fails, and the error of a graph that raised; ids, tool     *)
(* calls and progress are left out.                                        *)

Emitted(r, events) == [queue EXCEPT ![r] = @ \o events]

\* The graph's task ends and its finally closes the stream with the sentinel.
Stop(r, how) ==
  chat' = [chat EXCEPT ![r] = [Idle EXCEPT !.step = "stopped", !.ended = how]]

\* Mutated: the sentinel is forgotten.
CloseNever(events) == events

Close(events) == Append(events, "sentinel")

\* The client gets the next event; the sentinel ends the response with the
\* final chunk and [DONE]. A wait of 30 s sends a blank, which changes nothing.
Forward(r) ==
  /\ reader[r] = "reading"
  /\ queue[r] # <<>>
  /\ queue' = [queue EXCEPT ![r] = Tail(@)]
  /\ IF Head(queue[r]) = "sentinel"
     THEN /\ reader' = [reader EXCEPT ![r] = "over"]
          /\ got' = [got EXCEPT ![r] = Append(@, "[DONE]")]
     ELSE /\ got' = [got EXCEPT ![r] = Append(@, Head(queue[r]))]
          /\ UNCHANGED reader
  /\ UNCHANGED <<row, messages, chat, change, changes, seen>>

\* The client goes away, with what it got. The generator learns it later.
Leave(r) ==
  /\ reader[r] = "reading"
  /\ reader' = [reader EXCEPT ![r] = "left"]
  /\ got' = [got EXCEPT ![r] = <<>>]
  /\ UNCHANGED <<row, messages, chat, queue, change, changes, seen>>

\* Mutated: the task is left alone.
CancelNothing(r) == UNCHANGED chat

\* The generator's finally cancels the graph's task and waits for it; then
\* nobody holds the queue any more.
CancelGraph(r) == IF Running(r) THEN Stop(r, "cancelled") ELSE UNCHANGED chat

CleanUp(r) ==
  /\ reader[r] = "left"
  /\ CancelGraph(r)
  /\ reader' = [reader EXCEPT ![r] = "over"]
  /\ queue' = [queue EXCEPT ![r] = <<>>]
  /\ UNCHANGED <<row, messages, got, change, changes, seen>>

-----------------------------------------------------------------------------
(* A request: chat_stream up to the graph's task, then the graph.          *)

\* A request with an application addresses that application's agent; any other
\* is answered by the session's active agent. A repeated question ("regenerate",
\* or the send after an edit) is not stored again. A missing session is created.
Begin(r, asked, bound, skip) ==
  /\ chat[r].step = "idle"
  /\ \E text \in IF skip
                 THEN {m.text : m \in {n \in Range(messages) : n.role = "user"}}
                 ELSE {Question(r)} :
       LET agent == IF bound \/ row = None THEN asked
                    ELSE IF row.active = None THEN asked ELSE row.active
       IN /\ row' = IF row = None THEN [active |-> agent, thread |-> None] ELSE row
          /\ chat' = [chat EXCEPT ![r] =
               [Idle EXCEPT !.step = "look", !.agent = agent, !.skip = skip,
                 !.text = text]]
          /\ change' = IF change = None THEN None
                       ELSE [change EXCEPT !.asked = @ \union {text}]
  /\ reader' = [reader EXCEPT ![r] = "reading"]
  /\ UNCHANGED <<messages, queue, got, changes, seen>>

\* The step after the context is built.
Saving(r) == IF chat[r].skip THEN "bubble" ELSE "user"

CanResume(r) ==
  /\ row # None
  /\ row.thread # None
  /\ row.thread.agent = chat[r].agent

\* The context node takes the session over for its agent and resumes from the
\* snapshot if that agent took it.
LookUp(r) ==
  /\ chat[r].step = "look"
  /\ row' = IF row = None THEN None ELSE [row EXCEPT !.active = chat[r].agent]
  /\ IF CanResume(r)
     THEN chat' = [chat EXCEPT ![r].step = Saving(r),
                               ![r].context = <<row.thread.text, chat[r].text>>]
     ELSE chat' = [chat EXCEPT ![r].step = "checkpoint"]
  /\ UNCHANGED <<messages, queue, reader, got, change, changes, seen>>

\* Otherwise the request's own messages become the snapshot.
SaveCheckpoint(r) ==
  /\ chat[r].step = "checkpoint"
  /\ \/ row # None /\ row' = [row EXCEPT !.thread =
                                [agent |-> chat[r].agent, text |-> chat[r].text]]
     \/ (row = None \/ DatabaseFails) /\ UNCHANGED row
  /\ chat' = [chat EXCEPT ![r].step = "history"]
  /\ UNCHANGED <<messages, queue, reader, got, change, changes, seen>>

\* and the context is the newest stored messages that fit, and the question.
BuildContext(r) ==
  /\ chat[r].step = "history"
  /\ \E n \in {IF Len(messages) < Window THEN Len(messages) ELSE Window}
              \union (IF DatabaseFails THEN {0} ELSE {}) :
       LET newest == SubSeq(messages, Len(messages) - n + 1, Len(messages))
       IN chat' = [chat EXCEPT ![r].step = Saving(r),
            ![r].context = Append([i \in 1..n |-> newest[i].text], chat[r].text)]
  /\ UNCHANGED <<row, messages, queue, reader, got, change, changes, seen>>

\* The foreign key refuses a message without its session.
Insert(r, role, text) ==
  /\ row # None
  /\ messages' = Append(messages, Message(r, role, text))

SaveUser(r) ==
  /\ chat[r].step = "user"
  /\ Insert(r, "user", chat[r].text)
  /\ chat' = [chat EXCEPT ![r].step = "bubble"]
  /\ UNCHANGED <<row, queue, reader, got, change, changes, seen>>

SaveBubble(r) ==
  /\ chat[r].step = "bubble"
  /\ Insert(r, "assistant", Blank)
  /\ chat' = [chat EXCEPT ![r].step = "speak"]
  /\ UNCHANGED <<row, queue, reader, got, change, changes, seen>>

\* The agent's turns stream what the model says. A turn's fault is no part of the
\* answer: without any text of it, the bubble stays blank.
Speak(r) ==
  /\ chat[r].step = "speak"
  /\ \E events \in Streams :
       /\ queue' = Emitted(r, events)
       /\ chat' = [chat EXCEPT ![r].step =
                      IF "content" \in Range(events) THEN "persist" ELSE "finish"]
  /\ UNCHANGED <<row, messages, reader, got, change, changes, seen>>

\* An answer is written into the bubble, if that is still there.
Persist(r) ==
  /\ chat[r].step = "persist"
  /\ \/ messages' = [i \in DOMAIN messages |->
                       IF Id(messages[i]) = <<r, "assistant">>
                       THEN [messages[i] EXCEPT !.text = Answer(r)]
                       ELSE messages[i]]
     \/ DatabaseFails /\ UNCHANGED messages
  /\ chat' = [chat EXCEPT ![r].step = "finish"]
  /\ UNCHANGED <<row, queue, reader, got, change, changes, seen>>

Finish(r) ==
  /\ chat[r].step = "finish"
  /\ Stop(r, "done")
  /\ queue' = [queue EXCEPT ![r] = Close(@)]
  /\ UNCHANGED <<row, messages, reader, got, change, changes, seen>>

\* Mutated: closed first, after which nothing is emitted.
ToldTooLate(events) == Close(events)

\* The graph raises: the client is told, then the stream is closed.
ToldOfFailure(events) == Close(Append(events, "error"))

Fail(r) ==
  /\ Running(r)
  /\ Stop(r, "failed")
  /\ queue' = [queue EXCEPT ![r] = ToldOfFailure(@)]
  /\ UNCHANGED <<row, messages, reader, got, change, changes, seen>>

Graph(r) ==
  \/ LookUp(r) \/ SaveCheckpoint(r) \/ BuildContext(r)
  \/ SaveUser(r) \/ SaveBubble(r) \/ Speak(r) \/ Persist(r) \/ Finish(r)

-----------------------------------------------------------------------------
(* The user's changes.                                                     *)

May(kind) == kind \in UserDoes /\ changes < MaxChanges

\* The messages that are left, in their order: the n-th has n - 1 others before it.
Without(ids) ==
  LET left == {i \in DOMAIN messages : Id(messages[i]) \notin ids}
  IN [n \in 1..Cardinality(left) |->
        messages[CHOOSE i \in left : Cardinality({j \in left : j < i}) = n - 1]]

\* delete_message reads the messages to delete, and the session, whose snapshot
\* it will only write if it was there: SQLAlchemy writes what differs.
StartDelete(ids) ==
  /\ change = None
  /\ change' = [ids |-> ids, resets |-> row # None /\ row.thread # None,
                asked |-> Asked]
  /\ changes' = changes + 1
  /\ UNCHANGED <<row, messages, chat, queue, reader, got, seen>>

DeleteMessage ==
  /\ May("delete")
  /\ \E m \in Range(messages) : StartDelete({Id(m)})

\* With truncate: all messages after one, which itself stays.
Truncate ==
  /\ May("truncate")
  /\ \E i \in DOMAIN messages :
       StartDelete({Id(messages[j]) : j \in (i + 1)..Len(messages)})

\* Mutated: the snapshot stays.
ThreadKept(session, resets) == session

\* The snapshot goes with the messages.
ThreadReset(session, resets) ==
  IF session # None /\ resets THEN [session EXCEPT !.thread = None] ELSE session

CommitDelete ==
  /\ change # None
  /\ messages' = Without(change.ids)
  /\ row' = ThreadReset(row, change.resets)
  /\ seen' = [seen EXCEPT !.deleted = @ \union
                (TextsOf(messages) \ (TextsOf(messages') \union change.asked
                                        \union {Blank}))]
  /\ change' = None
  /\ UNCHANGED <<chat, queue, reader, got, changes>>

\* update_message, with a text that nobody used before.
UpdateMessage ==
  /\ May("edit")
  /\ Revised \notin TextsOf(messages) \union seen.deleted \union seen.cleared
  /\ \E i \in DOMAIN messages :
       messages' = [messages EXCEPT ![i].text = Revised]
  /\ changes' = changes + 1
  /\ UNCHANGED <<row, chat, queue, reader, got, change, seen>>

\* clear_session_context deletes the messages and the summary.
Clear ==
  /\ May("clear")
  /\ row # None
  /\ messages' = <<>>
  /\ seen' = [seen EXCEPT !.cleared = @ \union (TextsOf(messages) \ (Asked \union {Blank}))]
  /\ changes' = changes + 1
  /\ UNCHANGED <<row, chat, queue, reader, got, change>>

\* delete_session; the messages go by cascade.
DeleteSession ==
  /\ May("drop")
  /\ row # None
  /\ row' = None
  /\ messages' = <<>>
  /\ seen' = [seen EXCEPT !.deleted = @ \union (TextsOf(messages) \ (Asked \union {Blank}))]
  /\ changes' = changes + 1
  /\ UNCHANGED <<chat, queue, reader, got, change>>

\* update_session with another active agent.
SwitchAgent(a) ==
  /\ May("switch")
  /\ row # None
  /\ row' = [row EXCEPT !.active = a]
  /\ changes' = changes + 1
  /\ UNCHANGED <<messages, chat, queue, reader, got, change, seen>>

User ==
  \/ DeleteMessage \/ Truncate \/ CommitDelete \/ UpdateMessage
  \/ Clear \/ DeleteSession \/ \E a \in Agents : SwitchAgent(a)

Next ==
  \/ User
  \/ \E r \in Requests :
       \/ \E asked \in Agents, bound, skip \in BOOLEAN : Begin(r, asked, bound, skip)
       \/ Graph(r)
       \/ Fail(r)
       \/ Forward(r)
       \/ Leave(r)
       \/ CleanUp(r)

\* The event loop runs the graph's task, the response and its clean-up on.
Spec ==
  /\ Init /\ [][Next]_vars
  /\ \A r \in Requests :
       /\ WF_vars(Graph(r) \/ Fail(r))
       /\ WF_vars(Forward(r))
       /\ WF_vars(CleanUp(r))

-----------------------------------------------------------------------------
(* Properties.                                                             *)

\* The contexts that a step builds.
Built == {chat'[r].context : r \in {q \in Requests : chat[q].context = <<>>}}

\* What was deleted (message, truncated tail or session) while nobody was asking
\* it does not reach the model afterwards: the reason delete_message resets
\* thread_state (messages.py 194-205).
DeletedStaysGone ==
  [][\A context \in Built : Range(context) \intersect seen.deleted = {}]_vars

\* The bubble of r holds its answer.
AnswerStored(r) == Message(r, "assistant", Answer(r)) \in Range(messages)

\* A client that got [DONE] knows how the graph ended, and has the answer: it got the
\* error just when the graph raised, and the answer that its bubble holds was streamed
\* to it before. Nothing more is promised: a graph may finish without any text, or
\* with a turn's fault alone, and its bubble stays blank (agent_service.py 249-291;
\* agent.py 592-610, 645-657).
EndIsTold ==
  \A r \in Requests : "[DONE]" \in Range(got[r]) =>
    /\ chat[r].ended \in {"done", "failed"}
    /\ chat[r].ended = "failed" <=> "error" \in Range(got[r])
    /\ AnswerStored(r) => "content" \in Range(got[r])

\* A response that is over has no graph running behind it, which could go on
\* writing into the session (agent_service.py 275-281).
NoGraphLeftBehind ==
  \A r \in Requests : reader[r] = "over" => ~Running(r)

\* Every response ends, and the graph with it.
ResponseEnds ==
  \A r \in Requests : (reader[r] # "idle") ~> (reader[r] = "over" /\ ~Running(r))

\* What a user cleared while nobody was asking it does not reach the model
\* afterwards: clear_session_context clears the session's context (sessions.py 293).
ClearedStaysGone ==
  [][\A context \in Built : Range(context) \intersect seen.cleared = {}]_vars

\* The context that the context node builds has the history (context.py 22): what
\* the session holds then.
HistoryIsTold ==
  [][\A context \in Built \ {<<>>} :
       TextsOf(messages) \ {Blank} \subseteq Range(context)]_vars
=============================================================================
