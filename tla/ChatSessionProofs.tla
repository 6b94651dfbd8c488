-------------------------- MODULE ChatSessionProofs -------------------------
(***************************************************************************)
(* Proofs about ChatSession: for every number of concurrent requests and   *)
(* of changes by the user, for every window, and whether or not the        *)
(* database fails, a client that got [DONE] knows how its request ended,   *)
(* no graph outlives its response, and what was deleted while nobody asked *)
(* it does not reach the model.                                            *)
(***************************************************************************)
EXTENDS ChatSession, Integers, SequenceTheorems, FiniteSetTheorems, WellFoundedInduction,
        NaturalsInduction, TLAPS

Events == {"content", "fault", "error", "sentinel"}
Told   == {"content", "fault", "error", "[DONE]"}

\* What the client of r got or will get from the queue.
Sent(r, event) == event \in Range(got[r]) \union Range(queue[r])

\* The graph of r raised.
Raised(r) == chat[r].step = "stopped" /\ chat[r].ended = "failed"

\* The response of r begins with its graph's task.
Begun(r) ==
  /\ reader[r] \in {"idle", "reading", "left", "over"}
  /\ reader[r] = "idle" <=> chat[r].step = "idle"
  /\ reader[r] = "idle" => queue[r] = <<>> /\ got[r] = <<>>

\* The sentinel is the last event, and comes only when the task has ended.
SentinelIsLast(r) ==
  \A i \in 1..Len(queue[r]) :
    queue[r][i] = "sentinel" => i = Len(queue[r]) /\ chat[r].step = "stopped"

\* While the client reads, what it must be told is sent; nobody cancels the task.
SentWhileReading(r) ==
  reader[r] = "reading" =>
    /\ "[DONE]" \notin Range(got[r])
    /\ chat[r].step = "stopped" => chat[r].ended \in {"done", "failed"}
    /\ Raised(r) <=> Sent(r, "error")

\* Once the response is over, so is the task, and the client was told its end.
ToldWhenOver(r) ==
  reader[r] = "over" =>
    /\ chat[r].step = "stopped"
    /\ "[DONE]" \in Range(got[r]) =>
         /\ chat[r].ended \in {"done", "failed"}
         /\ chat[r].ended = "failed" <=> "error" \in Range(got[r])

\* One request's bridge.
Bridge(r) ==
  /\ queue[r] \in Seq(Events)
  /\ got[r] \in Seq(Told)
  /\ Begun(r)
  /\ SentinelIsLast(r)
  /\ reader[r] = "left" => got[r] = <<>>
  /\ SentWhileReading(r)
  /\ ToldWhenOver(r)

Shape ==
  /\ DOMAIN queue = Requests /\ DOMAIN reader = Requests /\ DOMAIN got = Requests
  /\ DOMAIN chat = Requests
  /\ \A r \in Requests : {"step", "ended"} \subseteq DOMAIN chat[r]

\* What every step preserves.
Bridged == Shape /\ \A r \in Requests : Bridge(r)
-----------------------------------------------------------------------------
(* Sequences.                                                              *)

LEMMA RangeAppend ==
  ASSUME NEW S, NEW s \in Seq(S), NEW e \in S
  PROVE  Range(Append(s, e)) = Range(s) \union {e}
  <1>1. /\ Len(Append(s, e)) = Len(s) + 1 /\ Append(s, e)[Len(s) + 1] = e
        /\ \A i \in 1..Len(s) : Append(s, e)[i] = s[i]
        /\ Append(s, e) \in Seq(S)
    BY AppendProperties
  <1>2. /\ DOMAIN s = 1..Len(s) /\ DOMAIN Append(s, e) = 1..(Len(s) + 1)
        /\ Len(s) \in Nat
    BY <1>1
  <1>3. 1..(Len(s) + 1) = 1..Len(s) \union {Len(s) + 1}
    BY <1>2
  <1> QED BY <1>1, <1>2, <1>3 DEF Range

LEMMA RangeConcat ==
  ASSUME NEW S, NEW s \in Seq(S), NEW t \in Seq(S)
  PROVE  Range(s \o t) = Range(s) \union Range(t)
  <1>1. /\ s \o t \in Seq(S) /\ Len(s \o t) = Len(s) + Len(t)
        /\ \A i \in 1..Len(s) + Len(t) :
             (s \o t)[i] = IF i <= Len(s) THEN s[i] ELSE t[i - Len(s)]
    BY ConcatProperties
  <1>2. /\ DOMAIN s = 1..Len(s) /\ DOMAIN t = 1..Len(t)
        /\ DOMAIN (s \o t) = 1..Len(s) + Len(t)
        /\ Len(s) \in Nat /\ Len(t) \in Nat
    BY <1>1
  <1>3. ASSUME NEW x \in Range(s \o t)
        PROVE  x \in Range(s) \union Range(t)
    <2>1. PICK i \in 1..Len(s) + Len(t) : x = (s \o t)[i]
      BY <1>2 DEF Range
    <2>2. CASE i <= Len(s)
      <3>1. i \in 1..Len(s) /\ x = s[i]
        BY <1>1, <1>2, <2>1, <2>2
      <3> QED BY <1>2, <3>1 DEF Range
    <2>3. CASE ~(i <= Len(s))
      <3>1. i - Len(s) \in 1..Len(t) /\ x = t[i - Len(s)]
        BY <1>1, <1>2, <2>1, <2>3
      <3> QED BY <1>2, <3>1 DEF Range
    <2> QED BY <2>2, <2>3
  <1>4. ASSUME NEW x \in Range(s)
        PROVE  x \in Range(s \o t)
    <2>1. PICK i \in 1..Len(s) : x = s[i]
      BY <1>2 DEF Range
    <2>2. i \in 1..Len(s) + Len(t) /\ x = (s \o t)[i]
      BY <1>1, <1>2, <2>1
    <2> QED BY <1>2, <2>2 DEF Range
  <1>5. ASSUME NEW x \in Range(t)
        PROVE  x \in Range(s \o t)
    <2>1. PICK i \in 1..Len(t) : x = t[i]
      BY <1>2 DEF Range
    <2>2. /\ Len(s) + i \in 1..Len(s) + Len(t) /\ ~(Len(s) + i <= Len(s))
          /\ (Len(s) + i) - Len(s) = i
      BY <1>2
    <2>3. x = (s \o t)[Len(s) + i]
      BY <1>1, <2>1, <2>2
    <2> QED BY <1>2, <2>2, <2>3 DEF Range
  <1> QED BY <1>3, <1>4, <1>5

\* A turn streams text.
LEMMA StreamedText ==
  ASSUME NEW events \in Streams
  PROVE  events \in Seq({"content", "fault"})
  BY ChatAssumption

LEMMA PairIsSequence ==
  ASSUME NEW S, NEW a \in S, NEW b \in S
  PROVE  <<a, b>> \in Seq(S)
  OBVIOUS

LEMMA RangeHeadTail ==
  ASSUME NEW S, NEW s \in Seq(S), s # <<>>
  PROVE  Range(s) = {Head(s)} \union Range(Tail(s))
  <1>1. /\ Tail(s) \in Seq(S) /\ Len(Tail(s)) = Len(s) - 1
        /\ \A i \in 1..Len(Tail(s)) : Tail(s)[i] = s[i + 1]
    BY HeadTailProperties
  <1>2. /\ DOMAIN s = 1..Len(s) /\ DOMAIN Tail(s) = 1..(Len(s) - 1)
        /\ Len(s) \in Nat \ {0} /\ Head(s) = s[1]
    BY <1>1
  <1>3. ASSUME NEW x \in Range(s)
        PROVE  x \in {Head(s)} \union Range(Tail(s))
    <2>1. PICK i \in 1..Len(s) : x = s[i]
      BY <1>2 DEF Range
    <2>2. CASE i = 1
      BY <1>2, <2>1, <2>2
    <2>3. CASE i # 1
      <3>1. i - 1 \in 1..(Len(s) - 1) /\ (i - 1) + 1 = i
        BY <1>2, <2>3
      <3>2. x = Tail(s)[i - 1]
        BY <1>1, <2>1, <3>1
      <3> QED BY <1>2, <3>1, <3>2 DEF Range
    <2> QED BY <2>2, <2>3
  <1>4. ASSUME NEW x \in Range(Tail(s))
        PROVE  x \in Range(s)
    <2>1. PICK i \in 1..(Len(s) - 1) : x = Tail(s)[i]
      BY <1>2 DEF Range
    <2>2. i + 1 \in 1..Len(s) /\ x = s[i + 1]
      BY <1>1, <1>2, <2>1
    <2> QED BY <1>2, <2>2 DEF Range
  <1>5. Head(s) \in Range(s)
    BY <1>2 DEF Range
  <1> QED BY <1>3, <1>4, <1>5

-----------------------------------------------------------------------------
(* What is left of the messages.                                           *)

LEMMA LeastNumber ==
  ASSUME NEW S \in SUBSET Nat, S # {}
  PROVE  \E n \in S : \A m \in S : n <= m
  <1> DEFINE R == OpToRel(<, Nat)
  <1>1. IsWellFoundedOn(R, Nat)
    BY NatLessThanWellFounded
  <1>2. \A m, n \in Nat : m < n => <<m, n>> \in R
    BY DEF OpToRel
  <1> HIDE DEF R
  <1>3. PICK n \in S : \A m \in S : ~(<<m, n>> \in R)
    BY <1>1, WFMin
  <1>4. ASSUME NEW m \in S
        PROVE  n <= m
    <2>1. m \in Nat /\ n \in Nat
      OBVIOUS
    <2>2. ~(m < n)
      BY <1>2, <1>3, <2>1, Zenon
    <2> QED BY <2>1, <2>2
  <1> QED BY <1>4

\* Each of the numbers that are left has a place: the n-th is the least up to which
\* n are left.
LEMMA EachHasItsPlace ==
  ASSUME NEW N \in Nat, NEW left \in SUBSET (1..N), NEW n \in 1..Cardinality(left)
  PROVE  \E i \in left : Cardinality({j \in left : j < i}) = n - 1
  <1> DEFINE upto(k) == {j \in left : j <= k}
             S == {k \in Nat : Cardinality(upto(k)) >= n}
  <1>1. \A j \in left : j \in Nat /\ j >= 1 /\ j <= N
    OBVIOUS
  <1>2. IsFiniteSet(left) /\ Cardinality(left) \in Nat
    <2>1. IsFiniteSet(1..N)
      BY FS_Interval
    <2> QED BY <2>1, FS_Subset, FS_CardinalityType
  <1>3. \A k \in Nat : IsFiniteSet(upto(k)) /\ Cardinality(upto(k)) \in Nat
    BY <1>2, FS_Subset, FS_CardinalityType
  <1>4. PICK k \in S : \A m \in S : k <= m
    <2>1. upto(N) = left
      BY <1>1
    <2>2. N \in S
      BY <1>2, <2>1
    <2>3. S \in SUBSET Nat
      OBVIOUS
    <2> HIDE DEF S
    <2> QED BY <2>2, <2>3, LeastNumber
  <1>5. k # 0
    <2>1. \A j \in left : ~(j <= 0)
      BY <1>1
    <2>2. upto(0) = {}
      BY <2>1
    <2>3. Cardinality(upto(0)) = 0
      BY <2>2, FS_EmptySet
    <2> QED BY <1>2, <2>3
  <1>6. /\ k \in Nat /\ k - 1 \in Nat
        /\ Cardinality(upto(k)) >= n /\ ~(Cardinality(upto(k - 1)) >= n)
    <2> HIDE DEF upto
    <2>1. k \in Nat /\ Cardinality(upto(k)) >= n
      OBVIOUS
    <2>2. k - 1 \in Nat
      BY <1>5, <2>1
    <2>3. k - 1 \notin S
      BY <1>4, <2>1, <2>2
    <2> QED BY <2>1, <2>2, <2>3
  <1>7. /\ \A j \in left : j <= k <=> j <= k - 1 \/ j = k
        /\ \A j \in left : j < k <=> j <= k - 1
        /\ ~(k <= k - 1)
    BY <1>1, <1>6
  <1>8. k \in left
    <2> SUFFICES ASSUME k \notin left PROVE FALSE
      OBVIOUS
    <2>1. upto(k) = upto(k - 1)
      BY <1>7
    <2> QED BY <1>6, <2>1
  <1>9. /\ upto(k) = upto(k - 1) \union {k} /\ k \notin upto(k - 1)
        /\ {j \in left : j < k} = upto(k - 1)
    BY <1>7, <1>8
  <1>10. Cardinality(upto(k - 1)) = n - 1
    <2> HIDE DEF upto
    <2>1. Cardinality(upto(k)) = Cardinality(upto(k - 1)) + 1
      BY <1>3, <1>6, <1>9, FS_AddElement
    <2> QED BY <1>2, <1>3, <1>6, <2>1
  <1> QED BY <1>8, <1>9, <1>10

\* What is left was there, each message once.
LEMMA LeftWereThere ==
  ASSUME NEW S, messages \in Seq(S), NEW ids
  PROVE  /\ Without(ids) \in Seq(S)
         /\ \A n \in 1..Len(Without(ids)) : \E i \in 1..Len(messages) :
              Without(ids)[n] = messages[i]
         /\ \E f \in [1..Len(Without(ids)) -> 1..Len(messages)] :
              /\ \A m, n \in 1..Len(Without(ids)) : f[m] = f[n] => m = n
              /\ \A n \in 1..Len(Without(ids)) : Without(ids)[n] = messages[f[n]]
  <1> DEFINE left == {i \in DOMAIN messages : Id(messages[i]) \notin ids}
             place(n) == CHOOSE i \in left : Cardinality({j \in left : j < i}) = n - 1
             count == Cardinality(left)
             rest == [n \in 1..count |-> messages[place(n)]]
  <1>1. DOMAIN messages = 1..Len(messages) /\ Len(messages) \in Nat
    OBVIOUS
  <1>2. left \in SUBSET (1..Len(messages))
    BY <1>1
  <1>3. count \in Nat
    <2>1. IsFiniteSet(1..Len(messages))
      BY <1>1, FS_Interval
    <2> HIDE DEF left
    <2> QED BY <1>2, <2>1, FS_Subset, FS_CardinalityType
  <1>4. Without(ids) = rest
    BY DEF Without
  <1>5. ASSUME NEW n \in 1..count
        PROVE  place(n) \in left /\ Cardinality({j \in left : j < place(n)}) = n - 1
    <2>1. \E i \in left : Cardinality({j \in left : j < i}) = n - 1
      <3> HIDE DEF left
      <3> QED BY <1>1, <1>2, EachHasItsPlace
    <2> QED BY <2>1
  <1> HIDE DEF place, left, count
  <1>6. ASSUME NEW n \in 1..count
        PROVE  place(n) \in 1..Len(messages) /\ messages[place(n)] \in S
    <2>1. place(n) \in 1..Len(messages)
      BY <1>2, <1>5
    <2> HIDE DEF place
    <2> QED BY <2>1
  <1>7. rest \in Seq(S) /\ Len(rest) = count
    <2>1. rest \in [1..count -> S]
      BY <1>6
    <2> HIDE DEF rest
    <2> QED BY <1>3, <2>1
  <1>8. \A m, n \in 1..count : place(m) = place(n) => m = n
    <2> SUFFICES ASSUME NEW m \in 1..count, NEW n \in 1..count, place(m) = place(n)
                 PROVE  m = n
      OBVIOUS
    <2>1. m - 1 = n - 1
      BY <1>5
    <2> QED BY <1>3, <2>1
  <1> DEFINE f == [n \in 1..count |-> place(n)]
  <1>9. /\ f \in [1..count -> 1..Len(messages)]
        /\ \A m, n \in 1..count : f[m] = f[n] => m = n
        /\ \A n \in 1..count : rest[n] = messages[f[n]]
    BY <1>6, <1>8
  <1> HIDE DEF f, rest
  <1>10. \A n \in 1..count : \E i \in 1..Len(messages) : rest[n] = messages[i]
    BY <1>9
  <1> QED BY <1>4, <1>7, <1>9, <1>10

-----------------------------------------------------------------------------
(* Which steps touch what.                                                 *)

\* What a step leaves alone of one request's bridge.
LEMMA Untouched ==
  ASSUME NEW r \in Requests, Bridge(r),
         chat'[r].step = chat[r].step, chat'[r].ended = chat[r].ended,
         queue'[r] = queue[r], reader'[r] = reader[r], got'[r] = got[r]
  PROVE  Bridge(r)'
  BY DEF Bridge, Begun, SentinelIsLast, SentWhileReading, ToldWhenOver, Raised, Sent

LEMMA UserStep ==
  ASSUME User
  PROVE  UNCHANGED <<chat, queue, reader, got>>
  BY DEF User, DeleteMessage, Truncate, StartDelete, CommitDelete, UpdateMessage, Clear,
         DeleteSession, SwitchAgent

\* What request r does to the bridges.
Acts(r) ==
  \/ \E asked \in Agents, bound, skip \in BOOLEAN : Begin(r, asked, bound, skip)
  \/ Graph(r)
  \/ Fail(r)
  \/ Forward(r)
  \/ Leave(r)
  \/ CleanUp(r)

\* The graph's task ends.
LEMMA StopEffect ==
  ASSUME Shape, NEW r \in Requests, NEW how, Stop(r, how)
  PROVE  /\ DOMAIN chat' = Requests
         /\ \A q \in Requests \ {r} : chat'[q] = chat[q]
         /\ chat'[r].step = "stopped" /\ chat'[r].ended = how
         /\ {"step", "ended"} \subseteq DOMAIN chat'[r]
  <1> DEFINE last == [Idle EXCEPT !.step = "stopped", !.ended = how]
  <1>1. /\ last.step = "stopped" /\ last.ended = how
        /\ {"step", "ended"} \subseteq DOMAIN last
    BY DEF Idle
  <1>2. chat' = [chat EXCEPT ![r] = last]
    BY DEF Stop
  <1> HIDE DEF last
  <1> QED BY <1>1, <1>2 DEF Shape

\* The graph goes on to the agent with a context.
LEMMA ContextEffect ==
  ASSUME Shape, NEW r \in Requests, BuildContext(r)
  PROVE  /\ DOMAIN chat' = Requests
         /\ \A q \in Requests \ {r} : chat'[q] = chat[q]
         /\ chat'[r].step \in {"user", "bubble"} /\ chat'[r].ended = chat[r].ended
         /\ {"step", "ended"} \subseteq DOMAIN chat'[r]
  <1>1. PICK context :
          chat' = [chat EXCEPT ![r].step = Saving(r), ![r].context = context]
    BY DEF BuildContext
  <1>2. Saving(r) \in {"user", "bubble"}
    BY DEF Saving
  <1> QED BY <1>1, <1>2 DEF Shape

\* A step of r leaves the bridges of the other requests alone.
LEMMA Elsewhere ==
  ASSUME Shape, NEW r \in Requests, Acts(r)
  PROVE  /\ Shape'
         /\ \A q \in Requests \ {r} :
              /\ chat'[q] = chat[q] /\ queue'[q] = queue[q]
              /\ reader'[q] = reader[q] /\ got'[q] = got[q]
  <1> USE DEF Shape
  <1>1. CASE \E asked \in Agents, bound, skip \in BOOLEAN : Begin(r, asked, bound, skip)
    BY <1>1 DEF Begin, Idle
  <1>2. CASE LookUp(r) \/ SaveCheckpoint(r)
    BY <1>2 DEF LookUp, SaveCheckpoint
  <1>3. CASE BuildContext(r)
    BY <1>3, ContextEffect DEF BuildContext
  <1>4. CASE SaveUser(r) \/ SaveBubble(r) \/ Speak(r) \/ Persist(r)
    BY <1>4 DEF SaveUser, SaveBubble, Speak, Persist, Emitted
  <1>5. CASE Finish(r) \/ Fail(r)
    BY <1>5, StopEffect DEF Finish, Fail
  <1>6. CASE Forward(r) \/ Leave(r)
    BY <1>6 DEF Forward, Leave
  <1>7. CASE CleanUp(r)
    BY <1>7, StopEffect DEF CleanUp, CancelGraph
  <1> QED BY <1>1, <1>2, <1>3, <1>4, <1>5, <1>6, <1>7 DEF Acts, Graph

-----------------------------------------------------------------------------
(* Each step of a request preserves its bridge.                            *)

LEMMA BeginBridged ==
  ASSUME Shape, NEW r \in Requests, Bridge(r),
         NEW asked \in Agents, NEW bound \in BOOLEAN, NEW skip \in BOOLEAN,
         Begin(r, asked, bound, skip)
  PROVE  Bridge(r)'
  <1>1. /\ chat[r].step = "idle" /\ chat'[r].step = "look"
        /\ queue' = queue /\ got' = got /\ reader'[r] = "reading"
    BY DEF Shape, Begin, Idle
  <1>2. got[r] = <<>> /\ queue[r] = <<>>
    BY <1>1 DEF Bridge, Begun
  <1>3. Range(<<>>) = {}
    BY DEF Range
  <1> QED
    BY <1>1, <1>2, <1>3
    DEF Bridge, Begun, SentinelIsLast, SentWhileReading, ToldWhenOver, Raised, Sent

\* The steps between the beginning and the answer send nothing.
LEMMA BuildingBridged ==
  ASSUME Shape, NEW r \in Requests, Bridge(r),
         LookUp(r) \/ SaveCheckpoint(r) \/ BuildContext(r) \/ SaveUser(r) \/ SaveBubble(r)
  PROVE  Bridge(r)'
  <1>1. /\ chat[r].step \in {"look", "checkpoint", "history", "user", "bubble"}
        /\ chat'[r].step \in {"checkpoint", "history", "user", "bubble", "speak"}
        /\ UNCHANGED <<queue, reader, got>>
    <2>1. CASE LookUp(r) \/ SaveCheckpoint(r)
      BY <2>1 DEF Shape, LookUp, SaveCheckpoint, Saving
    <2>2. CASE BuildContext(r)
      BY <2>2, ContextEffect DEF BuildContext
    <2>3. CASE SaveUser(r) \/ SaveBubble(r)
      BY <2>3 DEF Shape, SaveUser, SaveBubble
    <2> QED BY <2>1, <2>2, <2>3
  <1> QED
    BY <1>1
    DEF Bridge, Begun, SentinelIsLast, SentWhileReading, ToldWhenOver, Raised, Sent

\* No event of a running task is the sentinel.
LEMMA RunningIsOpen ==
  ASSUME NEW r \in Requests, Bridge(r), Running(r)
  PROVE  \A i \in 1..Len(queue[r]) : queue[r][i] # "sentinel"
  BY DEF Bridge, SentinelIsLast, Running

LEMMA SpeakBridged ==
  ASSUME Shape, NEW r \in Requests, Bridge(r), Speak(r)
  PROVE  Bridge(r)'
  <1>1. PICK events \in Streams :
          /\ chat[r].step = "speak" /\ chat'[r].step \in {"persist", "finish"}
          /\ queue'[r] = queue[r] \o events
          /\ UNCHANGED <<reader, got>>
    BY DEF Shape, Speak, Emitted
  <1>2. queue[r] \in Seq(Events) /\ events \in Seq({"content", "fault"})
    BY StreamedText DEF Bridge
  <1>3. events \in Seq(Events) /\ queue'[r] \in Seq(Events)
    <2>1. Seq({"content", "fault"}) \subseteq Seq(Events)
      BY DEF Events
    <2> QED BY <1>1, <1>2, <2>1, ConcatProperties
  <1>4. /\ Range(queue'[r]) = Range(queue[r]) \union Range(events)
        /\ Range(events) \subseteq {"content", "fault"}
    <2>1. DOMAIN events = 1..Len(events)
      BY <1>2
    <2>2. Range(events) \subseteq {"content", "fault"}
      BY <1>2, <2>1 DEF Range
    <2> QED BY <1>1, <1>2, <1>3, <2>2, RangeConcat
  <1>5. \A i \in 1..Len(queue'[r]) : queue'[r][i] # "sentinel"
    <2>1. \A i \in 1..Len(queue[r]) : queue[r][i] # "sentinel"
      BY <1>1, RunningIsOpen DEF Running
    <2>2. "sentinel" \notin Range(queue[r])
      BY <1>2, <2>1 DEF Range
    <2>3. "sentinel" \notin Range(queue'[r])
      BY <1>4, <2>2
    <2>4. DOMAIN queue'[r] = 1..Len(queue'[r])
      BY <1>3
    <2> QED BY <2>3, <2>4 DEF Range
  <1>6. SentinelIsLast(r)'
    BY <1>5 DEF SentinelIsLast
  <1> QED
    BY <1>1, <1>3, <1>4, <1>6
    DEF Bridge, Begun, SentWhileReading, ToldWhenOver, Raised, Sent

LEMMA PersistBridged ==
  ASSUME Shape, NEW r \in Requests, Bridge(r), Persist(r)
  PROVE  Bridge(r)'
  <1>1. /\ chat[r].step = "persist" /\ chat'[r].step = "finish"
        /\ UNCHANGED <<queue, reader, got>>
    BY DEF Shape, Persist
  <1> QED
    BY <1>1
    DEF Bridge, Begun, SentinelIsLast, SentWhileReading, ToldWhenOver, Raised, Sent

LEMMA FinishBridged ==
  ASSUME Shape, NEW r \in Requests, Bridge(r), Finish(r)
  PROVE  Bridge(r)'
  <1>1. /\ chat[r].step = "finish" /\ chat'[r].step = "stopped" /\ chat'[r].ended = "done"
        /\ queue'[r] = Append(queue[r], "sentinel")
        /\ UNCHANGED <<reader, got>>
    BY StopEffect DEF Shape, Finish, Close
  <1>2. queue[r] \in Seq(Events) /\ "sentinel" \in Events
    BY DEF Bridge, Events
  <1>3. queue'[r] \in Seq(Events)
    BY <1>1, <1>2
  <1>4. Range(queue'[r]) = Range(queue[r]) \union {"sentinel"}
    BY <1>1, <1>2, RangeAppend
  <1>5. SentinelIsLast(r)'
    BY <1>1, <1>2, AppendProperties, RunningIsOpen DEF SentinelIsLast, Running
  <1> QED
    BY <1>1, <1>3, <1>4, <1>5
    DEF Bridge, Begun, SentWhileReading, ToldWhenOver, Raised, Sent

LEMMA FailBridged ==
  ASSUME Shape, NEW r \in Requests, Bridge(r), Fail(r)
  PROVE  Bridge(r)'
  <1> DEFINE told == Append(queue[r], "error")
  <1>1. /\ Running(r) /\ chat'[r].step = "stopped" /\ chat'[r].ended = "failed"
        /\ queue'[r] = Append(told, "sentinel")
        /\ UNCHANGED <<reader, got>>
    BY StopEffect DEF Shape, Fail, Close, ToldOfFailure
  <1>2. queue[r] \in Seq(Events) /\ {"error", "sentinel"} \subseteq Events
    BY DEF Bridge, Events
  <1>3. /\ told \in Seq(Events) /\ Range(told) = Range(queue[r]) \union {"error"}
        /\ \A i \in 1..Len(told) : told[i] # "sentinel"
    BY <1>1, <1>2, AppendProperties, RangeAppend, RunningIsOpen
  <1> HIDE DEF told
  <1>4. queue'[r] \in Seq(Events)
    BY <1>1, <1>2, <1>3
  <1>5. Range(queue'[r]) = Range(told) \union {"sentinel"}
    BY <1>1, <1>2, <1>3, RangeAppend
  <1>6. SentinelIsLast(r)'
    BY <1>1, <1>2, <1>3, AppendProperties DEF SentinelIsLast
  <1> QED
    BY <1>1, <1>3, <1>4, <1>5, <1>6
    DEF Bridge, Begun, SentWhileReading, ToldWhenOver, Raised, Sent, Running

\* The client gets an event, or the sentinel, which is the last: everything sent
\* has reached the client then.
LEMMA ForwardBridged ==
  ASSUME Shape, NEW r \in Requests, Bridge(r), Forward(r)
  PROVE  Bridge(r)'
  <1>1. /\ reader[r] = "reading" /\ queue[r] # <<>> /\ queue'[r] = Tail(queue[r])
        /\ UNCHANGED chat
    BY DEF Shape, Forward
  <1>2. queue[r] \in Seq(Events) /\ got[r] \in Seq(Told)
    BY DEF Bridge
  <1>3. /\ Tail(queue[r]) \in Seq(Events) /\ Head(queue[r]) \in Events
        /\ Head(queue[r]) = queue[r][1]
        /\ Len(Tail(queue[r])) = Len(queue[r]) - 1 /\ Len(queue[r]) \in Nat \ {0}
        /\ \A i \in 1..Len(Tail(queue[r])) : Tail(queue[r])[i] = queue[r][i + 1]
    BY <1>1, <1>2, HeadTailProperties
  <1>4. Range(queue[r]) = {Head(queue[r])} \union Range(queue'[r])
    BY <1>1, <1>2, RangeHeadTail
  <1>5. SentinelIsLast(r)'
    BY <1>1, <1>3 DEF Bridge, SentinelIsLast
  <1>6. CASE Head(queue[r]) = "sentinel"
    <2>1. reader'[r] = "over" /\ got'[r] = Append(got[r], "[DONE]")
      BY <1>6 DEF Shape, Forward
    <2>2. Len(queue[r]) = 1 /\ chat[r].step = "stopped"
      <3>1. 1 \in 1..Len(queue[r]) /\ queue[r][1] = "sentinel"
        BY <1>3, <1>6
      <3> QED BY <3>1 DEF Bridge, SentinelIsLast
    <2>3. Range(queue'[r]) = {}
      BY <1>1, <1>3, <2>2 DEF Range
    <2>4. got'[r] \in Seq(Told) /\ Range(got'[r]) = Range(got[r]) \union {"[DONE]"}
      BY <1>2, <2>1, RangeAppend DEF Told
    <2>5. Sent(r, "error") <=> "error" \in Range(got'[r])
      BY <1>4, <1>6, <2>3, <2>4 DEF Sent
    <2>6. ToldWhenOver(r)'
      <3>1. chat[r].ended \in {"done", "failed"} /\ (Raised(r) <=> Sent(r, "error"))
        BY <1>1, <2>2 DEF Bridge, SentWhileReading
      <3> QED BY <1>1, <2>1, <2>2, <2>5, <3>1 DEF ToldWhenOver, Raised
    <2> QED
      BY <1>1, <1>3, <1>5, <2>1, <2>2, <2>4, <2>6 DEF Bridge, Begun, SentWhileReading
  <1>7. CASE Head(queue[r]) # "sentinel"
    <2>1. reader'[r] = "reading" /\ got'[r] = Append(got[r], Head(queue[r]))
      BY <1>1, <1>7 DEF Shape, Forward
    <2>2. Head(queue[r]) \in Told /\ Head(queue[r]) # "[DONE]"
      BY <1>3, <1>7 DEF Events, Told
    <2>3. /\ got'[r] \in Seq(Told)
          /\ Range(got'[r]) = Range(got[r]) \union {Head(queue[r])}
      BY <1>2, <2>1, <2>2, RangeAppend
    <2>4. \A event : Sent(r, event) <=> Sent(r, event)'
      BY <1>4, <2>3 DEF Sent
    <2>5. SentWhileReading(r)'
      BY <1>1, <2>1, <2>2, <2>3, <2>4 DEF Bridge, SentWhileReading, Raised
    <2> QED
      BY <1>1, <1>3, <1>5, <2>1, <2>3, <2>5 DEF Bridge, Begun, ToldWhenOver
  <1> QED BY <1>6, <1>7

LEMMA LeaveBridged ==
  ASSUME Shape, NEW r \in Requests, Bridge(r), Leave(r)
  PROVE  Bridge(r)'
  <1>1. /\ reader[r] = "reading" /\ reader'[r] = "left" /\ got'[r] = <<>>
        /\ UNCHANGED <<chat, queue>>
    BY DEF Shape, Leave
  <1> QED
    BY <1>1 DEF Bridge, Begun, SentinelIsLast, SentWhileReading, ToldWhenOver

\* Whether the task runs or has ended, it has stopped after the clean-up.
LEMMA CleanUpBridged ==
  ASSUME Shape, NEW r \in Requests, Bridge(r), CleanUp(r)
  PROVE  Bridge(r)'
  <1>1. /\ reader[r] = "left" /\ reader'[r] = "over" /\ queue'[r] = <<>>
        /\ got' = got
    BY DEF Shape, CleanUp
  <1>2. chat[r].step # "idle" /\ got[r] = <<>>
    BY <1>1 DEF Bridge, Begun
  <1>3. chat'[r].step = "stopped"
    BY <1>2, StopEffect DEF CleanUp, CancelGraph, Running
  <1>4. Range(<<>>) = {} /\ Len(<<>>) = 0
    BY DEF Range
  <1> QED
    BY <1>1, <1>2, <1>3, <1>4
    DEF Bridge, Begun, SentinelIsLast, SentWhileReading, ToldWhenOver

-----------------------------------------------------------------------------
(* What is stored, asked and deleted.                                      *)

Steps == {"idle", "look", "checkpoint", "history", "user", "bubble", "speak", "persist",
          "finish", "stopped"}
HasUser == {"bubble", "speak", "persist", "finish", "stopped"}
HasBubble == {"speak", "persist", "finish", "stopped"}
HasAnswered == {"finish", "stopped"}

Rows == [by : Asking, role : {"user", "assistant"}, text : Texts]
Tasks == [step : Steps, ended : {"no", "done", "failed", "cancelled"},
          agent : Agents \union {None}, skip : BOOLEAN, text : Texts, context : Seq(Texts)]

Typed ==
  /\ row \in Sessions \union {None}
  /\ messages \in Seq(Rows)
  /\ row = None => messages = <<>>
  /\ chat \in [Requests -> Tasks]
  /\ \A r \in Requests : Running(r) => chat[r].agent \in Agents

\* A request stores its question and its answer once.
Once ==
  /\ \A i, j \in 1..Len(messages) : Id(messages[i]) = Id(messages[j]) => i = j
  /\ \A r \in Requests, i \in 1..Len(messages) :
       /\ Id(messages[i]) = <<r, "user">> => chat[r].step \in HasUser
       /\ Id(messages[i]) = <<r, "assistant">> => chat[r].step \in HasBubble

\* Nobody knows a text before it is asked or answered.
Fresh ==
  \A r \in Requests :
    /\ chat[r].step = "idle" =>
         Question(r) \notin TextsOf(messages) \union seen.deleted \union Asked
    /\ chat[r].step \notin HasAnswered =>
         Answer(r) \notin TextsOf(messages) \union seen.deleted \union Asked

\* What is deleted is neither stored nor asked, nor is it the snapshot.
Gone ==
  /\ "deleted" \in DOMAIN seen /\ seen = [f \in DOMAIN seen |-> seen[f]]
  /\ (TextsOf(messages) \union Asked \union {Blank}) \intersect seen.deleted = {}
  /\ row # None /\ row.thread # None => row.thread.text \notin seen.deleted

\* A deletion that will not reset the snapshot found none: what has become the
\* snapshot since was asked meanwhile.
Pending ==
  change # None =>
    /\ {"resets", "asked"} \subseteq DOMAIN change
    /\ change = [f \in DOMAIN change |-> change[f]]
    /\ Asked \subseteq change.asked
    /\ ~change.resets /\ row # None /\ row.thread # None => row.thread.text \in change.asked

SessionSound == Typed /\ Once /\ Fresh /\ Gone /\ Pending

LEMMA TextFacts ==
  /\ \A r \in Asking : Question(r) \in Texts /\ Answer(r) \in Texts
  /\ Blank \in Texts /\ Revised \in Texts
  /\ \A r, q : (Question(r) = Question(q) => r = q) /\ (Answer(r) = Answer(q) => r = q)
  /\ \A r, q : Question(r) # Answer(q)
  /\ \A r : {Question(r), Answer(r)} \intersect {Blank, Revised} = {}
  <1>1. \A r : Question(r).kind = "question" /\ Answer(r).kind = "answer"
               /\ Question(r).of = r /\ Answer(r).of = r
    BY DEF Question, Answer
  <1>2. Blank.kind = "blank" /\ Revised.kind = "revised"
    BY DEF Blank, Revised
  <1>3. /\ \A r \in Asking : Question(r) \in Texts /\ Answer(r) \in Texts
        /\ Blank \in Texts /\ Revised \in Texts
    BY DEF Texts, Question, Answer
  <1> HIDE DEF Question, Answer, Blank, Revised
  <1>4. \A r, q : (Question(r) = Question(q) => r = q) /\ (Answer(r) = Answer(q) => r = q)
    BY <1>1
  <1>5. \A r, q : Question(r) # Answer(q)
    BY <1>1
  <1>6. \A r : {Question(r), Answer(r)} \intersect {Blank, Revised} = {}
    BY <1>1, <1>2
  <1> QED BY <1>3, <1>4, <1>5, <1>6

LEMMA TextsByPlace ==
  ASSUME NEW S, NEW s \in Seq(S)
  PROVE  TextsOf(s) = {s[i].text : i \in 1..Len(s)}
  <1>1. DOMAIN s = 1..Len(s)
    OBVIOUS
  <1> QED BY <1>1 DEF TextsOf, Range

\* The requests only go on.
Onward ==
  \A r \in Requests :
    /\ chat'[r].step = "idle" => chat[r].step = "idle"
    /\ chat[r].step \in HasUser => chat'[r].step \in HasUser
    /\ chat[r].step \in HasBubble => chat'[r].step \in HasBubble
    /\ chat[r].step \in HasAnswered => chat'[r].step \in HasAnswered

\* What may become known in a step.
News ==
  {Blank, Revised}
    \union {Question(r) : r \in {q \in Requests : chat'[q].step # "idle"}}
    \union {Answer(r) : r \in {q \in Requests : chat'[q].step \in HasAnswered}}

LEMMA FreshKept ==
  ASSUME Fresh, Onward, seen'.deleted \subseteq seen.deleted \union TextsOf(messages),
         TextsOf(messages') \subseteq TextsOf(messages) \union News,
         Asked' \subseteq Asked \union TextsOf(messages) \union News
  PROVE  Fresh'
  <1> DEFINE known == TextsOf(messages) \union seen.deleted \union Asked
             later == TextsOf(messages') \union seen'.deleted \union Asked'
  <1>1. later \subseteq known \union News
    OBVIOUS
  <1>2. ASSUME NEW r \in Requests, chat'[r].step = "idle"
        PROVE  Question(r) \notin later
    <2>1. Question(r) \notin known
      BY <1>2 DEF Onward, Fresh
    <2>2. Question(r) \notin News
      BY <1>2, TextFacts DEF News
    <2> QED BY <1>1, <2>1, <2>2
  <1>3. ASSUME NEW r \in Requests, chat'[r].step \notin HasAnswered
        PROVE  Answer(r) \notin later
    <2>1. Answer(r) \notin known
      BY <1>3 DEF Onward, Fresh
    <2>2. Answer(r) \notin News
      BY <1>3, TextFacts DEF News
    <2> QED BY <1>1, <2>1, <2>2
  <1> HIDE DEF later
  <1>4. \A r \in Requests :
          /\ chat'[r].step = "idle" => Question(r) \notin later
          /\ chat'[r].step \notin HasAnswered => Answer(r) \notin later
    BY <1>2, <1>3
  <1> QED BY <1>4 DEF later, Fresh, TextsOf, Question, Answer

\* A request goes on with what it asks, or stops.
LEMMA TaskMoved ==
  ASSUME Typed, NEW r \in Requests, chat' \in [Requests -> Tasks],
         \A q \in Requests \ {r} : chat'[q] = chat[q],
         chat'[r].step # "idle",
         chat'[r].step # "stopped" =>
           Running(r) /\ chat'[r].text = chat[r].text /\ chat'[r].agent = chat[r].agent,
         chat[r].step \in HasUser => chat'[r].step \in HasUser,
         chat[r].step \in HasBubble => chat'[r].step \in HasBubble,
         chat[r].step \in HasAnswered => chat'[r].step \in HasAnswered
  PROVE  /\ Onward
         /\ \A q \in Requests : Running(q)' => chat'[q].agent \in Agents
         /\ Asked' \subseteq Asked
  <1>1. Onward
    BY DEF Onward
  <1>2. \A q \in Requests :
          Running(q)' => Running(q) /\ chat'[q].text = chat[q].text /\ chat'[q].agent = chat[q].agent
    BY DEF Running
  <1>3. Asked' \subseteq Asked
    BY <1>2 DEF Asked
  <1> QED BY <1>1, <1>2, <1>3 DEF Typed

\* Nothing is stored or deleted; what becomes the snapshot is being asked.
LEMMA NothingStored ==
  ASSUME SessionSound, UNCHANGED <<messages, change, seen>>,
         chat' \in [Requests -> Tasks], Onward, Asked' \subseteq Asked,
         \A q \in Requests : Running(q)' => chat'[q].agent \in Agents,
         row' \in Sessions \union {None}, row' = None => row = None,
         row' # None /\ row'.thread # None =>
           \/ row # None /\ row.thread # None /\ row'.thread.text = row.thread.text
           \/ row'.thread.text \in Asked
  PROVE  SessionSound'
  <1>1. Typed'
    BY DEF SessionSound, Typed
  <1>2. Once'
    BY DEF SessionSound, Once, Onward, Id
  <1>3. Fresh'
    BY FreshKept DEF SessionSound
  <1>4. Gone'
    BY DEF SessionSound, Gone, TextsOf, Blank
  <1>5. Pending'
    BY DEF SessionSound, Pending
  <1> QED BY <1>1, <1>2, <1>3, <1>4, <1>5 DEF SessionSound

LEMMA StoppedTask ==
  ASSUME NEW how \in {"done", "failed", "cancelled"}
  PROVE  LET t == [Idle EXCEPT !.step = "stopped", !.ended = how]
         IN t \in Tasks /\ t.step = "stopped" /\ t.context = <<>>
  <1>1. Blank \in Texts /\ <<>> \in Seq(Texts) /\ "stopped" \in Steps
    BY TextFacts DEF Steps
  <1> DEFINE t == [Idle EXCEPT !.step = "stopped", !.ended = how]
  <1>2. Idle \in Tasks /\ Idle.context = <<>>
    BY <1>1 DEF Idle, Tasks, Steps
  <1>3. t \in Tasks /\ t.step = "stopped" /\ t.context = <<>>
    <2> HIDE DEF Idle
    <2> QED BY <1>1, <1>2 DEF Tasks
  <1> QED BY <1>3

LEMMA StopSound ==
  ASSUME SessionSound, NEW r \in Requests, NEW how \in {"done", "failed", "cancelled"},
         Stop(r, how), UNCHANGED <<row, messages, change, seen>>
  PROVE  SessionSound'
  <1> DEFINE t == [Idle EXCEPT !.step = "stopped", !.ended = how]
  <1>1. t \in Tasks /\ t.step = "stopped" /\ chat' = [chat EXCEPT ![r] = t]
    BY StoppedTask DEF Stop
  <1> HIDE DEF t
  <1>2. /\ chat' \in [Requests -> Tasks] /\ chat'[r] = t
        /\ \A q \in Requests \ {r} : chat'[q] = chat[q]
    BY <1>1 DEF SessionSound, Typed
  <1>3. /\ Onward /\ Asked' \subseteq Asked
        /\ \A q \in Requests : Running(q)' => chat'[q].agent \in Agents
    BY <1>1, <1>2, TaskMoved DEF SessionSound, HasUser, HasBubble, HasAnswered
  <1>4. row' \in Sessions \union {None}
    BY DEF SessionSound, Typed
  <1> QED BY <1>2, <1>3, <1>4, NothingStored

\* What the context node makes of the row.
LEMMA LookUpSound ==
  ASSUME SessionSound, NEW r \in Requests, LookUp(r)
  PROVE  SessionSound'
  <1>1. chat[r] \in Tasks /\ chat[r].step = "look" /\ chat[r].agent \in Agents
    BY DEF LookUp, SessionSound, Typed, Running
  <1>2. /\ chat' \in [Requests -> Tasks] /\ \A q \in Requests \ {r} : chat'[q] = chat[q]
        /\ chat'[r].step \in {"user", "bubble", "checkpoint"}
        /\ chat'[r].text = chat[r].text /\ chat'[r].agent = chat[r].agent
    <2>1. CASE CanResume(r)
      <3>1. PICK context \in Seq(Texts) : context = <<row.thread.text, chat[r].text>>
        <4>1. row.thread.text \in Texts
          BY <2>1 DEF CanResume, SessionSound, Typed, Sessions
        <4>2. chat[r].text \in Texts
          BY <1>1 DEF Tasks
        <4>3. <<row.thread.text, chat[r].text>> \in Seq(Texts)
          BY <4>1, <4>2, PairIsSequence
        <4> QED BY <4>3
      <3>2. PICK step \in {"user", "bubble"} : step = Saving(r)
        BY DEF Saving
      <3>3. chat' = [chat EXCEPT ![r].step = step, ![r].context = context]
        BY <2>1, <3>1, <3>2 DEF LookUp
      <3> QED BY <1>1, <3>3 DEF SessionSound, Typed, Tasks, Steps
    <2>2. CASE ~CanResume(r)
      <3>1. chat' = [chat EXCEPT ![r].step = "checkpoint"]
        BY <2>2 DEF LookUp
      <3> QED BY <1>1, <3>1 DEF SessionSound, Typed, Tasks, Steps
    <2> QED BY <2>1, <2>2
  <1>3. /\ Onward /\ Asked' \subseteq Asked
        /\ \A q \in Requests : Running(q)' => chat'[q].agent \in Agents
    BY <1>1, <1>2, TaskMoved DEF SessionSound, HasUser, HasBubble, HasAnswered, Running
  <1>4. CASE row = None
    <2>1. row' = None
      BY <1>4 DEF LookUp
    <2> QED BY <1>2, <1>3, <1>4, <2>1, NothingStored DEF LookUp
  <1>5. CASE row # None
    <2>1. row \in Sessions /\ row' = [row EXCEPT !.active = chat[r].agent]
      BY <1>5 DEF LookUp, SessionSound, Typed
    <2>2. row' \in Sessions /\ row'.thread = row.thread
      BY <1>1, <2>1 DEF Sessions
    <2> QED BY <1>2, <1>3, <1>5, <2>2, NothingStored, NoneIsNoRow DEF LookUp
  <1> QED BY <1>4, <1>5

LEMMA SaveCheckpointSound ==
  ASSUME SessionSound, NEW r \in Requests, SaveCheckpoint(r)
  PROVE  SessionSound'
  <1>1. /\ chat[r] \in Tasks /\ chat[r].step = "checkpoint" /\ chat[r].agent \in Agents
        /\ chat[r].text \in Asked
    BY DEF SaveCheckpoint, SessionSound, Typed, Running, Asked
  <1>2. /\ chat' \in [Requests -> Tasks] /\ \A q \in Requests \ {r} : chat'[q] = chat[q]
        /\ chat'[r].step = "history"
        /\ chat'[r].text = chat[r].text /\ chat'[r].agent = chat[r].agent
    BY <1>1 DEF SaveCheckpoint, SessionSound, Typed, Tasks, Steps
  <1>3. /\ Onward /\ Asked' \subseteq Asked
        /\ \A q \in Requests : Running(q)' => chat'[q].agent \in Agents
    BY <1>1, <1>2, TaskMoved DEF SessionSound, HasUser, HasBubble, HasAnswered, Running
  <1>4. CASE row # None /\ row' = [row EXCEPT !.thread = [agent |-> chat[r].agent,
                                                           text |-> chat[r].text]]
    <2>1. row' \in Sessions /\ row'.thread.text = chat[r].text
      BY <1>1, <1>4 DEF SessionSound, Typed, Sessions, Tasks
    <2> QED BY <1>1, <1>2, <1>3, <1>4, <2>1, NoneIsNoRow, NothingStored DEF SaveCheckpoint
  <1>5. CASE UNCHANGED row
    <2>1. row' \in Sessions \union {None}
      BY <1>5 DEF SessionSound, Typed
    <2> QED BY <1>2, <1>3, <1>5, <2>1, NothingStored DEF SaveCheckpoint
  <1> QED BY <1>4, <1>5 DEF SaveCheckpoint

\* A context is made of what is stored.
LEMMA ContextMade ==
  ASSUME SessionSound, NEW r \in Requests, BuildContext(r)
  PROVE  \E context \in Seq(Texts) :
           /\ chat' = [chat EXCEPT ![r].step = Saving(r), ![r].context = context]
           /\ Range(context) \subseteq TextsOf(messages) \union {chat[r].text}
  <1>1. PICK n \in {IF Len(messages) < Window THEN Len(messages) ELSE Window}
                     \union (IF DatabaseFails THEN {0} ELSE {}) :
          LET newest == SubSeq(messages, Len(messages) - n + 1, Len(messages))
          IN chat' = [chat EXCEPT ![r].step = Saving(r),
                 ![r].context = Append([i \in 1..n |-> newest[i].text], chat[r].text)]
    BY DEF BuildContext
  <1>2. messages \in Seq(Rows) /\ Len(messages) \in Nat /\ chat[r].text \in Texts
    BY DEF SessionSound, Typed, Tasks
  <1>3. n \in Nat /\ n <= Len(messages)
    BY <1>2, ChatAssumption
  <1> DEFINE newest == SubSeq(messages, Len(messages) - n + 1, Len(messages))
             told == [i \in 1..n |-> newest[i].text]
  <1>4. ASSUME NEW i \in 1..n
        PROVE  \E j \in 1..Len(messages) : newest[i] = messages[j]
    <2>1. Len(messages) - n + i \in 1..Len(messages)
      BY <1>2, <1>3
    <2>2. newest[i] = messages[Len(messages) - n + i]
      BY <1>2, <1>3, <2>1
    <2> QED BY <2>1, <2>2
  <1> HIDE DEF newest
  <1>5. ASSUME NEW j \in 1..Len(messages)
        PROVE  messages[j].text \in Texts
    <2>1. messages[j] \in Rows
      BY <1>2
    <2> QED BY <2>1 DEF Rows
  <1>6. told \in Seq(Texts) /\ DOMAIN told = 1..n
    <2>1. told \in [1..n -> Texts]
      BY <1>4, <1>5
    <2> HIDE DEF told
    <2> QED BY <1>3, <2>1
  <1>7. Range(told) \subseteq TextsOf(messages)
    BY <1>2, <1>4, <1>6, TextsByPlace DEF Range
  <1> HIDE DEF told
  <1>8. /\ Append(told, chat[r].text) \in Seq(Texts)
        /\ Range(Append(told, chat[r].text)) = Range(told) \union {chat[r].text}
    BY <1>2, <1>6, RangeAppend
  <1>9. chat' = [chat EXCEPT ![r].step = Saving(r),
                             ![r].context = Append(told, chat[r].text)]
    BY <1>1 DEF newest, told
  <1> QED BY <1>7, <1>8, <1>9

LEMMA BuildContextSound ==
  ASSUME SessionSound, NEW r \in Requests, BuildContext(r)
  PROVE  SessionSound'
  <1>1. chat[r] \in Tasks /\ chat[r].step = "history"
    BY DEF BuildContext, SessionSound, Typed
  <1>2. /\ chat' \in [Requests -> Tasks] /\ \A q \in Requests \ {r} : chat'[q] = chat[q]
        /\ chat'[r].step \in {"user", "bubble"}
        /\ chat'[r].text = chat[r].text /\ chat'[r].agent = chat[r].agent
    <2>1. PICK step \in {"user", "bubble"}, context \in Seq(Texts) :
            chat' = [chat EXCEPT ![r].step = step, ![r].context = context]
      BY ContextMade DEF Saving
    <2> QED BY <1>1, <2>1 DEF SessionSound, Typed, Tasks, Steps
  <1>3. /\ Onward /\ Asked' \subseteq Asked
        /\ \A q \in Requests : Running(q)' => chat'[q].agent \in Agents
    BY <1>1, <1>2, TaskMoved DEF SessionSound, HasUser, HasBubble, HasAnswered, Running
  <1>4. row' \in Sessions \union {None} /\ row' = row
    BY DEF BuildContext, SessionSound, Typed
  <1> QED BY <1>2, <1>3, <1>4, NothingStored DEF BuildContext

\* A message is stored, of a request that had not stored it.
LEMMA MessageStored ==
  ASSUME SessionSound, UNCHANGED <<row, change, seen>>, row # None,
         NEW m \in Rows, messages' = Append(messages, m), m.text \in Asked \union {Blank},
         \A i \in 1..Len(messages) : Id(messages[i]) # Id(m),
         \A q \in Requests :
           /\ Id(m) = <<q, "user">> => chat'[q].step \in HasUser
           /\ Id(m) = <<q, "assistant">> => chat'[q].step \in HasBubble,
         chat' \in [Requests -> Tasks], Onward, Asked' \subseteq Asked,
         \A q \in Requests : Running(q)' => chat'[q].agent \in Agents
  PROVE  SessionSound'
  <1>1. /\ messages' \in Seq(Rows) /\ Len(messages') = Len(messages) + 1
        /\ Len(messages) \in Nat
        /\ messages'[Len(messages) + 1] = m
        /\ \A i \in 1..Len(messages) : messages'[i] = messages[i]
    BY AppendProperties DEF SessionSound, Typed
  <1>2. \A i \in 1..Len(messages') : i \in 1..Len(messages) \/ i = Len(messages) + 1
    BY <1>1
  <1>3. Typed'
    BY <1>1 DEF SessionSound, Typed
  <1>4. Once'
    <2>1. \A i, j \in 1..Len(messages') : Id(messages'[i]) = Id(messages'[j]) => i = j
      BY <1>1, <1>2 DEF SessionSound, Once
    <2>2. \A q \in Requests, i \in 1..Len(messages') :
            /\ Id(messages'[i]) = <<q, "user">> => chat'[q].step \in HasUser
            /\ Id(messages'[i]) = <<q, "assistant">> => chat'[q].step \in HasBubble
      BY <1>1, <1>2 DEF SessionSound, Once, Onward
    <2> QED BY <2>1, <2>2 DEF Once, Id
  <1>5. TextsOf(messages') \subseteq TextsOf(messages) \union {m.text}
    <2>1. messages \in Seq(Rows)
      BY DEF SessionSound, Typed
    <2>2. TextsOf(Append(messages, m)) = TextsOf(messages) \union {m.text}
      BY <2>1, RangeAppend DEF TextsOf
    <2> QED BY <2>2
  <1>6. Fresh'
    <2>1. Fresh
      BY DEF SessionSound
    <2> DEFINE known == TextsOf(messages) \union seen.deleted \union Asked
    <2>2. TextsOf(messages') \union seen'.deleted \union Asked' \subseteq known \union {Blank}
      BY <1>5
    <2>3. \A q \in Requests :
            /\ chat'[q].step = "idle" => Question(q) \notin known \union {Blank}
            /\ chat'[q].step \notin HasAnswered => Answer(q) \notin known \union {Blank}
      BY <2>1, TextFacts DEF Fresh, Onward
    <2> HIDE DEF known
    <2> QED BY <2>2, <2>3 DEF Fresh, TextsOf, Question, Answer
  <1>7. Gone'
    <2>1. TextsOf(messages') \union Asked' \union {Blank}
            \subseteq TextsOf(messages) \union Asked \union {Blank}
      BY <1>5
    <2> QED BY <2>1 DEF SessionSound, Gone, TextsOf, Blank
  <1>8. Pending'
    BY DEF SessionSound, Pending
  <1> QED BY <1>3, <1>4, <1>6, <1>7, <1>8 DEF SessionSound

LEMMA SaveSound ==
  ASSUME SessionSound, NEW r \in Requests, SaveUser(r) \/ SaveBubble(r)
  PROVE  SessionSound'
  <1>1. /\ chat[r] \in Tasks /\ chat[r].step \in {"user", "bubble"}
        /\ chat[r].text \in Asked /\ chat[r].text \in Texts /\ r \in Asking
    BY DEF SaveUser, SaveBubble, SessionSound, Typed, Running, Asked, Tasks, Asking
  <1>2. /\ chat' \in [Requests -> Tasks] /\ \A q \in Requests \ {r} : chat'[q] = chat[q]
        /\ chat'[r].step = IF chat[r].step = "user" THEN "bubble" ELSE "speak"
        /\ chat'[r].text = chat[r].text /\ chat'[r].agent = chat[r].agent
    <2>1. PICK step \in {"bubble", "speak"} :
            /\ chat' = [chat EXCEPT ![r].step = step]
            /\ step = IF chat[r].step = "user" THEN "bubble" ELSE "speak"
      BY DEF SaveUser, SaveBubble
    <2> QED BY <1>1, <2>1 DEF SessionSound, Typed, Tasks, Steps
  <1>3. /\ Onward /\ Asked' \subseteq Asked
        /\ \A q \in Requests : Running(q)' => chat'[q].agent \in Agents
    BY <1>1, <1>2, TaskMoved DEF SessionSound, HasUser, HasBubble, HasAnswered, Running
  <1>4. PICK m : /\ row # None /\ messages' = Append(messages, m)
                 /\ m \in {Message(r, "user", chat[r].text), Message(r, "assistant", Blank)}
                 /\ m.role = IF chat[r].step = "user" THEN "user" ELSE "assistant"
    BY DEF SaveUser, SaveBubble, Insert, Message
  <1>5. m \in Rows /\ Id(m) = <<r, m.role>> /\ m.text \in Asked \union {Blank}
    BY <1>1, <1>4, TextFacts DEF Message, Rows, Id
  <1>6. \A i \in 1..Len(messages) : Id(messages[i]) # Id(m)
    BY <1>1, <1>4, <1>5 DEF SessionSound, Once, HasUser, HasBubble
  <1>7. \A q \in Requests :
          /\ Id(m) = <<q, "user">> => chat'[q].step \in HasUser
          /\ Id(m) = <<q, "assistant">> => chat'[q].step \in HasBubble
    BY <1>1, <1>2, <1>4, <1>5 DEF HasUser, HasBubble
  <1> QED BY <1>2, <1>3, <1>4, <1>5, <1>6, <1>7, MessageStored DEF SaveUser, SaveBubble

LEMMA SpeakSound ==
  ASSUME SessionSound, NEW r \in Requests, Speak(r)
  PROVE  SessionSound'
  <1>1. chat[r] \in Tasks /\ chat[r].step = "speak"
    BY DEF Speak, SessionSound, Typed
  <1>2. /\ chat' \in [Requests -> Tasks] /\ \A q \in Requests \ {r} : chat'[q] = chat[q]
        /\ chat'[r].step \in {"persist", "finish"}
        /\ chat'[r].text = chat[r].text /\ chat'[r].agent = chat[r].agent
    <2>1. PICK step \in {"persist", "finish"} : chat' = [chat EXCEPT ![r].step = step]
      BY DEF Speak
    <2> QED BY <1>1, <2>1 DEF SessionSound, Typed, Tasks, Steps
  <1>3. /\ Onward /\ Asked' \subseteq Asked
        /\ \A q \in Requests : Running(q)' => chat'[q].agent \in Agents
    BY <1>1, <1>2, TaskMoved DEF SessionSound, HasUser, HasBubble, HasAnswered, Running
  <1>4. row' \in Sessions \union {None} /\ row' = row
    BY DEF Speak, SessionSound, Typed
  <1> QED BY <1>2, <1>3, <1>4, NothingStored DEF Speak

\* Some messages get another text, that was not deleted.
LEMMA MessagesRewritten ==
  ASSUME SessionSound, UNCHANGED <<row, change, seen>>, NEW text \in Texts,
         messages' \in Seq(Rows), Len(messages') = Len(messages),
         \A i \in 1..Len(messages) :
           /\ Id(messages'[i]) = Id(messages[i])
           /\ messages'[i].text \in {messages[i].text, text},
         text \notin seen.deleted, text \in News,
         chat' \in [Requests -> Tasks], Onward, Asked' \subseteq Asked,
         \A q \in Requests : Running(q)' => chat'[q].agent \in Agents
  PROVE  SessionSound'
  <1>1. messages \in Seq(Rows) /\ Len(messages) \in Nat
    BY DEF SessionSound, Typed
  <1>2. messages = <<>> => messages' = <<>>
    BY <1>1
  <1>3. Typed'
    BY <1>2 DEF SessionSound, Typed
  <1>4. Once'
    <2>1. \A i, j \in 1..Len(messages') : Id(messages'[i]) = Id(messages'[j]) => i = j
      BY DEF SessionSound, Once
    <2>2. \A q \in Requests, i \in 1..Len(messages') :
            /\ Id(messages'[i]) = <<q, "user">> => chat'[q].step \in HasUser
            /\ Id(messages'[i]) = <<q, "assistant">> => chat'[q].step \in HasBubble
      BY DEF SessionSound, Once, Onward
    <2> QED BY <2>1, <2>2 DEF Once, Id
  <1>5. TextsOf(messages') \subseteq TextsOf(messages) \union {text}
    BY <1>1, TextsByPlace
  <1>6. Fresh'
    BY <1>5, FreshKept DEF SessionSound
  <1>7. Gone'
    <2>1. TextsOf(messages') \union Asked' \union {Blank}
            \subseteq TextsOf(messages) \union Asked \union {Blank, text}
      BY <1>5
    <2>2. (TextsOf(messages') \union Asked' \union {Blank}) \intersect seen'.deleted = {}
      BY <2>1 DEF SessionSound, Gone
    <2> QED BY <2>2 DEF SessionSound, Gone, TextsOf, Blank
  <1>8. Pending'
    BY DEF SessionSound, Pending
  <1> QED BY <1>3, <1>4, <1>6, <1>7, <1>8 DEF SessionSound

LEMMA PersistSound ==
  ASSUME SessionSound, NEW r \in Requests, Persist(r)
  PROVE  SessionSound'
  <1>1. chat[r] \in Tasks /\ chat[r].step = "persist" /\ messages \in Seq(Rows)
    BY DEF Persist, SessionSound, Typed
  <1>2. /\ chat' \in [Requests -> Tasks] /\ \A q \in Requests \ {r} : chat'[q] = chat[q]
        /\ chat'[r].step = "finish"
        /\ chat'[r].text = chat[r].text /\ chat'[r].agent = chat[r].agent
    BY <1>1 DEF Persist, SessionSound, Typed, Tasks, Steps
  <1>3. /\ Onward /\ Asked' \subseteq Asked
        /\ \A q \in Requests : Running(q)' => chat'[q].agent \in Agents
    BY <1>1, <1>2, TaskMoved DEF SessionSound, HasUser, HasBubble, HasAnswered, Running
  <1>4. Answer(r) \notin seen.deleted
    BY <1>1 DEF SessionSound, Fresh, HasAnswered
  <1>5. Answer(r) \in News /\ Answer(r) \in Texts
    BY <1>2, TextFacts DEF News, HasAnswered, Asking
  <1>6. /\ messages' \in Seq(Rows) /\ Len(messages') = Len(messages)
        /\ \A i \in 1..Len(messages) :
             /\ Id(messages'[i]) = Id(messages[i])
             /\ messages'[i].text \in {messages[i].text, Answer(r)}
    <2>1. CASE UNCHANGED messages
      BY <1>1, <2>1
    <2>2. CASE messages' = [i \in DOMAIN messages |->
                              IF Id(messages[i]) = <<r, "assistant">>
                              THEN [messages[i] EXCEPT !.text = Answer(r)]
                              ELSE messages[i]]
      <3>1. DOMAIN messages = 1..Len(messages) /\ Len(messages) \in Nat
        BY <1>1
      <3>2. ASSUME NEW i \in 1..Len(messages)
            PROVE  /\ messages'[i] \in Rows /\ Id(messages'[i]) = Id(messages[i])
                   /\ messages'[i].text \in {messages[i].text, Answer(r)}
        <4>1. messages[i] \in Rows
          BY <1>1
        <4>2. messages'[i] = messages[i] \/ messages'[i] = [messages[i] EXCEPT !.text = Answer(r)]
          BY <2>2, <3>1
        <4> QED BY <1>5, <4>1, <4>2 DEF Rows, Id
      <3>3. messages' \in [1..Len(messages) -> Rows]
        BY <2>2, <3>1, <3>2
      <3>4. messages' \in Seq(Rows) /\ Len(messages') = Len(messages)
        BY <3>1, <3>3
      <3> QED BY <3>2, <3>4
    <2> QED BY <2>1, <2>2 DEF Persist
  <1> QED BY <1>2, <1>3, <1>4, <1>5, <1>6, MessagesRewritten DEF Persist

\* A request begins with a text that is stored, or with its own question.
LEMMA BeginSound ==
  ASSUME SessionSound, NEW r \in Requests,
         NEW asked \in Agents, NEW bound \in BOOLEAN, NEW skip \in BOOLEAN,
         Begin(r, asked, bound, skip)
  PROVE  SessionSound'
  <1> DEFINE agent == IF bound \/ row = None THEN asked
                      ELSE IF row.active = None THEN asked ELSE row.active
  <1>1. PICK text \in TextsOf(messages) \union {Question(r)} :
          /\ row' = IF row = None THEN [active |-> agent, thread |-> None] ELSE row
          /\ chat' = [chat EXCEPT ![r] =
               [Idle EXCEPT !.step = "look", !.agent = agent, !.skip = skip, !.text = text]]
          /\ change' = IF change = None THEN None
                       ELSE [change EXCEPT !.asked = @ \union {text}]
    <2> DEFINE choice == IF skip THEN {m.text : m \in {n \in Range(messages) : n.role = "user"}}
                         ELSE {Question(r)}
    <2>1. choice \subseteq TextsOf(messages) \union {Question(r)}
      BY DEF TextsOf
    <2>2. \E text \in choice :
            /\ row' = IF row = None THEN [active |-> agent, thread |-> None] ELSE row
            /\ chat' = [chat EXCEPT ![r] =
                 [Idle EXCEPT !.step = "look", !.agent = agent, !.skip = skip, !.text = text]]
            /\ change' = IF change = None THEN None
                         ELSE [change EXCEPT !.asked = @ \union {text}]
      BY Zenon DEF Begin
    <2> HIDE DEF choice, agent
    <2> QED BY <2>1, <2>2
  <1>2. /\ chat[r].step = "idle" /\ UNCHANGED <<messages, seen>>
        /\ messages \in Seq(Rows) /\ r \in Asking
    BY DEF Begin, SessionSound, Typed, Asking
  <1>3. agent \in Agents
    BY DEF SessionSound, Typed, Sessions
  <1> HIDE DEF agent
  <1>4. text \in Texts
    <2>1. \A i \in 1..Len(messages) : messages[i].text \in Texts
      <3> SUFFICES ASSUME NEW i \in 1..Len(messages)
                   PROVE  messages[i].text \in Texts
        OBVIOUS
      <3>1. messages[i] \in Rows
        BY <1>2
      <3> QED BY <3>1 DEF Rows
    <2>2. TextsOf(messages) \subseteq Texts
      BY <1>2, <2>1, TextsByPlace
    <2> QED BY <1>2, <2>2, TextFacts
  <1>5. /\ chat' \in [Requests -> Tasks] /\ \A q \in Requests \ {r} : chat'[q] = chat[q]
        /\ chat'[r].step = "look" /\ chat'[r].agent = agent /\ chat'[r].text = text
    <2>1. <<>> \in Seq(Texts)
      OBVIOUS
    <2>2. PICK t : /\ t = [Idle EXCEPT !.step = "look", !.agent = agent, !.skip = skip,
                                       !.text = text]
                   /\ chat' = [chat EXCEPT ![r] = t]
      BY <1>1
    <2>3. t = [step |-> "look", ended |-> "no", agent |-> agent, skip |-> skip,
               text |-> text, context |-> <<>>]
      BY <2>2 DEF Idle
    <2>4. t \in Tasks /\ t.step = "look" /\ t.agent = agent /\ t.text = text
      BY <1>3, <1>4, <2>1, <2>3 DEF Tasks, Steps
    <2> QED BY <2>2, <2>4 DEF SessionSound, Typed
  <1>6. Asked' \subseteq Asked \union {text}
    BY <1>5 DEF Asked, Running
  <1>7. Onward
    BY <1>2, <1>5 DEF Onward, HasUser, HasBubble, HasAnswered
  <1>8. Typed'
    <2>1. row' \in Sessions \union {None}
      BY <1>1, <1>3 DEF SessionSound, Typed, Sessions
    <2>2. row' = None => row = None
      BY <1>1, <1>3, NoneIsNoRow DEF Sessions
    <2>3. \A q \in Requests : Running(q)' => chat'[q].agent \in Agents
      BY <1>3, <1>5 DEF SessionSound, Typed, Running
    <2> QED BY <1>2, <1>5, <2>1, <2>2, <2>3 DEF SessionSound, Typed
  <1>9. Once'
    BY <1>2, <1>7 DEF SessionSound, Once, Onward, Id
  <1>10. text \notin seen.deleted /\ text \in TextsOf(messages) \union News
    BY <1>2, <1>5 DEF SessionSound, Gone, Fresh, News
  <1>11. Fresh'
    BY <1>2, <1>6, <1>7, <1>10, FreshKept DEF SessionSound
  <1>12. row' # None /\ row'.thread # None => row # None /\ row' = row
    BY <1>1
  <1>13. Gone'
    BY <1>2, <1>6, <1>10, <1>12 DEF SessionSound, Gone, TextsOf, Blank
  <1>14. Pending'
    BY <1>1, <1>6, <1>12 DEF SessionSound, Pending
  <1> QED BY <1>8, <1>9, <1>11, <1>13, <1>14 DEF SessionSound

\* Nothing is stored, and what is deleted is not being asked.
LEMMA MessagesRemoved ==
  ASSUME SessionSound, chat' = chat, messages' \in Seq(Rows),
         \E f \in [1..Len(messages') -> 1..Len(messages)] :
           /\ \A m, n \in 1..Len(messages') : f[m] = f[n] => m = n
           /\ \A n \in 1..Len(messages') : messages'[n] = messages[f[n]],
         "deleted" \in DOMAIN seen', seen' = [f \in DOMAIN seen' |-> seen'[f]],
         seen'.deleted \subseteq
           seen.deleted \union (TextsOf(messages) \ (TextsOf(messages') \union Asked \union {Blank})),
         row' \in Sessions \union {None}, row' = None => messages' = <<>>,
         row' # None /\ row'.thread # None => row'.thread.text \notin seen'.deleted,
         Pending'
  PROVE  SessionSound'
  <1>1. PICK f \in [1..Len(messages') -> 1..Len(messages)] :
          /\ \A m, n \in 1..Len(messages') : f[m] = f[n] => m = n
          /\ \A n \in 1..Len(messages') : messages'[n] = messages[f[n]]
    OBVIOUS
  <1>2. messages \in Seq(Rows) /\ Asked' = Asked /\ \A q : Running(q)' <=> Running(q)
    BY DEF SessionSound, Typed, Asked, Running
  <1>3. Typed'
    BY <1>2 DEF SessionSound, Typed
  <1>4. \A n \in 1..Len(messages') : f[n] \in 1..Len(messages)
    BY <1>1
  <1>5. Once'
    <2>1. \A i, j \in 1..Len(messages') : Id(messages'[i]) = Id(messages'[j]) => i = j
      BY <1>1, <1>4 DEF SessionSound, Once
    <2>2. \A q \in Requests, i \in 1..Len(messages') :
            /\ Id(messages'[i]) = <<q, "user">> => chat'[q].step \in HasUser
            /\ Id(messages'[i]) = <<q, "assistant">> => chat'[q].step \in HasBubble
      BY <1>1, <1>4 DEF SessionSound, Once
    <2> QED BY <2>1, <2>2 DEF Once, Id
  <1>6. TextsOf(messages') \subseteq TextsOf(messages)
    BY <1>1, <1>2, <1>4, TextsByPlace
  <1>7. Fresh'
    <2>1. Onward
      BY DEF Onward
    <2> QED BY <1>2, <1>6, <2>1, FreshKept DEF SessionSound
  <1>8. Gone'
    <2>1. (TextsOf(messages') \union Asked' \union {Blank}) \intersect seen'.deleted = {}
      BY <1>2, <1>6 DEF SessionSound, Gone
    <2> QED BY <2>1 DEF Gone, TextsOf, Blank
  <1> QED BY <1>3, <1>5, <1>7, <1>8 DEF SessionSound

LEMMA StartDeleteSound ==
  ASSUME SessionSound, NEW ids, StartDelete(ids)
  PROVE  SessionSound'
  <1>1. /\ UNCHANGED <<row, messages, chat, seen>>
        /\ change' = [ids |-> ids, resets |-> row # None /\ row.thread # None, asked |-> Asked]
        /\ Asked' = Asked
    BY DEF StartDelete, Asked, Running
  <1>2. Typed' /\ Once'
    BY <1>1 DEF SessionSound, Typed, Once, Running, Id
  <1>3. Fresh'
    BY <1>1 DEF SessionSound, Fresh, TextsOf, Question, Answer
  <1>4. Gone'
    BY <1>1 DEF SessionSound, Gone, TextsOf, Blank
  <1>5. Pending'
    BY <1>1 DEF Pending
  <1> QED BY <1>2, <1>3, <1>4, <1>5 DEF SessionSound

LEMMA CommitDeleteSound ==
  ASSUME SessionSound, CommitDelete
  PROVE  SessionSound'
  <1>1. /\ change # None /\ chat' = chat /\ change' = None
        /\ messages' = Without(change.ids) /\ row' = ThreadReset(row, change.resets)
        /\ messages \in Seq(Rows) /\ row \in Sessions \union {None}
    BY DEF CommitDelete, SessionSound, Typed
  <1>2. /\ messages' \in Seq(Rows)
        /\ \E f \in [1..Len(messages') -> 1..Len(messages)] :
             /\ \A m, n \in 1..Len(messages') : f[m] = f[n] => m = n
             /\ \A n \in 1..Len(messages') : messages'[n] = messages[f[n]]
    <2> DEFINE w == Without(change.ids)
    <2>1. /\ w \in Seq(Rows)
          /\ \E f \in [1..Len(w) -> 1..Len(messages)] :
               /\ \A m, n \in 1..Len(w) : f[m] = f[n] => m = n
               /\ \A n \in 1..Len(w) : w[n] = messages[f[n]]
      BY <1>1, LeftWereThere
    <2>2. messages' = w
      BY <1>1
    <2> HIDE DEF w
    <2> QED BY <2>1, <2>2
  <1>3. /\ "deleted" \in DOMAIN seen' /\ seen' = [f \in DOMAIN seen' |-> seen'[f]]
        /\ seen'.deleted = seen.deleted \union
             (TextsOf(messages) \ (TextsOf(messages') \union change.asked \union {Blank}))
    BY DEF CommitDelete, SessionSound, Gone
  <1>4. Asked \subseteq change.asked
    BY <1>1 DEF SessionSound, Pending
  <1>5. row' \in Sessions \union {None} /\ (row' = None <=> row = None)
    BY <1>1, NoneIsNoRow DEF ThreadReset, Sessions
  <1>6. row' = None => messages' = <<>>
    <2> SUFFICES ASSUME row' = None PROVE messages' = <<>>
      OBVIOUS
    <2>1. messages = <<>>
      BY <1>5 DEF SessionSound, Typed
    <2>2. 1..Len(messages) = {}
      BY <2>1
    <2>3. Len(messages') \in Nat /\ 1..Len(messages') = {}
      BY <1>2, <2>2
    <2> QED BY <1>2, <2>3
  <1>7. row' # None /\ row'.thread # None => row'.thread.text \notin seen'.deleted
    <2> SUFFICES ASSUME row' # None, row'.thread # None
                 PROVE  row'.thread.text \notin seen'.deleted
      OBVIOUS
    <2>1. row # None /\ row' = row /\ ~change.resets
      BY <1>1, <1>5 DEF ThreadReset, Sessions
    <2>2. row.thread.text \in change.asked /\ row.thread.text \notin seen.deleted
      BY <1>1, <2>1 DEF SessionSound, Pending, Gone
    <2> QED BY <1>3, <2>1, <2>2
  <1>8. Pending'
    BY <1>1 DEF Pending
  <1> QED BY <1>1, <1>2, <1>3, <1>4, <1>5, <1>6, <1>7, <1>8, MessagesRemoved

LEMMA ClearSound ==
  ASSUME SessionSound, Clear \/ DeleteSession
  PROVE  SessionSound'
  <1>1. /\ chat' = chat /\ change' = change /\ messages' = <<>>
        /\ row' \in {row, None} /\ row \in Sessions \union {None}
    BY DEF Clear, DeleteSession, SessionSound, Typed
  <1>2. /\ messages' \in Seq(Rows) /\ 1..Len(messages') = {}
        /\ [n \in {} |-> 1] \in [1..Len(messages') -> 1..Len(messages)]
    BY <1>1
  <1>3. /\ "deleted" \in DOMAIN seen' /\ seen' = [f \in DOMAIN seen' |-> seen'[f]]
        /\ seen'.deleted \subseteq seen.deleted \union (TextsOf(messages) \ (Asked \union {Blank}))
        /\ row' # None => seen'.deleted = seen.deleted
    BY DEF Clear, DeleteSession, SessionSound, Gone
  <1>4. TextsOf(messages') = {}
    BY <1>1 DEF TextsOf, Range
  <1>5. row' # None => row' = row
    BY <1>1
  <1>6. row' # None /\ row'.thread # None => row'.thread.text \notin seen'.deleted
    BY <1>3, <1>5 DEF SessionSound, Gone
  <1>7. Pending'
    BY <1>1, <1>5 DEF SessionSound, Pending, Asked, Running
  <1> QED BY <1>1, <1>2, <1>3, <1>4, <1>6, <1>7, MessagesRemoved

LEMMA UpdateMessageSound ==
  ASSUME SessionSound, UpdateMessage
  PROVE  SessionSound'
  <1>1. PICK i \in DOMAIN messages : messages' = [messages EXCEPT ![i].text = Revised]
    BY DEF UpdateMessage
  <1>2. /\ UNCHANGED <<row, chat, change, seen>> /\ Revised \notin seen.deleted
        /\ messages \in Seq(Rows) /\ chat \in [Requests -> Tasks]
    BY DEF UpdateMessage, SessionSound, Typed
  <1>3. DOMAIN messages = 1..Len(messages) /\ Len(messages) \in Nat
    BY <1>2
  <1>4. ASSUME NEW j \in 1..Len(messages)
        PROVE  /\ messages'[j] \in Rows /\ Id(messages'[j]) = Id(messages[j])
               /\ messages'[j].text \in {messages[j].text, Revised}
    <2>1. messages[j] \in Rows
      BY <1>2
    <2>2. messages'[j] = messages[j] \/ messages'[j] = [messages[j] EXCEPT !.text = Revised]
      BY <1>1, <1>3
    <2> QED BY <2>1, <2>2, TextFacts DEF Rows, Id
  <1>5. messages' \in Seq(Rows) /\ Len(messages') = Len(messages)
    <2>1. messages' \in [1..Len(messages) -> Rows]
      BY <1>1, <1>3, <1>4
    <2> QED BY <1>3, <2>1
  <1>6. /\ Asked' \subseteq Asked /\ Onward
        /\ \A q \in Requests : Running(q)' => chat'[q].agent \in Agents
    BY <1>2 DEF Asked, Running, Onward, SessionSound, Typed
  <1> QED BY <1>2, <1>4, <1>5, <1>6, TextFacts, MessagesRewritten DEF News

LEMMA SwitchSound ==
  ASSUME SessionSound, NEW a \in Agents, SwitchAgent(a)
  PROVE  SessionSound'
  <1>1. /\ row # None /\ row' = [row EXCEPT !.active = a]
        /\ UNCHANGED <<messages, chat, change, seen>> /\ row \in Sessions
        /\ chat \in [Requests -> Tasks]
    BY DEF SwitchAgent, SessionSound, Typed
  <1>2. row' \in Sessions /\ row'.thread = row.thread
    BY <1>1 DEF Sessions
  <1>3. /\ Asked' \subseteq Asked /\ Onward
        /\ \A q \in Requests : Running(q)' => chat'[q].agent \in Agents
    BY <1>1 DEF Asked, Running, Onward, SessionSound, Typed
  <1> QED BY <1>1, <1>2, <1>3, NothingStored, NoneIsNoRow

LEMMA InitSessionSound ==
  ASSUME Init
  PROVE  SessionSound
  <1> DEFINE talked == <<Message(Earlier, "user", Question(Earlier)),
                         Message(Earlier, "assistant", Answer(Earlier))>>
  <1>1. Idle \in Tasks /\ Idle.step = "idle"
    <2>1. Blank \in Texts /\ <<>> \in Seq(Texts)
      BY TextFacts
    <2> QED BY <2>1 DEF Idle, Tasks, Steps
  <1>2. chat \in [Requests -> Tasks] /\ \A r \in Requests : chat[r].step = "idle"
    BY <1>1 DEF Init
  <1>3. Asked = {} /\ \A r \in Requests : ~Running(r)
    BY <1>2 DEF Asked, Running
  <1>4. /\ talked \in Seq(Rows) /\ Len(talked) = 2
        /\ Id(talked[1]) = <<Earlier, "user">> /\ Id(talked[2]) = <<Earlier, "assistant">>
        /\ talked[1].text = Question(Earlier) /\ talked[2].text = Answer(Earlier)
    <2>1. /\ Message(Earlier, "user", Question(Earlier)) \in Rows
          /\ Message(Earlier, "assistant", Answer(Earlier)) \in Rows
      BY TextFacts DEF Message, Rows, Asking
    <2>2. talked \in Seq(Rows)
      BY <2>1, PairIsSequence
    <2> QED BY <2>2 DEF Message, Id
  <1>5. messages = <<>> \/ messages = talked
    BY DEF Init
  <1> HIDE DEF talked
  <1>6. messages \in Seq(Rows) /\ \A i \in 1..Len(messages) : messages = talked /\ i \in {1, 2}
    <2>1. CASE messages = <<>>
      <3>1. <<>> \in Seq(Rows) /\ 1..Len(<<>>) = {}
        OBVIOUS
      <3> QED BY <2>1, <3>1
    <2>2. CASE messages = talked
      BY <1>4, <2>2
    <2> QED BY <1>5, <2>1, <2>2
  <1>7. /\ row \in Sessions \union {None} /\ (row = None => messages = <<>>)
    <2>1. CASE "talked" \in Starts /\ \E a \in Agents, thread \in
                   [agent : Agents, text : {Question(Earlier)}] \union {None} :
                   row = [active |-> a, thread |-> thread]
      <3>1. Question(Earlier) \in Texts
        BY TextFacts DEF Asking
      <3>2. row \in Sessions
        BY <2>1, <3>1 DEF Sessions
      <3> QED BY <3>2, NoneIsNoRow
    <2>2. CASE "new" \in Starts /\ row = [active |-> None, thread |-> None]
      <3>1. row \in Sessions
        BY <2>2 DEF Sessions
      <3> QED BY <3>1, NoneIsNoRow
    <2>3. CASE row = None /\ messages = <<>>
      BY <2>3
    <2> QED BY <2>1, <2>2, <2>3 DEF Init
  <1>8. Once
    <2>1. \A i, j \in 1..Len(messages) : Id(messages[i]) = Id(messages[j]) => i = j
      BY <1>4, <1>6
    <2>2. \A r \in Requests, i \in 1..Len(messages) :
            Id(messages[i]) \notin {<<r, "user">>, <<r, "assistant">>}
      BY <1>4, <1>6, ChatAssumption
    <2> QED BY <2>1, <2>2 DEF Once
  <1>9. TextsOf(messages) \subseteq {Question(Earlier), Answer(Earlier)}
    BY <1>4, <1>6, TextsByPlace
  <1>10. Fresh
    BY <1>3, <1>9, TextFacts, ChatAssumption DEF Init, Fresh
  <1>11. Gone /\ Pending
    BY DEF Init, Gone, Pending
  <1> QED BY <1>2, <1>3, <1>6, <1>7, <1>8, <1>10, <1>11 DEF SessionSound, Typed

LEMMA StepSessionSound ==
  ASSUME SessionSound, [Next]_vars
  PROVE  SessionSound'
  <1> DEFINE Idles == UNCHANGED <<row, messages, chat, change, seen>>
  <1>1. ASSUME Idles
        PROVE  SessionSound'
    <2>1. /\ Asked' \subseteq Asked /\ Onward /\ chat' \in [Requests -> Tasks]
          /\ \A q \in Requests : Running(q)' => chat'[q].agent \in Agents
          /\ row' \in Sessions \union {None}
      BY <1>1 DEF Asked, Running, Onward, SessionSound, Typed
    <2> QED BY <1>1, <2>1, NothingStored
  <1>2. ASSUME NEW r \in Requests, Forward(r) \/ Leave(r)
        PROVE  Idles
    BY <1>2 DEF Forward, Leave
  <1>3. ASSUME NEW r \in Requests, CleanUp(r)
        PROVE  SessionSound'
    <2>1. CASE Stop(r, "cancelled")
      BY <1>3, <2>1, StopSound DEF CleanUp
    <2>2. CASE UNCHANGED chat
      BY <1>1, <1>3, <2>2 DEF CleanUp
    <2> QED BY <1>3, <2>1, <2>2 DEF CleanUp, CancelGraph
  <1>4. ASSUME NEW r \in Requests, Finish(r) \/ Fail(r)
        PROVE  SessionSound'
    BY <1>4, StopSound DEF Finish, Fail
  <1>5. ASSUME NEW r \in Requests, Graph(r)
        PROVE  SessionSound'
    BY <1>4, <1>5, LookUpSound, SaveCheckpointSound, BuildContextSound, SaveSound, SpeakSound,
       PersistSound DEF Graph
  <1>6. CASE User
    BY <1>6, StartDeleteSound, CommitDeleteSound, ClearSound, UpdateMessageSound, SwitchSound
    DEF User, DeleteMessage, Truncate
  <1>7. CASE UNCHANGED vars
    BY <1>1, <1>7 DEF vars
  <1> HIDE DEF Idles
  <1> QED BY <1>1, <1>2, <1>3, <1>4, <1>5, <1>6, <1>7, BeginSound DEF Next

-----------------------------------------------------------------------------
(* The theorems.                                                           *)

LEMMA InitBridged ==
  ASSUME Init
  PROVE  Bridged
  BY DEF Init, Idle, Bridged, Shape, Bridge, Begun, SentinelIsLast, SentWhileReading,
         ToldWhenOver, Raised, Sent

LEMMA StepBridged ==
  ASSUME Bridged, [Next]_vars
  PROVE  Bridged'
  <1>1. CASE User \/ UNCHANGED vars
    <2>1. UNCHANGED <<chat, queue, reader, got>>
      BY <1>1, UserStep DEF vars
    <2> QED BY <2>1, Untouched DEF Bridged, Shape
  <1>2. ASSUME NEW r \in Requests, Acts(r)
        PROVE  Bridged'
    <2>1. Bridge(r)'
      BY <1>2, BeginBridged, BuildingBridged, SpeakBridged, PersistBridged, FinishBridged,
         FailBridged, ForwardBridged, LeaveBridged, CleanUpBridged
      DEF Bridged, Acts, Graph
    <2>2. \A q \in Requests \ {r} : Bridge(q)'
      BY <1>2, Elsewhere, Untouched DEF Bridged
    <2> QED BY <1>2, <2>1, <2>2, Elsewhere DEF Bridged
  <1> QED BY <1>1, <1>2 DEF Next, Acts

-----------------------------------------------------------------------------
(* What the session holds was streamed first.                              *)

Streamed(r) ==
  /\ reader[r] = "reading" /\ (chat[r].step = "persist" \/ AnswerStored(r)) =>
       Sent(r, "content")
  /\ reader[r] = "over" /\ "[DONE]" \in Range(got[r]) /\ AnswerStored(r) =>
       "content" \in Range(got[r])

\* Only the graph of r writes its answer into its bubble.
LEMMA AnswerStoredBy ==
  ASSUME SessionSound, [Next]_vars, NEW r \in Requests, AnswerStored(r)'
  PROVE  AnswerStored(r) \/ Persist(r)
  <1> DEFINE answer == Message(r, "assistant", Answer(r))
  <1>1. /\ messages \in Seq(Rows) /\ DOMAIN messages = 1..Len(messages)
        /\ answer \in Range(messages')
        /\ Id(answer) = <<r, "assistant">> /\ answer.text = Answer(r)
    BY DEF SessionSound, Typed, AnswerStored, Message, Id, Answer
  <1>2. ASSUME NEW ms, ms = messages', NEW n \in DOMAIN ms,
               ms[n] = answer, n \in DOMAIN messages, messages[n] = answer
        PROVE  AnswerStored(r)
    BY <1>2 DEF AnswerStored, Range
  <1>3. CASE UNCHANGED messages
    BY <1>3 DEF AnswerStored
  <1>4. CASE CommitDelete
    <2> DEFINE left == Without(change.ids)
    <2>1. /\ left \in Seq(Rows)
          /\ \A n \in 1..Len(left) : \E i \in 1..Len(messages) : left[n] = messages[i]
      BY <1>1, LeftWereThere
    <2>2. messages' = left
      BY <1>4 DEF CommitDelete
    <2> HIDE DEF left
    <2>3. DOMAIN left = 1..Len(left)
      BY <2>1
    <2> QED BY <1>1, <2>1, <2>2, <2>3 DEF AnswerStored, Range
  <1>5. CASE UpdateMessage
    <2>1. PICK i \in DOMAIN messages : messages' = [messages EXCEPT ![i].text = Revised]
      BY <1>5 DEF UpdateMessage
    <2>2. PICK n \in DOMAIN messages : messages'[n] = answer
      BY <1>1, <2>1 DEF Range
    <2>3. CASE n = i
      <3>1. messages[i] \in Rows /\ messages'[i] = [messages[i] EXCEPT !.text = Revised]
        BY <1>1, <2>1
      <3>2. messages'[i].text = Revised
        BY <3>1 DEF Rows
      <3> QED BY <1>1, <2>2, <2>3, <3>2, TextFacts
    <2>4. CASE n # i
      <3>1. messages'[n] = messages[n]
        BY <2>1, <2>4
      <3> QED BY <2>2, <3>1 DEF AnswerStored, Range
    <2> QED BY <2>3, <2>4
  <1>6. CASE Clear \/ DeleteSession
    <2>1. messages' = <<>>
      BY <1>6 DEF Clear, DeleteSession
    <2>2. Range(<<>>) = {}
      BY DEF Range
    <2> QED BY <1>1, <2>1, <2>2
  <1>7. ASSUME NEW q \in Requests, SaveUser(q) \/ SaveBubble(q)
        PROVE  AnswerStored(r)
    <2>1. PICK m : /\ m \in {Message(q, "user", chat[q].text), Message(q, "assistant", Blank)}
                   /\ messages' = Append(messages, m)
      BY <1>7 DEF SaveUser, SaveBubble, Insert
    <2>2. m \in Rows
      <3>1. chat[q].text \in Texts /\ q \in Asking
        BY DEF SessionSound, Typed, Tasks, Asking
      <3> QED BY <2>1, <3>1, TextFacts DEF Message, Rows
    <2>3. Range(messages') = Range(messages) \union {m}
      BY <1>1, <2>1, <2>2, RangeAppend
    <2>4. m # answer
      BY <2>1, TextFacts DEF Message
    <2> QED BY <1>1, <2>3, <2>4 DEF AnswerStored
  <1>8. ASSUME NEW q \in Requests, Persist(q), q # r
        PROVE  AnswerStored(r)
    <2>1. CASE UNCHANGED messages
      BY <1>1, <2>1 DEF AnswerStored
    <2>2. CASE messages' = [i \in DOMAIN messages |->
                              IF Id(messages[i]) = <<q, "assistant">>
                              THEN [messages[i] EXCEPT !.text = Answer(q)]
                              ELSE messages[i]]
      <3>1. PICK n \in DOMAIN messages : messages'[n] = answer
        BY <1>1, <2>2 DEF Range
      <3>2. CASE Id(messages[n]) = <<q, "assistant">>
        <4>1. /\ messages[n] \in Rows
              /\ messages'[n] = [messages[n] EXCEPT !.text = Answer(q)]
          BY <1>1, <2>2, <3>2
        <4>2. messages'[n].text = Answer(q)
          BY <4>1 DEF Rows
        <4> QED BY <1>1, <1>8, <3>1, <4>2, TextFacts
      <3>3. CASE Id(messages[n]) # <<q, "assistant">>
        <4>1. messages'[n] = messages[n]
          BY <2>2, <3>3
        <4> QED BY <3>1, <4>1 DEF AnswerStored, Range
      <3> QED BY <3>2, <3>3
    <2> QED BY <1>8, <2>1, <2>2 DEF Persist
  <1>9. \/ UNCHANGED messages
        \/ CommitDelete \/ UpdateMessage \/ Clear \/ DeleteSession
        \/ \E q \in Requests : SaveUser(q) \/ SaveBubble(q) \/ Persist(q)
    BY DEF Next, vars, User, DeleteMessage, Truncate, StartDelete, SwitchAgent, Begin, Graph,
           LookUp, SaveCheckpoint, BuildContext, Speak, Finish, Fail, Forward, Leave, CleanUp
  <1> QED BY <1>3, <1>4, <1>5, <1>6, <1>7, <1>8, <1>9

LEMMA InitStreamed ==
  ASSUME Init
  PROVE  \A r \in Requests : Streamed(r)
  BY DEF Init, Streamed

\* What was sent stays so until the response is over.
LEMMA StepStreamed ==
  ASSUME Bridged, SessionSound, \A r \in Requests : Streamed(r), [Next]_vars
  PROVE  \A r \in Requests : Streamed(r)'
  <1> SUFFICES ASSUME NEW r \in Requests PROVE Streamed(r)'
    OBVIOUS
  <1>1. /\ Shape /\ Bridge(r) /\ Streamed(r)
        /\ AnswerStored(r)' => AnswerStored(r) \/ Persist(r)
    BY AnswerStoredBy DEF Bridged
  <1>2. AnswerStored(r) => chat[r].step \in HasAnswered
    <2>1. SessionSound /\ messages \in Seq(Rows)
      BY DEF SessionSound, Typed
    <2>2. AnswerStored(r) => Answer(r) \in TextsOf(messages)
      BY DEF AnswerStored, TextsOf, Message
    <2> QED BY <2>1, <2>2 DEF SessionSound, Fresh
  <1>3. ASSUME UNCHANGED <<queue[r], got[r], reader[r]>>, ~Persist(r),
               chat'[r].step = "persist" => chat[r].step = "persist"
        PROVE  Streamed(r)'
    BY <1>1, <1>3 DEF Streamed, Sent
  <1>4. CASE Persist(r)
    <2>1. /\ chat[r].step = "persist" /\ chat'[r].step = "finish"
          /\ UNCHANGED <<queue, got, reader>>
      BY <1>1, <1>4 DEF Persist, Shape
    <2>2. reader[r] # "over"
      BY <1>1, <2>1 DEF Bridge, ToldWhenOver
    <2> QED BY <1>1, <2>1, <2>2 DEF Streamed, Sent
  <1>5. CASE User \/ UNCHANGED vars
    <2>1. UNCHANGED <<chat, queue, got, reader>>
      BY <1>5, UserStep DEF vars
    <2> QED BY <1>1, <1>3, <1>4, <2>1
  <1>6. ASSUME NEW q \in Requests \ {r}, Acts(q)
        PROVE  Streamed(r)'
    <2>1. /\ chat'[r] = chat[r]
          /\ UNCHANGED <<queue[r], got[r], reader[r]>>
      BY <1>1, <1>6, Elsewhere
    <2> QED BY <1>3, <1>4, <2>1
  <1>7. ASSUME NEW asked \in Agents, NEW bound \in BOOLEAN, NEW skip \in BOOLEAN,
               Begin(r, asked, bound, skip)
        PROVE  Streamed(r)'
    <2>1. /\ chat[r].step = "idle" /\ chat'[r].step = "look" /\ reader'[r] = "reading"
      BY <1>1, <1>7 DEF Shape, Begin, Idle
    <2>2. ~AnswerStored(r)'
      BY <1>1, <1>2, <2>1 DEF HasAnswered, Persist
    <2> QED BY <2>1, <2>2 DEF Streamed
  <1>8. CASE LookUp(r) \/ SaveCheckpoint(r) \/ BuildContext(r) \/ SaveUser(r) \/ SaveBubble(r)
    <2>1. /\ UNCHANGED <<queue, got, reader>>
          /\ chat[r].step \in {"look", "checkpoint", "history", "user", "bubble"}
      BY <1>8 DEF LookUp, SaveCheckpoint, BuildContext, SaveUser, SaveBubble
    <2>2. chat'[r].step # "persist"
      <3>1. CASE LookUp(r) \/ SaveCheckpoint(r)
        BY <1>1, <3>1 DEF Shape, LookUp, SaveCheckpoint, Saving
      <3>2. CASE BuildContext(r)
        BY <1>1, <3>2, ContextEffect
      <3>3. CASE SaveUser(r) \/ SaveBubble(r)
        BY <1>1, <3>3 DEF Shape, SaveUser, SaveBubble
      <3> QED BY <1>8, <3>1, <3>2, <3>3
    <2> QED BY <1>3, <1>4, <2>1, <2>2
  <1>9. CASE Speak(r)
    <2>1. PICK events \in Streams :
            /\ chat[r].step = "speak" /\ queue'[r] = queue[r] \o events
            /\ chat'[r].step = "persist" => "content" \in Range(events)
            /\ UNCHANGED <<got, reader>>
      BY <1>1, <1>9 DEF Shape, Speak, Emitted
    <2>2. queue[r] \in Seq(Events) /\ events \in Seq(Events)
      <3>1. Seq({"content", "fault"}) \subseteq Seq(Events)
        BY DEF Events
      <3> QED BY <1>1, <3>1, StreamedText DEF Bridge
    <2>3. Range(queue'[r]) = Range(queue[r]) \union Range(events)
      BY <2>1, <2>2, RangeConcat
    <2>4. ~AnswerStored(r)'
      BY <1>1, <1>2, <2>1 DEF HasAnswered, Persist
    <2> QED BY <2>1, <2>3, <2>4 DEF Streamed, Sent
  <1>10. CASE Finish(r) \/ Fail(r)
    <2>1. PICK last \in Seq(Events) :
            /\ queue'[r] = queue[r] \o last /\ UNCHANGED <<got, reader>>
            /\ chat'[r].step = "stopped" /\ Running(r)
      <3>1. queue[r] \in Seq(Events)
        BY <1>1 DEF Bridge
      <3>2. CASE Finish(r)
        <4>1. queue'[r] = Append(queue[r], "sentinel")
          BY <1>1, <3>2 DEF Shape, Finish, Close
        <4>2. queue'[r] = queue[r] \o <<"sentinel">> /\ <<"sentinel">> \in Seq(Events)
          BY <3>1, <4>1 DEF Events
        <4> QED BY <1>1, <3>2, <4>2, StopEffect DEF Finish, Running
      <3>3. CASE Fail(r)
        <4>1. queue'[r] = Append(Append(queue[r], "error"), "sentinel")
          BY <1>1, <3>3 DEF Shape, Fail, Close, ToldOfFailure
        <4>2. /\ queue'[r] = queue[r] \o <<"error", "sentinel">>
              /\ <<"error", "sentinel">> \in Seq(Events)
          BY <3>1, <4>1 DEF Events
        <4> QED BY <1>1, <3>3, <4>2, StopEffect DEF Fail
      <3> QED BY <1>10, <3>2, <3>3
    <2>2. queue[r] \in Seq(Events) /\ Range(queue'[r]) = Range(queue[r]) \union Range(last)
      BY <1>1, <2>1, RangeConcat DEF Bridge
    <2>3. reader[r] # "over"
      BY <1>1, <2>1 DEF Bridge, ToldWhenOver, Running
    <2>4. ~Persist(r)
      <3>1. CASE Finish(r)
        BY <3>1 DEF Finish, Persist
      <3>2. CASE Fail(r)
        <4>1. Persist(r) => chat'[r].step = "finish"
          BY <1>1 DEF Shape, Persist
        <4> QED BY <2>1, <4>1
      <3> QED BY <1>10, <3>1, <3>2
    <2> QED BY <1>1, <2>1, <2>2, <2>3, <2>4 DEF Streamed, Sent
  <1>11. CASE Forward(r)
    <2>1. /\ reader[r] = "reading" /\ queue[r] # <<>> /\ queue'[r] = Tail(queue[r])
          /\ UNCHANGED <<chat, messages>>
      BY <1>1, <1>11 DEF Shape, Forward
    <2>2. /\ queue[r] \in Seq(Events) /\ got[r] \in Seq(Told)
          /\ Range(queue[r]) = {Head(queue[r])} \union Range(queue'[r])
          /\ Head(queue[r]) \in Events /\ Head(queue[r]) = queue[r][1]
          /\ Len(queue[r]) \in Nat \ {0} /\ Len(Tail(queue[r])) = Len(queue[r]) - 1
      BY <1>1, <2>1, RangeHeadTail, HeadTailProperties DEF Bridge
    <2>3. AnswerStored(r)' => AnswerStored(r)
      BY <2>1 DEF AnswerStored
    <2>4. CASE Head(queue[r]) = "sentinel"
      <3>1. reader'[r] = "over" /\ got'[r] = Append(got[r], "[DONE]")
        BY <1>1, <1>11, <2>4 DEF Shape, Forward
      <3>2. Range(got'[r]) = Range(got[r]) \union {"[DONE]"}
        BY <2>2, <3>1, RangeAppend DEF Told
      <3>3. Range(queue'[r]) = {}
        <4>1. 1 \in 1..Len(queue[r]) /\ queue[r][1] = "sentinel"
          BY <2>2, <2>4
        <4>2. Len(queue[r]) = 1
          BY <1>1, <4>1 DEF Bridge, SentinelIsLast
        <4> QED BY <2>1, <2>2, <4>2 DEF Range
      <3>4. Sent(r, "content") => "content" \in Range(got[r])
        BY <2>2, <2>4, <3>3 DEF Sent
      <3> QED BY <1>1, <2>1, <2>3, <3>1, <3>2, <3>4 DEF Streamed
    <2>5. CASE Head(queue[r]) # "sentinel"
      <3>1. reader'[r] = "reading" /\ got'[r] = Append(got[r], Head(queue[r]))
        BY <1>1, <1>11, <2>1, <2>5 DEF Shape, Forward
      <3>2. Range(got'[r]) = Range(got[r]) \union {Head(queue[r])}
        BY <2>2, <2>5, <3>1, RangeAppend DEF Events, Told
      <3> QED BY <1>1, <2>1, <2>2, <2>3, <3>1, <3>2 DEF Streamed, Sent
    <2> QED BY <2>4, <2>5
  <1>12. CASE Leave(r)
    <2>1. reader'[r] = "left"
      BY <1>1, <1>12 DEF Shape, Leave
    <2> QED BY <2>1 DEF Streamed
  <1>13. CASE CleanUp(r)
    <2>1. reader'[r] = "over" /\ got'[r] = <<>>
      BY <1>1, <1>13 DEF Shape, CleanUp, Bridge
    <2>2. Range(<<>>) = {}
      BY DEF Range
    <2> QED BY <2>1, <2>2 DEF Streamed
  <1> QED BY <1>4, <1>5, <1>6, <1>7, <1>8, <1>9, <1>10, <1>11, <1>12, <1>13
          DEF Next, Acts, Graph

-----------------------------------------------------------------------------
(* What was deleted.                                                       *)

\* What a step builds is not deleted.
LEMMA BuiltOfWhatIsLeft ==
  ASSUME Shape, SessionSound, NEW q \in Requests, chat[q].context = <<>>, [Next]_vars
  PROVE  Range(chat'[q].context) \intersect seen.deleted = {}
  <1> DEFINE Goal == Range(chat'[q].context) \intersect seen.deleted = {}
  <1>1. ASSUME chat'[q].context = <<>>
        PROVE  Goal
    BY <1>1 DEF Range
  <1>2. CASE chat'[q] = chat[q]
    BY <1>1, <1>2
  <1>3. chat[q] \in Tasks /\ DOMAIN chat = Requests
    BY DEF SessionSound, Typed
  <1>4. ASSUME NEW asked \in Agents, NEW bound \in BOOLEAN, NEW skip \in BOOLEAN,
               Begin(q, asked, bound, skip)
        PROVE  Goal
    <2>1. chat'[q].context = <<>>
      BY <1>3, <1>4 DEF Begin, Idle
    <2> QED BY <1>1, <2>1
  <1>5. CASE LookUp(q)
    <2>1. CASE CanResume(q)
      <3>1. chat'[q].context = <<row.thread.text, chat[q].text>>
        BY <1>3, <1>5, <2>1 DEF LookUp, Tasks
      <3>2. Range(<<row.thread.text, chat[q].text>>) = {row.thread.text, chat[q].text}
        BY DEF Range
      <3>3. chat[q].text \in Asked
        BY <1>5 DEF LookUp, Asked, Running
      <3>4. {row.thread.text, chat[q].text} \intersect seen.deleted = {}
        BY <2>1, <3>3 DEF CanResume, SessionSound, Gone
      <3> QED BY <3>1, <3>2, <3>4
    <2>2. CASE ~CanResume(q)
      <3>1. chat'[q].context = <<>>
        BY <1>3, <1>5, <2>2 DEF LookUp, Tasks
      <3> QED BY <1>1, <3>1
    <2> QED BY <2>1, <2>2
  <1>6. CASE BuildContext(q)
    <2>1. PICK context \in Seq(Texts) :
            /\ chat' = [chat EXCEPT ![q].step = Saving(q), ![q].context = context]
            /\ Range(context) \subseteq TextsOf(messages) \union {chat[q].text}
      BY <1>6, ContextMade
    <2>2. chat'[q].context = context
      BY <1>3, <2>1 DEF Tasks
    <2>3. chat[q].text \in Asked
      BY <1>6 DEF BuildContext, Asked, Running
    <2> QED BY <2>1, <2>2, <2>3 DEF SessionSound, Gone
  <1>7. CASE SaveCheckpoint(q) \/ SaveUser(q) \/ SaveBubble(q) \/ Speak(q) \/ Persist(q)
    <2>1. PICK step : chat' = [chat EXCEPT ![q].step = step]
      BY <1>7 DEF SaveCheckpoint, SaveUser, SaveBubble, Speak, Persist
    <2>2. chat'[q].context = <<>>
      BY <1>3, <2>1 DEF Tasks
    <2> QED BY <1>1, <2>2
  <1>8. ASSUME NEW how, Stop(q, how)
        PROVE  Goal
    <2>1. chat'[q].context = <<>>
      BY <1>3, <1>8 DEF Stop, Idle
    <2> QED BY <1>1, <2>1
  <1>9. CASE User \/ UNCHANGED vars
    BY <1>2, <1>9, UserStep DEF vars
  <1>10. ASSUME NEW r \in Requests \ {q}, Acts(r)
         PROVE  Goal
    BY <1>2, <1>10, Elsewhere
  <1>11. CASE Acts(q)
    <2>1. CASE Graph(q) \/ Fail(q)
      BY <1>5, <1>6, <1>7, <1>8, <2>1 DEF Graph, Finish, Fail
    <2>2. CASE Forward(q) \/ Leave(q)
      BY <1>2, <2>2 DEF Forward, Leave
    <2>3. CASE CleanUp(q)
      BY <1>2, <1>8, <2>3 DEF CleanUp, CancelGraph
    <2> QED BY <1>4, <1>11, <2>1, <2>2, <2>3 DEF Acts
  <1> HIDE DEF Goal
  <1>12. Next => User \/ \E r \in Requests : Acts(r)
    BY DEF Next, Acts
  <1> QED BY <1>9, <1>10, <1>11, <1>12 DEF Goal

\* The responses and the user's changes.
Counted ==
  /\ reader \in [Requests -> {"idle", "reading", "left", "over"}]
  /\ changes \in 0..MaxChanges

LEMMA CountedStep ==
  ASSUME Counted, [Next]_vars
  PROVE  Counted'
  <1>1. MaxChanges \in Nat /\ changes \in Nat /\ (changes < MaxChanges => changes + 1 \in 0..MaxChanges)
    BY ChatAssumption DEF Counted
  <1>2. ASSUME User
        PROVE  Counted'
    <2>1. reader' = reader
      BY <1>2, UserStep
    <2>2. changes' = changes \/ (changes < MaxChanges /\ changes' = changes + 1)
      BY <1>2 DEF User, May, DeleteMessage, Truncate, StartDelete, CommitDelete, UpdateMessage,
                  Clear, DeleteSession, SwitchAgent
    <2> QED BY <1>1, <2>1, <2>2 DEF Counted
  <1>3. ASSUME NEW r \in Requests, Acts(r)
        PROVE  Counted'
    <2>1. changes' = changes
      BY <1>3 DEF Acts, Begin, Graph, LookUp, SaveCheckpoint, BuildContext, SaveUser, SaveBubble,
                  Speak, Persist, Finish, Fail, Forward, Leave, CleanUp
    <2>2. reader' = reader \/ \E how \in {"reading", "left", "over"} :
                                reader' = [reader EXCEPT ![r] = how]
      BY <1>3 DEF Acts, Begin, Graph, LookUp, SaveCheckpoint, BuildContext, SaveUser, SaveBubble,
                  Speak, Persist, Finish, Fail, Forward, Leave, CleanUp
    <2> QED BY <2>1, <2>2 DEF Counted
  <1>4. CASE UNCHANGED vars
    BY <1>4 DEF Counted, vars
  <1> QED BY <1>2, <1>3, <1>4 DEF Next, Acts

\* No message is stored twice.
LEMMA StoredByPlace ==
  ASSUME Typed, Once
  PROVE  Cardinality(Stored) = Len(messages)
  <1>1. DOMAIN messages = 1..Len(messages) /\ Len(messages) \in Nat
    BY DEF Typed
  <1> DEFINE f == [i \in 1..Len(messages) |-> Id(messages[i])]
  <1>2. Stored = {f[i] : i \in 1..Len(messages)}
    BY <1>1 DEF Stored, Range
  <1>3. f \in Bijection(1..Len(messages), Stored)
    <2>1. f \in [1..Len(messages) -> Stored]
      BY <1>2
    <2>2. \A i, j \in 1..Len(messages) : f[i] = f[j] => i = j
      BY DEF Once
    <2>3. \A x \in Stored : \E i \in 1..Len(messages) : f[i] = x
      BY <1>2
    <2> HIDE DEF f
    <2> QED BY <2>1, <2>2, <2>3 DEF Bijection, Injection, IsInjective, Surjection
  <1>4. ExistsBijection(1..Len(messages), Stored)
    BY <1>3 DEF ExistsBijection
  <1> QED BY <1>1, <1>4, FS_CountingElements

LEMMA BridgedInvariant == Spec => []Bridged
  BY InitBridged, StepBridged, PTL DEF Spec

\* A client that got [DONE] knows how the graph ended and has the answer that the session
\* holds, whatever the user and the other requests did meanwhile, whatever the turns
\* streamed and whichever step of the graph raised (agent_service.py 249-291).
THEOREM EndIsAlwaysTold == Spec => []EndIsTold
  <1>1. Bridged /\ (\A r \in Requests : Streamed(r)) => EndIsTold
    <2> SUFFICES ASSUME Bridged, NEW r \in Requests, Streamed(r), "[DONE]" \in Range(got[r])
                 PROVE  /\ chat[r].ended \in {"done", "failed"}
                        /\ chat[r].ended = "failed" <=> "error" \in Range(got[r])
                        /\ AnswerStored(r) => "content" \in Range(got[r])
      BY DEF EndIsTold
    <2>1. Bridge(r)
      BY DEF Bridged
    <2>2. got[r] # <<>>
      BY DEF Range
    <2>3. reader[r] = "over"
      BY <2>1, <2>2 DEF Bridge, Begun, SentWhileReading
    <2> QED BY <2>1, <2>3 DEF Bridge, ToldWhenOver, Streamed
  <1>2. Init => Bridged /\ SessionSound /\ \A r \in Requests : Streamed(r)
    BY InitBridged, InitSessionSound, InitStreamed
  <1>3. /\ Bridged /\ SessionSound /\ (\A r \in Requests : Streamed(r)) /\ [Next]_vars
        => Bridged' /\ SessionSound' /\ (\A r \in Requests : Streamed(r))'
    BY StepBridged, StepSessionSound, StepStreamed
  <1> QED BY <1>1, <1>2, <1>3, PTL DEF Spec

\* When the response is over, so is the graph's task (agent_service.py 275-281).
THEOREM NoGraphIsLeftBehind == Spec => []NoGraphLeftBehind
  <1>1. Bridged => NoGraphLeftBehind
    BY DEF Bridged, Bridge, ToldWhenOver, NoGraphLeftBehind, Running
  <1> QED BY <1>1, BridgedInvariant, PTL

\* What was deleted while nobody asked it does not reach the model afterwards, whatever
\* requests begin between a deletion's reads and its commit: the snapshot goes with the
\* messages (delete_message, messages.py 194-205).
THEOREM DeletedTextsAreGone == Spec => DeletedStaysGone
  <1>1. Init => Bridged /\ SessionSound
    BY InitBridged, InitSessionSound
  <1>2. Bridged /\ SessionSound /\ [Next]_vars =>
          /\ Bridged' /\ SessionSound'
          /\ [\A context \in Built : Range(context) \intersect seen.deleted = {}]_vars
    BY StepBridged, StepSessionSound, BuiltOfWhatIsLeft DEF Built, Bridged
  <1> QED BY <1>1, <1>2, PTL DEF Spec, DeletedStaysGone

\* The session, its messages and its requests are what they seem, and no message is
\* stored twice.
THEOREM TypesHold == Spec => []TypeOK
  <1> DEFINE I == Bridged /\ SessionSound /\ Counted
  <1>1. Init => I
    <2>1. Init => Counted
      BY ChatAssumption DEF Init, Counted
    <2> QED BY <2>1, InitBridged, InitSessionSound
  <1>2. I /\ [Next]_vars => I'
    BY StepBridged, StepSessionSound, CountedStep
  <1>3. I => TypeOK
    <2> SUFFICES ASSUME I PROVE TypeOK
      OBVIOUS
    <2>1. \A m \in Range(messages) : m \in Rows
      BY DEF SessionSound, Typed, Range
    <2>2. Cardinality(Stored) = Len(messages)
      BY StoredByPlace DEF SessionSound
    <2>3. ASSUME NEW r \in Requests
          PROVE  /\ chat[r].step \in Steps
                 /\ chat[r].ended \in {"no", "done", "failed", "cancelled"}
                 /\ Range(chat[r].context) \subseteq Texts
                 /\ Range(got[r]) \subseteq Told
      <3>1. chat[r] \in Tasks
        BY DEF SessionSound, Typed
      <3>2. chat[r].context \in Seq(Texts) /\ got[r] \in Seq(Told)
        BY <3>1 DEF Tasks, Bridged, Bridge
      <3>3. Range(chat[r].context) \subseteq Texts /\ Range(got[r]) \subseteq Told
        BY <3>2 DEF Range
      <3> QED BY <3>1, <3>3 DEF Tasks
    <2> QED BY <2>1, <2>2, <2>3 DEF TypeOK, SessionSound, Typed, Counted, Rows, Steps, Told
  <1> HIDE DEF I
  <1> QED BY <1>1, <1>2, <1>3, PTL DEF Spec

=============================================================================
