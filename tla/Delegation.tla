----------------------------- MODULE Delegation -----------------------------
(***************************************************************************)
(* What the conversation graph promises about who speaks in a request: one *)
(* agent holds the floor at a time, the root first and last; an expert     *)
(* gets it at most once, by being consulted (the root too, if it is one),  *)
(* and gives it back to the root and to nobody else.                       *)
(***************************************************************************)
CONSTANT Root

VARIABLES experts,    \* the agents that may be consulted (constant)
          holder,     \* the agent that holds the floor
          consulted,  \* the experts that were given it
          closed      \* the request is over

vars == <<experts, holder, consulted, closed>>

Init == holder = Root /\ consulted = {} /\ closed = FALSE

\* Some experts nobody consulted before are; one of them gets the floor.
Consult(S) ==
  /\ ~closed
  /\ S # {} /\ S \intersect consulted = {}
  /\ holder' \in S
  /\ consulted' = consulted \union S
  /\ UNCHANGED <<experts, closed>>

GiveBack ==
  /\ ~closed /\ holder # Root
  /\ holder' = Root
  /\ UNCHANGED <<experts, consulted, closed>>

\* Only the root closes the request.
Close ==
  /\ ~closed /\ holder = Root
  /\ closed' = TRUE
  /\ UNCHANGED <<experts, holder, consulted>>

Next == (\E S \in SUBSET experts : Consult(S)) \/ GiveBack \/ Close

Spec == Init /\ [][Next]_vars
=============================================================================
