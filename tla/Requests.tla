------------------------------ MODULE Requests ------------------------------
(***************************************************************************)
(* The requests that are served at the same time. Each has a database      *)
(* session of its own (core/db.py) and runs, on one event loop, from one   *)
(* await to the next.                                                      *)
(***************************************************************************)
EXTENDS Naturals

CONSTANTS
  None,        \* no value
  Desks,       \* requests that may be served at the same time
  MaxRequests  \* bound on a behaviour

VARIABLES
  task,        \* per desk, the request it serves
  requests     \* how many there have been

Idle == [op |-> "idle"]

Doing(d, op, at) == task[d].op = op /\ task[d].at = at

Begin(d, request) ==
  /\ task[d] = Idle
  /\ requests < MaxRequests
  /\ requests' = requests + 1
  /\ task' = [task EXCEPT ![d] = request]

\* A request that is answered without waiting for another.
AtOnce ==
  /\ requests < MaxRequests
  /\ requests' = requests + 1
  /\ UNCHANGED task

GoOn(d, request) == task' = [task EXCEPT ![d] = request] /\ UNCHANGED requests

End(d) == GoOn(d, Idle)

\* Refused, or failed before its commit: what it has written is rolled back.
Refuse(d) == task[d] # Idle /\ End(d)
=============================================================================
