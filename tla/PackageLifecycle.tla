-------------------------- MODULE PackageLifecycle --------------------------
(***************************************************************************)
(* What ontology governance promises about the versions of one package     *)
(* kind in one space: draft -> review -> staging -> ga -> deprecated, at   *)
(* most one version in force, and the version that a new one replaces is   *)
(* deprecated in the same step. A rollback puts any version in force.      *)
(***************************************************************************)
CONSTANTS Versions, None

VARIABLES stage,    \* the stage of each version, "absent" before it is created
          inForce   \* the version in force, or None

vars == <<stage, inForce>>

Init == stage = [v \in Versions |-> "absent"] /\ inForce = None

Create(v) ==
  /\ stage[v] = "absent"
  /\ stage' = [stage EXCEPT ![v] = "draft"]
  /\ UNCHANGED inForce

Promote(v) ==
  /\ \/ stage[v] = "draft" /\ stage' = [stage EXCEPT ![v] = "review"]
     \/ stage[v] = "review" /\ stage' = [stage EXCEPT ![v] = "staging"]
  /\ UNCHANGED inForce

\* v comes into force, and nothing else is left there.
Enforce(v) ==
  /\ stage' = [w \in Versions |-> IF w = v THEN "ga"
                                  ELSE IF w = inForce THEN "deprecated"
                                  ELSE stage[w]]
  /\ inForce' = v

Publish(v) == stage[v] \in {"staging", "ga"} /\ Enforce(v)

Rollback(v) == stage[v] # "absent" /\ Enforce(v)

Retire(v) ==
  /\ stage[v] # "absent"
  /\ stage' = [stage EXCEPT ![v] = "deprecated"]
  /\ inForce' = IF inForce = v THEN None ELSE inForce

Next == \E v \in Versions : Create(v) \/ Promote(v) \/ Publish(v) \/ Rollback(v) \/ Retire(v)

Spec == Init /\ [][Next]_vars
=============================================================================
