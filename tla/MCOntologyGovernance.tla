------------------------ MODULE MCOntologyGovernance ------------------------
(***************************************************************************)
(* Small instances of OntologyGovernance for TLC. Its definitions compare  *)
(* versions, approval ids, users and sessions by equality only, so each of *)
(* these sets is symmetric.                                                *)
(***************************************************************************)
EXTENDS OntologyGovernance, TLC

BothGates == {"staging", "ga"}

StagingGate == {"staging"}

Interchangeable ==
  {p @@ q @@ r @@ t : p \in Permutations(Versions), q \in Permutations(Approvals),
                      r \in Permutations(Stewards), t \in Permutations(Sessions)}
=============================================================================
