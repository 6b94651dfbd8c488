------------------------- MODULE MCOntologyRuntime -------------------------
(***************************************************************************)
(* Packages for TLC: a mapping in which two paths lead to the amount, the  *)
(* second of them optional, and one path to the party; a schema that       *)
(* demands both; rules that block and rules that add up.                   *)
(***************************************************************************)
EXTENDS OntologyRuntime, TLC

Field(from, to, required) == [from |-> from, to |-> to, required |-> required]
Cond(field, present) == [field |-> field, present |-> present]
Rule(when, weight, blocks) == [when |-> when, weight |-> weight, blocks |-> blocks]
Package(kind, payload) == [kind |-> kind, payload |-> payload]

Payloads ==
  "schema" :> Package("schema", {"amount", "party"})
  @@ "mapping" :> Package("mapping", <<Field("total", "amount", TRUE),
                                       Field("sum", "amount", FALSE),
                                       Field("party", "party", TRUE)>>)
  @@ "block" :> Package("rule", {Rule({Cond("party", FALSE)}, 20, TRUE)})
  @@ "score" :> Package("rule", {Rule({Cond("party", FALSE)}, 40, FALSE),
                                 Rule({Cond("amount", TRUE)}, 40, FALSE)})

\* Everything is in force at first; a switch may then replace the rules, or take away
\* any package.
Contracts == {"schema" :> "schema" @@ "mapping" :> "mapping" @@ "rule" :> "score"}

Modes == "live" :> "live_api" @@ "sample" :> "fixture"

\* Desks are compared by equality only.
Interchangeable == Permutations(Desks)
=============================================================================
