---------------------------- MODULE MCRuleAssets ----------------------------
(***************************************************************************)
(* A small authoring space for TLC: a policy that yields a rule, a text    *)
(* that states this rule twice, and an entity.                             *)
(***************************************************************************)
EXTENDS RuleAssets, TLC

Line(kind, mark, says, size) ==
  [kind |-> kind, mark |-> mark, says |-> says, size |-> size, ends |-> size > 3]

Policies ==
  "policy" :> <<Line("chapter", 1, "title", 4), Line("article", 1, "limit", 9),
                Line("article", 2, "title", 9)>>
  @@ "copy" :> <<Line("plain", 0, "limit", 9), Line("plain", 0, "limit", 9)>>

Meaning ==
  "limit" :> [ruleLike |-> TRUE, topics |-> {2, 1}, number |-> 30, compares |-> "lt",
              binds |-> TRUE, grave |-> FALSE]
  @@ "title" :> [ruleLike |-> FALSE, topics |-> {}, number |-> None, compares |-> None,
                 binds |-> FALSE, grave |-> FALSE]

\* Terms are named the way rules are.
Parties == {<<"party">>}

NoOwner == <<>>

\* Every text of up to three lines is read well.
ASSUME ReadingAssumption ==
  \A n \in 0..3 :
    \A kinds \in [1..n -> LineKinds], sizes \in [1..n -> {2, 5}] :
      ReadsWell([i \in 1..n |-> Line(kinds[i], i, "title", sizes[i])])

\* Sessions and versions are compared by equality only.
Interchangeable == {p @@ q : p \in Permutations(Sessions), q \in Permutations(Versions)}
=============================================================================
