------------------------- MODULE MCReviewKnowledge -------------------------
(***************************************************************************)
(* Small documents for TLC: a manual with chapters, and a document that    *)
(* shares an article with it and says it twice.                            *)
(***************************************************************************)
EXTENDS ReviewKnowledge, TLC

CONSTANTS payment, chat

Duties == {payment}

Line(kind, mark, says, size) ==
  [kind |-> kind, mark |-> mark, says |-> says, size |-> size, ends |-> size > 3]

Manuals ==
  "manual" :> <<Line("plain", 0, chat, 2), Line("chapter", 1, chat, 5),
                Line("article", 1, payment, 9), Line("chapter", 2, chat, 5),
                Line("blank", 0, chat, 0), Line("article", 2, chat, 2),
                Line("paragraph", 1, chat, 7)>>
  @@ "twice" :> <<Line("article", 1, payment, 9), Line("article", 2, payment, 9)>>

\* Nothing is named, a row, or none that is found: what is not found makes no difference
\* beside what is.
Namings == {{}, {<<payment>>}, {None}}

\* Sessions and packs are compared by equality only.
Interchangeable ==
  {p @@ q : p \in Permutations(Sessions), q \in Permutations(Packs)}
=============================================================================
