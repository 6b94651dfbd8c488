--------------------------- MODULE MCChatSession ---------------------------
(* ChatSession for TLC. *)
EXTENDS ChatSession

\* Turns that answer, and all turns.
Answers   == {<<"content">>}
AnyStream == {<<>>, <<"content">>, <<"fault">>, <<"content", "fault">>}

\* No definition names or orders requests or agents.
Alike == Permutations(Requests) \union Permutations(Agents)
=============================================================================
