--------------------------- MODULE MCConversationV6 --------------------------
(* Turn ids are interchangeable. *)
EXTENDS ConversationV6, TLC

TurnSymmetry == Permutations(Turns)
==============================================================================
