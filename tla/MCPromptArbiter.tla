--------------------------- MODULE MCPromptArbiter ---------------------------
(* Two prompts of the conversation, one of each of the network's, and a      *)
(* place less than there are prompts.                                        *)
EXTENDS PromptArbiter
==============================================================================
