----------------------------- MODULE MCVoiceLink ----------------------------
(* Four turn ids are two attempts at each of the two turns of a game. *)
EXTENDS VoiceLink
==============================================================================
