----------------------------- MODULE MCListening -----------------------------
(* A word may be heard at any time; the microphone may fail twice.         *)
EXTENDS Listening
=============================================================================
