------------------------------ MODULE MCPlayback ------------------------------
(* One session at a time, started again and again, with prompts between.   *)
EXTENDS Playback

MCUsers  == Sessions \cup {Arbiter, Pipeline}
MCFrames == [s \in Sessions |-> 2]
MCPieces == [session : Sessions, n : Nat]
===============================================================================
