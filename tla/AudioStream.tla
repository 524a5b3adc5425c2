----------------------------- MODULE AudioStream -----------------------------
(***************************************************************************)
(* What a turn's audio queue promises to the rest of the server: the       *)
(* chunks the turn worker publishes reach the HTTP reader in order, each   *)
(* once; a reader is told "end of stream" only when it has nothing left to *)
(* miss; and a revoked stream neither accepts nor delivers anything.       *)
(* AudioQueue implements it.                                               *)
(***************************************************************************)
EXTENDS Naturals, Sequences

CONSTANT Chunk            \* the chunks a worker may publish

VARIABLES
  published,              \* every chunk accepted so far, in order
  delivered,              \* every chunk handed to a reader, in order
  phase                   \* "open", "ended" by the worker, "revoked"

streamVars == <<published, delivered, phase>>

Init ==
  /\ published = << >>
  /\ delivered = << >>
  /\ phase = "open"

Publish ==
  /\ phase = "open"
  /\ \E c \in Chunk : published' = Append(published, c)
  /\ UNCHANGED <<delivered, phase>>

Deliver ==
  /\ phase # "revoked"
  /\ Len(delivered) < Len(published)
  /\ delivered' = Append(delivered, published[Len(delivered) + 1])
  /\ UNCHANGED <<published, phase>>

End ==
  /\ phase = "open"
  /\ phase' = "ended"
  /\ UNCHANGED <<published, delivered>>

Revoke ==
  /\ phase # "revoked"
  /\ phase' = "revoked"
  /\ UNCHANGED <<published, delivered>>

Next == Publish \/ Deliver \/ End \/ Revoke

Spec == Init /\ [][Next]_streamVars
==============================================================================
