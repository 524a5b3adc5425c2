------------------------------- MODULE AudioOut -------------------------------
(***************************************************************************)
(* The loudspeaker (audio_out.c): a codec that is open or not, and, for an *)
(* answer that arrives in pieces, a jitter buffer with a task of its own   *)
(* that empties it into the codec. Whoever opens or closes the output does *)
(* so from his own task; a recursive mutex covers each access, but neither *)
(* a wait for the stream task nor a write into the buffer.                 *)
(*                                                                         *)
(* A piece of PCM stands for what fills the stream task's scratch buffer:  *)
(* what was received last stays there until more comes or the stream ends. *)
(***************************************************************************)
EXTENDS Naturals, Sequences

CONSTANTS
  Users, Nobody,   \* the tasks that open and close the output
  Pieces,          \* what is written into the buffer
  BufferPieces,    \* DEMO_REALTIME_AUDIO_JITTER_BUFFER_BYTES
  PrebufferPieces  \* DEMO_REALTIME_AUDIO_JITTER_PREBUFFER_BYTES

ASSUME BufferAssumption ==
  /\ BufferPieces \in Nat \ {0}
  /\ PrebufferPieces \in 0..BufferPieces

ASSUME UserAssumption == Nobody \notin Users

VARIABLES
  opened,        \* opened, with who opened it; Nobody while it is closed
  ring,          \* jitter_ringbuf: what is in it, or NoRing
  started,       \* stream_task_started
  done,          \* stream_task_done
  handle,        \* stream_task # NULL
  broken,        \* stream_task_result # ESP_OK
  stream,        \* where audio_stream_task is
  scratch,       \* what it has received and not written
  into, outof,   \* jitter_total_in, jitter_total_out
  heard,         \* history: the pieces the codec got since it was opened
  closing,       \* per user: how far it is in audio_out_close_pcm_stream
  crashed        \* the stream task was deleted twice

flags   == <<started, done, handle, broken>>
jitter  == <<ring, scratch, into, outof>>
speaker == <<opened, flags, jitter, stream, heard>>
audio   == <<speaker, closing, crashed>>

NoRing == [there |-> FALSE, items |-> <<>>]
NewRing == [there |-> TRUE, items |-> <<>>]

AudioType ==
  /\ opened \in Users \cup {Nobody}
  /\ ring \in [there : BOOLEAN, items : Seq(Pieces)]
  /\ started \in BOOLEAN /\ done \in BOOLEAN /\ handle \in BOOLEAN /\ broken \in BOOLEAN
  /\ stream \in {"none", "prebuffering", "receiving", "flushing", "ending", "suspended"}
  /\ scratch \in Seq(Pieces) /\ heard \in Seq(Pieces) /\ Len(ring.items) <= BufferPieces
  /\ into \in Nat /\ outof \in Nat
  /\ closing \in [Users -> {"no", "waiting", "deleted"}]
  /\ crashed \in BOOLEAN

AudioInit ==
  /\ opened = Nobody /\ ring = NoRing
  /\ started = FALSE /\ done = TRUE /\ handle = FALSE /\ broken = FALSE
  /\ stream = "none" /\ scratch = <<>> /\ heard = <<>> /\ into = 0 /\ outof = 0
  /\ closing = [u \in Users |-> "no"] /\ crashed = FALSE

(* audio_jitter_level_locked                                               *)
Level == IF into < outof THEN 0 ELSE into - outof

-----------------------------------------------------------------------------
(* audio_stream_task                                                       *)

Prebuffered ==
  /\ stream = "prebuffering"
  /\ Level >= PrebufferPieces \/ ~started
  /\ stream' = "receiving"
  /\ UNCHANGED <<opened, flags, jitter, heard, closing, crashed>>

(* audio_out_write_pcm_chunk of the scratch buffer: the codec takes it, or *)
(* it fails, as it must when the output has been closed meanwhile.         *)
Writes(next) ==
  \/ /\ opened # Nobody
     /\ heard' = heard \o scratch /\ outof' = outof + Len(scratch)
     /\ stream' = next
     /\ UNCHANGED broken
  \/ /\ broken' = TRUE /\ stream' = "ending"
     /\ UNCHANGED <<heard, outof>>

Receive ==
  /\ stream = "receiving"
  /\ ring.there /\ ring.items # <<>>
  /\ ring' = [ring EXCEPT !.items = Tail(@)]
  /\ scratch' = <<Head(ring.items)>>
  /\ IF scratch = <<>>
     THEN UNCHANGED <<heard, outof, stream, broken>>
     ELSE Writes("receiving")
  /\ UNCHANGED <<opened, started, done, handle, into, closing, crashed>>

(* Nothing came: the stream ends if it was told to and nothing is missing. *)
RunsDry ==
  /\ stream = "receiving"
  /\ ring.there /\ ring.items = <<>>
  /\ ~started /\ Level <= Len(scratch)
  /\ stream' = IF scratch = <<>> THEN "ending" ELSE "flushing"
  /\ UNCHANGED <<opened, flags, jitter, heard, closing, crashed>>

(* Mutant: what is left in the scratch buffer is forgotten.                *)
FlushForgets ==
  /\ stream = "flushing"
  /\ scratch' = <<>> /\ stream' = "ending"
  /\ UNCHANGED <<opened, flags, ring, into, outof, heard, closing, crashed>>

Flush ==
  /\ stream = "flushing"
  /\ Writes("ending")
  /\ scratch' = <<>>
  /\ UNCHANGED <<opened, started, done, handle, ring, into, closing, crashed>>

StreamEnds ==
  /\ stream = "ending"
  /\ IF ~done THEN done' = TRUE /\ UNCHANGED stream ELSE stream' = "suspended" /\ UNCHANGED done
  /\ UNCHANGED <<opened, started, handle, broken, jitter, heard, closing, crashed>>

StreamNext == Prebuffered \/ Receive \/ RunsDry \/ Flush \/ StreamEnds

(* The codec takes its time: the only wait with no progress behind it.     *)
Blocked ==
  \/ stream = "flushing"
  \/ stream = "receiving" /\ scratch # <<>> /\ ring.items # <<>>

-----------------------------------------------------------------------------
(* audio_out_write_pcm_chunk_buffered, in the task of the caller.          *)

Writable == opened # Nobody

(* It makes the buffer and the stream task if they are not there.          *)
WriteEnters ==
  /\ Writable
  /\ ring' = IF ring.there THEN ring ELSE NewRing
  /\ IF started
     THEN UNCHANGED <<started, done, handle, stream, scratch>>
     ELSE started' = TRUE /\ done' = FALSE /\ handle' = TRUE
          /\ stream' = "prebuffering" /\ scratch' = <<>>
  /\ UNCHANGED <<opened, broken, into, outof, heard, closing, crashed>>

(* xRingbufferSend                                                         *)
WriteSends(p) ==
  /\ ring.there /\ Len(ring.items) < BufferPieces
  /\ ring' = [ring EXCEPT !.items = Append(@, p)]
  /\ UNCHANGED <<opened, flags, scratch, into, outof, stream, heard, closing, crashed>>

WriteCounts ==
  /\ into' = into + 1
  /\ UNCHANGED <<opened, flags, ring, scratch, outof, stream, heard, closing, crashed>>

-----------------------------------------------------------------------------
(* audio_out_close_pcm_stream and audio_out_open_pcm_stream                *)

(* What close does when no stream task is left: user u is told whether it  *)
(* all went well.                                                          *)
Closes(u) ==
  /\ handle' = FALSE /\ done' = TRUE
  /\ ring' = NoRing /\ into' = 0 /\ outof' = 0
  /\ opened' = Nobody
  /\ closing' = [closing EXCEPT ![u] = "no"]
  /\ UNCHANGED <<started, broken, stream, scratch, heard, crashed>>

CloseBegins(u) ==
  /\ closing[u] = "no" /\ handle
  /\ started' = FALSE
  /\ closing' = [closing EXCEPT ![u] = "waiting"]
  /\ UNCHANGED <<opened, done, handle, broken, jitter, stream, heard, crashed>>

(* The task is deleted once it has suspended itself. One that another user *)
(* deleted, who has not cleared the handle yet, is deleted twice.          *)
CloseDeletes(u) ==
  /\ closing[u] = "waiting" /\ done
  /\ handle => stream \in {"none", "suspended"}
  /\ crashed' = (handle /\ stream = "none")
  /\ stream' = "none"
  /\ closing' = [closing EXCEPT ![u] = "deleted"]
  /\ UNCHANGED <<opened, flags, jitter, heard>>

(* No progress for DEMO_REALTIME_AUDIO_CLOSE_WAIT_TIMEOUT_MS.              *)
CloseStalls(u) ==
  /\ closing[u] = "waiting" /\ Blocked
  /\ closing' = [closing EXCEPT ![u] = "no"]
  /\ UNCHANGED <<speaker, crashed>>

CloseDone(u) ==
  /\ closing[u] = "deleted" \/ (closing[u] = "no" /\ ~handle)
  /\ Closes(u)

(* The output is opened anew: nothing is left of the stream before.        *)
Opens(u) ==
  /\ opened' = u
  /\ started' = FALSE /\ handle' = FALSE /\ done' = TRUE /\ broken' = FALSE
  /\ ring' = NoRing /\ into' = 0 /\ outof' = 0 /\ heard' = <<>>
  /\ UNCHANGED <<stream, scratch, closing, crashed>>

OpenFails(u) ==
  /\ opened' = Nobody
  /\ UNCHANGED <<flags, jitter, stream, heard, closing, crashed>>
===============================================================================
