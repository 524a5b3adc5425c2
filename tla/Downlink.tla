------------------------------- MODULE Downlink -------------------------------
(***************************************************************************)
(* The answer on its way to the loudspeaker (cloud_client.c, streaming):   *)
(* the task that owns the playback reads the HTTP stream and queues each   *)
(* frame for a decode task, which queues PCM for a playback task, which    *)
(* writes into the jitter buffer through the session's sink. Queues hold   *)
(* pointers: who takes a packet out frees it. A terminal packet, end or    *)
(* error, follows the frames through both queues.                          *)
(*                                                                         *)
(* A frame stands for one read of the socket that completes it, and for    *)
(* the PCM it decodes to. Formats differ in nothing that is kept here. A   *)
(* limit on a wait (one second for a queue, twenty for the tasks) may      *)
(* expire whenever the wait is not over.                                   *)
(***************************************************************************)
EXTENDS AudioOut, FiniteSets

CONSTANTS
  Sessions,   \* places for a playback session in memory
  Frames,     \* per session: how many frames its answer has
  EncodedMax, \* DEMO_REALTIME_AUDIO_ENCODED_QUEUE_LENGTH
  PcmMax      \* DEMO_REALTIME_AUDIO_PCM_QUEUE_LENGTH

ASSUME SessionAssumption == Sessions \subseteq Users
ASSUME FrameAssumption == Frames \in [Sessions -> Nat \ {0}]
ASSUME QueueAssumption == EncodedMax \in Nat \ {0} /\ PcmMax \in Nat \ {0}

VARIABLES
  owner,      \* where the session's task is
  read,       \* frames it has read
  silent,     \* its connection gives no more and is not complete
  encoded,    \* encoded_queue
  decoder,    \* where the decode task is
  inhand,     \* the packet it holds
  pcm,        \* pcm_queue
  player,     \* where the playback task is
  playing,    \* the packet it holds
  failed,     \* "stream", "tasks": whose result is an error
  memory,     \* packets that some task is to free
  cancelled,  \* cancel_requested, of the session
  ragged,     \* its last frame was found to end within an Opus packet
  tail,       \* opus_decoder.pending_len # 0
  corrupted   \* a stack frame was written after it was left, or a task deleted twice

net      == <<owner, read, silent>>
decoding == <<decoder, inhand>>
sinking  == <<player, playing>>
opus     == <<ragged, tail>>
down     == <<net, encoded, decoding, pcm, sinking, failed, memory, cancelled, opus>>

Frame(n) == [type |-> "frame", n |-> n]
Eof      == [type |-> "eof", n |-> 0]
Error    == [type |-> "error", n |-> 0]
Nothing  == [type |-> "nothing", n |-> 0]
Packets  == [type : {"frame", "eof", "error"}, n : Nat]
Terminal(ok) == IF ok THEN Eof ELSE Error
InEncoded(p) == [where |-> "encoded", packet |-> p]
InPcm(p)     == [where |-> "pcm", packet |-> p]

(* A helper's work is over; its flag is set; its handle is cleared; it has *)
(* deleted itself.                                                         *)
After == [finishing |-> "leaving", leaving |-> "exiting", exiting |-> "done"]
AfterWork == DOMAIN After \cup {"done"}
Published(place) == place \in {"leaving", "exiting", "done"}

(* The join has expired. In "gone" the owner has deleted itself.           *)
Late == {"expired", "deletesDecoder", "deletesPlayer"}

OwnerPlaces == {"none", "opening", "connecting", "reading", "ending", "joining", "cleaning",
                "draining", "closing", "publishing", "published", "suspended", "freed", "gone"}
                 \cup Late
DecoderPlaces == {"none", "waiting", "decoding", "forwarding"} \cup AfterWork
PlayerPlaces == {"none", "waiting", "entering", "sending", "counting"} \cup AfterWork

DownType ==
  /\ owner \in [Sessions -> OwnerPlaces] /\ read \in [Sessions -> Nat]
  /\ silent \in [Sessions -> BOOLEAN]
  /\ encoded \in [Sessions -> Seq(Packets)] /\ pcm \in [Sessions -> Seq(Packets)]
  /\ decoder \in [Sessions -> DecoderPlaces] /\ inhand \in [Sessions -> Packets \cup {Nothing}]
  /\ player \in [Sessions -> PlayerPlaces] /\ playing \in [Sessions -> Packets \cup {Nothing}]
  /\ \A s \in Sessions : Len(encoded[s]) <= EncodedMax /\ Len(pcm[s]) <= PcmMax
  /\ failed \in [Sessions -> SUBSET {"stream", "tasks"}]
  /\ memory \in [Sessions -> SUBSET [where : {"encoded", "pcm"}, packet : Packets]]
  /\ cancelled \in [Sessions -> BOOLEAN]
  /\ ragged \in [Sessions -> BOOLEAN] /\ tail \in [Sessions -> BOOLEAN] /\ corrupted \in BOOLEAN

DownInit ==
  /\ owner = [s \in Sessions |-> "none"] /\ read = [s \in Sessions |-> 0]
  /\ silent = [s \in Sessions |-> FALSE]
  /\ encoded = [s \in Sessions |-> <<>>] /\ pcm = [s \in Sessions |-> <<>>]
  /\ decoder = [s \in Sessions |-> "none"] /\ inhand = [s \in Sessions |-> Nothing]
  /\ player = [s \in Sessions |-> "none"] /\ playing = [s \in Sessions |-> Nothing]
  /\ failed = [s \in Sessions |-> {}] /\ memory = [s \in Sessions |-> {}]
  /\ cancelled = [s \in Sessions |-> FALSE]
  /\ ragged = [s \in Sessions |-> FALSE] /\ tail = [s \in Sessions |-> FALSE]
  /\ corrupted = FALSE

Fails(s, what) == failed' = [failed EXCEPT ![s] = @ \cup {what}]
Allocates(s, p) == memory' = [memory EXCEPT ![s] = @ \cup {p}]
Frees(s, p)     == memory' = [memory EXCEPT ![s] = @ \ {p}]
DecoderHolds(s) == {InEncoded(p) : p \in {inhand[s]} \ {Nothing, Eof, Error}}
PlayerHolds(s)  == {InPcm(p) : p \in {playing[s]} \ {Nothing}}
Goes(where, s, place) == [where EXCEPT ![s] = place]

-----------------------------------------------------------------------------
(* cloud_client_stream_realtime_audio_cancellable                          *)

(* The request, the checks of its headers, the queues and the two tasks.   *)
Connects(s) ==
  /\ owner[s] = "connecting"
  /\ owner' = Goes(owner, s, "reading")
  /\ decoder' = Goes(decoder, s, "waiting") /\ player' = Goes(player, s, "waiting")
  /\ tail' = Goes(tail, s, FALSE)
  /\ UNCHANGED <<read, silent, encoded, inhand, pcm, playing, failed, memory, cancelled,
                 ragged>>

Refused(s) ==
  /\ owner[s] = "connecting"
  /\ owner' = Goes(owner, s, "closing")
  /\ Fails(s, "stream")
  /\ UNCHANGED <<read, silent, encoded, decoding, pcm, sinking, memory, cancelled, opus>>

Reading(s) == owner[s] = "reading" /\ ~cancelled[s]

(* cloud_consume_framed_audio_packets                                      *)
Reads(s) ==
  /\ Reading(s) /\ ~silent[s] /\ read[s] < Frames[s]
  /\ Len(encoded[s]) < EncodedMax
  /\ LET p == Frame(read[s] + 1) IN
       /\ encoded' = [encoded EXCEPT ![s] = Append(@, p)]
       /\ Allocates(s, InEncoded(p))
  /\ read' = [read EXCEPT ![s] = @ + 1]
  /\ UNCHANGED <<owner, silent, decoding, pcm, sinking, failed, cancelled, opus>>

(* The queue stays full for a second: the frame is freed, reading ends.    *)
QueueFull(s) ==
  /\ Reading(s) /\ ~silent[s] /\ read[s] < Frames[s]
  /\ Len(encoded[s]) = EncodedMax
  /\ owner' = Goes(owner, s, "ending") /\ Fails(s, "stream")
  /\ UNCHANGED <<read, silent, encoded, decoding, pcm, sinking, memory, cancelled, opus>>

(* A read fails, or the answer ends within a frame.                        *)
ReadFails(s) ==
  /\ Reading(s) /\ ~silent[s]
  /\ owner' = Goes(owner, s, "ending") /\ Fails(s, "stream")
  /\ UNCHANGED <<read, silent, encoded, decoding, pcm, sinking, memory, cancelled, opus>>

(* The server closes early: each read returns 0 and the data is not        *)
(* complete, so the loop reads again, until it is cancelled.               *)
FallsSilent(s) ==
  /\ Reading(s) /\ ~silent[s]
  /\ silent' = [silent EXCEPT ![s] = TRUE]
  /\ UNCHANGED <<owner, read, encoded, decoding, pcm, sinking, failed, memory, cancelled,
                 opus>>

ReadsAll(s) ==
  /\ Reading(s) /\ ~silent[s] /\ read[s] = Frames[s]
  /\ owner' = Goes(owner, s, "ending")
  /\ UNCHANGED <<read, silent, encoded, decoding, pcm, sinking, failed, memory, cancelled,
                 opus>>

(* Mutant: the flag is looked at only when something was read.             *)
SeesCancelWithData(s) ==
  /\ owner[s] = "reading" /\ cancelled[s] /\ ~silent[s]
  /\ owner' = Goes(owner, s, "ending") /\ Fails(s, "stream")
  /\ UNCHANGED <<read, silent, encoded, decoding, pcm, sinking, memory, cancelled, opus>>

(* The connection is closed with the loop.                                 *)
SeesCancel(s) ==
  /\ owner[s] = "reading" /\ cancelled[s]
  /\ owner' = Goes(owner, s, "ending") /\ Fails(s, "stream")
  /\ silent' = [silent EXCEPT ![s] = FALSE]
  /\ UNCHANGED <<read, encoded, decoding, pcm, sinking, memory, cancelled, opus>>

(* The terminal packet, which finds no room if nobody takes.               *)
Terminates(s) ==
  /\ owner[s] = "ending"
  /\ owner' = Goes(owner, s, "joining")
  /\ \/ /\ Len(encoded[s]) < EncodedMax
        /\ LET p == Terminal("stream" \notin failed[s]) IN
             /\ encoded' = [encoded EXCEPT ![s] = Append(@, p)]
             /\ Allocates(s, InEncoded(p))
        /\ UNCHANGED failed
     \/ /\ Len(encoded[s]) = EncodedMax
        /\ Fails(s, "stream")
        /\ UNCHANGED <<encoded, memory>>
  /\ UNCHANGED <<read, silent, decoding, pcm, sinking, cancelled, opus>>

(* Mutant: the playback task is not waited for.                            *)
DecoderDoneOnly(s) == Published(decoder[s])

TasksDone(s) == Published(decoder[s]) /\ Published(player[s])

Joins(s) ==
  /\ owner[s] = "joining" /\ TasksDone(s)
  /\ owner' = Goes(owner, s, "cleaning")
  /\ UNCHANGED <<read, silent, encoded, decoding, pcm, sinking, failed, memory, cancelled,
                 opus>>

(* DEMO_REALTIME_AUDIO_TASK_JOIN_TIMEOUT_MS                                *)
JoinExpires(s) ==
  /\ owner[s] = "joining" /\ ~TasksDone(s)
  /\ owner' = Goes(owner, s, "expired")
  /\ Fails(s, "stream")
  /\ UNCHANGED <<read, silent, encoded, decoding, pcm, sinking, memory, cancelled, opus>>

(* The flag of each task is read once more: one that is not set yet has    *)
(* its handle still in place, and the task is deleted next.                *)
LooksAtPlayer(s) == IF Published(player[s]) THEN "cleaning" ELSE "deletesPlayer"

LooksAgain(s) ==
  /\ owner[s] = "expired"
  /\ owner' = Goes(owner, s, IF Published(decoder[s]) THEN LooksAtPlayer(s) ELSE "deletesDecoder")
  /\ UNCHANGED <<read, silent, encoded, decoding, pcm, sinking, failed, memory, cancelled, opus>>

(* What it holds is lost with it: nobody is to free that any more. A task  *)
(* that ended since it was looked at may be deleted a second time, with no *)
(* effect if nothing took its place; or its handle, read again, is NULL,   *)
(* and the owner deletes itself.                                           *)
DeletesDecoder(s) ==
  /\ owner[s] = "deletesDecoder"
  /\ \/ /\ owner' = Goes(owner, s, LooksAtPlayer(s))
        /\ decoder' = Goes(decoder, s, "done") /\ inhand' = [inhand EXCEPT ![s] = Nothing]
        /\ memory' = [memory EXCEPT ![s] = @ \ DecoderHolds(s)]
        /\ IF decoder[s] = "done" THEN corrupted' \in BOOLEAN ELSE UNCHANGED corrupted
     \/ /\ decoder[s] \in {"exiting", "done"}
        /\ owner' = Goes(owner, s, "gone")
        /\ UNCHANGED <<decoding, memory, corrupted>>
  /\ UNCHANGED <<read, silent, encoded, pcm, sinking, failed, cancelled, opus>>

DeletesPlayer(s) ==
  /\ owner[s] = "deletesPlayer"
  /\ \/ /\ owner' = Goes(owner, s, "cleaning")
        /\ player' = Goes(player, s, "done") /\ playing' = [playing EXCEPT ![s] = Nothing]
        /\ memory' = [memory EXCEPT ![s] = @ \ PlayerHolds(s)]
        /\ IF player[s] = "done" THEN corrupted' \in BOOLEAN ELSE UNCHANGED corrupted
     \/ /\ player[s] \in {"exiting", "done"}
        /\ owner' = Goes(owner, s, "gone")
        /\ UNCHANGED <<sinking, memory, corrupted>>
  /\ UNCHANGED <<read, silent, encoded, decoding, pcm, failed, cancelled, opus>>

(* cloud_opus_decoder_cleanup                                              *)
Cleans(s) ==
  /\ owner[s] = "cleaning"
  /\ owner' = Goes(owner, s, "draining")
  /\ tail' = Goes(tail, s, FALSE)
  /\ UNCHANGED <<read, silent, encoded, decoding, pcm, sinking, failed, memory, cancelled,
                 ragged>>

Queued(s) ==
  {InEncoded(encoded[s][i]) : i \in DOMAIN encoded[s]} \cup {InPcm(pcm[s][i]) : i \in DOMAIN pcm[s]}

(* The queues, then the check that nothing is left of an Opus packet, of   *)
(* which the step before has seen to it that nothing is.                   *)
Drains(s) ==
  /\ owner[s] = "draining"
  /\ owner' = Goes(owner, s, "closing")
  /\ memory' = [memory EXCEPT ![s] = @ \ Queued(s)]
  /\ encoded' = [encoded EXCEPT ![s] = <<>>] /\ pcm' = [pcm EXCEPT ![s] = <<>>]
  /\ IF tail[s] THEN Fails(s, "stream") ELSE UNCHANGED failed
  /\ UNCHANGED <<read, silent, decoding, sinking, cancelled, opus>>

ReaderNext(s) ==
  \/ /\ \/ Connects(s) \/ Refused(s) \/ Reads(s) \/ QueueFull(s) \/ ReadFails(s) \/ FallsSilent(s)
        \/ ReadsAll(s) \/ SeesCancel(s) \/ Terminates(s) \/ Joins(s) \/ JoinExpires(s)
        \/ LooksAgain(s) \/ Cleans(s) \/ Drains(s)
     /\ UNCHANGED corrupted
  \/ DeletesDecoder(s) \/ DeletesPlayer(s)

-----------------------------------------------------------------------------
(* cloud_decode_task                                                       *)

Decodes(s) ==
  /\ decoder[s] = "waiting" /\ encoded[s] # <<>>
  /\ encoded' = [encoded EXCEPT ![s] = Tail(@)]
  /\ LET p == Head(encoded[s]) IN
       \/ /\ p.type = "frame" /\ ~cancelled[s]
          /\ inhand' = [inhand EXCEPT ![s] = p]
          /\ decoder' = Goes(decoder, s, "decoding")
          /\ UNCHANGED memory
       \/ /\ p.type = "frame" /\ cancelled[s]
          /\ inhand' = [inhand EXCEPT ![s] = Error]
          /\ decoder' = Goes(decoder, s, "forwarding")
          /\ Frees(s, InEncoded(p))
       \/ /\ p.type # "frame"
          /\ inhand' = [inhand EXCEPT ![s] = p]
          /\ decoder' = Goes(decoder, s, "forwarding")
          /\ Frees(s, InEncoded(p))
  /\ UNCHANGED <<net, pcm, sinking, failed, cancelled, opus>>

(* The PCM is queued and the frame freed. The answer may end within an     *)
(* Opus packet: nothing comes out of that, and it stays as the tail.       *)
Enqueues(s) ==
  /\ decoder[s] = "decoding"
  /\ decoder' = Goes(decoder, s, "waiting")
  /\ inhand' = [inhand EXCEPT ![s] = Nothing]
  /\ \/ /\ inhand[s].n = Frames[s]
        /\ ragged' = Goes(ragged, s, TRUE) /\ tail' = Goes(tail, s, TRUE)
        /\ Frees(s, InEncoded(inhand[s]))
        /\ UNCHANGED pcm
     \/ /\ Len(pcm[s]) < PcmMax
        /\ pcm' = [pcm EXCEPT ![s] = Append(@, inhand[s])]
        /\ memory' = [memory EXCEPT ![s] = (@ \ {InEncoded(inhand[s])}) \cup {InPcm(inhand[s])}]
        /\ UNCHANGED opus
  /\ UNCHANGED <<net, encoded, sinking, failed, cancelled>>

(* It cannot be decoded, or the queue stays full: both packets are freed.  *)
DecodeFails(s) ==
  /\ decoder[s] = "decoding"
  /\ decoder' = Goes(decoder, s, "forwarding")
  /\ inhand' = [inhand EXCEPT ![s] = Error]
  /\ Frees(s, InEncoded(inhand[s]))
  /\ UNCHANGED <<net, encoded, pcm, sinking, failed, cancelled, opus>>

(* cloud_forward_terminal_packet: the result of the task is that of        *)
(* forwarding.                                                             *)
Forwards(s) ==
  /\ decoder[s] = "forwarding"
  /\ decoder' = Goes(decoder, s, "finishing")
  /\ inhand' = [inhand EXCEPT ![s] = Nothing]
  /\ \/ /\ Len(pcm[s]) < PcmMax
        /\ pcm' = [pcm EXCEPT ![s] = Append(@, inhand[s])]
        /\ Allocates(s, InPcm(inhand[s]))
        /\ UNCHANGED failed
     \/ /\ Len(pcm[s]) = PcmMax
        /\ Fails(s, "tasks")
        /\ UNCHANGED <<pcm, memory>>
  /\ UNCHANGED <<net, encoded, sinking, cancelled, opus>>

(* Where the owner has left its stack frame, or the frame has gone with    *)
(* it: what the helpers share with the owner is in that frame.             *)
FrameLeft(s) == owner[s] \in {"closing", "publishing", "published", "suspended", "freed", "gone"}

(* Each step of a helper uses the frame, but for the last. One that was    *)
(* left may belong to somebody else by now.                                *)
UsesFrame(s, place) ==
  IF FrameLeft(s) /\ place # "exiting" THEN corrupted' \in BOOLEAN ELSE UNCHANGED corrupted

(* The end of a helper: its flag, its handle, its deletion. The last two   *)
(* are one step when nobody is left who could look at the handle.          *)
EndsAt(s, place) == IF FrameLeft(s) /\ place = "leaving" THEN "done" ELSE After[place]

DecoderEnds(s) ==
  /\ decoder[s] \in DOMAIN After
  /\ decoder' = Goes(decoder, s, EndsAt(s, decoder[s]))
  /\ UNCHANGED <<net, encoded, inhand, pcm, sinking, failed, memory, cancelled, opus>>

DecoderNext(s) ==
  /\ Decodes(s) \/ Enqueues(s) \/ DecodeFails(s) \/ Forwards(s) \/ DecoderEnds(s)
  /\ UsesFrame(s, decoder[s])

-----------------------------------------------------------------------------
(* cloud_playback_task                                                     *)

Takes(s) ==
  /\ player[s] = "waiting" /\ pcm[s] # <<>>
  /\ pcm' = [pcm EXCEPT ![s] = Tail(@)]
  /\ LET p == Head(pcm[s]) IN
       \/ /\ p.type = "frame" /\ ~cancelled[s]
          /\ playing' = [playing EXCEPT ![s] = p]
          /\ player' = Goes(player, s, "entering")
          /\ UNCHANGED <<failed, memory>>
       \/ /\ p.type = "error" \/ (p.type = "frame" /\ cancelled[s])
          /\ player' = Goes(player, s, "finishing")
          /\ Fails(s, "tasks") /\ Frees(s, InPcm(p))
          /\ UNCHANGED playing
       \/ /\ p.type = "eof"
          /\ player' = Goes(player, s, "finishing")
          /\ Frees(s, InPcm(p))
          /\ UNCHANGED <<playing, failed>>
  /\ UNCHANGED <<net, encoded, decoding, cancelled, opus>>

(* playback_session_pcm_sink: the flag, then the jitter buffer.            *)
SinkEnters(s) ==
  /\ player[s] = "entering" /\ ~cancelled[s]
  /\ WriteEnters /\ ~broken
  /\ player' = Goes(player, s, "sending")
  /\ UNCHANGED <<net, encoded, decoding, pcm, playing, failed, memory, cancelled, opus>>

SinkSends(s) ==
  /\ player[s] = "sending"
  /\ WriteSends([session |-> s, n |-> playing[s].n])
  /\ player' = Goes(player, s, "counting")
  /\ UNCHANGED <<net, encoded, decoding, pcm, playing, failed, memory, cancelled, opus>>

SinkCounts(s) ==
  /\ player[s] = "counting"
  /\ WriteCounts
  /\ player' = Goes(player, s, "waiting")
  /\ playing' = [playing EXCEPT ![s] = Nothing] /\ Frees(s, InPcm(playing[s]))
  /\ UNCHANGED <<net, encoded, decoding, pcm, failed, cancelled, opus>>

(* It is cancelled, the output is closed or broken, or the buffer stays    *)
(* full while nothing is played.                                           *)
SinkFails(s) ==
  /\ \/ player[s] = "entering" /\ (cancelled[s] \/ ~Writable \/ broken)
     \/ player[s] = "sending" /\ ring.there /\ Len(ring.items) = BufferPieces /\ Blocked
  /\ player' = Goes(player, s, "finishing")
  /\ playing' = [playing EXCEPT ![s] = Nothing]
  /\ Fails(s, "tasks") /\ Frees(s, InPcm(playing[s]))
  /\ UNCHANGED <<net, encoded, decoding, pcm, cancelled, opus, audio>>

PlayerEnds(s) ==
  /\ player[s] \in DOMAIN After
  /\ player' = Goes(player, s, EndsAt(s, player[s]))
  /\ UNCHANGED <<net, encoded, decoding, pcm, playing, failed, memory, cancelled, opus>>

PlayerNext(s) ==
  /\ \/ (Takes(s) \/ PlayerEnds(s)) /\ UNCHANGED audio
     \/ SinkEnters(s) \/ SinkSends(s) \/ SinkCounts(s) \/ SinkFails(s)
  /\ UsesFrame(s, player[s])
===============================================================================
