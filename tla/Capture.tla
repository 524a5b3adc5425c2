------------------------------- MODULE Capture -------------------------------
(***************************************************************************)
(* The microphone of a conversation (audio_in.c): the device waits for     *)
(* somebody to speak, keeping the last chunks in a buffer, and then hands   *)
(* that buffer and what follows to a sink until it hears silence. Between  *)
(* the two calls the conversation opens a turn with the server, and nobody *)
(* reads: the codec goes on, into DMA buffers that drop the oldest.        *)
(*                                                                         *)
(* Chunks are numbered as they are spoken since the microphone was opened; *)
(* time is counted in chunks. Of a chunk only its loudness matters.        *)
(***************************************************************************)
EXTENDS Integers, Sequences

CONSTANTS
  Preroll, Hold,   \* DEMO_SPEECH_PREROLL_BYTES, DEMO_SPEECH_START_HOLD_BYTES
  Arm, Patience,   \* arm_delay_ms, timeout_ms
  MinPcm, MaxPcm,  \* DEMO_RECORD_MIN_BYTES, DEMO_AUDIO_BUFFER_BYTES
  Silence,         \* DEMO_RECORD_VAD_SILENCE_BYTES
  DmaChunks,       \* what the driver holds unread
  MaxLost          \* bound: chunks that pass unread and are dropped

ASSUME CaptureAssumption ==
  /\ Preroll \in Nat /\ Hold \in Nat \ {0} /\ Arm \in Nat /\ Patience \in Nat \ {0}
  /\ MinPcm \in Nat /\ MaxPcm \in Nat \ {0} /\ Preroll + Hold < MaxPcm
  /\ Silence \in Nat \ {0} /\ DmaChunks \in Nat \ {0} /\ MaxLost \in Nat

VARIABLES
  opened,     \* s_audio_in_state.opened
  mic,        \* where the two calls are, or how the last one returned
  now, next,  \* the last chunk spoken, the next to be read
  prefix,     \* speech_prefix
  hold,       \* hold_bytes
  out,        \* what the sink has been called with
  sent,       \* history: what the sink has taken
  silence,    \* trailing_silence_bytes
  lost,       \* history: chunks dropped by the driver
  found       \* history: the chunk at which speech was found

listener == <<now, next, prefix, hold, found>>
upload   == <<out, sent, silence, lost>>
capture  == <<opened, mic, listener, upload>>

Levels == {"loud", "soft", "silent"}

Calling  == {"waiting", "reading", "sending"}
Returned == {"none", "found", "timed_out", "failed", "done"}

CaptureType ==
  /\ opened \in BOOLEAN /\ mic \in Calling \cup Returned
  /\ now \in Nat /\ next \in Nat /\ hold \in 0..Hold /\ silence \in Nat
  /\ prefix \in Seq(Nat) /\ out \in Seq(Nat) /\ sent \in Seq(Nat)
  /\ lost \in 0..MaxLost /\ found \in Nat

CaptureInit ==
  /\ opened = FALSE /\ mic = "none" /\ now = 0 /\ next = 1
  /\ prefix = <<>> /\ hold = 0 /\ out = <<>> /\ sent = <<>> /\ silence = 0 /\ lost = 0
  /\ found = 0

(* audio_in_close_locked, audio_in_deinit, and what was recorded is freed. *)
Released(how) ==
  /\ opened' = FALSE /\ mic' = how
  /\ now' = 0 /\ next' = 1 /\ prefix' = <<>> /\ hold' = 0
  /\ out' = <<>> /\ sent' = <<>> /\ silence' = 0 /\ lost' = 0 /\ found' = 0

-----------------------------------------------------------------------------
(* audio_in_wait_for_speech_start                                          *)

WaitBegins ==
  /\ mic \notin Calling
  /\ opened' = TRUE /\ mic' = "waiting"
  /\ now' = 0 /\ next' = 1 /\ prefix' = <<>> /\ hold' = 0
  /\ out' = <<>> /\ sent' = <<>> /\ silence' = 0 /\ lost' = 0 /\ found' = 0

(* Mutant: a full buffer is emptied, so the speech kept has a start missing.*)
KeptFromScratch(n) == Append(IF Len(prefix) = Preroll + Hold THEN <<>> ELSE prefix, n)

(* The oldest chunk makes room.                                            *)
Kept(n) ==
  Append(IF Len(prefix) = Preroll + Hold THEN Tail(prefix) ELSE prefix, n)

(* A chunk is read as soon as it is there. It counts once the device is     *)
(* armed, and speech has started when enough of them in a row were loud.   *)
WaitReads(level) ==
  /\ mic = "waiting" /\ now < Arm + Patience
  /\ now' = now + 1 /\ next' = now + 2
  /\ IF now < Arm
     THEN UNCHANGED <<prefix, hold, mic, found>>
     ELSE /\ prefix' = Kept(now + 1)
          /\ hold' = IF level = "loud" THEN hold + 1 ELSE 0
          /\ IF hold' >= Hold
             THEN mic' = "found" /\ found' = now + 1
             ELSE UNCHANGED <<mic, found>>
  /\ UNCHANGED <<opened, upload>>

WaitTimesOut ==
  /\ mic = "waiting" /\ now >= Arm + Patience
  /\ Released("timed_out")

-----------------------------------------------------------------------------
(* The codec, while nobody waits for it: i2s in the driver.                *)
MicRunsOn ==
  /\ \/ mic \in {"found", "sending"}
     \/ mic = "reading" /\ next > now
  /\ now' = now + 1
  /\ IF now' - next < DmaChunks
     THEN UNCHANGED <<next, lost>>
     ELSE lost < MaxLost /\ next' = next + 1 /\ lost' = lost + 1
  /\ UNCHANGED <<opened, mic, prefix, hold, found, out, sent, silence>>

-----------------------------------------------------------------------------
(* audio_in_stream_after_speech_start                                      *)

StreamBegins ==
  /\ mic = "found" /\ opened
  /\ out' = prefix /\ mic' = "sending"
  /\ UNCHANGED <<opened, listener, sent, silence, lost>>

StreamReads(level) ==
  /\ mic = "reading" /\ next <= now
  /\ out' = <<next>> /\ next' = next + 1
  /\ silence' = IF level = "silent" THEN silence + 1 ELSE 0
  /\ mic' = "sending"
  /\ UNCHANGED <<opened, now, prefix, hold, found, sent, lost>>

EnoughSent(pcm) ==
  \/ pcm >= MaxPcm
  \/ pcm >= MinPcm /\ silence >= Silence

(* The callback returns: the stream goes on, or is over and the microphone *)
(* closed.                                                                 *)
SinkTakes ==
  /\ mic = "sending"
  /\ sent' = sent \o out /\ out' = <<>>
  /\ IF EnoughSent(Len(sent'))
     THEN mic' = "done" /\ opened' = FALSE
     ELSE mic' = "reading" /\ UNCHANGED opened
  /\ UNCHANGED <<listener, silence, lost>>

-----------------------------------------------------------------------------
(* A read, the sink or an allocation fails: each path closes the microphone.*)
CaptureFails ==
  /\ mic \in Calling
  /\ Released("failed")

CaptureNext == \/ \E level \in Levels : WaitReads(level) \/ StreamReads(level)
               \/ WaitTimesOut \/ SinkTakes

-----------------------------------------------------------------------------
(* The first chunk that must have been kept when speech was found.         *)
Onset ==
  LET first == found - (Preroll + Hold) + 1 IN IF first > Arm THEN first ELSE Arm + 1

(* The recording starts with what was said just before speech was found,   *)
(* and goes on without a gap, a repetition or a swap up to the chunk        *)
(* read last, whatever the buffers did. Only what the driver itself had to *)
(* drop, because nobody read for too long, is missing. (audio_in.c:351)     *)
SpeechIsWhole ==
  LET speech == sent \o out IN
  mic \in {"reading", "sending", "done"} =>
    /\ speech[1] = Onset
    /\ \A i \in 1..Len(speech) - 1 : speech[i] < speech[i + 1]
    /\ next - Onset = Len(speech) + lost
=============================================================================
