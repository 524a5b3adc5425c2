------------------------------- MODULE Playback -------------------------------
(***************************************************************************)
(* The playback of answers (playback_session.c) as the conversation uses   *)
(* it (run_v6_conversation in main.c): the pipeline task starts a session  *)
(* with a task of its own and joins it; one that does not end in time is   *)
(* cancelled, joined again, and at last handed to a reaper, while the      *)
(* device goes on to say that something failed and to listen. The prompts  *)
(* in between are played by the task of the prompt arbiter.                *)
(*                                                                         *)
(* Composes Downlink, the answer's way through the session's task and its  *)
(* helpers, and AudioOut, the loudspeaker they all share. Left out:        *)
(* failures to allocate, which end as a refused connection does.           *)
(***************************************************************************)
EXTENDS Downlink

CONSTANTS Arbiter, Pipeline  \* the tasks that use the output besides the sessions

ASSUME TaskAssumption ==
  /\ Users = Sessions \cup {Arbiter, Pipeline}
  /\ Arbiter # Pipeline /\ Arbiter \notin Sessions /\ Pipeline \notin Sessions

VARIABLES
  main,      \* where the pipeline task is
  joining,   \* the session it joins
  prompt,    \* where the arbiter is with the prompt
  said,      \* the prompt waited for is the one of a failure
  reaper,    \* the session the reaper joins
  detached,  \* s_playback_reaper_queue
  left,      \* history: a session was detached
  restarted  \* esp_restart

pipeline == <<main, joining, said>>
reaping  == <<reaper, detached>>
vars     == <<audio, down, corrupted, pipeline, prompt, reaping, left, restarted>>

PlaybackType ==
  /\ main \in {"idle", "joining", "rejoining", "detaching", "waiting", "cleaning"}
  /\ joining \in Sessions \cup {Nobody} /\ reaper \in Sessions \cup {Nobody}
  /\ prompt \in {"idle", "opening", "writing", "closing"}
  /\ detached \in Seq(Sessions) /\ left \in BOOLEAN
  /\ said \in BOOLEAN /\ restarted \in BOOLEAN

TypeOK == AudioType /\ DownType /\ PlaybackType

Init ==
  /\ AudioInit /\ DownInit
  /\ main = "idle" /\ joining = Nobody /\ said = FALSE
  /\ prompt = "idle" /\ reaper = Nobody /\ detached = <<>> /\ left = FALSE /\ restarted = FALSE

-----------------------------------------------------------------------------
(* The session's own task: playback_session_owner.                         *)

(* It finishes the stream of a user before, and opens the output.          *)
OwnerOpens(s) ==
  /\ owner[s] = "opening" /\ closing[s] = "no"
  /\ IF handle
     THEN CloseBegins(s) /\ UNCHANGED <<owner, failed>>
     ELSE \/ /\ Opens(s) /\ owner' = Goes(owner, s, "connecting") /\ UNCHANGED failed
          \/ /\ OpenFails(s) /\ owner' = Goes(owner, s, "publishing") /\ Fails(s, "stream")
  /\ UNCHANGED <<read, silent, encoded, decoding, pcm, sinking, memory, cancelled, opus>>

OwnerCloses(s) ==
  /\ owner[s] = "closing"
  /\ \/ CloseBegins(s) /\ UNCHANGED <<owner, failed>>
     \/ /\ CloseDone(s) /\ owner' = Goes(owner, s, "publishing")
        /\ IF broken THEN Fails(s, "stream") ELSE UNCHANGED failed
  /\ UNCHANGED <<read, silent, encoded, decoding, pcm, sinking, memory, cancelled, opus>>

(* Either way it may have a stream task to delete, and give up.            *)
OwnerWaits(s) ==
  /\ owner[s] \in {"opening", "closing"}
  /\ \/ CloseDeletes(s) /\ UNCHANGED <<owner, failed>>
     \/ /\ owner[s] = "opening" /\ closing[s] = "deleted" /\ CloseDone(s)
        /\ UNCHANGED <<owner, failed>>
     \/ CloseStalls(s) /\ owner' = Goes(owner, s, "publishing") /\ Fails(s, "stream")
  /\ UNCHANGED <<read, silent, encoded, decoding, pcm, sinking, memory, cancelled, opus>>

Ends == [publishing |-> "published", published |-> "suspended"]

OwnerEnds(s) ==
  /\ owner[s] \in DOMAIN Ends
  /\ owner' = Goes(owner, s, Ends[owner[s]])
  /\ UNCHANGED <<read, silent, encoded, decoding, pcm, sinking, failed, memory, cancelled,
                 opus, audio>>

OwnerNext(s) ==
  \/ ReaderNext(s) /\ UNCHANGED audio
  \/ /\ OwnerOpens(s) \/ OwnerCloses(s) \/ OwnerWaits(s) \/ OwnerEnds(s)
     /\ UNCHANGED corrupted

-----------------------------------------------------------------------------
(* playback_session_join, for the pipeline task and for the reaper: once   *)
(* the task has suspended itself, it is deleted and the session freed.     *)
FreesSession(s) ==
  /\ owner[s] = "suspended"
  /\ owner' = Goes(owner, s, "freed")
  /\ read' = [read EXCEPT ![s] = 0]
  /\ failed' = [failed EXCEPT ![s] = {}] /\ cancelled' = [cancelled EXCEPT ![s] = FALSE]
  /\ ragged' = [ragged EXCEPT ![s] = FALSE]
  /\ UNCHANGED <<silent, encoded, decoding, pcm, sinking, memory, tail>>

Cancels(s) ==
  /\ cancelled' = [cancelled EXCEPT ![s] = TRUE]
  /\ UNCHANGED <<net, encoded, decoding, pcm, sinking, failed, memory, opus>>

-----------------------------------------------------------------------------
(* The pipeline task                                                       *)

(* A place is used again when no task of the session before is left.       *)
StartsPlayback ==
  /\ main = "idle"
  /\ \E s \in Sessions :
       /\ owner[s] \in {"none", "freed"} /\ {decoder[s], player[s]} \subseteq {"none", "done"}
       /\ owner' = Goes(owner, s, "opening")
       /\ memory' = [memory EXCEPT ![s] = {}]
       /\ decoder' = Goes(decoder, s, "none") /\ player' = Goes(player, s, "none")
       /\ joining' = s
  /\ main' = "joining"
  /\ UNCHANGED <<audio, read, silent, encoded, inhand, pcm, playing, failed, cancelled, opus,
                 said, prompt, reaping, left, restarted>>

(* A prompt follows: the cue for the next question, or the failure.        *)
Says(failure) ==
  /\ main' = "waiting" /\ joining' = Nobody /\ said' = failure
  /\ prompt' = "opening"

JoinsPlayback ==
  /\ main \in {"joining", "rejoining"}
  /\ FreesSession(joining)
  /\ Says(failed[joining] # {})
  /\ UNCHANGED <<audio, reaping, left, restarted>>

(* What may take the owner more than twenty seconds, or for ever.          *)
Slow(s) == owner[s] \in {"connecting", "reading", "joining", "closing", "gone"}

(* Five seconds after it was cancelled, whoever was not in a longer wait   *)
(* has noticed: the owner is in the network or waits for its tasks, which  *)
(* may have missed their terminal packet, or for a codec that blocks.      *)
Stuck(s) ==
  /\ Slow(s) /\ ~silent[s]
  /\ decoder[s] \in {"none", "done"} \/ (decoder[s] = "waiting" /\ encoded[s] = <<>>)
  /\ player[s] \in {"none", "done"} \/ (player[s] = "waiting" /\ pcm[s] = <<>>)
  /\ owner[s] = "joining" => ~TasksDone(s)
  /\ owner[s] = "closing" => closing[s] = "waiting" /\ Blocked

(* No progress for twenty seconds, then for five.                          *)
JoinTimesOut ==
  /\ main \in {"joining", "rejoining"}
  /\ IF main = "joining" THEN Slow(joining) ELSE Stuck(joining)
  /\ Cancels(joining)
  /\ main' = IF main = "joining" THEN "rejoining" ELSE "detaching"
  /\ UNCHANGED <<audio, joining, said, prompt, reaping, left, restarted>>

Detaches ==
  /\ main = "detaching"
  /\ IF detached = <<>>
     THEN /\ detached' = <<joining>> /\ left' = TRUE
          /\ Says(TRUE)
          /\ UNCHANGED restarted
     ELSE /\ restarted' = TRUE
          /\ UNCHANGED <<detached, left, main, joining, said, prompt>>
  /\ UNCHANGED <<audio, down, reaper>>

(* Mutant: the pipeline goes on while the prompt is played.                *)
PromptUnheard ==
  /\ main = "waiting"
  /\ main' = IF said THEN "cleaning" ELSE "idle"
  /\ UNCHANGED <<audio, down, joining, said, prompt, reaping, left, restarted>>

(* prompt_arbiter_wait_key: its fifteen seconds are longer than closing    *)
(* what was open, and the prompt.                                          *)
PromptHeard ==
  /\ main = "waiting" /\ prompt = "idle"
  /\ main' = IF said THEN "cleaning" ELSE "idle"
  /\ UNCHANGED <<audio, down, joining, said, prompt, reaping, left, restarted>>

(* audio_out_deinit                                                        *)
CleansUp ==
  /\ main = "cleaning"
  /\ \/ handle /\ CloseBegins(Pipeline) /\ UNCHANGED main
     \/ CloseDeletes(Pipeline) /\ UNCHANGED main
     \/ CloseStalls(Pipeline) /\ main' = "idle"
     \/ closing[Pipeline] = "deleted" /\ CloseDone(Pipeline) /\ UNCHANGED main
     \/ closing[Pipeline] = "no" /\ ~handle /\ OpenFails(Pipeline) /\ main' = "idle"
  /\ UNCHANGED <<down, joining, said, prompt, reaping, left, restarted>>

MainNext ==
  /\ StartsPlayback \/ JoinsPlayback \/ JoinTimesOut \/ Detaches \/ PromptHeard \/ CleansUp
  /\ UNCHANGED corrupted

-----------------------------------------------------------------------------
(* playback_session_reaper                                                 *)
ReaperTakes ==
  /\ reaper = Nobody /\ detached # <<>>
  /\ reaper' = Head(detached) /\ detached' = Tail(detached)
  /\ UNCHANGED <<audio, down, pipeline, prompt, left, restarted>>

ReaperJoins ==
  /\ reaper # Nobody /\ FreesSession(reaper)
  /\ reaper' = Nobody
  /\ UNCHANGED <<audio, pipeline, prompt, detached, left, restarted>>

ReaperNext == (ReaperTakes \/ ReaperJoins) /\ UNCHANGED corrupted

-----------------------------------------------------------------------------
(* audio_out_play_pcm_buffer, in the arbiter's task                        *)
PromptOpens ==
  /\ prompt = "opening"
  /\ \/ closing[Arbiter] = "no" /\ handle /\ CloseBegins(Arbiter) /\ UNCHANGED prompt
     \/ CloseDeletes(Arbiter) /\ UNCHANGED prompt
     \/ CloseStalls(Arbiter) /\ prompt' = "idle"
     \/ closing[Arbiter] = "deleted" /\ CloseDone(Arbiter) /\ UNCHANGED prompt
     \/ closing[Arbiter] = "no" /\ ~handle /\ Opens(Arbiter) /\ prompt' = "writing"
     \/ closing[Arbiter] = "no" /\ ~handle /\ OpenFails(Arbiter) /\ prompt' = "idle"

PromptCloses ==
  /\ prompt \in {"writing", "closing"}
  /\ \/ CloseBegins(Arbiter) /\ prompt' = "closing"
     \/ CloseDeletes(Arbiter) /\ UNCHANGED prompt
     \/ (CloseStalls(Arbiter) \/ CloseDone(Arbiter)) /\ prompt' = "idle"

PromptNext ==
  /\ PromptOpens \/ PromptCloses
  /\ UNCHANGED <<down, corrupted, pipeline, reaping, left, restarted>>

-----------------------------------------------------------------------------
(* A restart or a crash ends the behaviour: nothing of this is kept, and   *)
(* of memory that was overwritten nothing more can be said.                *)
Running == ~restarted /\ ~crashed /\ ~corrupted

Others == UNCHANGED <<pipeline, prompt, reaping, left, restarted>>

SpeakerNext == Running /\ StreamNext /\ UNCHANGED <<down, corrupted>> /\ Others

OwnerStep(s)   == Running /\ OwnerNext(s) /\ Others
DecoderStep(s) == Running /\ DecoderNext(s) /\ UNCHANGED audio /\ Others
PlayerStep(s)  == Running /\ PlayerNext(s) /\ Others

Next ==
  \/ Running /\ (MainNext \/ ReaperNext \/ PromptNext)
  \/ SpeakerNext
  \/ \E s \in Sessions : OwnerStep(s) \/ DecoderStep(s) \/ PlayerStep(s)

(* Tasks of one scheduler: each goes on, and each limit on a wait expires. *)
(* Nobody is obliged to ask the next question.                             *)
Fairness ==
  /\ WF_vars(SpeakerNext)
  /\ WF_vars(Running /\ ReaperNext)
  /\ WF_vars(Running /\ PromptNext)
  /\ WF_vars(Running /\ main # "idle" /\ MainNext)
  /\ \A s \in Sessions : WF_vars(OwnerStep(s)) /\ WF_vars(DecoderStep(s)) /\ WF_vars(PlayerStep(s))

Spec == Init /\ [][Next]_vars /\ Fairness

-----------------------------------------------------------------------------
UsingSpeaker ==
  {s \in Sessions :
     owner[s] \notin {"none", "publishing", "published", "suspended", "freed"}}
    \cup {u \in {Arbiter} : prompt # "idle"} \cup {u \in {Pipeline} : main = "cleaning"}

(* The output has no owner but whoever is between open and close. Unless a *)
(* playback was given up and handed to the reaper, the session's task, the *)
(* arbiter's and the pipeline's never use it at the same time, although    *)
(* none of them asks whether another does.                                 *)
SpeakerHasOneUser ==
  ~left => ~crashed /\ \A u, v \in UsingSpeaker : u = v

(* Who takes a packet out of a queue frees it: what is allocated is what a *)
(* queue holds or a task has in its hand, whatever fails where, so nothing *)
(* is freed twice and nothing forgotten. Only a task deleted for taking    *)
(* too long takes its packet with it.                                      *)
PacketsFreedOnce ==
  \A s \in Sessions : memory[s] = Queued(s) \cup DecoderHolds(s) \cup PlayerHolds(s)

(* Packets are freed once. When the task of a session has left the frame   *)
(* with the queues, its helpers have published their end and the queues    *)
(* are empty: of the frame they use no more than the handle that each      *)
(* clears after its end was published (Downlink.FrameLeft). A session is   *)
(* not freed while its task closes the output. The jitter buffer is not    *)
(* deleted under the stream task or under a write, unless a playback was   *)
(* given up.                                                               *)
NothingFreedInUse ==
  /\ PacketsFreedOnce
  /\ \A s \in Sessions : FrameLeft(s) /\ owner[s] # "gone" =>
       /\ \A place \in {decoder[s], player[s]} : place = "none" \/ Published(place)
       /\ encoded[s] = <<>> /\ pcm[s] = <<>>
       /\ owner[s] = "freed" => closing[s] = "no"
  /\ ~left /\ stream \in {"prebuffering", "receiving"} => ring.there
  /\ \A s \in Sessions : ~left /\ player[s] = "sending" => ring.there

FirstFrames(s, k) == [i \in 1..k |-> [session |-> s, n |-> i]]

(* When the conversation is told that the answer was played, the codec got *)
(* every frame of it, once and in order, through two queues, two tasks,    *)
(* the jitter buffer and its task. The exception is an answer that ends    *)
(* within an Opus packet: cloud_client.c:3103 means it to be an error, but *)
(* looks after line 3080 has cleared what it looks at, so the conversation *)
(* is told that it was played although its last frame was not heard.       *)
HeardWhole ==
  [][~left /\ main \in {"joining", "rejoining"} /\ main' = "waiting" /\ ~said'
       => heard = FirstFrames(joining, IF ragged[joining] THEN Frames[joining] - 1
                                                          ELSE Frames[joining])]_vars

(* What ends the device, or leaves it to chance: the stream task deleted   *)
(* twice by two who close the output, once a playback was given up; a      *)
(* helper deleted twice, or one that wrote into its owner's frame too late.*)
Accident == (crashed /\ left) \/ corrupted

(* A playback ends whatever the network, the server and the codec do, also *)
(* when the connection only stays silent: the one who joins it cancels it. *)
(* It is freed, and the conversation goes on, with these exceptions: the   *)
(* session's task may delete itself for a helper that ended (then only the *)
(* session is never freed), the device restarts itself when the reaper has *)
(* no room, and it may come to an accident.                                *)
PlaybackSettles ==
  /\ \A s \in Sessions :
       owner[s] = "opening" ~> owner[s] \in {"freed", "gone"} \/ restarted \/ Accident
  /\ main # "idle" ~> main = "idle" \/ restarted \/ Accident
===============================================================================
