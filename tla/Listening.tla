------------------------------ MODULE Listening ------------------------------
(***************************************************************************)
(* Who listens when: the runtime task's loop (app_runtime_task), which has *)
(* the device woken by its word or taken to the Wi-Fi settings, and the    *)
(* pipeline task of a conversation (run_v6_conversation), which needs the  *)
(* same microphone. The conversation's dialogue is DeviceConversation's;   *)
(* here it asks at most MaxQuestions and may fail anywhere.                *)
(***************************************************************************)
EXTENDS Capture, WakeWord

CONSTANTS
  MaxQuestions,   \* a conversation's limit of turns and reprompts
  MaxPresses      \* bound: long presses of the Wi-Fi key

ASSUME LoopAssumption == MaxQuestions \in Nat \ {0} /\ MaxPresses \in Nat

VARIABLES
  busy,       \* s_app_state # APP_STATE_IDLE
  pipeline,   \* where the pipeline task is; s_pipeline_task_handle is NULL at "none"
  asked,      \* how often it has listened
  presses     \* long presses so far

dialogue == <<busy, pipeline, asked>>
vars     == <<capture, wake, dialogue, presses>>

TypeOK ==
  /\ CaptureType /\ WakeType
  /\ busy \in BOOLEAN
  /\ pipeline \in {"none", "begun", "prompting", "listening", "answering", "failing", "leaving"}
  /\ asked \in 0..MaxQuestions /\ presses \in 0..MaxPresses

Init ==
  /\ CaptureInit /\ WakeInit
  /\ busy = TRUE /\ pipeline = "none" /\ asked = 0 /\ presses = 0

-----------------------------------------------------------------------------
(* app_runtime_task                                                        *)

(* trigger_input_init starts the service; the state becomes IDLE.          *)
Boots ==
  /\ at = "booting"
  /\ busy' = FALSE
  /\ Start("idle") /\ UNCHANGED accepting
  /\ UNCHANGED <<capture, pipeline, asked, presses>>

Idle == ~busy /\ pipeline = "none"

(* trigger_input_set_accepting, at the top of the loop.                    *)
LoopSets ==
  /\ at = "idle"
  /\ \/ accepting = Idle /\ at' = "polling" /\ UNCHANGED <<service, trigger, after, faults>>
     \/ ~accepting /\ Idle /\ accepting' = TRUE /\ Start("polling")
     \/ accepting /\ ~Idle /\ Refuse("polling")
  /\ UNCHANGED <<capture, dialogue, presses>>

(* The key has been held long enough: it is looked at before the service.  *)
LongPress ==
  /\ at = "polling" /\ presses < MaxPresses
  /\ presses' = presses + 1 /\ at' = "pressed"
  /\ UNCHANGED <<capture, service, trigger, after, faults, dialogue>>

PressHandled ==
  /\ at = "pressed"
  /\ \/ Idle /\ accepting /\ Refuse("network")
     \/ Idle /\ ~accepting /\ at' = "network" /\ UNCHANGED <<service, trigger, after, faults>>
     \/ ~Idle /\ at' = "idle" /\ UNCHANGED <<service, trigger, after, faults>>
  /\ UNCHANGED <<capture, dialogue, presses>>

(* app_network_reconfigure_blocking returns, sooner or later.              *)
Reconfigured ==
  /\ at = "network"
  /\ accepting' = TRUE /\ Start("idle")
  /\ UNCHANGED <<capture, dialogue, presses>>

(* app_start_pipeline_task, which may find no memory.                      *)
PipelineStarts ==
  /\ at = "event" /\ Idle
  /\ at' = "idle"
  /\ \/ pipeline' = "begun" /\ asked' = 0 /\ UNCHANGED faults
     \/ Fault /\ UNCHANGED <<pipeline, asked>>
  /\ UNCHANGED <<capture, service, trigger, after, busy, presses>>

Loop == Boots \/ LoopSets \/ PressHandled \/ Reconfigured \/ PipelineStarts

-----------------------------------------------------------------------------
(* The pipeline task                                                       *)

(* The state leaves IDLE, and the first prompt is played.                  *)
Begins ==
  /\ pipeline = "begun"
  /\ busy' = TRUE /\ pipeline' \in {"prompting", "failing"}
  /\ UNCHANGED <<capture, wake, asked, presses>>

Listens ==
  /\ pipeline = "prompting"
  /\ \/ WaitBegins /\ pipeline' = "listening"
     \/ pipeline' = "failing" /\ UNCHANGED capture
  /\ asked' = asked + 1
  /\ UNCHANGED <<wake, busy, presses>>

(* Another question, or the end of the conversation.                       *)
GoesOn == pipeline' \in (IF asked < MaxQuestions THEN {"prompting", "leaving"} ELSE {"leaving"})

NobodySpoke ==
  /\ pipeline = "listening" /\ mic = "timed_out"
  /\ GoesOn
  /\ Released("none")
  /\ UNCHANGED <<wake, busy, asked, presses>>

(* cloud_conversation_start_turn                                           *)
TurnOpens ==
  /\ pipeline = "listening" /\ mic = "found"
  /\ \/ StreamBegins /\ UNCHANGED pipeline
     \/ pipeline' = "failing" /\ UNCHANGED capture
  /\ UNCHANGED <<wake, busy, asked, presses>>

(* audio_in_deinit, and the answer is waited for and played.               *)
Recorded ==
  /\ pipeline = "listening" /\ mic = "done"
  /\ Released("none")
  /\ pipeline' = "answering"
  /\ UNCHANGED <<wake, busy, asked, presses>>

ListeningFailed ==
  /\ pipeline = "listening" /\ mic = "failed"
  /\ Released("none")
  /\ pipeline' = "failing"
  /\ UNCHANGED <<wake, busy, asked, presses>>

Answered ==
  /\ pipeline = "answering"
  /\ GoesOn \/ (pipeline' = "failing")
  /\ UNCHANGED <<capture, wake, busy, asked, presses>>

(* The error prompt, then app_cleanup_pipeline_resources.                  *)
Fails ==
  /\ pipeline = "failing"
  /\ Released("none")
  /\ pipeline' = "leaving"
  /\ UNCHANGED <<wake, busy, asked, presses>>

(* The state is IDLE before the handle is NULL.                            *)
Leaves ==
  /\ pipeline = "leaving"
  /\ IF busy THEN busy' = FALSE /\ UNCHANGED pipeline ELSE pipeline' = "none" /\ UNCHANGED busy
  /\ UNCHANGED <<capture, wake, asked, presses>>

Pipeline == Begins \/ Listens \/ NobodySpoke \/ TurnOpens \/ Recorded \/ ListeningFailed
            \/ Answered \/ Fails \/ Leaves

-----------------------------------------------------------------------------
Around == <<capture, dialogue, presses>>

TriggerSteps == Trigger /\ UNCHANGED Around
FeedSteps    == Feed /\ UNCHANGED Around
FetchSteps   == Fetch /\ UNCHANGED Around
WakeElse     == (Detects \/ FeedFails \/ RetryDue \/ CreateFails) /\ UNCHANGED Around
MicSteps     == CaptureNext /\ UNCHANGED <<wake, dialogue, presses>>
MicRuns      == MicRunsOn /\ UNCHANGED <<wake, dialogue, presses>>
MicFails     == CaptureFails /\ UNCHANGED <<wake, dialogue, presses>>

Next == TriggerSteps \/ FeedSteps \/ FetchSteps \/ WakeElse \/ Loop \/ LongPress
        \/ Pipeline \/ MicSteps \/ MicRuns \/ MicFails

(* The tasks and the codec go on: a read, a fetch, a prompt and every wait *)
(* of the conversation end, and so does the time until the next attempt.   *)
(* Nobody is obliged to speak or to press the key.                         *)
Fairness ==
  /\ WF_vars(TriggerSteps \/ Loop) /\ WF_vars(FeedSteps) /\ WF_vars(FetchSteps)
  /\ WF_vars(RetryDue /\ UNCHANGED Around)
  /\ WF_vars(Pipeline) /\ WF_vars(MicSteps) /\ WF_vars(MicRuns)

Spec == Init /\ [][Next]_vars /\ Fairness

-----------------------------------------------------------------------------
(* The microphone is never open twice: a conversation opens it only after  *)
(* the wake word service has given it back, although it was not waited for, *)
(* and the service only after the conversation has, however that ended.    *)
(* (wake_word_service.c:670, main.c:2823)                                  *)
MicHasOneUser == ~(mic_opened /\ opened)

(* After every conversation, every visit to the Wi-Fi settings and every    *)
(* failure, the device hears its word again, unless the recogniser could    *)
(* never be loaded.                                                        *)
ListensAgain == []<>(Hears \/ model = "unavailable")
=============================================================================
