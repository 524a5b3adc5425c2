-------------------------- MODULE DeviceConversation -------------------------
(***************************************************************************)
(* One conversation on the device: the controller that decides what comes  *)
(* next, the loop that carries it out, and the websocket client with the   *)
(* flags its task raises and the loop waits for.                           *)
(*   conversation_controller.c   conversation_controller_handle            *)
(*   main.c                      run_v6_conversation                       *)
(*   cloud_conversation.c        the client                                *)
(* Speech, prompts and playback are outcomes.  A message that could not be *)
(* sent is a message lost: the loop reacts to both alike.                  *)
(***************************************************************************)
EXTENDS Naturals, Sequences

CONSTANTS
  Turns,              \* turn ids: fresh random numbers in the code
  DefaultMaxTurns,    \* CONVERSATION_DEFAULT_MAX_TURNS
  GameMaxTurns        \* CONVERSATION_GAME_MAX_TURNS

VARIABLES
  pc,        \* where run_v6_conversation is
  ctl,       \* conversation_controller_t
  flags,     \* the flags of cloud_conversation_t that are set
  result,    \* cloud_realtime_session_t: has an audio url, status, max_turns
  turn,      \* turn_id of the current attempt
  used,      \* ids already used
  up, down,  \* the websocket, either way
  link,      \* it is connected
  outcome    \* how the conversation ended: "none" yet, "normal", "technical"

client  == <<flags, result, turn, used>>
channel == <<up, down, link>>
vars    == <<pc, ctl, client, channel, outcome>>

State == {"IDLE", "PROMPTING", "RECORDING", "WAITING_RESULT", "PLAYING", "FOLLOWUP_CUE",
          "FOLLOWUP_WINDOW", "REPROMPT", "ENDING", "FAILED"}
TurnFlag == {"turn_started", "turn_terminal", "turn_cancelled", "playback_complete"}
Flag == TurnFlag \cup {"conversation_done", "error_received", "disconnected"}
Pc == {"idle", "opening", "listening", "starting", "recording", "cancelling", "finishing",
       "playing", "completing", "prompting", "closing", "closed"}

NoResult == [url |-> FALSE, status |-> "", max_turns |-> 0]

Controller == [state : State, turn_index : 0..255, followup_count : 0..255,
               max_turns : 1..GameMaxTurns, reprompt_used : BOOLEAN,
               done_prompt_issued : BOOLEAN]

conversation_controller_init ==
  [state |-> "IDLE", turn_index |-> 0, followup_count |-> 0, max_turns |-> DefaultMaxTurns,
   reprompt_used |-> FALSE, done_prompt_issued |-> FALSE]

Init ==
  /\ pc = "idle" /\ ctl = conversation_controller_init
  /\ flags = {} /\ result = NoResult /\ turn = "none" /\ used = {}
  /\ up = << >> /\ down = << >> /\ link = FALSE
  /\ outcome = "none"

-----------------------------------------------------------------------------
(* The controller: a function of its state and an event.  Deadlines are    *)
(* left out: the loop waits for them before it hands in TIMER.             *)

To(c, s, a) == [ctl |-> [c EXCEPT !.state = s], action |-> a]

(* Nothing was said: ask again once per question, then end.                *)
SilenceAsksForever(c) == To([c EXCEPT !.reprompt_used = TRUE], "REPROMPT", "PLAY_REPROMPT") \* mutant

Silence(c) ==
  IF c.reprompt_used
  THEN To([c EXCEPT !.done_prompt_issued = TRUE], "ENDING", "PLAY_DONE")
  ELSE To([c EXCEPT !.reprompt_used = TRUE], "REPROMPT", "PLAY_REPROMPT")

MoreTurnsThanAllowed(c) == c.followup_count < c.max_turns                 \* mutant

MoreTurns(c) == (c.followup_count + 1) % 256 < c.max_turns

conversation_controller_handle(c, event) ==
  LET in(S) == c.state \in S IN
  CASE event = "TECHNICAL_ERROR" -> To(c, "FAILED", "PLAY_TECHNICAL_ERROR")
    [] in({"IDLE"}) /\ event = "BEGIN" -> To(c, "PROMPTING", "OPEN_AND_PROMPT")
    [] in({"PROMPTING", "REPROMPT"}) /\ event = "PROMPT_DONE" ->
         To(c, "RECORDING", "START_RECORDING")
    [] in({"RECORDING"}) /\ event = "RECORDING_DONE" -> To(c, "WAITING_RESULT", "SUBMIT_TURN")
    [] \/ in({"RECORDING"}) /\ event = "SPEECH_TIMEOUT"
       \/ in({"WAITING_RESULT"}) /\ event = "ASR_EMPTY" -> Silence(c)
    [] in({"WAITING_RESULT"}) /\ event = "TURN_RESULT" ->
         To([c EXCEPT !.followup_count = IF c.turn_index > @ THEN c.turn_index ELSE @],
            "PLAYING", "PLAY_ANSWER")
    [] in({"PLAYING"}) /\ event = "PLAYBACK_DONE" ->
         IF MoreTurns(c) THEN To(c, "FOLLOWUP_CUE", "PLAY_FOLLOWUP_CUE")
                         ELSE To(c, "ENDING", "NONE")
    [] in({"FOLLOWUP_CUE"}) /\ event = "PROMPT_DONE" ->
         To(c, "FOLLOWUP_WINDOW", "LISTEN_FOLLOWUP")
    [] in({"FOLLOWUP_WINDOW"}) /\ event = "SPEECH_STARTED" ->
         To([c EXCEPT !.turn_index = (c.followup_count + 1) % 256, !.reprompt_used = FALSE],
            "RECORDING", "START_RECORDING")
    [] in({"FOLLOWUP_WINDOW"}) /\ event \in {"SPEECH_TIMEOUT", "TIMER"} ->
         To([c EXCEPT !.done_prompt_issued = FALSE], "ENDING", "NONE")
    [] in({"ENDING"}) /\ event = "TIMER" /\ ~c.done_prompt_issued ->
         To([c EXCEPT !.done_prompt_issued = TRUE], "ENDING", "PLAY_DONE")
    [] in({"ENDING", "FAILED"}) /\ event = "PROMPT_DONE" -> To(c, "IDLE", "CLOSE")
    [] OTHER -> [ctl |-> c, action |-> "NONE"]

Handled(c, event) == conversation_controller_handle(c, event).ctl

conversation_controller_set_max_turns(c, n) ==
  [c EXCEPT !.max_turns = IF n \in 1..GameMaxTurns THEN n ELSE DefaultMaxTurns]

-----------------------------------------------------------------------------
(* The client's task: v6_handle_json on the head of the websocket.         *)

Msg(type, t, n) == [type |-> type, turn |-> t, n |-> n]

(* The flags a message raises.  turn_complete ends the turn only if no     *)
(* answer is on its way; asr_final raises nothing.                         *)
Raised(m) ==
  IF m.type = "conversation_done" THEN {"conversation_done"}
  ELSE IF m.type = "error" \/ m.turn # turn THEN {"error_received"}
  ELSE CASE m.type = "ack" -> {"turn_started"}
         [] m.type = "turn_result" -> {"turn_terminal"}
         [] m.type \in {"played", "asr_empty", "technical_error"} ->
              {"playback_complete"} \cup (IF result.url THEN {} ELSE {"turn_terminal"})
         [] m.type = "turn_cancelled" -> {"turn_cancelled", "turn_terminal"}
         [] OTHER -> {}

Receive ==
  /\ down # << >> /\ pc # "closed"
  /\ down' = Tail(down)
  /\ LET m == Head(down) IN
     /\ flags' = flags \cup Raised(m)
     /\ result' = IF m.turn # turn THEN result
                  ELSE CASE m.type = "turn_result" -> [result EXCEPT !.url = TRUE]
                         [] m.type \in {"played", "asr_empty", "technical_error"} ->
                              [result EXCEPT
                                 !.status = IF result.url THEN @ ELSE m.type,
                                 !.max_turns = IF m.n = 0 THEN @ ELSE m.n]
                         [] OTHER -> result
  /\ UNCHANGED <<pc, ctl, turn, used, up, link, outcome>>

(* WEBSOCKET_EVENT_DISCONNECTED or _CLOSED.                                *)
Disconnected ==
  /\ ~link /\ down = << >> /\ pc \notin {"idle", "opening", "closed"}
  /\ "disconnected" \notin flags
  /\ flags' = flags \cup {"disconnected"}
  /\ UNCHANGED <<pc, ctl, result, turn, used, channel, outcome>>

Send(m) == up' = (IF link THEN Append(up, m) ELSE up) /\ UNCHANGED <<down, link>>

-----------------------------------------------------------------------------
(* run_v6_conversation.                                                    *)

Go(from, to) == pc = from /\ pc' = to

(* cloud_conversation_close, after the controller's last event.            *)
Close(c, how) ==
  /\ pc' = "closing" /\ ctl' = c /\ outcome' = how
  /\ Send(Msg("conversation_end", turn, 0))
  /\ UNCHANGED client

TechnicalClose == Close(Handled(ctl, "TECHNICAL_ERROR"), "technical")

Begin ==
  /\ Go("idle", "opening") /\ outcome = "none"
  /\ ctl' = Handled(ctl, "BEGIN")
  /\ UNCHANGED <<client, channel, outcome>>

(* The greeting was played and the conversation is open.                   *)
Opened ==
  /\ Go("opening", "listening")
  /\ ctl' = Handled(ctl, "PROMPT_DONE")
  /\ link' = TRUE
  /\ UNCHANGED <<client, up, down, outcome>>

(* No greeting or no connection: technical_failure.                        *)
OpenFails ==
  /\ Go("opening", "closed")
  /\ outcome' = "technical"
  /\ UNCHANGED <<ctl, client, channel>>

Prompt(c) == pc' = "prompting" /\ ctl' = c /\ UNCHANGED <<client, channel, outcome>>

(* audio_in_wait_for_speech_start timed out.  The end of the follow-up     *)
(* window waits for its deadline and asks the controller again.            *)
NobodySpeaks ==
  /\ pc = "listening"
  /\ LET timeout == conversation_controller_handle(ctl, "SPEECH_TIMEOUT")
         final   == IF timeout.action = "PLAY_DONE" THEN timeout
                    ELSE conversation_controller_handle(timeout.ctl, "TIMER")
     IN IF timeout.action = "PLAY_REPROMPT" THEN Prompt(timeout.ctl)
        ELSE IF final.action = "PLAY_DONE"
        THEN Close(Handled(final.ctl, "PROMPT_DONE"), "normal")
        ELSE Close(Handled(final.ctl, "TECHNICAL_ERROR"), "technical")

(* cloud_conversation_start_turn: the previous turn's flags are cleared.   *)
SpeechStarts ==
  /\ Go("listening", "starting") /\ used # Turns
  /\ ctl' = IF ctl.state = "FOLLOWUP_WINDOW" THEN Handled(ctl, "SPEECH_STARTED") ELSE ctl
  /\ LET t == CHOOSE t \in Turns \ used : TRUE IN
     /\ turn' = t /\ used' = used \cup {t}
     /\ flags' = flags \ TurnFlag /\ result' = NoResult
     /\ Send(Msg("turn_start", t, ctl'.turn_index))
  /\ UNCHANGED outcome

MicFails == pc = "listening" /\ TechnicalClose

TurnStarted ==
  /\ Go("starting", "recording") /\ "turn_started" \in flags
  /\ UNCHANGED <<ctl, client, channel, outcome>>

RecordedUntold ==                                                         \* mutant
  /\ Go("recording", "finishing")
  /\ Send(Msg("turn_end", turn, 0))
  /\ UNCHANGED <<ctl, client, outcome>>

(* The recording is uploaded; cloud_conversation_finish_turn.              *)
Recorded ==
  /\ Go("recording", "finishing")
  /\ ctl' = Handled(ctl, "RECORDING_DONE")
  /\ Send(Msg("turn_end", turn, 0))
  /\ UNCHANGED <<client, outcome>>

RecordingFails ==
  /\ Go("recording", "cancelling")
  /\ Send(Msg("turn_cancel", turn, 0))
  /\ UNCHANGED <<ctl, client, outcome>>

(* Cancelled, refused, disconnected or 30 s over: the loop gives up.       *)
CancelOver == pc = "cancelling" /\ TechnicalClose

(* The turn's result is in: nothing was understood, or an answer, or none. *)
TurnOver ==
  /\ pc = "finishing" /\ "turn_terminal" \in flags
  /\ IF result.status = "asr_empty"
     THEN LET empty == conversation_controller_handle(ctl, "ASR_EMPTY") IN
          IF empty.action = "PLAY_REPROMPT" THEN Prompt(empty.ctl)
          ELSE Close(Handled(empty.ctl, "PROMPT_DONE"), "normal")
     ELSE LET ready == conversation_controller_handle(ctl, "TURN_RESULT") IN
          IF ready.action = "PLAY_ANSWER" /\ result.url
          THEN /\ pc' = "playing" /\ ctl' = ready.ctl
               /\ UNCHANGED <<client, channel, outcome>>
          ELSE Close(Handled(ready.ctl, "TECHNICAL_ERROR"), "technical")

(* The answer was heard to its end; cloud_conversation_complete_playback.  *)
Played ==
  /\ Go("playing", "completing")
  /\ flags' = flags \ {"playback_complete"}
  /\ Send(Msg("turn_playback_complete", turn, 0))
  /\ UNCHANGED <<ctl, result, turn, used, outcome>>

PlaybackFails == pc = "playing" /\ TechnicalClose

PlaybackTimesOut == pc = "playing" /\ TechnicalClose

TurnComplete ==
  /\ pc = "completing" /\ "playback_complete" \in flags
  /\ LET told   == conversation_controller_set_max_turns(ctl, result.max_turns)
         played == conversation_controller_handle(told, "PLAYBACK_DONE")
     IN IF played.action = "PLAY_FOLLOWUP_CUE" THEN Prompt(played.ctl)
        ELSE Close(Handled(Handled(played.ctl, "TIMER"), "PROMPT_DONE"), "normal")

(* The reprompt or the follow-up cue was played.                           *)
PromptPlayed ==
  /\ Go("prompting", "listening")
  /\ ctl' = Handled(ctl, "PROMPT_DONE")
  /\ UNCHANGED <<client, channel, outcome>>

PromptFails == pc = "prompting" /\ TechnicalClose

Awaited == [starting |-> "turn_started", finishing |-> "turn_terminal",
            completing |-> "playback_complete"]

Waiting == pc \in DOMAIN Awaited /\ Awaited[pc] \notin flags

(* v6_wait_flag gives up: error_received and disconnected are never        *)
(* cleared; or V6_WAIT_MS have passed.                                     *)
WaitFails == Waiting /\ flags \cap {"error_received", "disconnected"} # {} /\ TechnicalClose

WaitTimesOut == Waiting /\ flags \cap {"error_received", "disconnected"} = {} /\ TechnicalClose

(* conversation_done came, or V6_CLOSE_WAIT_MS passed: v6_destroy.         *)
Closed ==
  /\ Go("closing", "closed")
  /\ link' = FALSE /\ down' = << >>
  /\ UNCHANGED <<ctl, client, up, outcome>>

Proceeds ==
  \/ Begin \/ Opened \/ NobodySpeaks \/ SpeechStarts \/ TurnStarted \/ Recorded \/ TurnOver
  \/ Played \/ TurnComplete \/ PromptPlayed \/ WaitFails \/ CancelOver \/ Closed

Fails ==
  OpenFails \/ MicFails \/ RecordingFails \/ PlaybackFails \/ PromptFails

GivesUp == WaitTimesOut \/ PlaybackTimesOut

-----------------------------------------------------------------------------
(* The controller never gets an event it is not waiting for: wherever the  *)
(* loop is, the controller is in the state the loop's next event needs.    *)
ControllerInStep ==
  /\ pc = "listening" => ctl.state \in {"RECORDING", "FOLLOWUP_WINDOW"}
  /\ pc \in {"starting", "recording", "cancelling"} => ctl.state = "RECORDING"
  /\ pc = "finishing" => ctl.state = "WAITING_RESULT"
  /\ pc \in {"playing", "completing"} => ctl.state = "PLAYING"
  /\ pc = "prompting" => ctl.state \in {"REPROMPT", "FOLLOWUP_CUE"}
  /\ outcome = "normal" => ctl.state = "IDLE"
  /\ ctl \in Controller
==============================================================================
