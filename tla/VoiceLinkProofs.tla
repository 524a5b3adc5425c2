--------------------------- MODULE VoiceLinkProofs ---------------------------
(***************************************************************************)
(* Proofs about VoiceLink: a device and the server, for every set of turn  *)
(* ids, all limits and any number of failures.                             *)
(***************************************************************************)
EXTENDS VoiceLink, ConversationV6Proofs

-----------------------------------------------------------------------------
(* The controller, event by event                                          *)

At(c, s) == [c EXCEPT !.state = s]

LEMMA FailsAlways ==
  ASSUME NEW c PROVE D!Handled(c, "TECHNICAL_ERROR") = At(c, "FAILED")
<1>1. D!conversation_controller_handle(c, "TECHNICAL_ERROR") = D!To(c, "FAILED", "PLAY_TECHNICAL_ERROR")
  BY DEF D!conversation_controller_handle
<1> QED BY <1>1 DEF D!Handled, D!To, At

LEMMA Begins ==
  ASSUME NEW c, c.state = "IDLE" PROVE D!Handled(c, "BEGIN") = At(c, "PROMPTING")
<1>1. D!conversation_controller_handle(c, "BEGIN") = D!To(c, "PROMPTING", "OPEN_AND_PROMPT")
  BY DEF D!conversation_controller_handle
<1> QED BY <1>1 DEF D!Handled, D!To, At

(* A prompt is over.                                                       *)
LEMMA Prompted ==
  ASSUME NEW c
  PROVE  /\ c.state \in {"PROMPTING", "REPROMPT"} =>
              D!Handled(c, "PROMPT_DONE") = At(c, "RECORDING")
         /\ c.state = "FOLLOWUP_CUE" => D!Handled(c, "PROMPT_DONE") = At(c, "FOLLOWUP_WINDOW")
         /\ c.state \in {"ENDING", "FAILED"} => D!Handled(c, "PROMPT_DONE") = At(c, "IDLE")
<1>1. c.state \in {"PROMPTING", "REPROMPT"} =>
       D!conversation_controller_handle(c, "PROMPT_DONE") = D!To(c, "RECORDING", "START_RECORDING")
  BY DEF D!conversation_controller_handle
<1>2. c.state = "FOLLOWUP_CUE" =>
       D!conversation_controller_handle(c, "PROMPT_DONE") = D!To(c, "FOLLOWUP_WINDOW", "LISTEN_FOLLOWUP")
  BY DEF D!conversation_controller_handle
<1>3. c.state \in {"ENDING", "FAILED"} =>
       D!conversation_controller_handle(c, "PROMPT_DONE") = D!To(c, "IDLE", "CLOSE")
  BY DEF D!conversation_controller_handle
<1> QED BY <1>1, <1>2, <1>3 DEF D!Handled, D!To, At

LEMMA Records ==
  ASSUME NEW c, c.state = "RECORDING"
  PROVE  D!Handled(c, "RECORDING_DONE") = At(c, "WAITING_RESULT")
<1>1. D!conversation_controller_handle(c, "RECORDING_DONE") = D!To(c, "WAITING_RESULT", "SUBMIT_TURN")
  BY DEF D!conversation_controller_handle
<1> QED BY <1>1 DEF D!Handled, D!To, At

LEMMA FollowsUp ==
  ASSUME NEW c, c.state = "FOLLOWUP_WINDOW"
  PROVE  D!Handled(c, "SPEECH_STARTED") =
           At([c EXCEPT !.turn_index = (c.followup_count + 1) % 256, !.reprompt_used = FALSE],
              "RECORDING")
<1>1. D!conversation_controller_handle(c, "SPEECH_STARTED") =
       D!To([c EXCEPT !.turn_index = (c.followup_count + 1) % 256, !.reprompt_used = FALSE],
            "RECORDING", "START_RECORDING")
  BY DEF D!conversation_controller_handle
<1> QED BY <1>1 DEF D!Handled, D!To, At

LEMMA WindowCloses ==
  ASSUME NEW c, c.state = "FOLLOWUP_WINDOW"
  PROVE  D!conversation_controller_handle(c, "SPEECH_TIMEOUT") =
           [ctl |-> At([c EXCEPT !.done_prompt_issued = FALSE], "ENDING"), action |-> "NONE"]
<1>1. D!conversation_controller_handle(c, "SPEECH_TIMEOUT") =
       D!To([c EXCEPT !.done_prompt_issued = FALSE], "ENDING", "NONE")
  BY DEF D!conversation_controller_handle
<1> QED BY <1>1 DEF D!To, At

LEMMA Ends ==
  ASSUME NEW c, c.state = "ENDING"
  PROVE  /\ ~c.done_prompt_issued =>
              D!conversation_controller_handle(c, "TIMER") =
                [ctl |-> At([c EXCEPT !.done_prompt_issued = TRUE], "ENDING"),
                 action |-> "PLAY_DONE"]
         /\ c.done_prompt_issued =>
              D!conversation_controller_handle(c, "TIMER") = [ctl |-> c, action |-> "NONE"]
<1>1. ~c.done_prompt_issued =>
       D!conversation_controller_handle(c, "TIMER") =
         D!To([c EXCEPT !.done_prompt_issued = TRUE], "ENDING", "PLAY_DONE")
  BY DEF D!conversation_controller_handle
<1>2. c.done_prompt_issued => D!conversation_controller_handle(c, "TIMER") = [ctl |-> c, action |-> "NONE"]
  BY DEF D!conversation_controller_handle
<1> QED BY <1>1, <1>2 DEF D!To, At

LEMMA Silent ==
  ASSUME NEW c, c.state \in {"RECORDING", "WAITING_RESULT"}
  PROVE  /\ c.state = "RECORDING" =>
              D!conversation_controller_handle(c, "SPEECH_TIMEOUT") = D!Silence(c)
         /\ c.state = "WAITING_RESULT" =>
              D!conversation_controller_handle(c, "ASR_EMPTY") = D!Silence(c)
BY DEF D!conversation_controller_handle

LEMMA SilenceIs ==
  ASSUME NEW c
  PROVE  /\ c.reprompt_used =>
              D!Silence(c) = [ctl |-> At([c EXCEPT !.done_prompt_issued = TRUE], "ENDING"),
                              action |-> "PLAY_DONE"]
         /\ ~c.reprompt_used =>
              D!Silence(c) = [ctl |-> At([c EXCEPT !.reprompt_used = TRUE], "REPROMPT"),
                              action |-> "PLAY_REPROMPT"]
BY DEF D!Silence, D!To, At

LEMMA AnswerPlays ==
  ASSUME NEW c, c.state = "WAITING_RESULT"
  PROVE  D!conversation_controller_handle(c, "TURN_RESULT") =
           [ctl |-> At([c EXCEPT !.followup_count = IF c.turn_index > @ THEN c.turn_index ELSE @],
                       "PLAYING"),
            action |-> "PLAY_ANSWER"]
<1>1. D!conversation_controller_handle(c, "TURN_RESULT") =
       D!To([c EXCEPT !.followup_count = IF c.turn_index > @ THEN c.turn_index ELSE @],
            "PLAYING", "PLAY_ANSWER")
  BY DEF D!conversation_controller_handle
<1> QED BY <1>1 DEF D!To, At

LEMMA PlaybackDone ==
  ASSUME NEW c, c.state = "PLAYING"
  PROVE  /\ D!MoreTurns(c) =>
              D!conversation_controller_handle(c, "PLAYBACK_DONE") =
                [ctl |-> At(c, "FOLLOWUP_CUE"), action |-> "PLAY_FOLLOWUP_CUE"]
         /\ ~D!MoreTurns(c) =>
              D!conversation_controller_handle(c, "PLAYBACK_DONE") =
                [ctl |-> At(c, "ENDING"), action |-> "NONE"]
<1>1. D!MoreTurns(c) =>
       D!conversation_controller_handle(c, "PLAYBACK_DONE") = D!To(c, "FOLLOWUP_CUE", "PLAY_FOLLOWUP_CUE")
  BY DEF D!conversation_controller_handle
<1>2. ~D!MoreTurns(c) => D!conversation_controller_handle(c, "PLAYBACK_DONE") = D!To(c, "ENDING", "NONE")
  BY DEF D!conversation_controller_handle
<1> QED BY <1>1, <1>2 DEF D!To, At

(* Whatever the event, the controller keeps its type.                      *)
LEMMA StaysController ==
  ASSUME NEW c \in D!Controller
  PROVE  /\ \A s \in D!State : At(c, s) \in D!Controller /\ At(c, s).state = s
         /\ \A b \in BOOLEAN : [c EXCEPT !.reprompt_used = b] \in D!Controller
         /\ \A b \in BOOLEAN : [c EXCEPT !.done_prompt_issued = b] \in D!Controller
         /\ \A n \in 0..255 : [c EXCEPT !.turn_index = n] \in D!Controller
         /\ \A n \in 0..255 : [c EXCEPT !.followup_count = n] \in D!Controller
         /\ \A n \in 1..GameMaxTurns : [c EXCEPT !.max_turns = n] \in D!Controller
<1>1. \A s \in D!State : At(c, s) \in D!Controller /\ At(c, s).state = s
  BY DEF D!Controller, At
<1>2. /\ \A b \in BOOLEAN : [c EXCEPT !.reprompt_used = b] \in D!Controller
      /\ \A b \in BOOLEAN : [c EXCEPT !.done_prompt_issued = b] \in D!Controller
  BY DEF D!Controller
<1>3. \A n \in 0..255 : [c EXCEPT !.turn_index = n] \in D!Controller
  BY DEF D!Controller
<1>4. \A n \in 0..255 : [c EXCEPT !.followup_count = n] \in D!Controller
  BY DEF D!Controller
<1>5. \A n \in 1..GameMaxTurns : [c EXCEPT !.max_turns = n] \in D!Controller
  BY DEF D!Controller
<1> QED BY <1>1, <1>2, <1>3, <1>4, <1>5

-----------------------------------------------------------------------------
(* The device                                                              *)

InTurn == {"starting", "recording", "cancelling", "finishing", "playing", "completing"}

Control ==
  [type : {"turn_start", "turn_end", "turn_playback_complete", "turn_cancel"},
   turn : Turns, n : 0..255]
  \cup [type : {"conversation_end"}, turn : Turns \cup {"none"}, n : {0}]

(* The controller is in step with the loop, and what the loop sends is     *)
(* about a turn it has begun.                                              *)
DeviceInv ==
  /\ InStep
  /\ pc = "idle" => ctl.state = "IDLE"
  /\ pc = "opening" => ctl.state = "PROMPTING"
  /\ outcome # "none" => pc \in {"closing", "closed"}
  /\ used \subseteq Turns
  /\ turn \in Turns \cup {"none"}
  /\ pc \in InTurn => turn \in Turns
  /\ up \in Seq(Control)

LEMMA DeviceInit == LinkInit => DeviceInv
<1>1. ASSUME LinkInit PROVE ctl \in D!Controller
  BY <1>1, LimitsAssumption
     DEF LinkInit, D!Init, D!conversation_controller_init, D!Controller, D!State
<1>2. ASSUME LinkInit PROVE ctl.state = "IDLE"
  BY <1>2 DEF LinkInit, D!Init, D!conversation_controller_init
<1>3. ASSUME LinkInit
      PROVE  pc = "idle" /\ outcome = "none" /\ used = {} /\ turn = "none" /\ up = << >>
  BY <1>3 DEF LinkInit, D!Init
<1>4. << >> \in Seq(Control)
  OBVIOUS
<1> QED
  BY <1>1, <1>2, <1>3, <1>4 DEF DeviceInv, InStep, D!ControllerInStep, InTurn

LEMMA EndIsControl ==
  ASSUME turn \in Turns \cup {"none"}
  PROVE  D!Msg("conversation_end", turn, 0) \in Control
BY DEF D!Msg, Control

LEMMA TurnIsControl ==
  ASSUME NEW t \in Turns, NEW n \in 0..255,
         NEW type \in {"turn_start", "turn_end", "turn_playback_complete", "turn_cancel"}
  PROVE  D!Msg(type, t, n) \in Control
BY DEF D!Msg, Control

LEMMA SendsControl ==
  ASSUME NEW m \in Control, up \in Seq(Control), D!Send(m) PROVE up' \in Seq(Control)
BY DEF D!Send

(* A conversation that ends.                                               *)
LEMMA Closes ==
  ASSUME DeviceInv, NEW c \in D!Controller, NEW how,
         how = "normal" => c.state = "IDLE", D!Close(c, how)
  PROVE  DeviceInv'
<1>1. up' \in Seq(Control)
  BY EndIsControl, SendsControl DEF D!Close, DeviceInv
<1>2. /\ pc' = "closing" /\ ctl' = c /\ outcome' = how
      /\ turn' = turn /\ used' = used
  BY DEF D!Close, D!client
<1> QED
  BY <1>1, <1>2 DEF DeviceInv, InStep, D!ControllerInStep, InTurn

LEMMA ClosesTechnically == DeviceInv /\ D!TechnicalClose => DeviceInv'
<1> SUFFICES ASSUME DeviceInv, D!TechnicalClose PROVE DeviceInv'
  OBVIOUS
<1> DEFINE c == D!Handled(ctl, "TECHNICAL_ERROR")
<1>1. c = At(ctl, "FAILED")
  BY FailsAlways
<1>2. c \in D!Controller
  <2>1. ctl \in D!Controller /\ "FAILED" \in D!State
    BY DEF DeviceInv, InStep, D!ControllerInStep, D!State
  <2>2. At(ctl, "FAILED") \in D!Controller
    BY <2>1, StaysController
  <2> QED BY <1>1, <2>2
<1> HIDE DEF c
<1>3. D!Close(c, "technical")
  BY DEF D!TechnicalClose, c
<1> QED BY <1>2, <1>3, Closes

(* A prompt that is played.                                                *)
LEMMA Prompts ==
  ASSUME DeviceInv, NEW c \in D!Controller, pc \notin {"closing", "closed"},
         c.state \in {"REPROMPT", "FOLLOWUP_CUE"}, D!Prompt(c)
  PROVE  DeviceInv'
<1>1. /\ pc' = "prompting" /\ ctl' = c /\ outcome' = outcome
      /\ turn' = turn /\ used' = used /\ up' = up
  BY DEF D!Prompt, D!client, D!channel
<1> QED
  BY <1>1 DEF DeviceInv, InStep, D!ControllerInStep, InTurn

(* What the loop decides: to ask again or go on, or to close.              *)
EndsWell == \E c \in D!Controller : c.state = "IDLE" /\ D!Close(c, "normal")

AsksAgain ==
  /\ ~ctl.reprompt_used
  /\ D!Prompt(At([ctl EXCEPT !.reprompt_used = TRUE], "REPROMPT"))

(* The controller closes from ENDING.                                      *)
LEMMA EndsFrom ==
  ASSUME NEW c \in D!Controller, c.state = "ENDING",
         D!Close(D!Handled(c, "PROMPT_DONE"), "normal")
  PROVE  EndsWell
<1>1. D!Handled(c, "PROMPT_DONE") = At(c, "IDLE")
  BY Prompted
<1>2. At(c, "IDLE") \in D!Controller /\ At(c, "IDLE").state = "IDLE"
  BY StaysController DEF D!State
<1> QED BY <1>1, <1>2 DEF EndsWell

LEMMA NobodySpeaksDoes ==
  DeviceInv /\ D!NobodySpeaks => (ctl.state = "RECORDING" /\ AsksAgain) \/ EndsWell
<1> SUFFICES ASSUME DeviceInv, D!NobodySpeaks
             PROVE  (ctl.state = "RECORDING" /\ AsksAgain) \/ EndsWell
  OBVIOUS
<1> DEFINE timeout == D!conversation_controller_handle(ctl, "SPEECH_TIMEOUT")
           final == IF timeout.action = "PLAY_DONE" THEN timeout
                    ELSE D!conversation_controller_handle(timeout.ctl, "TIMER")
<1>1. pc = "listening" /\ ctl \in D!Controller /\ ctl.state \in {"RECORDING", "FOLLOWUP_WINDOW"}
  BY DEF DeviceInv, InStep, D!ControllerInStep, D!NobodySpeaks
<1>2. CASE ctl.state = "RECORDING" /\ ~ctl.reprompt_used
  <2> DEFINE c == At([ctl EXCEPT !.reprompt_used = TRUE], "REPROMPT")
  <2>1. timeout = D!Silence(ctl)
    BY <1>2, Silent
  <2>2. D!Silence(ctl) = [ctl |-> c, action |-> "PLAY_REPROMPT"]
    BY <1>2, SilenceIs
  <2> HIDE DEF c
  <2>3. D!Prompt(c)
    BY <2>1, <2>2 DEF D!NobodySpeaks
  <2> QED BY <1>2, <2>3 DEF AsksAgain, c
<1>3. ASSUME NEW c \in D!Controller, c.state = "ENDING", timeout.action # "PLAY_REPROMPT",
             final = [ctl |-> c, action |-> "PLAY_DONE"]
      PROVE  EndsWell
  <2>1. D!Close(D!Handled(final.ctl, "PROMPT_DONE"), "normal")
    BY <1>3 DEF D!NobodySpeaks
  <2> QED BY <1>3, <2>1, EndsFrom
<1>4. CASE ctl.state = "RECORDING" /\ ctl.reprompt_used
  <2> DEFINE c == At([ctl EXCEPT !.done_prompt_issued = TRUE], "ENDING")
  <2>1. timeout = D!Silence(ctl)
    BY <1>4, Silent
  <2>2. D!Silence(ctl) = [ctl |-> c, action |-> "PLAY_DONE"]
    BY <1>4, SilenceIs
  <2>3. c \in D!Controller /\ c.state = "ENDING"
    BY <1>1, StaysController DEF D!State
  <2> HIDE DEF c
  <2>4. timeout = [ctl |-> c, action |-> "PLAY_DONE"]
    BY <2>1, <2>2
  <2> QED BY <2>3, <2>4, <1>3
<1>5. CASE ctl.state = "FOLLOWUP_WINDOW"
  <2> DEFINE c == At([ctl EXCEPT !.done_prompt_issued = FALSE], "ENDING")
             d == At([c EXCEPT !.done_prompt_issued = TRUE], "ENDING")
  <2>1. timeout = [ctl |-> c, action |-> "NONE"]
    BY <1>5, WindowCloses
  <2>2. c \in D!Controller /\ c.state = "ENDING"
    BY <1>1, StaysController DEF D!State
  <2>3. ~c.done_prompt_issued
    BY <1>1 DEF D!Controller, At
  <2>4. d \in D!Controller /\ d.state = "ENDING"
    BY <2>2, StaysController DEF D!State
  <2> HIDE DEF c
  <2>5. D!conversation_controller_handle(c, "TIMER") = [ctl |-> d, action |-> "PLAY_DONE"]
    BY <2>2, <2>3, Ends
  <2> HIDE DEF d
  <2> QED BY <2>1, <2>4, <2>5, <1>3
<1> QED BY <1>1, <1>2, <1>4, <1>5

(* The turn counts as one of those answered, and its answer is played.     *)
Highest(c) == IF c.turn_index > c.followup_count THEN c.turn_index ELSE c.followup_count

PlaysAnswer ==
  /\ pc' = "playing" /\ ctl' = At([ctl EXCEPT !.followup_count = Highest(ctl)], "PLAYING")
  /\ UNCHANGED <<flags, result, turn, used, up, down, link, outcome>>

LEMMA TurnOverDoes ==
  DeviceInv /\ D!TurnOver =>
    \/ result.status = "asr_empty" /\ (AsksAgain \/ EndsWell)
    \/ result.status # "asr_empty" /\ result.url /\ PlaysAnswer
    \/ /\ result.status # "asr_empty" /\ ~result.url
       /\ \E c \in D!Controller : D!Close(c, "technical")
<1> SUFFICES ASSUME DeviceInv, D!TurnOver
             PROVE  \/ result.status = "asr_empty" /\ (AsksAgain \/ EndsWell)
                    \/ result.status # "asr_empty" /\ result.url /\ PlaysAnswer
                    \/ /\ result.status # "asr_empty" /\ ~result.url
                       /\ \E c \in D!Controller : D!Close(c, "technical")
  OBVIOUS
<1>1. pc = "finishing" /\ ctl \in D!Controller /\ ctl.state = "WAITING_RESULT"
  BY DEF DeviceInv, InStep, D!ControllerInStep, D!TurnOver
<1>2. CASE result.status = "asr_empty" /\ ~ctl.reprompt_used
  <2> DEFINE c == At([ctl EXCEPT !.reprompt_used = TRUE], "REPROMPT")
             empty == D!conversation_controller_handle(ctl, "ASR_EMPTY")
  <2>1. empty = D!Silence(ctl)
    BY <1>1, Silent
  <2>2. D!Silence(ctl) = [ctl |-> c, action |-> "PLAY_REPROMPT"]
    BY <1>2, SilenceIs
  <2> HIDE DEF c
  <2>3. D!Prompt(c)
    BY <1>2, <2>1, <2>2 DEF D!TurnOver
  <2> QED BY <1>2, <2>3 DEF AsksAgain, c
<1>3. CASE result.status = "asr_empty" /\ ctl.reprompt_used
  <2> DEFINE c == At([ctl EXCEPT !.done_prompt_issued = TRUE], "ENDING")
             empty == D!conversation_controller_handle(ctl, "ASR_EMPTY")
  <2>1. empty = D!Silence(ctl)
    BY <1>1, Silent
  <2>2. D!Silence(ctl) = [ctl |-> c, action |-> "PLAY_DONE"]
    BY <1>3, SilenceIs
  <2>3. c \in D!Controller /\ c.state = "ENDING"
    BY <1>1, StaysController DEF D!State
  <2> HIDE DEF c
  <2>4. D!Close(D!Handled(c, "PROMPT_DONE"), "normal")
    BY <1>3, <2>1, <2>2 DEF D!TurnOver
  <2> QED BY <1>3, <2>3, <2>4, EndsFrom
<1>4. CASE result.status # "asr_empty"
  <2> DEFINE c == At([ctl EXCEPT !.followup_count = Highest(ctl)], "PLAYING")
             ready == D!conversation_controller_handle(ctl, "TURN_RESULT")
  <2>1. ready = [ctl |-> c, action |-> "PLAY_ANSWER"]
    BY <1>1, AnswerPlays DEF Highest
  <2>2. c \in D!Controller
    <3>1. Highest(ctl) \in 0..255
      BY <1>1 DEF D!Controller, Highest
    <3>2. [ctl EXCEPT !.followup_count = Highest(ctl)] \in D!Controller
      BY <1>1, <3>1, StaysController
    <3> QED BY <3>2, StaysController DEF D!State
  <2> HIDE DEF c
  <2>3. CASE result.url
    <3>1. pc' = "playing" /\ ctl' = c /\ UNCHANGED <<flags, result, turn, used, up, down, link, outcome>>
      BY <1>4, <2>1, <2>3 DEF D!TurnOver, D!client, D!channel
    <3> QED BY <1>4, <2>3, <3>1 DEF PlaysAnswer, c
  <2>4. CASE ~result.url
    <3>1. D!Close(D!Handled(c, "TECHNICAL_ERROR"), "technical")
      BY <1>4, <2>1, <2>4 DEF D!TurnOver
    <3>2. D!Handled(c, "TECHNICAL_ERROR") = At(c, "FAILED")
      BY FailsAlways
    <3>3. At(c, "FAILED") \in D!Controller
      BY <2>2, StaysController DEF D!State
    <3> QED BY <1>4, <2>4, <3>1, <3>2, <3>3
  <2> QED BY <2>3, <2>4
<1> QED BY <1>2, <1>3, <1>4

Limited(n) == D!conversation_controller_set_max_turns(ctl, n)

LEMMA LimitedType ==
  ASSUME ctl \in D!Controller, NEW n
  PROVE  /\ Limited(n) \in D!Controller /\ Limited(n).state = ctl.state
         /\ Limited(n).turn_index = ctl.turn_index /\ Limited(n).followup_count = ctl.followup_count
         /\ n \in 1..GameMaxTurns => Limited(n).max_turns = n
<1> DEFINE l == IF n \in 1..GameMaxTurns THEN n ELSE DefaultMaxTurns
<1>1. l \in 1..GameMaxTurns
  BY LimitsAssumption
<1>2. Limited(n) = [ctl EXCEPT !.max_turns = l]
  BY DEF Limited, D!conversation_controller_set_max_turns
<1>3. n \in 1..GameMaxTurns => l = n
  OBVIOUS
<1> HIDE DEF l
<1>4. Limited(n) \in D!Controller
  <2>1. [ctl EXCEPT !.max_turns = l] \in D!Controller
    BY <1>1, StaysController
  <2> QED BY <1>2, <2>1
<1> QED BY <1>2, <1>3, <1>4 DEF D!Controller

LEMMA TurnCompleteDoes ==
  DeviceInv /\ D!TurnComplete =>
    \/ /\ D!MoreTurns(Limited(result.max_turns))
       /\ D!Prompt(At(Limited(result.max_turns), "FOLLOWUP_CUE"))
    \/ EndsWell
<1> SUFFICES ASSUME DeviceInv, D!TurnComplete
             PROVE  \/ /\ D!MoreTurns(Limited(result.max_turns))
                       /\ D!Prompt(At(Limited(result.max_turns), "FOLLOWUP_CUE"))
                    \/ EndsWell
  OBVIOUS
<1> DEFINE told   == Limited(result.max_turns)
           played == D!conversation_controller_handle(told, "PLAYBACK_DONE")
<1>1. pc = "completing" /\ ctl \in D!Controller /\ ctl.state = "PLAYING"
  BY DEF DeviceInv, InStep, D!ControllerInStep, D!TurnComplete
<1>2. told \in D!Controller /\ told.state = "PLAYING"
  BY <1>1, LimitedType
<1>3. IF played.action = "PLAY_FOLLOWUP_CUE" THEN D!Prompt(played.ctl)
      ELSE D!Close(D!Handled(D!Handled(played.ctl, "TIMER"), "PROMPT_DONE"), "normal")
  BY DEF D!TurnComplete, Limited
<1> HIDE DEF told
<1>4. CASE D!MoreTurns(told)
  <2>1. played = [ctl |-> At(told, "FOLLOWUP_CUE"), action |-> "PLAY_FOLLOWUP_CUE"]
    BY <1>2, <1>4, PlaybackDone
  <2> QED BY <1>3, <1>4, <2>1 DEF told
<1>5. CASE ~D!MoreTurns(told)
  <2> DEFINE c == At(told, "ENDING")
             d == D!Handled(c, "TIMER")
  <2>1. played = [ctl |-> c, action |-> "NONE"]
    BY <1>2, <1>5, PlaybackDone
  <2>2. c \in D!Controller /\ c.state = "ENDING"
    BY <1>2, StaysController DEF D!State
  <2> HIDE DEF c
  <2>3. d \in D!Controller /\ d.state = "ENDING"
    <3>1. CASE c.done_prompt_issued
      <4>1. D!conversation_controller_handle(c, "TIMER") = [ctl |-> c, action |-> "NONE"]
        BY <2>2, <3>1, Ends
      <4> QED BY <2>2, <4>1 DEF D!Handled
    <3>2. CASE ~c.done_prompt_issued
      <4> DEFINE e == At([c EXCEPT !.done_prompt_issued = TRUE], "ENDING")
      <4>1. D!conversation_controller_handle(c, "TIMER") = [ctl |-> e, action |-> "PLAY_DONE"]
        BY <2>2, <3>2, Ends
      <4>2. e \in D!Controller /\ e.state = "ENDING"
        BY <2>2, StaysController DEF D!State
      <4> HIDE DEF e
      <4> QED BY <4>1, <4>2 DEF D!Handled
    <3> QED BY <3>1, <3>2
  <2>4. D!Close(D!Handled(d, "PROMPT_DONE"), "normal")
    BY <1>3, <2>1
  <2> HIDE DEF d
  <2> QED BY <2>3, <2>4, EndsFrom
<1> QED BY <1>4, <1>5

LEMMA SpeechStartsDoes ==
  DeviceInv /\ D!SpeechStarts =>
    /\ ctl' \in D!Controller /\ ctl'.state = "RECORDING"
    /\ ctl.state = "RECORDING" => ctl' = ctl
    /\ ctl.state = "FOLLOWUP_WINDOW" =>
         /\ ctl'.turn_index = (ctl.followup_count + 1) % 256 /\ ~ctl'.reprompt_used
         /\ ctl'.followup_count = ctl.followup_count
    /\ turn' \in Turns \ used /\ used' = used \cup {turn'}
    /\ D!Send(D!Msg("turn_start", turn', ctl'.turn_index))
<1> SUFFICES ASSUME DeviceInv, D!SpeechStarts
             PROVE  /\ ctl' \in D!Controller /\ ctl'.state = "RECORDING"
                    /\ ctl.state = "RECORDING" => ctl' = ctl
                    /\ ctl.state = "FOLLOWUP_WINDOW" =>
                         /\ ctl'.turn_index = (ctl.followup_count + 1) % 256
                         /\ ~ctl'.reprompt_used
                         /\ ctl'.followup_count = ctl.followup_count
                    /\ turn' \in Turns \ used /\ used' = used \cup {turn'}
                    /\ D!Send(D!Msg("turn_start", turn', ctl'.turn_index))
  OBVIOUS
<1>1. ctl \in D!Controller /\ ctl.state \in {"RECORDING", "FOLLOWUP_WINDOW"}
  BY DEF DeviceInv, InStep, D!ControllerInStep, D!SpeechStarts, D!Go
<1>2. /\ ctl' \in D!Controller /\ ctl'.state = "RECORDING"
      /\ ctl.state = "RECORDING" => ctl' = ctl
      /\ ctl.state = "FOLLOWUP_WINDOW" =>
           /\ ctl'.turn_index = (ctl.followup_count + 1) % 256
           /\ ~ctl'.reprompt_used
           /\ ctl'.followup_count = ctl.followup_count
  <2>1. CASE ctl.state = "RECORDING"
    BY <1>1, <2>1 DEF D!SpeechStarts
  <2>2. CASE ctl.state = "FOLLOWUP_WINDOW"
    <3> DEFINE n == (ctl.followup_count + 1) % 256
               c == [ctl EXCEPT !.turn_index = n, !.reprompt_used = FALSE]
    <3>1. n \in 0..255
      BY <1>1 DEF D!Controller
    <3>2. ctl' = At(c, "RECORDING")
      BY <2>2, FollowsUp DEF D!SpeechStarts
    <3> HIDE DEF n
    <3>3. /\ c \in D!Controller /\ c.turn_index = n /\ ~c.reprompt_used
          /\ c.followup_count = ctl.followup_count
      BY <1>1, <3>1 DEF D!Controller
    <3> HIDE DEF c
    <3>4. ctl' \in D!Controller /\ ctl'.state = "RECORDING"
      BY <3>2, <3>3, StaysController DEF D!State
    <3>5. /\ ctl'.turn_index = c.turn_index /\ ctl'.reprompt_used = c.reprompt_used
          /\ ctl'.followup_count = c.followup_count
      BY <3>2, <3>3 DEF At, D!Controller
    <3> QED BY <2>2, <3>3, <3>4, <3>5 DEF n
  <2> QED BY <1>1, <2>1, <2>2
<1>3. (CHOOSE t \in Turns \ used : TRUE) \in Turns \ used
  <2>1. \E t \in Turns : t \notin used
    BY DEF D!SpeechStarts, DeviceInv
  <2> QED BY <2>1
<1>4. PICK t \in Turns \ used : /\ turn' = t /\ used' = used \cup {t}
                                /\ D!Send(D!Msg("turn_start", t, ctl'.turn_index))
  BY <1>3 DEF D!SpeechStarts
<1> QED BY <1>2, <1>4

LEMMA SpeechStartsKeeps == DeviceInv /\ D!SpeechStarts => DeviceInv'
<1> SUFFICES ASSUME DeviceInv, D!SpeechStarts PROVE DeviceInv'
  OBVIOUS
<1>1. pc = "listening" /\ pc' = "starting" /\ outcome' = outcome
  BY DEF D!SpeechStarts, D!Go
<1>2. ctl' \in D!Controller /\ ctl'.state = "RECORDING"
  BY SpeechStartsDoes
<1>3. PICK t \in Turns \ used, n \in 0..255 :
        turn' = t /\ used' = used \cup {t} /\ D!Send(D!Msg("turn_start", t, n))
  <2>1. ctl'.turn_index \in 0..255
    BY <1>2 DEF D!Controller
  <2> QED BY <2>1, SpeechStartsDoes
<1>4. D!Msg("turn_start", t, n) \in Control
  BY TurnIsControl
<1>5. up' \in Seq(Control)
  BY <1>3, <1>4, SendsControl DEF DeviceInv
<1> QED
  BY <1>1, <1>2, <1>3, <1>5 DEF DeviceInv, InStep, D!ControllerInStep, InTurn

LEMMA EndsWellKeeps == DeviceInv /\ EndsWell => DeviceInv'
BY Closes DEF EndsWell

LEMMA AsksAgainKeeps ==
  DeviceInv /\ pc \notin {"closing", "closed"} /\ AsksAgain => DeviceInv'
<1> SUFFICES ASSUME DeviceInv, pc \notin {"closing", "closed"}, AsksAgain PROVE DeviceInv'
  OBVIOUS
<1> DEFINE c == At([ctl EXCEPT !.reprompt_used = TRUE], "REPROMPT")
<1>1. c \in D!Controller /\ c.state = "REPROMPT"
  BY StaysController DEF D!State, DeviceInv, InStep, D!ControllerInStep
<1>2. D!Prompt(c)
  BY DEF AsksAgain
<1> HIDE DEF c
<1> QED BY <1>1, <1>2, Prompts

LEMMA TurnOverKeeps == DeviceInv /\ D!TurnOver => DeviceInv'
<1> SUFFICES ASSUME DeviceInv, D!TurnOver PROVE DeviceInv'
  OBVIOUS
<1>1. pc = "finishing" /\ ctl \in D!Controller
  BY DEF DeviceInv, InStep, D!ControllerInStep, D!TurnOver
<1>2. CASE PlaysAnswer
  <2>1. Highest(ctl) \in 0..255
    BY <1>1 DEF D!Controller, Highest
  <2>2. [ctl EXCEPT !.followup_count = Highest(ctl)] \in D!Controller
    BY <1>1, <2>1, StaysController
  <2>3. ctl' \in D!Controller /\ ctl'.state = "PLAYING"
    BY <1>2, <2>2, StaysController DEF D!State, PlaysAnswer
  <2> QED
    BY <1>1, <1>2, <2>3 DEF PlaysAnswer, DeviceInv, InStep, D!ControllerInStep, InTurn
<1>3. CASE AsksAgain
  BY <1>1, <1>3, AsksAgainKeeps
<1>4. CASE EndsWell
  BY <1>4, EndsWellKeeps
<1>5. ASSUME NEW c \in D!Controller, D!Close(c, "technical") PROVE DeviceInv'
  BY <1>5, Closes
<1> QED BY <1>2, <1>3, <1>4, <1>5, TurnOverDoes

LEMMA TurnCompleteKeeps == DeviceInv /\ D!TurnComplete => DeviceInv'
<1> SUFFICES ASSUME DeviceInv, D!TurnComplete PROVE DeviceInv'
  OBVIOUS
<1>1. pc = "completing" /\ ctl \in D!Controller
  BY DEF DeviceInv, InStep, D!ControllerInStep, D!TurnComplete
<1>2. CASE D!Prompt(At(Limited(result.max_turns), "FOLLOWUP_CUE"))
  <2> DEFINE c == At(Limited(result.max_turns), "FOLLOWUP_CUE")
  <2>1. c \in D!Controller /\ c.state = "FOLLOWUP_CUE"
    BY <1>1, LimitedType, StaysController DEF D!State
  <2> HIDE DEF c
  <2> QED BY <1>1, <1>2, <2>1, Prompts DEF c
<1> QED BY <1>2, TurnCompleteDoes, EndsWellKeeps

LEMMA NobodySpeaksKeeps == DeviceInv /\ D!NobodySpeaks => DeviceInv'
BY NobodySpeaksDoes, AsksAgainKeeps, EndsWellKeeps DEF D!NobodySpeaks

LEMMA PromptedKeeps ==
  DeviceInv /\ (D!Begin \/ D!Opened \/ D!PromptPlayed) => DeviceInv'
<1> SUFFICES ASSUME DeviceInv, D!Begin \/ D!Opened \/ D!PromptPlayed PROVE DeviceInv'
  OBVIOUS
<1>1. ctl \in D!Controller /\ up \in Seq(Control)
  BY DEF DeviceInv, InStep, D!ControllerInStep
<1>2. \A s \in D!State : At(ctl, s) \in D!Controller /\ At(ctl, s).state = s
  BY <1>1, StaysController
<1>3. CASE D!Begin
  <2>1. pc = "idle" /\ pc' = "opening" /\ outcome' = outcome /\ turn' = turn /\ used' = used /\ up' = up
    BY <1>3 DEF D!Begin, D!Go, D!client, D!channel
  <2>2. ctl.state = "IDLE"
    BY <2>1 DEF DeviceInv
  <2>3. ctl' = At(ctl, "PROMPTING")
    BY <1>3, <2>2, Begins DEF D!Begin
  <2>4. ctl' \in D!Controller /\ ctl'.state = "PROMPTING"
    BY <1>2, <2>3 DEF D!State
  <2> QED BY <1>1, <2>1, <2>4 DEF DeviceInv, InStep, D!ControllerInStep, InTurn
<1>4. CASE D!Opened
  <2>1. /\ pc = "opening" /\ pc' = "listening" /\ outcome' = outcome /\ turn' = turn
        /\ used' = used /\ up' = up
    BY <1>4 DEF D!Opened, D!Go, D!client
  <2>2. ctl.state = "PROMPTING"
    BY <2>1 DEF DeviceInv
  <2>3. ctl' = At(ctl, "RECORDING")
    BY <1>4, <2>2, Prompted DEF D!Opened
  <2>4. ctl' \in D!Controller /\ ctl'.state = "RECORDING"
    BY <1>2, <2>3 DEF D!State
  <2> QED BY <1>1, <2>1, <2>4 DEF DeviceInv, InStep, D!ControllerInStep, InTurn
<1>5. CASE D!PromptPlayed
  <2>1. /\ pc = "prompting" /\ pc' = "listening" /\ outcome' = outcome /\ turn' = turn
        /\ used' = used /\ up' = up
    BY <1>5 DEF D!PromptPlayed, D!Go, D!client, D!channel
  <2>2. ctl.state \in {"REPROMPT", "FOLLOWUP_CUE"}
    BY <2>1 DEF DeviceInv, InStep, D!ControllerInStep
  <2>3. ctl' \in {At(ctl, "RECORDING"), At(ctl, "FOLLOWUP_WINDOW")}
    BY <1>5, <2>2, Prompted DEF D!PromptPlayed
  <2>4. ctl' \in D!Controller /\ ctl'.state \in {"RECORDING", "FOLLOWUP_WINDOW"}
    BY <1>2, <2>3 DEF D!State
  <2> QED BY <1>1, <2>1, <2>4 DEF DeviceInv, InStep, D!ControllerInStep, InTurn
<1> QED BY <1>3, <1>4, <1>5

LEMMA InTurnKeeps ==
  DeviceInv /\ (D!TurnStarted \/ D!Recorded \/ D!RecordingFails \/ D!Played) => DeviceInv'
<1> SUFFICES ASSUME DeviceInv, D!TurnStarted \/ D!Recorded \/ D!RecordingFails \/ D!Played
             PROVE DeviceInv'
  OBVIOUS
<1>1. ctl \in D!Controller /\ up \in Seq(Control)
  BY DEF DeviceInv, InStep, D!ControllerInStep
<1>2. pc \in InTurn
  BY DEF InTurn, D!TurnStarted, D!Recorded, D!RecordingFails, D!Played, D!Go
<1>3. /\ D!Msg("turn_end", turn, 0) \in Control
      /\ D!Msg("turn_cancel", turn, 0) \in Control
      /\ D!Msg("turn_playback_complete", turn, 0) \in Control
  BY <1>2 DEF D!Msg, Control, DeviceInv
<1>4. CASE D!TurnStarted
  BY <1>1, <1>4 DEF D!TurnStarted, D!Go, D!client, D!channel, DeviceInv, InStep,
                    D!ControllerInStep, InTurn
<1>5. CASE D!Recorded
  <2>1. pc = "recording" /\ pc' = "finishing" /\ outcome' = outcome /\ turn' = turn /\ used' = used
    BY <1>5 DEF D!Recorded, D!Go, D!client
  <2>2. ctl.state = "RECORDING"
    BY <2>1 DEF DeviceInv, InStep, D!ControllerInStep
  <2>3. ctl' = At(ctl, "WAITING_RESULT")
    BY <1>5, <2>2, Records DEF D!Recorded
  <2>4. ctl' \in D!Controller /\ ctl'.state = "WAITING_RESULT"
    BY <1>1, <2>3, StaysController DEF D!State
  <2>5. up' \in Seq(Control)
    BY <1>1, <1>3, <1>5, SendsControl DEF D!Recorded
  <2> QED BY <2>1, <2>4, <2>5 DEF DeviceInv, InStep, D!ControllerInStep, InTurn
<1>6. CASE D!RecordingFails
  <2>1. /\ pc = "recording" /\ pc' = "cancelling" /\ outcome' = outcome /\ turn' = turn
        /\ used' = used /\ ctl' = ctl
    BY <1>6 DEF D!RecordingFails, D!Go, D!client
  <2>2. up' \in Seq(Control)
    BY <1>1, <1>3, <1>6, SendsControl DEF D!RecordingFails
  <2> QED BY <2>1, <2>2 DEF DeviceInv, InStep, D!ControllerInStep, InTurn
<1>7. CASE D!Played
  <2>1. /\ pc = "playing" /\ pc' = "completing" /\ outcome' = outcome /\ turn' = turn
        /\ used' = used /\ ctl' = ctl
    BY <1>7 DEF D!Played, D!Go
  <2>2. up' \in Seq(Control)
    BY <1>1, <1>3, <1>7, SendsControl DEF D!Played
  <2> QED BY <2>1, <2>2 DEF DeviceInv, InStep, D!ControllerInStep, InTurn
<1> QED BY <1>4, <1>5, <1>6, <1>7

DeviceStep == D!Proceeds \/ D!Receive \/ D!Disconnected \/ D!Fails \/ D!GivesUp

LEMMA DeviceStepKeeps == DeviceInv /\ DeviceStep => DeviceInv'
<1> SUFFICES ASSUME DeviceInv, DeviceStep PROVE DeviceInv'
  OBVIOUS
<1>1. CASE D!TechnicalClose
  BY <1>1, ClosesTechnically
<1>2. CASE D!Receive \/ D!Disconnected
  BY <1>2 DEF D!Receive, D!Disconnected, D!channel, DeviceInv, InStep, D!ControllerInStep
<1>3. CASE D!OpenFails \/ D!Closed
  BY <1>3 DEF D!OpenFails, D!Closed, D!Go, D!client, D!channel, DeviceInv, InStep,
              D!ControllerInStep, InTurn
<1> QED
  BY <1>1, <1>2, <1>3, NobodySpeaksKeeps, SpeechStartsKeeps, TurnOverKeeps, TurnCompleteKeeps,
     PromptedKeeps, InTurnKeeps
  DEF DeviceStep, D!Proceeds, D!Fails, D!GivesUp, D!WaitFails, D!CancelOver, D!MicFails,
      D!PlaybackFails, D!PromptFails, D!WaitTimesOut, D!PlaybackTimesOut

LEMMA DeviceInvNext == DeviceInv /\ [LinkNext]_linkVars => DeviceInv'
<1> SUFFICES ASSUME DeviceInv, [LinkNext]_linkVars PROVE DeviceInv'
  OBVIOUS
<1>1. up \in Seq(Control)
  BY DEF DeviceInv
<1>2. CASE DeviceProceeds \/ DeviceFails \/ DeviceGivesUp
  BY <1>2, DeviceStepKeeps DEF DeviceStep, DeviceProceeds, DeviceFails, DeviceGivesUp
<1>3. ASSUME UNCHANGED device, up' \in Seq(Control) PROVE DeviceInv'
  BY <1>3 DEF device, DeviceInv, InStep, D!ControllerInStep
<1>4. CASE ServerReads
  <2>1. up # << >> /\ up' = Tail(up) /\ UNCHANGED device
    BY <1>4 DEF ServerReads
  <2> QED BY <1>1, <1>3, <2>1
<1>5. CASE ServerSeesDisconnect
  BY <1>1, <1>3, <1>5 DEF ServerSeesDisconnect
<1>6. CASE ServerWorks
  BY <1>1, <1>3, <1>6 DEF ServerWorks
<1>7. CASE ServerStops
  BY <1>1, <1>3, <1>7 DEF ServerStops
<1>8. CASE DeadlinePasses
  BY <1>1, <1>3, <1>8 DEF DeadlinePasses
<1>9. CASE LinkLost
  <2>1. PICK m \in 0..Len(up) : up' = SubSeq(up, 1, m)
    BY <1>9 DEF LinkLost
  <2>2. SubSeq(up, 1, m) \in Seq(Control)
    BY <1>1
  <2> QED BY <1>3, <1>9, <2>1, <2>2 DEF LinkLost
<1>10. CASE UNCHANGED linkVars
  BY <1>1, <1>3, <1>10 DEF linkVars
<1> QED
  BY <1>2, <1>4, <1>5, <1>6, <1>7, <1>8, <1>9, <1>10 DEF LinkNext

(* The inductive invariant of the device's side.                           *)
THEOREM DeviceInvariant == LinkSpec => []DeviceInv
<1>1. LinkInit => DeviceInv
  BY DeviceInit
<1>2. DeviceInv /\ [LinkNext]_linkVars => DeviceInv'
  BY DeviceInvNext
<1> QED BY <1>1, <1>2, PTL DEF LinkSpec

(* However the conversation goes, and whatever fails or comes late, the    *)
(* controller is in the state from which the loop's next event leads on.   *)
THEOREM StaysInStep == LinkSpec => []InStep
<1>1. DeviceInv => InStep
  BY DEF DeviceInv
<1> QED BY <1>1, DeviceInvariant, PTL

-----------------------------------------------------------------------------
(* The server                                                              *)

(* An index the server lets in is one below the largest limit.             *)
LEMMA AllowedInRange ==
  ASSUME ConversationInv, NEW t \in Turns, NEW i \in Nat, StartAllowed(t, i)
  PROVE  i \in 0..GameMaxTurns-1
<1>1. WithinTurnLimit /\ TypeOK
  BY DEF ConversationInv
<1>2. TurnCount \in Nat /\ max_turns \in 1..GameMaxTurns
  BY <1>1, CountType DEF TypeOK
<1>3. CASE i = TurnCount /\ TurnCount < max_turns
  BY <1>2, <1>3, LimitsAssumption
<1>4. CASE AtIndex(i) # {}
  BY <1>1, <1>2, <1>4, LimitsAssumption DEF AtIndex, Indices, WithinTurnLimit
<1> QED BY <1>3, <1>4 DEF StartAllowed, IndexAllowed

(* Joined to the device the server takes no step it would not take alone.  *)
LEMMA ServerStep ==
  ASSUME ConversationInv, DeviceInv, [LinkNext]_linkVars
  PROVE  [Next]_vars
<1>1. CASE ServerReads
  <2>1. PICK m \in Control : m = Head(up)
    BY <1>1 DEF ServerReads, DeviceInv
  <2>2. CASE Accepts(m)
    <3>1. CASE m.type = "turn_start" /\ TurnStart(m.turn, m.n)
      <4>1. m.turn \in Turns /\ m.n \in Nat
        BY <2>1, <3>1 DEF Control
      <4>2. m.n \in 0..GameMaxTurns-1
        BY <3>1, <4>1, AllowedInRange DEF TurnStart
      <4> QED BY <3>1, <4>1, <4>2 DEF Next, Device
    <3>2. CASE m.type # "turn_start"
      <4>1. m.turn \in Turns /\ (TurnEnd(m.turn) \/ PlaybackComplete(m.turn) \/ TurnCancel(m.turn))
        BY <2>1, <2>2, <3>2 DEF Control, Accepts
      <4> QED BY <4>1 DEF Next, Device
    <3> QED BY <2>2, <3>1, <3>2 DEF Accepts
  <2>3. CASE Hangup \/ UNCHANGED vars
    BY <2>3 DEF Next
  <2>4. \/ Accepts(Head(up))
        \/ Hangup \/ UNCHANGED vars
    BY <1>1 DEF ServerReads
  <2> QED BY <2>1, <2>2, <2>3, <2>4
<1>2. CASE ServerSeesDisconnect \/ DeadlinePasses
  BY <1>2 DEF ServerSeesDisconnect, DeadlinePasses, Next
<1>3. CASE ServerWorks
  BY <1>3 DEF ServerWorks, Next
<1>4. CASE ServerStops
  BY <1>4 DEF ServerStops, Next
<1>5. CASE DeviceProceeds \/ DeviceFails \/ DeviceGivesUp \/ LinkLost
  BY <1>5 DEF DeviceProceeds, DeviceFails, DeviceGivesUp, LinkLost
<1>6. CASE UNCHANGED linkVars
  BY <1>6 DEF linkVars
<1> QED
  BY <1>1, <1>2, <1>3, <1>4, <1>5, <1>6 DEF LinkNext

(* The server joined to the device behaves as the server does alone, so    *)
(* that all that ConversationV6Proofs states holds of both together too.   *)
THEOREM ServerAlone == LinkSpec => Spec
<1> DEFINE Both == ConversationInv /\ DeviceInv
<1>1. LinkInit => Init /\ Both
  BY InitInv, DeviceInit DEF LinkInit
<1>2. Both /\ [LinkNext]_linkVars => [Next]_vars
  BY ServerStep
<1>3. Both /\ [LinkNext]_linkVars => Both'
  BY <1>2, NextInv, DeviceInvNext
<1> QED BY <1>1, <1>2, <1>3, PTL DEF LinkSpec, Spec

-----------------------------------------------------------------------------
(* The server's turns, while nothing fails                                 *)

USE DEF begun, limits, audio, worker, closing, FsmState, Terminal, Status, Running, Done,
        Future, TaskEnd, Task

Serving ==
  /\ sock = "open" /\ ~expired /\ stop = NoStop
  /\ \A u \in Turns : ~cancel_event[u]

Fresh(u) == fsm[u] = "idle" /\ status[u] = "none" /\ task[u] = "none" /\ future[u] = "none"

Hearing(u) ==
  fsm[u] = "receiving" /\ status[u] = "receiving" /\ task[u] = "none" /\ future[u] = "none"

Transcribing(u) ==
  fsm[u] = "processing" /\ status[u] = "receiving" /\ task[u] = "asr" /\ future[u] = "none"

Recognised(u) ==
  /\ fsm[u] = "result_ready" /\ status[u] = "receiving" /\ task[u] = "asr_sent"
  /\ future[u] = "none"

(* The limit follows the mode of the answer, before the answer is          *)
(* committed.                                                              *)
Answering(u) ==
  /\ fsm[u] = "playing" /\ status[u] \in {"processing", "committed"}
  /\ task[u] \in {"first_audio", "await_future", "finished"}
  /\ future[u] \in {"queued", "result"} \cup Running
  /\ status[u] = "committed" => future[u] \in {"status_set", "result"}
  /\ future[u] \in {"answered", "status_set", "result"} => mode_turns[u] <= max_turns

(* A turn the device has left: its worker may still have to remember it,   *)
(* its task may still wait.  Nothing is sent any more.                     *)
Over(u) ==
  /\ fsm[u] = "completed" /\ status[u] \in {"committed", "asr_empty"}
  /\ task[u] \in {"first_audio", "await_future", "finished"}
  /\ future[u] \in {"none", "status_set", "result"}

Works(u) ==
  /\ FinishTask(u) \/ ErrorThread(u) \/ Worker(u)
  /\ ~StepFails(u) /\ ~StepTimesOut(u)

(* A step of turn u leaves the others alone, and no turn begins with it.   *)
Aside(u) ==
  /\ UNCHANGED <<sock, expired, stop, index, cancel_event>>
  /\ \A v \in Turns \ {u} :
       /\ fsm'[v] = fsm[v] /\ status'[v] = status[v] /\ task'[v] = task[v]
       /\ future'[v] = future[v] /\ mode_turns'[v] = mode_turns[v]
  /\ status'[u] = "none" <=> status[u] = "none"

LEMMA TaskAt ==
  ASSUME NEW u, FinishTask(u) \/ ErrorThread(u), ~StepFails(u), ~StepTimesOut(u)
  PROVE  \/ /\ task[u] = "asr"
            /\ AsrEmpty(u) \/ AsrFinal(u) \/ AsrCancelled(u)
         \/ task[u] = "asr_sent" /\ ProcessTurn(u)
         \/ task[u] = "first_audio" /\ FirstAudio(u)
         \/ task[u] = "await_future" /\ (AnswerReady(u) \/ AnswerFails(u))
         \/ task[u] \in {"report", "stop_worker", "join_worker"}
<1>1. AsrEmpty(u) \/ AsrFinal(u) \/ AsrCancelled(u) => task[u] = "asr"
  BY DEF AsrEmpty, AsrFinal, AsrCancelled
<1>2. ProcessTurn(u) => task[u] = "asr_sent"
  BY DEF ProcessTurn
<1>3. FirstAudio(u) => task[u] = "first_audio"
  BY DEF FirstAudio
<1>4. AnswerReady(u) \/ AnswerFails(u) => task[u] = "await_future"
  BY DEF AnswerReady, AnswerFails
<1>5. ErrorReported(u) \/ ErrorRevokes(u) \/ ErrorJoins(u) \/ ErrorTimesOut(u)
        => task[u] \in {"report", "stop_worker", "join_worker"}
  BY DEF ErrorReported, ErrorRevokes, ErrorJoins, ErrorTimesOut
<1> QED
  BY <1>1, <1>2, <1>3, <1>4, <1>5 DEF FinishTask, ErrorThread, StepFails, StepTimesOut

LEMMA WorkerAt ==
  ASSUME NEW u, Worker(u), ~StepFails(u)
  PROVE  \/ future[u] = "queued" /\ WorkerStart(u)
         \/ /\ future[u] = "running"
            /\ WorkerPublishes(u) \/ WorkerCancelled(u) \/ WorkerFinishesAudio(u)
         \/ future[u] = "audio_done" /\ WorkerAnswers(u)
         \/ future[u] = "answered" /\ WorkerCommits(u)
         \/ future[u] = "status_set" /\ WorkerRemembers(u)
<1>1. WorkerStart(u) => future[u] = "queued"
  BY DEF WorkerStart
<1>2. WorkerPublishes(u) \/ WorkerCancelled(u) \/ WorkerFinishesAudio(u) => future[u] = "running"
  BY DEF WorkerPublishes, WorkerCancelled, WorkerFinishesAudio
<1>3. /\ WorkerAnswers(u) => future[u] = "audio_done"
      /\ WorkerCommits(u) => future[u] = "answered"
      /\ WorkerRemembers(u) => future[u] = "status_set"
  BY DEF WorkerAnswers, WorkerCommits, WorkerRemembers
<1> QED
  BY <1>1, <1>2, <1>3 DEF Worker, StepFails

(* A turn not begun, or whose end the device has not told, takes no step.  *)
LEMMA WaitingWorks ==
  ASSUME NEW u, Works(u), Fresh(u) \/ Hearing(u) PROVE FALSE
BY TaskAt, WorkerAt DEF Works, Fresh, Hearing

Silently(u) == UNCHANGED <<sent>> /\ task'[u] # "error_sent"

LEMMA OverWorks ==
  ASSUME TypeOK, Serving, NEW u \in Turns, Works(u), Over(u)
  PROVE  Aside(u) /\ Over(u)' /\ Silently(u) /\ UNCHANGED <<status, max_turns, mode_turns>>
<1>1. Parts
  BY TypeParts
<1> USE <1>1 DEF Parts, TurnType
<1>2. CASE FirstAudio(u)
  BY <1>2 DEF FirstAudio, Over, Aside, Silently
<1>3. CASE AnswerReady(u)
  BY <1>3 DEF AnswerReady, Over, Aside, Silently
<1>4. CASE WorkerRemembers(u)
  BY <1>4 DEF WorkerRemembers, Over, Aside, Silently
<1>5. ~AnswerFails(u)
  BY DEF AnswerFails, Over
<1> QED
  BY <1>2, <1>3, <1>4, <1>5, TaskAt, WorkerAt DEF Works, Over

LEMMA AnsweringWorks ==
  ASSUME TypeOK, Serving, NEW u \in Turns, Works(u), Answering(u)
  PROVE  Aside(u) /\ Answering(u)' /\ Silently(u)
<1>1. Parts
  BY TypeParts
<1> USE <1>1 DEF Parts, TurnType
<1>2. CASE FirstAudio(u)
  BY <1>2 DEF FirstAudio, Answering, Aside, Silently
<1>3. CASE AnswerReady(u)
  BY <1>3 DEF AnswerReady, Answering, Aside, Silently
<1>4. CASE WorkerRemembers(u)
  BY <1>4 DEF WorkerRemembers, Answering, Aside, Silently
<1>5. ~AnswerFails(u)
  BY DEF AnswerFails, Answering
<1>6. CASE WorkerStart(u)
  BY <1>6 DEF WorkerStart, Answering, Aside, Silently, Serving
<1>7. CASE WorkerPublishes(u)
  BY <1>7 DEF WorkerPublishes, Answering, Aside, Silently
<1>8. ~WorkerCancelled(u)
  BY DEF WorkerCancelled, Serving
<1>9. CASE WorkerFinishesAudio(u)
  BY <1>9 DEF WorkerFinishesAudio, Answering, Aside, Silently
<1>10. CASE WorkerAnswers(u)
  <2>1. PICK n \in {DefaultMaxTurns, GameMaxTurns} :
          mode_turns' = [mode_turns EXCEPT ![u] = n] /\ max_turns' = Larger(n, TurnCount)
    BY <1>10 DEF WorkerAnswers, SetMaxTurns
  <2>2. n \in Nat /\ TurnCount \in Nat
    BY LimitsAssumption, CountType
  <2>3. n <= Larger(n, TurnCount)
    BY <2>2 DEF Larger
  <2>4. mode_turns'[u] <= max_turns'
    BY <2>1, <2>3
  <2> QED
    BY <1>10, <2>1, <2>4 DEF WorkerAnswers, Answering, Aside, Silently
<1>11. CASE WorkerCommits(u)
  BY <1>11 DEF WorkerCommits, Answering, Aside, Silently
<1> QED
  BY <1>2, <1>3, <1>4, <1>5, <1>6, <1>7, <1>8, <1>9, <1>10, <1>11, TaskAt, WorkerAt
  DEF Works, Answering

(* The answers of a step: what it adds to sent.                            *)
Sends1(u, e) == Send(u, e) /\ task'[u] # "error_sent"

LEMMA TranscribingWorks ==
  ASSUME TypeOK, Serving, NEW u \in Turns, Works(u), Transcribing(u)
  PROVE  /\ Aside(u) /\ UNCHANGED <<max_turns, mode_turns>>
         /\ \/ Recognised(u)' /\ Sends1(u, "asr_final") /\ UNCHANGED status
            \/ Over(u)' /\ status'[u] = "asr_empty" /\ Sends1(u, "asr_empty")
<1>1. Parts
  BY TypeParts
<1> USE <1>1 DEF Parts, TurnType
<1>2. CASE AsrEmpty(u)
  BY <1>2 DEF AsrEmpty, Transcribing, Over, Aside, Serving, Sends1
<1>3. CASE AsrFinal(u)
  BY <1>3 DEF AsrFinal, Transcribing, Recognised, Aside, Serving, Sends1
<1>4. ~AsrCancelled(u)
  BY DEF AsrCancelled, Serving
<1> QED
  BY <1>2, <1>3, <1>4, TaskAt, WorkerAt DEF Works, Transcribing

LEMMA RecognisedWorks ==
  ASSUME TypeOK, Serving, NEW u \in Turns, Works(u), Recognised(u)
  PROVE  Aside(u) /\ UNCHANGED max_turns /\ Answering(u)' /\ Sends1(u, "turn_result")
<1>1. Parts
  BY TypeParts
<1> USE <1>1 DEF Parts, TurnType
<1>2. CASE ProcessTurn(u)
  BY <1>2 DEF ProcessTurn, Recognised, Answering, Aside, Serving, Sends1
<1> QED
  BY <1>2, TaskAt, WorkerAt DEF Works, Recognised

LEMMA Concatenations ==
  ASSUME NEW m, NEW n
  PROVE  /\ << >> \o << >> = << >> /\ << >> \o <<m>> = <<m>> /\ <<m>> \o << >> = <<m>>
         /\ <<m>> \o <<n>> = <<m, n>> /\ <<m, n>> \o << >> = <<m, n>>
         /\ Append(<< >>, m) = <<m>>
         /\ Head(<<m>>) = m /\ Tail(<<m>>) = << >>
         /\ Head(<<m, n>>) = m /\ Tail(<<m, n>>) = <<n>>
         /\ <<m>> # << >> /\ <<m, n>> # << >>
<1>1. << >> \o << >> = << >> /\ Append(<< >>, m) = <<m>>
  OBVIOUS
<1>2. << >> \o <<m>> = <<m>>
  OBVIOUS
<1>3. <<m>> \o << >> = <<m>>
  OBVIOUS
<1>4. <<m>> \o <<n>> = <<m, n>>
  <2> DEFINE S == {m, n}
             s == <<m>> \o <<n>>
             t == <<m, n>>
  <2>1. <<m>> \in Seq(S) /\ <<n>> \in Seq(S) /\ t \in Seq(S)
    OBVIOUS
  <2>2. s \in Seq(S) /\ Len(s) = 2 /\ s[1] = m /\ s[2] = n
    BY <2>1
  <2>3. t[1] = m /\ t[2] = n /\ Len(t) = 2
    OBVIOUS
  <2> HIDE DEF s, t, S
  <2>4. s = t
    BY <2>1, <2>2, <2>3, SeqEqual
  <2> QED BY <2>4 DEF s, t
<1>5. <<m, n>> \o << >> = <<m, n>>
  OBVIOUS
<1>6. Head(<<m>>) = m /\ Tail(<<m>>) = << >>
  OBVIOUS
<1>7. Head(<<m, n>>) = m /\ Tail(<<m, n>>) = <<n>>
  OBVIOUS
<1>8. <<m>> # << >> /\ <<m, n>> # << >>
  OBVIOUS
<1> QED BY <1>1, <1>2, <1>3, <1>4, <1>5, <1>6, <1>7, <1>8

LEMMA SilentlySent ==
  ASSUME NEW u, Silently(u) PROVE Sent(u) = << >>
<1>1. sent'[u] = sent[u] /\ task'[u] # "error_sent"
  BY DEF Silently
<1> QED BY <1>1, Concatenations DEF Sent

LEMMA AloudSent ==
  ASSUME TypeOK, NEW u \in Turns, NEW e \in Event, Sends1(u, e)
  PROVE  Sent(u) = <<D!Msg(e, u, IF e = "played" THEN mode_turns[u] ELSE 0)>>
<1>1. sent \in [Turns -> Seq(Event)]
  BY DEF TypeOK
<1>2. sent'[u] = Append(sent[u], e) /\ sent[u] \in Seq(Event)
  BY <1>1, Sends DEF Sends1
<1>3. LastOf(sent'[u]) = e /\ sent'[u] # sent[u]
  BY <1>2 DEF LastOf
<1>4. task'[u] # "error_sent"
  BY DEF Sends1
<1> DEFINE m == D!Msg(e, u, IF e = "played" THEN mode_turns[u] ELSE 0)
<1>5. Sent(u) = <<m>> \o << >>
  BY <1>3, <1>4 DEF Sent
<1> QED BY <1>5, Concatenations

LEMMA AsideCounts ==
  ASSUME NEW u \in Turns, Aside(u)
  PROVE  Started' = Started /\ TurnCount' = TurnCount
<1>1. Started' = Started
  BY DEF Aside, Started
<1>2. Indices' = Indices
  BY <1>1 DEF Aside, Indices
<1> QED BY <1>1, <1>2 DEF TurnCount

-----------------------------------------------------------------------------
(* A conversation of which nothing has failed                              *)

(* The turns but the device's own are over, or not begun.                  *)
AtRest(u) == IF u \in used THEN Over(u) ELSE Fresh(u)

AllRest == Serving /\ \A u \in Turns : AtRest(u)

Engaged ==
  /\ Serving /\ link /\ turn \in used
  /\ \A u \in Turns \ {turn} : AtRest(u)

(* Which index the device will ask for, and what the server makes of it:   *)
(* a new index it may have, or one whose only turn was empty.              *)
Alone(u) ==
  /\ u \in Started /\ index[u] = ctl.turn_index
  /\ \A v \in Started : index[v] = ctl.turn_index => v = u

FirstTry == ctl.turn_index = TurnCount /\ TurnCount < max_turns

SecondTry ==
  /\ ctl.reprompt_used /\ ctl.turn_index + 1 = TurnCount
  /\ \E u \in Turns : Alone(u) /\ status[u] = "asr_empty"

Asking == ctl.followup_count <= ctl.turn_index /\ (FirstTry \/ SecondTry)

Asked ==
  /\ ctl.followup_count <= ctl.turn_index /\ ctl.turn_index + 1 = TurnCount
  /\ ~ctl.reprompt_used => Alone(turn)

GoesOn ==
  /\ ctl.followup_count = ctl.turn_index /\ ctl.turn_index + 1 = TurnCount
  /\ TurnCount < max_turns

Heard(url, s, n) == result = [url |-> url, status |-> s, max_turns |-> n]

(* The places of a conversation, each with what is in flight.              *)
NotBegun ==
  /\ pc \in {"idle", "opening"} /\ up = << >> /\ down = << >> /\ ~link
  /\ flags = {} /\ used = {} /\ AllRest /\ Asking

BetweenTurns ==
  /\ pc \in {"listening", "prompting"} /\ up = << >> /\ down = << >> /\ link
  /\ flags \subseteq D!TurnFlag /\ AllRest
  /\ ctl.state \in {"RECORDING", "REPROMPT"} => Asking
  /\ ctl.state \in {"FOLLOWUP_CUE", "FOLLOWUP_WINDOW"} => GoesOn

Offered ==
  /\ pc = "starting" /\ Engaged /\ Fresh(turn) /\ Asking
  /\ up = <<D!Msg("turn_start", turn, ctl.turn_index)>> /\ down = << >>
  /\ flags = {} /\ Heard(FALSE, "", 0)

Begun ==
  /\ pc \in {"starting", "recording"} /\ Engaged /\ Hearing(turn) /\ Asked
  /\ up = << >> /\ Heard(FALSE, "", 0)
  /\ \/ pc = "starting" /\ down = <<D!Msg("ack", turn, 0)>> /\ flags = {}
     \/ down = << >> /\ flags = {"turn_started"}

AwaitsResult == pc = "finishing" /\ Engaged /\ Asked /\ Heard(FALSE, "", 0) /\ flags = {"turn_started"}

Ended ==
  /\ AwaitsResult /\ Hearing(turn)
  /\ up = <<D!Msg("turn_end", turn, 0)>> /\ down = << >>

Listened == AwaitsResult /\ Transcribing(turn) /\ up = << >> /\ down = << >>

Understood ==
  AwaitsResult /\ Recognised(turn) /\ up = << >> /\ down \in {<< >>, <<D!Msg("asr_final", turn, 0)>>}

ResultSent ==
  /\ AwaitsResult /\ Answering(turn) /\ up = << >>
  /\ down \in {<<D!Msg("asr_final", turn, 0), D!Msg("turn_result", turn, 0)>>,
               <<D!Msg("turn_result", turn, 0)>>}

EmptySent ==
  /\ AwaitsResult /\ Over(turn) /\ status[turn] = "asr_empty"
  /\ up = << >> /\ down = <<D!Msg("asr_empty", turn, 0)>>

EmptyHeard ==
  /\ pc = "finishing" /\ Engaged /\ Asked /\ Over(turn) /\ status[turn] = "asr_empty"
  /\ up = << >> /\ down = << >> /\ Heard(FALSE, "asr_empty", 0)
  /\ flags = {"turn_started", "turn_terminal", "playback_complete"}

ResultHeard ==
  /\ Engaged /\ Asked /\ Answering(turn) /\ down = << >>
  /\ Heard(TRUE, "", 0) /\ flags = {"turn_started", "turn_terminal"}
  /\ \/ pc = "finishing" /\ up = << >>
     \/ pc = "playing" /\ up = << >> /\ ctl.followup_count = ctl.turn_index
     \/ /\ pc = "completing" /\ up = <<D!Msg("turn_playback_complete", turn, 0)>>
        /\ ctl.followup_count = ctl.turn_index

Answered ==
  /\ pc = "completing" /\ Engaged /\ Asked /\ ctl.followup_count = ctl.turn_index
  /\ Over(turn) /\ mode_turns[turn] <= max_turns /\ up = << >>
  /\ \/ /\ down = <<D!Msg("played", turn, mode_turns[turn])>>
        /\ Heard(TRUE, "", 0) /\ flags = {"turn_started", "turn_terminal"}
     \/ /\ down = << >> /\ Heard(TRUE, "", mode_turns[turn])
        /\ flags = {"turn_started", "turn_terminal", "playback_complete"}

Leaving ==
  /\ pc = "closing" /\ link /\ AllRest
  /\ up = <<D!Msg("conversation_end", turn, 0)>>
  /\ down = << >> /\ "error_received" \notin flags

Left ==
  /\ pc = "closing" /\ ~link /\ up = << >>
  /\ down \in {<< >>, <<D!Msg("conversation_done", "none", 0)>>}
  /\ "error_received" \notin flags

Gone ==
  /\ pc = "closed" /\ ~link /\ up \in {<< >>, <<D!Msg("conversation_end", turn, 0)>>}
  /\ "error_received" \notin flags

Somewhere ==
  \/ NotBegun \/ BetweenTurns \/ Offered \/ Begun
  \/ Ended \/ Listened \/ Understood \/ ResultSent \/ EmptySent
  \/ EmptyHeard \/ ResultHeard \/ Answered
  \/ Leaving \/ Left \/ Gone

HealthyInv == Healthy => outcome # "technical" /\ Somewhere

-----------------------------------------------------------------------------
(* The server works on a turn                                              *)

OneOrTwo(s) == s = << >> \/ (\E m : s = <<m>>) \/ (\E m, n : s = <<m, n>>)

LEMMA Adds ==
  ASSUME OneOrTwo(down), link, NEW msgs, Reply(msgs)
  PROVE  down' = down \o msgs /\ (msgs = << >> => down' = down)
<1>1. down' = down \o msgs
  BY DEF Reply
<1>2. down \o << >> = down
  BY Concatenations DEF OneOrTwo
<1> QED BY <1>1, <1>2

(* A turn at rest.                                                         *)
LEMMA RestWorks ==
  ASSUME TypeOK, Serving, NEW u \in Turns, AtRest(u), Works(u), used' = used
  PROVE  Aside(u) /\ AtRest(u)' /\ Silently(u) /\ UNCHANGED <<status, max_turns, mode_turns>>
<1>1. u \in used /\ Over(u)
  BY WaitingWorks DEF AtRest
<1>2. Aside(u) /\ Over(u)' /\ Silently(u) /\ UNCHANGED <<status, max_turns, mode_turns>>
  BY <1>1, OverWorks
<1>3. AtRest(u)'
  BY <1>1, <1>2 DEF AtRest
<1> QED BY <1>2, <1>3

LEMMA AsideServes ==
  ASSUME Serving, NEW u \in Turns, Aside(u), used' = used
  PROVE  /\ Serving'
         /\ \A v \in Turns \ {u} : AtRest(v) => AtRest(v)'
<1>1. Serving'
  BY DEF Serving, Aside
<1>2. ASSUME NEW v \in Turns \ {u}, AtRest(v) PROVE AtRest(v)'
  BY <1>2 DEF AtRest, Over, Fresh, Aside
<1> QED BY <1>1, <1>2

(* What is asked for stays asked for.                                      *)
LEMMA NumbersKept ==
  ASSUME UNCHANGED <<ctl, turn, index, Started, TurnCount>>
  PROVE  /\ Asked => Asked'
         /\ UNCHANGED <<status, max_turns>> => (Asking => Asking') /\ (GoesOn => GoesOn')
<1>1. Asked => Asked'
  BY DEF Asked, Alone
<1>2. ASSUME UNCHANGED <<status, max_turns>>, Asking PROVE Asking'
  <2>1. FirstTry => FirstTry'
    BY <1>2 DEF FirstTry
  <2>2. SecondTry => SecondTry'
    BY <1>2 DEF SecondTry, Alone
  <2> QED BY <1>2, <2>1, <2>2 DEF Asking
<1>3. ASSUME UNCHANGED <<status, max_turns>>, GoesOn PROVE GoesOn'
  BY <1>3 DEF GoesOn
<1> QED BY <1>1, <1>2, <1>3

LEMMA TypesHold == ConversationInv => TypeOK /\ WithinTurnLimit
BY DEF ConversationInv

(* Between turns.                                                          *)
LEMMA RestingWorks ==
  ASSUME ConversationInv, NEW u \in Turns, Works(u), Reply(Sent(u)),
         UNCHANGED <<device, up, link>>, NotBegun \/ BetweenTurns \/ Leaving
  PROVE  Somewhere'
<1>1. TypeOK /\ Serving /\ AtRest(u) /\ used' = used /\ AllRest /\ down = << >>
  BY TypesHold DEF NotBegun, BetweenTurns, Leaving, AllRest, device
<1>2. Aside(u) /\ AtRest(u)' /\ Silently(u) /\ UNCHANGED <<status, max_turns, mode_turns>>
  BY <1>1, RestWorks
<1>3. AllRest'
  BY <1>1, <1>2, AsideServes DEF AllRest
<1>4. down' = << >>
  <2>1. CASE link
    BY <1>1, <1>2, <2>1, SilentlySent, Adds DEF OneOrTwo
  <2>2. CASE ~link
    BY <1>1, <2>2 DEF Reply
  <2> QED BY <2>1, <2>2
<1>5. /\ Asking => Asking'
      /\ GoesOn => GoesOn'
  <2>1. UNCHANGED <<ctl, turn, index, Started, TurnCount>>
    BY <1>2, AsideCounts DEF device, Aside
  <2> QED BY <1>2, <2>1, NumbersKept
<1>6. CASE NotBegun
  <2>1. NotBegun'
    BY <1>3, <1>4, <1>5, <1>6 DEF NotBegun, device
  <2> QED BY <2>1 DEF Somewhere
<1>7. CASE BetweenTurns
  <2>1. BetweenTurns'
    BY <1>3, <1>4, <1>5, <1>7 DEF BetweenTurns, device
  <2> QED BY <2>1 DEF Somewhere
<1>8. CASE Leaving
  <2>1. Leaving'
    BY <1>3, <1>4, <1>8 DEF Leaving, device
  <2> QED BY <2>1 DEF Somewhere
<1> QED BY <1>6, <1>7, <1>8

InTheTurn ==
  \/ Offered \/ Begun \/ Ended \/ Listened \/ Understood \/ ResultSent \/ EmptySent
  \/ EmptyHeard \/ ResultHeard \/ Answered

LEMMA InTheTurnIs ==
  InTheTurn => Engaged /\ OneOrTwo(down)
<1>1. Offered \/ Ended \/ Listened \/ EmptyHeard \/ ResultHeard => Engaged /\ down = << >>
  BY DEF Offered, Ended, Listened, EmptyHeard, ResultHeard, AwaitsResult
<1>2. Begun => Engaged /\ OneOrTwo(down)
  BY DEF Begun, OneOrTwo
<1>3. Understood => Engaged /\ OneOrTwo(down)
  BY DEF Understood, OneOrTwo, AwaitsResult
<1>4. ResultSent \/ EmptySent => Engaged /\ OneOrTwo(down)
  BY DEF ResultSent, EmptySent, OneOrTwo, AwaitsResult
<1>5. Answered => Engaged /\ OneOrTwo(down)
  BY DEF Answered, OneOrTwo
<1> QED BY <1>1, <1>2, <1>3, <1>4, <1>5 DEF InTheTurn, OneOrTwo

(* A step of an earlier turn.                                              *)
LEMMA EarlierWorks ==
  ASSUME ConversationInv, NEW u \in Turns, Works(u), Reply(Sent(u)),
         UNCHANGED <<device, up, link>>, InTheTurn, turn \in Turns, u # turn
  PROVE  Somewhere'
<1>1. /\ TypeOK /\ Serving /\ AtRest(u) /\ used' = used /\ link /\ turn \in used
      /\ \A v \in Turns \ {turn} : AtRest(v)
  BY TypesHold, InTheTurnIs DEF Engaged, device
<1>2. Aside(u) /\ AtRest(u)' /\ Silently(u) /\ UNCHANGED <<status, max_turns, mode_turns>>
  BY <1>1, RestWorks
<1>3. Engaged'
  BY <1>1, <1>2, AsideServes DEF Engaged, device
<1>4. down' = down
  BY <1>1, <1>2, SilentlySent, Adds, InTheTurnIs
<1>5. /\ Asking => Asking'
      /\ Asked => Asked'
  <2>1. UNCHANGED <<ctl, turn, index, Started, TurnCount>>
    BY <1>2, AsideCounts DEF device, Aside
  <2> QED BY <1>2, <2>1, NumbersKept
<1>6. /\ Fresh(turn) => Fresh(turn)'
      /\ Hearing(turn) => Hearing(turn)'
      /\ Transcribing(turn) => Transcribing(turn)'
      /\ Recognised(turn) => Recognised(turn)'
      /\ Answering(turn) => Answering(turn)'
      /\ Over(turn) => Over(turn)'
  <2>1. turn' = turn /\ fsm'[turn] = fsm[turn] /\ status'[turn] = status[turn]
        /\ task'[turn] = task[turn] /\ future'[turn] = future[turn]
        /\ mode_turns'[turn] = mode_turns[turn] /\ max_turns' = max_turns
    BY <1>2 DEF Aside, device
  <2> QED
    BY <2>1 DEF Fresh, Hearing, Transcribing, Recognised, Answering, Over
<1>7. UNCHANGED <<pc, ctl, flags, result, turn, up, status, mode_turns, max_turns>>
  BY <1>2 DEF device
<1> USE <1>3, <1>4, <1>5, <1>6, <1>7 DEF Heard, AwaitsResult
<1>8. Offered => Offered'
  BY DEF Offered
<1>9. Begun => Begun'
  BY DEF Begun
<1>10. Ended => Ended'
  BY DEF Ended
<1>11. Listened => Listened'
  BY DEF Listened
<1>12. Understood => Understood'
  BY DEF Understood
<1>13. ResultSent => ResultSent'
  BY DEF ResultSent
<1>14. EmptySent => EmptySent'
  BY DEF EmptySent
<1>15. EmptyHeard => EmptyHeard'
  BY DEF EmptyHeard
<1>16. ResultHeard => ResultHeard'
  BY DEF ResultHeard
<1>17. Answered => Answered'
  BY DEF Answered
<1> QED
  BY <1>8, <1>9, <1>10, <1>11, <1>12, <1>13, <1>14, <1>15, <1>16, <1>17
  DEF InTheTurn, Somewhere

(* A step of the device's own turn.                                        *)
LEMMA OwnWorks ==
  ASSUME ConversationInv, NEW u \in Turns, u = turn, Works(u), Reply(Sent(u)),
         UNCHANGED <<device, up, link>>, InTheTurn
  PROVE  Somewhere'
<1>1. TypeOK /\ Serving /\ used' = used /\ link /\ OneOrTwo(down)
  BY TypesHold, InTheTurnIs DEF Engaged, device
<1>2. ASSUME Aside(u) PROVE Engaged' /\ (Asked => Asked')
  <2>1. UNCHANGED <<ctl, turn, index, Started, TurnCount>>
    BY <1>2, AsideCounts DEF device, Aside
  <2>2. Engaged
    BY InTheTurnIs
  <2>3. Engaged'
    BY <1>1, <1>2, <2>2, AsideServes DEF Engaged, device
  <2> QED BY <2>1, <2>3, NumbersKept
<1>3. UNCHANGED <<pc, ctl, flags, result, up>> /\ u = turn /\ u = turn'
  BY DEF device
<1>4. ~Offered /\ ~Begun /\ ~Ended
  BY WaitingWorks DEF Offered, Begun, Ended
<1>5. CASE Listened
  <2>1. AwaitsResult /\ Transcribing(u) /\ up = << >> /\ down = << >>
    BY <1>5 DEF Listened
  <2>2. Aside(u)
    BY <1>1, <2>1, TranscribingWorks
  <2>3. AwaitsResult'
    BY <1>2, <1>3, <2>1, <2>2 DEF AwaitsResult, Heard
  <2>4. CASE Recognised(u)' /\ Sends1(turn, "asr_final")
    <3>1. Sent(u) = <<D!Msg("asr_final", u, 0)>>
      BY <1>1, <2>4, AloudSent DEF Event
    <3>2. down' = <<D!Msg("asr_final", u, 0)>>
      BY <1>1, <2>1, <3>1, Adds, Concatenations
    <3> QED BY <1>3, <2>1, <2>3, <2>4, <3>2 DEF Somewhere, Understood
  <2>5. CASE Over(u)' /\ status'[u] = "asr_empty" /\ Sends1(turn, "asr_empty")
    <3>1. Sent(u) = <<D!Msg("asr_empty", u, 0)>>
      BY <1>1, <2>5, AloudSent DEF Event
    <3>2. down' = <<D!Msg("asr_empty", u, 0)>>
      BY <1>1, <2>1, <3>1, Adds, Concatenations
    <3> QED BY <1>3, <2>1, <2>3, <2>5, <3>2 DEF Somewhere, EmptySent
  <2> QED BY <1>1, <2>1, <2>4, <2>5, TranscribingWorks
<1>6. CASE Understood
  <2>1. AwaitsResult /\ Recognised(u) /\ up = << >>
    BY <1>6 DEF Understood
  <2>2. Aside(u) /\ Answering(u)' /\ Sends1(turn, "turn_result")
    BY <1>1, <2>1, RecognisedWorks
  <2>3. AwaitsResult'
    BY <1>2, <1>3, <2>1, <2>2 DEF AwaitsResult, Heard
  <2>4. Sent(u) = <<D!Msg("turn_result", u, 0)>>
    BY <1>1, <2>2, AloudSent DEF Event
  <2>5. down' = down \o <<D!Msg("turn_result", u, 0)>>
    BY <1>1, <2>4, Adds
  <2>6. down' \in {<<D!Msg("asr_final", u, 0), D!Msg("turn_result", u, 0)>>,
                   <<D!Msg("turn_result", u, 0)>>}
    <3> DEFINE m == D!Msg("asr_final", u, 0)
               n == D!Msg("turn_result", u, 0)
    <3>1. down \in {<< >>, <<m>>} /\ down' = down \o <<n>>
      BY <1>3, <1>6, <2>5 DEF Understood
    <3> HIDE DEF m, n
    <3>2. down' \in {<<m, n>>, <<n>>}
      BY <3>1, Concatenations
    <3> QED BY <3>2 DEF m, n
  <2> QED BY <1>3, <2>1, <2>2, <2>3, <2>6 DEF Somewhere, ResultSent
<1>7. CASE ResultSent
  <2>1. Aside(u) /\ Answering(u)' /\ Silently(u)
    BY <1>1, <1>7, AnsweringWorks DEF ResultSent
  <2>2. down' = down
    BY <1>1, <2>1, SilentlySent, Adds
  <2>3. ResultSent'
    BY <1>2, <1>3, <1>7, <2>1, <2>2 DEF ResultSent, AwaitsResult, Heard
  <2> QED BY <2>3 DEF Somewhere
<1>8. CASE ResultHeard
  <2>1. Aside(u) /\ Answering(u)' /\ Silently(u)
    BY <1>1, <1>8, AnsweringWorks DEF ResultHeard
  <2>2. down' = down
    BY <1>1, <2>1, SilentlySent, Adds
  <2>3. ResultHeard'
    BY <1>2, <1>3, <1>8, <2>1, <2>2 DEF ResultHeard, Heard
  <2> QED BY <2>3 DEF Somewhere
<1>9. CASE EmptySent \/ EmptyHeard \/ Answered
  <2>1. Over(u)
    BY <1>9 DEF EmptySent, EmptyHeard, Answered
  <2>2. Aside(u) /\ Over(u)' /\ Silently(u) /\ UNCHANGED <<status, max_turns, mode_turns>>
    BY <1>1, <2>1, OverWorks
  <2>3. down' = down
    BY <1>1, <2>2, SilentlySent, Adds
  <2> USE <1>2, <1>3, <2>2, <2>3 DEF AwaitsResult, Heard
  <2>4. EmptySent => EmptySent'
    BY DEF EmptySent
  <2>5. EmptyHeard => EmptyHeard'
    BY DEF EmptyHeard
  <2>6. Answered => Answered'
    BY DEF Answered
  <2> QED BY <1>9, <2>4, <2>5, <2>6 DEF Somewhere
<1> QED
  BY <1>4, <1>5, <1>6, <1>7, <1>8, <1>9 DEF InTheTurn

-----------------------------------------------------------------------------
(* The steps of a conversation of which nothing fails                      *)

LEMMA Punctual == ASSUME Timeout(TRUE) PROVE ~timely'
BY Zenon DEF Timeout

LEMMA Faultless ==
  ASSUME failures \in Nat, Failure(TRUE) PROVE failures' \in Nat /\ failures' # 0
BY DEF Failure

(* A conversation that is healthy was so before, and nothing failed now.   *)
LEMMA StaysHealthy ==
  ASSUME failures \in Nat, [LinkNext]_linkVars
  PROVE  /\ failures' \in Nat
         /\ Healthy' =>
              /\ Healthy
              /\ ~DeviceFails /\ ~DeviceGivesUp /\ ~DeadlinePasses /\ ~LinkLost
<1>1. DeviceFails \/ DeadlinePasses \/ LinkLost => Failure(TRUE)
  BY DEF DeviceFails, DeadlinePasses, LinkLost
<1>2. DeviceGivesUp => Timeout(TRUE) /\ failures' = failures
  BY DEF DeviceGivesUp
<1>3. DeviceFails \/ DeadlinePasses \/ LinkLost => failures' \in Nat /\ ~Healthy'
  BY <1>1, Faultless DEF Healthy
<1>4. DeviceGivesUp => failures' \in Nat /\ ~Healthy'
  BY <1>2, Punctual DEF Healthy
<1>5. ASSUME failures' = failures \/ failures' = failures + 1,
             timely' => timely
      PROVE  failures' \in Nat /\ (Healthy' => Healthy)
  BY <1>5 DEF Healthy
<1>6. CASE DeviceProceeds \/ ServerSeesDisconnect \/ UNCHANGED linkVars
  <2>1. UNCHANGED history
    BY <1>6 DEF DeviceProceeds, ServerSeesDisconnect, linkVars
  <2>2. timely' => timely
    BY <2>1, Zenon DEF history
  <2> QED BY <1>3, <1>4, <1>5, <2>1, <2>2 DEF history
<1>7. CASE ServerReads
  <2>1. failures' = failures
    BY <1>7 DEF ServerReads
  <2>2. UNCHANGED timely \/ Timeout(status[Head(up).turn] # "committed")
    BY <1>7 DEF ServerReads, Accepts
  <2>3. timely' => timely
    BY <2>2, Zenon DEF Timeout
  <2> QED BY <1>3, <1>4, <1>5, <2>1, <2>3
<1>8. CASE ServerWorks
  <2>1. PICK t \in Turns : Failure(StepFails(t)) /\ Timeout(StepTimesOut(t))
    BY <1>8 DEF ServerWorks
  <2>2. failures' = failures \/ failures' = failures + 1
    BY <2>1 DEF Failure
  <2>3. timely' => timely
    BY <2>1, Zenon DEF Timeout
  <2> QED BY <1>3, <1>4, <1>5, <2>2, <2>3
<1>9. CASE ServerStops
  <2>1. failures' = failures /\ Timeout(StopTimesOut)
    BY <1>9 DEF ServerStops
  <2>2. timely' => timely
    BY <2>1, Zenon DEF Timeout
  <2> QED BY <1>3, <1>4, <1>5, <2>1, <2>2
<1> QED
  BY <1>3, <1>4, <1>6, <1>7, <1>8, <1>9 DEF LinkNext

LEMMA WorksKeep ==
  ASSUME ConversationInv, DeviceInv, failures \in Nat, Somewhere, ServerWorks, Healthy'
  PROVE  Somewhere'
<1>1. PICK u \in Turns :
        /\ FinishTask(u) \/ ErrorThread(u) \/ Worker(u)
        /\ Reply(Sent(u)) /\ Failure(StepFails(u)) /\ Timeout(StepTimesOut(u))
  BY DEF ServerWorks
<1>2. UNCHANGED <<device, up, link>>
  BY DEF ServerWorks
<1>3. ~StepFails(u)
  BY <1>1 DEF Failure, Healthy
<1>4. ~StepTimesOut(u)
  BY <1>1, Zenon DEF Timeout, Healthy
<1>5. Works(u)
  BY <1>1, <1>3, <1>4 DEF Works
<1>6. CASE NotBegun \/ BetweenTurns \/ Leaving
  BY <1>1, <1>2, <1>5, <1>6, RestingWorks
<1>7. CASE InTheTurn
  <2>1. turn \in Turns
    BY <1>7, InTheTurnIs DEF Engaged, DeviceInv
  <2> QED BY <1>1, <1>2, <1>5, <1>7, <2>1, EarlierWorks, OwnWorks
<1>8. CASE Left \/ Gone
  <2>1. ~link
    BY <1>8 DEF Left, Gone
  <2>2. down' = down
    BY <1>1, <2>1 DEF Reply
  <2>3. Left => Left'
    BY <1>2, <2>2 DEF Left, device
  <2>4. Gone => Gone'
    BY <1>2, <2>2 DEF Gone, device
  <2> QED BY <1>8, <2>3, <2>4 DEF Somewhere
<1> QED BY <1>6, <1>7, <1>8 DEF Somewhere, InTheTurn

(* There is nothing to stop before the device has hung up.                 *)
LEMMA StopsKeep ==
  ASSUME DeviceInv, Somewhere, ServerStops \/ ServerSeesDisconnect PROVE Somewhere'
<1>1. (Serving /\ (NotBegun \/ link)) \/ Left \/ Gone
  <2>1. NotBegun \/ BetweenTurns \/ Leaving => Serving /\ (NotBegun \/ link)
    BY DEF NotBegun, BetweenTurns, Leaving, AllRest
  <2>2. InTheTurn => Serving /\ link
    BY InTheTurnIs DEF Engaged
  <2> QED BY <2>1, <2>2 DEF Somewhere, InTheTurn
<1>2. CASE Left \/ Gone
  <2>1. ~link /\ UNCHANGED <<device, up>>
    BY <1>2 DEF Left, Gone, ServerStops, ServerSeesDisconnect
  <2>2. down' = down /\ ~link'
    <3>1. down' = down
      BY <2>1 DEF Reply, ServerStops, ServerSeesDisconnect
    <3>2. ServerStops => ~link'
      BY <2>1, Zenon DEF ServerStops
    <3>3. ServerSeesDisconnect => ~link'
      BY <2>1 DEF ServerSeesDisconnect
    <3> QED BY <3>1, <3>2, <3>3
  <2>3. Left => Left'
    BY <2>1, <2>2 DEF Left, device
  <2>4. Gone => Gone'
    BY <2>1, <2>2 DEF Gone, device
  <2> QED BY <1>2, <2>3, <2>4 DEF Somewhere
<1>3. CASE Serving /\ (NotBegun \/ link)
  <2>1. sock = "open" /\ stop.pc = "idle"
    BY <1>3 DEF Serving, NoStop
  <2>2. ~CancelThread
    BY <2>1 DEF CancelThread, StopRevoke, StopJoin, StopTimesOut, CancelDone, CancelReply,
                CancelTooLate
  <2>3. ~Close
    BY <2>1 DEF Close, CloseBegin, CloseEnd, CloseTurn, CloseStopped
  <2>4. ~ServerSeesDisconnect
    BY <1>3 DEF ServerSeesDisconnect, NotBegun
  <2> QED BY <2>2, <2>3, <2>4 DEF ServerStops
<1> QED BY <1>1, <1>2, <1>3

(* The index the device asks for is one the server lets in.                *)
LEMMA OfferAllowed ==
  ASSUME ConversationInv, DeviceInv, Offered
  PROVE  StartAllowed(turn, ctl.turn_index)
<1>1. /\ Serving /\ Fresh(turn) /\ Asking /\ turn \in Turns
      /\ \A u \in Turns \ {turn} : AtRest(u)
  BY DEF Offered, Engaged, DeviceInv
<1>2. Listening /\ status[turn] = "none"
  BY <1>1 DEF Serving, Fresh, Listening
<1>3. Active = {}
  BY <1>1 DEF Active, Started, AtRest, Over, Fresh
<1>4. CASE FirstTry
  <2>1. TurnCount \in Nat /\ Indices = 0..TurnCount-1
    BY TypesHold, CountType DEF WithinTurnLimit
  <2>2. ctl.turn_index \notin Indices
    BY <1>4, <2>1 DEF FirstTry
  <2>3. AtIndex(ctl.turn_index) = {}
    BY <2>2 DEF AtIndex, Indices
  <2> QED BY <1>2, <1>3, <1>4, <2>3 DEF StartAllowed, IndexAllowed, FirstTry
<1>5. CASE SecondTry
  <2>1. PICK u \in Turns : Alone(u) /\ status[u] = "asr_empty"
    BY <1>5 DEF SecondTry
  <2>2. AtIndex(ctl.turn_index) = {u}
    BY <2>1 DEF AtIndex, Alone
  <2> QED BY <1>2, <1>3, <2>1, <2>2 DEF StartAllowed, IndexAllowed
<1> QED BY <1>1, <1>4, <1>5 DEF Asking

(* ... and once it has, that index is the last one.                        *)
LEMMA StartsAsked ==
  ASSUME ConversationInv, DeviceInv, Offered, TurnStart(turn, ctl.turn_index),
         UNCHANGED <<ctl, turn>>
  PROVE  Asked'
<1>1. /\ Asking /\ turn \in Turns /\ Fresh(turn) /\ ctl.turn_index \in Nat
      /\ ctl.followup_count <= ctl.turn_index
  <2>1. Asking /\ turn \in Turns /\ Fresh(turn)
    BY DEF Offered, DeviceInv, Engaged
  <2>2. ctl \in D!Controller
    BY DEF DeviceInv, InStep, D!ControllerInStep
  <2>3. ctl.turn_index \in Nat
    BY <2>2 DEF D!Controller
  <2> QED BY <2>1, <2>3 DEF Asking
<1>2. TypeOK /\ WithinTurnLimit /\ TurnCount \in Nat /\ IsFiniteSet(Indices)
  BY TypesHold, CountType
<1> DEFINE i == ctl.turn_index
<1>3. /\ index' = [index EXCEPT ![turn] = i] /\ status' = [status EXCEPT ![turn] = "receiving"]
      /\ turn \notin Started
  BY <1>1 DEF TurnStart, Fresh, Started
<1>4. /\ Started' = Started \cup {turn} /\ index'[turn] = i
      /\ \A u \in Started : index'[u] = index[u]
  BY <1>1, <1>2, <1>3 DEF Started, TypeOK
<1>5. Indices' = Indices \cup {i}
  BY <1>4 DEF Indices
<1>6. CASE FirstTry
  <2>1. i \notin Indices
    BY <1>2, <1>6 DEF FirstTry, WithinTurnLimit
  <2>2. TurnCount' = i + 1
    BY <1>2, <1>5, <1>6, <2>1, FS_AddElement DEF TurnCount, FirstTry
  <2>3. \A v \in Started : index[v] # i
    BY <2>1 DEF Indices
  <2>4. Alone(turn)'
    BY <1>4, <2>3 DEF Alone
  <2> QED BY <1>1, <2>2, <2>4 DEF Asked
<1>7. CASE SecondTry
  <2>1. i \in Indices /\ i + 1 = TurnCount /\ ctl.reprompt_used
    BY <1>7 DEF SecondTry, Alone, Indices
  <2>2. TurnCount' = TurnCount
    BY <1>5, <2>1 DEF TurnCount
  <2> QED BY <1>1, <2>1, <2>2 DEF Asked
<1> QED BY <1>1, <1>6, <1>7 DEF Asking

LEMMA ReadsStart ==
  ASSUME ConversationInv, DeviceInv, Offered, ServerReads PROVE Begun'
<1> DEFINE m == D!Msg("turn_start", turn, ctl.turn_index)
<1>1. up = <<m>> /\ Head(up) = m /\ up' = << >> /\ UNCHANGED device
  BY Concatenations DEF Offered, ServerReads
<1>2. m.type = "turn_start" /\ m.turn = turn /\ m.n = ctl.turn_index
  BY DEF D!Msg
<1>3. StartAllowed(turn, ctl.turn_index) /\ ~expired
  BY OfferAllowed DEF Offered, Engaged, Serving
<1>4. TurnStart(turn, ctl.turn_index) /\ Reply(<<D!Msg("ack", turn, 0)>>) /\ UNCHANGED link
  BY <1>1, <1>2, <1>3 DEF ServerReads, Refused, Accepts
<1>5. Asked'
  BY <1>1, <1>4, StartsAsked DEF device
<1>6. /\ Engaged /\ Serving /\ link /\ down = << >> /\ Fresh(turn)
      /\ turn \in Turns
  BY DEF Offered, Engaged, DeviceInv
<1>7. down' = <<D!Msg("ack", turn, 0)>>
  BY <1>4, <1>6, Adds, Concatenations DEF OneOrTwo
<1>8. TypeOK
  BY TypesHold
<1>9. PICK u \in Turns : u = turn
  BY <1>6
<1>10. /\ UNCHANGED <<sock, expired, stop, cancel_event, task, future>>
       /\ fsm' = [fsm EXCEPT ![u] = "receiving"] /\ status' = [status EXCEPT ![u] = "receiving"]
  BY <1>4, <1>9 DEF TurnStart
<1>11. Hearing(u)'
  BY <1>6, <1>8, <1>9, <1>10 DEF Hearing, Fresh, TypeOK
<1>12. Serving'
  BY <1>6, <1>10 DEF Serving
<1>13. ASSUME NEW v \in Turns \ {u} PROVE AtRest(v)'
  <2>1. AtRest(v) /\ used' = used
    BY <1>1, <1>6, <1>9, <1>13 DEF Engaged, device
  <2> QED BY <1>10, <2>1 DEF AtRest, Over, Fresh
<1>14. turn' = u /\ link' /\ turn' \in used'
  BY <1>1, <1>4, <1>6, <1>9 DEF device, Engaged
<1>15. Engaged'
  BY <1>12, <1>13, <1>14 DEF Engaged
<1> QED
  BY <1>1, <1>5, <1>7, <1>9, <1>11, <1>14, <1>15 DEF Begun, Offered, Heard, device

LEMMA ReadsEnd ==
  ASSUME ConversationInv, DeviceInv, Ended, ServerReads PROVE Listened'
<1> DEFINE m == D!Msg("turn_end", turn, 0)
<1>1. up = <<m>> /\ Head(up) = m /\ up' = << >> /\ UNCHANGED device
  BY Concatenations DEF Ended, ServerReads
<1>2. m.type = "turn_end" /\ m.turn = turn
  BY DEF D!Msg
<1>3. /\ Engaged /\ Asked /\ Serving /\ link /\ down = << >> /\ Hearing(turn) /\ turn \in Turns
      /\ AwaitsResult
  BY DEF Ended, AwaitsResult, Engaged, DeviceInv
<1>4. TurnEnd(turn) /\ UNCHANGED <<down, link>>
  BY <1>1, <1>2, <1>3 DEF ServerReads, Refused, Accepts, Serving, Hearing
<1>8. TypeOK
  BY TypesHold
<1>9. PICK u \in Turns : u = turn
  BY <1>3
<1>10. /\ UNCHANGED <<sock, expired, stop, cancel_event, status, index, future>>
       /\ fsm' = [fsm EXCEPT ![u] = "processing"] /\ task' = [task EXCEPT ![u] = "asr"]
  BY <1>4, <1>9 DEF TurnEnd
<1>11. Transcribing(u)'
  BY <1>3, <1>8, <1>9, <1>10 DEF Hearing, Transcribing, TypeOK
<1>12. Serving'
  BY <1>3, <1>10 DEF Serving
<1>13. ASSUME NEW v \in Turns \ {u} PROVE AtRest(v)'
  <2>1. AtRest(v) /\ used' = used
    BY <1>1, <1>3, <1>9, <1>13 DEF Engaged, device
  <2> QED BY <1>10, <2>1 DEF AtRest, Over, Fresh
<1>14. turn' = u /\ link' /\ turn' \in used'
  BY <1>1, <1>3, <1>4, <1>9 DEF device, Engaged
<1>15. Engaged'
  BY <1>12, <1>13, <1>14 DEF Engaged
<1>16. Asked'
  <2>1. Started' = Started
    BY <1>10 DEF Started
  <2>2. TurnCount' = TurnCount
    BY <1>10, <2>1 DEF TurnCount, Indices
  <2> QED BY <1>1, <1>3, <1>10, <2>1, <2>2, NumbersKept DEF device
<1> QED
  BY <1>1, <1>3, <1>4, <1>9, <1>11, <1>14, <1>15, <1>16 DEF Listened, AwaitsResult, Heard, device

LEMMA ReadsComplete ==
  ASSUME ConversationInv, DeviceInv, ResultHeard, ServerReads, timely'
  PROVE  Answered'
<1> DEFINE m == D!Msg("turn_playback_complete", turn, 0)
<1>1. /\ up = <<m>> /\ Head(up) = m /\ up' = << >> /\ UNCHANGED device
      /\ pc = "completing" /\ ctl.followup_count = ctl.turn_index
  BY Concatenations DEF ResultHeard, ServerReads
<1>2. m.type = "turn_playback_complete" /\ m.turn = turn
  BY DEF D!Msg
<1>3. /\ Engaged /\ Asked /\ Serving /\ link /\ down = << >> /\ Answering(turn) /\ turn \in Turns
  BY DEF ResultHeard, Engaged, DeviceInv
<1>4. /\ PlaybackComplete(turn) /\ Reply(Sent(turn)) /\ UNCHANGED link
      /\ Timeout(status[turn] # "committed")
  BY <1>1, <1>2, <1>3 DEF ServerReads, Refused, Accepts, Serving, Answering
<1>5. status[turn] = "committed"
  BY <1>4, Zenon DEF Timeout
<1>8. TypeOK
  BY TypesHold
<1>9. PICK u \in Turns : u = turn
  BY <1>3
<1>10. /\ UNCHANGED <<sock, expired, stop, cancel_event, status, index, future, task, mode_turns,
                      max_turns>>
       /\ fsm' = [fsm EXCEPT ![u] = "completed"] /\ Send(u, "played")
  BY <1>4, <1>9 DEF PlaybackComplete
<1>11. Over(u)' /\ mode_turns'[u] <= max_turns'
  BY <1>3, <1>5, <1>8, <1>9, <1>10 DEF Answering, Over, TypeOK
<1>12. Serving'
  BY <1>3, <1>10 DEF Serving
<1>13. ASSUME NEW v \in Turns \ {u} PROVE AtRest(v)'
  <2>1. AtRest(v) /\ used' = used
    BY <1>1, <1>3, <1>9, <1>13 DEF Engaged, device
  <2> QED BY <1>10, <2>1 DEF AtRest, Over, Fresh
<1>14. turn' = u /\ link' /\ turn' \in used'
  BY <1>1, <1>3, <1>4, <1>9 DEF device, Engaged
<1>15. Engaged'
  BY <1>12, <1>13, <1>14 DEF Engaged
<1>16. Asked'
  <2>1. Started' = Started
    BY <1>10 DEF Started
  <2>2. TurnCount' = TurnCount
    BY <1>10, <2>1 DEF TurnCount, Indices
  <2> QED BY <1>1, <1>3, <1>10, <2>1, <2>2, NumbersKept DEF device
<1>17. down' = <<D!Msg("played", u, mode_turns[u])>>
  <2>1. Sends1(u, "played")
    BY <1>3, <1>8, <1>9, <1>10 DEF Sends1, Answering
  <2>2. Sent(u) = <<D!Msg("played", u, mode_turns[u])>>
    BY <1>8, <2>1, AloudSent DEF Event
  <2> QED BY <1>3, <1>4, <1>9, <2>2, Adds, Concatenations DEF OneOrTwo
<1> QED
  BY <1>1, <1>9, <1>10, <1>11, <1>14, <1>15, <1>16, <1>17
  DEF Answered, ResultHeard, Heard, device

LEMMA ReadsFarewell ==
  ASSUME ConversationInv, DeviceInv, Leaving, ServerReads PROVE Left'
<1> DEFINE m == D!Msg("conversation_end", turn, 0)
<1>1. /\ up = <<m>> /\ Head(up) = m /\ up' = << >> /\ UNCHANGED device
  BY Concatenations DEF Leaving, ServerReads
<1>2. m.type = "conversation_end"
  BY DEF D!Msg
<1>3. Serving /\ link /\ down = << >>
  BY DEF Leaving, AllRest
<1>4. Reply(<<D!Msg("conversation_done", "none", 0)>>) /\ ~link'
  BY <1>1, <1>2, <1>3 DEF ServerReads, Refused, Accepts, Serving
<1>5. down' = <<D!Msg("conversation_done", "none", 0)>>
  BY <1>3, <1>4, Adds, Concatenations DEF OneOrTwo
<1> QED BY <1>1, <1>4, <1>5 DEF Leaving, Left, device

LEMMA ReadsKeep ==
  ASSUME ConversationInv, DeviceInv, Somewhere, ServerReads, timely'
  PROVE  Somewhere'
<1>1. up # << >> /\ up' = Tail(up) /\ UNCHANGED device
  BY DEF ServerReads
<1>2. ~NotBegun /\ ~BetweenTurns /\ ~Begun /\ ~Listened /\ ~Understood /\ ~ResultSent
      /\ ~EmptySent /\ ~EmptyHeard /\ ~Answered /\ ~Left
  BY <1>1 DEF NotBegun, BetweenTurns, Begun, Listened, Understood, ResultSent, EmptySent,
              EmptyHeard, Answered, Left
<1>3. CASE Gone
  <2>1. up' = << >> /\ ~link
    BY <1>1, <1>3, Concatenations DEF Gone
  <2>2. ~link'
    BY <2>1 DEF ServerReads
  <2>3. Gone'
    BY <1>1, <1>3, <2>1, <2>2 DEF Gone, device
  <2> QED BY <2>3 DEF Somewhere
<1> QED
  BY <1>2, <1>3, ReadsStart, ReadsEnd, ReadsComplete, ReadsFarewell DEF Somewhere

(* The device's steps.                                                     *)
LEMMA ProceedsAt ==
  ASSUME D!Proceeds
  PROVE  \/ pc = "idle" /\ D!Begin
         \/ pc = "opening" /\ D!Opened
         \/ pc = "listening" /\ (D!NobodySpeaks \/ D!SpeechStarts)
         \/ pc = "starting" /\ D!TurnStarted
         \/ pc = "recording" /\ D!Recorded
         \/ pc = "finishing" /\ D!TurnOver
         \/ pc = "playing" /\ D!Played
         \/ pc = "completing" /\ D!TurnComplete
         \/ pc = "prompting" /\ D!PromptPlayed
         \/ pc = "closing" /\ D!Closed
         \/ pc = "cancelling"
         \/ /\ pc \in {"starting", "finishing", "completing"}
            /\ flags \cap {"error_received", "disconnected"} # {}
<1>1. /\ D!Begin => pc = "idle"
      /\ D!Opened => pc = "opening"
      /\ D!NobodySpeaks \/ D!SpeechStarts => pc = "listening"
      /\ D!TurnStarted => pc = "starting"
      /\ D!Recorded => pc = "recording"
  BY DEF D!Begin, D!Opened, D!NobodySpeaks, D!SpeechStarts, D!TurnStarted, D!Recorded, D!Go
<1>2. /\ D!TurnOver => pc = "finishing"
      /\ D!Played => pc = "playing"
      /\ D!TurnComplete => pc = "completing"
      /\ D!PromptPlayed => pc = "prompting"
      /\ D!Closed => pc = "closing"
      /\ D!CancelOver => pc = "cancelling"
  BY DEF D!TurnOver, D!Played, D!TurnComplete, D!PromptPlayed, D!Closed, D!CancelOver, D!Go
<1>3. D!WaitFails => /\ pc \in {"starting", "finishing", "completing"}
                     /\ flags \cap {"error_received", "disconnected"} # {}
  BY DEF D!WaitFails, D!Waiting, D!Awaited
<1> QED BY <1>1, <1>2, <1>3 DEF D!Proceeds

LEMMA AtFields ==
  ASSUME NEW c \in D!Controller, NEW s
  PROVE  /\ At(c, s).turn_index = c.turn_index
         /\ At(c, s).followup_count = c.followup_count
         /\ At(c, s).reprompt_used = c.reprompt_used
BY DEF At, D!Controller

LEMMA ControllerType ==
  DeviceInv => /\ ctl \in D!Controller /\ ctl.turn_index \in 0..255
               /\ ctl.followup_count \in 0..255
<1>1. DeviceInv => ctl \in D!Controller
  BY DEF DeviceInv, InStep, D!ControllerInStep
<1> QED BY <1>1 DEF D!Controller

SameQuestion ==
  /\ ctl'.turn_index = ctl.turn_index /\ ctl'.followup_count = ctl.followup_count
  /\ ctl'.reprompt_used = ctl.reprompt_used

LEMMA ServerStill ==
  ASSUME UNCHANGED vars
  PROVE  /\ UNCHANGED <<Started, TurnCount>>
         /\ Serving => Serving'
         /\ used' = used /\ AllRest => AllRest'
         /\ UNCHANGED <<used, turn, link>> /\ Engaged => Engaged'
<1>1. UNCHANGED <<Started, TurnCount>>
  BY DEF vars, Started, TurnCount, Indices
<1>2. Serving => Serving'
  BY DEF vars, Serving
<1>3. ASSUME used' = used, NEW u \in Turns, AtRest(u) PROVE AtRest(u)'
  BY <1>3 DEF vars, AtRest, Over, Fresh
<1>4. ASSUME used' = used, AllRest PROVE AllRest'
  BY <1>2, <1>3, <1>4 DEF AllRest
<1>5. ASSUME UNCHANGED <<used, turn, link>>, Engaged PROVE Engaged'
  BY <1>2, <1>3, <1>5 DEF Engaged
<1> QED BY <1>1, <1>2, <1>4, <1>5

LEMMA NumbersSame ==
  ASSUME UNCHANGED vars, SameQuestion
  PROVE  /\ Asking => Asking'
         /\ GoesOn => GoesOn'
         /\ turn' = turn /\ Asked => Asked'
<1>1. UNCHANGED <<Started, TurnCount, status, index, max_turns>>
  BY ServerStill DEF vars
<1>2. \A u \in Turns : Alone(u) => Alone(u)'
  BY <1>1 DEF Alone, SameQuestion
<1>3. Asking => Asking'
  <2>1. FirstTry => FirstTry'
    BY <1>1 DEF FirstTry, SameQuestion
  <2>2. SecondTry => SecondTry'
    BY <1>1, <1>2 DEF SecondTry, SameQuestion
  <2> QED BY <2>1, <2>2 DEF Asking, SameQuestion
<1>4. GoesOn => GoesOn'
  BY <1>1 DEF GoesOn, SameQuestion
<1>5. turn' = turn /\ Asked => Asked'
  BY <1>1 DEF Asked, Alone, SameQuestion
<1> QED BY <1>3, <1>4, <1>5

(* To another place, or out of the conversation.                           *)
LEMMA HangsUp ==
  ASSUME UNCHANGED vars, AllRest, link, up = << >>, down = << >>, "error_received" \notin flags,
         EndsWell
  PROVE  Leaving' /\ outcome' = "normal"
<1>1. /\ pc' = "closing" /\ outcome' = "normal" /\ UNCHANGED <<flags, turn, used>>
      /\ D!Send(D!Msg("conversation_end", turn, 0))
  BY DEF EndsWell, D!Close, D!client
<1>2. up' = <<D!Msg("conversation_end", turn, 0)>> /\ UNCHANGED <<down, link>>
  BY <1>1, Concatenations DEF D!Send
<1> QED BY <1>1, <1>2, ServerStill DEF Leaving

LEMMA NotBegunProceeds ==
  ASSUME DeviceInv, NotBegun, D!Proceeds \/ D!Receive \/ D!Disconnected, UNCHANGED vars
  PROVE  Somewhere' /\ outcome' = outcome
<1>1. ctl \in D!Controller
  BY ControllerType
<1>2. ~D!Receive /\ ~D!Disconnected
  BY DEF NotBegun, D!Receive, D!Disconnected
<1>3. CASE D!Begin
  <2>1. pc' = "opening" /\ UNCHANGED <<flags, used, up, down, link, outcome>> /\ ctl.state = "IDLE"
    BY <1>3 DEF D!Begin, D!Go, D!client, D!channel, DeviceInv
  <2>2. ctl' = At(ctl, "PROMPTING")
    BY <1>3, <2>1, Begins DEF D!Begin
  <2>3. SameQuestion
    BY <1>1, <2>2, AtFields DEF SameQuestion
  <2>4. NotBegun'
    BY <2>1, <2>3, NumbersSame, ServerStill DEF NotBegun
  <2> QED BY <2>1, <2>4 DEF Somewhere
<1>4. CASE D!Opened
  <2>1. /\ pc' = "listening" /\ UNCHANGED <<flags, used, up, down, outcome>> /\ link'
        /\ ctl.state = "PROMPTING"
    BY <1>4 DEF D!Opened, D!Go, D!client, DeviceInv
  <2>2. ctl' = At(ctl, "RECORDING")
    BY <1>4, <2>1, Prompted DEF D!Opened
  <2>3. SameQuestion
    BY <1>1, <2>2, AtFields DEF SameQuestion
  <2>4. ctl'.state = "RECORDING"
    BY <1>1, <2>2, StaysController DEF D!State
  <2>5. BetweenTurns'
    BY <2>1, <2>3, <2>4, NumbersSame, ServerStill DEF NotBegun, BetweenTurns
  <2> QED BY <2>1, <2>5 DEF Somewhere
<1> QED BY <1>2, <1>3, <1>4, ProceedsAt DEF NotBegun

LEMMA AsksAgainDoes ==
  ASSUME DeviceInv, AsksAgain
  PROVE  /\ pc' = "prompting" /\ UNCHANGED <<flags, turn, used, up, down, link, outcome>>
         /\ ctl'.state = "REPROMPT" /\ ctl'.reprompt_used
         /\ ctl'.turn_index = ctl.turn_index /\ ctl'.followup_count = ctl.followup_count
<1> DEFINE c == [ctl EXCEPT !.reprompt_used = TRUE]
<1>1. /\ c \in D!Controller /\ c.reprompt_used /\ c.turn_index = ctl.turn_index
      /\ c.followup_count = ctl.followup_count
  BY ControllerType DEF D!Controller
<1>2. ctl' = At(c, "REPROMPT") /\ pc' = "prompting"
      /\ UNCHANGED <<flags, turn, used, up, down, link, outcome>>
  BY DEF AsksAgain, D!Prompt, D!client, D!channel
<1> HIDE DEF c
<1> QED BY <1>1, <1>2, AtFields, StaysController DEF D!State

LEMMA RestingProceeds ==
  ASSUME ConversationInv, DeviceInv, BetweenTurns, D!Proceeds \/ D!Receive \/ D!Disconnected,
         UNCHANGED vars
  PROVE  Somewhere' /\ outcome' \in {outcome, "normal"}
<1>1. /\ ctl \in D!Controller /\ ctl.turn_index \in 0..255 /\ ctl.followup_count \in 0..255
      /\ pc = "listening" => ctl.state \in {"RECORDING", "FOLLOWUP_WINDOW"}
      /\ pc = "prompting" => ctl.state \in {"REPROMPT", "FOLLOWUP_CUE"}
  BY ControllerType DEF DeviceInv, InStep, D!ControllerInStep
<1>2. ~D!Receive /\ ~D!Disconnected
  BY DEF BetweenTurns, D!Receive, D!Disconnected
<1>3. UNCHANGED <<Started, TurnCount, status, index, max_turns>>
  BY ServerStill DEF vars
<1>4. CASE ctl.state = "RECORDING" /\ AsksAgain
  <2>1. /\ Asking /\ pc' = "prompting" /\ UNCHANGED <<flags, used, up, down, link, outcome>>
        /\ ctl'.state = "REPROMPT" /\ ~ctl.reprompt_used
        /\ ctl'.turn_index = ctl.turn_index /\ ctl'.followup_count = ctl.followup_count
    BY <1>4, AsksAgainDoes DEF AsksAgain, BetweenTurns
  <2>2. Asking'
    BY <1>3, <2>1 DEF Asking, FirstTry, SecondTry
  <2>3. BetweenTurns'
    BY <2>1, <2>2, ServerStill DEF BetweenTurns
  <2> QED BY <2>1, <2>3 DEF Somewhere
<1>5. CASE EndsWell
  BY <1>5, HangsUp DEF BetweenTurns, D!TurnFlag, Somewhere
<1>6. CASE pc = "listening" /\ D!SpeechStarts
  <2>1. /\ pc' = "starting" /\ outcome' = outcome /\ flags' = flags \ D!TurnFlag
        /\ result' = D!NoResult
    BY <1>6 DEF D!SpeechStarts, D!Go
  <2>2. PICK u \in Turns \ used : u = turn' /\ used' = used \cup {u}
    BY SpeechStartsDoes, <1>6
  <2>3. D!Send(D!Msg("turn_start", u, ctl'.turn_index))
    BY SpeechStartsDoes, <1>6, <2>2
  <2>4. up' = <<D!Msg("turn_start", u, ctl'.turn_index)>> /\ UNCHANGED <<down, link>>
    BY <2>3, Concatenations DEF D!Send, BetweenTurns
  <2>5. Serving' /\ AllRest /\ link'
    BY <2>4, ServerStill DEF BetweenTurns, AllRest
  <2>6. Fresh(u)'
    BY <2>2, <2>5 DEF AllRest, AtRest, Fresh, vars
  <2>7. ASSUME NEW v \in Turns \ {u} PROVE AtRest(v)'
    BY <2>2, <2>5, <2>7 DEF AllRest, AtRest, Fresh, Over, vars
  <2>8. Engaged'
    BY <2>2, <2>5, <2>7 DEF Engaged
  <2>9. Asking'
    <3>1. CASE ctl.state = "RECORDING"
      <4>1. ctl' = ctl
        BY <1>6, <3>1, SpeechStartsDoes
      <4> QED BY <3>1, <4>1, NumbersSame DEF SameQuestion, BetweenTurns
    <3>2. CASE ctl.state = "FOLLOWUP_WINDOW"
      <4>1. /\ ctl'.turn_index = (ctl.followup_count + 1) % 256
            /\ ctl'.followup_count = ctl.followup_count
        BY <1>6, <3>2, SpeechStartsDoes
      <4>2. GoesOn
        BY <3>2 DEF BetweenTurns
      <4>3. max_turns \in Nat /\ max_turns <= GameMaxTurns /\ TurnCount \in Nat
        BY TypesHold, CountType DEF TypeOK, WithinTurnLimit
      <4>4. ctl.followup_count + 1 < 256
        BY <1>1, <4>2, <4>3, WidthAssumption, LimitsAssumption DEF GoesOn
      <4>5. ctl'.turn_index = TurnCount
        BY <1>1, <4>1, <4>2, <4>4 DEF GoesOn
      <4> QED
        BY <1>1, <1>3, <4>1, <4>2, <4>3, <4>5 DEF GoesOn, Asking, FirstTry
    <3> QED BY <1>1, <1>6, <3>1, <3>2
  <2>10. flags' = {}
    BY <2>1 DEF BetweenTurns
  <2>11. Offered'
    BY <2>1, <2>2, <2>4, <2>6, <2>8, <2>9, <2>10 DEF Offered, BetweenTurns, Heard, D!NoResult
  <2> QED BY <2>1, <2>11 DEF Somewhere
<1>7. CASE pc = "prompting" /\ D!PromptPlayed
  <2>1. pc' = "listening" /\ UNCHANGED <<flags, used, up, down, link, outcome>>
    BY <1>7 DEF D!PromptPlayed, D!Go, D!client, D!channel
  <2>2. PICK s \in {"RECORDING", "FOLLOWUP_WINDOW"} :
          /\ ctl' = At(ctl, s)
          /\ s = "RECORDING" <=> ctl.state = "REPROMPT"
    BY <1>1, <1>7, Prompted DEF D!PromptPlayed
  <2>3. SameQuestion
    BY <1>1, <2>2, AtFields DEF SameQuestion
  <2>4. s \in D!State
    BY <2>2 DEF D!State
  <2>5. ctl'.state = s
    BY <1>1, <2>2, <2>4, StaysController
  <2>6. BetweenTurns'
    BY <1>1, <1>7, <2>1, <2>2, <2>3, <2>5, NumbersSame, ServerStill DEF BetweenTurns
  <2> QED BY <2>1, <2>6 DEF Somewhere
<1> QED
  BY <1>2, <1>4, <1>5, <1>6, <1>7, ProceedsAt, NobodySpeaksDoes DEF BetweenTurns

(* A message of the device's own turn arrives.                             *)
LEMMA Hears ==
  ASSUME D!Receive, NEW m, Head(down) = m, m.turn = turn
  PROVE  /\ down' = Tail(down) /\ UNCHANGED <<pc, ctl, turn, used, up, link, outcome>>
         /\ m.type = "ack" => flags' = flags \cup {"turn_started"} /\ result' = result
         /\ m.type = "asr_final" => flags' = flags /\ result' = result
         /\ m.type = "turn_result" =>
              flags' = flags \cup {"turn_terminal"} /\ result' = [result EXCEPT !.url = TRUE]
         /\ m.type \in {"played", "asr_empty"} =>
              /\ flags' = flags \cup {"playback_complete"}
                                \cup (IF result.url THEN {} ELSE {"turn_terminal"})
              /\ result' = [result EXCEPT
                              !.status = IF result.url THEN @ ELSE m.type,
                              !.max_turns = IF m.n = 0 THEN @ ELSE m.n]
<1>1. /\ down' = Tail(down) /\ UNCHANGED <<pc, ctl, turn, used, up, link, outcome>>
      /\ flags' = flags \cup D!Raised(m)
  BY DEF D!Receive
<1>2. /\ m.type = "ack" => D!Raised(m) = {"turn_started"}
      /\ m.type = "asr_final" => D!Raised(m) = {}
      /\ m.type = "turn_result" => D!Raised(m) = {"turn_terminal"}
      /\ m.type \in {"played", "asr_empty"} =>
           D!Raised(m) = {"playback_complete"} \cup (IF result.url THEN {} ELSE {"turn_terminal"})
  BY DEF D!Raised
<1>3. /\ m.type \in {"ack", "asr_final"} => result' = result
      /\ m.type = "turn_result" => result' = [result EXCEPT !.url = TRUE]
      /\ m.type \in {"played", "asr_empty"} =>
           result' = [result EXCEPT
                        !.status = IF result.url THEN @ ELSE m.type,
                        !.max_turns = IF m.n = 0 THEN @ ELSE m.n]
  BY DEF D!Receive
<1> QED BY <1>1, <1>2, <1>3

LEMMA TurnStill ==
  ASSUME UNCHANGED vars, turn' = turn
  PROVE  /\ Fresh(turn) => Fresh(turn)'
         /\ Hearing(turn) => Hearing(turn)'
         /\ Transcribing(turn) => Transcribing(turn)'
         /\ Recognised(turn) => Recognised(turn)'
         /\ Answering(turn) => Answering(turn)'
         /\ Over(turn) => Over(turn)'
         /\ status'[turn] = status[turn] /\ mode_turns'[turn] = mode_turns[turn]
         /\ max_turns' = max_turns
BY DEF vars, Fresh, Hearing, Transcribing, Recognised, Answering, Over

(* The device is still at the same turn and question.                      *)
LEMMA TurnStays ==
  ASSUME UNCHANGED <<vars, turn, used, link>>, SameQuestion
  PROVE  /\ Engaged => Engaged'
         /\ Asked => Asked'
BY ServerStill, NumbersSame

(* Nothing for the device to do.                                           *)
LEMMA KeepsWaiting ==
  ASSUME pc \in {"starting", "finishing", "completing"}, D!Proceeds,
         flags \cap {"error_received", "disconnected"} = {},
         pc = "starting" => "turn_started" \notin flags,
         pc = "finishing" => "turn_terminal" \notin flags,
         pc = "completing" => "playback_complete" \notin flags
  PROVE  FALSE
<1>1. D!TurnStarted => "turn_started" \in flags
  BY DEF D!TurnStarted
<1>2. D!TurnOver => "turn_terminal" \in flags
  BY DEF D!TurnOver
<1>3. D!TurnComplete => "playback_complete" \in flags
  BY DEF D!TurnComplete
<1> QED BY <1>1, <1>2, <1>3, ProceedsAt

LEMMA OfferedWaits ==
  ASSUME Offered \/ Ended \/ Listened, D!Proceeds \/ D!Receive \/ D!Disconnected
  PROVE  FALSE
<1>1. down = << >> /\ link /\ "error_received" \notin flags /\ "disconnected" \notin flags
  BY DEF Offered, Ended, Listened, AwaitsResult, Engaged
<1>2. \/ pc = "starting" /\ "turn_started" \notin flags
      \/ pc = "finishing" /\ "turn_terminal" \notin flags
  <2>1. CASE Offered
    BY <2>1 DEF Offered
  <2>2. CASE Ended \/ Listened
    <3>1. AwaitsResult
      BY <2>2 DEF Ended, Listened
    <3>2. pc = "finishing" /\ flags = {"turn_started"}
      BY <3>1 DEF AwaitsResult
    <3> QED BY <3>2
  <2> QED BY <2>1, <2>2
<1>3. ~D!Receive /\ ~D!Disconnected
  BY <1>1 DEF D!Receive, D!Disconnected
<1> QED BY <1>1, <1>2, <1>3, KeepsWaiting

LEMMA BegunProceeds ==
  ASSUME DeviceInv, Begun, D!Proceeds \/ D!Receive \/ D!Disconnected, UNCHANGED vars
  PROVE  Somewhere' /\ outcome' = outcome
<1>1. /\ Engaged /\ link /\ Hearing(turn) /\ Asked /\ up = << >> /\ Heard(FALSE, "", 0)
      /\ pc \in {"starting", "recording"} /\ flags \subseteq {"turn_started"}
      /\ pc = "recording" => ctl.state = "RECORDING"
      /\ ctl \in D!Controller
  BY ControllerType DEF Begun, Engaged, DeviceInv, InStep, D!ControllerInStep
<1>2. ~D!Disconnected
  BY <1>1 DEF D!Disconnected
<1>3. CASE D!Receive
  <2> DEFINE m == D!Msg("ack", turn, 0)
  <2>1. down = <<m>> /\ flags = {} /\ pc = "starting"
    BY <1>3 DEF Begun, D!Receive
  <2>2. m.turn = turn /\ m.type = "ack"
    BY DEF D!Msg
  <2>3. Head(down) = m /\ Tail(down) = << >>
    BY <2>1, Concatenations
  <2> HIDE DEF m
  <2>4. /\ down' = << >> /\ UNCHANGED <<pc, ctl, turn, used, up, link, outcome>>
        /\ flags' = {"turn_started"} /\ result' = result
    BY <1>3, <2>1, <2>2, <2>3, Hears
  <2>5. Engaged' /\ Asked' /\ Hearing(turn)'
    BY <1>1, <2>4, TurnStays, TurnStill DEF SameQuestion
  <2>6. Begun'
    BY <1>1, <2>4, <2>5 DEF Begun, Heard
  <2> QED BY <2>4, <2>6 DEF Somewhere
<1>4. CASE D!TurnStarted
  <2>1. /\ pc = "starting" /\ pc' = "recording" /\ "turn_started" \in flags
        /\ UNCHANGED <<ctl, flags, result, turn, used, up, down, link, outcome>>
    BY <1>4 DEF D!TurnStarted, D!Go, D!client, D!channel
  <2>2. Engaged' /\ Asked' /\ Hearing(turn)'
    BY <1>1, <2>1, TurnStays, TurnStill DEF SameQuestion
  <2>3. down = << >> /\ flags = {"turn_started"}
    BY <2>1 DEF Begun
  <2>4. Begun'
    BY <1>1, <2>1, <2>2, <2>3 DEF Begun, Heard
  <2> QED BY <2>1, <2>4 DEF Somewhere
<1>5. CASE D!Recorded
  <2>1. /\ pc = "recording" /\ pc' = "finishing" /\ UNCHANGED <<flags, result, turn, used, outcome>>
        /\ D!Send(D!Msg("turn_end", turn, 0))
    BY <1>5 DEF D!Recorded, D!Go, D!client
  <2>2. ctl' = At(ctl, "WAITING_RESULT")
    BY <1>1, <1>5, <2>1, Records DEF D!Recorded
  <2>3. SameQuestion
    BY <1>1, <2>2, AtFields DEF SameQuestion
  <2>4. up' = <<D!Msg("turn_end", turn, 0)>> /\ UNCHANGED <<down, link>>
    BY <1>1, <2>1, Concatenations DEF D!Send
  <2>5. Engaged' /\ Asked' /\ Hearing(turn)'
    BY <1>1, <2>1, <2>3, <2>4, TurnStays, TurnStill
  <2>6. down = << >> /\ flags = {"turn_started"}
    BY <2>1 DEF Begun
  <2>7. Ended'
    BY <1>1, <2>1, <2>4, <2>5, <2>6 DEF Ended, AwaitsResult, Heard
  <2> QED BY <2>1, <2>7 DEF Somewhere
<1> QED
  BY <1>1, <1>2, <1>3, <1>4, <1>5, ProceedsAt DEF Begun

(* Until the result arrives, the device only listens to the server.        *)
LEMMA AwaitsProceeds ==
  ASSUME AwaitsResult, D!Proceeds \/ D!Receive \/ D!Disconnected
  PROVE  D!Receive
<1>1. pc = "finishing" /\ flags = {"turn_started"}
  BY DEF AwaitsResult
<1>2. Engaged
  BY DEF AwaitsResult
<1>3. ~D!Disconnected
  BY <1>2 DEF D!Disconnected, Engaged
<1>4. ~D!Proceeds
  BY <1>1, KeepsWaiting
<1> QED BY <1>3, <1>4

LEMMA AwaitsStill ==
  ASSUME AwaitsResult, UNCHANGED <<vars, pc, ctl, turn, used, link>>
  PROVE  /\ pc' = "finishing" /\ Engaged' /\ Asked'
         /\ Heard(FALSE, "", 0)
         /\ UNCHANGED <<flags, result>> => AwaitsResult'
<1>1. pc = "finishing" /\ Engaged /\ Asked /\ Heard(FALSE, "", 0) /\ flags = {"turn_started"}
  BY DEF AwaitsResult
<1>2. Engaged' /\ Asked' /\ pc' = "finishing"
  BY <1>1, TurnStays DEF SameQuestion
<1>3. ASSUME UNCHANGED <<flags, result>> PROVE AwaitsResult'
  BY <1>1, <1>2, <1>3 DEF AwaitsResult, Heard
<1> QED BY <1>1, <1>2, <1>3

LEMMA AsrFinalHeard ==
  ASSUME Understood, D!Receive, UNCHANGED vars PROVE Understood' /\ outcome' = outcome
<1> DEFINE m == D!Msg("asr_final", turn, 0)
<1>1. AwaitsResult /\ Recognised(turn) /\ up = << >> /\ down = <<m>>
  BY DEF Understood, D!Receive
<1>2. m.turn = turn /\ m.type = "asr_final"
  BY DEF D!Msg
<1>3. Head(down) = m /\ Tail(down) = << >>
  BY <1>1, Concatenations
<1> HIDE DEF m
<1>4. /\ down' = << >> /\ UNCHANGED <<pc, ctl, turn, used, up, link, outcome>>
      /\ UNCHANGED <<flags, result>>
  BY <1>2, <1>3, Hears
<1>5. AwaitsResult'
  BY <1>1, <1>4, AwaitsStill
<1>6. Recognised(turn)'
  BY <1>1, <1>4, TurnStill
<1> QED BY <1>1, <1>4, <1>5, <1>6 DEF Understood

LEMMA ResultReceived ==
  ASSUME ResultSent, D!Receive, UNCHANGED vars
  PROVE  (ResultSent \/ ResultHeard)' /\ outcome' = outcome
<1> DEFINE m == D!Msg("asr_final", turn, 0)
           n == D!Msg("turn_result", turn, 0)
<1>1. AwaitsResult /\ Answering(turn) /\ up = << >> /\ down \in {<<m, n>>, <<n>>}
  BY DEF ResultSent
<1>2. m.turn = turn /\ m.type = "asr_final" /\ n.turn = turn /\ n.type = "turn_result"
  BY DEF D!Msg
<1>3. CASE down = <<m, n>>
  <2>1. Head(down) = m /\ Tail(down) = <<n>>
    BY <1>3, Concatenations
  <2>2. m.turn = turn /\ m.type = "asr_final"
    BY <1>2
  <2> HIDE DEF m
  <2>4. /\ down' = <<n>> /\ UNCHANGED <<pc, ctl, turn, used, up, link, outcome>>
        /\ UNCHANGED <<flags, result>>
    BY <2>1, <2>2, Hears
  <2>5. AwaitsResult'
    BY <1>1, <2>4, AwaitsStill
  <2>6. Answering(turn)'
    BY <1>1, <2>4, TurnStill
  <2> QED BY <1>1, <2>4, <2>5, <2>6 DEF ResultSent
<1>4. CASE down = <<n>>
  <2>1. Head(down) = n /\ Tail(down) = << >>
    BY <1>4, Concatenations
  <2>2. n.turn = turn /\ n.type = "turn_result"
    BY <1>2
  <2> HIDE DEF n
  <2>4. /\ down' = << >> /\ UNCHANGED <<pc, ctl, turn, used, up, link, outcome>>
        /\ flags' = flags \cup {"turn_terminal"} /\ result' = [result EXCEPT !.url = TRUE]
    BY <2>1, <2>2, Hears
  <2>5. pc' = "finishing" /\ Engaged' /\ Asked' /\ Heard(FALSE, "", 0)
    BY <1>1, <2>4, AwaitsStill
  <2>6. Answering(turn)'
    BY <1>1, <2>4, TurnStill
  <2>7. flags' = {"turn_started", "turn_terminal"}
    BY <1>1, <2>4 DEF AwaitsResult
  <2>8. Heard(TRUE, "", 0)'
    BY <2>4, <2>5 DEF Heard
  <2> QED BY <1>1, <2>4, <2>5, <2>6, <2>7, <2>8 DEF ResultHeard
<1> QED BY <1>1, <1>3, <1>4

LEMMA EmptyReceived ==
  ASSUME EmptySent, D!Receive, UNCHANGED vars PROVE EmptyHeard' /\ outcome' = outcome
<1> DEFINE m == D!Msg("asr_empty", turn, 0)
<1>1. /\ AwaitsResult /\ Over(turn) /\ status[turn] = "asr_empty" /\ up = << >> /\ down = <<m>>
  BY DEF EmptySent
<1>2. m.turn = turn /\ m.type = "asr_empty" /\ m.n = 0
  BY DEF D!Msg
<1>3. Head(down) = m /\ Tail(down) = << >>
  BY <1>1, Concatenations
<1> HIDE DEF m
<1>4. /\ down' = << >> /\ UNCHANGED <<pc, ctl, turn, used, up, link, outcome>>
      /\ flags' = flags \cup {"playback_complete"}
                        \cup (IF result.url THEN {} ELSE {"turn_terminal"})
      /\ result' = [result EXCEPT
                      !.status = IF result.url THEN @ ELSE m.type,
                      !.max_turns = IF m.n = 0 THEN @ ELSE m.n]
  BY <1>2, <1>3, Hears
<1>5. pc' = "finishing" /\ Engaged' /\ Asked' /\ Heard(FALSE, "", 0)
  BY <1>1, <1>4, AwaitsStill
<1>6. Over(turn)' /\ status'[turn'] = "asr_empty"
  BY <1>1, <1>4, TurnStill
<1>7. result = [url |-> FALSE, status |-> "", max_turns |-> 0]
  BY <1>5 DEF Heard
<1>8. flags' = {"turn_started", "turn_terminal", "playback_complete"}
  BY <1>1, <1>4, <1>7 DEF AwaitsResult
<1>9. result' = [url |-> FALSE, status |-> "asr_empty", max_turns |-> 0]
  BY <1>2, <1>4, <1>7
<1>10. Heard(FALSE, "asr_empty", 0)'
  BY <1>9 DEF Heard
<1> QED BY <1>1, <1>4, <1>5, <1>6, <1>8, <1>10 DEF EmptyHeard

(* The turn is over: the device may ask for the same index once more.      *)
LEMMA RestsOver ==
  ASSUME Engaged, turn \in Turns, Over(turn) PROVE AllRest
<1>1. Serving /\ AtRest(turn) /\ \A u \in Turns \ {turn} : AtRest(u)
  BY DEF Engaged, AtRest
<1> QED BY <1>1 DEF AllRest

LEMMA EmptyHeardProceeds ==
  ASSUME DeviceInv, EmptyHeard, D!Proceeds \/ D!Receive \/ D!Disconnected, UNCHANGED vars
  PROVE  Somewhere' /\ outcome' \in {outcome, "normal"}
<1>1. /\ pc = "finishing" /\ Engaged /\ link /\ Asked /\ Over(turn) /\ up = << >> /\ down = << >>
      /\ status[turn] = "asr_empty" /\ turn \in Turns
      /\ flags = {"turn_started", "turn_terminal", "playback_complete"}
      /\ result.status = "asr_empty"
  BY DEF EmptyHeard, Engaged, Heard, DeviceInv
<1>2. AllRest
  BY <1>1, RestsOver
<1>3. D!TurnOver
  <2>1. ~D!Receive /\ ~D!Disconnected
    BY <1>1 DEF D!Receive, D!Disconnected
  <2> QED BY <1>1, <2>1, ProceedsAt
<1>4. CASE EndsWell
  <2>1. Leaving' /\ outcome' = "normal"
    BY <1>1, <1>2, <1>4, HangsUp
  <2> QED BY <2>1 DEF Somewhere
<1>5. CASE AsksAgain
  <2>1. /\ ~ctl.reprompt_used /\ pc' = "prompting"
        /\ UNCHANGED <<flags, turn, used, up, down, link, outcome>>
        /\ ctl'.state = "REPROMPT" /\ ctl'.reprompt_used
        /\ ctl'.turn_index = ctl.turn_index /\ ctl'.followup_count = ctl.followup_count
    BY <1>5, AsksAgainDoes DEF AsksAgain
  <2>2. UNCHANGED <<Started, TurnCount, status, index>> /\ AllRest'
    BY <1>2, <2>1, ServerStill DEF vars
  <2>3. Alone(turn) /\ ctl.turn_index + 1 = TurnCount /\ ctl.followup_count <= ctl.turn_index
    BY <1>1, <2>1 DEF Asked
  <2>4. PICK u \in Turns : u = turn
    BY <1>1
  <2>5. Alone(u)' /\ status'[u] = "asr_empty"
    BY <1>1, <2>1, <2>2, <2>3, <2>4 DEF Alone
  <2>6. SecondTry'
    BY <2>1, <2>2, <2>3, <2>5 DEF SecondTry
  <2>7. Asking'
    BY <2>1, <2>3, <2>6 DEF Asking
  <2>8. BetweenTurns'
    BY <1>1, <2>1, <2>2, <2>7 DEF BetweenTurns, D!TurnFlag
  <2> QED BY <2>1, <2>8 DEF Somewhere
<1> QED BY <1>1, <1>3, <1>4, <1>5, TurnOverDoes

LEMMA ResultHeardProceeds ==
  ASSUME DeviceInv, ResultHeard, D!Proceeds \/ D!Receive \/ D!Disconnected, UNCHANGED vars
  PROVE  Somewhere' /\ outcome' = outcome
<1>1. /\ Engaged /\ link /\ Asked /\ Answering(turn) /\ down = << >>
      /\ Heard(TRUE, "", 0) /\ flags = {"turn_started", "turn_terminal"}
      /\ pc \in {"finishing", "playing", "completing"}
      /\ pc \in {"finishing", "playing"} => up = << >>
      /\ pc \in {"playing", "completing"} => ctl.followup_count = ctl.turn_index
  BY DEF ResultHeard, Engaged
<1>2. ~D!Receive /\ ~D!Disconnected
  BY <1>1 DEF D!Receive, D!Disconnected
<1>3. CASE pc = "finishing" /\ D!TurnOver
  <2>1. result.status = "" /\ result.url
    BY <1>1 DEF Heard
  <2>2. PlaysAnswer
    BY <1>3, <2>1, TurnOverDoes
  <2> DEFINE c == [ctl EXCEPT !.followup_count = Highest(ctl)]
  <2>3. /\ ctl \in D!Controller /\ ctl.turn_index \in 0..255 /\ ctl.followup_count \in 0..255
        /\ ctl.followup_count <= ctl.turn_index
    BY <1>1, ControllerType DEF Asked
  <2>4. Highest(ctl) = ctl.turn_index
    <3>1. PICK a \in 0..255, b \in 0..255 : a = ctl.turn_index /\ b = ctl.followup_count
      BY <2>3
    <3>2. b <= a
      BY <2>3, <3>1
    <3>3. (IF a > b THEN a ELSE b) = a
      BY <3>2
    <3> QED BY <3>1, <3>3 DEF Highest
  <2>5. /\ c.turn_index = ctl.turn_index /\ c.reprompt_used = ctl.reprompt_used
        /\ c.followup_count = ctl.turn_index /\ c \in D!Controller
    BY <2>3, <2>4 DEF D!Controller
  <2>6. /\ pc' = "playing" /\ ctl' = At(c, "PLAYING")
        /\ UNCHANGED <<flags, result, turn, used, up, down, link, outcome>>
    BY <2>2 DEF PlaysAnswer
  <2> HIDE DEF c
  <2>7. /\ ctl'.turn_index = ctl.turn_index /\ ctl'.reprompt_used = ctl.reprompt_used
        /\ ctl'.followup_count = ctl.turn_index
    BY <2>5, <2>6, AtFields
  <2>8. UNCHANGED <<Started, TurnCount, index>>
    BY ServerStill DEF vars
  <2>9. Asked'
    <3>1. Alone(turn) => Alone(turn)'
      BY <2>6, <2>7, <2>8 DEF Alone
    <3>2. ctl'.followup_count <= ctl'.turn_index
      BY <2>3, <2>7
    <3>3. ctl'.turn_index + 1 = TurnCount' /\ (~ctl'.reprompt_used => Alone(turn))
      BY <1>1, <2>7, <2>8 DEF Asked
    <3> QED BY <3>1, <3>2, <3>3 DEF Asked
  <2>10. Engaged'
    BY <1>1, <2>6, ServerStill
  <2>11. Answering(turn)'
    BY <1>1, <2>6, TurnStill
  <2>12. ResultHeard'
    BY <1>1, <1>3, <2>6, <2>7, <2>9, <2>10, <2>11 DEF ResultHeard, Heard
  <2> QED BY <2>6, <2>12 DEF Somewhere
<1>4. CASE pc = "playing" /\ D!Played
  <2>1. /\ pc' = "completing" /\ UNCHANGED <<ctl, result, turn, used, outcome>>
        /\ flags' = flags \ {"playback_complete"}
        /\ D!Send(D!Msg("turn_playback_complete", turn, 0))
    BY <1>4 DEF D!Played, D!Go
  <2>2. up' = <<D!Msg("turn_playback_complete", turn, 0)>> /\ UNCHANGED <<down, link>>
    BY <1>1, <1>4, <2>1, Concatenations DEF D!Send
  <2>3. flags' = {"turn_started", "turn_terminal"}
    BY <1>1, <2>1
  <2>4. Engaged' /\ Asked' /\ Answering(turn)'
    BY <1>1, <2>1, <2>2, TurnStays, TurnStill DEF SameQuestion
  <2>5. ResultHeard'
    BY <1>1, <1>4, <2>1, <2>2, <2>3, <2>4 DEF ResultHeard, Heard
  <2> QED BY <2>1, <2>5 DEF Somewhere
<1> QED BY <1>1, <1>2, <1>3, <1>4, ProceedsAt DEF D!TurnComplete

(* turn_complete tells the limit the follow-up goes by.                    *)
LEMMA AnsweredHeard ==
  ASSUME Answered, D!Receive, UNCHANGED vars, TypeOK, turn \in Turns
  PROVE  Answered' /\ outcome' = outcome
<1> DEFINE m == D!Msg("played", turn, mode_turns[turn])
<1>1. /\ pc = "completing" /\ Engaged /\ Asked /\ ctl.followup_count = ctl.turn_index
      /\ Over(turn) /\ mode_turns[turn] <= max_turns /\ up = << >>
  BY DEF Answered
<1>2. /\ down = <<m>> /\ Heard(TRUE, "", 0) /\ flags = {"turn_started", "turn_terminal"}
  BY DEF Answered, D!Receive
<1>3. m.turn = turn /\ m.type = "played" /\ m.n = mode_turns[turn]
  BY DEF D!Msg
<1>4. Head(down) = m /\ Tail(down) = << >>
  BY <1>2, Concatenations
<1> HIDE DEF m
<1>5. /\ down' = << >> /\ UNCHANGED <<pc, ctl, turn, used, up, link, outcome>>
      /\ flags' = flags \cup {"playback_complete"}
                        \cup (IF result.url THEN {} ELSE {"turn_terminal"})
      /\ result' = [result EXCEPT
                      !.status = IF result.url THEN @ ELSE m.type,
                      !.max_turns = IF m.n = 0 THEN @ ELSE m.n]
  BY <1>3, <1>4, Hears
<1>6. result = [url |-> TRUE, status |-> "", max_turns |-> 0]
  BY <1>2 DEF Heard
<1>7. flags' = {"turn_started", "turn_terminal", "playback_complete"}
  BY <1>2, <1>5, <1>6
<1>8. result' = [url |-> TRUE, status |-> "", max_turns |-> mode_turns[turn]]
  BY <1>3, <1>5, <1>6
<1>9. Engaged' /\ Asked' /\ Over(turn)' /\ UNCHANGED <<max_turns, mode_turns>>
  BY <1>1, <1>5, TurnStays, TurnStill DEF SameQuestion, vars
<1> QED BY <1>1, <1>5, <1>7, <1>8, <1>9 DEF Answered, Heard

(* ... and which the server goes by as well.                               *)
LEMMA GoesOnAllowed ==
  ASSUME ConversationInv, DeviceInv, Asked, ctl.followup_count = ctl.turn_index,
         NEW n \in 1..GameMaxTurns, n <= max_turns, D!MoreTurns(Limited(n))
  PROVE  GoesOn
<1>1. /\ ctl \in D!Controller /\ ctl.followup_count \in 0..255
  BY ControllerType
<1>2. Limited(n).followup_count = ctl.followup_count /\ Limited(n).max_turns = n
  BY <1>1, LimitedType
<1>3. (ctl.followup_count + 1) % 256 < n
  BY <1>2 DEF D!MoreTurns
<1>4. /\ max_turns \in Nat /\ TurnCount \in Nat /\ GameMaxTurns < 256 /\ GameMaxTurns \in Nat
      /\ TurnCount <= max_turns /\ max_turns <= GameMaxTurns
  BY TypesHold, CountType, WidthAssumption, LimitsAssumption DEF TypeOK, WithinTurnLimit
<1>5. TurnCount = ctl.followup_count + 1
  BY DEF Asked
<1>6. (ctl.followup_count + 1) % 256 = TurnCount
  BY <1>1, <1>4, <1>5
<1>7. TurnCount < max_turns
  BY <1>3, <1>4, <1>6
<1> QED BY <1>7 DEF GoesOn, Asked

LEMMA AnsweredProceeds ==
  ASSUME ConversationInv, DeviceInv, Answered, D!Proceeds \/ D!Receive \/ D!Disconnected,
         UNCHANGED vars
  PROVE  Somewhere' /\ outcome' \in {outcome, "normal"}
<1>1. /\ pc = "completing" /\ Engaged /\ link /\ Asked /\ ctl.followup_count = ctl.turn_index
      /\ Over(turn) /\ mode_turns[turn] <= max_turns /\ up = << >> /\ turn \in Turns
      /\ flags \subseteq {"turn_started", "turn_terminal", "playback_complete"}
  BY DEF Answered, Engaged, DeviceInv
<1>2. TypeOK /\ ctl \in D!Controller
  BY TypesHold, ControllerType
<1>3. ~D!Disconnected
  BY <1>1 DEF D!Disconnected
<1>4. CASE D!Receive
  <2>1. Answered' /\ outcome' = outcome
    BY <1>1, <1>2, <1>4, AnsweredHeard
  <2> QED BY <2>1 DEF Somewhere
<1>5. CASE D!TurnComplete
  <2>1. down = << >> /\ Heard(TRUE, "", mode_turns[turn])
    <3>1. "playback_complete" \in flags
      BY <1>5 DEF D!TurnComplete
    <3>2. flags # {"turn_started", "turn_terminal"}
      BY <3>1
    <3> QED BY <3>2 DEF Answered
  <2>2. PICK n \in 1..GameMaxTurns : n = mode_turns[turn]
    <3>1. mode_turns[turn] \in {DefaultMaxTurns, GameMaxTurns}
      BY <1>1, <1>2 DEF TypeOK
    <3>2. DefaultMaxTurns \in 1..GameMaxTurns /\ GameMaxTurns \in 1..GameMaxTurns
      BY LimitsAssumption
    <3> QED BY <3>1, <3>2
  <2>3. result.max_turns = n
    BY <2>1, <2>2 DEF Heard
  <2>4. AllRest
    BY <1>1, RestsOver
  <2>5. CASE EndsWell
    <3>1. Leaving' /\ outcome' = "normal"
      BY <1>1, <2>1, <2>4, <2>5, HangsUp
    <3> QED BY <3>1 DEF Somewhere
  <2>6. CASE D!MoreTurns(Limited(n)) /\ D!Prompt(At(Limited(n), "FOLLOWUP_CUE"))
    <3> DEFINE c == Limited(n)
    <3>1. GoesOn
      BY <1>1, <2>2, <2>6, GoesOnAllowed
    <3>2. /\ c \in D!Controller /\ c.turn_index = ctl.turn_index
          /\ c.followup_count = ctl.followup_count
      BY <1>2, LimitedType
    <3>3. D!Prompt(At(c, "FOLLOWUP_CUE"))
      BY <2>6
    <3> HIDE DEF c
    <3>4. /\ pc' = "prompting" /\ ctl' = At(c, "FOLLOWUP_CUE")
          /\ UNCHANGED <<flags, turn, used, up, down, link, outcome>>
      BY <3>3 DEF D!Prompt, D!client, D!channel
    <3>5. ctl'.state = "FOLLOWUP_CUE"
      BY <3>2, <3>4, StaysController DEF D!State
    <3>6. ctl'.turn_index = ctl.turn_index /\ ctl'.followup_count = ctl.followup_count
      BY <3>2, <3>4, AtFields
    <3>7. UNCHANGED <<TurnCount, max_turns>> /\ AllRest'
      BY <2>4, <3>4, ServerStill DEF vars
    <3>8. GoesOn'
      BY <3>1, <3>6, <3>7 DEF GoesOn
    <3>9. BetweenTurns'
      BY <1>1, <2>1, <3>4, <3>5, <3>7, <3>8 DEF BetweenTurns, D!TurnFlag
    <3> QED BY <3>4, <3>9 DEF Somewhere
  <2> QED BY <1>5, <2>3, <2>5, <2>6, TurnCompleteDoes
<1> QED BY <1>1, <1>3, <1>4, <1>5, ProceedsAt

(* The farewell, and what comes after it.                                  *)
LEMMA Farewell ==
  ASSUME Leaving \/ Left \/ Gone, D!Proceeds \/ D!Receive \/ D!Disconnected, UNCHANGED vars
  PROVE  (Left \/ Gone)' /\ outcome' = outcome
<1>1. CASE D!Closed
  <2>1. /\ pc = "closing" /\ pc' = "closed" /\ ~link' /\ UNCHANGED <<flags, turn, up, outcome>>
    BY <1>1 DEF D!Closed, D!Go, D!client
  <2>2. /\ up \in {<< >>, <<D!Msg("conversation_end", turn, 0)>>}
        /\ "error_received" \notin flags
    BY <2>1 DEF Leaving, Left, Gone
  <2>3. Gone'
    BY <2>1, <2>2 DEF Gone
  <2> QED BY <2>1, <2>3
<1>2. CASE D!Receive
  <2> DEFINE m == D!Msg("conversation_done", "none", 0)
  <2>1. Left /\ down = <<m>>
    BY <1>2 DEF Leaving, Left, Gone, D!Receive
  <2>2. m.type = "conversation_done"
    BY DEF D!Msg
  <2>3. Head(down) = m /\ Tail(down) = << >>
    BY <2>1, Concatenations
  <2> HIDE DEF m
  <2>4. D!Raised(m) = {"conversation_done"}
    BY <2>2 DEF D!Raised
  <2>5. /\ down' = << >> /\ flags' = flags \cup {"conversation_done"}
        /\ UNCHANGED <<pc, up, link, outcome>>
    BY <1>2, <2>3, <2>4 DEF D!Receive
  <2>6. Left'
    BY <2>1, <2>5 DEF Left
  <2> QED BY <2>5, <2>6
<1>3. CASE D!Disconnected
  <2>1. Left
    BY <1>3 DEF Leaving, Left, Gone, D!Disconnected
  <2>2. /\ flags' = flags \cup {"disconnected"} /\ UNCHANGED <<pc, up, down, link, outcome>>
    BY <1>3 DEF D!Disconnected, D!channel
  <2>3. Left'
    BY <2>1, <2>2 DEF Left
  <2> QED BY <2>2, <2>3
<1>4. pc \in {"closing", "closed"}
  BY DEF Leaving, Left, Gone
<1> QED BY <1>1, <1>2, <1>3, <1>4, ProceedsAt

LEMMA ProceedsKeep ==
  ASSUME ConversationInv, DeviceInv, Somewhere, DeviceProceeds
  PROVE  Somewhere' /\ outcome' \in {outcome, "normal"}
<1>1. (D!Proceeds \/ D!Receive \/ D!Disconnected) /\ UNCHANGED vars
  BY DEF DeviceProceeds
<1>2. CASE Understood \/ ResultSent \/ EmptySent
  <2>1. D!Receive
    BY <1>1, <1>2, AwaitsProceeds DEF Understood, ResultSent, EmptySent
  <2> QED BY <1>1, <1>2, <2>1, AsrFinalHeard, ResultReceived, EmptyReceived DEF Somewhere
<1>3. CASE Leaving \/ Left \/ Gone
  BY <1>1, <1>3, Farewell DEF Somewhere
<1> QED
  BY <1>1, <1>2, <1>3, NotBegunProceeds, RestingProceeds, OfferedWaits, BegunProceeds,
     EmptyHeardProceeds, ResultHeardProceeds, AnsweredProceeds
  DEF Somewhere

LEMMA StandsStill == ASSUME Somewhere, UNCHANGED linkVars PROVE Somewhere'
<1>1. /\ UNCHANGED vars
      /\ UNCHANGED <<pc, ctl, flags, result, turn, used, outcome, up, down, link>>
  BY DEF linkVars, device
<1>2. /\ Engaged => Engaged'
      /\ Asked => Asked'
      /\ AllRest => AllRest'
      /\ Asking => Asking'
      /\ GoesOn => GoesOn'
  BY <1>1, ServerStill, NumbersSame DEF SameQuestion
<1>3. /\ Fresh(turn) => Fresh(turn)'
      /\ Hearing(turn) => Hearing(turn)'
      /\ Transcribing(turn) => Transcribing(turn)'
      /\ Recognised(turn) => Recognised(turn)'
      /\ Answering(turn) => Answering(turn)'
      /\ Over(turn) => Over(turn)'
      /\ UNCHANGED <<status, mode_turns, max_turns>>
  BY <1>1, TurnStill DEF vars
<1> USE <1>1, <1>2, <1>3 DEF Heard, AwaitsResult
<1>4. /\ NotBegun => NotBegun'
      /\ BetweenTurns => BetweenTurns'
  BY DEF NotBegun, BetweenTurns
<1>5. /\ Offered => Offered'
      /\ Begun => Begun'
  BY DEF Offered, Begun
<1>6. /\ Ended => Ended'
      /\ Listened => Listened'
      /\ Understood => Understood'
  BY DEF Ended, Listened, Understood
<1>7. /\ ResultSent => ResultSent'
      /\ EmptySent => EmptySent'
  BY DEF ResultSent, EmptySent
<1>8. EmptyHeard => EmptyHeard'
  BY DEF EmptyHeard
<1>9. ResultHeard => ResultHeard'
  BY DEF ResultHeard
<1>10. Answered => Answered'
  BY DEF Answered
<1>11. /\ Leaving => Leaving'
       /\ Left => Left'
       /\ Gone => Gone'
  BY DEF Leaving, Left, Gone
<1> QED
  BY <1>4, <1>5, <1>6, <1>7, <1>8, <1>9, <1>10, <1>11 DEF Somewhere

LEMMA HealthyInit == LinkInit => failures \in Nat /\ HealthyInv
<1> SUFFICES ASSUME LinkInit PROVE failures \in Nat /\ HealthyInv
  OBVIOUS
<1>1. /\ failures = 0 /\ outcome = "none" /\ pc = "idle" /\ up = << >> /\ down = << >> /\ ~link
      /\ flags = {} /\ used = {} /\ ctl = D!conversation_controller_init
  BY DEF LinkInit, D!Init
<1>2. /\ Serving /\ \A u \in Turns : Fresh(u)
  BY DEF LinkInit, Init, Serving, Fresh
<1>3. AllRest
  BY <1>1, <1>2 DEF AllRest, AtRest
<1>4. Started = {}
  BY <1>2 DEF Started, Fresh
<1>5. TurnCount = 0
  <2>1. Indices = {}
    BY <1>4 DEF Indices
  <2> QED BY <2>1, FS_EmptySet DEF TurnCount
<1>6. ctl.turn_index = 0 /\ ctl.followup_count = 0
  BY <1>1 DEF D!conversation_controller_init
<1>7. 0 < max_turns
  BY LimitsAssumption DEF LinkInit, Init
<1>8. Asking
  BY <1>5, <1>6, <1>7 DEF Asking, FirstTry
<1>9. NotBegun
  BY <1>1, <1>3, <1>8 DEF NotBegun
<1> QED BY <1>1, <1>9 DEF HealthyInv, Somewhere

LEMMA HealthyNext ==
  ASSUME ConversationInv, DeviceInv, failures \in Nat, HealthyInv, [LinkNext]_linkVars
  PROVE  failures' \in Nat /\ HealthyInv'
<1>1. failures' \in Nat
  BY StaysHealthy
<1>2. ASSUME Healthy' PROVE outcome' # "technical" /\ Somewhere'
  <2>1. /\ Healthy /\ outcome # "technical" /\ Somewhere /\ timely'
        /\ ~DeviceFails /\ ~DeviceGivesUp /\ ~DeadlinePasses /\ ~LinkLost
    BY <1>2, StaysHealthy DEF HealthyInv, Healthy
  <2>2. CASE DeviceProceeds
    BY <2>1, <2>2, ProceedsKeep
  <2>3. CASE ServerReads
    BY <2>1, <2>3, ReadsKeep DEF ServerReads, device
  <2>4. CASE ServerWorks
    BY <1>2, <2>1, <2>4, WorksKeep DEF ServerWorks, device
  <2>5. CASE ServerStops \/ ServerSeesDisconnect
    BY <2>1, <2>5, StopsKeep DEF ServerStops, ServerSeesDisconnect, device
  <2>6. CASE UNCHANGED linkVars
    BY <2>1, <2>6, StandsStill DEF linkVars, device
  <2> QED BY <2>1, <2>2, <2>3, <2>4, <2>5, <2>6 DEF LinkNext
<1> QED BY <1>1, <1>2 DEF HealthyInv

(* The inductive invariant of both together: while nothing fails, times    *)
(* out or is late, the conversation is at one of fifteen places, each with *)
(* the device's step, the server's turn and what is in flight between.     *)
LinkInv == ConversationInv /\ DeviceInv /\ failures \in Nat /\ HealthyInv

THEOREM LinkInvariant == LinkSpec => []LinkInv
<1>1. LinkInit => LinkInv
  BY InitInv, DeviceInit, HealthyInit DEF LinkInit, LinkInv
<1>2. LinkInv /\ [LinkNext]_linkVars => LinkInv'
  <2> SUFFICES ASSUME LinkInv, [LinkNext]_linkVars PROVE LinkInv'
    OBVIOUS
  <2>1. ConversationInv /\ DeviceInv /\ failures \in Nat /\ HealthyInv
    BY DEF LinkInv
  <2>2. ConversationInv'
    BY <2>1, ServerStep, NextInv
  <2>3. DeviceInv'
    BY <2>1, DeviceInvNext
  <2>4. failures' \in Nat /\ HealthyInv'
    BY <2>1, HealthyNext
  <2> QED BY <2>2, <2>3, <2>4 DEF LinkInv
<1> QED BY <1>1, <1>2, PTL DEF LinkSpec

(* While nothing fails, times out or is late, the server refuses no        *)
(* control of the device, sends nothing about a turn the device has left,  *)
(* and the conversation does not end in a technical failure.               *)
THEOREM HealthyConversations == LinkSpec => []HealthyConversation
<1>1. LinkInv => HealthyConversation
  <2> SUFFICES ASSUME LinkInv, Healthy PROVE "error_received" \notin flags
    BY DEF LinkInv, HealthyInv, HealthyConversation
  <2>1. Somewhere
    BY DEF LinkInv, HealthyInv
  <2>2. CASE NotBegun \/ BetweenTurns \/ Offered \/ Begun
    <3>1. NotBegun \/ Offered => flags = {}
      BY DEF NotBegun, Offered
    <3>2. BetweenTurns => flags \subseteq D!TurnFlag
      BY DEF BetweenTurns
    <3>3. Begun => flags \subseteq {"turn_started"}
      BY DEF Begun
    <3> QED BY <2>2, <3>1, <3>2, <3>3 DEF D!TurnFlag
  <2>3. CASE Ended \/ Listened \/ Understood \/ ResultSent \/ EmptySent
    <3>1. AwaitsResult
      BY <2>3 DEF Ended, Listened, Understood, ResultSent, EmptySent
    <3> QED BY <3>1 DEF AwaitsResult
  <2>4. CASE EmptyHeard \/ ResultHeard \/ Answered
    <3>1. flags \subseteq {"turn_started", "turn_terminal", "playback_complete"}
      BY <2>4 DEF EmptyHeard, ResultHeard, Answered
    <3> QED BY <3>1
  <2>5. CASE Leaving \/ Left \/ Gone
    BY <2>5 DEF Leaving, Left, Gone
  <2> QED BY <2>1, <2>2, <2>3, <2>4, <2>5 DEF Somewhere
<1> QED BY <1>1, LinkInvariant, PTL

(* A turn_start on its way in a healthy conversation is one the server     *)
(* will accept: right index, previous turn over, within the limit of the   *)
(* mode the server is in.                                                  *)
THEOREM TurnStartsAccepted == LinkSpec => []StartWillBeAccepted
<1>1. LinkInv => StartWillBeAccepted
  <2> SUFFICES ASSUME LinkInv, Healthy, up # << >>, Head(up).type = "turn_start"
               PROVE  StartAllowed(Head(up).turn, Head(up).n)
    BY DEF StartWillBeAccepted
  <2>1. ConversationInv /\ DeviceInv /\ Somewhere
    BY DEF LinkInv, HealthyInv
  <2>2. Offered
    <3>1. ASSUME NEW type, NEW t, NEW n, up = <<D!Msg(type, t, n)>> PROVE type = "turn_start"
      <4> DEFINE m == D!Msg(type, t, n)
      <4>1. m.type = type
        BY DEF D!Msg
      <4> HIDE DEF m
      <4>2. Head(up) = m
        BY <3>1, Concatenations DEF m
      <4> QED BY <4>1, <4>2
    <3>2. ~NotBegun /\ ~BetweenTurns /\ ~Begun /\ ~Listened /\ ~Understood /\ ~ResultSent
          /\ ~EmptySent /\ ~EmptyHeard /\ ~Answered /\ ~Left
      BY DEF NotBegun, BetweenTurns, Begun, Listened, Understood, ResultSent, EmptySent,
             EmptyHeard, Answered, Left
    <3>3. ~Ended
      BY <3>1 DEF Ended
    <3>4. ~ResultHeard
      BY <3>1 DEF ResultHeard
    <3>5. ~Leaving /\ ~Gone
      BY <3>1 DEF Leaving, Gone
    <3> QED BY <2>1, <3>2, <3>3, <3>4, <3>5 DEF Somewhere
  <2>3. StartAllowed(turn, ctl.turn_index)
    BY <2>1, <2>2, OfferAllowed
  <2>4. Head(up) = D!Msg("turn_start", turn, ctl.turn_index)
    BY <2>2, Concatenations DEF Offered
  <2>5. Head(up).turn = turn /\ Head(up).n = ctl.turn_index
    BY <2>4 DEF D!Msg
  <2> QED BY <2>3, <2>5
<1> QED BY <1>1, LinkInvariant, PTL
==============================================================================
