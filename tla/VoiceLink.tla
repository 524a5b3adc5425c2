------------------------------ MODULE VoiceLink ------------------------------
(***************************************************************************)
(* A device and the server in one conversation: DeviceConversation and     *)
(* ConversationV6 joined by a websocket.  The server's run loop takes the  *)
(* device's controls in order, accepts or refuses each; whatever a server  *)
(* step adds to its events, and every error, goes down to the device.      *)
(* The link may be lost at any time with what is in flight.                *)
(***************************************************************************)
EXTENDS ConversationV6

CONSTANT MaxFailures    \* bound on the failures of one conversation

(* The device keeps indices and limits in uint8_t.                         *)
ASSUME WidthAssumption == GameMaxTurns < 256

VARIABLES
  pc, ctl, flags, result, turn, used, up, down, link, outcome,   \* the device
  failures,  \* how many things have failed
  timely     \* history: no wait has timed out, and no playback was reported
             \*   before its answer was committed

D == INSTANCE DeviceConversation

device   == <<pc, ctl, flags, result, turn, used, outcome>>
history  == <<failures, timely>>
linkVars == <<vars, device, up, down, link, history>>

LinkInit == Init /\ D!Init /\ failures = 0 /\ timely = TRUE

Failure(happened) ==
  /\ happened => failures < MaxFailures
  /\ failures' = IF happened THEN failures + 1 ELSE failures

Timeout(happened) == timely' = (timely /\ ~happened)

-----------------------------------------------------------------------------
(* The device; audio ends for it when the worker has finished or the turn  *)
(* is cancelled, which ends the stream just as quietly.                    *)
DeviceProceeds ==
  /\ D!Proceeds \/ D!Receive \/ D!Disconnected
  /\ pc = "playing" /\ pc' = "completing" => finished[turn] \/ cancel_event[turn]
  /\ UNCHANGED <<vars, history>>

DeviceFails == D!Fails /\ Failure(TRUE) /\ UNCHANGED <<vars, timely>>

DeviceGivesUp == D!GivesUp /\ Timeout(TRUE) /\ UNCHANGED <<vars, failures>>

-----------------------------------------------------------------------------
(* The server's side of the websocket.                                     *)

Reply(msgs) == down' = (IF link THEN down \o msgs ELSE down)

LastOf(s) == s[Len(s)]

(* The events and errors a server step sends.  turn_complete of a played   *)
(* turn carries the turn's limit as it stands.                             *)
Sent(t) ==
  (IF sent'[t] # sent[t]
   THEN <<D!Msg(LastOf(sent'[t]), t,
                IF LastOf(sent'[t]) = "played" THEN mode_turns[t] ELSE 0)>>
   ELSE << >>)
  \o (IF task'[t] = "error_sent" /\ task[t] # "error_sent"
      THEN <<D!Msg("error", t, 0)>> ELSE << >>)

(* A control run() answers with what the handler sends.                    *)
Accepts(m) ==
  \/ /\ m.type = "turn_start" /\ TurnStart(m.turn, m.n)
     /\ Reply(<<D!Msg("ack", m.turn, 0)>>) /\ UNCHANGED timely
  \/ /\ m.type = "turn_end" /\ TurnEnd(m.turn)
     /\ UNCHANGED <<down, timely>>
  \/ /\ m.type = "turn_playback_complete" /\ PlaybackComplete(m.turn)
     /\ Reply(Sent(m.turn))
     /\ Timeout(status[m.turn] # "committed")
  \/ /\ m.type = "turn_cancel" /\ TurnCancel(m.turn)
     /\ UNCHANGED <<down, timely>>

Refused(m) ==
  \/ expired
  \/ m.type = "turn_start" /\ ~StartAllowed(m.turn, m.n)
  \/ m.type = "turn_end" /\ fsm[m.turn] # "receiving"
  \/ m.type = "turn_playback_complete" /\ fsm[m.turn] # "playing"
  \/ m.type = "turn_cancel" /\ fsm[m.turn] \notin Cancellable

ServerReads ==
  /\ sock = "open" /\ up # << >> /\ up' = Tail(up)
  /\ LET m == Head(up) IN
     \/ Accepts(m) /\ UNCHANGED link
     \/ /\ Refused(m)
        /\ Reply(<<D!Msg("error", m.turn, 0)>>) /\ UNCHANGED timely
        /\ IF expired THEN Hangup /\ link' = FALSE ELSE UNCHANGED <<vars, link>>
     \/ /\ m.type = "conversation_end" /\ ~expired
        /\ Reply(<<D!Msg("conversation_done", "none", 0)>>) /\ UNCHANGED timely
        /\ Hangup /\ link' = FALSE
  /\ UNCHANGED <<device, failures>>

ServerSeesDisconnect ==
  /\ ~link /\ up = << >> /\ pc # "idle" /\ pc # "opening"
  /\ Hangup
  /\ UNCHANGED <<device, up, down, link, history>>

StepFails(t) == AsrGap(t) \/ AsrFails(t) \/ WorkerFails(t)

StepTimesOut(t) == NoFirstAudio(t) \/ ErrorTimesOut(t)

ServerWorks ==
  /\ \E t \in Turns :
       /\ FinishTask(t) \/ ErrorThread(t) \/ Worker(t)
       /\ Reply(Sent(t)) /\ Failure(StepFails(t)) /\ Timeout(StepTimesOut(t))
  /\ UNCHANGED <<device, up, link>>

(* A cancellation, or close(); the websocket is closed at the latest when  *)
(* run() returns.                                                          *)
ServerStops ==
  /\ CancelThread \/ Close
  /\ Reply(IF stop # NoStop THEN Sent(stop.turn) ELSE << >>)
  /\ Timeout(StopTimesOut)
  /\ link' = (link /\ sock' # "closed")
  /\ UNCHANGED <<device, up, failures>>

DeadlinePasses == Expire /\ Failure(TRUE) /\ UNCHANGED <<device, up, down, link, timely>>

LinkLost ==
  /\ link /\ link' = FALSE
  /\ \E m \in 0..Len(up), n \in 0..Len(down) :
       up' = SubSeq(up, 1, m) /\ down' = SubSeq(down, 1, n)
  /\ Failure(TRUE)
  /\ UNCHANGED <<vars, device, timely>>

LinkNext ==
  \/ DeviceProceeds \/ DeviceFails \/ DeviceGivesUp
  \/ ServerReads \/ ServerSeesDisconnect \/ ServerWorks \/ ServerStops
  \/ DeadlinePasses
  \/ LinkLost

LinkSpec == LinkInit /\ [][LinkNext]_linkVars

(* Both schedulers are fair and waits have deadlines: the loop takes its    *)
(* next step, audio stops or the playback is given up, the websocket task   *)
(* delivers, the server reads, sees a disconnection and carries through a   *)
(* stop.  Of finish tasks and worker nothing is assumed.                   *)
LinkFairness ==
  /\ WF_linkVars(DeviceProceeds \/ DeviceFails \/ DeviceGivesUp)
  /\ WF_linkVars(ServerReads) /\ WF_linkVars(ServerSeesDisconnect)
  /\ WF_linkVars(ServerStops)

LinkFairSpec == LinkSpec /\ LinkFairness

-----------------------------------------------------------------------------
(* Wherever the loop is, the controller is in the state from which the     *)
(* loop's next event leads on.                                             *)
InStep == D!ControllerInStep

Healthy == failures = 0 /\ timely

(* While nothing fails, times out or is late, device and server agree on   *)
(* every control: none is refused, no event comes for a turn the device    *)
(* has left, and the conversation ends in the ordinary way.                *)
HealthyConversation ==
  Healthy => /\ "error_received" \notin flags
             /\ outcome # "technical"

(* A turn_start on its way is one the server will accept: right index,     *)
(* previous turn over, within the limit of the mode the server is in.      *)
StartWillBeAccepted ==
  Healthy /\ up # << >> /\ Head(up).type = "turn_start" =>
    StartAllowed(Head(up).turn, Head(up).n)

(* The device comes back to idle, whatever becomes of server and link.     *)
DeviceComesBack == pc = "opening" ~> pc = "closed"

(* ... and the server lets go of a conversation the device has left.       *)
ServerLetsGo == pc = "closed" /\ outcome # "none" ~> sock = "closed"
==============================================================================
