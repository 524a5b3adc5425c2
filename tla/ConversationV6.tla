--------------------------- MODULE ConversationV6 ----------------------------
(***************************************************************************)
(* One v6 voice conversation on the server: the websocket's run loop, the  *)
(* task that finishes each turn, the thread that cancels, the single       *)
(* worker thread of the executor, and the state they share: the turn's     *)
(* protocol state machine, its status in the session, the limits and the   *)
(* budget, the conversation context.                                       *)
(*   api/realtime_v6.py            ConversationSocket                      *)
(*   services/conversation_v6.py   ConversationSession                     *)
(*   models/conversation_v6.py     TurnStateMachine, ConversationLimits    *)
(*   storage/conversation_v6_store.py  IdempotentTurnBudget                *)
(* The event loop runs one step of one coroutine at a time, from await to  *)
(* await; worker and cancellation are threads beside it.  The device sends *)
(* any control at any time; a control the code refuses changes nothing but *)
(* the error it is answered with, and is not a step here.                  *)
(***************************************************************************)
EXTENDS Naturals, Sequences, FiniteSets

CONSTANTS
  Turns,              \* turn ids the device may use
  DefaultMaxTurns,    \* DEFAULT_MAX_TURNS
  GameMaxTurns        \* GAME_MAX_TURNS: also the quota and the turn budget

ASSUME LimitsAssumption ==
  /\ DefaultMaxTurns \in Nat \ {0}
  /\ GameMaxTurns \in Nat
  /\ DefaultMaxTurns <= GameMaxTurns

ASSUME TurnsAssumption == IsFiniteSet(Turns)

VARIABLES
  sock,          \* run(): "open", "cancelling" (awaits the cancel thread),
                 \*   "closing", "stopping" (in session.close()), "closed"
  expired,       \* MAX_CONNECTION_SECONDS have passed
  fsm,           \* TurnStateMachine.state
  status,        \* ConversationTurn.status; "none" before turn_start
  index,         \* turn_index
  earlier,       \* history: the turns started before this one
  max_turns,     \* ConversationLimits._max_turns
  consumed,      \* turns IdempotentTurnBudget accepted (both budgets agree)
  cancel_event,  \* the turn's audio is revoked
  published,     \* has_published_audio
  finished,      \* audio.finish() was called
  future,        \* the turn's worker
  answer,        \* ConversationTurn.answer: none, partial or full
  mode_turns,    \* ConversationTurn.max_turns, reported at playback end
  context,       \* _context: what later turns remember
  cancel_message,\* _cancel_event_message is set
  task,          \* where _finish_turn(t) is
  stop,          \* _stop_turn_worker run for a cancellation or for close()
  todo,          \* active_ids close() has yet to stop
  sent           \* turn events sent, acks left out

begun   == <<index, earlier>>
limits  == <<max_turns, consumed>>
audio   == <<published, finished>>
worker  == <<future, answer, mode_turns, context>>
closing == <<stop, todo, cancel_message>>
vars == <<sock, expired, fsm, status, begun, limits, cancel_event, audio, worker, task,
          closing, sent>>

FsmState == {"idle", "receiving", "processing", "result_ready", "playing", "cancelling",
             "completed", "cancelled"}
Terminal == {"committed", "cancelled", "asr_empty", "technical_error"}
Status   == {"none", "receiving", "processing"} \cup Terminal
Running  == {"running", "audio_done", "answered", "status_set"}
Done     == {"result", "cancelled", "error", "dropped"}
Future   == {"none", "queued"} \cup Running \cup Done
TaskEnd  == {"finished", "error_sent", "cancelled", "escaped"}
Task     == {"none", "asr", "asr_sent", "first_audio", "await_future", "stop_worker",
             "join_worker", "report"} \cup TaskEnd
Event    == {"asr_final", "turn_result", "played", "asr_empty", "technical_error",
             "turn_cancelled"}
TerminalEvent == {"played", "asr_empty", "technical_error", "turn_cancelled"}

NoStop == [turn |-> "none", pc |-> "idle"]
StopPc == {"revoke", "join", "joined", "reply"}
Record == [turn : Turns, interrupted : BOOLEAN]

TypeOK ==
  /\ sock \in {"open", "cancelling", "closing", "stopping", "closed"}
  /\ expired \in BOOLEAN
  /\ fsm \in [Turns -> FsmState]
  /\ status \in [Turns -> Status]
  /\ index \in [Turns -> Nat]
  /\ earlier \in [Turns -> SUBSET Turns]
  /\ max_turns \in 1..GameMaxTurns
  /\ consumed \subseteq Turns
  /\ cancel_event \in [Turns -> BOOLEAN]
  /\ published \in [Turns -> BOOLEAN]
  /\ finished \in [Turns -> BOOLEAN]
  /\ future \in [Turns -> Future]
  /\ answer \in [Turns -> {"none", "partial", "full"}]
  /\ mode_turns \in [Turns -> {DefaultMaxTurns, GameMaxTurns}]
  /\ context \in Seq(Record)
  /\ cancel_message \in [Turns -> BOOLEAN]
  /\ task \in [Turns -> Task]
  /\ stop \in [turn : Turns, pc : StopPc] \cup {NoStop}
  /\ todo \subseteq Turns
  /\ sent \in [Turns -> Seq(Event)]

Init ==
  /\ sock = "open" /\ expired = FALSE
  /\ fsm = [t \in Turns |-> "idle"]
  /\ status = [t \in Turns |-> "none"]
  /\ index = [t \in Turns |-> 0]
  /\ earlier = [t \in Turns |-> {}]
  /\ max_turns = DefaultMaxTurns /\ consumed = {}
  /\ cancel_event = [t \in Turns |-> FALSE]
  /\ published = [t \in Turns |-> FALSE]
  /\ finished = [t \in Turns |-> FALSE]
  /\ future = [t \in Turns |-> "none"]
  /\ answer = [t \in Turns |-> "none"]
  /\ mode_turns = [t \in Turns |-> DefaultMaxTurns]
  /\ context = << >>
  /\ cancel_message = [t \in Turns |-> FALSE]
  /\ task = [t \in Turns |-> "none"]
  /\ stop = NoStop /\ todo = {}
  /\ sent = [t \in Turns |-> << >>]

Started == {t \in Turns : status[t] # "none"}

Active == {t \in Started : status[t] \notin Terminal}

AtIndex(i) == {t \in Started : index[t] = i}

Indices == {index[t] : t \in Started}           \* the keys of _turn_indices

TurnCount == Cardinality(Indices)

Send(t, e) == sent' = [sent EXCEPT ![t] = Append(@, e)]

-----------------------------------------------------------------------------
(* The run loop: controls of the device.                                   *)

Listening == sock = "open" /\ ~expired

(* Mutant: any turn that failed may be tried again.                        *)
IndexAllowedAgain(i) ==
  \/ AtIndex(i) = {} /\ i = TurnCount /\ TurnCount < max_turns
  \/ \E t \in AtIndex(i) : AtIndex(i) = {t} /\ status[t] \in {"asr_empty", "technical_error"}

IndexAllowedOnce(i) == AtIndex(i) = {} /\ i = TurnCount /\ TurnCount < max_turns \* mutant

(* A new index is the next one, while the limit allows; a known index may  *)
(* be tried again once, if its only turn so far was asr_empty.             *)
IndexAllowed(i) ==
  \/ AtIndex(i) = {} /\ i = TurnCount /\ TurnCount < max_turns
  \/ \E t \in AtIndex(i) : AtIndex(i) = {t} /\ status[t] = "asr_empty"

StartAllowed(t, i) == Listening /\ status[t] = "none" /\ Active = {} /\ IndexAllowed(i)

TurnStart(t, i) ==
  /\ StartAllowed(t, i)
  /\ fsm' = [fsm EXCEPT ![t] = "receiving"]
  /\ status' = [status EXCEPT ![t] = "receiving"]
  /\ index' = [index EXCEPT ![t] = i]
  /\ earlier' = [earlier EXCEPT ![t] = Started]
  /\ UNCHANGED <<sock, expired, limits, cancel_event, audio, worker, task, closing, sent>>

TurnEnd(t) ==
  /\ Listening
  /\ fsm[t] = "receiving"
  /\ fsm' = [fsm EXCEPT ![t] = "processing"]
  /\ task' = [task EXCEPT ![t] = "asr"]
  /\ UNCHANGED <<sock, expired, status, begun, limits, cancel_event, audio, worker, closing,
                 sent>>

PlaybackComplete(t) ==
  /\ Listening
  /\ fsm[t] = "playing"
  /\ fsm' = [fsm EXCEPT ![t] = "completed"]
  /\ Send(t, "played")
  /\ UNCHANGED <<sock, expired, status, begun, limits, cancel_event, audio, worker, task,
                 closing>>

Cancellable == {"receiving", "processing", "result_ready", "playing", "cancelling"}

(* turn_cancel: the cancel thread starts with begin_cancel.  A turn already *)
(* cancelled is answered with the stored event.                            *)
TurnCancel(t) ==
  /\ Listening
  /\ ~cancel_message[t]
  /\ fsm[t] \in Cancellable
  /\ fsm' = [fsm EXCEPT ![t] = "cancelling"]
  /\ stop' = [turn |-> t, pc |-> "revoke"]
  /\ sock' = "cancelling"
  /\ UNCHANGED <<expired, status, begun, limits, cancel_event, audio, worker, task, todo,
                 cancel_message, sent>>

(* conversation_end, a disconnect, missed keepalives, a sequence conflict, *)
(* or any control after the deadline.                                      *)
Hangup ==
  /\ sock = "open"
  /\ sock' = "closing"
  /\ UNCHANGED <<expired, fsm, status, begun, limits, cancel_event, audio, worker, task,
                 closing, sent>>

Expire ==
  /\ ~expired /\ sock # "closed"
  /\ expired' = TRUE
  /\ UNCHANGED <<sock, fsm, status, begun, limits, cancel_event, audio, worker, task,
                 closing, sent>>

-----------------------------------------------------------------------------
(* _stop_turn_worker, for the cancel thread and for close().               *)

Revoke(t) == cancel_event' = [cancel_event EXCEPT ![t] = TRUE]

StopRevoke ==
  /\ stop.pc = "revoke"
  /\ Revoke(stop.turn)
  /\ stop' = [stop EXCEPT !.pc = "join"]
  /\ UNCHANGED <<sock, expired, fsm, status, begun, limits, audio, worker, task, todo,
                 cancel_message, sent>>

JoinIgnored(t) == TRUE                                                   \* mutant

Joinable(t) == future[t] \in {"none"} \cup Done

StopJoin ==
  /\ stop.pc = "join" /\ Joinable(stop.turn)
  /\ stop' = [stop EXCEPT !.pc = "joined"]
  /\ UNCHANGED <<sock, expired, fsm, status, begun, limits, cancel_event, audio, worker,
                 task, todo, cancel_message, sent>>

(* Mutant: the join is started again.                                      *)
StopJoinsAgain == stop.pc = "join" /\ ~Joinable(stop.turn) /\ UNCHANGED vars

(* turn_cancel_timeout: a TimeoutError run() does not catch, so it closes; *)
(* close() goes on with the next turn.                                     *)
StopTimesOut ==
  /\ stop.pc = "join" /\ ~Joinable(stop.turn)
  /\ stop' = NoStop
  /\ sock' = IF sock = "cancelling" THEN "closing" ELSE sock
  /\ UNCHANGED <<expired, fsm, status, begun, limits, cancel_event, audio, worker, task,
                 todo, cancel_message, sent>>

(* _commit_context: a turn's record is replaced where it stands.           *)
Remembered(t) == \E n \in DOMAIN context : context[n].turn = t

CommitContext(t, interrupted) ==
  LET record == [turn |-> t, interrupted |-> interrupted] IN
  context' = IF Remembered(t)
             THEN [n \in DOMAIN context |-> IF context[n].turn = t THEN record ELSE context[n]]
             ELSE Append(context, record)

(* The rest of cancel_turn.                                                *)
CancelDone(t) ==
  /\ stop.turn = t /\ stop.pc = "joined"
  /\ fsm[t] = "cancelling" /\ ~expired
  /\ fsm' = [fsm EXCEPT ![t] = "cancelled"]
  /\ status' = [status EXCEPT ![t] = "cancelled"]
  /\ IF answer[t] # "none" THEN CommitContext(t, TRUE) ELSE UNCHANGED context
  /\ cancel_message' = [cancel_message EXCEPT ![t] = TRUE]
  /\ stop' = IF sock = "cancelling" THEN [stop EXCEPT !.pc = "reply"] ELSE NoStop
  /\ UNCHANGED <<sock, expired, begun, limits, cancel_event, audio, future, answer,
                 mode_turns, task, todo, sent>>

(* The run loop answers; a task still sending its asr_final has _send_lock. *)
CancelReply(t) ==
  /\ stop.turn = t /\ stop.pc = "reply"
  /\ \A u \in Turns : task[u] # "asr_sent"
  /\ Send(t, "turn_cancelled")
  /\ stop' = NoStop
  /\ sock' = "open"
  /\ UNCHANGED <<expired, fsm, status, begun, limits, cancel_event, audio, worker, task,
                 todo, cancel_message>>

(* on_turn_cancelled finds the deadline passed: connection_time_exceeded.  *)
CancelTooLate(t) ==
  /\ stop.turn = t /\ stop.pc = "joined"
  /\ fsm[t] = "cancelling" /\ expired
  /\ stop' = NoStop
  /\ sock' = IF sock = "cancelling" THEN "closing" ELSE sock
  /\ UNCHANGED <<expired, fsm, status, begun, limits, cancel_event, audio, worker, task,
                 todo, cancel_message, sent>>

-----------------------------------------------------------------------------
(* run()'s finally: session.close() on the event loop, whose tasks are     *)
(* cancelled and take no further step.                                     *)

CloseActiveOnly ==                                                       \* mutant
  /\ sock = "closing"
  /\ sock' = "stopping"
  /\ todo' = Active
  /\ UNCHANGED <<expired, fsm, status, begun, limits, cancel_event, audio, worker, task,
                 stop, cancel_message, sent>>

CloseBegin ==
  /\ sock = "closing"
  /\ sock' = "stopping"
  /\ todo' = {t \in Started : t \in Active \/ ~Joinable(t)}
  /\ UNCHANGED <<expired, fsm, status, begun, limits, cancel_event, audio, worker, task,
                 stop, cancel_message, sent>>

(* A completed turn only has its worker stopped, any other is cancelled;   *)
(* past the deadline begin_cancel raises and close() leaves that turn.     *)
CloseTurn(t) ==
  /\ sock = "stopping" /\ stop = NoStop /\ t \in todo
  /\ todo' = todo \ {t}
  /\ LET cancels == ~cancel_message[t] /\ ~expired /\ fsm[t] \in Cancellable IN
     /\ fsm' = IF cancels THEN [fsm EXCEPT ![t] = "cancelling"] ELSE fsm
     /\ stop' = IF cancels \/ fsm[t] = "completed"
                THEN [turn |-> t, pc |-> "revoke"] ELSE stop
  /\ UNCHANGED <<sock, expired, status, begun, limits, cancel_event, audio, worker, task,
                 cancel_message, sent>>

CloseStopped(t) ==
  /\ stop.turn = t /\ stop.pc = "joined" /\ fsm[t] = "completed"
  /\ stop' = NoStop
  /\ UNCHANGED <<sock, expired, fsm, status, begun, limits, cancel_event, audio, worker,
                 task, todo, cancel_message, sent>>

(* executor.shutdown(cancel_futures=True).                                 *)
CloseEnd ==
  /\ sock = "stopping" /\ stop = NoStop /\ todo = {}
  /\ sock' = "closed"
  /\ future' = [t \in Turns |-> IF future[t] = "queued" THEN "dropped" ELSE future[t]]
  /\ UNCHANGED <<expired, fsm, status, begun, limits, cancel_event, audio, answer,
                 mode_turns, context, task, closing, sent>>

-----------------------------------------------------------------------------
(* _finish_turn(t), from await to await, while the event loop serves it.   *)

LoopRuns == sock \in {"open", "cancelling"}

(* The end of the except clauses that answer with an error event, silent   *)
(* when the turn has been cancelled meanwhile.                             *)
Failed(t) == IF cancel_event[t] THEN "cancelled" ELSE "error_sent"

(* transcribe returned no text, or timed out: on_asr_empty.                *)
AsrEmpty(t) ==
  /\ LoopRuns /\ task[t] = "asr" /\ ~cancel_event[t]
  /\ IF fsm[t] = "processing" /\ ~expired
     THEN /\ fsm' = [fsm EXCEPT ![t] = "completed"]
          /\ status' = [status EXCEPT ![t] = "asr_empty"]
          /\ finished' = [finished EXCEPT ![t] = TRUE]
          /\ task' = [task EXCEPT ![t] = "finished"]
          /\ Send(t, "asr_empty")
     ELSE /\ task' = [task EXCEPT ![t] = Failed(t)]
          /\ UNCHANGED <<fsm, status, finished, sent>>
  /\ UNCHANGED <<sock, expired, begun, limits, cancel_event, published, worker, closing>>

(* transcribe returned a text: on_asr_final, and the send is awaited.      *)
AsrFinal(t) ==
  /\ LoopRuns /\ task[t] = "asr" /\ ~cancel_event[t]
  /\ IF fsm[t] = "processing" /\ ~expired
     THEN /\ fsm' = [fsm EXCEPT ![t] = "result_ready"]
          /\ task' = [task EXCEPT ![t] = "asr_sent"]
          /\ Send(t, "asr_final")
     ELSE /\ task' = [task EXCEPT ![t] = Failed(t)]
          /\ UNCHANGED <<fsm, sent>>
  /\ UNCHANGED <<sock, expired, status, begun, limits, cancel_event, audio, worker, closing>>

(* transcribe raised sequence_gap, a ProtocolError: an error, no more.     *)
AsrGap(t) ==
  /\ LoopRuns /\ task[t] = "asr"
  /\ task' = [task EXCEPT ![t] = Failed(t)]
  /\ UNCHANGED <<sock, expired, fsm, status, begun, limits, cancel_event, audio, worker,
                 closing, sent>>

(* The cancellation was noticed when transcribe came back.                 *)
AsrCancelled(t) ==
  /\ LoopRuns /\ task[t] = "asr" /\ cancel_event[t]
  /\ task' = [task EXCEPT ![t] = "cancelled"]
  /\ UNCHANGED <<sock, expired, fsm, status, begun, limits, cancel_event, audio, worker,
                 closing, sent>>

FailingOrDone == {"receiving", "processing", "result_ready", "playing", "completed"} \* mutant

Failing == {"receiving", "processing", "result_ready", "playing"}

(* Any other exception: on_technical_error, then the worker is stopped.    *)
TechnicalError(t) ==
  IF cancel_event[t]
  THEN task' = [task EXCEPT ![t] = "cancelled"] /\ UNCHANGED fsm
  ELSE IF fsm[t] \in Failing /\ ~expired
  THEN /\ fsm' = [fsm EXCEPT ![t] = "completed"]
       /\ task' = [task EXCEPT ![t] = "stop_worker"]
  ELSE task' = [task EXCEPT ![t] = "error_sent"] /\ UNCHANGED fsm

(* transcribe raised: the recogniser or the decoder failed.                *)
AsrFails(t) ==
  /\ LoopRuns /\ task[t] = "asr"
  /\ TechnicalError(t)
  /\ UNCHANGED <<sock, expired, status, begun, limits, cancel_event, audio, worker, closing,
                 sent>>

(* process_turn, whatever happened while asr_final was being sent, then    *)
(* issue_audio_token and on_turn_result.  Its refusals (a worker already   *)
(* there, turn_budget_exhausted) are absent: ProcessTurnAccepts says that  *)
(* they do not happen.                                                     *)
ProcessTurn(t) ==
  /\ LoopRuns /\ task[t] = "asr_sent"
  /\ consumed' = consumed \cup {t}
  /\ status' = [status EXCEPT ![t] = "processing"]
  /\ future' = [future EXCEPT ![t] = "queued"]
  /\ IF fsm[t] = "result_ready" /\ ~expired
     THEN /\ fsm' = [fsm EXCEPT ![t] = "playing"]
          /\ task' = [task EXCEPT ![t] = "first_audio"]
          /\ Send(t, "turn_result")
     ELSE /\ task' = [task EXCEPT ![t] = Failed(t)]
          /\ UNCHANGED <<fsm, sent>>
  /\ UNCHANGED <<sock, expired, begun, max_turns, cancel_event, audio, answer, mode_turns,
                 context, closing>>

(* wait_for_first_chunk returned.                                          *)
FirstAudio(t) ==
  /\ LoopRuns /\ task[t] = "first_audio" /\ published[t]
  /\ task' = [task EXCEPT ![t] = "await_future"]
  /\ UNCHANGED <<sock, expired, fsm, status, begun, limits, cancel_event, audio, worker,
                 closing, sent>>

NoFirstAudioAtEnd(t) ==                                                  \* mutant
  /\ LoopRuns /\ task[t] = "first_audio" /\ ~published[t] /\ (finished[t] \/ cancel_event[t])
  /\ TechnicalError(t)
  /\ UNCHANGED <<sock, expired, status, begun, limits, cancel_event, audio, worker, closing,
                 sent>>

(* ... with TurnCancelled, or with False: finished without audio, or       *)
(* tts_first_audio_timeout.                                                *)
NoFirstAudio(t) ==
  /\ LoopRuns /\ task[t] = "first_audio" /\ ~published[t]
  /\ TechnicalError(t)
  /\ UNCHANGED <<sock, expired, status, begun, limits, cancel_event, audio, worker, closing,
                 sent>>

AnswerReady(t) ==
  /\ LoopRuns /\ task[t] = "await_future" /\ future[t] = "result"
  /\ task' = [task EXCEPT ![t] = "finished"]
  /\ UNCHANGED <<sock, expired, fsm, status, begun, limits, cancel_event, audio, worker,
                 closing, sent>>

AnswerFails(t) ==
  /\ LoopRuns /\ task[t] = "await_future" /\ future[t] \in {"error", "cancelled"}
  /\ TechnicalError(t)
  /\ UNCHANGED <<sock, expired, status, begun, limits, cancel_event, audio, worker, closing,
                 sent>>

(* complete_technical_error, in a thread that outlives the event loop.     *)
ErrorRevokes(t) ==
  /\ task[t] = "stop_worker"
  /\ Revoke(t)
  /\ task' = [task EXCEPT ![t] = "join_worker"]
  /\ UNCHANGED <<sock, expired, fsm, status, begun, limits, audio, worker, closing, sent>>

ErrorJoins(t) ==
  /\ task[t] = "join_worker" /\ Joinable(t)
  /\ status' = [status EXCEPT ![t] = "technical_error"]
  /\ task' = [task EXCEPT ![t] = "report"]
  /\ UNCHANGED <<sock, expired, fsm, begun, limits, cancel_event, audio, worker, closing,
                 sent>>

(* The join times out: the status is set all the same, and the TimeoutError *)
(* leaves _finish_turn.                                                    *)
ErrorTimesOut(t) ==
  /\ task[t] = "join_worker" /\ ~Joinable(t)
  /\ status' = [status EXCEPT ![t] = "technical_error"]
  /\ task' = [task EXCEPT ![t] = "escaped"]
  /\ UNCHANGED <<sock, expired, fsm, begun, limits, cancel_event, audio, worker, closing,
                 sent>>

ErrorReported(t) ==
  /\ LoopRuns /\ task[t] = "report"
  /\ task' = [task EXCEPT ![t] = "finished"]
  /\ Send(t, "technical_error")
  /\ UNCHANGED <<sock, expired, fsm, status, begun, limits, cancel_event, audio, worker,
                 closing>>

-----------------------------------------------------------------------------
(* The worker thread: _run_owned_turn and run_turn.                        *)

WorkerStartBeside(t) ==                                                  \* mutant
  /\ future[t] = "queued"
  /\ future' = [future EXCEPT ![t] = IF cancel_event[t] THEN "cancelled" ELSE "running"]
  /\ UNCHANGED <<sock, expired, fsm, status, begun, limits, cancel_event, audio, answer,
                 mode_turns, context, task, closing, sent>>

(* One thread; run_turn first looks at the cancel event.                   *)
WorkerStart(t) ==
  /\ future[t] = "queued"
  /\ \A u \in Turns : future[u] \notin Running
  /\ future' = [future EXCEPT ![t] = IF cancel_event[t] THEN "cancelled" ELSE "running"]
  /\ UNCHANGED <<sock, expired, fsm, status, begun, limits, cancel_event, audio, answer,
                 mode_turns, context, task, closing, sent>>

WorkerPublishes(t) ==
  /\ future[t] = "running" /\ ~cancel_event[t] /\ ~published[t]
  /\ published' = [published EXCEPT ![t] = TRUE]
  /\ UNCHANGED <<sock, expired, fsm, status, begun, limits, cancel_event, finished, worker,
                 task, closing, sent>>

(* TurnCancelled, with what had been said of the answer.                   *)
WorkerCancelled(t) ==
  /\ future[t] = "running" /\ cancel_event[t]
  /\ future' = [future EXCEPT ![t] = "cancelled"]
  /\ \E a \in {"none", "partial"} : answer' = [answer EXCEPT ![t] = a]
  /\ UNCHANGED <<sock, expired, fsm, status, begun, limits, cancel_event, audio, mode_turns,
                 context, task, closing, sent>>

(* A provider fails: the audio is finished so that readers see the end.    *)
WorkerFails(t) ==
  /\ future[t] = "running"
  /\ finished' = [finished EXCEPT ![t] = TRUE]
  /\ future' = [future EXCEPT ![t] = "error"]
  /\ UNCHANGED <<sock, expired, fsm, status, begun, limits, cancel_event, published, answer,
                 mode_turns, context, task, closing, sent>>

(* run_turn's own audio_queue.finish(): the last chunk is out.  A          *)
(* cancellation after the last check goes unnoticed.                       *)
WorkerFinishesAudio(t) ==
  /\ future[t] = "running"
  /\ finished' = [finished EXCEPT ![t] = TRUE]
  /\ future' = [future EXCEPT ![t] = "audio_done"]
  /\ UNCHANGED <<sock, expired, fsm, status, begun, limits, cancel_event, published, answer,
                 mode_turns, context, task, closing, sent>>

Larger(m, n) == IF m >= n THEN m ELSE n

SetMaxTurnsOnly(n) == max_turns' = n                                     \* mutant

SetMaxTurns(n) == max_turns' = Larger(n, TurnCount)

(* The result of run_turn: answer, mode, set_max_turns.                    *)
WorkerAnswers(t) ==
  /\ future[t] = "audio_done"
  /\ future' = [future EXCEPT ![t] = "answered"]
  /\ answer' = [answer EXCEPT ![t] = "full"]
  /\ \E n \in {DefaultMaxTurns, GameMaxTurns} :
       mode_turns' = [mode_turns EXCEPT ![t] = n] /\ SetMaxTurns(n)
  /\ UNCHANGED <<sock, expired, fsm, status, begun, consumed, cancel_event, audio, context,
                 task, closing, sent>>

(* commit_turn: the status, then the context under the lock.               *)
WorkerCommits(t) ==
  /\ future[t] = "answered"
  /\ status' = [status EXCEPT ![t] = "committed"]
  /\ future' = [future EXCEPT ![t] = "status_set"]
  /\ UNCHANGED <<sock, expired, fsm, begun, limits, cancel_event, audio, answer, mode_turns,
                 context, task, closing, sent>>

WorkerRemembers(t) ==
  /\ future[t] = "status_set"
  /\ CommitContext(t, FALSE)
  /\ future' = [future EXCEPT ![t] = "result"]
  /\ UNCHANGED <<sock, expired, fsm, status, begun, limits, cancel_event, audio, answer,
                 mode_turns, task, closing, sent>>

-----------------------------------------------------------------------------
Device(t) ==
  \/ \E i \in 0..GameMaxTurns-1 : TurnStart(t, i)
  \/ TurnEnd(t)
  \/ PlaybackComplete(t)
  \/ TurnCancel(t)

CancelThread ==
  \/ StopRevoke \/ StopJoin \/ StopTimesOut
  \/ \E t \in Turns : CancelDone(t) \/ CancelReply(t) \/ CancelTooLate(t)

Close == CloseBegin \/ CloseEnd \/ \E t \in Turns : CloseTurn(t) \/ CloseStopped(t)

FinishTask(t) ==
  \/ AsrEmpty(t) \/ AsrFinal(t) \/ AsrGap(t) \/ AsrCancelled(t) \/ AsrFails(t)
  \/ ProcessTurn(t)
  \/ FirstAudio(t) \/ NoFirstAudio(t) \/ AnswerReady(t) \/ AnswerFails(t)
  \/ ErrorReported(t)

ErrorThread(t) == ErrorRevokes(t) \/ ErrorJoins(t) \/ ErrorTimesOut(t)

Worker(t) ==
  \/ WorkerStart(t) \/ WorkerPublishes(t) \/ WorkerCancelled(t) \/ WorkerFails(t)
  \/ WorkerFinishesAudio(t) \/ WorkerAnswers(t) \/ WorkerCommits(t) \/ WorkerRemembers(t)

Next ==
  \/ \E t \in Turns : Device(t) \/ FinishTask(t) \/ ErrorThread(t) \/ Worker(t)
  \/ CancelThread
  \/ Close
  \/ Hangup
  \/ Expire

Spec == Init /\ [][Next]_vars

(* The event loop serves its tasks, the cancel and error threads run (their *)
(* join has a timeout), close() once begun goes on.  Nothing is assumed of  *)
(* the device, of the worker (a provider may hang, a full queue may wait    *)
(* for a reader that never comes), or of the deadline.                      *)
Fairness ==
  /\ \A t \in Turns : WF_vars(FinishTask(t)) /\ WF_vars(ErrorThread(t))
  /\ WF_vars(CancelThread)
  /\ WF_vars(Close)

FairSpec == Spec /\ Fairness

-----------------------------------------------------------------------------
(* What the device is told of a turn: asr_final, then turn_result, then    *)
(* one terminal event, some of them missing, nothing twice and nothing     *)
(* after the terminal event, although the run loop, the finish task and    *)
(* the cancel thread all decide when to send.                              *)
Rank(e) == CASE e = "asr_final" -> 1 [] e = "turn_result" -> 2 [] OTHER -> 3

EventsInOrder ==
  \A t \in Turns : \A m, n \in DOMAIN sent[t] : m < n => Rank(sent[t][m]) < Rank(sent[t][n])

Told(t, e) == \E n \in DOMAIN sent[t] : sent[t][n] = e

(* A device told turn_cancelled hears no more of the turn's audio, and the *)
(* conversation does not go on as if the answer had been heard: the worker *)
(* may have committed it just before, but what is remembered of it is      *)
(* marked interrupted.                                                     *)
CancelIsBarrier ==
  \A t \in Turns : Told(t, "turn_cancelled") =>
     /\ cancel_event[t] /\ fsm[t] = "cancelled"
     /\ future[t] \notin Running
     /\ \A n \in DOMAIN context : context[n].turn = t => context[n].interrupted

(* Two turns with the same index: nobody else has it, and one of them was  *)
(* found empty.                                                            *)
Share(t, u) ==
  /\ AtIndex(index[t]) = {t, u}
  /\ \E w \in {t, u} : status[w] = "asr_empty"

IndexUsedAgain == \A t, u \in Started : t # u /\ index[t] = index[u] => Share(t, u)

(* Indices are used in order without a hole, never past the limit of the   *)
(* mode, although the limit shrinks when a game ends, and an index is used *)
(* twice only by a turn after one whose recording was empty.               *)
WithinTurnLimit ==
  /\ Indices = 0..TurnCount-1
  /\ TurnCount <= max_turns /\ max_turns <= GameMaxTurns
  /\ IndexUsedAgain

(* The two admission mechanisms agree: a turn the limits let in is never   *)
(* refused by the budget once its speech has been recognised, nor already  *)
(* has a worker.                                                           *)
ProcessTurnAccepts ==
  \A t \in Turns : task[t] = "asr_sent" =>
     /\ future[t] = "none" /\ t \notin consumed
     /\ Cardinality(consumed) < GameMaxTurns

(* The conversation is remembered in the order it was spoken, one record a *)
(* turn, although a worker may commit after its turn was given up. (The    *)
(* order of the indices may be another one: the device may go back to an   *)
(* index whose only recording was empty.)                                  *)
ContextInOrder ==
  \A m, n \in DOMAIN context : m < n => context[m].turn \in earlier[context[n].turn]

(* A closed connection leaves no worker talking to nobody: each has ended  *)
(* or finds its audio revoked.                                             *)
NoOrphanWorker ==
  sock = "closed" => \A t \in Turns : future[t] \in {"queued"} \cup Running => cancel_event[t]

(* ... as long as the deadline had not passed when close() began.          *)
NoOrphanInTime == ~expired => NoOrphanWorker

(* A turn the device was told is cancelled is over: it does not keep the   *)
(* next turn_start from being accepted.                                    *)
CancelledTurnIsOver == \A t \in Turns : Told(t, "turn_cancelled") => t \notin Active

(* The finish task was ended by the TimeoutError of complete_technical_    *)
(* error (services/conversation_v6.py:217, 363): _finish_turn catches only *)
(* ProtocolError there (realtime_v6.py:588) and the callback of the task   *)
(* drops it, so the device is told nothing.                                *)
GivenUp(t) == task[t] = "escaped"

(* Every turn the device has ended is answered: audio plays, a terminal    *)
(* event or an error is sent, or it was cancelled; or the connection is    *)
(* gone. One case is not answered: a turn that failed while its worker was *)
(* in a call that outlasts the join, which is given up.                    *)
EndedTurnIsAnswered ==
  \A t \in Turns :
     task[t] = "asr" ~> \/ task[t] \in {"await_future", "finished", "error_sent", "cancelled"}
                        \/ sock = "closed" \/ GivenUp(t)

(* A cancellation or a hang-up comes to an end, whatever the worker does.  *)
StopEnds == sock \in {"cancelling", "closing"} ~> sock \in {"open", "closed"}
==============================================================================
