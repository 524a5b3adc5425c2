------------------------ MODULE ConversationV6Proofs -------------------------
(***************************************************************************)
(* Proofs about ConversationV6, for every set of turn ids and all limits.  *)
(***************************************************************************)
EXTENDS ConversationV6, FiniteSetTheorems, SequenceTheorems, TLAPS

-----------------------------------------------------------------------------
(* One turn                                                                *)

(* What the state machine, the status, the finish task and the worker of a *)
(* turn know of each other.                                                *)
TurnInv(t) ==
  /\ fsm[t] = "idle" <=> status[t] = "none"
  /\ fsm[t] \in {"idle", "receiving"} => task[t] = "none"
  /\ fsm[t] \in Cancellable =>
       \/ status[t] \in {"receiving", "processing"}
       \/ status[t] = "committed" /\ future[t] \in {"status_set", "result"}
  /\ status[t] = "asr_empty" =>
       task[t] = "finished" /\ future[t] = "none" /\ fsm[t] = "completed"
  /\ task[t] \in {"stop_worker", "join_worker", "report", "escaped"} => fsm[t] = "completed"
  /\ task[t] \in {"join_worker", "report", "escaped"} => cancel_event[t]
  /\ fsm[t] = "cancelled" => cancel_event[t] /\ future[t] \notin Running
  /\ cancel_message[t] => fsm[t] = "cancelled"

(* A turn has a worker once process_turn was called, which also consumes   *)
(* the budget; what its answer is follows from where the worker is.        *)
WorkerInv(t) ==
  /\ task[t] \in {"none", "asr", "asr_sent"} => future[t] = "none"
  /\ future[t] = "none" <=> t \notin consumed
  /\ future[t] # "none" => status[t] # "none"
  /\ future[t] = "queued" /\ ~cancel_event[t] => status[t] = "processing"
  /\ status[t] = "processing" => future[t] # "none"
  /\ future[t] \in {"none", "queued", "dropped", "running", "audio_done", "error"}
       => answer[t] = "none"
  /\ future[t] \in {"answered", "status_set", "result"} => answer[t] = "full"

(* What the device was told, as far as the turn has come.                  *)
Prefixes == {<< >>, <<"asr_final">>, <<"asr_final", "turn_result">>}

Untold(t) ==
  \/ fsm[t] \notin {"completed", "cancelled"}
  \/ task[t] \in {"stop_worker", "join_worker", "report"}
  \/ stop.turn = t /\ stop.pc = "reply"

SentInv(t) ==
  /\ sent[t] \in Prefixes \cup {Append(p, e) : p \in Prefixes, e \in TerminalEvent}
  /\ Untold(t) => sent[t] \in Prefixes
  /\ fsm[t] \in {"idle", "receiving", "processing"} => sent[t] = << >>
  /\ fsm[t] = "result_ready" => sent[t] = <<"asr_final">>
  /\ fsm[t] = "playing" => sent[t] = <<"asr_final", "turn_result">>
  /\ Told(t, "turn_cancelled") => fsm[t] = "cancelled"

-----------------------------------------------------------------------------
(* A cancellation, and close()                                             *)

StopInv ==
  /\ sock \in {"open", "closing", "closed"} => stop = NoStop
  /\ sock = "cancelling" => stop # NoStop
  /\ stop.pc = "reply" => sock = "cancelling"
  /\ sock = "cancelling" /\ stop.pc # "reply" => fsm[stop.turn] = "cancelling"
  /\ stop # NoStop =>
       /\ stop.pc \in {"revoke", "join", "joined"} => fsm[stop.turn] \in {"cancelling", "completed"}
       /\ stop.pc = "reply" => fsm[stop.turn] = "cancelled"
       /\ stop.pc \in {"join", "joined", "reply"} => cancel_event[stop.turn]
       /\ stop.pc \in {"joined", "reply"} => future[stop.turn] \notin Running

(* Before the deadline, close() reaches every worker that is not over.     *)
CloseFinds(t) ==
  ~expired /\ sock \in {"stopping", "closed"} /\ future[t] \in {"queued"} \cup Running =>
    \/ cancel_event[t]
    \/ sock = "stopping" /\ t \in todo
    \/ stop.turn = t /\ stop.pc = "revoke"

-----------------------------------------------------------------------------
(* The turns of a conversation                                             *)

(* A turn that goes on, or will once its asr_final is sent, is the last    *)
(* one started. Only a turn cancelled meanwhile, for which the run loop is *)
(* then not back, is resumed.                                              *)
LastTurn(t) == \A u \in Started \ {t} : u \in earlier[t] /\ t \notin earlier[u]

AnswersNext(t) ==
  task[t] = "asr_sent" => status[t] = "receiving" \/ (status[t] = "cancelled" /\ sock # "open")

OneAfterAnother ==
  /\ \A t \in Turns : AnswersNext(t)
  /\ \A t \in Turns : t \in Active \/ task[t] = "asr_sent" => LastTurn(t)
  /\ \A t \in Started : earlier[t] \subseteq Started \ {t}
  /\ \A t, u \in Started : t # u => t \in earlier[u] \/ u \in earlier[t]
  /\ \A t, u \in Started : t \in earlier[u] => u \notin earlier[t]

(* The worker thread serves one turn; those after it have to wait.         *)
Waits == {"none", "queued", "dropped"}

OneWorker ==
  \A t, u \in Started : future[t] \in Running /\ t \in earlier[u] => future[u] \in Waits

ContextInv ==
  /\ ContextInOrder
  /\ \A n \in DOMAIN context :
       LET t == context[n].turn IN
         /\ future[t] \in {"result", "cancelled"} /\ answer[t] # "none"
         /\ fsm[t] = "cancelled" => context[n].interrupted
  /\ \A t \in Turns : future[t] = "result" => Remembered(t)

ConversationInv ==
  /\ TypeOK
  /\ \A t \in Turns : TurnInv(t) /\ WorkerInv(t) /\ SentInv(t) /\ CloseFinds(t)
  /\ StopInv
  /\ OneAfterAnother /\ OneWorker /\ ContextInv
  /\ WithinTurnLimit

USE DEF vars, begun, limits, audio, worker, closing, FsmState, Terminal, Status, Running, Done,
        Future, TaskEnd, Task, TerminalEvent, StopPc

-----------------------------------------------------------------------------
(* Types                                                                   *)

(* A record of t is replaced where it stands, or put at the end.           *)
LEMMA Commits ==
  ASSUME context \in Seq(Record), NEW t \in Turns, NEW interrupted \in BOOLEAN,
         CommitContext(t, interrupted)
  PROVE  /\ context' \in Seq(Record)
         /\ \/ /\ Remembered(t) /\ Len(context') = Len(context)
               /\ \A n \in 1..Len(context) :
                    context'[n] = IF context[n].turn = t
                                  THEN [turn |-> t, interrupted |-> interrupted]
                                  ELSE context[n]
            \/ /\ ~Remembered(t) /\ Len(context') = Len(context) + 1
               /\ \A n \in 1..Len(context) : context'[n] = context[n]
               /\ context'[Len(context) + 1] = [turn |-> t, interrupted |-> interrupted]
<1> DEFINE record == [turn |-> t, interrupted |-> interrupted]
<1>1. record \in Record
  BY DEF Record
<1> HIDE DEF record
<1>2. Len(context) \in Nat /\ DOMAIN context = 1..Len(context)
  OBVIOUS
<1>3. CASE Remembered(t)
  <2>1. context' = [n \in 1..Len(context) |->
                      IF context[n].turn = t THEN record ELSE context[n]]
    BY <1>2, <1>3 DEF CommitContext, record
  <2>2. \A n \in 1..Len(context) : context[n] \in Record
    OBVIOUS
  <2>3. context' \in Seq(Record) /\ Len(context') = Len(context)
    BY <1>1, <1>2, <2>1, <2>2
  <2> QED
    BY <1>3, <2>1, <2>3 DEF record
<1>4. CASE ~Remembered(t)
  <2>1. context' = Append(context, record)
    BY <1>4 DEF CommitContext, record
  <2>2. context' \in Seq(Record) /\ Len(context') = Len(context) + 1
        /\ context'[Len(context) + 1] = record
        /\ \A n \in 1..Len(context) : context'[n] = context[n]
    BY <1>1, <1>2, <2>1
  <2> QED
    BY <1>4, <2>2 DEF record
<1> QED
  BY <1>3, <1>4

StopType == stop \in [turn : Turns, pc : StopPc] \cup {NoStop}

(* All of TypeOK but what needs an argument of its own.                    *)
TurnType ==
  /\ sock \in {"open", "cancelling", "closing", "stopping", "closed"}
  /\ fsm \in [Turns -> FsmState] /\ status \in [Turns -> Status]
  /\ index \in [Turns -> Nat] /\ earlier \in [Turns -> SUBSET Turns]
  /\ consumed \subseteq Turns
  /\ cancel_event \in [Turns -> BOOLEAN] /\ published \in [Turns -> BOOLEAN]
  /\ finished \in [Turns -> BOOLEAN] /\ future \in [Turns -> Future]
  /\ answer \in [Turns -> {"none", "partial", "full"}]
  /\ mode_turns \in [Turns -> {DefaultMaxTurns, GameMaxTurns}]
  /\ cancel_message \in [Turns -> BOOLEAN] /\ task \in [Turns -> Task] /\ todo \subseteq Turns

Parts ==
  /\ TurnType /\ StopType /\ expired \in BOOLEAN /\ max_turns \in 1..GameMaxTurns
  /\ context \in Seq(Record) /\ sent \in [Turns -> Seq(Event)]

LEMMA TypeParts == (TypeOK <=> Parts) /\ (TypeOK' <=> Parts')
BY DEF TypeOK, TurnType, StopType, Parts

(* What a step does not touch keeps its type.                              *)
LEMMA Rest ==
  /\ StopType /\ stop' = stop => StopType'
  /\ expired \in BOOLEAN /\ expired' = expired => expired' \in BOOLEAN
  /\ context \in Seq(Record) /\ context' = context => context' \in Seq(Record)
  /\ sent \in [Turns -> Seq(Event)] /\ sent' = sent => sent' \in [Turns -> Seq(Event)]
BY Zenon DEF StopType

LEMMA TypeInit == Init => TypeOK
<1> SUFFICES ASSUME Init PROVE TypeOK
  OBVIOUS
<1>1. TurnType
  BY LimitsAssumption DEF Init, TurnType
<1>2. StopType /\ expired \in BOOLEAN
  BY Zenon DEF Init, StopType
<1>3. context \in Seq(Record) /\ sent \in [Turns -> Seq(Event)]
  BY DEF Init
<1> QED
  BY <1>1, <1>2, <1>3, LimitsAssumption, TypeParts DEF Parts, Init

LEMMA Sends ==
  ASSUME sent \in [Turns -> Seq(Event)], NEW t \in Turns, NEW e \in Event, Send(t, e)
  PROVE  /\ sent' \in [Turns -> Seq(Event)] /\ sent'[t] = Append(sent[t], e)
         /\ \A u \in Turns \ {t} : sent'[u] = sent[u]
BY DEF Send

(* The limit follows the mode, and never falls below the turns there are.  *)
LEMMA CountType == TypeOK => IsFiniteSet(Started) /\ IsFiniteSet(Indices) /\ TurnCount \in Nat
<1> SUFFICES ASSUME TypeOK
             PROVE  IsFiniteSet(Started) /\ IsFiniteSet(Indices) /\ TurnCount \in Nat
  OBVIOUS
<1>1. IsFiniteSet(Started)
  BY TurnsAssumption, FS_Subset DEF Started
<1> DEFINE f == [t \in Started |-> index[t]]
<1>2. f \in Surjection(Started, Indices)
  BY DEF Indices, Surjection
<1>3. IsFiniteSet(Indices)
  BY <1>1, <1>2, FS_Surjection
<1> QED
  BY <1>1, <1>3, FS_CardinalityType DEF TurnCount

LEMMA StopAt == \A t \in Turns, p \in StopPc : [turn |-> t, pc |-> p] \in [turn : Turns, pc : StopPc]
OBVIOUS

LEMMA TurnTypeNext == TypeOK /\ [Next]_vars => TurnType'
<1> SUFFICES ASSUME TypeOK, [Next]_vars PROVE TurnType'
  OBVIOUS
<1>0. TurnType
  BY TypeParts DEF Parts
<1> USE <1>0, LimitsAssumption DEF TurnType
<1>1. ASSUME NEW t \in Turns, Device(t) PROVE TurnType'
  <2>1. CASE \E i \in 0..GameMaxTurns-1 : TurnStart(t, i)
    BY <2>1 DEF TurnStart, Started
  <2>2. CASE TurnEnd(t) \/ PlaybackComplete(t) \/ TurnCancel(t)
    BY <2>2 DEF TurnEnd, PlaybackComplete, TurnCancel
  <2> QED
    BY <1>1, <2>1, <2>2 DEF Device
<1>2. ASSUME NEW t \in Turns, FinishTask(t) PROVE TurnType'
  <2> USE DEF Failed
  <2>0. CASE AsrEmpty(t)
    <3>1. CASE fsm[t] = "processing" /\ ~expired
      <4>1. finished' \in [Turns -> BOOLEAN]
        BY <2>0, <3>1 DEF AsrEmpty
      <4>2. /\ fsm' \in [Turns -> FsmState] /\ status' \in [Turns -> Status]
            /\ task' \in [Turns -> Task]
        BY <2>0, <3>1 DEF AsrEmpty
      <4> QED
        BY <2>0, <4>1, <4>2 DEF AsrEmpty
    <3>2. CASE ~(fsm[t] = "processing" /\ ~expired)
      BY <2>0, <3>2 DEF AsrEmpty
    <3> QED
      BY <3>1, <3>2
  <2>1. CASE AsrFinal(t)
    BY <2>1 DEF AsrFinal
  <2>2. CASE AsrGap(t) \/ AsrCancelled(t) \/ FirstAudio(t) \/ AnswerReady(t) \/ ErrorReported(t)
    BY <2>2 DEF AsrGap, AsrCancelled, FirstAudio, AnswerReady, ErrorReported
  <2>3. CASE ProcessTurn(t)
    BY <2>3 DEF ProcessTurn
  <2>4. ASSUME TechnicalError(t),
               UNCHANGED <<sock, status, begun, consumed, cancel_event, audio, worker, closing>>
        PROVE  TurnType'
    <3>1. task' \in [Turns -> Task]
      BY <2>4 DEF TechnicalError
    <3>2. fsm' \in [Turns -> FsmState]
      BY <2>4 DEF TechnicalError
    <3> QED
      BY <2>4, <3>1, <3>2
  <2>5. CASE AsrFails(t) \/ NoFirstAudio(t) \/ AnswerFails(t)
    BY <2>4, <2>5 DEF AsrFails, NoFirstAudio, AnswerFails
  <2> QED
    BY <1>2, <2>0, <2>1, <2>2, <2>3, <2>5 DEF FinishTask
<1>3. ASSUME NEW t \in Turns, ErrorThread(t) PROVE TurnType'
  <2>1. CASE ErrorRevokes(t)
    BY <2>1 DEF ErrorRevokes, Revoke
  <2>2. CASE ErrorJoins(t) \/ ErrorTimesOut(t)
    BY <2>2 DEF ErrorJoins, ErrorTimesOut
  <2> QED
    BY <1>3, <2>1, <2>2 DEF ErrorThread
<1>4. ASSUME NEW t \in Turns, Worker(t) PROVE TurnType'
  <2>1. CASE WorkerStart(t)
    BY <2>1 DEF WorkerStart
  <2>2. CASE WorkerPublishes(t) \/ WorkerRemembers(t) \/ WorkerCommits(t)
    <3>1. CASE WorkerPublishes(t)
      <4>1. published' \in [Turns -> BOOLEAN]
        BY <3>1 DEF WorkerPublishes
      <4> QED
        BY <3>1, <4>1 DEF WorkerPublishes
    <3>2. CASE WorkerRemembers(t)
      BY <3>2 DEF WorkerRemembers
    <3>3. CASE WorkerCommits(t)
      BY <3>3 DEF WorkerCommits
    <3> QED
      BY <2>2, <3>1, <3>2, <3>3
  <2>3. CASE WorkerFails(t) \/ WorkerFinishesAudio(t)
    <3>1. finished' \in [Turns -> BOOLEAN]
      BY <2>3 DEF WorkerFails, WorkerFinishesAudio
    <3>2. future' \in [Turns -> Future]
      BY <2>3 DEF WorkerFails, WorkerFinishesAudio
    <3> QED
      BY <2>3, <3>1, <3>2 DEF WorkerFails, WorkerFinishesAudio
  <2>4. CASE WorkerCancelled(t)
    BY <2>4 DEF WorkerCancelled
  <2>5. CASE WorkerAnswers(t)
    BY <2>5 DEF WorkerAnswers
  <2> QED
    BY <1>4, <2>1, <2>2, <2>3, <2>4, <2>5 DEF Worker
<1>5. CASE CancelThread
  <2>1. CASE StopRevoke \/ StopJoin \/ StopTimesOut
    <3>1. CASE StopRevoke
      <4>1. cancel_event' \in [Turns -> BOOLEAN]
        BY <3>1 DEF StopRevoke, Revoke
      <4> QED
        BY <3>1, <4>1 DEF StopRevoke
    <3>2. CASE StopJoin
      BY <3>2 DEF StopJoin
    <3>3. CASE StopTimesOut
      BY <3>3 DEF StopTimesOut
    <3> QED
      BY <2>1, <3>1, <3>2, <3>3
  <2>2. ASSUME NEW t \in Turns, CancelDone(t) PROVE TurnType'
    BY <2>2 DEF CancelDone
  <2>3. ASSUME NEW t \in Turns, CancelReply(t) \/ CancelTooLate(t) PROVE TurnType'
    BY <2>3 DEF CancelReply, CancelTooLate
  <2> QED
    BY <1>5, <2>1, <2>2, <2>3 DEF CancelThread
<1>6. CASE Close
  <2>1. CASE CloseBegin \/ CloseEnd
    BY <2>1 DEF CloseBegin, CloseEnd, Started
  <2>2. ASSUME NEW t \in Turns, CloseTurn(t) \/ CloseStopped(t) PROVE TurnType'
    BY <2>2 DEF CloseTurn, CloseStopped
  <2> QED
    BY <1>6, <2>1, <2>2 DEF Close
<1>7. CASE Hangup \/ Expire \/ UNCHANGED vars
  BY <1>7 DEF Hangup, Expire
<1> QED
  BY <1>1, <1>2, <1>3, <1>4, <1>5, <1>6, <1>7 DEF Next

LEMMA StopTypeNext == TypeOK /\ [Next]_vars => StopType'
<1> SUFFICES ASSUME TypeOK, [Next]_vars PROVE StopType'
  OBVIOUS
<1>0. StopType
  BY TypeParts DEF Parts
<1>1. ASSUME NEW t \in Turns, Device(t) PROVE StopType'
  <2>1. CASE TurnCancel(t)
    BY <2>1 DEF TurnCancel, StopType
  <2>2. CASE (\E i \in 0..GameMaxTurns-1 : TurnStart(t, i)) \/ TurnEnd(t) \/ PlaybackComplete(t)
    BY <1>0, <2>2, Rest DEF TurnStart, TurnEnd, PlaybackComplete
  <2> QED
    BY <1>1, <2>1, <2>2 DEF Device
<1>2. ASSUME NEW t \in Turns, FinishTask(t) \/ ErrorThread(t) \/ Worker(t) PROVE StopType'
  <2>1. CASE FinishTask(t)
    BY <1>0, <2>1, Rest DEF FinishTask, AsrEmpty, AsrFinal, AsrGap, AsrCancelled, AsrFails,
                        ProcessTurn, FirstAudio, NoFirstAudio, AnswerReady, AnswerFails, ErrorReported
  <2>2. CASE ErrorThread(t)
    BY <1>0, <2>2, Rest DEF ErrorThread, ErrorRevokes, ErrorJoins, ErrorTimesOut
  <2>3. CASE Worker(t)
    BY <1>0, <2>3, Rest DEF Worker, WorkerStart, WorkerPublishes, WorkerCancelled, WorkerFails,
                        WorkerFinishesAudio, WorkerAnswers, WorkerCommits, WorkerRemembers
  <2> QED
    BY <1>2, <2>1, <2>2, <2>3
<1>3. CASE CancelThread
  <2>1. CASE StopRevoke \/ StopJoin
    BY <1>0, <2>1 DEF StopRevoke, StopJoin, StopType, NoStop
  <2>2. CASE StopTimesOut
    BY <2>2, Zenon DEF StopTimesOut, StopType
  <2>3. ASSUME NEW t \in Turns, CancelDone(t) PROVE StopType'
    BY <1>0, <2>3 DEF CancelDone, StopType, NoStop
  <2>4. ASSUME NEW t \in Turns, CancelReply(t) \/ CancelTooLate(t) PROVE StopType'
    BY <2>4, Zenon DEF CancelReply, CancelTooLate, StopType
  <2> QED
    BY <1>3, <2>1, <2>2, <2>3, <2>4 DEF CancelThread
<1>4. CASE Close
  <2>1. CASE CloseBegin \/ CloseEnd
    BY <1>0, <2>1, Rest DEF CloseBegin, CloseEnd
  <2>2. ASSUME NEW t \in Turns, CloseTurn(t) PROVE StopType'
    <3>1. stop' = [turn |-> t, pc |-> "revoke"] \/ stop' = stop
      BY <2>2 DEF CloseTurn
    <3> QED
      BY <1>0, <3>1, StopAt, Rest DEF StopType
  <2>3. ASSUME NEW t \in Turns, CloseStopped(t) PROVE StopType'
    BY <2>3, Zenon DEF CloseStopped, StopType
  <2> QED
    BY <1>4, <2>1, <2>2, <2>3 DEF Close
<1>5. CASE Hangup \/ Expire \/ UNCHANGED vars
  BY <1>0, <1>5, Rest DEF Hangup, Expire
<1> QED
  BY <1>1, <1>2, <1>3, <1>4, <1>5 DEF Next

(* Steps that send, and what they send.                                    *)
LEMMA SentBy ==
  ASSUME TypeOK, [Next]_vars
  PROVE  \/ sent' = sent
         \/ \E t \in Turns :
              \/ PlaybackComplete(t) /\ Send(t, "played")
              \/ CancelReply(t) /\ Send(t, "turn_cancelled")
              \/ AsrEmpty(t) /\ task[t] = "asr" /\ fsm[t] = "processing" /\ Send(t, "asr_empty")
              \/ AsrFinal(t) /\ task[t] = "asr" /\ fsm[t] = "processing" /\ Send(t, "asr_final")
              \/ ProcessTurn(t) /\ fsm[t] = "result_ready" /\ Send(t, "turn_result")
              \/ ErrorReported(t) /\ Send(t, "technical_error")
<1>1. ASSUME NEW t \in Turns, Device(t), ~PlaybackComplete(t) PROVE sent' = sent
  BY <1>1 DEF Device, TurnStart, TurnEnd, TurnCancel
<1>2. ASSUME NEW t \in Turns, FinishTask(t), ~AsrEmpty(t), ~AsrFinal(t), ~ProcessTurn(t),
             ~ErrorReported(t)
      PROVE  sent' = sent
  BY <1>2 DEF FinishTask, AsrGap, AsrCancelled, AsrFails, FirstAudio, NoFirstAudio, AnswerReady,
              AnswerFails
<1>3. ASSUME NEW t \in Turns, ErrorThread(t) \/ Worker(t) PROVE sent' = sent
  BY <1>3 DEF ErrorThread, ErrorRevokes, ErrorJoins, ErrorTimesOut, Worker, WorkerStart,
              WorkerPublishes, WorkerCancelled, WorkerFails, WorkerFinishesAudio, WorkerAnswers,
              WorkerCommits, WorkerRemembers
<1>4. ASSUME CancelThread, \A t \in Turns : ~CancelReply(t) PROVE sent' = sent
  BY <1>4 DEF CancelThread, StopRevoke, StopJoin, StopTimesOut, CancelDone, CancelTooLate
<1>5. CASE Close \/ Hangup \/ Expire \/ UNCHANGED vars
  BY <1>5 DEF Close, CloseBegin, CloseEnd, CloseTurn, CloseStopped, Hangup, Expire
<1>6. ASSUME NEW t \in Turns, PlaybackComplete(t) PROVE Send(t, "played")
  BY <1>6 DEF PlaybackComplete
<1>7. ASSUME NEW t \in Turns, CancelReply(t) PROVE Send(t, "turn_cancelled")
  BY <1>7 DEF CancelReply
<1>8. ASSUME NEW t \in Turns, AsrEmpty(t)
      PROVE  sent' = sent \/ (task[t] = "asr" /\ fsm[t] = "processing" /\ Send(t, "asr_empty"))
  BY <1>8 DEF AsrEmpty
<1>9. ASSUME NEW t \in Turns, AsrFinal(t)
      PROVE  sent' = sent \/ (task[t] = "asr" /\ fsm[t] = "processing" /\ Send(t, "asr_final"))
  BY <1>9 DEF AsrFinal
<1>10. ASSUME NEW t \in Turns, ProcessTurn(t)
       PROVE  sent' = sent \/ (fsm[t] = "result_ready" /\ Send(t, "turn_result"))
  BY <1>10 DEF ProcessTurn
<1>11. ASSUME NEW t \in Turns, ErrorReported(t) PROVE Send(t, "technical_error")
  BY <1>11 DEF ErrorReported
<1> QED
  BY <1>1, <1>2, <1>3, <1>4, <1>5, <1>6, <1>7, <1>8, <1>9, <1>10, <1>11 DEF Next

(* Steps that change what is remembered                                    *)
LEMMA ContextBy ==
  ASSUME TypeOK, [Next]_vars
  PROVE  \/ context' = context
         \/ \E t \in Turns : WorkerRemembers(t) \/ (CancelDone(t) /\ answer[t] # "none")
<1>1. ASSUME NEW t \in Turns, Device(t) PROVE context' = context
  BY <1>1 DEF Device, TurnStart, TurnEnd, TurnCancel, PlaybackComplete
<1>2. ASSUME NEW t \in Turns, FinishTask(t) PROVE context' = context
  BY <1>2 DEF FinishTask, AsrEmpty, AsrFinal, AsrGap, AsrCancelled, AsrFails, ProcessTurn,
              FirstAudio, NoFirstAudio, AnswerReady, AnswerFails, ErrorReported
<1>3. ASSUME NEW t \in Turns, ErrorThread(t) \/ Worker(t), ~WorkerRemembers(t)
      PROVE  context' = context
  BY <1>3 DEF ErrorThread, ErrorRevokes, ErrorJoins, ErrorTimesOut, Worker, WorkerStart,
              WorkerPublishes, WorkerCancelled, WorkerFails, WorkerFinishesAudio, WorkerAnswers,
              WorkerCommits
<1>4. ASSUME CancelThread, \A t \in Turns : ~CancelDone(t) PROVE context' = context
  BY <1>4 DEF CancelThread, StopRevoke, StopJoin, StopTimesOut, CancelReply, CancelTooLate
<1>5. CASE Close \/ Hangup \/ Expire \/ UNCHANGED vars
  BY <1>5 DEF Close, CloseBegin, CloseEnd, CloseTurn, CloseStopped, Hangup, Expire
<1>6. ASSUME NEW t \in Turns, CancelDone(t) PROVE context' = context \/ answer[t] # "none"
  BY <1>6 DEF CancelDone
<1> QED
  <2>1. CASE \E t \in Turns : Device(t) \/ FinishTask(t) \/ ErrorThread(t) \/ Worker(t)
    BY <1>1, <1>2, <1>3, <2>1
  <2>2. CASE CancelThread
    BY <1>4, <1>6, <2>2
  <2> QED
    BY <1>5, <2>1, <2>2 DEF Next

(* What changes in one step of one kind only.                              *)
LEMMA SlowlyBy ==
  ASSUME [Next]_vars
  PROVE  /\ expired' = expired \/ Expire
         /\ max_turns' = max_turns \/ \E t \in Turns : WorkerAnswers(t)
<1> DEFINE Same == expired' = expired /\ max_turns' = max_turns
<1>1. ASSUME NEW t \in Turns, Device(t) PROVE Same
  BY <1>1 DEF Device, TurnStart, TurnEnd, TurnCancel, PlaybackComplete
<1>2. ASSUME NEW t \in Turns, FinishTask(t) PROVE Same
  <2>1. CASE AsrEmpty(t) \/ AsrFinal(t) \/ AsrGap(t) \/ AsrCancelled(t) \/ AsrFails(t)
    BY <2>1 DEF AsrEmpty, AsrFinal, AsrGap, AsrCancelled, AsrFails
  <2>2. CASE ProcessTurn(t) \/ FirstAudio(t) \/ NoFirstAudio(t)
    BY <2>2 DEF ProcessTurn, FirstAudio, NoFirstAudio
  <2>3. CASE AnswerReady(t) \/ AnswerFails(t) \/ ErrorReported(t)
    BY <2>3 DEF AnswerReady, AnswerFails, ErrorReported
  <2> QED
    BY <1>2, <2>1, <2>2, <2>3 DEF FinishTask
<1>3. ASSUME NEW t \in Turns, ErrorThread(t) PROVE Same
  BY <1>3 DEF ErrorThread, ErrorRevokes, ErrorJoins, ErrorTimesOut
<1>4. ASSUME NEW t \in Turns, Worker(t) PROVE Same \/ (WorkerAnswers(t) /\ expired' = expired)
  <2>1. CASE WorkerStart(t) \/ WorkerPublishes(t) \/ WorkerCancelled(t) \/ WorkerFails(t)
    BY <2>1 DEF WorkerStart, WorkerPublishes, WorkerCancelled, WorkerFails
  <2>2. CASE WorkerFinishesAudio(t) \/ WorkerCommits(t) \/ WorkerRemembers(t)
    BY <2>2 DEF WorkerFinishesAudio, WorkerCommits, WorkerRemembers
  <2>3. CASE WorkerAnswers(t)
    BY <2>3 DEF WorkerAnswers
  <2> QED
    BY <1>4, <2>1, <2>2, <2>3 DEF Worker
<1>5. CASE CancelThread
  BY <1>5 DEF CancelThread, StopRevoke, StopJoin, StopTimesOut, CancelDone, CancelReply,
              CancelTooLate
<1>6. CASE Close
  BY <1>6 DEF Close, CloseBegin, CloseEnd, CloseTurn, CloseStopped
<1>7. CASE Hangup
  BY <1>7 DEF Hangup
<1>8. CASE Expire
  BY <1>8 DEF Expire
<1>9. CASE UNCHANGED vars
  BY <1>9
<1> HIDE DEF Same
<1>a. CASE \E t \in Turns : Device(t) \/ FinishTask(t) \/ ErrorThread(t) \/ Worker(t)
  BY <1>1, <1>2, <1>3, <1>4, <1>a DEF Same
<1> QED
  BY <1>5, <1>6, <1>7, <1>8, <1>9, <1>a DEF Next, Same

(* Everything but max_turns, whose bound needs the number of turns.        *)
LEMMA TypeNext ==
  TypeOK /\ [Next]_vars => /\ TurnType' /\ StopType' /\ expired' \in BOOLEAN
                          /\ context' \in Seq(Record) /\ sent' \in [Turns -> Seq(Event)]
<1> SUFFICES ASSUME TypeOK, [Next]_vars
             PROVE  /\ TurnType' /\ StopType' /\ expired' \in BOOLEAN
                    /\ context' \in Seq(Record) /\ sent' \in [Turns -> Seq(Event)]
  OBVIOUS
<1>0. /\ expired \in BOOLEAN /\ context \in Seq(Record) /\ sent \in [Turns -> Seq(Event)]
  BY TypeParts DEF Parts
<1>1. TurnType' /\ StopType'
  BY TurnTypeNext, StopTypeNext
<1>2. context' \in Seq(Record)
  <2>1. ASSUME NEW t \in Turns, WorkerRemembers(t) PROVE context' \in Seq(Record)
    BY <1>0, <2>1, Commits DEF WorkerRemembers
  <2>2. ASSUME NEW t \in Turns, CancelDone(t), answer[t] # "none" PROVE context' \in Seq(Record)
    BY <1>0, <2>2, Commits DEF CancelDone
  <2> QED
    BY <1>0, <2>1, <2>2, ContextBy
<1>3. sent' \in [Turns -> Seq(Event)]
  BY <1>0, SentBy, Sends, Rest DEF Event
<1>4. expired' = expired \/ Expire
  BY SlowlyBy
<1>5. expired' \in BOOLEAN
  BY <1>0, <1>4, Zenon DEF Expire
<1> QED
  BY <1>1, <1>2, <1>3, <1>5

-----------------------------------------------------------------------------
(* One turn                                                                *)

(* What the next lemmas know of the state before the step.                 *)
Before ==
  /\ TurnType /\ StopType
  /\ \A t \in Turns : TurnInv(t) /\ WorkerInv(t)
  /\ StopInv

LEMMA TurnInvNext ==
  ASSUME Before, [Next]_vars, NEW u \in Turns
  PROVE  TurnInv(u)' /\ WorkerInv(u)'
<1>0. /\ TurnType
      /\ TurnInv(u) /\ WorkerInv(u)
  BY DEF Before
<1> USE DEF TurnType, TurnInv, WorkerInv, Cancellable
<1>1. ASSUME NEW t \in Turns, Device(t) PROVE TurnInv(u)' /\ WorkerInv(u)'
  <2>1. CASE \E i \in 0..GameMaxTurns-1 : TurnStart(t, i)
    BY <1>0, <2>1 DEF TurnStart, StartAllowed
  <2>2. CASE TurnEnd(t)
    BY <1>0, <2>2 DEF TurnEnd
  <2>3. CASE PlaybackComplete(t)
    BY <1>0, <2>3 DEF PlaybackComplete
  <2>4. CASE TurnCancel(t)
    BY <1>0, <2>4 DEF TurnCancel
  <2> QED
    BY <1>1, <2>1, <2>2, <2>3, <2>4 DEF Device
<1>2. ASSUME NEW t \in Turns, FinishTask(t) PROVE TurnInv(u)' /\ WorkerInv(u)'
  <2> USE DEF Failed
  <2>1. CASE AsrEmpty(t)
    <3>1. CASE fsm[t] = "processing" /\ ~expired
      BY <1>0, <2>1, <3>1 DEF AsrEmpty
    <3>2. CASE ~(fsm[t] = "processing" /\ ~expired)
      BY <1>0, <2>1, <3>2 DEF AsrEmpty
    <3> QED
      BY <3>1, <3>2
  <2>2. CASE AsrFinal(t)
    <3>1. CASE fsm[t] = "processing" /\ ~expired
      BY <1>0, <2>2, <3>1 DEF AsrFinal
    <3>2. CASE ~(fsm[t] = "processing" /\ ~expired)
      BY <1>0, <2>2, <3>2 DEF AsrFinal
    <3> QED
      BY <3>1, <3>2
  <2>3. CASE AsrGap(t) \/ AsrCancelled(t)
    BY <1>0, <2>3 DEF AsrGap, AsrCancelled
  <2>4. CASE ProcessTurn(t)
    <3>1. CASE fsm[t] = "result_ready" /\ ~expired
      BY <1>0, <2>4, <3>1 DEF ProcessTurn, Before
    <3>2. CASE ~(fsm[t] = "result_ready" /\ ~expired)
      BY <1>0, <2>4, <3>2 DEF ProcessTurn
    <3> QED
      BY <3>1, <3>2
  <2>5. ASSUME TechnicalError(t), task[t] \in {"asr", "first_audio", "await_future"},
               UNCHANGED <<status, consumed, cancel_event, worker, cancel_message>>
        PROVE  TurnInv(u)' /\ WorkerInv(u)'
    <3>1. CASE cancel_event[t]
      BY <1>0, <2>5, <3>1 DEF TechnicalError
    <3>2. CASE ~cancel_event[t] /\ fsm[t] \in Failing /\ ~expired
      BY <1>0, <2>5, <3>2 DEF TechnicalError, Failing
    <3>3. CASE ~cancel_event[t] /\ ~(fsm[t] \in Failing /\ ~expired)
      BY <1>0, <2>5, <3>3 DEF TechnicalError, Failing
    <3> QED
      BY <3>1, <3>2, <3>3
  <2>6. CASE AsrFails(t) \/ NoFirstAudio(t) \/ AnswerFails(t)
    BY <2>5, <2>6 DEF AsrFails, NoFirstAudio, AnswerFails
  <2>7. CASE FirstAudio(t) \/ AnswerReady(t)
    BY <1>0, <2>7 DEF FirstAudio, AnswerReady
  <2>8. CASE ErrorReported(t)
    BY <1>0, <2>8 DEF ErrorReported
  <2> QED
    BY <1>2, <2>1, <2>2, <2>3, <2>4, <2>6, <2>7, <2>8 DEF FinishTask
<1>3. ASSUME NEW t \in Turns, ErrorThread(t) PROVE TurnInv(u)' /\ WorkerInv(u)'
  <2>1. CASE ErrorRevokes(t)
    BY <1>0, <2>1 DEF ErrorRevokes, Revoke
  <2>2. CASE ErrorJoins(t)
    BY <1>0, <2>2 DEF ErrorJoins, Joinable
  <2>3. CASE ErrorTimesOut(t)
    BY <1>0, <2>3 DEF ErrorTimesOut, Joinable
  <2> QED
    BY <1>3, <2>1, <2>2, <2>3 DEF ErrorThread
<1>4. ASSUME NEW t \in Turns, Worker(t) PROVE TurnInv(u)' /\ WorkerInv(u)'
  <2>1. CASE WorkerStart(t)
    BY <1>0, <2>1 DEF WorkerStart
  <2>2. CASE WorkerPublishes(t)
    BY <1>0, <2>2 DEF WorkerPublishes
  <2>3. CASE WorkerRemembers(t)
    BY <1>0, <2>3 DEF WorkerRemembers
  <2>4. CASE WorkerCommits(t)
    BY <1>0, <2>4 DEF WorkerCommits
  <2>5. CASE WorkerFails(t)
    BY <1>0, <2>5 DEF WorkerFails
  <2>6. CASE WorkerFinishesAudio(t)
    BY <1>0, <2>6 DEF WorkerFinishesAudio
  <2>7. CASE WorkerCancelled(t)
    BY <1>0, <2>7 DEF WorkerCancelled
  <2>8. CASE WorkerAnswers(t)
    BY <1>0, <2>8 DEF WorkerAnswers
  <2> QED
    BY <1>4, <2>1, <2>2, <2>3, <2>4, <2>5, <2>6, <2>7, <2>8 DEF Worker
<1>5. CASE CancelThread
  <2>1. CASE StopRevoke
    BY <1>0, <2>1 DEF StopRevoke, Revoke
  <2>2. CASE StopJoin \/ StopTimesOut
    BY <1>0, <2>2 DEF StopJoin, StopTimesOut
  <2>3. ASSUME NEW t \in Turns, CancelDone(t) PROVE TurnInv(u)' /\ WorkerInv(u)'
    <3>1. cancel_event[t] /\ future[t] \notin Running
      BY <2>3 DEF CancelDone, Before, StopInv, NoStop
    <3> QED
      BY <1>0, <2>3, <3>1 DEF CancelDone
  <2>4. ASSUME NEW t \in Turns, CancelReply(t) \/ CancelTooLate(t)
        PROVE  TurnInv(u)' /\ WorkerInv(u)'
    BY <1>0, <2>4 DEF CancelReply, CancelTooLate
  <2> QED
    BY <1>5, <2>1, <2>2, <2>3, <2>4 DEF CancelThread
<1>6. CASE Close
  <2>1. CASE CloseBegin
    BY <1>0, <2>1 DEF CloseBegin
  <2>2. CASE CloseEnd
    BY <1>0, <2>2 DEF CloseEnd
  <2>3. ASSUME NEW t \in Turns, CloseTurn(t) PROVE TurnInv(u)' /\ WorkerInv(u)'
    BY <1>0, <2>3 DEF CloseTurn
  <2>4. ASSUME NEW t \in Turns, CloseStopped(t) PROVE TurnInv(u)' /\ WorkerInv(u)'
    BY <1>0, <2>4 DEF CloseStopped
  <2> QED
    BY <1>6, <2>1, <2>2, <2>3, <2>4 DEF Close
<1>7. CASE Hangup \/ Expire \/ UNCHANGED vars
  BY <1>0, <1>7 DEF Hangup, Expire
<1> QED
  BY <1>1, <1>2, <1>3, <1>4, <1>5, <1>6, <1>7 DEF Next

LEMMA StopInvNext == Before /\ [Next]_vars => StopInv'
<1> SUFFICES ASSUME Before, [Next]_vars PROVE StopInv'
  OBVIOUS
<1>0. TurnType /\ StopType /\ StopInv
  BY DEF Before
<1> USE DEF TurnType, StopType, StopInv, NoStop, Cancellable
<1>1. ASSUME NEW t \in Turns, Device(t) PROVE StopInv'
  <2>1. CASE \E i \in 0..GameMaxTurns-1 : TurnStart(t, i)
    BY <1>0, <2>1 DEF TurnStart, StartAllowed, Listening
  <2>2. CASE TurnEnd(t) \/ PlaybackComplete(t)
    BY <1>0, <2>2 DEF TurnEnd, PlaybackComplete, Listening
  <2>3. CASE TurnCancel(t)
    BY <1>0, <2>3 DEF TurnCancel, Listening
  <2> QED
    BY <1>1, <2>1, <2>2, <2>3 DEF Device
<1>2. ASSUME NEW t \in Turns, FinishTask(t) PROVE StopInv'
  <2>1. CASE AsrEmpty(t) \/ AsrFinal(t)
    BY <1>0, <2>1 DEF AsrEmpty, AsrFinal
  <2>2. CASE AsrGap(t) \/ AsrCancelled(t) \/ FirstAudio(t) \/ AnswerReady(t) \/ ErrorReported(t)
    BY <1>0, <2>2 DEF AsrGap, AsrCancelled, FirstAudio, AnswerReady, ErrorReported
  <2>3. CASE ProcessTurn(t)
    BY <1>0, <2>3 DEF ProcessTurn
  <2>4. CASE AsrFails(t) \/ NoFirstAudio(t) \/ AnswerFails(t)
    BY <1>0, <2>4 DEF AsrFails, NoFirstAudio, AnswerFails, TechnicalError, Failing
  <2> QED
    BY <1>2, <2>1, <2>2, <2>3, <2>4 DEF FinishTask
<1>3. ASSUME NEW t \in Turns, ErrorThread(t) PROVE StopInv'
  BY <1>0, <1>3 DEF ErrorThread, ErrorRevokes, ErrorJoins, ErrorTimesOut, Revoke
<1>4. ASSUME NEW t \in Turns, Worker(t) PROVE StopInv'
  <2>1. CASE WorkerStart(t)
    BY <1>0, <2>1 DEF WorkerStart
  <2>2. CASE WorkerPublishes(t)
    BY <1>0, <2>2 DEF WorkerPublishes
  <2>5. CASE WorkerRemembers(t)
    BY <1>0, <2>5 DEF WorkerRemembers
  <2>6. CASE WorkerCommits(t)
    BY <1>0, <2>6 DEF WorkerCommits
  <2>3. CASE WorkerFails(t) \/ WorkerFinishesAudio(t)
    BY <1>0, <2>3 DEF WorkerFails, WorkerFinishesAudio
  <2>4. CASE WorkerCancelled(t) \/ WorkerAnswers(t)
    BY <1>0, <2>4 DEF WorkerCancelled, WorkerAnswers
  <2> QED
    BY <1>4, <2>1, <2>2, <2>3, <2>4, <2>5, <2>6 DEF Worker
<1>5. CASE CancelThread
  <2>1. CASE StopRevoke
    BY <1>0, <2>1 DEF StopRevoke, Revoke
  <2>2. CASE StopJoin
    BY <1>0, <2>2 DEF StopJoin, Joinable
  <2>3. CASE StopTimesOut
    BY <1>0, <2>3 DEF StopTimesOut
  <2>4. ASSUME NEW t \in Turns, CancelDone(t) PROVE StopInv'
    BY <1>0, <2>4 DEF CancelDone
  <2>5. ASSUME NEW t \in Turns, CancelReply(t) \/ CancelTooLate(t) PROVE StopInv'
    BY <1>0, <2>5 DEF CancelReply, CancelTooLate
  <2> QED
    BY <1>5, <2>1, <2>2, <2>3, <2>4, <2>5 DEF CancelThread
<1>6. CASE Close
  <2>1. CASE CloseBegin \/ CloseEnd
    BY <1>0, <2>1 DEF CloseBegin, CloseEnd
  <2>2. ASSUME NEW t \in Turns, CloseTurn(t) PROVE StopInv'
    <3>1. CASE ~cancel_message[t] /\ ~expired /\ fsm[t] \in Cancellable
      BY <1>0, <2>2, <3>1 DEF CloseTurn
    <3>2. CASE fsm[t] = "completed"
      BY <1>0, <2>2, <3>2 DEF CloseTurn
    <3>3. CASE ~(~cancel_message[t] /\ ~expired /\ fsm[t] \in Cancellable) /\ fsm[t] # "completed"
      <4>1. stop' = stop /\ fsm' = fsm
        BY <1>0, <2>2, <3>3, Zenon DEF CloseTurn
      <4> QED
        BY <1>0, <2>2, <4>1 DEF CloseTurn
    <3> QED
      BY <3>1, <3>2, <3>3
  <2>3. ASSUME NEW t \in Turns, CloseStopped(t) PROVE StopInv'
    BY <1>0, <2>3 DEF CloseStopped
  <2> QED
    BY <1>6, <2>1, <2>2, <2>3 DEF Close
<1>7. CASE Hangup \/ Expire \/ UNCHANGED vars
  BY <1>0, <1>7 DEF Hangup, Expire
<1> QED
  BY <1>1, <1>2, <1>3, <1>4, <1>5, <1>6, <1>7 DEF Next

(* Before the deadline close() finds every worker that is still at work:   *)
(* its turn is cancelled, or was already.                                  *)
LEMMA CloseFindsNext ==
  ASSUME Before, [Next]_vars, NEW u \in Turns, CloseFinds(u)
  PROVE  CloseFinds(u)'
<1>0. TurnType /\ StopType /\ StopInv /\ CloseFinds(u) /\ TurnInv(u) /\ WorkerInv(u)
  BY DEF Before
<1> USE DEF TurnType, StopType, StopInv, NoStop, CloseFinds
<1>1. ASSUME NEW t \in Turns, Device(t) PROVE CloseFinds(u)'
  BY <1>0, <1>1 DEF Device, TurnStart, StartAllowed, TurnEnd, PlaybackComplete, TurnCancel,
                    Listening
<1>2. ASSUME NEW t \in Turns, FinishTask(t) PROVE CloseFinds(u)'
  BY <1>0, <1>2 DEF FinishTask, LoopRuns, AsrEmpty, AsrFinal, AsrGap, AsrCancelled, AsrFails,
                    ProcessTurn, FirstAudio, NoFirstAudio, AnswerReady, AnswerFails, ErrorReported
<1>3. ASSUME NEW t \in Turns, ErrorThread(t) PROVE CloseFinds(u)'
  <2>1. CASE ErrorRevokes(t)
    BY <1>0, <2>1 DEF ErrorRevokes, Revoke
  <2>2. CASE ErrorJoins(t) \/ ErrorTimesOut(t)
    BY <1>0, <2>2 DEF ErrorJoins, ErrorTimesOut
  <2> QED
    BY <1>3, <2>1, <2>2 DEF ErrorThread
<1>4. ASSUME NEW t \in Turns, Worker(t) PROVE CloseFinds(u)'
  <2>1. CASE WorkerStart(t)
    BY <1>0, <2>1 DEF WorkerStart
  <2>4. CASE WorkerPublishes(t)
    BY <1>0, <2>4 DEF WorkerPublishes
  <2>5. CASE WorkerRemembers(t)
    BY <1>0, <2>5 DEF WorkerRemembers
  <2>6. CASE WorkerCommits(t)
    BY <1>0, <2>6 DEF WorkerCommits
  <2>2. CASE WorkerFails(t) \/ WorkerFinishesAudio(t)
    BY <1>0, <2>2 DEF WorkerFails, WorkerFinishesAudio
  <2>3. CASE WorkerCancelled(t) \/ WorkerAnswers(t)
    BY <1>0, <2>3 DEF WorkerCancelled, WorkerAnswers
  <2> QED
    BY <1>4, <2>1, <2>2, <2>3, <2>4, <2>5, <2>6 DEF Worker
<1>5. CASE CancelThread
  <2>1. CASE StopRevoke
    BY <1>0, <2>1 DEF StopRevoke, Revoke
  <2>2. CASE StopJoin \/ StopTimesOut
    BY <1>0, <2>2 DEF StopJoin, StopTimesOut
  <2>3. ASSUME NEW t \in Turns, CancelDone(t) PROVE CloseFinds(u)'
    BY <1>0, <2>3 DEF CancelDone
  <2>4. ASSUME NEW t \in Turns, CancelReply(t) \/ CancelTooLate(t) PROVE CloseFinds(u)'
    BY <1>0, <2>4 DEF CancelReply, CancelTooLate
  <2> QED
    BY <1>5, <2>1, <2>2, <2>3, <2>4 DEF CancelThread
<1>6. CASE Close
  <2>1. CASE CloseBegin
    <3>1. future[u] \in {"queued"} \cup Running => u \in todo'
      BY <1>0, <2>1 DEF CloseBegin, WorkerInv, Started, Joinable
    <3> QED
      BY <2>1, <3>1 DEF CloseBegin
  <2>2. CASE CloseEnd
    BY <1>0, <2>2 DEF CloseEnd
  <2>3. ASSUME NEW t \in Turns, CloseTurn(t) PROVE CloseFinds(u)'
    <3>1. CASE t # u
      BY <1>0, <2>3, <3>1 DEF CloseTurn
    <3>2. CASE t = u /\ fsm[u] \in Cancellable \cup {"completed"} /\ ~cancel_message[u]
      BY <1>0, <2>3, <3>2 DEF CloseTurn
    <3>3. CASE t = u /\ fsm[u] = "cancelled"
      BY <1>0, <2>3, <3>3 DEF CloseTurn, TurnInv
    <3>4. CASE t = u /\ fsm[u] = "idle"
      BY <1>0, <2>3, <3>4 DEF CloseTurn, TurnInv, WorkerInv
    <3>5. fsm[u] \in Cancellable \cup {"completed", "cancelled", "idle"}
      BY <1>0 DEF Cancellable
    <3> QED
      BY <1>0, <3>1, <3>2, <3>3, <3>4, <3>5 DEF TurnInv
  <2>4. ASSUME NEW t \in Turns, CloseStopped(t) PROVE CloseFinds(u)'
    BY <1>0, <2>4 DEF CloseStopped
  <2> QED
    BY <1>6, <2>1, <2>2, <2>3, <2>4 DEF Close
<1>7. CASE Hangup \/ Expire \/ UNCHANGED vars
  BY <1>0, <1>7 DEF Hangup, Expire
<1> QED
  BY <1>1, <1>2, <1>3, <1>4, <1>5, <1>6, <1>7 DEF Next
-----------------------------------------------------------------------------
(* What the device is told                                                 *)

(* Two events in a row.                                                   *)
LEMMA AppendToOne ==
  ASSUME NEW S, NEW p \in Seq(S), NEW b \in S, Len(p) = 1
  PROVE  /\ Append(p, b) \in Seq(S) /\ Len(Append(p, b)) = 2
         /\ Append(p, b)[1] = p[1] /\ Append(p, b)[2] = b
<1>1. Append(p, b) \in Seq(S)
  BY AppendProperties
<1>2. Len(Append(p, b)) = Len(p) + 1
  BY AppendProperties
<1>3. Append(p, b)[1] = p[1]
  BY AppendProperties
<1>4. Append(p, b)[Len(p) + 1] = b
  BY AppendProperties
<1> QED
  BY <1>1, <1>2, <1>3, <1>4

LEMMA AppendTwo ==
  ASSUME NEW S, NEW a \in S, NEW b \in S
  PROVE  Append(<<a>>, b) = <<a, b>>
<1>1. <<a>> \in Seq(S) /\ Len(<<a>>) = 1 /\ <<a>>[1] = a
  OBVIOUS
<1>2. <<a, b>> \in Seq(S) /\ Len(<<a, b>>) = 2 /\ <<a, b>>[1] = a /\ <<a, b>>[2] = b
  OBVIOUS
<1>3. ASSUME NEW p \in Seq(S), Len(p) = 1, p[1] = a,
             NEW q \in Seq(S), Len(q) = 2, q[1] = a, q[2] = b
      PROVE  Append(p, b) = q
  <2>1. PICK r : r = Append(p, b)
    OBVIOUS
  <2>2. r \in Seq(S) /\ Len(r) = 2 /\ r[1] = a /\ r[2] = b
    BY <1>3, <2>1, AppendToOne
  <2>3. r = q
    BY <1>3, <2>2, SeqEqual
  <2> QED
    BY <2>1, <2>3, Zenon
<1> QED
  BY <1>1, <1>2, <1>3, Zenon

LEMMA Appends ==
  /\ Append(<< >>, "asr_final") = <<"asr_final">>
  /\ Append(<<"asr_final">>, "turn_result") = <<"asr_final", "turn_result">>
  /\ \A p \in Prefixes : \A n \in DOMAIN p : p[n] # "turn_cancelled"
  /\ \A p \in Prefixes, e \in TerminalEvent \ {"turn_cancelled"} :
       \A n \in DOMAIN Append(p, e) : Append(p, e)[n] # "turn_cancelled"
<1>1. ASSUME NEW p \in Prefixes PROVE p \in Seq({"asr_final", "turn_result"})
  <2>1. << >> \in Seq({"asr_final", "turn_result"})
    OBVIOUS
  <2>2. <<"asr_final">> \in Seq({"asr_final", "turn_result"})
    OBVIOUS
  <2>3. <<"asr_final", "turn_result">> \in Seq({"asr_final", "turn_result"})
    OBVIOUS
  <2> QED
    BY <2>1, <2>2, <2>3, Zenon DEF Prefixes
<1>2. ASSUME NEW p \in Prefixes, NEW n \in DOMAIN p PROVE p[n] # "turn_cancelled"
  BY <1>1
<1>3. ASSUME NEW p \in Prefixes, NEW e \in TerminalEvent \ {"turn_cancelled"},
             NEW n \in DOMAIN Append(p, e)
      PROVE  Append(p, e)[n] # "turn_cancelled"
  <2> DEFINE S == {"asr_final", "turn_result", e}
  <2>1. p \in Seq(S) /\ e \in S /\ "turn_cancelled" \notin S
    BY <1>1
  <2>2. Append(p, e) \in Seq(S)
    BY <2>1
  <2> QED
    BY <2>1, <2>2
<1>4. Append(<< >>, "asr_final") = <<"asr_final">>
  OBVIOUS
<1>5. Append(<<"asr_final">>, "turn_result") = <<"asr_final", "turn_result">>
  <2>1. /\ "asr_final" \in {"asr_final", "turn_result"}
        /\ "turn_result" \in {"asr_final", "turn_result"}
    OBVIOUS
  <2> QED
    BY <2>1, AppendTwo, Zenon
<1> QED
  BY <1>2, <1>3, <1>4, <1>5

(* A step at which u is told nothing and comes no nearer to being told     *)
(* twice.                                                                  *)
Early == {"idle", "receiving", "processing"}

Quiet(u) ==
  /\ sent'[u] = sent[u]
  /\ Untold(u)' => Untold(u)
  /\ fsm'[u] \in Early => fsm[u] \in Early
  /\ fsm'[u] \in {"result_ready", "playing"} => fsm'[u] = fsm[u]
  /\ fsm[u] = "cancelled" => fsm'[u] = "cancelled"

LEMMA QuietKeeps ==
  ASSUME NEW u \in Turns, SentInv(u), Quiet(u)
  PROVE  SentInv(u)'
BY DEF Quiet, SentInv, Told, Early

(* A turn is told something only where it has been told all before it and  *)
(* nothing terminal.                                                       *)
LEMMA SentInvNext ==
  ASSUME TypeOK, Before, [Next]_vars, NEW u \in Turns, SentInv(u)
  PROVE  SentInv(u)'
<1>0. /\ TurnType /\ StopType /\ StopInv /\ TurnInv(u)
      /\ sent \in [Turns -> Seq(Event)]
  BY TypeParts DEF Before, Parts
<1> SUFFICES Quiet(u) \/ SentInv(u)'
  BY QuietKeeps
<1>a. ASSUME NEW t \in Turns, NEW e \in Event, Send(t, e)
      PROVE  sent'[t] = Append(sent[t], e) /\ (t # u => sent'[u] = sent[u])
  BY <1>0, <1>a, Sends
<1> USE DEF TurnType, StopType, NoStop, Untold, Early
<1>1. ASSUME NEW t \in Turns, Device(t) PROVE Quiet(u) \/ SentInv(u)'
  <2>1. CASE \E i \in 0..GameMaxTurns-1 : TurnStart(t, i)
    BY <1>0, <2>1 DEF TurnStart, StartAllowed, TurnInv, Quiet
  <2>2. CASE TurnEnd(t)
    BY <1>0, <2>2 DEF TurnEnd, Quiet
  <2>3. CASE PlaybackComplete(t)
    <3>1. Send(t, "played")
      BY <2>3 DEF PlaybackComplete
    <3>2. CASE t # u
      <4>1. sent'[u] = sent[u]
        BY <1>a, <3>1, <3>2 DEF Event
      <4> QED
        BY <1>0, <2>3, <3>2, <4>1 DEF PlaybackComplete, Quiet
    <3>3. CASE t = u
      <4>1. sent'[u] = Append(<<"asr_final", "turn_result">>, "played")
        <5>1. sent[u] = <<"asr_final", "turn_result">>
          BY <2>3, <3>3 DEF PlaybackComplete, SentInv
        <5>2. sent'[u] = Append(sent[u], "played")
          BY <1>a, <3>1, <3>3 DEF Event
        <5> QED
          BY <5>1, <5>2
      <4>2. fsm[u] = "playing" /\ fsm'[u] = "completed" /\ stop' = stop /\ task' = task
        BY <1>0, <2>3, <3>3 DEF PlaybackComplete
      <4>3. ~Untold(u)'
        BY <1>0, <4>2 DEF TurnInv, StopInv
      <4>4. ~Told(u, "turn_cancelled")'
        BY <4>1, Appends DEF Told, Prefixes
      <4> QED
        BY <4>1, <4>2, <4>3, <4>4 DEF SentInv, Prefixes
    <3> QED
      BY <3>2, <3>3
  <2>4. CASE TurnCancel(t)
    BY <1>0, <2>4 DEF TurnCancel, Cancellable, Quiet
  <2> QED
    BY <1>1, <2>1, <2>2, <2>3, <2>4 DEF Device
<1>2. ASSUME NEW t \in Turns, FinishTask(t) PROVE Quiet(u) \/ SentInv(u)'
  <2>1. CASE AsrEmpty(t)
    <3>1. CASE fsm[t] = "processing" /\ ~expired
      <4>1. /\ Send(t, "asr_empty") /\ fsm' = [fsm EXCEPT ![t] = "completed"]
            /\ task' = [task EXCEPT ![t] = "finished"] /\ stop' = stop
        BY <2>1, <3>1 DEF AsrEmpty
      <4>2. CASE t # u
        <5>1. sent'[u] = sent[u]
          BY <1>a, <4>1, <4>2 DEF Event
        <5> QED
          BY <1>0, <4>1, <4>2, <5>1 DEF Quiet
      <4>3. CASE t = u
        <5>1. sent'[u] = Append(<< >>, "asr_empty")
          BY <1>a, <3>1, <4>1, <4>3 DEF Event, SentInv
        <5>2. fsm'[u] = "completed" /\ ~Untold(u)'
          BY <1>0, <3>1, <4>1, <4>3 DEF StopInv
        <5>3. ~Told(u, "turn_cancelled")'
          BY <5>1, Appends DEF Told, Prefixes
        <5> QED
          BY <5>1, <5>2, <5>3 DEF SentInv, Prefixes
      <4> QED
        BY <4>2, <4>3
    <3>2. CASE ~(fsm[t] = "processing" /\ ~expired)
      BY <1>0, <2>1, <3>2 DEF AsrEmpty, Failed, Quiet
    <3> QED
      BY <3>1, <3>2
  <2>2. CASE AsrFinal(t)
    <3>1. CASE fsm[t] = "processing" /\ ~expired
      <4>1. /\ Send(t, "asr_final") /\ fsm' = [fsm EXCEPT ![t] = "result_ready"]
            /\ task' = [task EXCEPT ![t] = "asr_sent"] /\ stop' = stop
        BY <2>2, <3>1 DEF AsrFinal
      <4>2. CASE t # u
        <5>1. sent'[u] = sent[u]
          BY <1>a, <4>1, <4>2 DEF Event
        <5> QED
          BY <1>0, <4>1, <4>2, <5>1 DEF Quiet
      <4>3. CASE t = u
        <5>1. sent'[u] = <<"asr_final">>
          BY <1>a, <3>1, <4>1, <4>3, Appends DEF Event, SentInv
        <5>2. fsm'[u] = "result_ready"
          BY <1>0, <4>1, <4>3
        <5>3. ~Told(u, "turn_cancelled")'
          BY <5>1, Appends DEF Told, Prefixes
        <5> QED
          BY <5>1, <5>2, <5>3 DEF SentInv, Prefixes
      <4> QED
        BY <4>2, <4>3
    <3>2. CASE ~(fsm[t] = "processing" /\ ~expired)
      BY <1>0, <2>2, <3>2 DEF AsrFinal, Failed, Quiet
    <3> QED
      BY <3>1, <3>2
  <2>3. CASE ProcessTurn(t)
    <3>1. CASE fsm[t] = "result_ready" /\ ~expired
      <4>1. /\ Send(t, "turn_result") /\ fsm' = [fsm EXCEPT ![t] = "playing"]
            /\ task' = [task EXCEPT ![t] = "first_audio"] /\ stop' = stop
        BY <2>3, <3>1 DEF ProcessTurn
      <4>2. CASE t # u
        <5>1. sent'[u] = sent[u]
          BY <1>a, <4>1, <4>2 DEF Event
        <5> QED
          BY <1>0, <4>1, <4>2, <5>1 DEF Quiet
      <4>3. CASE t = u
        <5>1. sent'[u] = <<"asr_final", "turn_result">>
          <6>1. sent[u] = <<"asr_final">>
            BY <3>1, <4>3 DEF SentInv
          <6>2. sent'[u] = Append(sent[u], "turn_result")
            BY <1>a, <4>1, <4>3 DEF Event
          <6> QED
            BY <6>1, <6>2, Appends, Zenon
        <5>2. fsm'[u] = "playing"
          BY <1>0, <4>1, <4>3
        <5>3. ~Told(u, "turn_cancelled")'
          BY <5>1, Appends DEF Told, Prefixes
        <5> QED
          BY <5>1, <5>2, <5>3 DEF SentInv, Prefixes
      <4> QED
        BY <4>2, <4>3
    <3>2. CASE ~(fsm[t] = "result_ready" /\ ~expired)
      BY <1>0, <2>3, <3>2 DEF ProcessTurn, Failed, Quiet
    <3> QED
      BY <3>1, <3>2
  <2>4. CASE ErrorReported(t)
    <3>1. /\ Send(t, "technical_error") /\ task[t] = "report"
          /\ task' = [task EXCEPT ![t] = "finished"] /\ fsm' = fsm /\ stop' = stop
      BY <2>4 DEF ErrorReported
    <3>2. CASE t # u
      <4>1. sent'[u] = sent[u]
        BY <1>a, <3>1, <3>2 DEF Event
      <4> QED
        BY <1>0, <3>1, <3>2, <4>1 DEF Quiet
    <3>3. CASE t = u
      <4>1. sent[u] \in Prefixes /\ sent'[u] = Append(sent[u], "technical_error")
        BY <1>a, <3>1, <3>3 DEF Event, SentInv
      <4>2. fsm'[u] = "completed" /\ ~Untold(u)'
        BY <1>0, <3>1, <3>3 DEF TurnInv, StopInv
      <4>3. ~Told(u, "turn_cancelled")'
        BY <4>1, Appends DEF Told
      <4> QED
        BY <4>1, <4>2, <4>3 DEF SentInv
    <3> QED
      BY <3>2, <3>3
  <2>5. CASE AsrGap(t) \/ AsrCancelled(t) \/ FirstAudio(t) \/ AnswerReady(t)
    BY <1>0, <2>5 DEF AsrGap, AsrCancelled, FirstAudio, AnswerReady, Failed, Quiet
  <2>6. ASSUME TechnicalError(t), UNCHANGED <<sent, stop>> PROVE Quiet(u)
    <3>1. CASE fsm' = fsm /\ task' \in {[task EXCEPT ![t] = "cancelled"], [task EXCEPT ![t] = "error_sent"]}
      BY <1>0, <2>6, <3>1 DEF Quiet
    <3>2. CASE /\ fsm[t] \in Failing /\ fsm' = [fsm EXCEPT ![t] = "completed"]
               /\ task' = [task EXCEPT ![t] = "stop_worker"]
      BY <1>0, <2>6, <3>2 DEF Failing, Quiet
    <3> QED
      BY <2>6, <3>1, <3>2 DEF TechnicalError
  <2>7. CASE AsrFails(t) \/ NoFirstAudio(t) \/ AnswerFails(t)
    BY <2>6, <2>7 DEF AsrFails, NoFirstAudio, AnswerFails
  <2> QED
    BY <1>2, <2>1, <2>2, <2>3, <2>4, <2>5, <2>7 DEF FinishTask
<1>3. ASSUME NEW t \in Turns, ErrorThread(t) PROVE Quiet(u)
  BY <1>0, <1>3 DEF ErrorThread, ErrorRevokes, ErrorJoins, ErrorTimesOut, Quiet
<1>4. ASSUME NEW t \in Turns, Worker(t) PROVE Quiet(u)
  <2>1. UNCHANGED <<sent, fsm, task, stop>>
    BY <1>4 DEF Worker, WorkerStart, WorkerPublishes, WorkerCancelled, WorkerFails,
                WorkerFinishesAudio, WorkerAnswers, WorkerCommits, WorkerRemembers
  <2> QED
    BY <2>1 DEF Quiet
<1>5. CASE CancelThread
  <2>1. CASE StopRevoke \/ StopJoin \/ StopTimesOut
    BY <1>0, <2>1 DEF StopRevoke, StopJoin, StopTimesOut, Quiet
  <2>2. ASSUME NEW t \in Turns, CancelDone(t) PROVE Quiet(u)
    BY <1>0, <2>2 DEF CancelDone, Quiet
  <2>3. ASSUME NEW t \in Turns, CancelTooLate(t) PROVE Quiet(u)
    BY <1>0, <2>3 DEF CancelTooLate, Quiet
  <2>4. ASSUME NEW t \in Turns, CancelReply(t) PROVE Quiet(u) \/ SentInv(u)'
    <3>1. /\ Send(t, "turn_cancelled") /\ stop.turn = t /\ stop.pc = "reply"
          /\ stop' = NoStop /\ fsm' = fsm /\ task' = task
      BY <2>4 DEF CancelReply
    <3>2. CASE t # u
      <4>1. sent'[u] = sent[u]
        BY <1>a, <3>1, <3>2 DEF Event
      <4> QED
        BY <1>0, <3>1, <3>2, <4>1 DEF Quiet
    <3>3. CASE t = u
      <4>1. sent[u] \in Prefixes /\ sent'[u] = Append(sent[u], "turn_cancelled")
        BY <1>a, <3>1, <3>3 DEF Event, SentInv
      <4>2. fsm[u] = "cancelled" /\ fsm'[u] = "cancelled" /\ ~Untold(u)'
        BY <1>0, <3>1, <3>3 DEF TurnInv, StopInv
      <4>3. sent'[u] \in {Append(p, e) : p \in Prefixes, e \in TerminalEvent}
        <5>1. "turn_cancelled" \in TerminalEvent
          OBVIOUS
        <5> QED
          BY <4>1, <5>1
      <4> QED
        BY <4>2, <4>3 DEF SentInv
    <3> QED
      BY <3>2, <3>3
  <2> QED
    BY <1>5, <2>1, <2>2, <2>3, <2>4 DEF CancelThread
<1>6. CASE Close
  <2>1. CASE CloseBegin \/ CloseEnd
    BY <1>0, <2>1 DEF CloseBegin, CloseEnd, Quiet
  <2>2. ASSUME NEW t \in Turns, CloseTurn(t) PROVE Quiet(u)
    <3>1. \/ fsm' = fsm
          \/ fsm[t] \in Cancellable /\ fsm' = [fsm EXCEPT ![t] = "cancelling"]
      BY <2>2 DEF CloseTurn
    <3>2. /\ stop' = stop \/ stop' = [turn |-> t, pc |-> "revoke"]
          /\ task' = task /\ sent' = sent
      BY <2>2 DEF CloseTurn
    <3> QED
      BY <1>0, <3>1, <3>2 DEF Quiet, Cancellable
  <2>3. ASSUME NEW t \in Turns, CloseStopped(t) PROVE Quiet(u)
    BY <1>0, <2>3 DEF CloseStopped, Quiet
  <2> QED
    BY <1>6, <2>1, <2>2, <2>3 DEF Close
<1>7. CASE Hangup \/ Expire \/ UNCHANGED vars
  BY <1>7 DEF Hangup, Expire, Quiet
<1> QED
  BY <1>1, <1>2, <1>3, <1>4, <1>5, <1>6, <1>7 DEF Next

-----------------------------------------------------------------------------
(* The turns of a conversation                                             *)

(* Only turn_start adds a turn; no other step makes one active again that  *)
(* is not on its way to process_turn, or changes one found empty.          *)
StatusSteps ==
  /\ UNCHANGED begun
  /\ \A u \in Turns :
       /\ status'[u] = "none" <=> status[u] = "none"
       /\ status[u] \in Terminal /\ task[u] # "asr_sent" => status'[u] \in Terminal
       /\ status[u] = "asr_empty" => status'[u] = "asr_empty"

LEMMA StatusBy ==
  ASSUME Before, [Next]_vars
  PROVE  (\E t \in Turns, i \in 0..GameMaxTurns-1 : TurnStart(t, i)) \/ StatusSteps
<1>0. TurnType /\ StopType /\ StopInv /\ \A t \in Turns : TurnInv(t) /\ WorkerInv(t)
  BY DEF Before
<1>a. ASSUME UNCHANGED <<begun, status>> PROVE StatusSteps
  BY <1>a DEF StatusSteps
<1>b. ASSUME NEW t \in Turns, NEW s \in Terminal \cup {"processing"},
             UNCHANGED begun, status' = [status EXCEPT ![t] = s],
             status[t] \notin {"none", "asr_empty"}, s \in Terminal \/ task[t] = "asr_sent"
      PROVE  StatusSteps
  BY <1>0, <1>b DEF StatusSteps, TurnType
<1>1. ASSUME NEW t \in Turns, TurnEnd(t) \/ PlaybackComplete(t) \/ TurnCancel(t) PROVE StatusSteps
  BY <1>a, <1>1 DEF TurnEnd, PlaybackComplete, TurnCancel
<1>2. ASSUME NEW t \in Turns, FinishTask(t) PROVE StatusSteps
  <2>1. CASE AsrEmpty(t)
    <3>1. CASE fsm[t] = "processing" /\ ~expired
      BY <1>0, <1>b, <2>1, <3>1 DEF AsrEmpty, TurnInv, WorkerInv
    <3>2. CASE ~(fsm[t] = "processing" /\ ~expired)
      BY <1>a, <2>1, <3>2 DEF AsrEmpty
    <3> QED
      BY <3>1, <3>2
  <2>2. CASE ProcessTurn(t)
    <3>1. task[t] = "asr_sent" /\ UNCHANGED begun /\ status' = [status EXCEPT ![t] = "processing"]
      BY <2>2 DEF ProcessTurn
    <3>2. status[t] \notin {"none", "asr_empty"}
      BY <1>0, <3>1 DEF TurnInv
    <3> QED
      BY <1>b, <3>1, <3>2
  <2>3. CASE \/ AsrFinal(t) \/ AsrGap(t) \/ AsrCancelled(t) \/ AsrFails(t) \/ FirstAudio(t)
             \/ NoFirstAudio(t) \/ AnswerReady(t) \/ AnswerFails(t) \/ ErrorReported(t)
    BY <1>a, <2>3 DEF AsrFinal, AsrGap, AsrCancelled, AsrFails, FirstAudio, NoFirstAudio,
                      AnswerReady, AnswerFails, ErrorReported
  <2> QED
    BY <1>2, <2>1, <2>2, <2>3 DEF FinishTask
<1>3. ASSUME NEW t \in Turns, ErrorThread(t) PROVE StatusSteps
  <2>1. CASE ErrorRevokes(t)
    BY <1>a, <2>1 DEF ErrorRevokes
  <2>2. CASE ErrorJoins(t) \/ ErrorTimesOut(t)
    <3>1. task[t] = "join_worker" /\ UNCHANGED begun
          /\ status' = [status EXCEPT ![t] = "technical_error"]
      BY <2>2 DEF ErrorJoins, ErrorTimesOut
    <3>2. status[t] \notin {"none", "asr_empty"}
      BY <1>0, <3>1 DEF TurnInv
    <3> QED
      BY <1>b, <3>1, <3>2
  <2> QED
    BY <1>3, <2>1, <2>2 DEF ErrorThread
<1>4. ASSUME NEW t \in Turns, Worker(t) PROVE StatusSteps
  <2>1. CASE WorkerCommits(t)
    <3>1. status[t] \notin {"none", "asr_empty"}
      BY <1>0, <2>1 DEF WorkerCommits, TurnInv, WorkerInv
    <3> QED
      BY <1>b, <2>1, <3>1 DEF WorkerCommits
  <2>2. CASE ~WorkerCommits(t)
    BY <1>4, <1>a, <2>2 DEF Worker, WorkerStart, WorkerPublishes, WorkerCancelled, WorkerFails,
                            WorkerFinishesAudio, WorkerAnswers, WorkerRemembers
  <2> QED
    BY <2>1, <2>2
<1>5. CASE CancelThread
  <2>1. CASE StopRevoke \/ StopJoin \/ StopTimesOut
    BY <1>a, <2>1 DEF StopRevoke, StopJoin, StopTimesOut
  <2>2. ASSUME NEW t \in Turns, CancelDone(t) PROVE StatusSteps
    <3>1. status[t] \notin {"none", "asr_empty"}
      BY <1>0, <2>2 DEF CancelDone, TurnInv
    <3> QED
      BY <1>b, <2>2, <3>1 DEF CancelDone
  <2>3. ASSUME NEW t \in Turns, CancelReply(t) \/ CancelTooLate(t) PROVE StatusSteps
    BY <1>a, <2>3 DEF CancelReply, CancelTooLate
  <2> QED
    BY <1>5, <2>1, <2>2, <2>3 DEF CancelThread
<1>6. CASE Close \/ Hangup \/ Expire \/ UNCHANGED vars
  BY <1>6, <1>a DEF Close, CloseBegin, CloseEnd, CloseTurn, CloseStopped, Hangup, Expire
<1> QED
  BY <1>1, <1>2, <1>3, <1>4, <1>5, <1>6 DEF Next, Device

(* While an asr_final is being sent, the turn keeps its status, unless it  *)
(* is cancelled, which keeps the run loop from taking a turn_start.        *)
LEMMA AnswersNextNext ==
  ASSUME Before, [Next]_vars, NEW u \in Turns, AnswersNext(u)
  PROVE  /\ AnswersNext(u)'
         /\ task'[u] = "asr_sent" =>
              task[u] = "asr_sent" \/ (task[u] = "asr" /\ status[u] = "receiving")
<1> DEFINE Goal == /\ AnswersNext(u)'
                   /\ task'[u] = "asr_sent" =>
                        task[u] = "asr_sent" \/ (task[u] = "asr" /\ status[u] = "receiving")
<1>0. /\ TurnType /\ StopType /\ StopInv /\ TurnInv(u) /\ WorkerInv(u)
      /\ AnswersNext(u)
  BY DEF Before
<1> USE DEF TurnType, AnswersNext
<1>a. ASSUME sock' # "open" \/ sock' = sock, status' = status, task' = task PROVE Goal
  BY <1>0, <1>a
<1>b. ASSUME NEW t \in Turns, NEW k \in Task \ {"asr_sent"}, task' = [task EXCEPT ![t] = k],
             sock' = sock, status'[u] = status[u] \/ t = u
      PROVE  Goal
  BY <1>0, <1>b
<1>1. ASSUME NEW t \in Turns, Device(t) PROVE Goal
  <2>1. CASE \E i \in 0..GameMaxTurns-1 : TurnStart(t, i)
    BY <1>0, <2>1 DEF TurnStart, StartAllowed
  <2>2. CASE TurnEnd(t)
    BY <1>b, <2>2 DEF TurnEnd
  <2>3. CASE PlaybackComplete(t) \/ TurnCancel(t)
    BY <1>a, <2>3 DEF PlaybackComplete, TurnCancel
  <2> QED
    BY <1>1, <2>1, <2>2, <2>3 DEF Device
<1>2. ASSUME NEW t \in Turns, FinishTask(t) PROVE Goal
  <2>0. Failed(t) \in Task \ {"asr_sent"}
    BY DEF Failed
  <2>1. CASE AsrEmpty(t)
    <3>1. CASE fsm[t] = "processing" /\ ~expired
      BY <1>0, <1>b, <2>1, <3>1 DEF AsrEmpty
    <3>2. CASE ~(fsm[t] = "processing" /\ ~expired)
      BY <1>b, <2>0, <2>1, <3>2 DEF AsrEmpty
    <3> QED
      BY <3>1, <3>2
  <2>2. CASE AsrFinal(t)
    <3>1. CASE fsm[t] = "processing" /\ ~expired
      <4>1. /\ task[t] = "asr" /\ task' = [task EXCEPT ![t] = "asr_sent"]
            /\ sock' = sock /\ status' = status
        BY <2>2, <3>1 DEF AsrFinal
      <4>2. t = u => status[u] = "receiving"
        BY <1>0, <3>1, <4>1 DEF TurnInv, WorkerInv, Cancellable
      <4> QED
        BY <1>0, <4>1, <4>2
    <3>2. CASE ~(fsm[t] = "processing" /\ ~expired)
      BY <1>b, <2>0, <2>2, <3>2 DEF AsrFinal
    <3> QED
      BY <3>1, <3>2
  <2>3. CASE ProcessTurn(t)
    <3>1. CASE fsm[t] = "result_ready" /\ ~expired
      BY <1>0, <1>b, <2>3, <3>1 DEF ProcessTurn
    <3>2. CASE ~(fsm[t] = "result_ready" /\ ~expired)
      BY <1>0, <1>b, <2>0, <2>3, <3>2 DEF ProcessTurn
    <3> QED
      BY <3>1, <3>2
  <2>4. CASE AsrGap(t) \/ AsrCancelled(t) \/ FirstAudio(t) \/ AnswerReady(t) \/ ErrorReported(t)
    BY <1>b, <2>0, <2>4 DEF AsrGap, AsrCancelled, FirstAudio, AnswerReady, ErrorReported
  <2>5. ASSUME TechnicalError(t), UNCHANGED <<sock, status>> PROVE Goal
    BY <1>b, <2>5 DEF TechnicalError
  <2>6. CASE AsrFails(t) \/ NoFirstAudio(t) \/ AnswerFails(t)
    BY <2>5, <2>6 DEF AsrFails, NoFirstAudio, AnswerFails
  <2> QED
    BY <1>2, <2>1, <2>2, <2>3, <2>4, <2>6 DEF FinishTask
<1>3. ASSUME NEW t \in Turns, ErrorThread(t) PROVE Goal
  <2>1. CASE ErrorRevokes(t)
    BY <1>b, <2>1 DEF ErrorRevokes
  <2>2. CASE ErrorJoins(t)
    BY <1>0, <1>b, <2>2 DEF ErrorJoins
  <2>3. CASE ErrorTimesOut(t)
    BY <1>0, <1>b, <2>3 DEF ErrorTimesOut
  <2> QED
    BY <1>3, <2>1, <2>2, <2>3 DEF ErrorThread
<1>4. ASSUME NEW t \in Turns, Worker(t) PROVE Goal
  <2>1. CASE WorkerCommits(t)
    BY <1>0, <2>1 DEF WorkerCommits, WorkerInv
  <2>2. CASE ~WorkerCommits(t)
    BY <1>4, <1>a, <2>2 DEF Worker, WorkerStart, WorkerPublishes, WorkerCancelled, WorkerFails,
                            WorkerFinishesAudio, WorkerAnswers, WorkerRemembers
  <2> QED
    BY <2>1, <2>2
<1>5. CASE CancelThread
  <2>1. CASE StopRevoke \/ StopJoin \/ StopTimesOut
    BY <1>a, <2>1 DEF StopRevoke, StopJoin, StopTimesOut
  <2>2. ASSUME NEW t \in Turns, CancelDone(t) PROVE Goal
    <3>1. sock # "open" /\ sock' = sock /\ task' = task
      BY <1>0, <2>2 DEF CancelDone, StopInv, NoStop
    <3>2. status' = [status EXCEPT ![t] = "cancelled"]
      BY <2>2 DEF CancelDone
    <3> QED
      BY <1>0, <3>1, <3>2
  <2>3. ASSUME NEW t \in Turns, CancelTooLate(t) PROVE Goal
    BY <1>a, <2>3 DEF CancelTooLate
  <2>4. ASSUME NEW t \in Turns, CancelReply(t) PROVE Goal
    BY <2>4 DEF CancelReply
  <2> QED
    BY <1>5, <2>1, <2>2, <2>3, <2>4 DEF CancelThread
<1>6. CASE Close \/ Hangup \/ Expire \/ UNCHANGED vars
  BY <1>6, <1>a DEF Close, CloseBegin, CloseEnd, CloseTurn, CloseStopped, Hangup, Expire
<1> QED
  BY <1>1, <1>2, <1>3, <1>4, <1>5, <1>6 DEF Next

LEMMA OneAfterAnotherNext ==
  Before /\ OneAfterAnother /\ [Next]_vars => OneAfterAnother'
<1> SUFFICES ASSUME Before, OneAfterAnother, [Next]_vars PROVE OneAfterAnother'
  OBVIOUS
<1>0. TurnType /\ \A t \in Turns : TurnInv(t) /\ WorkerInv(t) /\ AnswersNext(t)
  BY DEF Before, OneAfterAnother
<1>1. \A t \in Turns : AnswersNext(t)'
  BY <1>0, AnswersNextNext
<1>2. ASSUME NEW t \in Turns, NEW i \in 0..GameMaxTurns-1, TurnStart(t, i) PROVE OneAfterAnother'
  <2>1. /\ status' = [status EXCEPT ![t] = "receiving"] /\ task' = task
        /\ earlier' = [earlier EXCEPT ![t] = Started]
        /\ t \notin Started /\ Active = {} /\ sock = "open"
    BY <1>2 DEF TurnStart, StartAllowed, Started, Listening
  <2>2. \A u \in Turns : task[u] # "asr_sent"
    BY <1>0, <2>1 DEF AnswersNext, Active, Started
  <2>3. Started' = Started \cup {t}
    BY <1>0, <2>1 DEF Started, TurnType
  <2>4. \A u \in Active' : u = t
    BY <1>0, <2>1 DEF Active, Started, TurnType
  <2>5. \A u \in Started : earlier'[u] = earlier[u] /\ u # t
    BY <1>0, <2>1 DEF Started, TurnType
  <2>6. earlier'[t] = Started
    BY <1>0, <2>1 DEF TurnType
  <2>7. LastTurn(t)'
    BY <2>1, <2>3, <2>5, <2>6 DEF LastTurn, OneAfterAnother
  <2> HIDE DEF Running, Done, Terminal, Status
  <2> QED
    BY <1>1, <2>1, <2>2, <2>3, <2>4, <2>5, <2>6, <2>7 DEF OneAfterAnother
<1>3. CASE StatusSteps
  <2>1. Started' = Started /\ earlier' = earlier
    BY <1>3 DEF StatusSteps, Started
  <2>2. ASSUME NEW t \in Turns, t \in Active' \/ task'[t] = "asr_sent"
        PROVE  t \in Active \/ task[t] = "asr_sent"
    BY <1>0, <1>3, <2>2, AnswersNextNext DEF StatusSteps, Active, Started
  <2>3. \A t \in Turns : t \in Active' \/ task'[t] = "asr_sent" => LastTurn(t)'
    BY <2>1, <2>2 DEF OneAfterAnother, LastTurn
  <2> QED
    BY <1>1, <2>1, <2>3 DEF OneAfterAnother
<1> QED
  BY <1>2, <1>3, StatusBy

(* The worker thread goes on with the turn it serves.                      *)
WorkerSteps(t, f) ==
  /\ future[t] \in Running /\ future' = [future EXCEPT ![t] = f]
  /\ f = "result" => WorkerRemembers(t)
  /\ \A u \in Turns \ {t} : answer'[u] = answer[u]

LEMMA FutureBy ==
  ASSUME Before, [Next]_vars
  PROVE  \/ UNCHANGED <<future, answer>>
         \/ \E t \in Turns : \/ ProcessTurn(t) \/ WorkerStart(t)
                             \/ \E f \in Running \cup Done : WorkerSteps(t, f)
         \/ CloseEnd
<1>0. TurnType
  BY DEF Before
<1>1. ASSUME NEW t \in Turns, Device(t) PROVE UNCHANGED <<future, answer>>
  BY <1>1 DEF Device, TurnStart, TurnEnd, PlaybackComplete, TurnCancel
<1>2. ASSUME NEW t \in Turns, FinishTask(t), ~ProcessTurn(t) PROVE UNCHANGED <<future, answer>>
  BY <1>2 DEF FinishTask, AsrEmpty, AsrFinal, AsrGap, AsrCancelled, AsrFails, FirstAudio,
              NoFirstAudio, AnswerReady, AnswerFails, ErrorReported
<1>3. ASSUME NEW t \in Turns, ErrorThread(t) PROVE UNCHANGED <<future, answer>>
  BY <1>3 DEF ErrorThread, ErrorRevokes, ErrorJoins, ErrorTimesOut
<1>4. ASSUME NEW t \in Turns, Worker(t), ~WorkerStart(t)
      PROVE  UNCHANGED <<future, answer>> \/ \E f \in Running \cup Done : WorkerSteps(t, f)
  <2> USE <1>0 DEF TurnType
  <2>1. CASE WorkerPublishes(t)
    BY <2>1 DEF WorkerPublishes
  <2>2. CASE WorkerCancelled(t)
    <3>1. WorkerSteps(t, "cancelled")
      BY <2>2 DEF WorkerCancelled, WorkerSteps
    <3> QED
      BY <3>1
  <2>3. CASE WorkerFails(t)
    <3>1. WorkerSteps(t, "error")
      BY <2>3 DEF WorkerFails, WorkerSteps
    <3> QED
      BY <3>1
  <2>4. CASE WorkerFinishesAudio(t)
    <3>1. WorkerSteps(t, "audio_done")
      BY <2>4 DEF WorkerFinishesAudio, WorkerSteps
    <3> QED
      BY <3>1
  <2>5. CASE WorkerAnswers(t)
    <3>1. WorkerSteps(t, "answered")
      BY <2>5 DEF WorkerAnswers, WorkerSteps
    <3> QED
      BY <3>1
  <2>6. CASE WorkerCommits(t)
    <3>1. WorkerSteps(t, "status_set")
      BY <2>6 DEF WorkerCommits, WorkerSteps
    <3> QED
      BY <3>1
  <2>7. CASE WorkerRemembers(t)
    <3>1. WorkerSteps(t, "result")
      BY <2>7 DEF WorkerRemembers, WorkerSteps
    <3> QED
      BY <3>1
  <2> QED
    BY <1>4, <2>1, <2>2, <2>3, <2>4, <2>5, <2>6, <2>7 DEF Worker
<1>5. CASE CancelThread
  BY <1>5 DEF CancelThread, StopRevoke, StopJoin, StopTimesOut, CancelDone, CancelReply,
              CancelTooLate
<1>6. CASE (Close /\ ~CloseEnd) \/ Hangup \/ Expire \/ UNCHANGED vars
  BY <1>6 DEF Close, CloseBegin, CloseTurn, CloseStopped, Hangup, Expire
<1> QED
  BY <1>1, <1>2, <1>3, <1>4, <1>5, <1>6 DEF Next

(* The thread is free only when every turn before has been served.         *)
LEMMA OneWorkerNext ==
  Before /\ OneAfterAnother /\ OneWorker /\ [Next]_vars => OneWorker'
<1> SUFFICES ASSUME Before, OneAfterAnother, OneWorker, [Next]_vars PROVE OneWorker'
  OBVIOUS
<1>0. TurnType /\ \A t \in Turns : TurnInv(t) /\ WorkerInv(t)
  BY DEF Before
<1> USE DEF TurnType, Waits
<1>1. ASSUME NEW t \in Turns, NEW i \in 0..GameMaxTurns-1, TurnStart(t, i) PROVE OneWorker'
  <2>1. /\ future' = future /\ t \notin Started /\ Started' = Started \cup {t}
        /\ \A u \in Started : earlier'[u] = earlier[u]
    BY <1>0, <1>1 DEF TurnStart, StartAllowed, Started
  <2>2. future[t] = "none"
    BY <1>0, <2>1 DEF WorkerInv, Started
  <2> QED
    BY <2>1, <2>2 DEF OneWorker
<1>2. CASE StatusSteps
  <2>0. Started' = Started /\ earlier' = earlier
    BY <1>2 DEF StatusSteps, Started
  <2>1. CASE UNCHANGED <<future, answer>>
    BY <2>0, <2>1 DEF OneWorker
  <2>2. ASSUME NEW t \in Turns, ProcessTurn(t) PROVE OneWorker'
    <3>1. future' = [future EXCEPT ![t] = "queued"]
      BY <2>2 DEF ProcessTurn
    <3> QED
      BY <1>0, <2>0, <3>1 DEF OneWorker
  <2>3. ASSUME NEW t \in Turns, WorkerStart(t) PROVE OneWorker'
    <3>1. /\ future[t] = "queued" /\ \A u \in Turns : future[u] \notin Running
          /\ \/ cancel_event[t] /\ future' = [future EXCEPT ![t] = "cancelled"]
             \/ ~cancel_event[t] /\ future' = [future EXCEPT ![t] = "running"]
      BY <2>3 DEF WorkerStart
    <3>2. CASE future' = [future EXCEPT ![t] = "cancelled"]
      <4>1. \A u \in Turns : future'[u] \notin Running
        BY <1>0, <3>1, <3>2
      <4> QED
        BY <2>0, <4>1 DEF OneWorker, Started
    <3>3. CASE ~cancel_event[t] /\ future' = [future EXCEPT ![t] = "running"]
      <4>1. t \in Active
        BY <1>0, <3>1, <3>3 DEF WorkerInv, Active, Started
      <4>2. \A u \in Started : t \notin earlier[u]
        BY <4>1 DEF OneAfterAnother, LastTurn
      <4>3. \A u \in Turns \ {t} : future'[u] \notin Running
        BY <1>0, <3>1, <3>3
      <4> QED
        BY <2>0, <4>2, <4>3 DEF OneWorker, Started
    <3> QED
      BY <3>1, <3>2, <3>3
  <2>4. ASSUME NEW t \in Turns, NEW f \in Running \cup Done, WorkerSteps(t, f) PROVE OneWorker'
    <3>1. future[t] \in Running /\ future' = [future EXCEPT ![t] = f]
      BY <2>4 DEF WorkerSteps
    <3> QED
      BY <1>0, <2>0, <3>1 DEF OneWorker
  <2>5. CASE CloseEnd
    <3>1. \A u \in Turns : /\ future'[u] \in Running => future[u] \in Running
                           /\ future[u] \in Waits => future'[u] \in Waits
      BY <1>0, <2>5 DEF CloseEnd
    <3> QED
      BY <2>0, <3>1 DEF OneWorker, Started
  <2> QED
    BY <2>1, <2>2, <2>3, <2>4, <2>5, FutureBy
<1> QED
  BY <1>1, <1>2, StatusBy

(* A worker that has ended stays as it ended.                              *)
LEMMA WorkerEnds ==
  ASSUME Before, [Next]_vars, NEW t \in Turns
  PROVE  /\ future[t] \in {"result", "cancelled"} =>
              future'[t] = future[t] /\ answer'[t] = answer[t]
         /\ future'[t] = "result" => future[t] = "result" \/ WorkerRemembers(t)
<1> DEFINE Goal == /\ future[t] \in {"result", "cancelled"} =>
                        future'[t] = future[t] /\ answer'[t] = answer[t]
                   /\ future'[t] = "result" => future[t] = "result" \/ WorkerRemembers(t)
<1>0. TurnType /\ \A v \in Turns : WorkerInv(v)
  BY DEF Before
<1> USE DEF TurnType
<1>1. CASE UNCHANGED <<future, answer>>
  BY <1>1
<1>2. ASSUME NEW v \in Turns, ProcessTurn(v) PROVE Goal
  <2>1. future[v] = "none" /\ future' = [future EXCEPT ![v] = "queued"] /\ answer' = answer
    BY <1>0, <1>2 DEF ProcessTurn, WorkerInv
  <2> QED
    BY <1>0, <2>1
<1>3. ASSUME NEW v \in Turns, WorkerStart(v) PROVE Goal
  <2>1. /\ future[v] = "queued" /\ answer' = answer
        /\ \E f \in {"cancelled", "running"} : future' = [future EXCEPT ![v] = f]
    BY <1>3 DEF WorkerStart
  <2> QED
    BY <1>0, <2>1
<1>4. ASSUME NEW v \in Turns, NEW f \in Running \cup Done, WorkerSteps(v, f) PROVE Goal
  <2>1. /\ future[v] \in Running /\ future' = [future EXCEPT ![v] = f]
        /\ f = "result" => WorkerRemembers(v)
        /\ \A w \in Turns \ {v} : answer'[w] = answer[w]
    BY <1>4 DEF WorkerSteps
  <2>2. CASE v = t
    BY <1>0, <2>1, <2>2
  <2>3. CASE v # t
    BY <1>0, <2>1, <2>3
  <2> QED
    BY <2>2, <2>3
<1>5. CASE CloseEnd
  <2>1. future'[t] = (IF future[t] = "queued" THEN "dropped" ELSE future[t]) /\ answer' = answer
    BY <1>0, <1>5 DEF CloseEnd
  <2> QED
    BY <2>1
<1> QED
  BY <1>1, <1>2, <1>3, <1>4, <1>5, FutureBy

LEMMA CancelledBy ==
  ASSUME Before, [Next]_vars, NEW u \in Turns, fsm'[u] = "cancelled"
  PROVE  fsm[u] = "cancelled" \/ CancelDone(u)
<1> SUFFICES ASSUME fsm[u] # "cancelled" PROVE CancelDone(u)
  OBVIOUS
<1>0. TurnType
  BY DEF Before
<1> USE DEF TurnType
<1>1. ASSUME NEW t \in Turns, Device(t) PROVE FALSE
  BY <1>0, <1>1 DEF Device, TurnStart, TurnEnd, PlaybackComplete, TurnCancel
<1>2. ASSUME NEW t \in Turns, FinishTask(t) PROVE FALSE
  <2>1. fsm' = fsm \/ \E s \in FsmState \ {"cancelled"} : fsm' = [fsm EXCEPT ![t] = s]
    BY <1>2 DEF FinishTask, AsrEmpty, AsrFinal, AsrGap, AsrCancelled, AsrFails, ProcessTurn,
                FirstAudio, NoFirstAudio, AnswerReady, AnswerFails, ErrorReported, TechnicalError
  <2> QED
    BY <1>0, <2>1
<1>3. ASSUME NEW t \in Turns, ErrorThread(t) \/ Worker(t) PROVE FALSE
  BY <1>3 DEF ErrorThread, ErrorRevokes, ErrorJoins, ErrorTimesOut, Worker, WorkerStart,
              WorkerPublishes, WorkerCancelled, WorkerFails, WorkerFinishesAudio, WorkerAnswers,
              WorkerCommits, WorkerRemembers
<1>4. CASE CancelThread
  <2>1. CASE StopRevoke \/ StopJoin \/ StopTimesOut
    BY <2>1 DEF StopRevoke, StopJoin, StopTimesOut
  <2>2. ASSUME NEW t \in Turns, CancelDone(t) PROVE CancelDone(u)
    <3>1. fsm' = [fsm EXCEPT ![t] = "cancelled"]
      BY <2>2 DEF CancelDone
    <3> QED
      BY <1>0, <2>2, <3>1
  <2>3. ASSUME NEW t \in Turns, CancelReply(t) \/ CancelTooLate(t) PROVE FALSE
    BY <2>3 DEF CancelReply, CancelTooLate
  <2> QED
    BY <1>4, <2>1, <2>2, <2>3 DEF CancelThread
<1>5. CASE Close
  <2>1. CASE CloseBegin \/ CloseEnd
    BY <2>1 DEF CloseBegin, CloseEnd
  <2>2. ASSUME NEW t \in Turns, CloseTurn(t) \/ CloseStopped(t) PROVE FALSE
    BY <1>0, <2>2 DEF CloseTurn, CloseStopped
  <2> QED
    BY <1>5, <2>1, <2>2 DEF Close
<1>6. CASE Hangup \/ Expire \/ UNCHANGED vars
  BY <1>6 DEF Hangup, Expire
<1> QED
  BY <1>1, <1>2, <1>3, <1>4, <1>5, <1>6 DEF Next

(* Whoever is remembered was served before, and so started before, the one *)
(* now remembered: the worker serves the turns in turn, and a turn that is *)
(* cancelled with an answer begun is the last one.                         *)
LEMMA ContextInvNext ==
  TypeOK /\ Before /\ OneAfterAnother /\ OneWorker /\ ContextInv /\ [Next]_vars => ContextInv'
<1> SUFFICES ASSUME TypeOK, Before, OneAfterAnother, OneWorker, ContextInv, [Next]_vars
             PROVE  ContextInv'
  OBVIOUS
<1>0. /\ TurnType /\ StopType /\ StopInv /\ \A t \in Turns : TurnInv(t) /\ WorkerInv(t)
      /\ context \in Seq(Record)
  BY TypeParts DEF Before, Parts
<1>1. Len(context) \in Nat /\ DOMAIN context = 1..Len(context)
      /\ \A n \in DOMAIN context : context[n].turn \in Turns
  <2>1. Len(context) \in Nat /\ DOMAIN context = 1..Len(context)
    BY <1>0
  <2>2. \A n \in DOMAIN context : context[n] \in Record
    BY <1>0
  <2>3. \A r \in Record : r.turn \in Turns
    BY DEF Record
  <2> QED
    BY <2>1, <2>2, <2>3
<1>2. ASSUME NEW n \in DOMAIN context
      PROVE  LET t == context[n].turn IN
               /\ t \in Started /\ earlier'[t] = earlier[t]
               /\ future[t] \in {"result", "cancelled"} /\ future'[t] = future[t]
               /\ answer'[t] # "none"
  <2> DEFINE t == context[n].turn
  <2>1. t \in Turns /\ future[t] \in {"result", "cancelled"} /\ answer[t] # "none"
    BY <1>1 DEF ContextInv
  <2>2. t \in Started
    BY <1>0, <2>1 DEF WorkerInv, Started
  <2>3. future'[t] = future[t] /\ answer'[t] = answer[t]
    BY <2>1, WorkerEnds
  <2>4. ASSUME NEW v \in Turns, NEW i \in 0..GameMaxTurns-1, TurnStart(v, i)
        PROVE  earlier'[t] = earlier[t]
    BY <1>0, <2>1, <2>2, <2>4 DEF TurnStart, StartAllowed, Started, TurnType
  <2>5. earlier'[t] = earlier[t]
    BY <2>4, StatusBy DEF StatusSteps
  <2> QED
    BY <2>1, <2>2, <2>3, <2>5
<1>3. CASE /\ context' = context
           /\ \A t \in Turns : ~WorkerRemembers(t) /\ ~(CancelDone(t) /\ answer[t] # "none")
  <2>1. ASSUME NEW n \in DOMAIN context, fsm'[context[n].turn] = "cancelled"
        PROVE  context[n].interrupted
    BY <1>1, <1>3, <2>1, CancelledBy DEF ContextInv
  <2>2. \A t \in Turns : future'[t] = "result" => Remembered(t)'
    BY <1>3, WorkerEnds DEF ContextInv, Remembered
  <2>3. ContextInOrder'
    BY <1>1, <1>2, <1>3 DEF ContextInv, ContextInOrder
  <2> QED
    BY <1>2, <1>3, <2>1, <2>2, <2>3 DEF ContextInv
(* ... t is remembered, or its record replaced                             *)
<1>4. ASSUME NEW t \in Turns, NEW r \in Record, r.turn = t,
             context' \in Seq(Record),
             ~Remembered(t) /\ Len(context') = Len(context) + 1,
             \A n \in 1..Len(context) : context'[n] = context[n],
             context'[Len(context) + 1] = r,
             \A n \in DOMAIN context : context[n].turn \in earlier[t],
             earlier'[t] = earlier[t],
             future'[t] \in {"result", "cancelled"}, answer'[t] # "none",
             fsm'[t] = "cancelled" => r.interrupted,
             \A u \in Turns \ {t} : fsm'[u] = fsm[u] /\ ~WorkerRemembers(u)
      PROVE  ContextInv'
  <2>1. DOMAIN context' = 1..(Len(context) + 1)
    BY <1>1, <1>4
  <2>2. ContextInOrder'
    <3>1. ASSUME NEW m \in 1..Len(context), NEW n \in 1..Len(context), m < n
          PROVE  context'[m].turn \in earlier'[context'[n].turn]
      BY <1>1, <1>2, <1>4, <3>1 DEF ContextInv, ContextInOrder
    <3>2. ASSUME NEW m \in 1..Len(context)
          PROVE  context'[m].turn \in earlier'[context'[Len(context) + 1].turn]
      BY <1>1, <1>4
    <3>3. \A m, n \in 1..(Len(context) + 1) :
            m < n => m \in 1..Len(context) /\ (n \in 1..Len(context) \/ n = Len(context) + 1)
      BY <1>1
    <3> QED
      BY <2>1, <3>1, <3>2, <3>3 DEF ContextInOrder
  <2>3. ASSUME NEW n \in 1..Len(context)
        PROVE  LET u == context'[n].turn IN
                 /\ future'[u] \in {"result", "cancelled"} /\ answer'[u] # "none"
                 /\ fsm'[u] = "cancelled" => context'[n].interrupted
    <3>1. context'[n] = context[n] /\ context[n].turn # t
      BY <1>1, <1>4 DEF Remembered
    <3> QED
      BY <1>1, <1>2, <1>4, <3>1 DEF ContextInv
  <2>4. ASSUME NEW u \in Turns, future'[u] = "result" PROVE Remembered(u)'
    <3>1. CASE u = t
      BY <1>1, <1>4, <2>1, <3>1 DEF Remembered
    <3>2. CASE u # t
      <4>1. PICK n \in 1..Len(context) : context[n].turn = u
        BY <1>1, <1>4, <2>4, <3>2, WorkerEnds DEF ContextInv, Remembered
      <4>2. n \in DOMAIN context' /\ context'[n].turn = u
        BY <1>1, <1>4, <2>1, <4>1
      <4> QED
        BY <4>2 DEF Remembered
    <3> QED
      BY <3>1, <3>2
  <2>5. \A n \in DOMAIN context' : n \in 1..Len(context) \/ n = Len(context) + 1
    BY <1>1, <2>1
  <2> QED
    BY <1>4, <2>2, <2>3, <2>4, <2>5 DEF ContextInv
<1>5. ASSUME NEW t \in Turns, NEW r \in Record, r.turn = t, r.interrupted,
             context' \in Seq(Record),
             Remembered(t) /\ Len(context') = Len(context),
             \A n \in 1..Len(context) :
                context'[n] = IF context[n].turn = t THEN r ELSE context[n],
             \A u \in Turns \ {t} : fsm'[u] = fsm[u],
             \A u \in Turns : ~WorkerRemembers(u)
      PROVE  ContextInv'
  <2>1. DOMAIN context' = 1..Len(context)
    BY <1>1, <1>5
  <2>2. \A n \in 1..Len(context) : context'[n].turn = context[n].turn
    BY <1>5
  <2>3. ContextInOrder'
    BY <1>1, <1>2, <2>1, <2>2 DEF ContextInv, ContextInOrder
  <2>4. ASSUME NEW n \in 1..Len(context), fsm'[context'[n].turn] = "cancelled"
        PROVE  context'[n].interrupted
    <3>1. CASE context[n].turn = t
      BY <1>5, <3>1
    <3>2. CASE context[n].turn # t
      BY <1>1, <1>5, <2>4, <3>2 DEF ContextInv
    <3> QED
      BY <3>1, <3>2
  <2>5. \A u \in Turns : future'[u] = "result" => Remembered(u)'
    BY <1>1, <1>5, <2>1, <2>2, WorkerEnds DEF ContextInv, Remembered
  <2> QED
    BY <1>1, <1>2, <2>1, <2>2, <2>3, <2>4, <2>5 DEF ContextInv
<1>6. ASSUME NEW t \in Turns, WorkerRemembers(t) PROVE ContextInv'
  <2> DEFINE r == [turn |-> t, interrupted |-> FALSE]
  <2>1. r \in Record /\ r.turn = t
    BY DEF Record
  <2>2. /\ future[t] = "status_set" /\ future' = [future EXCEPT ![t] = "result"]
        /\ UNCHANGED <<answer, fsm, begun>>
    BY <1>6 DEF WorkerRemembers
  <2>3. ~Remembered(t)
    BY <2>2 DEF Remembered, ContextInv
  <2>4. /\ context' \in Seq(Record) /\ Len(context') = Len(context) + 1
        /\ \A n \in 1..Len(context) : context'[n] = context[n]
        /\ context'[Len(context) + 1] = r
    BY <1>0, <1>6, <2>3, Commits DEF WorkerRemembers
  <2>5. ASSUME NEW n \in DOMAIN context PROVE context[n].turn \in earlier[t]
    <3> DEFINE u == context[n].turn
    <3>1. t \in Started /\ u \in Started /\ u # t
      BY <1>0, <1>2, <2>2 DEF Started, WorkerInv
    <3>2. ~(t \in earlier[u])
      BY <1>2, <2>2, <3>1 DEF OneWorker, Waits
    <3> QED
      BY <3>1, <3>2 DEF OneAfterAnother
  <2>6. future'[t] = "result" /\ answer'[t] # "none" /\ fsm'[t] # "cancelled"
    BY <1>0, <2>2 DEF TurnType, WorkerInv, TurnInv
  <2>7. \A u \in Turns \ {t} : ~WorkerRemembers(u)
    <3> SUFFICES ASSUME NEW u \in Turns \ {t}, WorkerRemembers(u) PROVE FALSE
      OBVIOUS
    <3>1. future'[u] = "result" /\ future[u] = "status_set"
      BY <1>0 DEF WorkerRemembers, TurnType
    <3> QED
      BY <2>2, <3>1
  <2> HIDE DEF r
  <2> QED
    BY <1>4, <2>1, <2>2, <2>3, <2>4, <2>5, <2>6, <2>7
<1>7. ASSUME NEW t \in Turns, CancelDone(t), answer[t] # "none" PROVE ContextInv'
  <2> DEFINE r == [turn |-> t, interrupted |-> TRUE]
  <2>1. r \in Record /\ r.turn = t /\ r.interrupted
    BY DEF Record
  <2>2. /\ fsm[t] = "cancelling" /\ fsm' = [fsm EXCEPT ![t] = "cancelled"]
        /\ UNCHANGED <<future, answer, begun>>
        /\ stop.turn = t /\ stop.pc = "joined"
    BY <1>7 DEF CancelDone
  <2>3. \A u \in Turns \ {t} : fsm'[u] = fsm[u]
    BY <1>0, <2>2 DEF TurnType
  <2>4. \A u \in Turns : ~WorkerRemembers(u)
    <3> SUFFICES ASSUME NEW u \in Turns, WorkerRemembers(u) PROVE FALSE
      OBVIOUS
    <3>1. future'[u] = "result" /\ future[u] = "status_set"
      BY <1>0 DEF WorkerRemembers, TurnType
    <3> QED
      BY <2>2, <3>1
  <2>5. \/ /\ Remembered(t) /\ Len(context') = Len(context)
           /\ \A n \in 1..Len(context) :
                context'[n] = IF context[n].turn = t THEN r ELSE context[n]
        \/ /\ ~Remembered(t) /\ Len(context') = Len(context) + 1
           /\ \A n \in 1..Len(context) : context'[n] = context[n]
           /\ context'[Len(context) + 1] = r
    BY <1>0, <1>7, Commits DEF CancelDone
  <2>6. context' \in Seq(Record)
    BY <1>0, <1>7, Commits DEF CancelDone
  <2>7. CASE Remembered(t)
    <3> HIDE DEF r
    <3> QED
      BY <1>5, <2>1, <2>3, <2>4, <2>5, <2>6, <2>7
  <2>8. CASE ~Remembered(t)
    <3>1. future[t] \notin Running
      BY <1>0, <2>2 DEF StopInv, NoStop
    <3>2. future[t] = "cancelled"
      BY <1>0, <1>7, <2>8, <3>1 DEF TurnType, WorkerInv, ContextInv
    <3>3. t \in Active
      BY <1>0, <2>2, <3>2 DEF TurnType, TurnInv, Cancellable, Active, Started
    <3>4. \A n \in DOMAIN context : context[n].turn \in earlier[t]
      BY <1>2, <2>8, <3>3 DEF OneAfterAnother, LastTurn, Remembered
    <3>5. future'[t] = "cancelled" /\ answer'[t] # "none" /\ earlier'[t] = earlier[t]
      BY <1>7, <2>2, <3>2
    <3> HIDE DEF r
    <3> QED
      BY <1>4, <2>1, <2>3, <2>4, <2>5, <2>6, <2>8, <3>4, <3>5
  <2> QED
    BY <2>7, <2>8
<1> QED
  BY <1>3, <1>6, <1>7, ContextBy

-----------------------------------------------------------------------------
(* The limits                                                              *)

LEMMA LimitStarts ==
  ASSUME TypeOK, Before, WithinTurnLimit, NEW t \in Turns, NEW i \in 0..GameMaxTurns-1,
         TurnStart(t, i)
  PROVE  WithinTurnLimit'
<1>0. TurnType /\ max_turns \in 1..GameMaxTurns
  BY TypeParts DEF Parts
<1>1. IsFiniteSet(Indices) /\ TurnCount \in Nat
  BY CountType
<1>2. /\ index' = [index EXCEPT ![t] = i] /\ status' = [status EXCEPT ![t] = "receiving"]
      /\ max_turns' = max_turns /\ t \notin Started /\ IndexAllowed(i)
  BY <1>0 DEF TurnStart, StartAllowed, Started
<1>3. /\ Started' = Started \cup {t} /\ index'[t] = i
      /\ \A u \in Started : index'[u] = index[u] /\ u # t /\ status'[u] = status[u]
  BY <1>0, <1>2 DEF Started, TurnType
<1>4. Indices' = Indices \cup {i}
  BY <1>3 DEF Indices
<1>a. IndexUsedAgain
  BY DEF WithinTurnLimit
<1>7. CASE AtIndex(i) = {} /\ i = TurnCount /\ TurnCount < max_turns
  <2>1. i \notin Indices
    BY <1>7 DEF AtIndex, Indices
  <2>2. TurnCount' = TurnCount + 1
    BY <1>1, <1>4, <2>1, FS_AddElement DEF TurnCount
  <2>3. Indices' = 0..TurnCount'-1
    BY <1>1, <1>4, <1>7, <2>2 DEF WithinTurnLimit
  <2>4. TurnCount' <= max_turns' /\ max_turns' <= GameMaxTurns
    BY <1>0, <1>1, <1>2, <1>7, <2>2, LimitsAssumption
  <2>5. IndexUsedAgain'
    <3>1. ASSUME NEW u \in Started PROVE index[u] # i
      BY <1>7 DEF AtIndex
    <3>2. ASSUME NEW u \in Started, NEW v \in Started, u # v, index[u] = index[v]
          PROVE  Share(u, v)'
      BY <1>3, <1>a, <3>1, <3>2 DEF IndexUsedAgain, Share, AtIndex
    <3> QED
      BY <1>3, <3>1, <3>2 DEF IndexUsedAgain
  <2> QED
    BY <2>3, <2>4, <2>5 DEF WithinTurnLimit
<1>8. ASSUME NEW w \in AtIndex(i), AtIndex(i) = {w}, status[w] = "asr_empty"
      PROVE  WithinTurnLimit'
  <2>1. Indices' = Indices
    BY <1>4, <1>8 DEF AtIndex, Indices
  <2>2. TurnCount' = TurnCount
    BY <2>1 DEF TurnCount
  <2>3. IndexUsedAgain'
    <3>1. ASSUME NEW u \in Started, NEW v \in Started, u # v, index[u] = index[v]
          PROVE  Share(u, v)'
      <4>1. index[u] # i
        BY <1>8, <3>1 DEF AtIndex
      <4> QED
        BY <1>3, <1>a, <3>1, <4>1 DEF IndexUsedAgain, Share, AtIndex
    <3>2. ASSUME NEW v \in Started, index[v] = i
          PROVE  Share(t, v)' /\ Share(v, t)'
      BY <1>3, <1>8, <3>2 DEF Share, AtIndex
    <3> QED
      BY <1>3, <3>1, <3>2 DEF IndexUsedAgain
  <2> QED
    BY <1>2, <2>1, <2>2, <2>3 DEF WithinTurnLimit
<1> QED
  BY <1>2, <1>7, <1>8 DEF IndexAllowed

LEMMA LimitNext ==
  TypeOK /\ Before /\ WithinTurnLimit /\ [Next]_vars
    => WithinTurnLimit' /\ max_turns' \in 1..GameMaxTurns
<1> SUFFICES ASSUME TypeOK, Before, WithinTurnLimit, [Next]_vars
             PROVE  WithinTurnLimit' /\ max_turns' \in 1..GameMaxTurns
  OBVIOUS
<1>0. TurnType /\ max_turns \in 1..GameMaxTurns /\ TurnCount \in Nat
  BY TypeParts, CountType DEF Parts
<1>1. ASSUME NEW t \in Turns, NEW i \in 0..GameMaxTurns-1, TurnStart(t, i)
      PROVE  WithinTurnLimit' /\ max_turns' \in 1..GameMaxTurns
  BY <1>0, <1>1, LimitStarts DEF TurnStart
<1>2. CASE StatusSteps
  <2>1. Started' = Started /\ index' = index
    BY <1>2 DEF StatusSteps, Started
  <2>2. Indices' = Indices /\ TurnCount' = TurnCount
    BY <2>1 DEF Indices, TurnCount
  <2>3. max_turns' \in 1..GameMaxTurns /\ TurnCount <= max_turns'
    <3>1. CASE max_turns' = max_turns
      BY <1>0, <3>1 DEF WithinTurnLimit
    <3>2. ASSUME NEW t \in Turns, WorkerAnswers(t)
          PROVE  max_turns' \in 1..GameMaxTurns /\ TurnCount <= max_turns'
      BY <1>0, <3>2, LimitsAssumption DEF WorkerAnswers, SetMaxTurns, Larger, WithinTurnLimit
    <3> QED
      BY <3>1, <3>2, SlowlyBy
  <2>4. \A j : AtIndex(j)' = AtIndex(j)
    BY <2>1 DEF AtIndex
  <2>5. \A u \in Started : status[u] = "asr_empty" => status'[u] = "asr_empty"
    BY <1>2 DEF StatusSteps, Started
  <2>6. IndexUsedAgain'
    BY <2>1, <2>4, <2>5 DEF WithinTurnLimit, IndexUsedAgain, Share
  <2> QED
    BY <2>2, <2>3, <2>6 DEF WithinTurnLimit
<1> QED
  BY <1>1, <1>2, StatusBy

(* An accepted turn uses an index of its own: one found empty has no       *)
(* worker. So a turn on its way to process_turn, not accepted yet, is one  *)
(* more than were accepted, and still within the limit.                    *)
LEMMA BudgetAccepts == ConversationInv => ProcessTurnAccepts
<1> SUFFICES ASSUME ConversationInv, NEW t \in Turns, task[t] = "asr_sent"
             PROVE  /\ future[t] = "none" /\ t \notin consumed
                    /\ Cardinality(consumed) < GameMaxTurns
  BY DEF ProcessTurnAccepts
<1>0. /\ TypeOK /\ TurnType /\ max_turns \in 1..GameMaxTurns
      /\ \A u \in Turns : TurnInv(u) /\ WorkerInv(u)
      /\ AnswersNext(t) /\ WithinTurnLimit
  BY TypeParts DEF ConversationInv, Parts, OneAfterAnother
<1>1. future[t] = "none" /\ t \notin consumed
  BY <1>0 DEF WorkerInv
<1> DEFINE S == consumed \cup {t}
           f == [u \in S |-> index[u]]
<1>2. S \subseteq Started
  BY <1>0 DEF Started, WorkerInv, AnswersNext, TurnType
<1>3. \A u \in S : status[u] # "asr_empty"
  BY <1>0, <1>2 DEF Started, TurnInv, WorkerInv
<1>4. \A u, v \in S : u # v => index[u] # index[v]
  BY <1>0, <1>2, <1>3 DEF WithinTurnLimit, IndexUsedAgain, Share
<1>5. \A u \in S : index[u] \in Indices
  BY <1>2 DEF Indices
<1>6. f \in Injection(S, Indices)
  BY <1>4, <1>5 DEF Injection, IsInjective
<1>7. IsFiniteSet(Indices) /\ TurnCount \in Nat
  BY <1>0, CountType
<1>8. IsFiniteSet(S) /\ Cardinality(S) <= TurnCount
  BY <1>6, <1>7, FS_Injection DEF TurnCount
<1>9. IsFiniteSet(consumed)
  BY <1>8, FS_Subset
<1>10. Cardinality(consumed) \in Nat /\ Cardinality(S) = Cardinality(consumed) + 1
  BY <1>1, <1>9, FS_AddElement, FS_CardinalityType
<1>11. TurnCount <= GameMaxTurns
  BY <1>0, <1>7, LimitsAssumption DEF WithinTurnLimit
<1> QED
  BY <1>1, <1>7, <1>8, <1>10, <1>11, LimitsAssumption

-----------------------------------------------------------------------------
(* The theorems                                                            *)

LEMMA InitInv == Init => ConversationInv
<1> SUFFICES ASSUME Init PROVE ConversationInv
  OBVIOUS
<1>1. TypeOK
  BY TypeInit
<1>2. ASSUME NEW t \in Turns PROVE TurnInv(t) /\ WorkerInv(t) /\ CloseFinds(t)
  BY DEF Init, TurnInv, WorkerInv, CloseFinds, Cancellable
<1>3. ASSUME NEW t \in Turns PROVE SentInv(t)
  <2>1. sent[t] = << >> /\ << >> \in Prefixes /\ fsm[t] = "idle"
    BY DEF Init, Prefixes
  <2>2. ~Told(t, "turn_cancelled")
    BY <2>1, Appends DEF Told
  <2> QED
    BY <2>1, <2>2 DEF SentInv
<1>4. StopInv
  BY DEF Init, StopInv, NoStop
<1>5. Started = {}
  BY DEF Init, Started
<1>6. OneAfterAnother /\ OneWorker
  BY <1>5 DEF Init, OneAfterAnother, AnswersNext, OneWorker, Active
<1>7. ContextInv
  <2>1. DOMAIN context = {}
    BY DEF Init
  <2> QED
    BY <2>1 DEF Init, ContextInv, ContextInOrder
<1>8. WithinTurnLimit
  <2>1. Indices = {} /\ TurnCount = 0
    BY <1>5, FS_EmptySet DEF Indices, TurnCount
  <2> QED
    BY <1>5, <2>1, LimitsAssumption DEF Init, WithinTurnLimit, IndexUsedAgain
<1> QED
  BY <1>1, <1>2, <1>3, <1>4, <1>6, <1>7, <1>8 DEF ConversationInv

LEMMA NextInv == ConversationInv /\ [Next]_vars => ConversationInv'
<1> SUFFICES ASSUME ConversationInv, [Next]_vars PROVE ConversationInv'
  OBVIOUS
<1>0. TypeOK /\ Before
  BY TypeParts DEF ConversationInv, Before, Parts
<1>1. WithinTurnLimit' /\ max_turns' \in 1..GameMaxTurns
  BY <1>0, LimitNext DEF ConversationInv
<1>2. TypeOK'
  BY <1>0, <1>1, TypeNext, TypeParts DEF Parts
<1>3. ASSUME NEW t \in Turns PROVE TurnInv(t)' /\ WorkerInv(t)' /\ SentInv(t)' /\ CloseFinds(t)'
  BY <1>0, TurnInvNext, SentInvNext, CloseFindsNext DEF ConversationInv
<1>4. StopInv'
  BY <1>0, StopInvNext
<1>5. OneAfterAnother' /\ OneWorker' /\ ContextInv'
  BY <1>0, OneAfterAnotherNext, OneWorkerNext, ContextInvNext DEF ConversationInv
<1> QED
  BY <1>1, <1>2, <1>3, <1>4, <1>5 DEF ConversationInv

(* Whatever the device sends and whenever the worker, the cancel thread,   *)
(* the finish tasks and close() take their steps                           *)
(* (services/conversation_v6.py, api/realtime_v6.py), the conversation     *)
(* stays in the states described above.                                    *)
THEOREM Invariant == Spec => []ConversationInv
<1>1. Init => ConversationInv
  BY InitInv
<1>2. ConversationInv /\ [Next]_vars => ConversationInv'
  BY NextInv
<1> QED
  BY <1>1, <1>2, PTL DEF Spec

(* A turn's events reach the device in the order of the protocol, nothing  *)
(* twice and nothing after the terminal event (api/realtime_v6.py:333-599).*)
THEOREM InOrder == Spec => []EventsInOrder
<1>1. ASSUME NEW p \in Prefixes
      PROVE  Len(p) \in 0..2 /\ DOMAIN p = 1..Len(p) /\ \A n \in 1..Len(p) : Rank(p[n]) = n
  <2>1. CASE p = << >>
    BY <2>1
  <2>2. CASE p = <<"asr_final">>
    BY <2>2 DEF Rank
  <2>3. CASE p = <<"asr_final", "turn_result">>
    BY <2>3 DEF Rank
  <2> QED
    BY <2>1, <2>2, <2>3 DEF Prefixes
<1>2. \A e \in TerminalEvent : Rank(e) = 3
  BY DEF Rank
<1>3. ASSUME NEW p \in Prefixes, NEW e \in TerminalEvent, NEW m \in DOMAIN Append(p, e),
             NEW n \in DOMAIN Append(p, e), m < n
      PROVE  Rank(Append(p, e)[m]) < Rank(Append(p, e)[n])
  <2> DEFINE q == Append(p, e)
  <2>0. p \in Seq(Event) /\ e \in Event
    <3>1. << >> \in Seq(Event)
      OBVIOUS
    <3>2. <<"asr_final">> \in Seq(Event)
      BY DEF Event
    <3>3. <<"asr_final", "turn_result">> \in Seq(Event)
      BY DEF Event
    <3> QED
      BY <3>1, <3>2, <3>3 DEF Prefixes, Event
  <2>1. DOMAIN q = 1..Len(p)+1 /\ \A k \in 1..Len(p) : q[k] = p[k] /\ q[Len(p)+1] = e
    BY <2>0, AppendProperties
  <2>2. m \in 1..Len(p) /\ n \in 1..Len(p)+1
    BY <1>1, <1>3, <2>1
  <2>3. Rank(q[m]) = m /\ m \in 1..2
    BY <1>1, <2>1, <2>2
  <2>4. CASE n \in 1..Len(p)
    BY <1>1, <1>3, <2>1, <2>3, <2>4
  <2>5. CASE n = Len(p) + 1
    BY <1>2, <2>1, <2>2, <2>3, <2>5
  <2> QED
    BY <1>1, <2>2, <2>4, <2>5
<1>4. ConversationInv => EventsInOrder
  <2> SUFFICES ASSUME ConversationInv, NEW t \in Turns, NEW m \in DOMAIN sent[t],
                      NEW n \in DOMAIN sent[t], m < n
               PROVE  Rank(sent[t][m]) < Rank(sent[t][n])
    BY DEF EventsInOrder
  <2>1. CASE sent[t] \in Prefixes
    BY <1>1, <2>1
  <2>2. CASE \E p \in Prefixes, e \in TerminalEvent : sent[t] = Append(p, e)
    BY <1>3, <2>2
  <2> QED
    BY <2>1, <2>2 DEF ConversationInv, SentInv
<1> QED
  BY <1>4, Invariant, PTL

(* A device told turn_cancelled hears no more of the turn, and what is     *)
(* remembered of it is marked interrupted (services/conversation_v6.py,    *)
(* cancel_turn).                                                           *)
THEOREM Barrier == Spec => []CancelIsBarrier
<1>1. ConversationInv => CancelIsBarrier
  BY DEF ConversationInv, CancelIsBarrier, SentInv, TurnInv, ContextInv
<1> QED
  BY <1>1, Invariant, PTL

(* Indices are used in order, within the limit of the mode, an index twice *)
(* only after an empty recording (models/conversation_v6.py:354-376).      *)
THEOREM InLimits == Spec => []WithinTurnLimit
<1>1. ConversationInv => WithinTurnLimit
  BY DEF ConversationInv
<1> QED
  BY <1>1, Invariant, PTL

(* A turn let in by the limits is not refused by the budget, nor finds a   *)
(* worker of its own (storage/conversation_v6_store.py,                    *)
(* IdempotentTurnBudget; services/conversation_v6.py, process_turn).       *)
THEOREM Accepted == Spec => []ProcessTurnAccepts
BY BudgetAccepts, Invariant, PTL

(* The conversation is remembered in the order it was spoken               *)
(* (services/conversation_v6.py, _commit_context).                         *)
THEOREM Remembers == Spec => []ContextInOrder
<1>1. ConversationInv => ContextInOrder
  BY DEF ConversationInv, ContextInv
<1> QED
  BY <1>1, Invariant, PTL

(* A connection closed before its deadline leaves no worker unaware of it  *)
(* (services/conversation_v6.py, close).                                   *)
THEOREM NoOrphans == Spec => []NoOrphanInTime
<1>1. ConversationInv => NoOrphanInTime
  BY DEF ConversationInv, NoOrphanInTime, NoOrphanWorker, StopInv, CloseFinds, NoStop
<1> QED
  BY <1>1, Invariant, PTL
=============================================================================
