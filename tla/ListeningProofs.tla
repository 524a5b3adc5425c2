--------------------------- MODULE ListeningProofs ---------------------------
(***************************************************************************)
(* Proofs about Listening and Capture, for all sizes of the buffers and    *)
(* every number of faults, questions and presses.                          *)
(***************************************************************************)
EXTENDS Listening, TLAPS

-----------------------------------------------------------------------------
(* Who has the microphone                                                  *)

(* Where the runtime task may start the service.                           *)
StartPlaces == {"booting", "network", "restarting", "creating", "aborting"}

(* The service has the microphone while its feed task reads or closes it,  *)
(* the conversation while its pipeline task listens or fails. No pipeline  *)
(* task begins before the feed task is gone, and wherever the runtime task *)
(* may start the service, or come to such a place, no pipeline task runs:  *)
(* it accepts events only then, and has set that before it polls.          *)
UserInv ==
  /\ mic_opened => feed \in {"reading", "closing"}
  /\ opened => pipeline \in {"listening", "failing"}
  /\ pipeline # "none" => feed = "none"
  /\ at \in StartPlaces => pipeline = "none"
  /\ at = "event" => feed = "none"
  /\ at = "polling" /\ accepting => pipeline = "none"
  /\ at \in {"creating", "aborting", "stopping"} => after \in {"idle", "polling", "network"}
  /\ at = "stopping" => ~accepting
  /\ at = "stopping" /\ after = "network" => pipeline = "none"
  /\ accepting \in BOOLEAN

-----------------------------------------------------------------------------
(* What is recorded                                                        *)

CaptureTypes ==
  /\ now \in Nat /\ next \in Nat /\ found \in Nat /\ lost \in Nat
  /\ prefix \in Seq(Nat) /\ out \in Seq(Nat) /\ sent \in Seq(Nat)

(* While the device waits, the buffer holds the chunks read last, as many  *)
(* as there were since it was armed or as fit.                             *)
WaitingInv ==
  mic = "waiting" =>
    /\ next = now + 1 /\ lost = 0
    /\ now <= Arm => prefix = <<>>
    /\ now > Arm => Len(prefix) = IF now - Arm < Preroll + Hold THEN now - Arm ELSE Preroll + Hold
    /\ \A i \in 1..Len(prefix) : prefix[i] = now - Len(prefix) + i

(* Once speech is found the buffer starts at its onset and ends with the   *)
(* chunk at which it was found; the driver keeps or drops what comes next. *)
FoundInv ==
  mic = "found" =>
    /\ Len(prefix) > 0
    /\ \A i \in 1..Len(prefix) : prefix[i] = Onset + i - 1
    /\ next = Onset + Len(prefix) + lost

Speech == sent \o out

(* The sink has been given at least one chunk, all of them in order and    *)
(* before the next one to be read.                                         *)
SpeechInv ==
  /\ mic \in {"waiting", "found"} => sent = <<>>
  /\ mic \in {"reading", "sending", "done"} =>
       /\ Len(Speech) > 0 /\ Speech[1] = Onset
       /\ \A i \in 1..Len(Speech) : Speech[i] < next
       /\ \A i \in 1..Len(Speech) - 1 : Speech[i] < Speech[i + 1]
       /\ next = Onset + Len(Speech) + lost
  /\ mic = "reading" => out = <<>>

CaptureInv == CaptureTypes /\ WaitingInv /\ FoundInv /\ SpeechInv

ListeningInv == UserInv /\ CaptureInv

USE DEF vars, listener, upload, capture, service, trigger, caller, wake, dialogue, Around

-----------------------------------------------------------------------------
(* wake_word_service_start, wherever the runtime task calls it.            *)
LEMMA StartInv ==
  ASSUME UserInv, NEW place \in {"idle", "polling"}, Start(place), pipeline = "none",
         UNCHANGED <<opened, pipeline>>, accepting' \in BOOLEAN
  PROVE  UserInv'
<1> USE DEF UserInv, StartPlaces
<1>1. CASE AlreadyRuns(place) \/ StartRefused(place)
  BY <1>1 DEF AlreadyRuns, StartRefused, Started, Refused
<1>2. CASE InitFails(place) \/ StartFails(place)
  BY <1>2 DEF InitFails, StartFails, Refused
<1>3. CASE StartsFeed(place)
  BY <1>3 DEF StartsFeed
<1> QED
  BY <1>1, <1>2, <1>3 DEF Start

LEMMA RefuseInv ==
  ASSUME UserInv, NEW place \in {"polling", "network"}, Refuse(place),
         place = "network" => pipeline = "none", UNCHANGED <<opened, pipeline>>
  PROVE  UserInv'
BY DEF UserInv, StartPlaces, Refuse

LEMMA TriggerInv == UserInv /\ TriggerSteps => UserInv'
<1> SUFFICES ASSUME UserInv, TriggerSteps PROVE UserInv'
  OBVIOUS
<1> USE DEF UserInv, TriggerSteps, StartPlaces
<1>1. CASE CreatesFetch
  BY <1>1 DEF CreatesFetch, Started
<1>2. CASE Aborted
  BY <1>2 DEF Aborted, Refused
<1>3. CASE Stopped
  BY <1>3 DEF Stopped
<1>4. CASE PollFinds
  BY <1>4 DEF PollFinds, Taken
<1>5. CASE PollFindsNothing
  BY <1>5 DEF PollFindsNothing
<1>6. CASE Restarts
  <2>1. CASE Start("idle") /\ UNCHANGED accepting
    BY <1>6, <2>1, StartInv DEF Restarts
  <2>2. CASE at' = "idle" /\ UNCHANGED <<service, trigger, after, faults>>
    BY <1>6, <2>2 DEF Restarts
  <2> QED
    BY <1>6, <2>1, <2>2 DEF Restarts
<1> QED
  BY <1>1, <1>2, <1>3, <1>4, <1>5, <1>6 DEF Trigger

LEMMA LoopInv == UserInv /\ (Loop \/ LongPress) => UserInv'
<1> SUFFICES ASSUME UserInv, Loop \/ LongPress PROVE UserInv'
  OBVIOUS
<1>1. CASE Boots
  BY <1>1, StartInv DEF Boots, UserInv, StartPlaces
<1>2. CASE LoopSets
  <2>1. CASE accepting = Idle /\ at' = "polling" /\ UNCHANGED <<service, trigger, after, faults>>
    BY <1>2, <2>1 DEF LoopSets, UserInv, StartPlaces, Idle
  <2>2. CASE ~accepting /\ Idle /\ accepting' = TRUE /\ Start("polling")
    BY <1>2, <2>2, StartInv DEF LoopSets, Idle
  <2>3. CASE accepting /\ ~Idle /\ Refuse("polling")
    BY <1>2, <2>3, RefuseInv DEF LoopSets
  <2> QED
    BY <1>2, <2>1, <2>2, <2>3 DEF LoopSets
<1>3. CASE PressHandled
  <2>1. CASE Idle /\ accepting /\ Refuse("network")
    BY <1>3, <2>1, RefuseInv DEF PressHandled, Idle
  <2>2. CASE at' \in {"network", "idle"} /\ UNCHANGED <<service, trigger, after, faults>>
    BY <1>3, <2>2 DEF PressHandled, UserInv, StartPlaces, Idle
  <2> QED
    BY <1>3, <2>1, <2>2 DEF PressHandled
<1>4. CASE Reconfigured
  BY <1>4, StartInv DEF Reconfigured, UserInv, StartPlaces
<1>5. CASE PipelineStarts
  BY <1>5 DEF PipelineStarts, UserInv, StartPlaces, Idle
<1>6. CASE LongPress
  BY <1>6 DEF LongPress, UserInv, StartPlaces
<1> QED
  BY <1>1, <1>2, <1>3, <1>4, <1>5, <1>6 DEF Loop

(* The tasks of the service, and what happens to them                      *)
LEMMA ServiceInv == UserInv /\ (FeedSteps \/ FetchSteps \/ WakeElse) => UserInv'
<1> SUFFICES ASSUME UserInv, FeedSteps \/ FetchSteps \/ WakeElse PROVE UserInv'
  OBVIOUS
<1> USE DEF UserInv, StartPlaces
<1>1. CASE FeedSteps
  BY <1>1 DEF FeedSteps, Feed, FeedSeesStop, FeedCloses, FeedStops, FeedLeaves
<1>2. CASE FetchSteps
  BY <1>2 DEF FetchSteps, Fetch, FetchSeesStop, FetchLeaves
<1>3. CASE WakeElse
  BY <1>3 DEF WakeElse, Detects, FeedFails, RetryDue, CreateFails
<1> QED
  BY <1>1, <1>2, <1>3

(* The conversation                                                        *)
LEMMA PipelineInv == UserInv /\ (Pipeline \/ MicSteps \/ MicRuns \/ MicFails) => UserInv'
<1> SUFFICES ASSUME UserInv, Pipeline \/ MicSteps \/ MicRuns \/ MicFails PROVE UserInv'
  OBVIOUS
<1> USE DEF UserInv, StartPlaces, Released
<1>1. CASE Begins \/ Listens
  BY <1>1 DEF Begins, Listens, WaitBegins
<1>2. CASE NobodySpoke \/ TurnOpens
  BY <1>2 DEF NobodySpoke, TurnOpens, StreamBegins, GoesOn
<1>3. CASE Recorded \/ ListeningFailed \/ Answered
  BY <1>3 DEF Recorded, ListeningFailed, Answered, GoesOn
<1>4. CASE Fails \/ Leaves
  BY <1>4 DEF Fails, Leaves
<1>5. CASE MicSteps \/ MicRuns \/ MicFails
  BY <1>5 DEF MicSteps, MicRuns, MicFails, CaptureNext, WaitReads, StreamReads, WaitTimesOut,
              SinkTakes, MicRunsOn, CaptureFails
<1> QED
  BY <1>1, <1>2, <1>3, <1>4, <1>5 DEF Pipeline

-----------------------------------------------------------------------------
(* The microphone's buffers                                                *)

LEMMA ReleasedInv ==
  ASSUME NEW how, Released(how), how \notin {"waiting", "found", "reading", "sending", "done"}
  PROVE  CaptureInv'
BY DEF Released, CaptureInv, CaptureTypes, WaitingInv, FoundInv, SpeechInv

LEMMA WaitBeginsInv == WaitBegins => CaptureInv'
BY CaptureAssumption DEF WaitBegins, CaptureInv, CaptureTypes, WaitingInv, FoundInv, SpeechInv

(* Chunks one after the other, the last of them n                          *)
Run(s, n) == \A i \in 1..Len(s) : s[i] = n - Len(s) + i

LEMMA TailOfRun ==
  ASSUME NEW s \in Seq(Nat), NEW n \in Nat, Len(s) > 0, Run(s, n)
  PROVE  Tail(s) \in Seq(Nat) /\ Len(Tail(s)) = Len(s) - 1 /\ Run(Tail(s), n)
<1>1. Tail(s) \in Seq(Nat) /\ Len(Tail(s)) = Len(s) - 1 /\ Len(s) \in Nat
  OBVIOUS
<1>2. ASSUME NEW i \in 1..Len(s) - 1 PROVE Tail(s)[i] = n - (Len(s) - 1) + i
  <2>1. Tail(s)[i] = s[i + 1]
    OBVIOUS
  <2>2. i + 1 \in 1..Len(s)
    BY <1>1
  <2>3. s[i + 1] = n - Len(s) + (i + 1)
    BY <2>2 DEF Run
  <2> QED
    BY <1>1, <2>1, <2>3
<1> QED
  BY <1>1, <1>2 DEF Run

LEMMA RunGoesOn ==
  ASSUME NEW s \in Seq(Nat), NEW n \in Nat, Run(s, n)
  PROVE  /\ Append(s, n + 1) \in Seq(Nat) /\ Len(Append(s, n + 1)) = Len(s) + 1
         /\ Run(Append(s, n + 1), n + 1)
<1>1. /\ Append(s, n + 1) \in Seq(Nat) /\ Len(Append(s, n + 1)) = Len(s) + 1
      /\ Len(s) \in Nat
  OBVIOUS
<1>2. ASSUME NEW i \in 1..Len(s) + 1
      PROVE  Append(s, n + 1)[i] = n + 1 - (Len(s) + 1) + i
  <2>1. CASE i = Len(s) + 1
    BY <1>1, <2>1
  <2>2. CASE i # Len(s) + 1
    <3>1. i \in 1..Len(s) /\ Append(s, n + 1)[i] = s[i]
      BY <1>1, <2>2
    <3>2. s[i] = n - Len(s) + i
      BY <3>1 DEF Run
    <3> QED
      BY <1>1, <3>1, <3>2
  <2> QED
    BY <2>1, <2>2
<1> QED
  BY <1>1, <1>2 DEF Run

(* The buffer, one chunk later                                             *)
LEMMA KeptIs ==
  ASSUME CaptureTypes, WaitingInv, mic = "waiting", now >= Arm
  PROVE  /\ Kept(now + 1) \in Seq(Nat)
         /\ Len(Kept(now + 1)) =
              IF now + 1 - Arm < Preroll + Hold THEN now + 1 - Arm ELSE Preroll + Hold
         /\ Run(Kept(now + 1), now + 1)
<1>1. /\ now \in Nat /\ Arm \in Nat /\ Preroll + Hold \in Nat \ {0}
      /\ prefix \in Seq(Nat) /\ Len(prefix) \in Nat
  BY CaptureAssumption DEF CaptureTypes
<1>2. Len(prefix) = IF now - Arm < Preroll + Hold THEN now - Arm ELSE Preroll + Hold
  <2>1. CASE now = Arm
    BY <1>1, <2>1 DEF WaitingInv
  <2>2. CASE now > Arm
    BY <1>1, <2>2 DEF WaitingInv
  <2> QED
    BY <1>1, <2>1, <2>2
<1>3. Run(prefix, now)
  BY DEF WaitingInv, Run
<1>4. CASE Len(prefix) = Preroll + Hold
  <2>1. Kept(now + 1) = Append(Tail(prefix), now + 1)
    BY <1>4 DEF Kept
  <2>2. /\ Tail(prefix) \in Seq(Nat) /\ Len(Tail(prefix)) = Len(prefix) - 1
        /\ Run(Tail(prefix), now)
    BY <1>1, <1>3, <1>4, TailOfRun
  <2>3. /\ Kept(now + 1) \in Seq(Nat) /\ Len(Kept(now + 1)) = Len(Tail(prefix)) + 1
        /\ Run(Kept(now + 1), now + 1)
    BY <1>1, <2>1, <2>2, RunGoesOn
  <2> QED
    BY <1>1, <1>2, <1>4, <2>2, <2>3
<1>5. CASE Len(prefix) # Preroll + Hold
  <2>1. Kept(now + 1) = Append(prefix, now + 1)
    BY <1>5 DEF Kept
  <2>2. /\ Kept(now + 1) \in Seq(Nat) /\ Len(Kept(now + 1)) = Len(prefix) + 1
        /\ Run(Kept(now + 1), now + 1)
    BY <1>1, <1>3, <2>1, RunGoesOn
  <2> QED
    BY <1>1, <1>2, <1>5, <2>2
<1> QED
  BY <1>4, <1>5

LEMMA WaitReadsInv ==
  ASSUME CaptureInv, NEW level \in Levels, WaitReads(level)
  PROVE  CaptureInv'
<1>0. /\ CaptureTypes /\ WaitingInv /\ FoundInv /\ SpeechInv
      /\ now \in Nat /\ Arm \in Nat
  BY CaptureAssumption DEF CaptureInv, CaptureTypes
<1>1. CASE now < Arm
  BY <1>0, <1>1 DEF WaitReads, CaptureInv, CaptureTypes, WaitingInv, FoundInv, SpeechInv
<1>2. CASE now >= Arm
  <2>1. /\ prefix' = Kept(now + 1) /\ now' = now + 1 /\ next' = now + 2
        /\ mic = "waiting" /\ UNCHANGED <<out, sent, lost>>
    BY <1>0, <1>2 DEF WaitReads
  <2>2. \/ mic' = "waiting" /\ found' = found
        \/ mic' = "found" /\ found' = now + 1
    <3>1. ~(now < Arm)
      BY <1>0, <1>2
    <3>2. CASE hold' >= Hold
      BY <3>1, <3>2 DEF WaitReads
    <3>3. CASE ~(hold' >= Hold)
      BY <3>1, <3>3 DEF WaitReads
    <3> QED
      BY <3>2, <3>3
  <2>3. /\ prefix' \in Seq(Nat)
        /\ Len(prefix') = IF now + 1 - Arm < Preroll + Hold THEN now + 1 - Arm ELSE Preroll + Hold
        /\ \A i \in 1..Len(prefix') : prefix'[i] = now + 1 - Len(prefix') + i
    BY <1>0, <1>2, <2>1, KeptIs DEF Run
  <2>4. /\ now \in Nat /\ Arm \in Nat /\ Preroll + Hold \in Nat \ {0} /\ found \in Nat
        /\ Len(prefix') \in Nat /\ lost = 0
    BY <1>0, <2>1, <2>3, CaptureAssumption DEF CaptureTypes, WaitingInv
  <2>5. CaptureTypes'
    BY <1>0, <2>1, <2>2, <2>3, <2>4 DEF CaptureTypes
  <2>6. WaitingInv'
    <3>1. now' > Arm /\ next' = now' + 1 /\ lost' = 0
      BY <1>2, <2>1, <2>4
    <3> QED
      BY <2>1, <2>3, <2>4, <3>1 DEF WaitingInv
  <2>7. ASSUME mic' = "found" PROVE FoundInv'
    <3>1. found' = now + 1
      BY <2>2, <2>7
    <3>2. Onset' = now + 2 - Len(prefix') /\ Len(prefix') > 0
      <4>1. Onset' = IF found' - (Preroll + Hold) + 1 > Arm
                     THEN found' - (Preroll + Hold) + 1 ELSE Arm + 1
        BY DEF Onset
      <4>2. CASE now + 1 - Arm < Preroll + Hold
        BY <1>0, <1>2, <2>3, <2>4, <3>1, <4>1, <4>2
      <4>3. CASE ~(now + 1 - Arm < Preroll + Hold)
        BY <1>0, <1>2, <2>3, <2>4, <3>1, <4>1, <4>3
      <4> QED
        BY <4>2, <4>3
    <3>3. ASSUME NEW i \in 1..Len(prefix') PROVE prefix'[i] = Onset' + i - 1
      <4>1. prefix'[i] = now + 1 - Len(prefix') + i
        BY <2>3
      <4> QED
        BY <2>4, <3>2, <4>1
    <3>4. next' = Onset' + Len(prefix') + lost'
      BY <2>1, <2>4, <3>2
    <3> QED
      BY <3>2, <3>3, <3>4 DEF FoundInv
  <2>8. SpeechInv'
    BY <1>0, <2>1, <2>2 DEF SpeechInv
  <2>9. FoundInv'
    BY <2>7 DEF FoundInv
  <2> QED
    BY <2>5, <2>6, <2>8, <2>9 DEF CaptureInv
<1> QED
  BY <1>0, <1>1, <1>2

LEMMA MicRunsInv == CaptureInv /\ MicRunsOn => CaptureInv'
<1> SUFFICES ASSUME CaptureInv, MicRunsOn PROVE CaptureInv'
  OBVIOUS
<1>0. CaptureTypes /\ WaitingInv /\ FoundInv /\ SpeechInv
  BY DEF CaptureInv
<1>1. CaptureTypes'
  BY <1>0, CaptureAssumption DEF CaptureTypes, MicRunsOn
<1>2. /\ UNCHANGED <<mic, prefix, found, out, sent>> /\ mic \in {"found", "reading", "sending"}
      /\ \/ next' = next /\ lost' = lost
         \/ next' = next + 1 /\ lost' = lost + 1
  BY <1>0 DEF MicRunsOn
<1>3. /\ Onset' = Onset /\ Speech' = Speech /\ Onset \in Int /\ Speech \in Seq(Nat)
      /\ Len(Speech) \in Nat /\ next \in Nat /\ lost \in Nat /\ Len(prefix) \in Nat
  BY <1>0, <1>2, CaptureAssumption DEF Onset, Speech, CaptureTypes
<1>4. WaitingInv'
  BY <1>2 DEF WaitingInv
<1>5. FoundInv'
  BY <1>0, <1>2, <1>3 DEF FoundInv
<1>6. ASSUME mic' \in {"reading", "sending", "done"}
      PROVE  /\ Len(Speech) > 0 /\ Speech[1] = Onset
             /\ \A i \in 1..Len(Speech) : Speech[i] < next'
             /\ \A i \in 1..Len(Speech) - 1 : Speech[i] < Speech[i + 1]
             /\ next' = Onset + Len(Speech) + lost'
  <2>1. /\ Len(Speech) > 0 /\ Speech[1] = Onset
        /\ \A i \in 1..Len(Speech) : Speech[i] < next
        /\ \A i \in 1..Len(Speech) - 1 : Speech[i] < Speech[i + 1]
        /\ next = Onset + Len(Speech) + lost
    BY <1>0, <1>2, <1>6 DEF SpeechInv
  <2>2. ASSUME NEW i \in 1..Len(Speech) PROVE Speech[i] < next'
    <3>1. Speech[i] \in Nat /\ Speech[i] < next
      BY <1>3, <2>1
    <3> QED
      BY <1>2, <1>3, <3>1
  <2>3. next' = Onset + Len(Speech) + lost'
    BY <1>2, <1>3, <2>1
  <2> QED
    BY <2>1, <2>2, <2>3
<1>7. SpeechInv'
  BY <1>0, <1>2, <1>3, <1>6 DEF SpeechInv
<1> QED
  BY <1>1, <1>4, <1>5, <1>7 DEF CaptureInv

(* The stream begins with the buffer, which starts at the onset.           *)
LEMMA StreamBeginsInv == CaptureInv /\ StreamBegins => CaptureInv'
<1> SUFFICES ASSUME CaptureInv, StreamBegins PROVE CaptureInv'
  OBVIOUS
<1>0. CaptureTypes /\ FoundInv /\ SpeechInv
  BY DEF CaptureInv
<1>1. /\ UNCHANGED <<now, next, prefix, found, sent, lost>> /\ out' = prefix
      /\ mic = "found" /\ mic' = "sending" /\ sent = <<>>
  BY <1>0 DEF StreamBegins, SpeechInv
<1>2. CaptureTypes'
  BY <1>0, <1>1 DEF CaptureTypes
<1>3. Speech' = prefix /\ Onset' = Onset
  BY <1>0, <1>1 DEF Speech, Onset, CaptureTypes
<1>4. /\ prefix \in Seq(Nat) /\ Len(prefix) \in Nat /\ Len(prefix) > 0
      /\ lost \in Nat /\ Onset \in Int
      /\ \A i \in 1..Len(prefix) : prefix[i] = Onset + i - 1
      /\ next = Onset + Len(prefix) + lost
  BY <1>0, <1>1, CaptureAssumption DEF CaptureTypes, FoundInv, Onset
<1>5. prefix[1] = Onset
  BY <1>4
<1>6. ASSUME NEW i \in 1..Len(prefix) PROVE prefix[i] < next
  <2>1. prefix[i] = Onset + i - 1
    BY <1>4
  <2> QED
    BY <1>4, <2>1
<1>7. ASSUME NEW i \in 1..Len(prefix) - 1 PROVE prefix[i] < prefix[i + 1]
  <2>1. i \in 1..Len(prefix) /\ i + 1 \in 1..Len(prefix)
    BY <1>4
  <2>2. prefix[i] = Onset + i - 1 /\ prefix[i + 1] = Onset + (i + 1) - 1
    BY <1>4, <2>1
  <2> QED
    BY <1>4, <2>2
<1>8. SpeechInv'
  BY <1>1, <1>3, <1>4, <1>5, <1>6, <1>7 DEF SpeechInv
<1> QED
  BY <1>1, <1>2, <1>8 DEF CaptureInv, WaitingInv, FoundInv

(* The next chunk goes behind all that was given to the sink.              *)
LEMMA StreamReadsInv ==
  ASSUME CaptureInv, NEW level \in Levels, StreamReads(level)
  PROVE  CaptureInv'
<1>0. CaptureTypes /\ SpeechInv
  BY DEF CaptureInv
<1>1. /\ UNCHANGED <<now, prefix, found, sent, lost>> /\ out' = <<next>> /\ next' = next + 1
      /\ mic = "reading" /\ mic' = "sending" /\ out = <<>>
  BY <1>0 DEF StreamReads, SpeechInv
<1>2. CaptureTypes'
  BY <1>0, <1>1 DEF CaptureTypes
<1>3. /\ sent \in Seq(Nat) /\ Len(sent) \in Nat /\ next \in Nat /\ lost \in Nat
      /\ Onset' = Onset /\ Onset \in Int
  BY <1>0, <1>1, CaptureAssumption DEF CaptureTypes, Onset
<1>4. Speech = sent /\ Speech' = Append(sent, next)
  BY <1>1, <1>3 DEF Speech
<1>5. /\ Len(sent) > 0 /\ sent[1] = Onset
      /\ \A i \in 1..Len(sent) : sent[i] < next
      /\ \A i \in 1..Len(sent) - 1 : sent[i] < sent[i + 1]
      /\ next = Onset + Len(sent) + lost
  BY <1>0, <1>1, <1>4 DEF SpeechInv
<1> DEFINE longer == Append(sent, next)
<1>6. /\ Len(longer) = Len(sent) + 1 /\ longer[Len(sent) + 1] = next
      /\ \A i \in 1..Len(sent) : longer[i] = sent[i]
  BY <1>3
<1> HIDE DEF longer
<1>7. ASSUME NEW i \in 1..Len(longer) PROVE longer[i] < next + 1
  <2>1. CASE i = Len(sent) + 1
    BY <1>3, <1>6, <2>1
  <2>2. CASE i # Len(sent) + 1
    <3>1. i \in 1..Len(sent) /\ sent[i] \in Nat
      BY <1>3, <1>6, <2>2
    <3>2. longer[i] = sent[i] /\ sent[i] < next
      BY <1>5, <1>6, <3>1
    <3> QED
      BY <1>3, <3>1, <3>2
  <2> QED
    BY <2>1, <2>2
<1>8. ASSUME NEW i \in 1..Len(longer) - 1 PROVE longer[i] < longer[i + 1]
  <2>1. i \in 1..Len(sent) /\ longer[i] = sent[i] /\ sent[i] < next
    BY <1>3, <1>5, <1>6
  <2>2. CASE i = Len(sent)
    BY <1>6, <2>1, <2>2
  <2>3. CASE i # Len(sent)
    <3>1. i \in 1..Len(sent) - 1 /\ i + 1 \in 1..Len(sent)
      BY <1>3, <2>1, <2>3
    <3> QED
      BY <1>5, <1>6, <2>1, <3>1
  <2> QED
    BY <2>2, <2>3
<1>9. Len(longer) > 0 /\ longer[1] = Onset /\ next' = Onset + Len(longer) + lost
  <2>1. 1 \in 1..Len(sent)
    BY <1>3, <1>5
  <2> QED
    BY <1>1, <1>3, <1>5, <1>6, <2>1
<1>10. Speech' = longer
  BY <1>4 DEF longer
<1>11. SpeechInv'
  BY <1>1, <1>3, <1>7, <1>8, <1>9, <1>10 DEF SpeechInv
<1> QED
  BY <1>1, <1>2, <1>11 DEF CaptureInv, WaitingInv, FoundInv

LEMMA SinkTakesInv == CaptureInv /\ SinkTakes => CaptureInv'
<1> SUFFICES ASSUME CaptureInv, SinkTakes PROVE CaptureInv'
  OBVIOUS
<1>0. CaptureTypes /\ SpeechInv
  BY DEF CaptureInv
<1>1. /\ UNCHANGED <<now, next, prefix, found, lost>> /\ sent' = sent \o out /\ out' = <<>>
      /\ mic = "sending" /\ mic' \in {"done", "reading"}
  BY DEF SinkTakes, listener
<1>2. CaptureTypes'
  BY <1>0, <1>1 DEF CaptureTypes
<1>3. Speech' = Speech /\ Onset' = Onset
  BY <1>0, <1>1 DEF CaptureTypes, Speech, Onset
<1>4. SpeechInv'
  BY <1>0, <1>1, <1>3 DEF SpeechInv
<1> QED
  BY <1>1, <1>2, <1>4 DEF CaptureInv, WaitingInv, FoundInv

LEMMA CaptureNextInv == CaptureInv /\ (CaptureNext \/ MicRunsOn \/ CaptureFails) => CaptureInv'
<1> SUFFICES ASSUME CaptureInv, CaptureNext \/ MicRunsOn \/ CaptureFails PROVE CaptureInv'
  OBVIOUS
<1>1. CASE \E level \in Levels : WaitReads(level) \/ StreamReads(level)
  BY <1>1, WaitReadsInv, StreamReadsInv
<1>2. CASE WaitTimesOut \/ CaptureFails
  BY <1>2, ReleasedInv DEF WaitTimesOut, CaptureFails
<1>3. CASE SinkTakes \/ MicRunsOn
  BY <1>3, SinkTakesInv, MicRunsInv
<1> QED
  BY <1>1, <1>2, <1>3 DEF CaptureNext

LEMMA CaptureAlone == CaptureInv /\ UNCHANGED capture => CaptureInv'
BY DEF CaptureInv, CaptureTypes, WaitingInv, FoundInv, SpeechInv, Speech, Onset

LEMMA PipelineCapture == CaptureInv /\ Pipeline => CaptureInv'
<1> SUFFICES ASSUME CaptureInv, Pipeline PROVE CaptureInv'
  OBVIOUS
<1>1. CASE Begins \/ Answered \/ Leaves
  BY <1>1, CaptureAlone DEF Begins, Answered, Leaves
<1>2. CASE Listens
  BY <1>2, CaptureAlone, WaitBeginsInv DEF Listens
<1>3. CASE TurnOpens
  BY <1>3, CaptureAlone, StreamBeginsInv DEF TurnOpens
<1>4. CASE NobodySpoke \/ Recorded \/ ListeningFailed \/ Fails
  BY <1>4, ReleasedInv DEF NobodySpoke, Recorded, ListeningFailed, Fails
<1> QED
  BY <1>1, <1>2, <1>3, <1>4 DEF Pipeline

-----------------------------------------------------------------------------
(* All together                                                            *)

LEMMA InitInv == Init => ListeningInv
<1> SUFFICES ASSUME Init PROVE ListeningInv
  OBVIOUS
<1>1. UserInv
  BY DEF Init, CaptureInit, WakeInit, UserInv, StartPlaces
<1>2. CaptureInv
  BY DEF Init, CaptureInit, CaptureInv, CaptureTypes, WaitingInv, FoundInv, SpeechInv
<1> QED
  BY <1>1, <1>2 DEF ListeningInv

LEMMA NextInv == ListeningInv /\ [Next]_vars => ListeningInv'
<1> SUFFICES ASSUME ListeningInv, [Next]_vars PROVE ListeningInv'
  OBVIOUS
<1>0. UserInv /\ CaptureInv
  BY DEF ListeningInv
<1>1. CASE TriggerSteps
  BY <1>0, <1>1, TriggerInv, CaptureAlone DEF TriggerSteps, ListeningInv
<1>2. CASE FeedSteps \/ FetchSteps \/ WakeElse
  BY <1>0, <1>2, ServiceInv, CaptureAlone DEF FeedSteps, FetchSteps, WakeElse, ListeningInv
<1>3. CASE Loop \/ LongPress
  <2>1. UNCHANGED capture
    BY <1>3 DEF Loop, LongPress, Boots, LoopSets, PressHandled, Reconfigured, PipelineStarts
  <2> QED
    BY <1>0, <1>3, <2>1, LoopInv, CaptureAlone DEF ListeningInv
<1>4. CASE Pipeline
  BY <1>0, <1>4, PipelineInv, PipelineCapture DEF ListeningInv
<1>5. CASE MicSteps \/ MicRuns \/ MicFails
  <2>1. CaptureNext \/ MicRunsOn \/ CaptureFails
    BY <1>5 DEF MicSteps, MicRuns, MicFails
  <2> QED
    BY <1>0, <1>5, <2>1, PipelineInv, CaptureNextInv DEF ListeningInv
<1>6. CASE UNCHANGED vars
  <2>1. UserInv'
    BY <1>0, <1>6 DEF UserInv, StartPlaces
  <2> QED
    BY <1>0, <1>6, <2>1, CaptureAlone DEF ListeningInv
<1> QED
  BY <1>1, <1>2, <1>3, <1>4, <1>5, <1>6 DEF Next

(* Who has the microphone, and what it has recorded, in every reachable    *)
(* state: all of the above. (wake_word_service.c:670, audio_in.c:351)      *)
THEOREM Invariant == Spec => []ListeningInv
<1> QED
  BY InitInv, NextInv, PTL DEF Spec

(* The wake word service and a conversation never have the microphone open *)
(* together, although nobody waits for the service's task when the         *)
(* conversation begins. (wake_word_service.c:670, main.c:2823)             *)
THEOREM OneUser == Spec => []MicHasOneUser
<1>1. ListeningInv => MicHasOneUser
  BY DEF ListeningInv, UserInv, MicHasOneUser
<1> QED
  BY <1>1, Invariant, PTL

(* The recording handed to the server starts at the onset of the speech    *)
(* and misses nothing but what the driver dropped, for every size of the   *)
(* buffer and every delay of the sink. (audio_in.c:351)                    *)
THEOREM Whole == Spec => []SpeechIsWhole
<1>1. ListeningInv => SpeechIsWhole
  <2> SUFFICES ASSUME CaptureTypes, SpeechInv, mic \in {"reading", "sending", "done"}
               PROVE  /\ Speech[1] = Onset
                      /\ \A i \in 1..Len(Speech) - 1 : Speech[i] < Speech[i + 1]
                      /\ next - Onset = Len(Speech) + lost
    BY DEF ListeningInv, CaptureInv, SpeechIsWhole, Speech
  <2>1. Len(Speech) \in Nat /\ lost \in Nat /\ next \in Nat /\ Onset \in Int
    BY CaptureAssumption DEF CaptureTypes, Speech, Onset
  <2> QED
    BY <2>1 DEF SpeechInv
<1> QED
  BY <1>1, Invariant, PTL

-----------------------------------------------------------------------------
(* Types and bounds                                                        *)

(* The limits hold because of where each count is read: a wait that goes   *)
(* on has not heard enough yet, and a question is asked only while one is  *)
(* left.                                                                   *)
CountsInv ==
  /\ mic = "waiting" => hold < Hold
  /\ pipeline = "begun" => asked = 0
  /\ pipeline = "prompting" => asked < MaxQuestions

DialogueType ==
  /\ busy \in BOOLEAN
  /\ pipeline \in {"none", "begun", "prompting", "listening", "answering", "failing", "leaving"}
  /\ asked \in 0..MaxQuestions /\ presses \in 0..MaxPresses

TypeInv == TypeOK /\ CountsInv

LEMMA FaultType == faults \in 0..MaxFaults /\ Fault => faults' \in 0..MaxFaults
BY FaultAssumption DEF Fault

LEMMA StartType ==
  ASSUME WakeType, NEW place \in Places, Start(place), accepting' \in BOOLEAN
  PROVE  WakeType'
<1> USE DEF WakeType, Places
<1>1. CASE AlreadyRuns(place) \/ StartRefused(place)
  BY <1>1 DEF AlreadyRuns, StartRefused, Started, Refused
<1>2. CASE InitFails(place) \/ StartFails(place)
  BY <1>2, FaultType DEF InitFails, StartFails, Refused
<1>3. CASE StartsFeed(place)
  BY <1>3 DEF StartsFeed
<1> QED
  BY <1>1, <1>2, <1>3 DEF Start

LEMMA TriggerType == WakeType /\ Trigger => WakeType'
<1> SUFFICES ASSUME WakeType, Trigger PROVE WakeType'
  OBVIOUS
<1>1. CASE CreatesFetch
  BY <1>1 DEF WakeType, CreatesFetch, Started
<1>2. CASE Aborted \/ Stopped
  <2>1. faults' \in 0..MaxFaults
    BY <1>2, FaultType DEF WakeType, Aborted, Stopped
  <2>2. UNCHANGED <<service, accepting, after>> /\ at' = after
    BY <1>2 DEF Aborted, Refused, Stopped
  <2>3. ready' \in BOOLEAN /\ retry' \in {"due", "later"}
    BY <1>2 DEF WakeType, Aborted, Refused, Stopped
  <2> QED
    BY <2>1, <2>2, <2>3 DEF WakeType
<1>3. CASE PollFinds \/ PollFindsNothing
  BY <1>3 DEF WakeType, Places, PollFinds, PollFindsNothing
<1>4. CASE Restarts
  BY <1>4, StartType DEF WakeType, Places, Restarts
<1> QED
  BY <1>1, <1>2, <1>3, <1>4 DEF Trigger

LEMMA ServiceType ==
  WakeType /\ (Feed \/ Fetch \/ Detects \/ FeedFails \/ RetryDue \/ CreateFails) => WakeType'
BY FaultType DEF WakeType, Feed, FeedSeesStop, FeedCloses, FeedStops, FeedLeaves, Fetch,
                 FetchSeesStop, FetchLeaves, Detects, FeedFails, RetryDue, CreateFails

LEMMA LoopType == TypeInv /\ (Loop \/ LongPress) => WakeType' /\ DialogueType' /\ CountsInv'
<1> SUFFICES ASSUME TypeInv, Loop \/ LongPress PROVE WakeType' /\ DialogueType' /\ CountsInv'
  OBVIOUS
<1>0. WakeType /\ DialogueType /\ CountsInv
  BY DEF TypeInv, TypeOK, DialogueType
<1>1. DialogueType' /\ CountsInv'
  <2>1. CASE Boots \/ LoopSets \/ PressHandled \/ Reconfigured
    <3>1. UNCHANGED <<pipeline, asked, presses, mic, hold>> /\ busy' \in BOOLEAN
      BY <1>0, <2>1 DEF DialogueType, Boots, LoopSets, PressHandled, Reconfigured
    <3> QED
      BY <1>0, <3>1 DEF DialogueType, CountsInv
  <2>2. CASE PipelineStarts
    BY <1>0, <2>2, LoopAssumption DEF DialogueType, CountsInv, PipelineStarts
  <2>3. CASE LongPress
    BY <1>0, <2>3, LoopAssumption DEF DialogueType, CountsInv, LongPress
  <2> QED
    BY <2>1, <2>2, <2>3 DEF Loop
<1> SUFFICES WakeType'
  BY <1>1
<1>2. ASSUME NEW place \in Places, Refuse(place) PROVE WakeType'
  BY <1>0, <1>2 DEF WakeType, Refuse
<1>3. ASSUME NEW place \in Places, Start(place), accepting' = accepting \/ accepting' = TRUE
      PROVE  WakeType'
  <2>1. accepting' \in BOOLEAN
    BY <1>0, <1>3 DEF WakeType
  <2> QED
    BY <1>0, <1>3, <2>1, StartType
<1>4. ASSUME NEW place \in Places, at' = place, UNCHANGED <<service, trigger, after>>,
             UNCHANGED faults \/ Fault
      PROVE  WakeType'
  <2>1. faults' \in 0..MaxFaults
    BY <1>0, <1>4, FaultType DEF WakeType
  <2> QED
    BY <1>0, <1>4, <2>1 DEF WakeType
<1>5. {"idle", "polling", "network", "pressed"} \subseteq Places
  BY DEF Places
<1>6. CASE Boots \/ Reconfigured
  BY <1>3, <1>5, <1>6 DEF Boots, Reconfigured
<1>7. CASE LoopSets
  BY <1>2, <1>3, <1>4, <1>5, <1>7 DEF LoopSets
<1>8. CASE PressHandled
  BY <1>2, <1>4, <1>5, <1>8 DEF PressHandled
<1>9. CASE PipelineStarts \/ LongPress
  BY <1>4, <1>5, <1>9 DEF PipelineStarts, LongPress
<1> QED
  BY <1>6, <1>7, <1>8, <1>9 DEF Loop

LEMMA ReleasedType ==
  ASSUME NEW how \in Returned, Released(how)
  PROVE  CaptureType' /\ mic' # "waiting"
<1>1. mic' \in Calling \cup Returned /\ mic' # "waiting" /\ opened' \in BOOLEAN
  BY DEF Released, Returned
<1>2. /\ now' \in Nat /\ next' \in Nat /\ hold' \in 0..Hold /\ silence' \in Nat
      /\ lost' \in 0..MaxLost /\ found' \in Nat
  BY CaptureAssumption DEF Released
<1>3. prefix' \in Seq(Nat) /\ out' \in Seq(Nat) /\ sent' \in Seq(Nat)
  BY DEF Released
<1> QED
  BY <1>1, <1>2, <1>3 DEF CaptureType

LEMMA MicType ==
  ASSUME CaptureType, mic = "waiting" => hold < Hold, CaptureTypes',
         CaptureNext \/ MicRunsOn \/ CaptureFails
  PROVE  CaptureType' /\ (mic' = "waiting" => hold' < Hold)
<1> USE CaptureAssumption DEF CaptureType, Calling, Returned
<1>1. ASSUME NEW level \in Levels, WaitReads(level)
      PROVE  CaptureType' /\ (mic' = "waiting" => hold' < Hold)
  <2>1. hold' \in 0..Hold /\ (mic' = "waiting" => hold' < Hold)
    BY <1>1 DEF WaitReads
  <2>2. UNCHANGED <<opened, silence, lost>> /\ mic' \in {"waiting", "found"}
    BY <1>1 DEF WaitReads
  <2> QED
    BY <2>1, <2>2 DEF CaptureTypes
<1>2. ASSUME NEW level \in Levels, StreamReads(level)
      PROVE  CaptureType' /\ (mic' = "waiting" => hold' < Hold)
  BY <1>2 DEF StreamReads, CaptureTypes
<1>3. CASE SinkTakes
  BY <1>3 DEF SinkTakes, CaptureTypes
<1>4. CASE WaitTimesOut \/ CaptureFails
  BY <1>4, ReleasedType DEF WaitTimesOut, CaptureFails
<1>5. CASE MicRunsOn
  BY <1>5 DEF MicRunsOn, CaptureTypes
<1> QED
  BY <1>1, <1>2, <1>3, <1>4, <1>5 DEF CaptureNext

LEMMA PipelineType == TypeInv /\ Pipeline => CaptureType' /\ DialogueType' /\ CountsInv'
<1> SUFFICES ASSUME TypeInv, Pipeline PROVE CaptureType' /\ DialogueType' /\ CountsInv'
  OBVIOUS
<1>0. CaptureType /\ DialogueType /\ CountsInv
  BY DEF TypeInv, TypeOK, DialogueType
<1> USE CaptureAssumption, LoopAssumption DEF DialogueType, CountsInv
<1>1. CASE Begins \/ Answered \/ Leaves
  <2>1. UNCHANGED capture /\ CaptureType'
    BY <1>0, <1>1 DEF Begins, Answered, Leaves, CaptureType
  <2>2. UNCHANGED <<asked, presses>> /\ busy' \in BOOLEAN
    BY <1>0, <1>1 DEF Begins, Answered, Leaves
  <2>3. /\ pipeline' \in {"none", "prompting", "failing", "leaving"}
        /\ pipeline' = "prompting" => asked < MaxQuestions
    BY <1>0, <1>1 DEF Begins, Answered, GoesOn, Leaves
  <2> QED
    BY <1>0, <2>1, <2>2, <2>3
<1>2. CASE Listens
  <2>1. CaptureType' /\ (mic' = "waiting" => hold' < Hold)
    <3>1. CASE WaitBegins
      BY <1>0, <3>1 DEF WaitBegins, CaptureType, Calling
    <3>2. CASE UNCHANGED capture
      BY <1>0, <3>2 DEF CaptureType
    <3> QED
      BY <1>2, <3>1, <3>2 DEF Listens
  <2>2. asked' \in 0..MaxQuestions
    BY <1>0, <1>2 DEF Listens
  <2>3. UNCHANGED <<busy, presses>> /\ pipeline' \in {"listening", "failing"}
    BY <1>2 DEF Listens
  <2> QED
    BY <1>0, <2>1, <2>2, <2>3
<1>3. CASE TurnOpens
  BY <1>0, <1>3 DEF TurnOpens, StreamBegins, CaptureType, Calling
<1>4. CASE NobodySpoke \/ Recorded \/ ListeningFailed \/ Fails
  <2>1. CaptureType' /\ mic' # "waiting"
    BY <1>4, ReleasedType DEF NobodySpoke, Recorded, ListeningFailed, Fails, Returned
  <2>2. DialogueType' /\ pipeline' # "begun" /\ (pipeline' = "prompting" => asked' < MaxQuestions)
    BY <1>0, <1>4 DEF NobodySpoke, Recorded, ListeningFailed, Fails, GoesOn
  <2> QED
    BY <2>1, <2>2
<1> QED
  BY <1>1, <1>2, <1>3, <1>4 DEF Pipeline

LEMMA TypeNext == TypeInv /\ CaptureTypes' /\ [Next]_vars => TypeInv'
<1> SUFFICES ASSUME TypeInv, CaptureTypes', [Next]_vars PROVE TypeInv'
  OBVIOUS
<1> SUFFICES CaptureType' /\ WakeType' /\ DialogueType' /\ CountsInv'
  BY DEF TypeInv, TypeOK, DialogueType
<1>0. CaptureType /\ WakeType /\ DialogueType /\ CountsInv
  BY DEF TypeInv, TypeOK, DialogueType
<1>1. ASSUME UNCHANGED capture PROVE CaptureType'
  BY <1>0, <1>1 DEF CaptureType
<1>2. ASSUME UNCHANGED wake PROVE WakeType'
  BY <1>0, <1>2 DEF WakeType
<1>3. ASSUME UNCHANGED <<dialogue, presses>> PROVE DialogueType'
  BY <1>0, <1>3 DEF DialogueType
<1>4. ASSUME UNCHANGED <<capture, dialogue>> PROVE CountsInv'
  BY <1>0, <1>4 DEF CountsInv
<1>5. CASE TriggerSteps \/ FeedSteps \/ FetchSteps \/ WakeElse
  BY <1>0, <1>1, <1>3, <1>4, <1>5, TriggerType, ServiceType
     DEF TriggerSteps, FeedSteps, FetchSteps, WakeElse
<1>6. CASE Loop \/ LongPress
  <2>1. UNCHANGED capture
    BY <1>6 DEF Loop, LongPress, Boots, LoopSets, PressHandled, Reconfigured, PipelineStarts
  <2> QED
    BY <1>1, <1>6, <2>1, LoopType
<1>7. CASE Pipeline
  <2>1. UNCHANGED wake
    BY <1>7 DEF Pipeline, Begins, Listens, NobodySpoke, TurnOpens, Recorded, ListeningFailed,
                Answered, Fails, Leaves
  <2> QED
    BY <1>2, <1>7, <2>1, PipelineType
<1>8. CASE MicSteps \/ MicRuns \/ MicFails
  <2>1. CaptureNext \/ MicRunsOn \/ CaptureFails
    BY <1>8 DEF MicSteps, MicRuns, MicFails
  <2>2. UNCHANGED <<wake, dialogue, presses>>
    BY <1>8 DEF MicSteps, MicRuns, MicFails
  <2>3. CaptureType' /\ (mic' = "waiting" => hold' < Hold)
    BY <1>0, <2>1, MicType DEF CountsInv
  <2>4. CountsInv'
    BY <1>0, <2>2, <2>3 DEF CountsInv
  <2> QED
    BY <1>2, <1>3, <2>2, <2>3, <2>4
<1>9. CASE UNCHANGED vars
  BY <1>1, <1>2, <1>3, <1>4, <1>9
<1> QED
  BY <1>5, <1>6, <1>7, <1>8, <1>9 DEF Next

(* Every state is of the type it was meant to be: nobody is anywhere else, *)
(* and no count passes its limit, the loud chunks in a row, the chunks     *)
(* lost, the questions asked, the faults and the presses.                  *)
THEOREM Typed == Spec => []TypeOK
<1>1. Init => TypeInv
  <2> SUFFICES ASSUME Init PROVE TypeInv
    OBVIOUS
  <2>1. CaptureType
    <3>1. opened \in BOOLEAN /\ mic \in Calling \cup Returned
      BY DEF Init, CaptureInit, Returned
    <3>2. /\ now \in Nat /\ next \in Nat /\ hold \in 0..Hold /\ silence \in Nat
          /\ lost \in 0..MaxLost /\ found \in Nat
      BY CaptureAssumption DEF Init, CaptureInit
    <3>3. prefix \in Seq(Nat) /\ out \in Seq(Nat) /\ sent \in Seq(Nat)
      BY DEF Init, CaptureInit
    <3> QED
      BY <3>1, <3>2, <3>3 DEF CaptureType
  <2>2. WakeType
    <3>1. /\ running \in BOOLEAN /\ stop_requested \in BOOLEAN /\ event_pending \in BOOLEAN
          /\ mic_opened \in BOOLEAN /\ accepting \in BOOLEAN /\ ready \in BOOLEAN
      BY DEF Init, WakeInit
    <3>2. /\ model = "unloaded" /\ feed = "none" /\ fetch = "none" /\ retry = "due"
          /\ at \in Places /\ after \in Places
      BY DEF Init, WakeInit, Places
    <3>3. faults \in 0..MaxFaults
      BY FaultAssumption DEF Init, WakeInit
    <3> QED
      BY <3>1, <3>2, <3>3 DEF WakeType
  <2>3. DialogueType /\ CountsInv
    BY LoopAssumption DEF Init, CaptureInit, DialogueType, CountsInv
  <2> QED
    BY <2>1, <2>2, <2>3 DEF TypeInv, TypeOK, DialogueType
<1>2. ListeningInv' => CaptureTypes'
  BY DEF ListeningInv, CaptureInv
<1>3. ListeningInv' /\ TypeInv /\ [Next]_vars => TypeInv'
  BY <1>2, TypeNext
<1>4. TypeInv => TypeOK
  BY DEF TypeInv
<1> QED
  BY <1>1, <1>3, <1>4, Invariant, PTL DEF Spec
=============================================================================
