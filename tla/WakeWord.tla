------------------------------ MODULE WakeWord ------------------------------
(***************************************************************************)
(* How the device is woken: the wake word service (wake_word_service.c),   *)
(* whose feed task reads the microphone and whose fetch task looks for the *)
(* word, and the trigger (trigger_input.c) by which the runtime task       *)
(* starts it, stops it and asks it. They share flags without a lock, on    *)
(* two cores.                                                              *)
(*                                                                         *)
(* The trigger is the default one, the wake word alone. Left out: the      *)
(* direction the voice came from, and the bounce of the key.               *)
(***************************************************************************)
EXTENDS Naturals

CONSTANTS MaxFaults   \* bound: failures of the microphone, of memory, waits given up

ASSUME FaultAssumption == MaxFaults \in Nat

VARIABLES
  running, stop_requested, event_pending, mic_opened,  \* s_wake
  model,     \* the recogniser: "unloaded", "loaded", or "unavailable" for good
  feed,      \* where wake_word_feed_task is; s_wake.feed_task is NULL at "none"
  fetch,     \* where wake_word_fetch_task is, likewise
  accepting, ready, retry,   \* trigger_input_t: retry is "due" or "later"
  at,        \* where the runtime task is
  after,     \* where the call it is in returns to
  faults     \* failures so far

service == <<running, stop_requested, event_pending, mic_opened, model, feed, fetch>>
trigger == <<accepting, ready, retry>>
caller  == <<at, after>>
wake    == <<service, trigger, caller, faults>>

Places == {"booting", "idle", "polling", "restarting", "event", "pressed", "network", "resuming"}

WakeType ==
  /\ running \in BOOLEAN /\ stop_requested \in BOOLEAN /\ event_pending \in BOOLEAN
  /\ mic_opened \in BOOLEAN
  /\ model \in {"unloaded", "loaded", "unavailable"}
  /\ feed \in {"none", "reading", "closing", "closed", "stopped"}
  /\ fetch \in {"none", "fetching", "leaving"}
  /\ accepting \in BOOLEAN /\ ready \in BOOLEAN /\ retry \in {"due", "later"}
  /\ at \in Places \cup {"creating", "aborting", "stopping"} /\ after \in Places
  /\ faults \in 0..MaxFaults

WakeInit ==
  /\ running = FALSE /\ stop_requested = FALSE /\ event_pending = FALSE /\ mic_opened = FALSE
  /\ model = "unloaded" /\ feed = "none" /\ fetch = "none"
  /\ accepting = TRUE /\ ready = FALSE /\ retry = "due"
  /\ at = "booting" /\ after = "idle" /\ faults = 0

Fault == faults < MaxFaults /\ faults' = faults + 1

(* wake_word_service_is_active                                             *)
Active == running \/ feed # "none" \/ fetch # "none" \/ mic_opened

-----------------------------------------------------------------------------
(* wake_word_feed_task                                                     *)

FeedSeesStop ==
  /\ feed = "reading" /\ stop_requested
  /\ feed' = "closing"
  /\ UNCHANGED <<running, stop_requested, event_pending, mic_opened, model, fetch, trigger,
                 caller, faults>>

(* Mutant: the fetch task is not told that nothing is read any more.       *)
FeedFailsAlone ==
  /\ feed = "reading" /\ Fault
  /\ feed' = "closing"
  /\ UNCHANGED <<running, stop_requested, event_pending, mic_opened, model, fetch, trigger, caller>>

(* No memory, or the codec cannot be read.                                 *)
FeedFails ==
  /\ feed = "reading" /\ Fault
  /\ feed' = "closing" /\ stop_requested' = TRUE
  /\ UNCHANGED <<running, event_pending, mic_opened, model, fetch, trigger, caller>>

FeedCloses ==
  /\ feed = "closing"
  /\ mic_opened' = FALSE /\ feed' = "closed"
  /\ UNCHANGED <<running, stop_requested, event_pending, model, fetch, trigger, caller, faults>>

FeedStops ==
  /\ feed = "closed"
  /\ running' = FALSE /\ feed' = "stopped"
  /\ UNCHANGED <<stop_requested, event_pending, mic_opened, model, fetch, trigger, caller, faults>>

FeedLeaves ==
  /\ feed = "stopped"
  /\ feed' = "none"
  /\ UNCHANGED <<running, stop_requested, event_pending, mic_opened, model, fetch, trigger,
                 caller, faults>>

Feed == FeedSeesStop \/ FeedCloses \/ FeedStops \/ FeedLeaves

-----------------------------------------------------------------------------
(* wake_word_fetch_task                                                    *)

(* What was heard before the stop may still be recognised after it.        *)
Detects ==
  /\ fetch = "fetching" /\ model = "loaded"
  /\ event_pending' = TRUE /\ stop_requested' = TRUE /\ fetch' = "leaving"
  /\ UNCHANGED <<running, mic_opened, model, feed, trigger, caller, faults>>

FetchSeesStop ==
  /\ fetch = "fetching" /\ stop_requested
  /\ fetch' = "leaving"
  /\ UNCHANGED <<running, stop_requested, event_pending, mic_opened, model, feed, trigger,
                 caller, faults>>

FetchLeaves ==
  /\ fetch = "leaving"
  /\ fetch' = "none"
  /\ UNCHANGED <<running, stop_requested, event_pending, mic_opened, model, feed, trigger,
                 caller, faults>>

Fetch == FetchSeesStop \/ FetchLeaves

-----------------------------------------------------------------------------
(* wake_word_service_start as trigger_input_start_wake_word calls it, in   *)
(* the runtime task, which then goes on at "place". The caller says what   *)
(* becomes of accepting_events.                                            *)

Started(place) ==
  /\ ready' = TRUE /\ retry' = "due" /\ at' = place

Refused(place) ==
  /\ ready' = FALSE /\ retry' = "later" /\ at' = place

Startable == ~running /\ feed = "none" /\ fetch = "none" /\ ~event_pending

AlreadyRuns(place) ==
  /\ running
  /\ Started(place)
  /\ UNCHANGED <<service, after, faults>>

StartRefused(place) ==
  /\ ~running /\ ~Startable
  /\ Refused(place)
  /\ UNCHANGED <<service, after, faults>>

(* wake_word_init_once fails: it is never tried again.                     *)
InitFails(place) ==
  /\ Startable
  /\ \/ model = "unloaded" /\ Fault
     \/ model = "unavailable" /\ UNCHANGED faults
  /\ model' = "unavailable"
  /\ Refused(place)
  /\ UNCHANGED <<running, stop_requested, event_pending, mic_opened, feed, fetch, after>>

(* The microphone or the feed task: what was opened is closed again.       *)
StartFails(place) ==
  /\ Startable /\ model # "unavailable" /\ Fault
  /\ model' = "loaded"
  /\ Refused(place)
  /\ \/ UNCHANGED stop_requested
     \/ stop_requested' = TRUE
  /\ UNCHANGED <<running, event_pending, mic_opened, feed, fetch, after>>

StartsFeed(place) ==
  /\ Startable /\ model # "unavailable"
  /\ model' = "loaded" /\ mic_opened' = TRUE /\ running' = TRUE
  /\ stop_requested' = FALSE /\ event_pending' = FALSE
  /\ feed' = "reading"
  /\ at' = "creating" /\ after' = place
  /\ UNCHANGED <<fetch, ready, retry, faults>>

Start(place) == \/ AlreadyRuns(place) \/ StartRefused(place)
                \/ InitFails(place) \/ StartFails(place) \/ StartsFeed(place)

CreatesFetch ==
  /\ at = "creating"
  /\ fetch' = "fetching"
  /\ Started(after)
  /\ UNCHANGED <<running, stop_requested, event_pending, mic_opened, model, feed, accepting, after,
                 faults>>

(* No fetch task: the feed task is stopped, and waited for.                *)
CreateFails ==
  /\ at = "creating" /\ Fault
  /\ stop_requested' = TRUE /\ at' = "aborting"
  /\ UNCHANGED <<running, event_pending, mic_opened, model, feed, fetch, trigger, after>>

Aborted ==
  /\ at = "aborting"
  /\ (~Active /\ UNCHANGED faults) \/ (Active /\ Fault)
  /\ Refused(after)
  /\ UNCHANGED <<service, accepting, after>>

-----------------------------------------------------------------------------
(* trigger_input_set_accepting(FALSE): wake_word_service_stop_and_wait.    *)

Refuse(place) ==
  /\ accepting' = FALSE /\ ready' = FALSE /\ retry' = "due"
  /\ stop_requested' = (stop_requested \/ running \/ feed # "none" \/ fetch # "none")
  /\ at' = "stopping" /\ after' = place
  /\ UNCHANGED <<running, event_pending, mic_opened, model, feed, fetch, faults>>

(* It has stopped, or has not within DEMO_WAKE_WORD_STOP_TIMEOUT_MS, and    *)
(* the caller goes on all the same.                                        *)
Stopped ==
  /\ at = "stopping"
  /\ (~Active /\ UNCHANGED faults) \/ (Active /\ Fault)
  /\ at' = after
  /\ UNCHANGED <<service, trigger, after>>

-----------------------------------------------------------------------------
(* trigger_input_poll                                                      *)

(* Mutant: the event is taken while the service still has the microphone.  *)
TakenEarly == event_pending

(* wake_word_service_poll                                                  *)
Taken == event_pending /\ ~running /\ feed = "none" /\ fetch = "none"

PollFinds ==
  /\ at = "polling" /\ accepting /\ Taken
  /\ event_pending' = FALSE /\ at' = "event"
  /\ UNCHANGED <<running, stop_requested, mic_opened, model, feed, fetch, trigger, after, faults>>

PollFindsNothing ==
  /\ at = "polling" /\ ~(accepting /\ Taken)
  /\ at' = IF accepting THEN "restarting" ELSE "idle"
  /\ UNCHANGED <<service, trigger, after, faults>>

(* The service is gone, or was never there: it is started again when due.  *)
Restarts ==
  /\ at = "restarting"
  /\ IF ~Active /\ (ready \/ retry = "due")
     THEN Start("idle") /\ UNCHANGED accepting
     ELSE at' = "idle" /\ UNCHANGED <<service, trigger, after, faults>>

(* DEMO_WAKE_WORD_RETRY_INTERVAL_MS has passed.                            *)
RetryDue ==
  /\ retry = "later"
  /\ retry' = "due"
  /\ UNCHANGED <<service, accepting, ready, caller, faults>>

Trigger == CreatesFetch \/ Aborted \/ Stopped \/ PollFinds \/ PollFindsNothing \/ Restarts

(* The service hears: both tasks go on and nobody has told them to stop.   *)
Hears == running /\ feed = "reading" /\ fetch = "fetching" /\ ~stop_requested
=============================================================================
