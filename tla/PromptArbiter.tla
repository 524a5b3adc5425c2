---------------------------- MODULE PromptArbiter ----------------------------
(***************************************************************************)
(* The prompts the device speaks (prompt_arbiter.c): a table of prompts    *)
(* waiting, the owner task that plays them one at a time, and its callers: *)
(* the conversation, which submits a prompt and waits for it, and the      *)
(* network tasks, whose prompts must neither interrupt a conversation nor  *)
(* tell of a network state that has passed.                                *)
(* A critical section is a step; the notification after it is another.     *)
(***************************************************************************)
EXTENDS Naturals, FiniteSets

CONSTANTS
  Cues,             \* the conversation's prompts, each with its dedupe key
  TechnicalError,   \* the one that ends a failed conversation
  Required,         \* PROMPT_NETWORK_REQUIRED, one per outage
  Recovered,        \* PROMPT_NETWORK_CONNECTED, one per outage
  Capacity          \* PROMPT_ARBITER_CAPACITY

ASSUME CueAssumption == TechnicalError \in Cues
ASSUME KindAssumption ==
  Cues \cap Required = {} /\ Cues \cap Recovered = {} /\ Required \cap Recovered = {}
ASSUME CapacityAssumption == Capacity \in Nat \ {0}

Network == Required \cup Recovered
Prompts == Cues \cup Network
None    == "none"
ASSUME NoneAssumption == None \notin Prompts

Callers == {"main", "wifi", "outage"}

VARIABLES
  table,      \* s_entries in use
  active,     \* s_conversation_active
  connected,  \* s_network_connected
  playing,    \* s_playing_key, None while not s_playing
  last,       \* s_last_result_key and s_last_result
  owner, hand,\* where the owner task is, its entry
  notified,   \* the owner's notification count is not zero
  owes,       \* callers about to call xTaskNotifyGive
  main, awaited, told,   \* the conversation: where it is, its prompt, what it was told
  raised,     \* network prompts submitted
  heard,      \* history: result of the awaited prompt since it was submitted
  late,       \* history: some wait timed out
  due         \* history: network prompts accepted, true ever since, not yet played

arbiter == <<table, playing, last, owner, hand, notified>>
caller  == <<active, connected, owes, main, awaited, told, raised>>
history == <<heard, late, due>>
vars    == <<arbiter, caller, history>>

Result == {"ok", "failed"}

OwnerType ==
  /\ table \subseteq Prompts
  /\ playing \in Prompts \cup {None} /\ hand \in Prompts \cup {None}
  /\ last \in [key : Prompts \cup {None}, result : Result]
  /\ owner \in {"asleep", "taking", "checking", "playing"}

CallerType ==
  /\ owes \subseteq Callers
  /\ main \in {"idle", "active", "waiting", "told"}
  /\ awaited \in Cues \cup {None} /\ told \in Result \cup {"timeout"}
  /\ raised \subseteq Network /\ due \subseteq Network
  /\ heard \in Result \cup {None}

FlagType == active \in BOOLEAN /\ connected \in BOOLEAN /\ notified \in BOOLEAN /\ late \in BOOLEAN

TypeOK == OwnerType /\ CallerType /\ FlagType

Init ==
  /\ table = {} /\ active = FALSE /\ connected = FALSE
  /\ playing = None /\ last = [key |-> None, result |-> "ok"]
  /\ owner = "asleep" /\ hand = None /\ notified = FALSE
  /\ owes = {} /\ main = "idle" /\ awaited = None /\ told = "ok" /\ raised = {}
  /\ heard = None /\ late = FALSE /\ due = {}

-----------------------------------------------------------------------------
(* prompt_id_t: the order in which waiting prompts are played.             *)
Before(p, q) ==
  \/ q = TechnicalError
  \/ q \in Required /\ p # TechnicalError
  \/ q \in Cues /\ p \in Cues \cup Recovered /\ p # TechnicalError
  \/ q \in Recovered /\ p \in Recovered

Relevant(p) == (p \in Required => ~connected) /\ (p \in Recovered => connected)

Deferred(p) == active /\ p \in Network

Playable == {p \in table : Relevant(p) /\ ~Deferred(p)}

PendingInTable(p) == p \in table                                          \* mutant

Pending(p) == p \in table \/ playing = p

-----------------------------------------------------------------------------
(* prompt_arbiter_owner_task                                               *)

OwnerWakes ==
  /\ owner = "asleep" /\ notified
  /\ owner' = "taking" /\ notified' = FALSE /\ hand' = None
  /\ UNCHANGED <<table, playing, last, caller, history>>

(* Mutant: a prompt in the owner's hand is not yet marked as playing.       *)
TakeUnmarked ==
  /\ owner = "taking" /\ Playable # {}
  /\ \E p \in Playable :
       /\ \A q \in Playable : Before(q, p)
       /\ table' = {q \in table : Relevant(q)} \ {p}
       /\ hand' = p
  /\ owner' = "checking"
  /\ UNCHANGED <<playing, last, notified, caller, history>>

(* prompt_arbiter_take_next drops what is no longer relevant.              *)
Take ==
  /\ owner = "taking" /\ Playable # {}
  /\ \E p \in Playable :
       /\ \A q \in Playable : Before(q, p)
       /\ table' = {q \in table : Relevant(q)} \ {p}
       /\ hand' = p /\ playing' = p
  /\ owner' = "checking"
  /\ UNCHANGED <<last, notified, caller, history>>

TakeNothing ==
  /\ owner = "taking" /\ Playable = {}
  /\ table' = {q \in table : Relevant(q)}
  /\ owner' = "asleep"
  /\ UNCHANGED <<playing, last, hand, notified, caller, history>>

(* Mutant: a deferred prompt is dropped instead of put back.               *)
CheckDrops ==
  /\ owner = "checking"
  /\ owner' = IF ~Relevant(hand) THEN "taking"
              ELSE IF Deferred(hand) THEN "asleep" ELSE "playing"
  /\ playing' = IF Relevant(hand) /\ ~Deferred(hand) THEN playing ELSE None
  /\ UNCHANGED <<table, last, hand, notified, caller, history>>

(* The state may have changed since the prompt was taken: a deferred one   *)
(* goes back, if there is room, and the owner sleeps.                      *)
Check ==
  /\ owner = "checking"
  /\ table' = IF Deferred(hand) /\ Cardinality(table) < Capacity
              THEN table \cup {hand} ELSE table
  /\ owner' = IF ~Relevant(hand) THEN "taking"
              ELSE IF Deferred(hand) THEN "asleep" ELSE "playing"
  /\ playing' = IF Relevant(hand) /\ ~Deferred(hand) THEN playing ELSE None
  /\ UNCHANGED <<last, hand, notified, caller, history>>

(* audio_out_play_pcm_buffer returned.                                     *)
PlayEnds ==
  /\ owner = "playing"
  /\ \E r \in Result :
       /\ last' = [key |-> hand, result |-> r]
       /\ heard' = IF hand = awaited THEN r ELSE heard
  /\ playing' = None /\ owner' = "taking"
  /\ due' = due \ {hand}
  /\ UNCHANGED <<table, hand, notified, caller, late>>

-----------------------------------------------------------------------------
(* The callers.                                                            *)

Notify(c) ==
  /\ c \in owes
  /\ notified' = TRUE /\ owes' = owes \ {c}
  /\ UNCHANGED <<table, playing, last, owner, hand, active, connected, main, awaited, told,
                 raised, history>>

(* Mutant: the owner is not notified of a new prompt.                      *)
SubmitQuietly(c, p) ==
  IF Pending(p) \/ Cardinality(table) >= Capacity
  THEN UNCHANGED <<table, owes>>
  ELSE table' = table \cup {p} /\ UNCHANGED owes

(* prompt_arbiter_submit, but for what it returns.                         *)
Submit(c, p) ==
  IF Pending(p) \/ Cardinality(table) >= Capacity
  THEN UNCHANGED <<table, owes>>
  ELSE table' = table \cup {p} /\ owes' = owes \cup {c}

Refused(p) == ~Pending(p) /\ Cardinality(table) >= Capacity

(* app_set_state: a conversation begins ...                                *)
ConversationBegins ==
  /\ main = "idle" /\ "main" \notin owes
  /\ main' = "active" /\ active' = TRUE
  /\ UNCHANGED <<arbiter, connected, owes, awaited, told, raised, history>>

(* app_v6_play_prompt; once something has failed, the prompt that says so. *)
PlayPrompt(p) ==
  /\ main = "active"
  /\ told # "ok" => p = TechnicalError
  /\ Submit("main", p)
  /\ awaited' = p
  /\ told' = IF Refused(p) THEN "failed" ELSE "ok"
  /\ main' = IF Refused(p) THEN "told" ELSE "waiting"
  /\ heard' = None
  /\ UNCHANGED <<playing, last, owner, hand, notified, active, connected, raised, late, due>>

(* prompt_arbiter_wait_key                                                 *)
WaitReturns ==
  /\ main = "waiting" /\ "main" \notin owes /\ ~Pending(awaited)
  /\ told' = IF last.key = awaited THEN last.result ELSE "ok"
  /\ main' = "told"
  /\ UNCHANGED <<arbiter, active, connected, owes, awaited, raised, history>>

WaitTimesOut ==
  /\ main = "waiting" /\ "main" \notin owes /\ Pending(awaited)
  /\ told' = "timeout" /\ late' = TRUE
  /\ main' = "told"
  /\ UNCHANGED <<arbiter, active, connected, owes, awaited, raised, heard, due>>

NextPrompt ==
  /\ main = "told" /\ awaited # TechnicalError
  /\ main' = "active"
  /\ UNCHANGED <<arbiter, active, connected, owes, awaited, told, raised, history>>

EndsQuietly ==                                                            \* mutant
  /\ main = "told" /\ (told = "ok" \/ awaited = TechnicalError)
  /\ main' = "idle" /\ active' = FALSE /\ told' = "ok"
  /\ UNCHANGED <<arbiter, connected, owes, awaited, raised, history>>

(* ... and ends, in IDLE or ERROR.                                         *)
ConversationEnds ==
  /\ main = "told" /\ (told = "ok" \/ awaited = TechnicalError)
  /\ main' = "idle" /\ active' = FALSE /\ told' = "ok"
  /\ owes' = owes \cup {"main"}
  /\ UNCHANGED <<arbiter, connected, awaited, raised, history>>

(* app_network_handle_wifi_event: Connected or Disconnected.               *)
NetworkChanges ==
  /\ "wifi" \notin owes
  /\ connected' = ~connected
  /\ owes' = owes \cup {"wifi"}
  /\ due' = due \ (IF connected THEN Recovered ELSE Required)
  /\ UNCHANGED <<arbiter, active, main, awaited, told, raised, heard, late>>

(* An outage is announced by a task of its own, which looked at the network *)
(* before; its end by the event that ended it.                             *)
AnnounceNetwork(p) ==
  /\ p \in Network \ raised
  /\ \E c \in {"wifi", "outage"} \ owes :
       /\ c = IF p \in Required THEN "outage" ELSE "wifi"
       /\ p \in Recovered => connected
       /\ Submit(c, p)
  /\ raised' = raised \cup {p}
  /\ due' = IF Relevant(p) /\ ~Refused(p) THEN due \cup {p} ELSE due
  /\ UNCHANGED <<playing, last, owner, hand, notified, active, connected, main, awaited,
                 told, heard, late>>

Owner == OwnerWakes \/ Take \/ TakeNothing \/ Check \/ PlayEnds

Main ==
  \/ ConversationBegins \/ (\E p \in Cues : PlayPrompt(p))
  \/ WaitReturns \/ WaitTimesOut \/ NextPrompt \/ ConversationEnds

Next ==
  \/ Owner
  \/ Main
  \/ NetworkChanges
  \/ \E p \in Network : AnnounceNetwork(p)
  \/ \E c \in Callers : Notify(c)

(* The tasks run and a prompt's playback ends; no wait has to time out, and *)
(* nobody has to begin, speak or announce anything.                        *)
Fairness == WF_vars(Owner) /\ WF_vars(WaitReturns) /\ \A c \in Callers : WF_vars(Notify(c))

Spec == Init /\ [][Next]_vars /\ Fairness

-----------------------------------------------------------------------------
(* A prompt waits once: not in the table while it is in the owner's hand,   *)
(* which may put it back, and marked as playing from the moment it is       *)
(* taken, so that it cannot be submitted again.                             *)
OneOfAKind ==
  IF owner \in {"checking", "playing"}
  THEN hand \in Prompts \ table /\ playing = hand
  ELSE playing = None

MainActive == active <=> main # "idle"

InHand(p) == owner \in {"checking", "playing"} /\ hand = p

(* The only prompt of a conversation about is the one it waits for ...      *)
OnlyTheAwaited ==
  \A p \in Cues : p \in table \/ InHand(p) => main = "waiting" /\ p = awaited

(* ... which is pending until it is heard; then the owner has nothing to do, *)
(* the network prompts being put off, and its result is the last one.       *)
PendingUntilHeard ==
  main = "waiting" =>
    IF heard = None
    THEN Pending(awaited)
    ELSE /\ last = [key |-> awaited, result |-> heard]
         /\ owner \in {"asleep", "taking"} /\ awaited \notin table

(* A network prompt was taken when no conversation was on: a prompt of the  *)
(* conversation in the table came later, and its notification is to come.   *)
NotifiedBehind ==
  owner = "checking" /\ hand \in Network /\ table \cap Cues # {} =>
    notified \/ "main" \in owes

DueIsRelevant == \A p \in due : Relevant(p)

(* The state the arbiter and its callers keep together.  Once a wait has    *)
(* timed out the conversation leaves a prompt behind that nobody waits for. *)
ArbiterInv ==
  /\ TypeOK
  /\ OneOfAKind
  /\ MainActive
  /\ DueIsRelevant
  /\ main = "waiting" => awaited \in Cues
  /\ ~late => OnlyTheAwaited /\ PendingUntilHeard /\ NotifiedBehind

(* A network prompt that stays true is not lost, however often the owner    *)
(* takes it and puts it back, if the table has room for the network prompts *)
(* and one of the conversation; until a wait times out.                    *)
NothingLost == ~late => due \subseteq table \cup {playing}

(* A caller that is told its prompt was played has had it played since it  *)
(* asked, whatever was played before or after it; until a wait times out.  *)
WaitTellsTruth == main = "told" /\ told = "ok" /\ ~late => heard = "ok"

(* The owner never sleeps on a prompt it could play: somebody has notified *)
(* it or is about to; until a wait times out.                              *)
NoSleepOverWork ==
  owner = "asleep" /\ ~notified /\ owes = {} /\ ~late => Playable = {}

(* The conversation's prompts are heard without the help of a timeout.     *)
CueIsHeard == main = "waiting" ~> main # "waiting" \/ late

(* A network prompt put off by a conversation is played or out of date     *)
(* once the conversation is over.                                          *)
DeferredIsPlayed == \A p \in Network : p \in table ~> p \notin table \/ active \/ late
==============================================================================
