------------------------------- MODULE Network -------------------------------
(***************************************************************************)
(* Getting the device onto a network and keeping it there (app_network.cc): *)
(* the runtime task connects at start and has the network set up when that *)
(* fails (app_network_start), or again when the user wants another network *)
(* (app_network_reconfigure_blocking); the station's events keep the       *)
(* prompts informed; the outage task has the user told when the network    *)
(* stays away. The power may fail at any moment.                           *)
(*                                                                         *)
(* What the prompt says, and that it is said once, is PromptArbiter's.     *)
(***************************************************************************)
EXTENDS WifiLink

VARIABLES
  at,          \* where the runtime task is
  call,        \* "start", "reconfigure", "late" after its time, "failed", "none"
  CONNECTED, CONFIG_EXIT, OUTAGE_CHANGE,   \* s_network_event_group
  flag,        \* prompt_arbiter_set_network_connected
  suppressed, outage, prompted,   \* s_suppress_runtime_outage, _active, _prompted
  task,        \* where app_network_runtime_outage_task is
  current,     \* at work: the generation it has read is still s_outage_generation
  unnoticed    \* history: the network went while outages were suppressed

bits    == <<CONNECTED, CONFIG_EXIT>>
watch   == <<OUTAGE_CHANGE, suppressed, outage, prompted, current, unnoticed>>
runtime == <<at, call>>
vars    == <<store, radio, runtime, bits, flag, watch, task>>

TypeOK ==
  /\ StoreType /\ LinkType
  /\ at \in {"loading", "migrating", "seeding", "seeded", "deciding", "evicting", "trying",
             "stopping", "stopped", "opening", "switching", "switched", "configuring", "closing",
             "joined", "idle", "halted"}
  /\ call \in {"start", "none", "reconfigure", "late", "failed"}
  /\ {CONNECTED, CONFIG_EXIT, OUTAGE_CHANGE} \subseteq BOOLEAN
  /\ {flag, suppressed, outage, prompted, current, unnoticed} \subseteq BOOLEAN
  /\ task \in {"waiting", "timing", "submitting"}

Init ==
  /\ StoreInit /\ LinkInit
  /\ at = "loading" /\ call = "start"
  /\ CONNECTED = FALSE /\ CONFIG_EXIT = FALSE /\ OUTAGE_CHANGE = FALSE
  /\ flag = FALSE /\ suppressed = FALSE /\ outage = FALSE /\ prompted = FALSE
  /\ task = "waiting" /\ current = FALSE /\ unnoticed = FALSE

(* WifiManager::IsConnected: station_active_ is cleared before the stop.   *)
IsConnected == station # "off" /\ at \notin {"stopping", "switching"} /\ linked

(* WifiTransitionGate: held by the runtime task or by an exit task.        *)
GateFree ==
  /\ at \notin {"evicting", "stopping", "switching", "closing"}
  /\ \A i \in DOMAIN exits : exits[i].at # "closing"

-----------------------------------------------------------------------------
(* Outages: what the callbacks and the runtime task tell the outage task   *)

(* app_network_set_outage_suppressed                                       *)
Suppress(on) ==
  /\ suppressed' = on /\ OUTAGE_CHANGE' = TRUE
  /\ UNCHANGED <<outage, prompted, current, unnoticed>>

(* Mutant: the outage task is not woken.                                   *)
BeginsOutageUnseen ==
  IF suppressed \/ outage
  THEN unnoticed' = (unnoticed \/ ~outage)
       /\ UNCHANGED <<OUTAGE_CHANGE, suppressed, outage, prompted, current>>
  ELSE /\ outage' = TRUE /\ prompted' = FALSE /\ current' = FALSE /\ unnoticed' = FALSE
       /\ UNCHANGED <<OUTAGE_CHANGE, suppressed>>

(* app_network_begin_runtime_outage                                        *)
BeginsOutage ==
  IF suppressed \/ outage
  THEN unnoticed' = (unnoticed \/ ~outage)
       /\ UNCHANGED <<OUTAGE_CHANGE, suppressed, outage, prompted, current>>
  ELSE /\ outage' = TRUE /\ prompted' = FALSE /\ current' = FALSE /\ unnoticed' = FALSE
       /\ OUTAGE_CHANGE' = TRUE /\ UNCHANGED suppressed

(* The Disconnected callback                                               *)
TellsDisconnected ==
  /\ flag' = FALSE /\ CONNECTED' = FALSE
  /\ BeginsOutage

(* The Connected callback, after MarkSuccessful                            *)
TellsConnected ==
  /\ MarkEnds
  /\ flag' = TRUE /\ CONNECTED' = TRUE
  /\ outage' = FALSE /\ unnoticed' = FALSE /\ OUTAGE_CHANGE' = TRUE
  /\ prompted' = (prompted /\ ~outage) /\ current' = (current /\ ~outage)
  /\ UNCHANGED <<ap, runtime, CONFIG_EXIT, suppressed, task>>

Drops ==
  /\ Dropped /\ TellsDisconnected
  /\ UNCHANGED <<store, ap, runtime, CONFIG_EXIT, task>>

-----------------------------------------------------------------------------
(* app_network_runtime_outage_task                                         *)

OutageLooks ==
  /\ task \in {"waiting", "timing"} /\ OUTAGE_CHANGE
  /\ OUTAGE_CHANGE' = FALSE
  /\ IF outage /\ ~suppressed /\ ~prompted
     THEN task' = "timing" /\ current' = TRUE
     ELSE task' = "waiting" /\ current' = FALSE
  /\ UNCHANGED <<store, radio, runtime, bits, flag, suppressed, outage, prompted, unnoticed>>

(* Its time is up; IsConnected is asked without the lock.                  *)
OutageChecks ==
  /\ task = "timing"
  /\ task' = (IF IsConnected THEN "waiting" ELSE "submitting")
  /\ current' = (current /\ ~IsConnected)
  /\ UNCHANGED <<store, radio, runtime, bits, flag, OUTAGE_CHANGE, suppressed, outage, prompted,
                 unnoticed>>

OutageSubmits ==
  /\ task = "submitting"
  /\ task' = "waiting"
  /\ prompted' = (prompted \/ (outage /\ ~suppressed /\ current))
  /\ current' = FALSE
  /\ UNCHANGED <<store, radio, runtime, bits, flag, OUTAGE_CHANGE, suppressed, outage, unnoticed>>

OutageTask == OutageLooks \/ OutageChecks \/ OutageSubmits
-----------------------------------------------------------------------------
(* The runtime task. Unless said otherwise it leaves the rest alone.       *)

Goes(place) == at' = place /\ UNCHANGED call

Elsewhere == <<flag, watch, task>>

(* app_network_ensure_initialized                                          *)
Initialises ==
  /\ at = "loading"
  /\ \/ (LoadsSlot \/ LoadsSpare \/ LoadsNothing) /\ Goes("seeding")
     \/ Migrates /\ Goes("migrating")
     \/ LoadFails /\ Goes("halted")
  /\ UNCHANGED <<radio, bits, Elsewhere>>

Migrated ==
  /\ at = "migrating"
  /\ \/ SaveSwitches /\ Goes("seeding")
     \/ SaveFails /\ Goes("halted")
  /\ UNCHANGED <<radio, bits, Elsewhere>>

(* app_network_seed_build_time_credentials, which ignores a failure        *)
SeedBegins ==
  /\ at = "seeding" /\ Seeds
  /\ Goes("seeded")
  /\ UNCHANGED <<radio, bits, Elsewhere>>

Seeded ==
  /\ \/ at = "seeding" /\ ~CanSeed /\ UNCHANGED store
     \/ at = "seeded" /\ SaveEnds
  /\ Suppress(TRUE)
  /\ Goes("deciding")
  /\ UNCHANGED <<radio, bits, flag, task>>

(* app_network_has_saved_credentials, which waits for a save under way;    *)
(* app_network_try_station_connect forgets what was before and goes to     *)
(* WifiManager::StartStation.                                              *)
Starts ==
  /\ at = "deciding" /\ saving = "none" /\ creds # <<>> /\ GateFree
  /\ CONNECTED' = FALSE /\ CONFIG_EXIT' = FALSE
  /\ \/ portal /\ PortalStops /\ Goes("evicting") /\ UNCHANGED air
     \/ ~portal /\ StationStarts /\ Goes("trying") /\ UNCHANGED ap
  /\ UNCHANGED <<store, Elsewhere>>

(* After the start, no network is a failure of the call.                   *)
Fails == at' = "opening" /\ call' = (IF call = "start" THEN call ELSE "failed")

HasNone ==
  /\ at = "deciding" /\ saving = "none" /\ creds = <<>>
  /\ Fails
  /\ UNCHANGED <<store, radio, bits, Elsewhere>>

Evicts ==
  /\ at = "evicting" /\ form = "idle"
  /\ StationStarts /\ CONFIG_EXIT' = TRUE
  /\ Goes("trying")
  /\ UNCHANGED <<store, ap, CONNECTED, Elsewhere>>

Joins ==
  /\ at = "trying" /\ CONNECTED
  /\ Goes("joined")
  /\ UNCHANGED <<store, radio, bits, Elsewhere>>

(* No candidate, or the time is up: WifiManager::StopStation. The bit that *)
(* tells of no candidate only shortens the wait, so it is left out.        *)
GivesUp ==
  /\ at = "trying" /\ ~CONNECTED /\ GateFree
  /\ Goes("stopping")
  /\ UNCHANGED <<store, radio, bits, Elsewhere>>

Stops ==
  /\ at = "stopping" /\ StationStops
  /\ Goes("stopped")
  /\ UNCHANGED <<store, ap, bits, Elsewhere>>

(* Told as any disconnection; the caller then opens the portal.            *)
Stopped ==
  /\ at = "stopped"
  /\ TellsDisconnected
  /\ Fails
  /\ UNCHANGED <<store, radio, CONFIG_EXIT, task>>

(* At start and when the user asked, the exit is waited for; after a       *)
(* failure the portal is left open and the runtime task goes on.           *)
AfterOpening ==
  IF call = "failed"
  THEN at' = "idle" /\ call' = "none" /\ Suppress(FALSE)
  ELSE Goes("configuring") /\ UNCHANGED watch

(* app_network_enter_config_mode forgets an exit, then                     *)
(* WifiManager::StartConfigAp stops the station if need be.                *)
PortalOpens ==
  /\ at = "opening" /\ GateFree
  /\ CONFIG_EXIT' = FALSE
  /\ \/ portal /\ AfterOpening /\ UNCHANGED ap
     \/ ~portal /\ station = "off" /\ PortalStarts /\ AfterOpening
     \/ ~portal /\ station # "off" /\ Goes("switching") /\ UNCHANGED <<ap, watch>>
  /\ UNCHANGED <<store, air, CONNECTED, flag, task>>

Switches ==
  /\ at = "switching"
  /\ StationStops /\ PortalStarts
  /\ Goes("switched")
  /\ UNCHANGED <<store, bits, Elsewhere>>

Switched ==
  /\ at = "switched"
  /\ TellsDisconnected
  /\ Goes("configuring")
  /\ UNCHANGED <<store, radio, CONFIG_EXIT, task>>

Configured ==
  /\ at = "configuring" /\ CONFIG_EXIT
  /\ CONFIG_EXIT' = FALSE
  /\ Goes("deciding")
  /\ UNCHANGED <<store, radio, CONNECTED, Elsewhere>>

(* Only app_network_reconfigure_blocking stops waiting:                    *)
(* WifiManager::StopConfigAp, which waits for the web server.              *)
TimesOut ==
  /\ at = "configuring" /\ ~CONFIG_EXIT /\ call = "reconfigure" /\ GateFree
  /\ call' = "late"
  /\ \/ portal /\ PortalStops /\ at' = "closing"
     \/ ~portal /\ UNCHANGED ap /\ at' = "deciding"
  /\ UNCHANGED <<store, air, bits, Elsewhere>>

PortalClosed ==
  /\ at = "closing" /\ form = "idle"
  /\ CONFIG_EXIT' = TRUE
  /\ Goes("deciding")
  /\ UNCHANGED <<store, radio, CONNECTED, Elsewhere>>

(* The end of app_network_start and of app_network_reconfigure_blocking    *)
Joined ==
  /\ at = "joined"
  /\ Suppress(FALSE)
  /\ at' = "idle" /\ call' = "none"
  /\ UNCHANGED <<store, radio, bits, flag, task>>

(* The user wants another network.                                         *)
LongPress ==
  /\ at = "idle"
  /\ Suppress(TRUE)
  /\ at' = "opening" /\ call' = "reconfigure"
  /\ UNCHANGED <<store, radio, bits, flag, task>>

Runtime == Initialises \/ Migrated \/ SeedBegins \/ Seeded \/ Starts \/ HasNone \/ Evicts \/ Joins
           \/ GivesUp \/ Stops \/ Stopped \/ PortalOpens \/ Switches \/ Switched \/ Configured
           \/ TimesOut \/ PortalClosed \/ Joined

-----------------------------------------------------------------------------
(* Everyone else                                                           *)

Others == <<runtime, bits, flag, watch, task>>

SaveSteps == SaveWrites /\ UNCHANGED <<radio, Others>>

(* The air: what is seen, joined and lost                                  *)
AirSteps ==
  /\ \/ Found \/ FoundNone \/ ScanUnreadable \/ TriesNext \/ PassEnds \/ LinkLost \/ Rescans
  /\ UNCHANGED <<store, ap, Others>>
AirJoins == GotIp /\ UNCHANGED <<ap, Others>>

Callbacks == TellsConnected \/ Drops

UserSteps == (ExitAsked \/ Submitted) /\ UNCHANGED <<air, Others>>
ListSteps == ListEdited /\ UNCHANGED <<air, Others>>
FormWaits == FormJoins /\ UNCHANGED <<air, Others>>
FormEnds  == (FormGivesUp \/ FormSaved \/ EditEnds) /\ UNCHANGED <<air, Others>>

(* Mutant: the end of the session is only told while it is the current one. *)
ExitTellsCurrent(i) ==
  /\ ExitNotifies(i)
  /\ CONFIG_EXIT' = (CONFIG_EXIT \/ exits[i].fresh)
  /\ UNCHANGED <<store, air, runtime, CONNECTED, Elsewhere>>

(* The ConfigModeExit callback                                             *)
ExitTells(i) ==
  /\ ExitNotifies(i)
  /\ CONFIG_EXIT' = TRUE
  /\ UNCHANGED <<store, air, runtime, CONNECTED, Elsewhere>>

ExitTask(i) ==
  \/ /\ ExitChecks(i) \/ (GateFree /\ ExitEnters(i)) \/ ExitCloses(i)
     /\ UNCHANGED <<store, air, Others>>
  \/ ExitTells(i)

Exits == \E i \in DOMAIN exits : ExitTask(i)

(* Only the flash survives.                                                *)
PowerFails ==
  /\ StoreRestarts /\ LinkRestarts
  /\ at' = "loading" /\ call' = "start"
  /\ CONNECTED' = FALSE /\ CONFIG_EXIT' = FALSE
  /\ OUTAGE_CHANGE' = FALSE /\ flag' = FALSE
  /\ suppressed' = FALSE /\ outage' = FALSE /\ prompted' = FALSE
  /\ task' = "waiting" /\ current' = FALSE /\ unnoticed' = FALSE

Next ==
  \/ Runtime \/ SaveSteps
  \/ AirSteps \/ AirJoins \/ Callbacks
  \/ UserSteps \/ ListSteps \/ FormWaits \/ FormEnds \/ Exits
  \/ OutageTask \/ LongPress \/ PowerFails

(* Every task of the device goes on: waits of the runtime task that have a *)
(* time limit end, so does the wait of the form. Nobody is obliged to use  *)
(* the portal, no network to be there, and the power may stay.             *)
Fairness ==
  /\ WF_vars(Runtime) /\ WF_vars(SaveSteps) /\ WF_vars(Callbacks)
  /\ WF_vars(FormEnds) /\ WF_vars(Exits) /\ WF_vars(OutageTask)

Spec == Init /\ [][Next]_vars /\ Fairness

-----------------------------------------------------------------------------
(* Whenever the power fails, a restart finds the list that was last saved, *)
(* whatever else was being written; and the device works with that list.   *)
(* (wifi_credential_store.cc:314)                                          *)
CredentialsSurvive ==
  /\ Loadable = acked
  /\ saving = "none" /\ at \notin {"loading", "halted"} => creds = acked

(* A wish to leave the portal never closes a later session's portal.       *)
(* (wifi_manager.cc:310)                                                   *)
PortalKeepsItsSession ==
  [][\A i \in DOMAIN exits :
        exits[i].at = "calling" /\ exits'[i].at = "closing" => wanted]_vars

(* What the prompts know of the network is true as soon as nobody is about *)
(* to tell them. (wifi_manager.cc:180, wifi_station.cc:63)                 *)
FlagIsTrue ==
  handler = "idle" /\ at \notin {"stopping", "stopped", "switching", "switched"}
    => flag = IsConnected

(* A network that stays away is told to the user, unless it went while     *)
(* outages were suppressed. (app_network.cc:50)                            *)
OutageIsTold ==
  (at = "idle" /\ ~IsConnected /\ ~unnoticed) ~> (prompted \/ IsConnected \/ at # "idle")

(* Once an exit of the current session is scheduled, the device goes on    *)
(* with what was set up. (wifi_configuration_ap.cc:765, wifi_manager.cc:298) *)
SetupContinues ==
  (at = "configuring" /\ \E i \in DOMAIN exits : exits[i].fresh) ~> (at # "configuring")
=============================================================================
