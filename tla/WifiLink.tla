------------------------------ MODULE WifiLink ------------------------------
(***************************************************************************)
(* The two ways the radio is used (components/esp-wifi-connect): the       *)
(* station, which looks for the known networks, joins one and looks again  *)
(* when it is lost (wifi_station.cc), and the setup portal, an access      *)
(* point with a web form (wifi_configuration_ap.cc). A manager             *)
(* (wifi_manager.cc) starts and stops them, one transition at a time, and  *)
(* stops the one before it starts the other.                               *)
(*                                                                         *)
(* The station's events are handled one at a time by the event task, a     *)
(* request to the portal by the web server's; whoever closes the portal    *)
(* waits for the request under way, whoever stops the station for the      *)
(* event. The wish to leave the portal is carried out a moment later by a  *)
(* task of its own, which may come too late: the portal has been closed    *)
(* since, and perhaps opened again. Sessions are numbered in the code;     *)
(* here a task knows whether its session is still the current one.         *)
(***************************************************************************)
EXTENDS CredentialStore

CONSTANTS
  Strengths,   \* what a network's signal strength may be, besides not visible
  MaxExits     \* bound: exit tasks at a time

ASSUME LinkAssumption == Strengths \in SUBSET (Nat \ {0}) /\ MaxExits \in Nat

VARIABLES
  station,     \* what the station does; "off" unless station_active_
  queue,       \* connect_queue_, the networks still to try in this pass
  candidate,   \* ssid_ while it matters: {the network being tried}, or {}
  linked,      \* WIFI_EVENT_CONNECTED, the station's own bit
  handler,     \* the callback the event task is in
  portal,      \* config_mode_active_
  form,        \* what the web server's task does
  entered,     \* the network asked for in the form: {ssid} while it is tried
  exits,       \* the scheduled exits: where each is, and whether its session is current
  wanted       \* history: leaving was asked for in this session

air   == <<station, queue, candidate, linked, handler>>
ap    == <<portal, form, entered, exits, wanted>>
radio == <<air, ap>>

NoExit == [at |-> "none", fresh |-> FALSE]

LinkType ==
  /\ station \in {"off", "scanning", "connecting", "online", "lost", "resting"}
  /\ queue \in Seq(Ssids) /\ candidate \in SUBSET Ssids /\ linked \in BOOLEAN
  /\ handler \in {"idle", "marking", "dropping"}
  /\ portal \in BOOLEAN /\ form \in {"idle", "connecting", "saving", "editing"}
  /\ entered \in SUBSET Ssids
  /\ exits \in [1..MaxExits -> [at : {"none", "waiting", "calling", "closing", "leaving"},
                                fresh : BOOLEAN]]
  /\ wanted \in BOOLEAN

LinkInit ==
  /\ station = "off" /\ queue = <<>> /\ candidate = {} /\ linked = FALSE /\ handler = "idle"
  /\ portal = FALSE /\ form = "idle" /\ entered = {} /\ exits = [i \in 1..MaxExits |-> NoExit]
  /\ wanted = FALSE

LinkRestarts ==
  /\ station' = "off" /\ queue' = <<>> /\ candidate' = {} /\ linked' = FALSE /\ handler' = "idle"
  /\ portal' = FALSE /\ form' = "idle" /\ entered' = {}
  /\ exits' = [i \in 1..MaxExits |-> NoExit]
  /\ wanted' = FALSE

-----------------------------------------------------------------------------
(* The station: WifiEventHandler, IpEventHandler, StartScan                *)

(* A scan begins, or cannot and is tried again later.                      *)
Scans == station' \in {"scanning", "resting"}

(* wifi_policy_rank_scan: the visible known networks, the strongest first; *)
(* of equally strong ones, the one further up in the list, whose           *)
(* last_success HandleScanResult makes the greater.                        *)
Ranked(list, heard) ==
  LET visible == {i \in DOMAIN list : heard[list[i].ssid] > 0}
      order   == StableOrder([i \in visible |-> heard[list[i].ssid]])
  IN [k \in DOMAIN order |-> list[order[k]].ssid]

(* StartConnect                                                            *)
Connects(list) ==
  /\ candidate' = {Head(list)} /\ queue' = Tail(list) /\ station' = "connecting"

StationStarts ==
  /\ Scans
  /\ UNCHANGED <<queue, candidate, linked, handler>>

(* HandleScanResult: every visible network is tried twice.                 *)
Found ==
  /\ station = "scanning" /\ handler = "idle"
  /\ \E heard \in [Ssids -> Strengths \cup {0}] :
       LET r == Ranked(creds, heard) IN r # <<>> /\ Connects(r \o r)
  /\ UNCHANGED <<linked, handler>>

FoundNone ==
  /\ station = "scanning" /\ handler = "idle"
  /\ \E heard \in [Ssids -> Strengths \cup {0}] : Ranked(creds, heard) = <<>>
  /\ station' = "resting" /\ queue' = <<>>
  /\ UNCHANGED <<candidate, linked, handler>>

ScanUnreadable ==
  /\ station = "scanning" /\ handler = "idle"
  /\ station' = "resting"
  /\ UNCHANGED <<queue, candidate, linked, handler>>

(* The candidate refuses, or its time is up.                               *)
TriesNext ==
  /\ station = "connecting" /\ handler = "idle" /\ queue # <<>>
  /\ Connects(queue)
  /\ UNCHANGED <<linked, handler>>

PassEnds ==
  /\ station = "connecting" /\ handler = "idle" /\ queue = <<>>
  /\ station' = "resting" /\ candidate' = {}
  /\ UNCHANGED <<queue, linked, handler>>

(* MarkSuccessful is the first thing the Connected callback does; once it  *)
(* has, the network is reported.                                           *)
GotIp ==
  /\ station = "connecting" /\ handler = "idle"
  /\ \E s \in candidate : Save(Marked(creds, s))
  /\ station' = "online" /\ linked' = TRUE /\ queue' = <<>> /\ candidate' = {}
  /\ handler' = "marking"

MarkEnds ==
  /\ handler = "marking" /\ SaveEnds
  /\ handler' = "idle"
  /\ UNCHANGED <<station, queue, candidate, linked>>

LinkLost ==
  /\ station = "online" /\ handler = "idle"
  /\ station' = "lost" /\ linked' = FALSE /\ handler' = "dropping"
  /\ UNCHANGED <<queue, candidate>>

Dropped ==
  /\ handler = "dropping"
  /\ handler' = "idle" /\ Scans
  /\ UNCHANGED <<queue, candidate, linked>>

Rescans ==
  /\ station = "resting"
  /\ station' = "scanning"
  /\ UNCHANGED <<queue, candidate, linked, handler>>

(* Mutant: the station is stopped under a callback that is running.        *)
StopsAnyway ==
  /\ station' = "off" /\ queue' = <<>> /\ candidate' = {} /\ linked' = FALSE
  /\ UNCHANGED handler

(* WifiStation::Stop waits for the callback.                               *)
StationStops ==
  /\ handler = "idle"
  /\ station' = "off" /\ queue' = <<>> /\ candidate' = {} /\ linked' = FALSE
  /\ UNCHANGED handler

-----------------------------------------------------------------------------
(* The portal                                                              *)

(* WifiConfigSession::Stop: no exit scheduled so far is for what follows.  *)
PortalStops ==
  /\ portal' = FALSE
  /\ exits' = [i \in DOMAIN exits |-> [exits[i] EXCEPT !.fresh = FALSE]]
  /\ wanted' = FALSE
  /\ UNCHANGED <<form, entered>>

PortalStarts ==
  /\ portal' = TRUE /\ wanted' = FALSE
  /\ UNCHANGED <<form, entered, exits>>

(* ScheduleExit, of a session that is not being stopped                    *)
Schedules ==
  /\ wanted' = TRUE
  /\ \E i \in DOMAIN exits :
       exits[i].at = "none" /\ exits' = [exits EXCEPT ![i] = [at |-> "waiting", fresh |-> TRUE]]

(* The /exit request                                                       *)
ExitAsked ==
  /\ portal /\ form = "idle"
  /\ Schedules
  /\ UNCHANGED <<portal, form, entered, store>>

(* The /submit request: ConnectToWifi tries the network first.             *)
Submitted ==
  /\ portal /\ form = "idle"
  /\ form' = "connecting"
  /\ \E s \in Ssids : entered' = {s}
  /\ UNCHANGED <<portal, exits, wanted, store>>

(* It is joined, and saved.                                                *)
FormJoins ==
  /\ form = "connecting" /\ portal
  /\ \E s \in entered : Save(Added(creds, s))
  /\ form' = "saving" /\ entered' = {}
  /\ UNCHANGED <<portal, exits, wanted>>

(* It is not, in time, or the portal is being closed.                      *)
FormGivesUp ==
  /\ form = "connecting"
  /\ form' = "idle" /\ entered' = {}
  /\ UNCHANGED <<portal, exits, wanted, store>>

(* ScheduleExit, unless the save failed, the portal is being closed or     *)
(* there is no memory for the task.                                        *)
FormSaved ==
  /\ form = "saving"
  /\ \/ SaveSwitches /\ portal /\ Schedules
     \/ SaveEnds /\ UNCHANGED <<exits, wanted>>
  /\ form' = "idle"
  /\ UNCHANGED <<portal, entered>>

(* The /saved/delete and /saved/set_default requests                       *)
ListEdited ==
  /\ portal /\ form = "idle"
  /\ \E i \in DOMAIN creds : Save(Removed(creds, i)) \/ Save(Preferred(creds, i))
  /\ form' = "editing"
  /\ UNCHANGED <<portal, entered, exits, wanted>>

EditEnds ==
  /\ form = "editing" /\ SaveEnds
  /\ form' = "idle"
  /\ UNCHANGED <<portal, entered, exits, wanted>>

-----------------------------------------------------------------------------
(* An exit task                                                            *)

ExitMoves(i, place) == exits' = [exits EXCEPT ![i] = place]

(* IsCurrent, without the gate                                             *)
ExitChecks(i) ==
  /\ exits[i].at = "waiting"
  /\ ExitMoves(i, IF exits[i].fresh THEN [exits[i] EXCEPT !.at = "calling"] ELSE NoExit)
  /\ UNCHANGED <<portal, form, entered, wanted>>

Closes(i) ==
  /\ portal' = FALSE /\ wanted' = FALSE
  /\ exits' = [j \in DOMAIN exits |->
                 [exits[j] EXCEPT !.fresh = FALSE, !.at = IF j = i THEN "closing" ELSE @]]

(* Mutant: the session is not looked at again under the gate.              *)
ExitEntersOnce(i) ==
  /\ exits[i].at = "calling"
  /\ IF portal THEN Closes(i) ELSE ExitMoves(i, NoExit) /\ UNCHANGED <<portal, wanted>>
  /\ UNCHANGED <<form, entered>>

(* StopConfigApForGeneration, once it has the gate                         *)
ExitEnters(i) ==
  /\ exits[i].at = "calling"
  /\ IF portal /\ exits[i].fresh THEN Closes(i) ELSE ExitMoves(i, NoExit) /\ UNCHANGED <<portal, wanted>>
  /\ UNCHANGED <<form, entered>>

(* The web server is stopped; the gate is given back.                      *)
ExitCloses(i) ==
  /\ exits[i].at = "closing" /\ form = "idle"
  /\ ExitMoves(i, [exits[i] EXCEPT !.at = "leaving"])
  /\ UNCHANGED <<portal, form, entered, wanted>>

ExitNotifies(i) ==
  /\ exits[i].at = "leaving"
  /\ ExitMoves(i, NoExit)
  /\ UNCHANGED <<portal, form, entered, wanted>>
=============================================================================
