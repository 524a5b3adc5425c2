--------------------------- MODULE FirmwareUpdate ---------------------------
(***************************************************************************)
(* How the device updates its firmware (main.c with the boot switch and the *)
(* rollback validation built in): a release is written to the slot that    *)
(* does not run, a record of it is put in NVS key by key, the boot slot is *)
(* switched, and the new firmware, on trial, must mark itself valid before *)
(* a watchdog restarts it or the boot loader goes back to the old one.     *)
(* The power may fail between any two steps; a firmware may be bad, and    *)
(* stop or hang anywhere in its start-up.                                  *)
(* Left out: the label last_stage, and reports that decide nothing. The    *)
(* artifact is content; whatever is wrong with it is a failure.            *)
(***************************************************************************)
EXTENDS Naturals

CONSTANTS
  Releases,  \* what the server offers
  Factory    \* the firmware the device was flashed with

None == "none"

ASSUME FactoryAssumption == Factory \notin Releases
ASSUME NoneAssumption == None \notin Releases \cup {Factory}

VARIABLES
  image,     \* per slot: the release in it, None while it is being written
  state,     \* per slot: its state in otadata
  boot,      \* the slot otadata selects
  record,    \* the NVS namespace ota_p3c: the keys of an update pending
  switched,  \* releases the server has a report with ok = 1 of: switched to, or confirmed
  running,   \* the slot that runs
  runtime,   \* how far app_runtime_task is
  armed,     \* s_ota_rollback_validation_pending
  timer, validating, confirm, update,   \* where the other tasks are
  told,      \* the record the confirm task has read
  offer      \* the release the update task works on

slots    == <<image, state, boot>>
watch    == <<armed, timer>>
updating == <<update, offer>>
vars     == <<slots, record, switched, running, runtime, watch, validating, confirm, told, updating>>

Slots == {"ota_0", "ota_1"}
Other(s) == IF s = "ota_0" THEN "ota_1" ELSE "ota_0"

(* The keys in the order they are written: with "release" goes its version, *)
(* with "slot" its address; "rest" is the checksum.                        *)
Keys == {"pending", "release", "slot", "rest"}
After(k) ==
  CASE k = "pending" -> "release" [] k = "release" -> "slot" [] k = "slot" -> "rest"
    [] k = "rest" -> "switching"

Erased == [k \in Keys |-> None]

(* app_ota_p3c_load_pending finds every key.                               *)
Loadable == \A k \in Keys : record[k] # None

(* The record is of the firmware that runs.                                *)
OfRunning == Loadable /\ record["slot"] = running

SlotStates == {"undefined", "new", "pending_verify", "valid", "aborted"}

SlotType ==
  /\ image \in [Slots -> Releases \cup {Factory, None}]
  /\ state \in [Slots -> SlotStates]
  /\ boot \in Slots /\ running \in Slots

RecordType ==
  /\ record \in [Keys -> Releases \cup Slots \cup {"set", None}]
  /\ record["release"] \in Releases \cup {None} /\ record["slot"] \in Slots \cup {None}
  /\ switched \subseteq Releases
  /\ told.release \in Releases \cup {None} /\ told.slot \in Slots \cup {None}
  /\ offer \in Releases \cup {None}

TaskType ==
  /\ runtime \in {"booting", "network", "audio", "idle", "stopped"}
  /\ timer \in {"none", "waiting", "firing"}
  /\ validating \in {"none", "started", "marked", "cleared"}
  /\ confirm \in {"none", "created", "reporting", "recovering"}
  /\ update \in Keys \cup {"none", "asking", "offered", "writing", "checked", "switching",
                         "switched", "restarting"}

TypeOK == SlotType /\ RecordType /\ TaskType /\ armed \in BOOLEAN

NothingTold == [release |-> None, slot |-> None]

Init ==
  /\ image = [s \in Slots |-> IF s = "ota_0" THEN Factory ELSE None]
  /\ state = [s \in Slots |-> "undefined"]
  /\ boot = "ota_0" /\ record = Erased /\ switched = {}
  /\ running = "ota_0" /\ runtime = "booting"
  /\ armed = FALSE /\ timer = "none"
  /\ validating = "none" /\ confirm = "none" /\ update = "none"
  /\ told = NothingTold /\ offer = None

-----------------------------------------------------------------------------
(* The boot loader: a new firmware is on trial the first time, and aborted *)
(* the second.                                                             *)
Tried(st) ==
  IF st = "new" THEN "pending_verify" ELSE IF st = "pending_verify" THEN "aborted" ELSE st

Booted == [state EXCEPT ![boot] = Tried(@)]

BootChoice == IF Booted[boot] = "aborted" THEN Other(boot) ELSE boot

Reboot ==
  /\ state' = Booted
  /\ running' = BootChoice /\ runtime' = "booting"
  /\ armed' = FALSE /\ timer' = "none"
  /\ validating' = "none" /\ confirm' = "none" /\ update' = "none"
  /\ told' = NothingTold /\ offer' = None
  /\ UNCHANGED <<image, boot, record, switched>>

-----------------------------------------------------------------------------
(* app_runtime_task                                                        *)

(* app_ota_rollback_prepare_before_network                                 *)
Prepare ==
  /\ runtime = "booting"
  /\ runtime' = "network"
  /\ IF OfRunning
     THEN armed' = TRUE /\ timer' = "waiting"
     ELSE UNCHANGED watch
  /\ UNCHANGED <<slots, record, switched, running, validating, confirm, told, updating>>

NetworkStarts ==
  /\ runtime = "network"
  /\ runtime' = "audio" /\ confirm' = "created"
  /\ UNCHANGED <<slots, record, switched, running, watch, validating, told, updating>>

TriggerStarts ==
  /\ runtime = "audio"
  /\ runtime' = "idle"
  /\ UNCHANGED <<slots, record, switched, running, watch, validating, confirm, told, updating>>

(* The start-up fails or hangs.                                            *)
Stops ==
  /\ runtime \in {"booting", "network", "audio"}
  /\ runtime' = "stopped"
  /\ UNCHANGED <<slots, record, switched, running, watch, validating, confirm, told, updating>>

-----------------------------------------------------------------------------
(* The watchdog: app_ota_rollback_validation_timeout_task.                 *)
(* Mutant: it does not restart a firmware whose validation has begun.      *)
TimerTrusts ==
  /\ timer = "waiting"
  /\ timer' = IF armed /\ validating = "none" THEN "firing" ELSE "none"
  /\ UNCHANGED <<slots, record, switched, running, runtime, armed, validating, confirm, told,
                 updating>>

TimerFires ==
  /\ timer = "waiting"
  /\ timer' = IF armed THEN "firing" ELSE "none"
  /\ UNCHANGED <<slots, record, switched, running, runtime, armed, validating, confirm, told,
                 updating>>

TimerRestarts == timer = "firing" /\ Reboot

-----------------------------------------------------------------------------
(* app_ota_rollback_note_business_ready, and the task it starts.           *)
ValidationStarts ==
  /\ runtime = "idle" /\ armed /\ validating = "none"
  /\ validating' = "started"
  /\ UNCHANGED <<slots, record, switched, running, runtime, watch, confirm, told, updating>>

MarkValid ==
  /\ validating = "started"
  /\ state' = [state EXCEPT ![running] = IF @ = "pending_verify" THEN "valid" ELSE @]
  /\ armed' = FALSE /\ validating' = "marked"
  /\ UNCHANGED <<image, boot, record, switched, running, runtime, timer, confirm, told,
                 updating>>

MarkFails ==
  /\ validating = "started"
  /\ validating' = "none"
  /\ UNCHANGED <<slots, record, switched, running, runtime, watch, confirm, told, updating>>

ClearRecord ==
  /\ validating = "marked"
  /\ record' = Erased /\ validating' = "cleared"
  /\ UNCHANGED <<slots, switched, running, runtime, watch, confirm, told, updating>>

(* Accepted, the report has the record cleared once more.                  *)
ReportValidated ==
  /\ validating = "cleared"
  /\ validating' = "none"
  /\ record' \in {record, Erased}
  /\ UNCHANGED <<slots, switched, running, runtime, watch, confirm, told, updating>>

-----------------------------------------------------------------------------
(* app_ota_post_reboot_confirm_if_pending                                  *)
ConfirmLoads ==
  /\ confirm = "created"
  /\ IF Loadable
     THEN /\ confirm' = "reporting"
          /\ told' = [release |-> record["release"], slot |-> record["slot"]]
     ELSE confirm' = "none" /\ UNCHANGED told
  /\ UNCHANGED <<slots, record, switched, running, runtime, watch, validating, updating>>

ConfirmReports ==
  /\ confirm = "reporting"
  /\ \/ /\ told.slot = running
        /\ switched' = switched \cup {told.release}
        /\ confirm' = "none" /\ told' = NothingTold
     \/ told.slot # running /\ confirm' = "recovering" /\ UNCHANGED <<switched, told>>
     \/ confirm' = "none" /\ told' = NothingTold /\ UNCHANGED switched
  /\ UNCHANGED <<slots, record, running, runtime, watch, validating, updating>>

(* The rollback is reported, or not, and forgotten.                        *)
ConfirmRecovers ==
  /\ confirm = "recovering"
  /\ record' = Erased /\ confirm' = "none" /\ told' = NothingTold
  /\ UNCHANGED <<slots, switched, running, runtime, watch, validating, updating>>

-----------------------------------------------------------------------------
(* app_ota_manifest_dry_run_task                                           *)

(* _release_matches: what the device has switched to is not offered again. *)
Offered(r) == r \notin switched

(* app_ota_manifest_idle_ready                                             *)
IdleReady == runtime = "idle" /\ update = "none"

(* app_poll_ota_manifest_dry_run_if_due: the task is created.              *)
AsksManifest ==
  /\ IdleReady
  /\ update' = "asking"
  /\ UNCHANGED <<slots, record, switched, running, runtime, watch, validating, confirm, told, offer>>

(* The answer; the release may be reported as confirmed only now.          *)
GetsOffer(r) ==
  /\ update = "asking" /\ Offered(r)
  /\ update' = "offered" /\ offer' = r
  /\ UNCHANGED <<slots, record, switched, running, runtime, watch, validating, confirm, told>>

(* No answer, no update, or one that cannot be understood.                 *)
GetsNone ==
  /\ update = "asking"
  /\ update' = "none"
  /\ UNCHANGED <<slots, record, switched, running, runtime, watch, validating, confirm, told, offer>>

GivesUp == update' = "none" /\ offer' = None

(* Mutant: the firmware on trial may overwrite the old one.                *)
BeginsOnTrial ==
  /\ update = "offered"
  /\ \/ /\ image' = [image EXCEPT ![Other(running)] = None]
        /\ update' = "writing" /\ UNCHANGED offer
     \/ GivesUp /\ UNCHANGED image
  /\ UNCHANGED <<state, boot, record, switched, running, runtime, watch, validating, confirm,
                 told>>

(* The offer lacks something, or esp_ota_begin refuses: it does while the  *)
(* running firmware is on trial.                                           *)
UpdateBegins ==
  /\ update = "offered"
  /\ \/ /\ state[running] # "pending_verify"
        /\ image' = [image EXCEPT ![Other(running)] = None]
        /\ update' = "writing" /\ UNCHANGED offer
     \/ GivesUp /\ UNCHANGED image
  /\ UNCHANGED <<state, boot, record, switched, running, runtime, watch, validating, confirm,
                 told>>

(* cloud_client_stream_ota_artifact: all of it came, size and checksum are *)
(* right; or not, and the write is aborted.                                *)
Downloads ==
  /\ update = "writing"
  /\ \/ update' = "checked" /\ UNCHANGED offer
     \/ GivesUp
  /\ UNCHANGED <<slots, record, switched, running, runtime, watch, validating, confirm, told>>

(* Mutant: a slot that cannot be completed is not noticed.                 *)
WrittenAnyway ==
  /\ update = "checked"
  /\ image' \in {image, [image EXCEPT ![Other(running)] = offer]}
  /\ update' = "pending"
  /\ UNCHANGED <<state, boot, record, switched, running, runtime, watch, validating, confirm,
                 told, offer>>

(* esp_ota_end: the slot is complete, or the update over.                  *)
Written ==
  /\ update = "checked"
  /\ \/ /\ image' = [image EXCEPT ![Other(running)] = offer]
        /\ update' = "pending" /\ UNCHANGED offer
     \/ GivesUp /\ UNCHANGED image
  /\ UNCHANGED <<state, boot, record, switched, running, runtime, watch, validating, confirm,
                 told>>

Content(k) ==
  CASE k = "release" -> offer [] k = "slot" -> Other(running) [] OTHER -> "set"

(* Mutant: the release is not written if the key is there.                 *)
StoreKeepsRelease ==
  /\ update \in Keys
  /\ \/ /\ record' = IF update = "release" /\ record["release"] # None THEN record
                     ELSE [record EXCEPT ![update] = Content(update)]
        /\ update' = After(update) /\ UNCHANGED offer
     \/ GivesUp /\ UNCHANGED record
  /\ UNCHANGED <<slots, switched, running, runtime, watch, validating, confirm, told>>

(* app_ota_p3c_store_pending, one key after the other.                     *)
StoreKey ==
  /\ update \in Keys
  /\ \/ /\ record' = [record EXCEPT ![update] = Content(update)]
        /\ update' = After(update) /\ UNCHANGED offer
     \/ GivesUp /\ UNCHANGED record
  /\ UNCHANGED <<slots, switched, running, runtime, watch, validating, confirm, told>>

(* esp_ota_set_boot_partition; if it fails, the record is cleared.         *)
SetBoot ==
  /\ update = "switching"
  /\ \/ /\ boot' = Other(running) /\ state' = [state EXCEPT ![Other(running)] = "new"]
        /\ update' = "switched" /\ UNCHANGED <<record, offer>>
     \/ record' = Erased /\ GivesUp /\ UNCHANGED <<boot, state>>
  /\ UNCHANGED <<image, switched, running, runtime, watch, validating, confirm, told>>

(* cloud_client_submit_ota_report: it reaches the server or not, whatever  *)
(* comes back.                                                             *)
Reports(r) == switched' \in {switched, switched \cup {r}}

ReportSwitch ==
  /\ update = "switched"
  /\ update' = "restarting"
  /\ Reports(offer)
  /\ UNCHANGED <<slots, record, running, runtime, watch, validating, confirm, told, offer>>

UpdateRestarts == update = "restarting" /\ Reboot

-----------------------------------------------------------------------------
(* The power fails, at any time.                                           *)
PowerFails == Reboot

Runtime   == Prepare \/ NetworkStarts \/ TriggerStarts \/ Stops
Watchdog  == TimerFires \/ TimerRestarts
Validator == ValidationStarts \/ MarkValid \/ MarkFails \/ ClearRecord \/ ReportValidated
Confirmer == ConfirmLoads \/ ConfirmReports \/ ConfirmRecovers
Updater   == \/ AsksManifest \/ (\E r \in Releases : GetsOffer(r)) \/ GetsNone
             \/ UpdateBegins \/ Downloads \/ Written \/ StoreKey \/ SetBoot \/ ReportSwitch \/ UpdateRestarts

Next == Runtime \/ Watchdog \/ Validator \/ Confirmer \/ Updater \/ PowerFails

(* Only the watchdog must go on: its wait is a delay, and its task does     *)
(* nothing that blocks.                                                    *)
Spec == Init /\ [][Next]_vars /\ WF_vars(Watchdog)

-----------------------------------------------------------------------------
OnTrial(s) == state[s] \in {"new", "pending_verify"}

(* What runs is the slot selected, or the other one because the selected   *)
(* one was aborted or has just been switched to; a firmware on trial has    *)
(* a complete one to go back to.                                           *)
SlotsInv ==
  /\ image[running] # None /\ state[running] \in {"undefined", "valid", "pending_verify"}
  /\ running # boot => state[boot] \in {"new", "aborted"}
  /\ state[running] = "pending_verify" => running = boot
  /\ state[boot] = "pending_verify" => state[Other(boot)] \in {"undefined", "valid"}
  /\ OnTrial(boot) => image[boot] # None /\ image[Other(boot)] # None

(* An update is written beside a firmware that is not on trial; from the   *)
(* moment it stores the record, the other slot holds what it offers.       *)
WhileUpdating ==
  /\ update \notin {"none", "asking", "offered"} => state[running] # "pending_verify"
  /\ state[boot] = "new" <=> update \in {"switched", "restarting"}
  /\ update \notin {"none", "asking"} => offer \in Releases
  /\ update \notin {"none", "asking", "offered", "writing", "checked"}
       => image[Other(running)] = offer
  /\ update \in {"slot", "rest", "switching"} => record["release"] \in {offer, None}

(* What the record says of a firmware on trial is true, or erased.         *)
RecordOfTrial == OnTrial(boot) => record["release"] \in {image[boot], None}

(* What the confirm task is about to report is of some release.            *)
ToldOfRelease == confirm = "reporting" => told.release \in Releases

(* The slots, the record and the tasks agree, whatever the power did.      *)
UpdateInv == TypeOK /\ SlotsInv /\ WhileUpdating /\ RecordOfTrial /\ ToldOfRelease

(* Whenever the device restarts, it finds a complete firmware to run.      *)
AlwaysBoots == image[BootChoice] # None

(* A record that would be taken for the firmware on trial names it: the    *)
(* new firmware never reports itself under another release's name.         *)
TrialIsNamed ==
  OnTrial(boot) /\ Loadable /\ record["slot"] = boot => record["release"] = image[boot]

(* A firmware on trial that the watchdog guards is marked valid or left.   *)
TrialEnds == state[running] = "pending_verify" /\ armed ~> state[running] # "pending_verify"

(* A firmware on trial that goes on with its start-up is guarded.          *)
TrialIsGuarded ==
  state[running] = "pending_verify" /\ runtime \in {"network", "audio", "idle"} => armed
=============================================================================
