------------------------ MODULE FirmwareUpdateProofs ------------------------
(***************************************************************************)
(* Proofs about FirmwareUpdate, for every set of releases.                 *)
(***************************************************************************)
EXTENDS FirmwareUpdate, TLAPS

USE DEF vars, slots, watch, updating

LEMMA InitInv == Init => UpdateInv
<1> SUFFICES ASSUME Init PROVE UpdateInv
  OBVIOUS
<1> USE DEF Init
<1>1. SlotType
  BY DEF SlotType, Slots, SlotStates
<1>2. RecordType
  BY DEF RecordType, Erased, Keys, NothingTold
<1>3. TaskType
  BY DEF TaskType
<1>4. armed \in BOOLEAN
  OBVIOUS
<1>5. SlotsInv
  BY FactoryAssumption, NoneAssumption DEF SlotsInv, OnTrial, Slots
<1>6. WhileUpdating /\ RecordOfTrial /\ ToldOfRelease
  BY DEF WhileUpdating, RecordOfTrial, ToldOfRelease, OnTrial, Slots
<1> QED
  BY <1>1, <1>2, <1>3, <1>4, <1>5, <1>6 DEF UpdateInv, TypeOK

-----------------------------------------------------------------------------
(* A restart boots the slot selected, or gives up a firmware on trial and  *)
(* goes back to the other one.                                             *)
LEMMA Restarts ==
  ASSUME SlotType, SlotsInv
  PROVE  /\ Booted \in [Slots -> SlotStates]
         /\ BootChoice \in Slots
         /\ Booted[Other(boot)] = state[Other(boot)]
         /\ Booted[boot] = Tried(state[boot])
         /\ BootChoice = IF Tried(state[boot]) = "aborted" THEN Other(boot) ELSE boot
BY DEF SlotType, SlotsInv, Booted, BootChoice, Tried, Other, Slots, SlotStates

LEMMA RebootInv == UpdateInv /\ Reboot => UpdateInv'
<1> SUFFICES ASSUME UpdateInv, Reboot PROVE UpdateInv'
  OBVIOUS
<1> USE DEF UpdateInv, TypeOK
<1>1. SlotType'
  BY Restarts DEF Reboot, SlotType
<1>2. RecordType'
  BY DEF Reboot, RecordType, NothingTold
<1>3. TaskType'
  BY DEF Reboot, TaskType
<1>4. armed' \in BOOLEAN
  BY Zenon DEF Reboot
<1>5. SlotsInv'
  <2>1. CASE state[boot] = "new"
    BY <2>1, Restarts DEF Reboot, SlotType, SlotsInv, OnTrial, Tried, Other, Slots
  <2>2. CASE state[boot] = "pending_verify"
    BY <2>2, Restarts DEF Reboot, SlotType, SlotsInv, OnTrial, Tried, Other, Slots
  <2>3. CASE state[boot] \notin {"new", "pending_verify"}
    BY <2>3, Restarts DEF Reboot, SlotType, SlotsInv, OnTrial, Tried, Other, Slots
  <2> QED
    BY <2>1, <2>2, <2>3
<1>6. WhileUpdating'
  BY Restarts DEF Reboot, WhileUpdating, Tried, SlotsInv
<1>7. RecordOfTrial'
  BY Restarts DEF Reboot, RecordOfTrial, OnTrial, Tried
<1>8. ToldOfRelease'
  BY DEF Reboot, ToldOfRelease
<1> QED
  BY <1>1, <1>2, <1>3, <1>4, <1>5, <1>6, <1>7, <1>8

-----------------------------------------------------------------------------
(* The start-up and the watchdog change no slot and no record.             *)
LEMMA RuntimeInv == UpdateInv /\ Runtime => UpdateInv'
<1> SUFFICES ASSUME UpdateInv, Runtime PROVE UpdateInv'
  OBVIOUS
<1> USE DEF UpdateInv, TypeOK, Runtime, Prepare, NetworkStarts, TriggerStarts, Stops
<1>1. SlotType' /\ RecordType' /\ TaskType'
  BY DEF SlotType, RecordType, TaskType
<1>2. armed' \in BOOLEAN
  BY Zenon
<1>3. SlotsInv' /\ WhileUpdating' /\ RecordOfTrial' /\ ToldOfRelease'
  BY DEF SlotsInv, WhileUpdating, RecordOfTrial, ToldOfRelease, OnTrial
<1> QED
  BY <1>1, <1>2, <1>3

LEMMA TimerInv == UpdateInv /\ TimerFires => UpdateInv'
<1> SUFFICES ASSUME UpdateInv, TimerFires PROVE UpdateInv'
  OBVIOUS
<1> USE DEF UpdateInv, TypeOK, TimerFires
<1>1. SlotType' /\ RecordType' /\ TaskType'
  BY DEF SlotType, RecordType, TaskType
<1>2. armed' \in BOOLEAN
  BY Zenon
<1>3. SlotsInv' /\ WhileUpdating' /\ RecordOfTrial' /\ ToldOfRelease'
  BY DEF SlotsInv, WhileUpdating, RecordOfTrial, ToldOfRelease, OnTrial
<1> QED
  BY <1>1, <1>2, <1>3

-----------------------------------------------------------------------------
(* A firmware on trial is the one selected, so marking it valid ends the   *)
(* trial of the selected slot.                                             *)
LEMMA MarkValidInv == UpdateInv /\ MarkValid => UpdateInv'
<1> SUFFICES ASSUME UpdateInv, MarkValid PROVE UpdateInv'
  OBVIOUS
<1> USE DEF UpdateInv, TypeOK, MarkValid
<1>1. SlotType'
  BY DEF SlotType, SlotStates, Slots
<1>2. RecordType' /\ TaskType'
  BY DEF RecordType, TaskType
<1>3. armed' \in BOOLEAN
  BY Zenon
<1>4. \/ state' = state
      \/ /\ state[running] = "pending_verify" /\ running = boot
         /\ state'[boot] = "valid" /\ state'[Other(boot)] = state[Other(boot)]
  BY DEF SlotType, SlotsInv, Slots, Other
<1>5. SlotsInv'
  BY <1>4 DEF SlotsInv, OnTrial
<1>6. WhileUpdating'
  BY <1>4 DEF WhileUpdating
<1>7. RecordOfTrial' /\ ToldOfRelease'
  BY <1>4 DEF RecordOfTrial, ToldOfRelease, OnTrial
<1> QED
  BY <1>1, <1>2, <1>3, <1>5, <1>6, <1>7

LEMMA ValidatorInv == UpdateInv /\ Validator => UpdateInv'
<1> SUFFICES ASSUME UpdateInv, Validator, ~MarkValid PROVE UpdateInv'
  BY MarkValidInv
<1> USE DEF UpdateInv, TypeOK, Validator, ValidationStarts, MarkFails, ClearRecord,
            ReportValidated
<1>1. record' \in {record, Erased}
  BY DEF ValidationStarts
<1>2. SlotType' /\ TaskType'
  BY DEF SlotType, TaskType
<1>3. RecordType'
  BY <1>1 DEF RecordType, Erased, Keys
<1>4. armed' \in BOOLEAN
  BY Zenon
<1>5. SlotsInv' /\ ToldOfRelease'
  BY DEF SlotsInv, ToldOfRelease, OnTrial
<1>6. WhileUpdating' /\ RecordOfTrial'
  BY <1>1 DEF WhileUpdating, RecordOfTrial, OnTrial, Erased, Keys
<1> QED
  BY <1>2, <1>3, <1>4, <1>5, <1>6

LEMMA ConfirmerInv == UpdateInv /\ Confirmer => UpdateInv'
<1> SUFFICES ASSUME UpdateInv, Confirmer PROVE UpdateInv'
  OBVIOUS
<1> USE DEF UpdateInv, TypeOK, Confirmer, ConfirmLoads, ConfirmReports, ConfirmRecovers
<1>1. record' \in {record, Erased}
  OBVIOUS
<1>2. SlotType' /\ TaskType'
  BY DEF SlotType, TaskType
<1>3. RecordType'
  BY <1>1 DEF RecordType, Erased, Keys, NothingTold, ToldOfRelease
<1>4. armed' \in BOOLEAN
  BY Zenon
<1>5. SlotsInv'
  BY DEF SlotsInv, OnTrial
<1>6. WhileUpdating' /\ RecordOfTrial'
  BY <1>1 DEF WhileUpdating, RecordOfTrial, OnTrial, Erased, Keys
<1>7. ToldOfRelease'
  BY DEF ToldOfRelease, RecordType, Loadable, Keys
<1> QED
  BY <1>2, <1>3, <1>4, <1>5, <1>6, <1>7

-----------------------------------------------------------------------------
(* While an update works, before the switch, no slot is on trial: the slot *)
(* it writes is not the one the device would go back to.                   *)
LEMMA NotOnTrial ==
  ASSUME UpdateInv, update \notin {"switched", "restarting"},
         state[running] # "pending_verify"
  PROVE  ~OnTrial(boot)
BY DEF UpdateInv, SlotsInv, WhileUpdating, OnTrial

(* Asking the server changes nothing but where the update task is.         *)
LEMMA AskingInv ==
  ASSUME UpdateInv, AsksManifest \/ (\E r \in Releases : GetsOffer(r)) \/ GetsNone
  PROVE  UpdateInv'
<1> USE DEF UpdateInv, TypeOK, AsksManifest, IdleReady, GetsOffer, GetsNone
<1>1. /\ update \in {"none", "asking"} /\ update' \in {"none", "asking", "offered"}
      /\ offer' \in Releases \cup {offer}
      /\ update' = "offered" => offer' \in Releases
  OBVIOUS
<1>2. UNCHANGED <<slots, record, switched, running, runtime, watch, validating, confirm, told>>
  BY Zenon
<1>3. SlotType' /\ RecordType' /\ TaskType'
  BY <1>1, <1>2 DEF SlotType, RecordType, TaskType
<1>4. armed' \in BOOLEAN
  BY <1>2, Zenon
<1>5. SlotsInv'
  BY <1>2 DEF SlotsInv, OnTrial
<1>6. WhileUpdating' /\ RecordOfTrial' /\ ToldOfRelease'
  BY <1>1, <1>2 DEF WhileUpdating, RecordOfTrial, ToldOfRelease, OnTrial, Keys
<1> QED
  BY <1>3, <1>4, <1>5, <1>6

LEMMA BeginsInv == UpdateInv /\ UpdateBegins => UpdateInv'
<1> SUFFICES ASSUME UpdateInv, UpdateBegins PROVE UpdateInv'
  OBVIOUS
<1> USE DEF UpdateInv, TypeOK, UpdateBegins, GivesUp
<1>0. image' # image => ~OnTrial(boot)
  BY NotOnTrial
<1>1. SlotType'
  BY DEF SlotType, Slots
<1>2. RecordType' /\ TaskType'
  BY DEF RecordType, TaskType
<1>3. armed' \in BOOLEAN
  BY Zenon
<1>4. image'[running] = image[running]
  BY DEF SlotType, Slots, Other
<1>5. SlotsInv'
  BY <1>0, <1>4 DEF SlotsInv, OnTrial
<1>6. WhileUpdating'
  BY DEF WhileUpdating
<1>7. RecordOfTrial' /\ ToldOfRelease'
  BY <1>0 DEF RecordOfTrial, ToldOfRelease, OnTrial
<1> QED
  BY <1>1, <1>2, <1>3, <1>5, <1>6, <1>7

LEMMA DownloadsInv == UpdateInv /\ Downloads => UpdateInv'
<1> SUFFICES ASSUME UpdateInv, Downloads PROVE UpdateInv'
  OBVIOUS
<1> USE DEF UpdateInv, TypeOK, Downloads, GivesUp
<1>1. SlotType' /\ RecordType' /\ TaskType'
  BY DEF SlotType, RecordType, TaskType
<1>2. armed' \in BOOLEAN
  BY Zenon
<1>3. SlotsInv' /\ WhileUpdating' /\ RecordOfTrial' /\ ToldOfRelease'
  BY DEF SlotsInv, WhileUpdating, RecordOfTrial, ToldOfRelease, OnTrial
<1> QED
  BY <1>1, <1>2, <1>3

LEMMA WrittenInv == UpdateInv /\ Written => UpdateInv'
<1> SUFFICES ASSUME UpdateInv, Written PROVE UpdateInv'
  OBVIOUS
<1> USE DEF UpdateInv, TypeOK, Written, GivesUp
<1>0. ~OnTrial(boot)
  BY NotOnTrial DEF WhileUpdating
<1>1. SlotType'
  BY DEF SlotType, Slots, WhileUpdating
<1>2. RecordType' /\ TaskType'
  BY DEF RecordType, TaskType, Keys
<1>3. armed' \in BOOLEAN
  BY Zenon
<1>4. /\ image'[running] = image[running]
      /\ update' = "pending" => image'[Other(running)] = offer
  BY DEF SlotType, Slots, Other
<1>5. SlotsInv'
  BY <1>0, <1>4 DEF SlotsInv, OnTrial
<1>6. WhileUpdating' /\ RecordOfTrial' /\ ToldOfRelease'
  BY <1>0, <1>4 DEF WhileUpdating, RecordOfTrial, ToldOfRelease, OnTrial
<1> QED
  BY <1>1, <1>2, <1>3, <1>5, <1>6

LEMMA StoreKeyInv == UpdateInv /\ StoreKey => UpdateInv'
<1> SUFFICES ASSUME UpdateInv, StoreKey PROVE UpdateInv'
  OBVIOUS
<1> USE DEF UpdateInv, TypeOK, StoreKey, GivesUp
<1>0. ~OnTrial(boot)
  BY NotOnTrial DEF WhileUpdating, Keys
<1>1. SlotType'
  BY DEF SlotType
<1>2. /\ update' \in Keys \cup {"none", "switching"}
      /\ update' = "release" => update = "pending"
      /\ update' = "slot" => update = "release"
      /\ update' = "rest" => update = "slot"
      /\ update' = "switching" => update = "rest"
      /\ update' # "pending"
  BY DEF After, Keys
<1>3. TaskType'
  BY <1>2 DEF TaskType
<1>4. /\ record' \in [Keys -> Releases \cup Slots \cup {"set", None}]
      /\ record'["release"] = IF update = "release" /\ update' # "none" THEN offer
                              ELSE record["release"]
      /\ record'["slot"] \in {record["slot"], Other(running)}
  <2>1. CASE update' = "none" /\ record' = record
    BY <2>1 DEF RecordType
  <2>2. CASE update' = After(update) /\ record' = [record EXCEPT ![update] = Content(update)]
    <3>1. Content(update) \in Releases \cup Slots \cup {"set", None}
      BY DEF Content, WhileUpdating, Other, Slots, Keys
    <3>2. update' # "none"
      BY <2>2 DEF After, Keys
    <3>3. record' \in [Keys -> Releases \cup Slots \cup {"set", None}]
      BY <2>2, <3>1 DEF RecordType
    <3>4. /\ record'["release"] = IF update = "release" THEN offer ELSE record["release"]
          /\ record'["slot"] \in {record["slot"], Other(running)}
      BY <2>2 DEF RecordType, Content, Keys
    <3> QED
      BY <3>2, <3>3, <3>4
  <2> QED
    BY <2>1, <2>2
<1>5. RecordType'
  BY <1>4 DEF RecordType, SlotType, Other, Slots, WhileUpdating
<1>6. armed' \in BOOLEAN
  BY Zenon
<1>7. SlotsInv' /\ RecordOfTrial' /\ ToldOfRelease'
  BY <1>0 DEF SlotsInv, RecordOfTrial, ToldOfRelease, OnTrial
<1>8. WhileUpdating'
  BY <1>2, <1>4 DEF WhileUpdating, Keys
<1> QED
  BY <1>1, <1>3, <1>5, <1>6, <1>7, <1>8

LEMMA SetBootInv == UpdateInv /\ SetBoot => UpdateInv'
<1> SUFFICES ASSUME UpdateInv, SetBoot PROVE UpdateInv'
  OBVIOUS
<1> USE DEF UpdateInv, TypeOK, SetBoot, GivesUp
<1>0. ~OnTrial(boot)
  BY NotOnTrial DEF WhileUpdating
<1>1. SlotType'
  BY DEF SlotType, SlotStates, Slots, Other
<1>2. RecordType' /\ TaskType'
  BY DEF RecordType, TaskType, Erased, Keys
<1>3. armed' \in BOOLEAN
  BY Zenon
<1>4. CASE update' = "none"
  BY <1>0, <1>1, <1>2, <1>3, <1>4
     DEF SlotsInv, WhileUpdating, RecordOfTrial, ToldOfRelease, OnTrial
<1>5. CASE update' = "switched"
  <2>1. /\ running \in Slots /\ boot' = Other(running) /\ Other(boot') = running
        /\ boot' # running
        /\ state'[boot'] = "new" /\ state'[running] = state[running]
    BY <1>5 DEF SlotType, Slots, Other
  <2>2. /\ offer \in Releases /\ image[boot'] = offer
        /\ record["release"] \in {offer, None} /\ state[running] # "pending_verify"
    BY <2>1 DEF WhileUpdating
  <2>3. SlotsInv'
    BY <1>5, <2>1, <2>2, NoneAssumption DEF SlotsInv, OnTrial
  <2>4. WhileUpdating'
    BY <1>5, <2>1, <2>2 DEF WhileUpdating
  <2>5. RecordOfTrial' /\ ToldOfRelease'
    BY <1>5, <2>1, <2>2 DEF RecordOfTrial, ToldOfRelease
  <2> QED
    BY <1>1, <1>2, <1>3, <2>3, <2>4, <2>5
<1> QED
  BY <1>1, <1>2, <1>3, <1>4, <1>5

LEMMA ReportSwitchInv == UpdateInv /\ ReportSwitch => UpdateInv'
<1> SUFFICES ASSUME UpdateInv, ReportSwitch PROVE UpdateInv'
  OBVIOUS
<1> USE DEF UpdateInv, TypeOK, ReportSwitch, Reports
<1>1. SlotType' /\ TaskType'
  BY DEF SlotType, TaskType
<1>2. RecordType'
  BY DEF RecordType, WhileUpdating
<1>3. armed' \in BOOLEAN
  BY Zenon
<1>4. SlotsInv' /\ WhileUpdating' /\ RecordOfTrial' /\ ToldOfRelease'
  BY DEF SlotsInv, WhileUpdating, RecordOfTrial, ToldOfRelease, OnTrial
<1> QED
  BY <1>1, <1>2, <1>3, <1>4

-----------------------------------------------------------------------------
LEMMA StepInv == UpdateInv /\ [Next]_vars => UpdateInv'
<1> SUFFICES ASSUME UpdateInv, [Next]_vars PROVE UpdateInv'
  OBVIOUS
<1>1. CASE Runtime
  BY <1>1, RuntimeInv
<1>2. CASE Watchdog
  BY <1>2, TimerInv, RebootInv DEF Watchdog, TimerRestarts
<1>3. CASE Validator
  BY <1>3, ValidatorInv
<1>4. CASE Confirmer
  BY <1>4, ConfirmerInv
<1>5. CASE Updater
  BY <1>5, AskingInv, BeginsInv, DownloadsInv, WrittenInv, StoreKeyInv, SetBootInv,
     ReportSwitchInv, RebootInv
     DEF Updater, UpdateRestarts
<1>6. CASE PowerFails
  BY <1>6, RebootInv DEF PowerFails
<1>7. CASE UNCHANGED vars
  BY <1>7 DEF UpdateInv, TypeOK, SlotType, RecordType, TaskType, SlotsInv,
              WhileUpdating, RecordOfTrial, ToldOfRelease, OnTrial
<1> QED
  BY <1>1, <1>2, <1>3, <1>4, <1>5, <1>6, <1>7 DEF Next

(* UpdateInv holds: slots, record and tasks agree through every crash,      *)
(* rollback and repeated update (otadata and the NVS namespace ota_p3c).   *)
THEOREM Invariant == Spec => []UpdateInv
<1>1. Init => UpdateInv
  BY InitInv
<1>2. UpdateInv /\ [Next]_vars => UpdateInv'
  BY StepInv
<1> QED
  BY <1>1, <1>2, PTL DEF Spec

(* AlwaysBoots holds: whenever the power fails, also while a release is     *)
(* being written or on trial, the boot loader finds a complete firmware.   *)
THEOREM Boots == Spec => []AlwaysBoots
<1>1. UpdateInv => AlwaysBoots
  <2> SUFFICES ASSUME UpdateInv PROVE AlwaysBoots
    OBVIOUS
  <2> USE DEF UpdateInv, TypeOK
  <2>1. CASE OnTrial(boot)
    BY <2>1, Restarts DEF AlwaysBoots, SlotsInv
  <2>2. CASE ~OnTrial(boot)
    BY <2>2, Restarts DEF AlwaysBoots, SlotsInv, SlotType, OnTrial, Tried, Other, Slots
  <2> QED
    BY <2>1, <2>2
<1> QED
  BY <1>1, Invariant, PTL

(* TrialIsNamed holds: what app_ota_p3c_load_pending finds complete for a   *)
(* firmware on trial is that firmware's own release.                       *)
THEOREM Named == Spec => []TrialIsNamed
<1>1. UpdateInv => TrialIsNamed
  BY DEF UpdateInv, RecordOfTrial, TrialIsNamed, Loadable, Keys
<1> QED
  BY <1>1, Invariant, PTL
=============================================================================
