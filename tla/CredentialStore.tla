--------------------------- MODULE CredentialStore ---------------------------
(***************************************************************************)
(* The networks the device knows (wifi_credential_store.cc and the list of *)
(* ssid_manager.cc, which always shows the same networks). They are kept   *)
(* in flash twice: a save rewrites the slot not in use, reads it back and  *)
(* only then points to it, so that a power failure or a failed write       *)
(* leaves the device with the old list or with the new one.                *)
(*                                                                         *)
(* The slots are named for their part, as nothing depends on which is 0.   *)
(* A password goes with its network. last_success is only ever compared:   *)
(* `seen' is its rank, 0 for a network never joined.                       *)
(***************************************************************************)
EXTENDS Naturals, Sequences, FiniteSets, Functions, SequencesExt

CONSTANTS
  Ssids,      \* the networks there are
  Capacity,   \* MAX_WIFI_CREDENTIALS
  Build,      \* the network the firmware was built with: {ssid}, or {} for none
  Before      \* a network the device may have joined before

ASSUME StoreAssumption ==
  /\ IsFiniteSet(Ssids) /\ Build \in SUBSET Ssids /\ Cardinality(Build) <= 1 /\ Before \in Ssids
  /\ Capacity \in Nat \ {0}

VARIABLES
  slot,     \* what the slot pointed to and the spare one hold, where they can be read:
            \* a slot may be empty, torn or worn out
  pointed,  \* GetActiveSlot finds a slot
  legacy,   \* the list of an earlier firmware: ReadLegacy
  creds,    \* credentials_
  saving,   \* where PersistLocked is
  prev,     \* the list it goes back to
  acked     \* history: the last list a save succeeded with

flash == <<slot, pointed, legacy>>
store == <<flash, creds, saving, prev, acked>>

Entry == [ssid : Ssids, seen : 0..Capacity]
Lists == {l \in UNION {[1..n -> Entry] : n \in 0..Capacity} :
            \A i, j \in DOMAIN l : l[i].ssid = l[j].ssid => i = j}

StoreType ==
  /\ slot \in UNION {[D -> Lists] : D \in SUBSET {"used", "spare"}}
  /\ pointed \in BOOLEAN /\ legacy \in Lists /\ creds \in Lists /\ prev \in Lists
  /\ saving \in {"none", "erased", "written"}
  /\ acked \in Lists

Named(l)  == {l[i].ssid : i \in DOMAIN l}
Has(l, s) == s \in Named(l)

(* LoadAndMigrate: what the device knows after a restart.                  *)
Readable(s) == pointed /\ s \in DOMAIN slot
Loadable ==
  IF Readable("used") THEN slot["used"]
  ELSE IF Readable("spare") THEN slot["spare"] ELSE legacy

(* A new device, one with the firmware of before the slots, and devices    *)
(* whose flash wears out: the slot in use cannot be read, or neither.      *)
StoreInit ==
  /\ LET one == <<[ssid |-> Before, seen |-> 1]>> IN
       \/ slot = <<>> /\ pointed \in BOOLEAN /\ legacy \in {<<>>, one}
       \/ slot = [spare |-> one] /\ pointed = TRUE /\ legacy = one
  /\ creds = <<>> /\ saving = "none" /\ prev = <<>> /\ acked = Loadable

-----------------------------------------------------------------------------
(* PersistLocked, which whoever saves waits for, and lists are not read    *)
(* meanwhile                                                               *)

(* Mutant: the slot in use is rewritten.                                   *)
TargetInUse == "used"

Target == "spare"

Save(list) ==
  /\ saving = "none"
  /\ creds' = list /\ prev' = creds /\ saving' = "erased"
  /\ slot' = Restrict(slot, DOMAIN slot \ {Target})
  /\ UNCHANGED <<pointed, legacy, acked>>

SaveWrites ==
  /\ saving = "erased"
  /\ slot' = [n \in DOMAIN slot \cup {Target} |-> IF n = Target THEN creds ELSE slot[n]]
  /\ saving' = "written"
  /\ UNCHANGED <<pointed, legacy, creds, prev, acked>>

(* The list before stays in the spare slot; it is not read again.          *)
SaveSwitches ==
  /\ saving = "written"
  /\ pointed' = TRUE /\ acked' = creds /\ saving' = "none" /\ prev' = <<>>
  /\ slot' = [used |-> creds]
  /\ UNCHANGED <<legacy, creds>>

(* A write fails, or what was written reads back wrong. What the spare     *)
(* slot holds matters only while the other cannot be read.                 *)
SaveFails ==
  /\ saving \in {"erased", "written"}
  /\ creds' = prev /\ saving' = "none" /\ prev' = <<>>
  /\ slot' = IF Readable("used") THEN [used |-> slot["used"]] ELSE slot
  /\ UNCHANGED <<pointed, legacy, acked>>

SaveEnds == SaveSwitches \/ SaveFails

-----------------------------------------------------------------------------
(* The lists that are saved                                                *)

New(s) == [ssid |-> s, seen |-> 0]

(* SsidManager::AddSsid and ReplaceFromRuntime: a known network keeps its  *)
(* place and its rank, a new one goes in front of those that fit.          *)
Added(l, s) ==
  IF Has(l, s) THEN l
  ELSE <<New(s)>> \o (IF Len(l) >= Capacity THEN Front(l) ELSE l)

(* SsidManager::RemoveSsid                                                 *)
Removed(l, i) == RemoveAt(l, i)

(* SsidManager::SetDefaultSsid                                             *)
Preferred(l, i) == <<l[i]>> \o RemoveAt(l, i)

(* std::stable_sort, the greatest key first: which place comes k-th.       *)
StableOrder(key) ==
  LET ahead(i) == {j \in DOMAIN key : key[j] > key[i] \/ (key[j] = key[i] /\ j < i)}
  IN [k \in 1..Cardinality(DOMAIN key) |->
        CHOOSE i \in DOMAIN key : Cardinality(ahead(i)) = k - 1]

(* MarkSuccessful: the network joined becomes the newest, and the list is  *)
(* sorted, the latest joined first. The ranks are then counted anew.       *)
Marked(l, s) ==
  LET newest  == Max({e.seen : e \in Range(l)} \cup {0})
      success == [i \in DOMAIN l |-> IF l[i].ssid = s THEN newest + 1 ELSE l[i].seen]
      order   == StableOrder(success)
      joined  == Cardinality({i \in DOMAIN l : success[i] > 0})
  IN [k \in DOMAIN order |->
        [l[order[k]] EXCEPT !.seen = IF k > joined THEN 0 ELSE joined + 1 - k]]

-----------------------------------------------------------------------------
(* LoadAndMigrate                                                          *)

Loaded(list) == creds' = list /\ UNCHANGED <<saving, prev, acked, pointed, legacy>>

LoadsSlot ==
  /\ Readable("used")
  /\ Loaded(slot["used"]) /\ UNCHANGED slot

(* The other slot is read, and pointed to from now on.                     *)
LoadsSpare ==
  /\ ~Readable("used") /\ Readable("spare")
  /\ Loaded(slot["spare"])
  /\ slot' = [used |-> slot["spare"]]

(* The only list is the earlier firmware's: it is saved in the new form.   *)
Migrates ==
  /\ ~Readable("used") /\ ~Readable("spare") /\ legacy # <<>>
  /\ Save(legacy)

LoadsNothing ==
  /\ ~pointed /\ legacy = <<>>
  /\ Loaded(<<>>) /\ UNCHANGED slot

(* Nothing can be read, or the pointer not be written.                     *)
LoadFails ==
  /\ pointed /\ ~Readable("used")
  /\ Readable("spare") \/ legacy = <<>>
  /\ UNCHANGED <<flash, creds, saving, prev, acked>>

(* CanSeedBuildCredentials, and Upsert into the empty list                 *)
CanSeed == creds = <<>> /\ ~pointed /\ legacy = <<>> /\ Build # {}
Seeds   == CanSeed /\ \E s \in Build : Save(<<New(s)>>)

StoreRestarts ==
  /\ creds' = <<>> /\ saving' = "none" /\ prev' = <<>>
  /\ UNCHANGED <<flash, acked>>
=============================================================================
