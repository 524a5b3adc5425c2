---------------------------- MODULE NetworkProofs ----------------------------
(***************************************************************************)
(* Proofs about Network, for every set of networks, capacity and number of *)
(* exit tasks.                                                             *)
(***************************************************************************)
EXTENDS Network, TLAPS, FiniteSetTheorems, SequenceTheorems

(* Until the networks known have been loaded nothing else runs.            *)
Early == {"loading", "migrating", "seeding", "seeded", "halted"}

(* Where the station is off, and nobody but the runtime task starts it.    *)
OffPlaces == Early \cup {"deciding", "evicting", "stopped", "switched", "configuring", "closing"}

(* Where the station runs or is about to, and the portal is closed.        *)
StationPlaces == {"evicting", "trying", "stopping", "switching", "joined"}

(* What the flash holds is what was last saved; whoever saves goes back to *)
(* that list when the save fails. The slot in use is readable as soon as   *)
(* the list has been loaded, so that the spare one can be given up.        *)
SavedInv ==
  /\ saving \in {"none", "erased", "written"}
  /\ Loadable = acked
  /\ at \in {"loading", "halted"} => saving = "none"
  /\ at \notin {"loading", "halted"} /\ saving = "none" => creds = acked
  /\ at # "migrating" /\ saving # "none" => prev = acked
  /\ at \notin {"loading", "halted", "migrating"} => Readable("used") \/ ~pointed

(* The earlier firmware's list counts until it is stored in the new form.  *)
MigratingInv ==
  at = "migrating" =>
    /\ saving # "none" /\ creds = legacy /\ acked = legacy
    /\ ~Readable("used")
    /\ Readable("spare") => saving = "written" /\ slot["spare"] = creds

EarlyInv == at \in Early => ~portal /\ form = "idle"

StationInv ==
  /\ IF station = "online" THEN linked = TRUE ELSE linked = FALSE
  /\ handler \in {"idle", "marking", "dropping"}
  /\ handler = "marking" => station = "online"
  /\ handler = "dropping" <=> station = "lost"
  /\ at \in OffPlaces \/ portal => station = "off"
  /\ at \in StationPlaces => ~portal

(* FlagIsTrue, in terms of the station.                                    *)
FlagInv ==
  /\ flag \in BOOLEAN
  /\ handler = "idle" /\ at \notin {"stopping", "stopped", "switching", "switched"} =>
       IF station = "online" THEN flag = TRUE ELSE flag = FALSE

ExitPlaces == {"none", "waiting", "calling", "closing", "leaving"}

(* An exit that is current belongs to the portal that is open, where       *)
(* leaving has been asked for.                                             *)
ExitsInv ==
  /\ exits \in [1..MaxExits -> [at : ExitPlaces, fresh : BOOLEAN]]
  /\ \A i \in 1..MaxExits : exits[i].fresh => portal /\ wanted

NetworkInv ==
  SavedInv /\ MigratingInv /\ EarlyInv /\ StationInv /\ ExitsInv /\ FlagInv

USE DEF vars, store, flash, radio, air, ap, runtime, bits, watch

-----------------------------------------------------------------------------
(* The list in flash                                                       *)

LEMMA StoreAlone ==
  ASSUME SavedInv, MigratingInv, UNCHANGED store,
         at' = at \/ (at \notin Early /\ at' \notin Early)
  PROVE  SavedInv' /\ MigratingInv'
BY DEF SavedInv, MigratingInv, Early, Loadable, Readable

Loading == {"loading", "halted", "migrating"}

LEMMA SaveBegins ==
  ASSUME NEW list, SavedInv, Save(list), at \notin Loading, at' \notin Loading
  PROVE  SavedInv' /\ MigratingInv'
BY DEF SavedInv, MigratingInv, Loading, Loadable, Readable, Save, Target, Restrict

LEMMA SaveGoesOn ==
  ASSUME SavedInv, MigratingInv, SaveWrites, at' = at
  PROVE  SavedInv' /\ MigratingInv'
<1> USE DEF SaveWrites, Target, Readable
<1>1. DOMAIN slot' = DOMAIN slot \cup {"spare"}
  OBVIOUS
<1>2. /\ "used" \in DOMAIN slot => slot'["used"] = slot["used"]
      /\ slot'["spare"] = creds
  OBVIOUS
<1>3. Loadable' = Loadable
  BY <1>1, <1>2 DEF SavedInv, MigratingInv, Loadable
<1> QED
  BY <1>1, <1>2, <1>3 DEF SavedInv, MigratingInv

LEMMA SaveIsOver ==
  ASSUME SavedInv, SaveEnds, at \notin Loading, at' \notin Loading
  PROVE  SavedInv' /\ MigratingInv'
BY DEF SavedInv, MigratingInv, Loading, Loadable, Readable, SaveEnds, SaveSwitches, SaveFails

(* From the restart to the list in hand                                    *)
LEMMA LoadingInv ==
  ASSUME SavedInv, MigratingInv, Initialises \/ Migrated \/ SeedBegins \/ Seeded
  PROVE  SavedInv' /\ MigratingInv'
<1>1. CASE Initialises
  <2> USE DEF Initialises, Goes, SavedInv, MigratingInv, Loadable, Readable
  <2>1. CASE LoadsSlot \/ LoadsSpare \/ LoadsNothing
    BY <1>1, <2>1 DEF LoadsSlot, LoadsSpare, LoadsNothing, Loaded, Migrates, LoadFails, Save
  <2>2. CASE Migrates
    BY <1>1, <2>2 DEF Migrates, Save, Target, Restrict, LoadsSlot, LoadsSpare, LoadsNothing, Loaded,
                      LoadFails
  <2>3. CASE LoadFails
    BY <1>1, <2>3 DEF LoadFails, LoadsSlot, LoadsSpare, LoadsNothing, Loaded, Migrates, Save
  <2> QED
    BY <1>1, <2>1, <2>2, <2>3
<1>2. CASE Migrated
  BY <1>2 DEF Migrated, Goes, SaveSwitches, SaveFails, SavedInv, MigratingInv, Loadable, Readable
<1>3. CASE SeedBegins
  BY <1>3, SaveBegins DEF SeedBegins, Seeds, Goes, Loading
<1>4. CASE Seeded
  <2>1. at \notin Loading /\ at' \notin Loading
    BY <1>4 DEF Seeded, Goes, Loading
  <2>2. CASE UNCHANGED store
    BY <2>1, <2>2 DEF SavedInv, MigratingInv, Loading, Loadable, Readable
  <2> QED
    BY <1>4, <2>1, <2>2, SaveIsOver DEF Seeded
<1> QED
  BY <1>1, <1>2, <1>3, <1>4

(* Whoever else saves does so when the list has been loaded.               *)
LEMMA SavedNext == NetworkInv /\ [Next]_vars => SavedInv' /\ MigratingInv'
<1> SUFFICES ASSUME NetworkInv, [Next]_vars PROVE SavedInv' /\ MigratingInv'
  OBVIOUS
<1> USE DEF NetworkInv
<1>1. CASE Runtime
  <2>1. CASE Initialises \/ Migrated \/ SeedBegins \/ Seeded
    BY <2>1, LoadingInv
  <2>2. CASE Starts \/ HasNone \/ Evicts \/ Joins \/ GivesUp \/ Stops \/ Stopped \/ PortalOpens
             \/ Switches \/ Switched \/ Configured \/ TimesOut \/ PortalClosed \/ Joined
    <3>1. UNCHANGED store /\ at \notin Early /\ at' \notin Early
      BY <2>2 DEF Starts, HasNone, Evicts, Joins, GivesUp, Stops, Stopped, PortalOpens, Switches,
                  Switched, Configured, TimesOut, PortalClosed, Joined, Goes, Fails, AfterOpening,
                  Early
    <3> QED
      BY <3>1, StoreAlone
  <2> QED
    BY <1>1, <2>1, <2>2 DEF Runtime
<1>2. CASE SaveSteps
  BY <1>2, SaveGoesOn DEF SaveSteps, Others
<1>3. CASE AirSteps \/ UserSteps \/ OutageTask
  <2>1. UNCHANGED store /\ at' = at
    BY <1>3 DEF AirSteps, UserSteps, OutageTask, Others, ExitAsked, Submitted, OutageLooks,
                OutageChecks, OutageSubmits
  <2> QED
    BY <2>1, StoreAlone
<1>4. CASE AirJoins
  <2>1. PICK list : Save(list)
    BY <1>4 DEF AirJoins, GotIp
  <2>2. at \notin Loading /\ at' = at
    BY <1>4 DEF AirJoins, GotIp, Others, StationInv, OffPlaces, Early, Loading
  <2> QED
    BY <2>1, <2>2, SaveBegins
<1>5. CASE Callbacks
  <2>1. CASE TellsConnected
    <3>1. SaveEnds /\ at \notin Loading /\ at' = at
      BY <2>1 DEF TellsConnected, MarkEnds, StationInv, OffPlaces, Early, Loading
    <3> QED
      BY <3>1, SaveIsOver
  <2>2. CASE Drops
    BY <2>2, StoreAlone DEF Drops
  <2> QED
    BY <1>5, <2>1, <2>2 DEF Callbacks
<1>6. CASE ListSteps \/ FormWaits
  <2>1. PICK list : Save(list)
    BY <1>6 DEF ListSteps, FormWaits, ListEdited, FormJoins
  <2>2. at \notin Loading /\ at' = at
    BY <1>6 DEF ListSteps, FormWaits, ListEdited, FormJoins, Others, EarlyInv, Early, Loading
  <2> QED
    BY <2>1, <2>2, SaveBegins
<1>7. CASE FormEnds
  <2>1. CASE FormGivesUp
    BY <1>7, <2>1, StoreAlone DEF FormEnds, FormGivesUp, Others
  <2>2. CASE FormSaved \/ EditEnds
    <3>1. SaveEnds /\ at \notin Loading /\ at' = at
      BY <1>7, <2>2 DEF FormEnds, FormSaved, EditEnds, SaveEnds, Others, EarlyInv, Early, Loading
    <3> QED
      BY <3>1, SaveIsOver
  <2> QED
    BY <1>7, <2>1, <2>2 DEF FormEnds
<1>8. CASE Exits
  <2>1. UNCHANGED store /\ at' = at
    BY <1>8 DEF Exits, ExitTask, ExitTells, Others
  <2> QED
    BY <2>1, StoreAlone
<1>9. CASE LongPress
  <2>1. UNCHANGED store /\ at \notin Early /\ at' \notin Early
    BY <1>9 DEF LongPress, Early
  <2> QED
    BY <2>1, StoreAlone
<1>10. CASE PowerFails
  BY <1>10 DEF PowerFails, StoreRestarts, SavedInv, MigratingInv, Loadable, Readable
<1>11. CASE UNCHANGED vars
  BY <1>11, StoreAlone
<1> QED
  BY <1>1, <1>2, <1>3, <1>4, <1>5, <1>6, <1>7, <1>8, <1>9, <1>10, <1>11 DEF Next

-----------------------------------------------------------------------------
(* The radio                                                               *)

LEMMA EarlyNext == NetworkInv /\ [Next]_vars => EarlyInv'
<1> SUFFICES ASSUME NetworkInv, [Next]_vars PROVE EarlyInv'
  OBVIOUS
<1> USE DEF NetworkInv, EarlyInv, Early
<1>1. CASE Runtime
  <2>1. CASE Initialises \/ Migrated \/ SeedBegins \/ Seeded
    BY <2>1 DEF Initialises, Migrated, SeedBegins, Seeded, Goes
  <2>2. CASE Starts \/ HasNone \/ Evicts \/ Joins \/ GivesUp \/ Stops \/ Stopped \/ PortalOpens
             \/ Switches \/ Switched \/ Configured \/ TimesOut \/ PortalClosed \/ Joined
    BY <2>2 DEF Starts, HasNone, Evicts, Joins, GivesUp, Stops, Stopped, PortalOpens, Switches,
                Switched, Configured, TimesOut, PortalClosed, Joined, Goes, Fails, AfterOpening
  <2> QED
    BY <1>1, <2>1, <2>2 DEF Runtime
<1>2. CASE SaveSteps \/ AirSteps \/ AirJoins \/ Callbacks \/ OutageTask
  <2>1. at' = at /\ UNCHANGED ap
    BY <1>2 DEF SaveSteps, AirSteps, AirJoins, Callbacks, OutageTask, Others, TellsConnected, Drops,
                OutageLooks, OutageChecks, OutageSubmits
  <2> QED
    BY <2>1
<1>3. CASE UserSteps \/ ListSteps \/ FormWaits \/ FormEnds
  <2>1. at' = at /\ portal' = portal /\ (portal \/ form # "idle")
    BY <1>3 DEF UserSteps, ListSteps, FormWaits, FormEnds, Others, ExitAsked, Submitted, ListEdited,
                FormJoins, FormGivesUp, FormSaved, EditEnds
  <2> QED
    BY <2>1
<1>4. CASE Exits
  <2>1. at' = at /\ form' = form /\ (portal' = portal \/ portal' = FALSE)
    BY <1>4 DEF Exits, ExitTask, ExitTells, Others, ExitChecks, ExitEnters, Closes, ExitCloses,
                ExitNotifies
  <2> QED
    BY <2>1
<1>5. CASE LongPress \/ PowerFails
  BY <1>5 DEF LongPress, PowerFails, LinkRestarts
<1>6. CASE UNCHANGED vars
  BY <1>6
<1> QED
  BY <1>1, <1>2, <1>3, <1>4, <1>5, <1>6 DEF Next

(* The runtime task starts the station only where it is off and the portal *)
(* closed, and opens the portal only after it has stopped the station.     *)
LEMMA StationNext == NetworkInv /\ [Next]_vars => StationInv'
<1> SUFFICES ASSUME NetworkInv, [Next]_vars PROVE StationInv'
  OBVIOUS
<1> USE DEF NetworkInv, StationInv, OffPlaces, StationPlaces, Early
<1>1. CASE Runtime
  <2> USE DEF Goes
  <2>1. CASE Initialises \/ Migrated \/ SeedBegins \/ Seeded
    BY <2>1 DEF Initialises, Migrated, SeedBegins, Seeded
  <2>2. CASE Starts \/ HasNone \/ Evicts \/ Joins
    BY <2>2 DEF Starts, HasNone, Evicts, Joins, Fails, StationStarts, Scans, PortalStops
  <2>3. CASE GivesUp \/ Stopped \/ Configured \/ PortalClosed \/ Joined
    BY <2>3 DEF GivesUp, Stopped, Configured, PortalClosed, Joined, Fails, Suppress, Elsewhere
  <2>4. CASE Stops
    BY <2>4 DEF Stops, StationStops, Elsewhere
  <2>5. CASE PortalOpens
    BY <2>5 DEF PortalOpens, AfterOpening, PortalStarts, Suppress
  <2>6. CASE Switches \/ Switched
    BY <2>6 DEF Switches, Switched, StationStops, PortalStarts
  <2>7. CASE TimesOut
    BY <2>7 DEF TimesOut, PortalStops
  <2> QED
    BY <1>1, <2>1, <2>2, <2>3, <2>4, <2>5, <2>6, <2>7 DEF Runtime
<1>2. CASE SaveSteps \/ UserSteps \/ ListSteps \/ FormWaits \/ FormEnds \/ OutageTask
  <2>1. at' = at /\ UNCHANGED air /\ portal' = portal
    BY <1>2 DEF SaveSteps, UserSteps, ListSteps, FormWaits, FormEnds, OutageTask, Others,
                ExitAsked, Submitted, ListEdited, FormJoins, FormGivesUp, FormSaved, EditEnds,
                OutageLooks, OutageChecks, OutageSubmits
  <2> QED
    BY <2>1
<1>3. CASE AirSteps \/ AirJoins
  BY <1>3 DEF AirSteps, AirJoins, Others, Found, FoundNone, ScanUnreadable, TriesNext, PassEnds,
              LinkLost, Rescans, Connects, GotIp
<1>4. CASE Callbacks
  BY <1>4 DEF Callbacks, TellsConnected, MarkEnds, Drops, Dropped, Scans
<1>5. CASE Exits
  <2>1. at' = at /\ UNCHANGED air /\ (portal' = portal \/ portal' = FALSE)
    BY <1>5 DEF Exits, ExitTask, ExitTells, Others, ExitChecks, ExitEnters, Closes, ExitCloses,
                ExitNotifies
  <2> QED
    BY <2>1
<1>6. CASE LongPress
  BY <1>6 DEF LongPress
<1>7. CASE PowerFails
  BY <1>7, Zenon DEF PowerFails, LinkRestarts
<1>8. CASE UNCHANGED vars
  BY <1>8
<1> QED
  BY <1>1, <1>2, <1>3, <1>4, <1>5, <1>6, <1>7, <1>8 DEF Next

(* A callback under way keeps the station where it is, and the last thing  *)
(* it does is tell the prompts.                                            *)
LEMMA FlagNext == NetworkInv /\ [Next]_vars => FlagInv'
<1> SUFFICES ASSUME NetworkInv, [Next]_vars PROVE FlagInv'
  OBVIOUS
<1> USE DEF NetworkInv, StationInv, FlagInv, OffPlaces, StationPlaces, Early
<1>1. CASE Runtime
  <2> USE DEF Goes, Elsewhere
  <2>1. CASE Initialises \/ Migrated \/ SeedBegins \/ Seeded
    BY <2>1 DEF Initialises, Migrated, SeedBegins, Seeded
  <2>2. CASE Starts \/ HasNone \/ Evicts \/ Joins
    BY <2>2 DEF Starts, HasNone, Evicts, Joins, Fails, StationStarts, Scans, PortalStops
  <2>3. CASE GivesUp \/ Stops \/ Stopped \/ Configured \/ PortalClosed \/ Joined
    BY <2>3 DEF GivesUp, Stops, Stopped, Configured, PortalClosed, Joined, Fails, StationStops,
                TellsDisconnected
  <2>4. CASE PortalOpens \/ Switches \/ Switched
    BY <2>4 DEF PortalOpens, Switches, Switched, AfterOpening, StationStops, PortalStarts,
                TellsDisconnected
  <2>5. CASE TimesOut
    BY <2>5 DEF TimesOut, PortalStops
  <2> QED
    BY <1>1, <2>1, <2>2, <2>3, <2>4, <2>5 DEF Runtime
<1>2. CASE SaveSteps \/ UserSteps \/ ListSteps \/ FormWaits \/ FormEnds \/ OutageTask \/ Exits
  <2>1. at' = at /\ UNCHANGED air /\ flag' = flag
    BY <1>2 DEF SaveSteps, UserSteps, ListSteps, FormWaits, FormEnds, OutageTask, Exits, Others,
                OutageLooks, OutageChecks, OutageSubmits, ExitTask, ExitTells, Elsewhere
  <2> QED
    BY <2>1
<1>3. CASE AirSteps \/ AirJoins
  BY <1>3 DEF AirSteps, AirJoins, Others, Found, FoundNone, ScanUnreadable, TriesNext, PassEnds,
              LinkLost, Rescans, Connects, GotIp
<1>4. CASE Callbacks
  BY <1>4 DEF Callbacks, TellsConnected, MarkEnds, Drops, Dropped, Scans, TellsDisconnected
<1>5. CASE LongPress \/ PowerFails
  BY <1>5 DEF LongPress, PowerFails, LinkRestarts
<1>6. CASE UNCHANGED vars
  BY <1>6
<1> QED
  BY <1>1, <1>2, <1>3, <1>4, <1>5, <1>6 DEF Next

-----------------------------------------------------------------------------
(* The exit tasks                                                          *)

LEMMA ExitsAlone ==
  ASSUME ExitsInv, UNCHANGED <<portal, exits, wanted>>
  PROVE  ExitsInv'
BY DEF ExitsInv

LEMMA PortalStopped == ExitsInv /\ PortalStops => ExitsInv'
<1> SUFFICES ASSUME ExitsInv, PortalStops PROVE ExitsInv'
  OBVIOUS
<1>1. exits' \in [1..MaxExits -> [at : ExitPlaces, fresh : BOOLEAN]]
  BY DEF ExitsInv, PortalStops
<1>2. \A i \in 1..MaxExits : exits'[i].fresh = FALSE
  BY DEF ExitsInv, PortalStops
<1> QED
  BY <1>1, <1>2 DEF ExitsInv

LEMMA PortalStarted == ExitsInv /\ ~portal /\ PortalStarts => ExitsInv'
BY DEF ExitsInv, PortalStarts

LEMMA ExitScheduled ==
  ASSUME ExitsInv, Schedules, portal, portal' = portal
  PROVE  ExitsInv'
BY DEF ExitsInv, Schedules, ExitPlaces

(* A task that goes on, or ends, is no more current than it was.           *)
LEMMA ExitMoved ==
  ASSUME ExitsInv, NEW i \in 1..MaxExits, NEW place \in [at : ExitPlaces, fresh : BOOLEAN],
         place.fresh => exits[i].fresh, ExitMoves(i, place), UNCHANGED <<portal, wanted>>
  PROVE  ExitsInv'
BY DEF ExitsInv, ExitMoves

LEMMA ExitClosed ==
  ASSUME ExitsInv, NEW i \in 1..MaxExits, Closes(i)
  PROVE  ExitsInv'
BY DEF ExitsInv, Closes, ExitPlaces

LEMMA ExitTaskInv ==
  ASSUME ExitsInv, NEW i \in DOMAIN exits, ExitTask(i)
  PROVE  ExitsInv'
<1>1. i \in 1..MaxExits /\ exits[i] \in [at : ExitPlaces, fresh : BOOLEAN]
  BY DEF ExitsInv
<1>2. NoExit \in [at : ExitPlaces, fresh : BOOLEAN] /\ ~NoExit.fresh
  BY DEF NoExit, ExitPlaces
<1>3. CASE ExitChecks(i)
  <2>1. [exits[i] EXCEPT !.at = "calling"] \in [at : ExitPlaces, fresh : BOOLEAN]
        /\ [exits[i] EXCEPT !.at = "calling"].fresh = exits[i].fresh
    BY <1>1 DEF ExitPlaces
  <2> QED
    BY <1>1, <1>2, <1>3, <2>1, ExitMoved DEF ExitChecks
<1>4. CASE ExitEnters(i)
  BY <1>1, <1>2, <1>4, ExitMoved, ExitClosed DEF ExitEnters
<1>5. CASE ExitCloses(i)
  <2>1. [exits[i] EXCEPT !.at = "leaving"] \in [at : ExitPlaces, fresh : BOOLEAN]
        /\ [exits[i] EXCEPT !.at = "leaving"].fresh = exits[i].fresh
    BY <1>1 DEF ExitPlaces
  <2> QED
    BY <1>1, <1>5, <2>1, ExitMoved DEF ExitCloses
<1>6. CASE ExitNotifies(i)
  BY <1>1, <1>2, <1>6, ExitMoved DEF ExitNotifies
<1> QED
  BY <1>3, <1>4, <1>5, <1>6 DEF ExitTask, ExitTells

LEMMA ExitsNext == NetworkInv /\ [Next]_vars => ExitsInv'
<1> SUFFICES ASSUME NetworkInv, [Next]_vars PROVE ExitsInv'
  OBVIOUS
<1> USE DEF NetworkInv
<1>1. CASE Runtime
  <2>1. CASE Starts
    BY <2>1, ExitsAlone, PortalStopped DEF Starts
  <2>2. CASE PortalOpens
    BY <2>2, ExitsAlone, PortalStarted DEF PortalOpens
  <2>3. CASE Switches
    BY <2>3, PortalStarted DEF Switches, StationInv, StationPlaces
  <2>4. CASE TimesOut
    BY <2>4, ExitsAlone, PortalStopped DEF TimesOut
  <2>5. CASE \/ Initialises \/ Migrated \/ SeedBegins \/ Seeded \/ HasNone \/ Evicts \/ Joins
             \/ GivesUp \/ Stops \/ Stopped \/ Switched \/ Configured \/ PortalClosed \/ Joined
    <3>1. UNCHANGED ap
      BY <2>5 DEF Initialises, Migrated, SeedBegins, Seeded, HasNone, Evicts, Joins, GivesUp, Stops,
                  Stopped, Switched, Configured, PortalClosed, Joined
    <3> QED
      BY <3>1, ExitsAlone
  <2> QED
    BY <1>1, <2>1, <2>2, <2>3, <2>4, <2>5 DEF Runtime
<1>2. CASE \/ SaveSteps \/ AirSteps \/ AirJoins \/ Callbacks \/ ListSteps \/ FormWaits \/ OutageTask
           \/ LongPress
  <2>1. UNCHANGED <<portal, exits, wanted>>
    BY <1>2 DEF SaveSteps, AirSteps, AirJoins, Callbacks, TellsConnected, Drops, ListSteps,
                ListEdited, FormWaits, FormJoins, OutageTask, OutageLooks, OutageChecks,
                OutageSubmits, LongPress
  <2> QED
    BY <2>1, ExitsAlone
<1>3. CASE UserSteps
  BY <1>3, ExitsAlone, ExitScheduled DEF UserSteps, ExitAsked, Submitted
<1>4. CASE FormEnds
  BY <1>4, ExitsAlone, ExitScheduled DEF FormEnds, FormGivesUp, FormSaved, EditEnds
<1>5. CASE Exits
  BY <1>5, ExitTaskInv DEF Exits
<1>6. CASE PowerFails
  BY <1>6 DEF PowerFails, LinkRestarts, ExitsInv, NoExit, ExitPlaces
<1>7. CASE UNCHANGED vars
  BY <1>7, ExitsAlone
<1> QED
  BY <1>1, <1>2, <1>3, <1>4, <1>5, <1>6, <1>7 DEF Next

-----------------------------------------------------------------------------
LEMMA InitInv == Init => NetworkInv
<1> SUFFICES ASSUME Init PROVE NetworkInv
  OBVIOUS
<1> USE DEF Init, StoreInit, LinkInit
<1>1. SavedInv /\ MigratingInv /\ EarlyInv
  BY DEF SavedInv, MigratingInv, EarlyInv
<1>2. StationInv /\ FlagInv
  BY DEF StationInv, FlagInv, StationPlaces
<1>3. ExitsInv
  BY DEF ExitsInv, NoExit, ExitPlaces
<1> QED
  BY <1>1, <1>2, <1>3 DEF NetworkInv

(* The inductive invariant of the network's parts: list, radio, exit tasks *)
(* and prompts.                                                            *)
THEOREM Invariant == Spec => []NetworkInv
<1>1. NetworkInv /\ [Next]_vars => NetworkInv'
  BY SavedNext, EarlyNext, StationNext, ExitsNext, FlagNext DEF NetworkInv
<1> QED
  BY <1>1, InitInv, PTL DEF Spec

(* Whenever the power fails, a restart finds the list that was last saved, *)
(* and the device works with that list. (wifi_credential_store.cc:314)     *)
THEOREM Survives == Spec => []CredentialsSurvive
<1>1. NetworkInv => CredentialsSurvive
  BY DEF NetworkInv, SavedInv, CredentialsSurvive
<1> QED
  BY <1>1, Invariant, PTL

(* What the prompts know of the network is true as soon as nobody is about *)
(* to tell them. (wifi_manager.cc:180, wifi_station.cc:63)                 *)
THEOREM FlagTells == Spec => []FlagIsTrue
<1>1. NetworkInv => FlagIsTrue
  BY Zenon DEF NetworkInv, StationInv, FlagInv, FlagIsTrue, IsConnected
<1> QED
  BY <1>1, Invariant, PTL

(* What closes a portal is an exit of the session that is current.         *)
LEMMA CloserIsCurrent ==
  ASSUME NetworkInv, [Next]_vars, NEW i \in DOMAIN exits,
         exits[i].at = "calling", exits'[i].at = "closing"
  PROVE  exits[i].fresh
<1> USE DEF NetworkInv
<1>0. /\ exits \in [1..MaxExits -> [at : ExitPlaces, fresh : BOOLEAN]]
      /\ i \in 1..MaxExits
  BY DEF ExitsInv
<1>1. CASE UNCHANGED exits
  BY <1>1
<1>2. CASE PortalStops
  BY <1>0, <1>2 DEF PortalStops
<1>3. CASE Schedules
  BY <1>0, <1>3 DEF Schedules
<1>4. ASSUME NEW j \in DOMAIN exits, ExitTask(j)
      PROVE  exits[i].fresh
  <2>1. j \in 1..MaxExits
    BY <1>0
  <2>2. ASSUME NEW place, ExitMoves(j, place), place.at # "closing" PROVE FALSE
    BY <1>0, <2>1, <2>2 DEF ExitMoves
  <2>3. NoExit.at # "closing"
    BY DEF NoExit
  <2>4. CASE ExitChecks(j)
    <3>1. [exits[j] EXCEPT !.at = "calling"].at # "closing"
      BY <1>0, <2>1
    <3> QED
      BY <2>2, <2>3, <2>4, <3>1 DEF ExitChecks
  <2>5. CASE ExitEnters(j)
    <3>1. CASE portal /\ exits[j].fresh
      <4>1. exits' = [k \in DOMAIN exits |->
                       [exits[k] EXCEPT !.fresh = FALSE, !.at = IF k = j THEN "closing" ELSE @]]
        BY <2>5, <3>1 DEF ExitEnters, Closes
      <4>2. i # j => exits'[i].at = exits[i].at
        BY <1>0, <4>1
      <4> QED
        BY <3>1, <4>2
    <3>2. CASE ~(portal /\ exits[j].fresh)
      BY <2>2, <2>3, <2>5, <3>2 DEF ExitEnters
    <3> QED
      BY <3>1, <3>2
  <2>6. CASE ExitCloses(j)
    <3>1. [exits[j] EXCEPT !.at = "leaving"].at # "closing"
      BY <1>0, <2>1
    <3> QED
      BY <2>2, <2>6, <3>1 DEF ExitCloses
  <2>7. CASE ExitNotifies(j)
    BY <2>2, <2>3, <2>7 DEF ExitNotifies
  <2> QED
    BY <1>4, <2>4, <2>5, <2>6, <2>7 DEF ExitTask, ExitTells
<1>5. CASE Runtime
  <2>1. CASE Starts \/ TimesOut
    BY <2>1, <1>1, <1>2 DEF Starts, TimesOut
  <2>2. CASE \/ Initialises \/ Migrated \/ SeedBegins \/ Seeded \/ HasNone \/ Evicts \/ Joins
             \/ GivesUp \/ Stops \/ Stopped \/ PortalOpens \/ Switches \/ Switched \/ Configured
             \/ PortalClosed \/ Joined
    <3>1. UNCHANGED exits
      BY <2>2 DEF Initialises, Migrated, SeedBegins, Seeded, HasNone, Evicts, Joins, GivesUp, Stops,
                  Stopped, PortalOpens, PortalStarts, Switches, Switched, Configured, PortalClosed,
                  Joined
    <3> QED
      BY <3>1, <1>1
  <2> QED
    BY <1>5, <2>1, <2>2 DEF Runtime
<1>6. CASE \/ SaveSteps \/ AirSteps \/ AirJoins \/ Callbacks \/ ListSteps \/ FormWaits \/ OutageTask
           \/ LongPress
  <2>1. UNCHANGED exits
    BY <1>6 DEF SaveSteps, AirSteps, AirJoins, Callbacks, TellsConnected, Drops, ListSteps,
                ListEdited, FormWaits, FormJoins, OutageTask, OutageLooks, OutageChecks,
                OutageSubmits, LongPress
  <2> QED
    BY <2>1, <1>1
<1>7. CASE UserSteps \/ FormEnds
  BY <1>7, <1>1, <1>3 DEF UserSteps, ExitAsked, Submitted, FormEnds, FormGivesUp, FormSaved, EditEnds
<1>8. CASE PowerFails
  BY <1>0, <1>8 DEF PowerFails, LinkRestarts, NoExit
<1>9. CASE UNCHANGED vars
  BY <1>9, <1>1
<1> QED
  BY <1>4, <1>5, <1>6, <1>7, <1>8, <1>9 DEF Next, Exits

(* An exit task that comes late leaves a later session's portal open.      *)
(* (wifi_manager.cc:310)                                                   *)
THEOREM KeepsSession == Spec => PortalKeepsItsSession
<1>1. ASSUME NetworkInv, [Next]_vars, NEW i \in DOMAIN exits,
             exits[i].at = "calling", exits'[i].at = "closing"
      PROVE  wanted
  BY <1>1, CloserIsCurrent DEF NetworkInv, ExitsInv
<1>2. NetworkInv /\ [Next]_vars =>
        [\A i \in DOMAIN exits :
           exits[i].at = "calling" /\ exits'[i].at = "closing" => wanted]_vars
  BY <1>1
<1> QED
  BY <1>2, Invariant, PTL DEF Spec, PortalKeepsItsSession

-----------------------------------------------------------------------------
(* Sorting: what StableOrder returns, for every key                        *)

(* A set of numbers has a least one. (The numbers are well-founded.)       *)
LEMMA Least ==
  ASSUME NEW S \in SUBSET Nat, S # {}
  PROVE  \E m \in S : \A n \in S : m <= n
<1>1. \E m \in S : \A n \in S : ~(<<n, m>> \in OpToRel(<, Nat))
  BY NatLessThanWellFounded, WFMin
<1>2. PICK m \in S : \A n \in S : ~(<<n, m>> \in OpToRel(<, Nat))
  BY <1>1
<1>3. ASSUME NEW n \in S PROVE m <= n
  <2>1. <<n, m>> \notin OpToRel(<, Nat)
    BY <1>2
  <2>2. n < m => <<n, m>> \in OpToRel(<, Nat)
    BY DEF OpToRel
  <2>3. ~(n < m)
    BY <2>1, <2>2
  <2>4. m \in Nat /\ n \in Nat
    OBVIOUS
  <2> QED
    BY <2>3, <2>4
<1> QED
  BY <1>3

LEMMA Greatest ==
  ASSUME NEW b \in Nat, NEW S \in SUBSET (0..b), S # {}
  PROVE  Max(S) \in S /\ \A n \in S : n <= Max(S)
<1> DEFINE T == {b - n : n \in S}
<1>1. T \in SUBSET Nat /\ T # {}
  <2>1. ASSUME NEW n \in S PROVE b - n \in Nat
    <3>1. n \in 0..b
      OBVIOUS
    <3> QED
      BY <3>1
  <2> QED
    BY <2>1
<1>2. PICK m \in T : \A n \in T : m <= n
  BY <1>1, Least
<1>3. PICK g \in S : m = b - g
  OBVIOUS
<1>4. ASSUME NEW n \in S PROVE g >= n
  <2>1. n \in 0..b /\ g \in 0..b
    OBVIOUS
  <2>2. b - g <= b - n
    BY <1>2, <1>3
  <2> QED
    BY <2>1, <2>2
<1>5. \E x \in S : \A y \in S : x >= y
  BY <1>4
<1>6. Max(S) \in S /\ \A y \in S : Max(S) >= y
  BY <1>5 DEF Max
<1> QED
  BY <1>6

(* The places that come before i: its key is smaller, or equal and it is   *)
(* further down.                                                           *)
Ahead(key, i) == {j \in DOMAIN key : key[j] > key[i] \/ (key[j] = key[i] /\ j < i)}

LEMMA AheadOrders ==
  ASSUME NEW D \in SUBSET Nat, IsFiniteSet(D), NEW key \in [D -> Nat]
  PROVE  /\ \A i \in D : IsFiniteSet(Ahead(key, i)) /\ Cardinality(Ahead(key, i)) \in 0..Cardinality(D) - 1
         /\ \A i, j \in D : i \in Ahead(key, j) <=> Cardinality(Ahead(key, i)) < Cardinality(Ahead(key, j))
         /\ \A i, j \in D : Cardinality(Ahead(key, i)) = Cardinality(Ahead(key, j)) => i = j
<1>0. Cardinality(D) \in Nat
  BY FS_CardinalityType
<1>1. ASSUME NEW i \in D
      PROVE  /\ Ahead(key, i) \in SUBSET D /\ i \notin Ahead(key, i)
             /\ IsFiniteSet(Ahead(key, i)) /\ Cardinality(Ahead(key, i)) \in 0..Cardinality(D) - 1
  <2>1. Ahead(key, i) \in SUBSET D /\ i \notin Ahead(key, i)
    BY DEF Ahead
  <2>2. /\ IsFiniteSet(Ahead(key, i)) /\ Cardinality(Ahead(key, i)) <= Cardinality(D)
        /\ Cardinality(D) # Cardinality(Ahead(key, i))
    BY <2>1, FS_Subset
  <2>3. Cardinality(Ahead(key, i)) \in Nat
    BY <2>2, FS_CardinalityType
  <2> QED
    BY <1>0, <2>1, <2>2, <2>3
<1>2. ASSUME NEW i \in D, NEW j \in D, i \in Ahead(key, j)
      PROVE  Cardinality(Ahead(key, i)) < Cardinality(Ahead(key, j))
  <2>1. Ahead(key, i) \subseteq Ahead(key, j)
    <3>1. ASSUME NEW m \in D, m \in Ahead(key, i) PROVE m \in Ahead(key, j)
      <4>1. /\ key[m] \in Nat /\ key[i] \in Nat /\ key[j] \in Nat
            /\ m \in Nat /\ i \in Nat /\ j \in Nat /\ m \in DOMAIN key
        OBVIOUS
      <4>2. /\ key[m] > key[i] \/ (key[m] = key[i] /\ m < i)
            /\ key[i] > key[j] \/ (key[i] = key[j] /\ i < j)
        BY <1>2, <3>1 DEF Ahead
      <4>3. key[m] > key[j] \/ (key[m] = key[j] /\ m < j)
        BY <4>1, <4>2
      <4> QED
        BY <4>1, <4>3 DEF Ahead
    <3> QED
      BY <1>1, <3>1
  <2>2. Ahead(key, i) # Ahead(key, j)
    BY <1>1, <1>2
  <2>3. /\ Cardinality(Ahead(key, i)) <= Cardinality(Ahead(key, j))
        /\ Cardinality(Ahead(key, j)) # Cardinality(Ahead(key, i))
    BY <1>1, <2>1, <2>2, FS_Subset
  <2>4. /\ Cardinality(Ahead(key, i)) \in 0..Cardinality(D) - 1
        /\ Cardinality(Ahead(key, j)) \in 0..Cardinality(D) - 1
    BY <1>1
  <2> QED
    BY <1>0, <2>3, <2>4
<1>3. ASSUME NEW i \in D, NEW j \in D, i # j
      PROVE  i \in Ahead(key, j) \/ j \in Ahead(key, i)
  <2>1. key[i] \in Nat /\ key[j] \in Nat /\ i \in Nat /\ j \in Nat
    OBVIOUS
  <2> QED
    BY <1>3, <2>1 DEF Ahead
<1>4. ASSUME NEW i \in D, NEW j \in D
      PROVE  /\ i \in Ahead(key, j) <=> Cardinality(Ahead(key, i)) < Cardinality(Ahead(key, j))
             /\ Cardinality(Ahead(key, i)) = Cardinality(Ahead(key, j)) => i = j
  <2>1. /\ Cardinality(Ahead(key, i)) \in Nat
        /\ Cardinality(Ahead(key, j)) \in Nat
    BY <1>0, <1>1
  <2> QED
    BY <1>1, <1>2, <1>3, <2>1
<1> QED
  BY <1>1, <1>4

(* It is an order of all the places, each once, with the greater keys      *)
(* first and equal ones as they were.                                      *)
LEMMA OrderIs ==
  ASSUME NEW D \in SUBSET Nat, IsFiniteSet(D), NEW key \in [D -> Nat]
  PROVE  /\ Cardinality(D) \in Nat
         /\ StableOrder(key) \in [1..Cardinality(D) -> D]
         /\ \A i \in D : \E k \in 1..Cardinality(D) : StableOrder(key)[k] = i
         /\ \A k, m \in 1..Cardinality(D) :
              k < m <=> StableOrder(key)[k] \in Ahead(key, StableOrder(key)[m])
<1> DEFINE n == Cardinality(D)
           before(i) == Cardinality(Ahead(key, i))
           rank == [i \in D |-> before(i) + 1]
           order == StableOrder(key)
<1>0. n \in Nat
  BY FS_CardinalityType
<1>1. \A i \in D : before(i) \in 0..n - 1
  BY AheadOrders
<1>2. \A i, j \in D : before(i) = before(j) => i = j
  BY AheadOrders
<1>3. \A i, j \in D : i \in Ahead(key, j) <=> before(i) < before(j)
  BY AheadOrders
<1>4. \A k \in 1..n : \E i \in D : before(i) = k - 1
  <2> HIDE DEF before
  <2>1. rank \in Injection(D, 1..n)
    <3>1. rank \in [D -> 1..n]
      BY <1>0, <1>1
    <3>2. ASSUME NEW i \in D, NEW j \in D, rank[i] = rank[j] PROVE i = j
      BY <1>0, <1>1, <1>2, <3>2
    <3> QED
      BY <3>1, <3>2 DEF Injection, IsInjective
  <2>2. IsFiniteSet(1..n) /\ Cardinality(1..n) = n
    BY <1>0, FS_Interval
  <2>3. rank \in Surjection(D, 1..n)
    BY <2>1, <2>2, FS_Injection
  <2>4. ASSUME NEW k \in 1..n PROVE \E i \in D : before(i) = k - 1
    <3>1. PICK i \in D : rank[i] = k
      BY <2>3 DEF Surjection
    <3> QED
      BY <1>0, <1>1, <3>1
  <2> QED
    BY <2>4
<1>5. order = [k \in 1..n |-> CHOOSE i \in D : before(i) = k - 1]
  BY DEF StableOrder, Ahead
<1> HIDE DEF n, before, order
<1>6. ASSUME NEW k \in 1..n PROVE order[k] \in D /\ before(order[k]) = k - 1
  BY <1>4, <1>5
<1>7. order \in [1..n -> D]
  BY <1>5, <1>6
<1>8. ASSUME NEW i \in D PROVE \E k \in 1..n : order[k] = i
  <2>1. before(i) + 1 \in 1..n
    BY <1>0, <1>1
  <2>2. order[before(i) + 1] \in D /\ before(order[before(i) + 1]) = before(i)
    BY <1>0, <1>1, <1>6, <2>1
  <2> QED
    BY <1>2, <2>1, <2>2
<1>9. ASSUME NEW k \in 1..n, NEW m \in 1..n
      PROVE  k < m <=> order[k] \in Ahead(key, order[m])
  <2>1. order[k] \in D /\ order[m] \in D
    BY <1>6
  <2>2. before(order[k]) = k - 1 /\ before(order[m]) = m - 1
    BY <1>6
  <2>3. order[k] \in Ahead(key, order[m]) <=> before(order[k]) < before(order[m])
    BY <1>3, <2>1
  <2>4. k \in Int /\ m \in Int
    BY <1>0
  <2> QED
    BY <2>2, <2>3, <2>4
<1> QED
  BY <1>0, <1>7, <1>8, <1>9 DEF n, order

-----------------------------------------------------------------------------
(* The lists                                                               *)

Distinct(l) == \A i, j \in 1..Len(l) : l[i].ssid = l[j].ssid => i = j

LEMMA ListIs ==
  ASSUME NEW l
  PROVE  l \in Lists <=> l \in Seq(Entry) /\ Len(l) <= Capacity /\ Distinct(l)
<1>0. Capacity \in Nat
  BY StoreAssumption
<1>1. ASSUME l \in Lists PROVE l \in Seq(Entry) /\ Len(l) <= Capacity /\ Distinct(l)
  <2>1. PICK n \in 0..Capacity : l \in [1..n -> Entry]
    BY <1>1 DEF Lists
  <2>2. l \in Seq(Entry) /\ Len(l) = n /\ DOMAIN l = 1..n
    BY <1>0, <2>1
  <2> QED
    BY <1>0, <1>1, <2>2 DEF Lists, Distinct
<1>2. ASSUME l \in Seq(Entry), Len(l) <= Capacity, Distinct(l) PROVE l \in Lists
  <2>1. /\ l \in [1..Len(l) -> Entry] /\ DOMAIN l = 1..Len(l)
        /\ Len(l) \in 0..Capacity
    BY <1>0, <1>2, LenProperties
  <2> QED
    BY <1>2, <2>1 DEF Lists, Distinct
<1> QED
  BY <1>1, <1>2

LEMMA EntryIs ==
  ASSUME NEW e \in Entry
  PROVE  e.ssid \in Ssids /\ e.seen \in 0..Capacity
BY DEF Entry

LEMMA EmptyList == <<>> \in Lists
<1> DEFINE l == <<>>
<1>1. l \in Seq(Entry) /\ Len(l) = 0 /\ Len(l) <= Capacity
  BY StoreAssumption
<1> HIDE DEF l
<1>2. Distinct(l)
  BY <1>1 DEF Distinct
<1>3. l \in Lists
  BY <1>1, <1>2, ListIs
<1> QED
  BY <1>3 DEF l

LEMMA SingleList ==
  ASSUME NEW e \in Entry
  PROVE  <<e>> \in Lists
<1> DEFINE l == <<e>>
<1>1. l \in Seq(Entry) /\ Len(l) = 1 /\ Len(l) <= Capacity
  BY StoreAssumption
<1> HIDE DEF l
<1>2. Distinct(l)
  BY <1>1 DEF Distinct
<1>3. l \in Lists
  BY <1>1, <1>2, ListIs
<1> QED
  BY <1>3 DEF l

LEMMA NamedIs ==
  ASSUME NEW l \in Lists, NEW s
  PROVE  s \in Named(l) <=> \E i \in 1..Len(l) : l[i].ssid = s
<1>1. DOMAIN l = 1..Len(l)
  BY ListIs, LenProperties
<1> QED
  BY <1>1 DEF Named

(* One entry goes to the front of others that do not name its network.     *)
LEMMA InFront ==
  ASSUME NEW e \in Entry, NEW l \in Lists, Len(l) < Capacity,
         \A i \in 1..Len(l) : l[i].ssid # e.ssid
  PROVE  <<e>> \o l \in Lists
<1> DEFINE m == <<e>> \o l
<1>1. l \in Seq(Entry) /\ Distinct(l) /\ Len(l) \in Nat
  BY ListIs
<1>2. /\ m \in Seq(Entry) /\ Len(m) = Len(l) + 1
      /\ \A i \in 1..Len(l) + 1 : m[i] = IF i = 1 THEN e ELSE l[i - 1]
  BY <1>1
<1> HIDE DEF m
<1>3. ASSUME NEW i \in 1..Len(m), NEW j \in 1..Len(m), m[i].ssid = m[j].ssid PROVE i = j
  <2>1. i \in 1..Len(l) + 1 /\ j \in 1..Len(l) + 1
    BY <1>2
  <2>2. ASSUME NEW k \in 1..Len(l) + 1, k # 1 PROVE m[k].ssid # e.ssid
    <3>1. k - 1 \in 1..Len(l) /\ m[k] = l[k - 1]
      BY <1>1, <1>2, <2>2
    <3> QED
      BY <3>1
  <2>3. CASE i # 1 /\ j # 1
    <3>1. i - 1 \in 1..Len(l) /\ j - 1 \in 1..Len(l)
      BY <1>1, <2>1, <2>3
    <3>2. l[i - 1].ssid = l[j - 1].ssid
      BY <1>2, <1>3, <2>1, <2>3
    <3>3. i - 1 = j - 1
      BY <1>1, <3>1, <3>2 DEF Distinct
    <3> QED
      BY <1>1, <2>1, <3>3
  <2>4. m[1] = e
    BY <1>1, <1>2
  <2> QED
    BY <1>3, <2>1, <2>2, <2>3, <2>4
<1>4. Len(m) <= Capacity
  BY <1>1, <1>2, StoreAssumption
<1>5. m \in Lists
  BY <1>2, <1>3, <1>4, ListIs DEF Distinct
<1> QED
  BY <1>5 DEF m

(* What is left of a list without one of its entries                       *)
LEMMA WithoutOne ==
  ASSUME NEW l \in Lists, NEW i \in 1..Len(l)
  PROVE  /\ RemoveAt(l, i) \in Lists
         /\ Len(RemoveAt(l, i)) = Len(l) - 1
         /\ \A j \in 1..Len(l) - 1 : RemoveAt(l, i)[j] = IF j < i THEN l[j] ELSE l[j + 1]
<1> DEFINE m == RemoveAt(l, i)
<1>1. l \in Seq(Entry) /\ Len(l) <= Capacity /\ Distinct(l) /\ Len(l) \in Nat
  BY ListIs
<1> DEFINE a == SubSeq(l, 1, i - 1)
           b == SubSeq(l, i + 1, Len(l))
<1>2. /\ a \in Seq(Entry) /\ Len(a) = i - 1
      /\ \A j \in 1..i - 1 : a[j] = l[j]
  BY <1>1
<1>3. /\ b \in Seq(Entry) /\ Len(b) = Len(l) - i
      /\ \A j \in 1..Len(l) - i : b[j] = l[i + j]
  BY <1>1
<1>4. m = a \o b
  BY DEF RemoveAt
<1> HIDE DEF a, b, m
<1>5. /\ m \in Seq(Entry) /\ Len(m) = Len(a) + Len(b)
      /\ \A j \in 1..Len(a) + Len(b) : m[j] = IF j <= Len(a) THEN a[j] ELSE b[j - Len(a)]
  BY <1>2, <1>3, <1>4, ConcatProperties
<1>6. Len(m) = Len(l) - 1
  BY <1>1, <1>2, <1>3, <1>5
<1>7. ASSUME NEW j \in 1..Len(l) - 1 PROVE m[j] = IF j < i THEN l[j] ELSE l[j + 1]
  <2>1. CASE j < i
    BY <1>1, <1>2, <1>3, <1>5, <2>1
  <2>2. CASE ~(j < i)
    <3>1. j - (i - 1) \in 1..Len(l) - i /\ i + (j - (i - 1)) = j + 1
      BY <1>1, <2>2
    <3>2. m[j] = b[j - (i - 1)]
      <4>1. j \in 1..Len(a) + Len(b) /\ ~(j <= Len(a)) /\ Len(a) = i - 1
        BY <1>1, <1>2, <1>3, <2>2
      <4> QED
        BY <1>5, <4>1
    <3> QED
      BY <1>3, <2>2, <3>1, <3>2
  <2> QED
    BY <2>1, <2>2
<1>8. Distinct(m)
  <2> SUFFICES ASSUME NEW j \in 1..Len(m), NEW k \in 1..Len(m), m[j].ssid = m[k].ssid
               PROVE  j = k
    BY DEF Distinct
  <2> DEFINE from(x) == IF x < i THEN x ELSE x + 1
  <2>1. j \in 1..Len(l) - 1 /\ k \in 1..Len(l) - 1
    BY <1>6
  <2>2. from(j) \in 1..Len(l) /\ from(k) \in 1..Len(l)
    BY <1>1, <2>1
  <2>3. m[j] = l[from(j)] /\ m[k] = l[from(k)]
    BY <1>7, <2>1
  <2>4. from(j) = from(k)
    BY <1>1, <2>2, <2>3 DEF Distinct
  <2> QED
    BY <1>1, <2>1, <2>4
<1>9. m \in Lists
  <2>1. m \in Seq(Entry) /\ Len(m) <= Capacity
    BY <1>1, <1>5, <1>6, StoreAssumption
  <2> QED
    BY <1>8, <2>1, ListIs
<1> QED
  BY <1>6, <1>7, <1>9 DEF m

LEMMA RemovedList ==
  ASSUME NEW l \in Lists, NEW i \in DOMAIN l
  PROVE  Removed(l, i) \in Lists
BY WithoutOne, ListIs, LenProperties DEF Removed

LEMMA PreferredList ==
  ASSUME NEW l \in Lists, NEW i \in DOMAIN l
  PROVE  Preferred(l, i) \in Lists
<1>1. /\ l \in Seq(Entry) /\ Len(l) \in Nat /\ Len(l) <= Capacity /\ Distinct(l)
      /\ i \in 1..Len(l)
  BY ListIs, LenProperties
<1> DEFINE rest == RemoveAt(l, i)
<1>2. /\ rest \in Lists /\ Len(rest) = Len(l) - 1
      /\ \A j \in 1..Len(l) - 1 : rest[j] = IF j < i THEN l[j] ELSE l[j + 1]
  BY <1>1, WithoutOne
<1> HIDE DEF rest
<1>3. ASSUME NEW j \in 1..Len(rest) PROVE rest[j].ssid # l[i].ssid
  <2>1. j \in 1..Len(l) - 1 /\ j \in 1..Len(l) /\ j + 1 \in 1..Len(l)
    BY <1>1, <1>2
  <2>2. CASE j < i
    BY <1>1, <1>2, <2>1, <2>2 DEF Distinct
  <2>3. CASE ~(j < i)
    BY <1>1, <1>2, <2>1, <2>3 DEF Distinct
  <2> QED
    BY <2>2, <2>3
<1>4. Len(rest) < Capacity /\ l[i] \in Entry
  BY <1>1, <1>2, StoreAssumption
<1>5. <<l[i]>> \o rest \in Lists
  BY <1>2, <1>3, <1>4, InFront
<1> QED
  BY <1>5 DEF Preferred, rest

LEMMA AddedList ==
  ASSUME NEW l \in Lists, NEW s \in Ssids
  PROVE  Added(l, s) \in Lists
<1>1. l \in Seq(Entry) /\ Len(l) \in Nat /\ Len(l) <= Capacity /\ Distinct(l)
  BY ListIs
<1>2. New(s) \in Entry /\ New(s).ssid = s
  BY StoreAssumption DEF New, Entry
<1>3. CASE Has(l, s)
  BY <1>3 DEF Added
<1>4. CASE ~Has(l, s) /\ Len(l) < Capacity
  <2>1. \A i \in 1..Len(l) : l[i].ssid # s
    BY <1>4, NamedIs DEF Has
  <2>2. <<New(s)>> \o l \in Lists
    BY <1>2, <1>4, <2>1, InFront
  <2> QED
    BY <1>1, <1>4, <2>2, StoreAssumption DEF Added
<1>5. CASE ~Has(l, s) /\ Len(l) >= Capacity
  <2> DEFINE m == Front(l)
  <2>1. /\ m \in Seq(Entry) /\ Len(m) = Len(l) - 1
        /\ \A i \in 1..Len(m) : m[i] = l[i]
    <3>1. m = SubSeq(l, 1, Len(l) - 1) /\ Len(l) >= 1
      BY <1>1, <1>5, StoreAssumption DEF Front
    <3>2. \A i \in 1..Len(l) - 1 : l[i] \in Entry
      BY <1>1
    <3> HIDE DEF m
    <3>3. Len(l) - 1 \in Int /\ 1 \in Int
      BY <1>1
    <3>4. /\ m \in Seq(Entry)
          /\ Len(m) = IF 1 <= Len(l) - 1 THEN Len(l) - 1 - 1 + 1 ELSE 0
          /\ \A i \in 1..Len(l) - 1 - 1 + 1 : m[i] = l[1 + i - 1]
      BY <3>1, <3>2, <3>3, SubSeqProperties
    <3>5. Len(m) = Len(l) - 1
      <4>1. Len(m) = IF 1 <= Len(l) - 1 THEN Len(l) - 1 - 1 + 1 ELSE 0
        BY <3>4
      <4>2. Len(l) \in Nat /\ Len(l) >= 1
        BY <1>1, <3>1
      <4>3. \A n \in Nat : n >= 1 => (IF 1 <= n - 1 THEN n - 1 - 1 + 1 ELSE 0) = n - 1
        OBVIOUS
      <4> QED
        BY <4>1, <4>2, <4>3, Zenon
    <3> QED
      BY <1>1, <3>4, <3>5
  <2> HIDE DEF m
  <2>2. Distinct(m)
    BY <1>1, <2>1 DEF Distinct
  <2>3. m \in Lists /\ Len(m) < Capacity
    BY <1>1, <2>1, <2>2, ListIs, StoreAssumption
  <2>4. \A i \in 1..Len(m) : m[i].ssid # s
    BY <1>1, <1>5, <2>1, NamedIs DEF Has
  <2>5. <<New(s)>> \o m \in Lists
    BY <1>2, <2>3, <2>4, InFront
  <2> QED
    BY <1>5, <2>5 DEF Added, m
<1> QED
  BY <1>1, <1>3, <1>4, <1>5, StoreAssumption

-----------------------------------------------------------------------------
(* Sorting a list: MarkSuccessful and the ranking of a scan                *)

(* The keys MarkSuccessful sorts by                                        *)
Newest(l)          == Max({e.seen : e \in Range(l)} \cup {0})
Success(l, s)      == [i \in DOMAIN l |-> IF l[i].ssid = s THEN Newest(l) + 1 ELSE l[i].seen]
JoinedPlaces(l, s) == {i \in DOMAIN l : Success(l, s)[i] > 0}

LEMMA NewestIs ==
  ASSUME NEW l \in Lists
  PROVE  Newest(l) \in Nat /\ \A i \in 1..Len(l) : l[i].seen <= Newest(l)
<1> DEFINE S == {e.seen : e \in Range(l)} \cup {0}
<1>1. l \in Seq(Entry) /\ DOMAIN l = 1..Len(l) /\ Capacity \in Nat
  BY ListIs, LenProperties, StoreAssumption
<1>2. \A e \in Range(l) : e \in Entry
  BY <1>1, RangeOfSeq
<1>3. S \in SUBSET (0..Capacity)
  BY <1>1, <1>2, EntryIs
<1>4. S # {}
  OBVIOUS
<1> HIDE DEF S
<1>5. Max(S) \in S /\ \A n \in S : n <= Max(S)
  BY <1>1, <1>3, <1>4, Greatest
<1>6. Newest(l) = Max(S)
  BY DEF Newest, S
<1>7. \A i \in 1..Len(l) : l[i].seen \in S
  BY <1>1 DEF S, Range
<1>8. Max(S) \in Nat
  <2>1. Max(S) \in 0..Capacity
    BY <1>3, <1>5
  <2> QED
    BY <1>1, <2>1
<1> QED
  BY <1>5, <1>6, <1>7, <1>8

LEMMA SuccessIs ==
  ASSUME NEW l \in Lists, NEW s
  PROVE  /\ 1..Len(l) \in SUBSET Nat /\ IsFiniteSet(1..Len(l)) /\ Cardinality(1..Len(l)) = Len(l)
         /\ DOMAIN l = 1..Len(l) /\ Len(l) \in Nat /\ Len(l) <= Capacity
         /\ Success(l, s) \in [1..Len(l) -> Nat]
         /\ JoinedPlaces(l, s) \in SUBSET (1..Len(l)) /\ IsFiniteSet(JoinedPlaces(l, s))
         /\ Cardinality(JoinedPlaces(l, s)) \in 0..Len(l)
<1>1. l \in Seq(Entry) /\ DOMAIN l = 1..Len(l) /\ Len(l) \in Nat /\ Len(l) <= Capacity
  BY ListIs, LenProperties
<1>2. IsFiniteSet(1..Len(l)) /\ Cardinality(1..Len(l)) = Len(l)
  <2>1. /\ IsFiniteSet(1..Len(l))
        /\ Cardinality(1..Len(l)) = IF 1 > Len(l) THEN 0 ELSE Len(l) - 1 + 1
    <3>1. 1 \in Int /\ Len(l) \in Int
      BY <1>1
    <3> QED
      BY <3>1, FS_Interval
  <2> QED
    BY <1>1, <2>1
<1>3. \A i \in 1..Len(l) : l[i].seen \in Nat
  <2> TAKE i \in 1..Len(l)
  <2>1. l[i] \in Entry
    BY <1>1
  <2> QED
    BY <2>1, EntryIs, StoreAssumption
<1>4. Success(l, s) \in [1..Len(l) -> Nat]
  BY <1>1, <1>3, NewestIs DEF Success
<1>5. JoinedPlaces(l, s) \in SUBSET (1..Len(l))
  BY <1>1 DEF JoinedPlaces
<1>6. /\ IsFiniteSet(JoinedPlaces(l, s)) /\ Cardinality(JoinedPlaces(l, s)) <= Len(l)
      /\ Cardinality(JoinedPlaces(l, s)) \in Nat
  BY <1>2, <1>5, FS_Subset, FS_CardinalityType
<1>7. Cardinality(JoinedPlaces(l, s)) \in 0..Len(l)
  BY <1>1, <1>6
<1> QED
  BY <1>1, <1>2, <1>4, <1>5, <1>6, <1>7

(* The order of the marked list, in terms of the places in the old one     *)
LEMMA MarkedIs ==
  ASSUME NEW l \in Lists, NEW s
  PROVE  LET order == StableOrder(Success(l, s))
             joined == Cardinality(JoinedPlaces(l, s))
         IN  /\ order \in [1..Len(l) -> 1..Len(l)]
             /\ \A i \in 1..Len(l) : \E k \in 1..Len(l) : order[k] = i
             /\ \A k, n \in 1..Len(l) : k < n <=> order[k] \in Ahead(Success(l, s), order[n])
             /\ Marked(l, s) \in Seq(Entry) /\ Len(Marked(l, s)) = Len(l)
             /\ \A k \in 1..Len(l) :
                  /\ Marked(l, s)[k].ssid = l[order[k]].ssid
                  /\ Marked(l, s)[k].seen = IF k > joined THEN 0 ELSE joined + 1 - k
<1> DEFINE order == StableOrder(Success(l, s))
           joined == Cardinality(JoinedPlaces(l, s))
<1>1. /\ Len(l) \in Nat /\ Len(l) <= Capacity /\ Capacity \in Nat /\ joined \in 0..Len(l)
      /\ DOMAIN l = 1..Len(l)
  BY SuccessIs, StoreAssumption
<1>2. l \in [1..Len(l) -> Entry]
  BY ListIs, LenProperties
<1>3. /\ order \in [1..Len(l) -> 1..Len(l)]
      /\ \A i \in 1..Len(l) : \E k \in 1..Len(l) : order[k] = i
      /\ \A k, m \in 1..Len(l) :
           k < m <=> order[k] \in Ahead(Success(l, s), order[m])
  <2>1. /\ 1..Len(l) \in SUBSET Nat /\ IsFiniteSet(1..Len(l)) /\ Cardinality(1..Len(l)) = Len(l)
        /\ Success(l, s) \in [1..Len(l) -> Nat]
    BY SuccessIs
  <2> DEFINE D == 1..Len(l)
             key == Success(l, s)
  <2> HIDE DEF D, key
  <2>2. D \in SUBSET Nat /\ IsFiniteSet(D) /\ Cardinality(D) = Len(l) /\ key \in [D -> Nat]
    BY <2>1 DEF D, key
  <2>3. /\ StableOrder(key) \in [1..Cardinality(D) -> D]
        /\ \A i \in D : \E k \in 1..Cardinality(D) : StableOrder(key)[k] = i
        /\ \A k, m \in 1..Cardinality(D) :
             k < m <=> StableOrder(key)[k] \in Ahead(key, StableOrder(key)[m])
    BY <2>2, OrderIs
  <2> QED
    BY <2>2, <2>3 DEF D, key
<1>4. Marked(l, s) = [k \in DOMAIN order |->
                        [l[order[k]] EXCEPT !.seen = IF k > joined THEN 0 ELSE joined + 1 - k]]
  BY DEF Marked, Success, JoinedPlaces, Newest
<1> HIDE DEF order, joined
<1>5. ASSUME NEW k \in 1..Len(l)
      PROVE  LET e == [l[order[k]] EXCEPT !.seen = IF k > joined THEN 0 ELSE joined + 1 - k]
             IN  /\ e \in Entry
                 /\ e.ssid = l[order[k]].ssid
                 /\ e.seen = IF k > joined THEN 0 ELSE joined + 1 - k
  <2>1. l[order[k]] \in Entry
    BY <1>2, <1>3
  <2>2. (IF k > joined THEN 0 ELSE joined + 1 - k) \in 0..Capacity
    BY <1>1
  <2> QED
    BY <2>1, <2>2 DEF Entry
<1>6. Marked(l, s) \in [1..Len(l) -> Entry]
  BY <1>3, <1>4, <1>5
<1>7. Marked(l, s) \in Seq(Entry) /\ Len(Marked(l, s)) = Len(l)
  BY <1>1, <1>6
<1>8. ASSUME NEW k \in 1..Len(l)
      PROVE  /\ Marked(l, s)[k].ssid = l[order[k]].ssid
             /\ Marked(l, s)[k].seen = IF k > joined THEN 0 ELSE joined + 1 - k
  BY <1>3, <1>4, <1>5
<1> QED
  BY <1>3, <1>7, <1>8 DEF order, joined

LEMMA MarkedList ==
  ASSUME NEW l \in Lists, NEW s
  PROVE  Marked(l, s) \in Lists
<1> DEFINE m == Marked(l, s)
           order == StableOrder(Success(l, s))
<1>1. /\ order \in [1..Len(l) -> 1..Len(l)]
      /\ \A k, n \in 1..Len(l) : k < n <=> order[k] \in Ahead(Success(l, s), order[n])
      /\ m \in Seq(Entry) /\ Len(m) = Len(l)
      /\ \A k \in 1..Len(l) : m[k].ssid = l[order[k]].ssid
  BY MarkedIs
<1>2. Len(l) \in Nat /\ Len(l) <= Capacity /\ Distinct(l)
  BY ListIs
<1> HIDE DEF m, order
<1>3. ASSUME NEW k \in 1..Len(m), NEW n \in 1..Len(m), m[k].ssid = m[n].ssid PROVE k = n
  <2>0. k \in 1..Len(l) /\ n \in 1..Len(l)
    BY <1>1
  <2>1. order[k] = order[n]
    <3>1. order[k] \in 1..Len(l) /\ order[n] \in 1..Len(l)
      BY <1>1, <2>0
    <3>2. l[order[k]].ssid = l[order[n]].ssid
      BY <1>1, <1>3, <2>0
    <3> QED
      BY <1>2, <3>1, <3>2 DEF Distinct
  <2>2. k < n <=> n < k
    BY <1>1, <2>0, <2>1
  <2> QED
    BY <1>2, <2>0, <2>2
<1>4. m \in Lists
  BY <1>1, <1>2, <1>3, ListIs DEF Distinct
<1> QED
  BY <1>4 DEF m

(* The networks joined come first, so that their new ranks are positive.   *)
LEMMA JoinedFirst ==
  ASSUME NEW l \in Lists, NEW s, NEW k \in 1..Len(l)
  PROVE  k <= Cardinality(JoinedPlaces(l, s)) <=> StableOrder(Success(l, s))[k] \in JoinedPlaces(l, s)
<1> DEFINE order == StableOrder(Success(l, s))
           P == {n \in 1..Len(l) : order[n] \in JoinedPlaces(l, s)}
           place == [n \in P |-> order[n]]
<1>1. /\ Len(l) \in Nat /\ DOMAIN l = 1..Len(l) /\ IsFiniteSet(1..Len(l))
      /\ Success(l, s) \in [1..Len(l) -> Nat]
      /\ JoinedPlaces(l, s) \in SUBSET (1..Len(l)) /\ IsFiniteSet(JoinedPlaces(l, s))
      /\ Cardinality(JoinedPlaces(l, s)) \in 0..Len(l)
  BY SuccessIs
<1>2. /\ order \in [1..Len(l) -> 1..Len(l)]
      /\ \A i \in 1..Len(l) : \E n \in 1..Len(l) : order[n] = i
      /\ \A n, m \in 1..Len(l) : n < m <=> order[n] \in Ahead(Success(l, s), order[m])
  BY MarkedIs
<1> HIDE DEF order
<1>3. Cardinality(P) = Cardinality(JoinedPlaces(l, s)) /\ IsFiniteSet(P)
  <2>1. place \in [P -> JoinedPlaces(l, s)]
    OBVIOUS
  <2>2. ASSUME NEW n \in P, NEW m \in P, place[n] = place[m] PROVE n = m
    <3>1. order[n] = order[m] /\ n \in 1..Len(l) /\ m \in 1..Len(l)
      BY <2>2
    <3>2. n < m <=> m < n
      BY <1>2, <3>1
    <3> QED
      BY <1>1, <3>1, <3>2
  <2>3. \A i \in JoinedPlaces(l, s) : \E n \in P : place[n] = i
    BY <1>1, <1>2
  <2> HIDE DEF P, place
  <2>4. place \in Injection(P, JoinedPlaces(l, s)) /\ place \in Surjection(P, JoinedPlaces(l, s))
    BY <2>1, <2>2, <2>3 DEF Injection, IsInjective, Surjection
  <2> QED
    BY <1>1, <2>4, FS_Injection
<1>4. ASSUME NEW n \in P, NEW m \in 1..Len(l), m < n PROVE m \in P
  <2>1. order[m] \in Ahead(Success(l, s), order[n])
    BY <1>2, <1>4
  <2>2. /\ Success(l, s)[order[m]] >= Success(l, s)[order[n]]
        /\ Success(l, s)[order[n]] > 0
        /\ order[m] \in 1..Len(l) /\ order[n] \in 1..Len(l)
    <3>1. /\ order[m] \in 1..Len(l) /\ order[n] \in 1..Len(l)
          /\ Success(l, s)[order[m]] \in Nat /\ Success(l, s)[order[n]] \in Nat
      BY <1>1, <1>2
    <3>2. order[n] \in JoinedPlaces(l, s)
      OBVIOUS
    <3>3. Success(l, s)[order[n]] > 0
      BY <3>2 DEF JoinedPlaces
    <3>4. \/ Success(l, s)[order[m]] > Success(l, s)[order[n]]
          \/ Success(l, s)[order[m]] = Success(l, s)[order[n]]
      BY <2>1 DEF Ahead
    <3> QED
      BY <3>1, <3>3, <3>4
  <2>3. Success(l, s)[order[m]] \in Nat /\ Success(l, s)[order[n]] \in Nat
    BY <1>1, <2>2
  <2> QED
    BY <1>1, <2>2, <2>3 DEF JoinedPlaces
<1>5. k \in Nat /\ k >= 1
  BY <1>1
<1>6. IsFiniteSet(1..k) /\ Cardinality(1..k) = k /\ IsFiniteSet(1..k - 1) /\ Cardinality(1..k - 1) = k - 1
  BY <1>5, FS_Interval
<1>7. k \in P => Cardinality(P) >= k
  <2> SUFFICES ASSUME k \in P PROVE Cardinality(P) >= k
    OBVIOUS
  <2>1. ASSUME NEW m \in 1..k PROVE m \in P
    <3>1. m \in 1..Len(l) /\ (m = k \/ m < k)
      BY <1>1, <1>5
    <3> QED
      BY <1>4, <3>1
  <2>2. 1..k \in SUBSET P
    BY <2>1
  <2> HIDE DEF P
  <2>3. Cardinality(1..k) <= Cardinality(P)
    BY <1>3, <2>2, FS_Subset
  <2> QED
    BY <1>3, <1>1, <1>6, <2>3
<1>8. k \notin P => Cardinality(P) <= k - 1
  <2> SUFFICES ASSUME k \notin P PROVE Cardinality(P) <= k - 1
    OBVIOUS
  <2>1. ASSUME NEW m \in P PROVE m \in 1..k - 1
    <3>1. m \in 1..Len(l) /\ ~(k < m) /\ m # k
      BY <1>4
    <3> QED
      BY <1>1, <1>5, <3>1
  <2>2. P \in SUBSET (1..k - 1)
    BY <2>1
  <2> HIDE DEF P
  <2>3. Cardinality(P) <= Cardinality(1..k - 1)
    BY <1>6, <2>2, FS_Subset
  <2> QED
    BY <1>6, <2>3
<1>9. k \in P <=> order[k] \in JoinedPlaces(l, s)
  OBVIOUS
<1> HIDE DEF P
<1>10. k <= Cardinality(JoinedPlaces(l, s)) <=> k \in P
  BY <1>1, <1>3, <1>5, <1>7, <1>8
<1> QED
  BY <1>9, <1>10 DEF order

(* After a network is joined the list names the networks it named, that    *)
(* one first and the others as stable_sort leaves them: the latest joined  *)
(* first, the rest as they were. The ranks counted anew say the same of    *)
(* who was joined and in which order as the stamps did, for lists of any   *)
(* length. (wifi_credential_store.cc:280)                                  *)
THEOREM MarksLatestFirst ==
  ASSUME NEW l \in Lists, NEW s \in Named(l)
  PROVE  LET m == Marked(l, s) IN
           /\ m \in Lists /\ Len(m) = Len(l) /\ Named(m) = Named(l) /\ m[1].ssid = s
           /\ \A k, n, i, j \in 1..Len(l) :
                m[k].ssid = l[i].ssid /\ m[n].ssid = l[j].ssid =>
                  /\ l[i].ssid # s /\ l[j].ssid # s =>
                       (k < n <=> l[i].seen > l[j].seen \/ (l[i].seen = l[j].seen /\ i < j))
                  /\ m[k].seen > 0 <=> l[i].ssid = s \/ l[i].seen > 0
                  /\ k < n => m[k].seen > m[n].seen \/ (m[k].seen = 0 /\ m[n].seen = 0)
<1> DEFINE m == Marked(l, s)
           key == Success(l, s)
           order == StableOrder(key)
           joined == Cardinality(JoinedPlaces(l, s))
<1>1. /\ order \in [1..Len(l) -> 1..Len(l)]
      /\ \A i \in 1..Len(l) : \E k \in 1..Len(l) : order[k] = i
      /\ \A k, n \in 1..Len(l) : k < n <=> order[k] \in Ahead(key, order[n])
      /\ m \in Seq(Entry) /\ Len(m) = Len(l)
      /\ \A k \in 1..Len(l) : /\ m[k].ssid = l[order[k]].ssid
                             /\ m[k].seen = IF k > joined THEN 0 ELSE joined + 1 - k
  BY MarkedIs
<1>2. /\ Len(l) \in Nat /\ DOMAIN l = 1..Len(l) /\ joined \in 0..Len(l)
      /\ key \in [1..Len(l) -> Nat] /\ Distinct(l)
  BY SuccessIs, ListIs
<1>3. m \in Lists
  BY MarkedList
<1>4. \A i \in 1..Len(l) : l[i].seen \in Nat /\ l[i].seen <= Newest(l)
  <2> TAKE i \in 1..Len(l)
  <2>1. l[i] \in Entry
    BY ListIs
  <2> QED
    BY <2>1, EntryIs, NewestIs, StoreAssumption
<1>5. \A i \in 1..Len(l) : key[i] = IF l[i].ssid = s THEN Newest(l) + 1 ELSE l[i].seen
  BY <1>2 DEF Success
<1>6. \A k \in 1..Len(l) : k <= joined <=> order[k] \in JoinedPlaces(l, s)
  BY JoinedFirst
<1>7. \A i \in 1..Len(l) : i \in JoinedPlaces(l, s) <=> key[i] > 0
  BY <1>2 DEF JoinedPlaces
<1>8. Newest(l) \in Nat
  BY NewestIs
<1> HIDE DEF m, key, order, joined
<1>9. ASSUME NEW t PROVE t \in Named(m) <=> t \in Named(l)
  <2>1. ASSUME t \in Named(m) PROVE t \in Named(l)
    <3>1. PICK k \in 1..Len(l) : m[k].ssid = t
      BY <1>1, <1>3, <2>1, NamedIs
    <3>2. order[k] \in 1..Len(l) /\ l[order[k]].ssid = t
      BY <1>1, <3>1
    <3> QED
      BY <3>2, NamedIs
  <2>2. ASSUME t \in Named(l) PROVE t \in Named(m)
    <3>1. PICK i \in 1..Len(l) : l[i].ssid = t
      BY <2>2, NamedIs
    <3>2. PICK k \in 1..Len(l) : order[k] = i
      BY <1>1
    <3>3. k \in 1..Len(m) /\ m[k].ssid = t
      BY <1>1, <3>1, <3>2
    <3> QED
      BY <1>3, <3>3, NamedIs
  <2> QED
    BY <2>1, <2>2
<1>10. m[1].ssid = s
  <2>1. PICK i \in 1..Len(l) : l[i].ssid = s
    BY NamedIs
  <2>2. PICK k \in 1..Len(l) : order[k] = i
    BY <1>1
  <2>3. 1 \in 1..Len(l) /\ order[1] \in 1..Len(l)
    <3>1. 1 \in 1..Len(l)
      BY <1>2, <2>1
    <3> QED
      BY <1>1, <3>1
  <2>4. CASE k = 1
    BY <1>1, <2>1, <2>2, <2>4
  <2>5. CASE k # 1
    <3>1. order[1] \in Ahead(key, i)
      <4>1. 1 < k
        BY <1>2, <2>5
      <4> QED
        BY <1>1, <2>2, <2>3, <4>1
    <3>2. key[order[1]] \in Nat /\ key[order[1]] >= key[i] /\ key[i] = Newest(l) + 1
      <4>1. key[order[1]] \in Nat /\ key[i] \in Nat
        BY <1>2, <2>3
      <4>2. key[i] = Newest(l) + 1
        BY <1>5, <2>1
      <4> QED
        BY <3>1, <4>1, <4>2 DEF Ahead
    <3>3. l[order[1]].ssid = s
      <4>1. key[order[1]] > Newest(l)
        BY <1>8, <3>2
      <4>2. l[order[1]].seen \in Nat /\ l[order[1]].seen <= Newest(l)
        BY <1>4, <2>3
      <4>3. key[order[1]] # l[order[1]].seen
        BY <1>8, <4>1, <4>2
      <4> QED
        BY <1>5, <2>3, <4>3
    <3> QED
      BY <1>1, <2>3, <3>3
  <2> QED
    BY <2>4, <2>5
<1>11. ASSUME NEW k \in 1..Len(l), NEW n \in 1..Len(l), NEW i \in 1..Len(l), NEW j \in 1..Len(l),
              m[k].ssid = l[i].ssid, m[n].ssid = l[j].ssid
       PROVE  /\ l[i].ssid # s /\ l[j].ssid # s =>
                   (k < n <=> l[i].seen > l[j].seen \/ (l[i].seen = l[j].seen /\ i < j))
              /\ m[k].seen > 0 <=> l[i].ssid = s \/ l[i].seen > 0
              /\ k < n => m[k].seen > m[n].seen \/ (m[k].seen = 0 /\ m[n].seen = 0)
  <2>1. order[k] = i /\ order[n] = j
    <3>1. order[k] \in 1..Len(l) /\ order[n] \in 1..Len(l)
      BY <1>1
    <3>2. l[order[k]].ssid = l[i].ssid /\ l[order[n]].ssid = l[j].ssid
      BY <1>1, <1>11
    <3> QED
      BY <1>2, <3>1, <3>2 DEF Distinct
  <2>2. ASSUME l[i].ssid # s, l[j].ssid # s
        PROVE  k < n <=> l[i].seen > l[j].seen \/ (l[i].seen = l[j].seen /\ i < j)
    <3>1. key[i] = l[i].seen /\ key[j] = l[j].seen
      BY <1>5, <2>2
    <3>2. k < n <=> i \in Ahead(key, j)
      BY <1>1, <2>1
    <3>3. DOMAIN key = 1..Len(l)
      BY <1>2
    <3> QED
      BY <3>1, <3>2, <3>3 DEF Ahead
  <2>3. k \in Nat /\ n \in Nat /\ k > 0 /\ joined \in Nat
    BY <1>2
  <2>4. m[k].seen = IF k > joined THEN 0 ELSE joined + 1 - k
    BY <1>1
  <2>5. m[n].seen = IF n > joined THEN 0 ELSE joined + 1 - n
    BY <1>1
  <2>6. m[k].seen > 0 <=> k <= joined
    BY <2>3, <2>4
  <2>7. m[k].seen > 0 <=> l[i].ssid = s \/ l[i].seen > 0
    <3>1. k <= joined <=> key[i] > 0
      BY <1>6, <1>7, <2>1
    <3>2. key[i] > 0 <=> l[i].ssid = s \/ l[i].seen > 0
      BY <1>5, <1>8
    <3> QED
      BY <2>6, <3>1, <3>2
  <2>8. k < n => m[k].seen > m[n].seen \/ (m[k].seen = 0 /\ m[n].seen = 0)
    BY <2>3, <2>4, <2>5
  <2> QED
    BY <2>2, <2>7, <2>8
<1>12. Named(m) = Named(l)
  BY <1>9
<1> QED
  BY <1>1, <1>3, <1>10, <1>11, <1>12 DEF m

(* A scan is answered with the networks that are known and heard, each     *)
(* once, the strongest first and equally strong ones as the list has them, *)
(* for lists of any length. (wifi_connection_policy.cc:6)                  *)
THEOREM RanksStrongestFirst ==
  ASSUME NEW l \in Lists, NEW heard \in [Ssids -> Nat]
  PROVE  LET r == Ranked(l, heard) IN
           /\ r \in Seq(Ssids)
           /\ \A t : (\E k \in 1..Len(r) : r[k] = t) <=> t \in Named(l) /\ heard[t] > 0
           /\ \A k, n \in 1..Len(r) : \A i, j \in 1..Len(l) :
                r[k] = l[i].ssid /\ r[n] = l[j].ssid =>
                  (k < n <=> \/ heard[l[i].ssid] > heard[l[j].ssid]
                             \/ heard[l[i].ssid] = heard[l[j].ssid] /\ i < j)
<1> DEFINE D == {i \in DOMAIN l : heard[l[i].ssid] > 0}
           key == [i \in D |-> heard[l[i].ssid]]
           order == StableOrder(key)
           r == Ranked(l, heard)
           N == Cardinality(D)
<1>1. /\ Len(l) \in Nat /\ DOMAIN l = 1..Len(l) /\ Distinct(l)
      /\ IsFiniteSet(1..Len(l))
  BY SuccessIs, ListIs
<1>2. \A i \in 1..Len(l) : l[i].ssid \in Ssids /\ heard[l[i].ssid] \in Nat
  <2> TAKE i \in 1..Len(l)
  <2>1. l[i] \in Entry
    BY ListIs
  <2> QED
    BY <2>1, EntryIs
<1>3. /\ D \in SUBSET (1..Len(l)) /\ key \in [D -> Nat]
      /\ \A i \in 1..Len(l) : i \in D <=> heard[l[i].ssid] > 0
      /\ \A i \in D : key[i] = heard[l[i].ssid]
  BY <1>1, <1>2
<1>4. r = [k \in DOMAIN order |-> l[order[k]].ssid]
  BY DEF Ranked
<1> HIDE DEF D, key, r, N
<1>5. D \in SUBSET Nat /\ IsFiniteSet(D)
  BY <1>1, <1>3, FS_Subset
<1>6. /\ N \in Nat
      /\ order \in [1..N -> D]
      /\ \A i \in D : \E k \in 1..N : order[k] = i
      /\ \A k, n \in 1..N : k < n <=> order[k] \in Ahead(key, order[n])
  BY <1>3, <1>5, OrderIs DEF N
<1> HIDE DEF order
<1>7. r \in [1..N -> Ssids]
  BY <1>2, <1>3, <1>4, <1>6
<1>8. r \in Seq(Ssids) /\ Len(r) = N
  BY <1>6, <1>7
<1>9. \A k \in 1..N : order[k] \in D /\ order[k] \in 1..Len(l) /\ r[k] = l[order[k]].ssid
  BY <1>3, <1>4, <1>6
<1>10. ASSUME NEW t PROVE (\E k \in 1..N : r[k] = t) <=> t \in Named(l) /\ heard[t] > 0
  <2>1. ASSUME NEW k \in 1..N, r[k] = t PROVE t \in Named(l) /\ heard[t] > 0
    <3>1. order[k] \in D /\ order[k] \in 1..Len(l) /\ t = l[order[k]].ssid
      BY <1>9, <2>1
    <3> QED
      BY <1>3, <3>1, NamedIs
  <2>2. ASSUME t \in Named(l), heard[t] > 0 PROVE \E k \in 1..N : r[k] = t
    <3>1. PICK i \in 1..Len(l) : l[i].ssid = t
      BY <2>2, NamedIs
    <3>2. i \in D
      BY <1>3, <2>2, <3>1
    <3>3. PICK k \in 1..N : order[k] = i
      BY <1>6, <3>2
    <3> QED
      BY <1>9, <3>1, <3>3
  <2> QED
    BY <2>1, <2>2
<1>11. ASSUME NEW k \in 1..N, NEW n \in 1..N, NEW i \in 1..Len(l), NEW j \in 1..Len(l),
              r[k] = l[i].ssid, r[n] = l[j].ssid
       PROVE  k < n <=> \/ heard[l[i].ssid] > heard[l[j].ssid]
                        \/ heard[l[i].ssid] = heard[l[j].ssid] /\ i < j
  <2>1. order[k] = i /\ order[n] = j
    <3>1. /\ order[k] \in 1..Len(l) /\ l[order[k]].ssid = l[i].ssid
          /\ order[n] \in 1..Len(l) /\ l[order[n]].ssid = l[j].ssid
      BY <1>9, <1>11
    <3> QED
      BY <1>1, <3>1 DEF Distinct
  <2>2. i \in D /\ j \in D
    BY <1>9, <2>1
  <2>3. k < n <=> i \in Ahead(key, j)
    BY <1>6, <2>1
  <2>4. key[i] = heard[l[i].ssid] /\ key[j] = heard[l[j].ssid] /\ DOMAIN key = D
    BY <1>3, <2>2
  <2> QED
    BY <2>2, <2>3, <2>4 DEF Ahead
<1>12. \A t : (\E k \in 1..Len(r) : r[k] = t) <=> t \in Named(l) /\ heard[t] > 0
  BY <1>8, <1>10
<1>13. \A k, n \in 1..Len(r) : \A i, j \in 1..Len(l) :
         r[k] = l[i].ssid /\ r[n] = l[j].ssid =>
           (k < n <=> \/ heard[l[i].ssid] > heard[l[j].ssid]
                      \/ heard[l[i].ssid] = heard[l[j].ssid] /\ i < j)
  <2>1. Len(r) = N
    BY <1>8
  <2> SUFFICES ASSUME NEW k \in 1..N, NEW n \in 1..N, NEW i \in 1..Len(l), NEW j \in 1..Len(l),
                      r[k] = l[i].ssid, r[n] = l[j].ssid
               PROVE  k < n <=> \/ heard[l[i].ssid] > heard[l[j].ssid]
                                \/ heard[l[i].ssid] = heard[l[j].ssid] /\ i < j
    BY <2>1
  <2> QED
    BY <1>11
<1> QED
  BY <1>8, <1>12, <1>13, Zenon DEF r

-----------------------------------------------------------------------------
(* Types, and that only known networks are tried                           *)

(* A request to the portal that saves does so while the station is off.    *)
FormInv == form \in {"saving", "editing"} => saving # "none" /\ station = "off"

Known(s) == s \in Named(creds)

TriedInv ==
  station = "connecting" =>
    /\ \A s \in candidate : Known(s)
    /\ \A k \in 1..Len(queue) : Known(queue[k])

AirType ==
  /\ station \in {"off", "scanning", "connecting", "online", "lost", "resting"}
  /\ queue \in Seq(Ssids) /\ candidate \in SUBSET Ssids
  /\ handler \in {"idle", "marking", "dropping"}

ApType ==
  /\ form \in {"idle", "connecting", "saving", "editing"}
  /\ entered \in SUBSET Ssids

FlagType ==
  /\ linked \in BOOLEAN /\ portal \in BOOLEAN /\ wanted \in BOOLEAN
  /\ CONNECTED \in BOOLEAN /\ CONFIG_EXIT \in BOOLEAN /\ OUTAGE_CHANGE \in BOOLEAN
  /\ flag \in BOOLEAN /\ suppressed \in BOOLEAN /\ outage \in BOOLEAN /\ prompted \in BOOLEAN
  /\ current \in BOOLEAN /\ unnoticed \in BOOLEAN

TaskType ==
  /\ at \in {"loading", "migrating", "seeding", "seeded", "deciding", "evicting", "trying",
             "stopping", "stopped", "opening", "switching", "switched", "configuring", "closing",
             "joined", "idle", "halted"}
  /\ call \in {"start", "none", "reconfigure", "late", "failed"}
  /\ task \in {"waiting", "timing", "submitting"}

KnownInv == StoreType /\ AirType /\ ApType /\ FormInv /\ TriedInv

LEMMA SlotIs ==
  ASSUME NEW D \in SUBSET {"used", "spare"}, NEW f \in [D -> Lists]
  PROVE  f \in UNION {[E -> Lists] : E \in SUBSET {"used", "spare"}}
OBVIOUS

LEMMA SlotHas ==
  ASSUME StoreType
  PROVE  /\ DOMAIN slot \in SUBSET {"used", "spare"} /\ slot \in [DOMAIN slot -> Lists]
         /\ \A n \in DOMAIN slot : slot[n] \in Lists
<1>1. PICK D \in SUBSET {"used", "spare"} : slot \in [D -> Lists]
  BY DEF StoreType
<1>2. DOMAIN slot = D
  BY <1>1
<1> QED
  BY <1>1, <1>2

LEMMA SaveType ==
  ASSUME StoreType, NEW list \in Lists, Save(list)
  PROVE  StoreType'
<1>1. slot' \in [DOMAIN slot \ {"spare"} -> Lists]
  BY SlotHas DEF Save, Target, Restrict
<1>2. slot' \in UNION {[E -> Lists] : E \in SUBSET {"used", "spare"}}
  BY <1>1, SlotHas, SlotIs
<1> QED
  BY <1>2 DEF StoreType, Save

LEMMA SaveStepType ==
  ASSUME StoreType, SaveWrites \/ SaveEnds
  PROVE  StoreType'
<1>0. creds \in Lists /\ prev \in Lists /\ <<>> \in Lists
  BY EmptyList DEF StoreType
<1>1. CASE SaveWrites
  <2>1. slot' \in [DOMAIN slot \cup {"spare"} -> Lists]
    BY <1>0, <1>1, SlotHas DEF SaveWrites, Target
  <2>2. slot' \in UNION {[E -> Lists] : E \in SUBSET {"used", "spare"}}
    BY <2>1, SlotHas, SlotIs
  <2> QED
    BY <1>1, <2>2 DEF StoreType, SaveWrites
<1>2. CASE SaveSwitches
  <2>1. slot' \in [{"used"} -> Lists]
    BY <1>0, <1>2 DEF SaveSwitches
  <2>2. slot' \in UNION {[E -> Lists] : E \in SUBSET {"used", "spare"}}
    BY <2>1, SlotIs
  <2>3. pointed' \in BOOLEAN
    BY <1>2 DEF SaveSwitches
  <2> QED
    BY <1>0, <1>2, <2>2, <2>3 DEF StoreType, SaveSwitches
<1>3. CASE SaveFails
  <2>1. slot' \in UNION {[E -> Lists] : E \in SUBSET {"used", "spare"}}
    <3>1. CASE Readable("used")
      <4>1. slot["used"] \in Lists
        BY <3>1, SlotHas DEF Readable
      <4>2. slot' \in [{"used"} -> Lists]
        BY <1>3, <3>1, <4>1 DEF SaveFails
      <4> QED
        BY <4>2, SlotIs
    <3>2. CASE ~Readable("used")
      BY <1>3, <3>2 DEF SaveFails, StoreType
    <3> QED
      BY <3>1, <3>2
  <2> QED
    BY <1>0, <1>3, <2>1 DEF StoreType, SaveFails
<1> QED
  BY <1>1, <1>2, <1>3 DEF SaveEnds

LEMMA LoadType ==
  ASSUME StoreType, LoadsSlot \/ LoadsSpare \/ LoadsNothing \/ LoadFails
  PROVE  StoreType'
<1>1. CASE LoadsSlot
  <2>1. slot["used"] \in Lists
    BY <1>1, SlotHas DEF LoadsSlot, Readable
  <2> QED
    BY <1>1, <2>1 DEF LoadsSlot, Loaded, StoreType
<1>2. CASE LoadsSpare
  <2>1. slot["spare"] \in Lists
    BY <1>2, SlotHas DEF LoadsSpare, Readable
  <2>2. slot' \in [{"used"} -> Lists]
    BY <1>2, <2>1 DEF LoadsSpare
  <2>3. slot' \in UNION {[E -> Lists] : E \in SUBSET {"used", "spare"}}
    BY <2>2, SlotIs
  <2> QED
    BY <1>2, <2>1, <2>3 DEF LoadsSpare, Loaded, StoreType
<1>3. CASE LoadsNothing
  BY <1>3, EmptyList DEF LoadsNothing, Loaded, StoreType
<1>4. CASE LoadFails
  BY <1>4 DEF LoadFails, StoreType
<1> QED
  BY <1>1, <1>2, <1>3, <1>4

(* What a scan finds, twice over, is what is tried.                        *)
LEMMA FoundTried ==
  ASSUME StoreType, AirType, Found, creds' = creds
  PROVE  AirType' /\ TriedInv'
<1>0. creds \in Lists /\ handler' = handler
  BY DEF StoreType, Found
<1>1. PICK heard \in [Ssids -> Strengths \cup {0}] :
        /\ Ranked(creds, heard) # <<>>
        /\ Connects(Ranked(creds, heard) \o Ranked(creds, heard))
  BY DEF Found
<1>2. heard \in [Ssids -> Nat]
  <2>1. Strengths \cup {0} \in SUBSET Nat
    BY LinkAssumption
  <2> QED
    BY <2>1
<1> DEFINE r == Ranked(creds, heard)
           l == r \o r
<1>3. r \in Seq(Ssids) /\ \A t : (\E k \in 1..Len(r) : r[k] = t) => t \in Named(creds)
  BY <1>0, <1>2, RanksStrongestFirst
<1>4. r # <<>> /\ Connects(l)
  BY <1>1
<1> HIDE DEF r
<1>5. /\ l \in Seq(Ssids) /\ Len(l) = Len(r) + Len(r) /\ Len(r) \in Nat
      /\ \A k \in 1..Len(r) + Len(r) : l[k] = IF k <= Len(r) THEN r[k] ELSE r[k - Len(r)]
  BY <1>3, ConcatProperties
<1> HIDE DEF l
<1>6. \A k \in 1..Len(l) : l[k] \in Named(creds)
  <2> TAKE k \in 1..Len(l)
  <2>1. k <= Len(r) => k \in 1..Len(r) /\ l[k] = r[k]
    BY <1>5
  <2>2. ~(k <= Len(r)) => k - Len(r) \in 1..Len(r) /\ l[k] = r[k - Len(r)]
    BY <1>5
  <2> QED
    BY <1>3, <2>1, <2>2
<1>7. Len(l) > 0
  <2>1. Len(r) # 0
    BY <1>3, <1>4, EmptySeq
  <2> QED
    BY <1>5, <2>1
<1>8. /\ Head(l) = l[1] /\ Head(l) \in Ssids /\ Tail(l) \in Seq(Ssids) /\ Len(Tail(l)) = Len(l) - 1
      /\ \A k \in 1..Len(l) - 1 : Tail(l)[k] = l[k + 1]
  BY <1>5, <1>7
<1>9. candidate' = {Head(l)} /\ queue' = Tail(l) /\ station' = "connecting" /\ creds' = creds
  BY <1>4 DEF Connects
<1>10. AirType'
  BY <1>0, <1>8, <1>9 DEF AirType
<1>11. Head(l) \in Named(creds) /\ \A k \in 1..Len(Tail(l)) : Tail(l)[k] \in Named(creds)
  <2>1. 1 \in 1..Len(l) /\ Len(l) \in Nat
    BY <1>5, <1>7
  <2>2. ASSUME NEW k \in 1..Len(Tail(l)) PROVE Tail(l)[k] \in Named(creds)
    <3>1. k \in 1..Len(l) - 1 /\ k + 1 \in 1..Len(l)
      BY <1>8, <2>1
    <3> QED
      BY <1>6, <1>8, <3>1
  <2> QED
    BY <1>6, <1>8, <2>1, <2>2
<1> QED
  BY <1>9, <1>10, <1>11 DEF TriedInv, Known, Named

(* The next of what is left to try                                         *)
LEMMA NextTried ==
  ASSUME AirType, TriedInv, TriesNext, creds' = creds
  PROVE  AirType' /\ TriedInv'
<1>1. /\ queue \in Seq(Ssids) /\ queue # <<>> /\ handler' = handler
      /\ \A k \in 1..Len(queue) : queue[k] \in Named(creds)
  BY DEF AirType, TriedInv, TriesNext, Known
<1>2. Len(queue) \in Nat /\ Len(queue) > 0
  BY <1>1, EmptySeq, LenProperties
<1>3. /\ Head(queue) = queue[1] /\ Head(queue) \in Ssids /\ Tail(queue) \in Seq(Ssids)
      /\ Len(Tail(queue)) = Len(queue) - 1
      /\ \A k \in 1..Len(queue) - 1 : Tail(queue)[k] = queue[k + 1]
  BY <1>1, <1>2
<1>4. candidate' = {Head(queue)} /\ queue' = Tail(queue) /\ station' = "connecting"
  BY DEF TriesNext, Connects
<1>5. AirType'
  BY <1>1, <1>3, <1>4 DEF AirType
<1>6. Head(queue) \in Named(creds) /\ \A k \in 1..Len(Tail(queue)) : Tail(queue)[k] \in Named(creds)
  <2>1. 1 \in 1..Len(queue)
    BY <1>2
  <2>2. ASSUME NEW k \in 1..Len(Tail(queue)) PROVE Tail(queue)[k] \in Named(creds)
    <3>1. k \in 1..Len(queue) - 1 /\ k + 1 \in 1..Len(queue)
      BY <1>2, <1>3
    <3> QED
      BY <1>1, <1>3, <3>1
  <2> QED
    BY <1>1, <1>3, <2>1, <2>2
<1> QED
  BY <1>4, <1>5, <1>6 DEF TriedInv, Known, Named

LEMMA StoreNext ==
  ASSUME StoreType, ApType, [Next]_vars
  PROVE  StoreType'
<1>0. creds \in Lists /\ legacy \in Lists
  BY DEF StoreType
<1>1. CASE UNCHANGED store
  BY <1>1 DEF StoreType
<1>2. CASE SaveWrites \/ SaveEnds
  BY <1>2, SaveStepType
<1>3. CASE Runtime
  <2>1. CASE Initialises
    BY <2>1, <1>0, LoadType, SaveType DEF Initialises, Migrates
  <2>2. CASE Migrated
    BY <2>2, <1>2 DEF Migrated, SaveEnds
  <2>3. CASE SeedBegins
    <3>1. PICK s \in Build : Save(<<New(s)>>)
      BY <2>3 DEF SeedBegins, Seeds
    <3>2. New(s) \in Entry
      <4>1. s \in Ssids /\ 0 \in 0..Capacity
        BY StoreAssumption
      <4> QED
        BY <4>1 DEF New, Entry
    <3>3. <<New(s)>> \in Lists
      BY <3>2, SingleList
    <3> QED
      BY <3>1, <3>3, SaveType
  <2>4. CASE Seeded
    BY <2>4, <1>1, <1>2 DEF Seeded
  <2>5. CASE Starts \/ HasNone \/ Evicts \/ Joins \/ GivesUp \/ Stops \/ Stopped \/ PortalOpens
             \/ Switches \/ Switched \/ Configured \/ TimesOut \/ PortalClosed \/ Joined
    <3>1. UNCHANGED store
      BY <2>5 DEF Starts, HasNone, Evicts, Joins, GivesUp, Stops, Stopped, PortalOpens, Switches,
                  Switched, Configured, TimesOut, PortalClosed, Joined
    <3> QED
      BY <3>1, <1>1
  <2> QED
    BY <1>3, <2>1, <2>2, <2>3, <2>4, <2>5 DEF Runtime
<1>4. CASE SaveSteps
  BY <1>4, <1>2 DEF SaveSteps
<1>5. CASE AirSteps \/ UserSteps \/ Exits \/ OutageTask \/ LongPress
  <2>1. UNCHANGED store
    BY <1>5 DEF AirSteps, UserSteps, ExitAsked, Submitted, Exits, ExitTask, ExitTells, OutageTask,
                OutageLooks, OutageChecks, OutageSubmits, LongPress
  <2> QED
    BY <2>1, <1>1
<1>6. CASE AirJoins
  BY <1>6, <1>0, MarkedList, SaveType DEF AirJoins, GotIp
<1>7. CASE Callbacks
  BY <1>7, <1>1, <1>2 DEF Callbacks, TellsConnected, MarkEnds, Drops
<1>8. CASE ListSteps
  BY <1>8, <1>0, RemovedList, PreferredList, SaveType DEF ListSteps, ListEdited
<1>9. CASE FormWaits
  BY <1>9, <1>0, AddedList, SaveType DEF FormWaits, FormJoins, ApType
<1>10. CASE FormEnds
  BY <1>10, <1>1, <1>2 DEF FormEnds, FormGivesUp, FormSaved, EditEnds, SaveEnds
<1>11. CASE PowerFails
  BY <1>11, EmptyList DEF PowerFails, StoreRestarts, StoreType
<1>12. CASE UNCHANGED vars
  BY <1>12, <1>1
<1> QED
  BY <1>3, <1>4, <1>5, <1>6, <1>7, <1>8, <1>9, <1>10, <1>11, <1>12 DEF Next

(* The list only changes while nothing is being tried: at a restart, while *)
(* the portal is open or closing, and once a network has been joined.      *)
LEMMA TriedNext ==
  ASSUME NetworkInv, KnownInv, [Next]_vars
  PROVE  AirType' /\ TriedInv'
<1> USE DEF NetworkInv, KnownInv
<1>1. CASE UNCHANGED <<creds, air>>
  BY <1>1 DEF AirType, TriedInv, Known, Named
<1>2. CASE UNCHANGED <<queue, candidate, handler>> /\ Scans
  BY <1>2 DEF AirType, TriedInv, Scans
<1>3. CASE StationStops
  BY <1>3 DEF StationStops, AirType, TriedInv
<1>4. CASE station = "off" /\ UNCHANGED air
  BY <1>4 DEF AirType, TriedInv
<1>5. CASE Runtime
  <2>1. CASE Initialises \/ Migrated \/ SeedBegins \/ Seeded
    BY <2>1, <1>4 DEF Initialises, Migrated, SeedBegins, Seeded, StationInv, OffPlaces, Early
  <2>2. CASE Starts \/ Evicts
    BY <2>2, <1>1, <1>2 DEF Starts, Evicts, StationStarts
  <2>3. CASE Stops \/ Switches
    BY <2>3, <1>3 DEF Stops, Switches
  <2>4. CASE HasNone \/ Joins \/ GivesUp \/ Stopped \/ PortalOpens \/ Switched \/ Configured
             \/ TimesOut \/ PortalClosed \/ Joined
    <3>1. UNCHANGED <<creds, air>>
      BY <2>4 DEF HasNone, Joins, GivesUp, Stopped, PortalOpens, Switched, Configured, TimesOut,
                  PortalClosed, Joined
    <3> QED
      BY <3>1, <1>1
  <2> QED
    BY <1>5, <2>1, <2>2, <2>3, <2>4 DEF Runtime
<1>6. CASE SaveSteps \/ UserSteps \/ Exits \/ OutageTask \/ LongPress
  <2>1. UNCHANGED <<creds, air>>
    BY <1>6 DEF SaveSteps, SaveWrites, UserSteps, ExitAsked, Submitted, Exits, ExitTask, ExitTells,
                Others, OutageTask, OutageLooks, OutageChecks, OutageSubmits, LongPress
  <2> QED
    BY <2>1, <1>1
<1>7. CASE AirSteps
  <2>0. creds' = creds
    BY <1>7 DEF AirSteps
  <2>1. CASE Found
    BY <2>0, <2>1, FoundTried
  <2>2. CASE TriesNext
    BY <2>0, <2>2, NextTried
  <2>3. CASE FoundNone
    BY <2>3, EmptySeq DEF FoundNone, AirType, TriedInv
  <2>4. CASE ScanUnreadable \/ PassEnds \/ LinkLost \/ Rescans
    BY <2>4 DEF ScanUnreadable, PassEnds, LinkLost, Rescans, AirType, TriedInv
  <2> QED
    BY <1>7, <2>1, <2>2, <2>3, <2>4 DEF AirSteps
<1>8. CASE AirJoins
  BY <1>8, EmptySeq DEF AirJoins, GotIp, AirType, TriedInv
<1>9. CASE Callbacks
  <2>1. CASE TellsConnected
    BY <2>1 DEF TellsConnected, MarkEnds, StationInv, AirType, TriedInv
  <2>2. CASE Drops
    BY <2>2 DEF Drops, Dropped, Scans, AirType, TriedInv
  <2> QED
    BY <1>9, <2>1, <2>2 DEF Callbacks
<1>10. CASE ListSteps \/ FormWaits
  BY <1>10, <1>4 DEF ListSteps, ListEdited, FormWaits, FormJoins, StationInv
<1>11. CASE FormEnds
  BY <1>11, <1>1, <1>4 DEF FormEnds, FormGivesUp, FormSaved, EditEnds, FormInv
<1>12. CASE PowerFails
  BY <1>12 DEF PowerFails, LinkRestarts, AirType, TriedInv
<1>13. CASE UNCHANGED vars
  BY <1>13, <1>1
<1> QED
  BY <1>5, <1>6, <1>7, <1>8, <1>9, <1>10, <1>11, <1>12, <1>13 DEF Next

(* The station starts again only when the request has ended: the runtime   *)
(* task waits for the save, and the portal's stop for the request.         *)
LEMMA FormNext ==
  ASSUME NetworkInv, KnownInv, [Next]_vars
  PROVE  ApType' /\ FormInv'
<1> USE DEF NetworkInv, KnownInv, ApType, FormInv
<1>1. CASE UNCHANGED <<saving, station, form, entered>>
  BY <1>1
<1>2. CASE Runtime
  <2>1. CASE Initialises \/ Migrated \/ SeedBegins \/ Seeded
    <3>1. form = "idle" /\ UNCHANGED <<form, entered>>
      BY <2>1 DEF Initialises, Migrated, SeedBegins, Seeded, EarlyInv, Early
    <3> QED
      BY <3>1
  <2>2. CASE Starts
    <3>1. saving = "none" /\ UNCHANGED <<form, entered>>
      BY <2>2 DEF Starts, PortalStops
    <3> QED
      BY <3>1
  <2>3. CASE Evicts
    BY <2>3 DEF Evicts
  <2>4. CASE Stops
    BY <2>4 DEF Stops, StationStops
  <2>5. CASE Switches
    BY <2>5 DEF Switches, StationStops, PortalStarts
  <2>6. CASE HasNone \/ Joins \/ GivesUp \/ Stopped \/ PortalOpens \/ Switched \/ Configured
             \/ TimesOut \/ PortalClosed \/ Joined
    <3>1. UNCHANGED <<saving, station, form, entered>>
      BY <2>6 DEF HasNone, Joins, GivesUp, Stopped, PortalOpens, PortalStarts, Switched, Configured,
                  TimesOut, PortalStops, PortalClosed, Joined
    <3> QED
      BY <3>1, <1>1
  <2> QED
    BY <1>2, <2>1, <2>2, <2>3, <2>4, <2>5, <2>6 DEF Runtime
<1>3. CASE SaveSteps
  BY <1>3 DEF SaveSteps, SaveWrites
<1>4. CASE AirSteps \/ AirJoins
  <2>1. UNCHANGED <<form, entered>> /\ station # "off"
    BY <1>4 DEF AirSteps, AirJoins, Found, FoundNone, ScanUnreadable, TriesNext, PassEnds, LinkLost,
                Rescans, GotIp
  <2> QED
    BY <2>1
<1>5. CASE Callbacks
  <2>1. UNCHANGED <<form, entered>> /\ station # "off"
    BY <1>5 DEF Callbacks, TellsConnected, MarkEnds, Drops, Dropped, StationInv
  <2> QED
    BY <2>1
<1>6. CASE UserSteps
  BY <1>6 DEF UserSteps, ExitAsked, Submitted
<1>7. CASE ListSteps \/ FormWaits
  <2>1. saving' = "erased" /\ station' = "off"
    BY <1>7 DEF ListSteps, FormWaits, ListEdited, FormJoins, Save, StationInv
  <2> QED
    BY <1>7, <2>1 DEF ListSteps, FormWaits, ListEdited, FormJoins
<1>8. CASE FormEnds
  BY <1>8 DEF FormEnds, FormGivesUp, FormSaved, EditEnds
<1>9. CASE Exits \/ OutageTask \/ LongPress
  <2>1. UNCHANGED <<saving, station, form, entered>>
    BY <1>9 DEF Exits, ExitTask, ExitTells, ExitChecks, ExitEnters, ExitCloses, ExitNotifies, Others,
                OutageTask, OutageLooks, OutageChecks, OutageSubmits, LongPress
  <2> QED
    BY <2>1, <1>1
<1>10. CASE PowerFails
  BY <1>10 DEF PowerFails, LinkRestarts
<1>11. CASE UNCHANGED vars
  BY <1>11, <1>1
<1> QED
  BY <1>2, <1>3, <1>4, <1>5, <1>6, <1>7, <1>8, <1>9, <1>10, <1>11 DEF Next

LEMMA KnownInit == Init => KnownInv
<1> SUFFICES ASSUME Init PROVE KnownInv
  OBVIOUS
<1> USE DEF Init, StoreInit, LinkInit
<1> DEFINE one == <<[ssid |-> Before, seen |-> 1]>>
<1>1. one \in Lists /\ <<>> \in Lists
  <2>1. [ssid |-> Before, seen |-> 1] \in Entry
    BY StoreAssumption DEF Entry
  <2> QED
    BY <2>1, SingleList, EmptyList
<1>2. \/ slot = <<>> /\ pointed \in BOOLEAN /\ legacy \in {<<>>, one}
      \/ slot = [spare |-> one] /\ pointed = TRUE /\ legacy = one
  OBVIOUS
<1> HIDE DEF one
<1>3. legacy \in Lists /\ pointed \in BOOLEAN
  BY <1>1, <1>2
<1>4. slot \in UNION {[E -> Lists] : E \in SUBSET {"used", "spare"}} /\ acked \in Lists
  <2>1. CASE slot = <<>>
    <3>1. slot \in [{} -> Lists]
      BY <2>1
    <3>2. acked = legacy
      BY <2>1 DEF Loadable, Readable
    <3> QED
      BY <1>3, <3>1, <3>2, SlotIs
  <2>2. CASE slot = [spare |-> one] /\ pointed = TRUE
    <3>1. slot \in [{"spare"} -> Lists] /\ slot["spare"] = one
      BY <1>1, <2>2
    <3>2. acked = one
      BY <2>2, <3>1 DEF Loadable, Readable
    <3> QED
      BY <1>1, <3>1, <3>2, SlotIs
  <2> QED
    BY <1>2, <2>1, <2>2
<1>5. StoreType
  BY <1>1, <1>3, <1>4 DEF StoreType
<1>6. AirType /\ ApType /\ FormInv /\ TriedInv
  BY EmptySeq DEF AirType, ApType, FormInv, TriedInv
<1> QED
  BY <1>5, <1>6 DEF KnownInv

LEMMA KnownAlways == Spec => []KnownInv
<1>1. NetworkInv /\ KnownInv /\ [Next]_vars => KnownInv'
  BY StoreNext, TriedNext, FormNext DEF KnownInv
<1> QED
  BY <1>1, KnownInit, Invariant, PTL DEF Spec

(* A network that is being tried, or waits to be, is one of those known:   *)
(* the list in hand does not change under the station, so that the network *)
(* joined is one MarkSuccessful finds and MarksLatestFirst is about.       *)
(* (wifi_station.cc:275, wifi_credential_store.cc:280)                     *)
THEOREM TriesOnlyKnown ==
  Spec => [](station = "connecting" =>
               /\ candidate \subseteq Named(creds)
               /\ \A k \in 1..Len(queue) : queue[k] \in Named(creds))
<1>1. KnownInv => (station = "connecting" =>
                     /\ candidate \subseteq Named(creds)
                     /\ \A k \in 1..Len(queue) : queue[k] \in Named(creds))
  BY DEF KnownInv, TriedInv, Known
<1> QED
  BY <1>1, KnownAlways, PTL

LEMMA FlagTypeNext ==
  ASSUME NetworkInv', FlagType, [Next]_vars
  PROVE  FlagType'
<1>0. linked' \in BOOLEAN /\ flag' \in BOOLEAN
  BY DEF NetworkInv, StationInv, FlagInv
<1> DEFINE Bits == /\ CONNECTED' \in BOOLEAN /\ CONFIG_EXIT' \in BOOLEAN /\ OUTAGE_CHANGE' \in BOOLEAN
                   /\ portal' \in BOOLEAN /\ wanted' \in BOOLEAN
           Told == /\ suppressed' \in BOOLEAN /\ outage' \in BOOLEAN /\ prompted' \in BOOLEAN
                   /\ current' \in BOOLEAN /\ unnoticed' \in BOOLEAN
<1>1. ASSUME NEW on \in BOOLEAN, Suppress(on) PROVE Told /\ OUTAGE_CHANGE' \in BOOLEAN
  BY <1>1 DEF Suppress, FlagType
<1>2. ASSUME BeginsOutage PROVE Told /\ OUTAGE_CHANGE' \in BOOLEAN
  BY <1>2 DEF BeginsOutage, FlagType
<1>3. ASSUME UNCHANGED watch PROVE Told /\ OUTAGE_CHANGE' \in BOOLEAN
  BY <1>3 DEF FlagType
<1>4. UNCHANGED bits => CONNECTED' \in BOOLEAN /\ CONFIG_EXIT' \in BOOLEAN
  BY DEF FlagType
<1>5. UNCHANGED ap \/ UNCHANGED <<portal, wanted>> => portal' \in BOOLEAN /\ wanted' \in BOOLEAN
  BY DEF FlagType
<1>6. CASE Runtime
  <2>1. Told /\ OUTAGE_CHANGE' \in BOOLEAN
    BY <1>6, <1>1, <1>2, <1>3 DEF Runtime, Initialises, Migrated, SeedBegins, Seeded, Starts, HasNone,
       Evicts, Joins, GivesUp, Stops, Stopped, PortalOpens, AfterOpening, Switches, Switched,
       Configured, TimesOut, PortalClosed, Joined, Elsewhere, TellsDisconnected
  <2>2. CONNECTED' \in BOOLEAN /\ CONFIG_EXIT' \in BOOLEAN
    BY <1>6, <1>4 DEF FlagType, Runtime, Initialises, Migrated, SeedBegins, Seeded, Starts, HasNone,
       Evicts, Joins, GivesUp, Stops, Stopped, PortalOpens, Switches, Switched, Configured, TimesOut,
       PortalClosed, Joined, TellsDisconnected
  <2>3. portal' \in BOOLEAN /\ wanted' \in BOOLEAN
    BY <1>6, <1>5 DEF FlagType, Runtime, Initialises, Migrated, SeedBegins, Seeded, Starts, HasNone,
       Evicts, Joins, GivesUp, Stops, Stopped, PortalOpens, Switches, Switched, Configured, TimesOut,
       PortalClosed, Joined, PortalStops, PortalStarts
  <2> QED
    BY <1>0, <2>1, <2>2, <2>3 DEF FlagType
<1>7. CASE SaveSteps \/ AirSteps \/ AirJoins \/ UserSteps \/ ListSteps \/ FormWaits \/ FormEnds
  <2>1. UNCHANGED <<bits, watch, portal>>
    BY <1>7 DEF SaveSteps, AirSteps, AirJoins, UserSteps, ListSteps, FormWaits, FormEnds, Others,
                ExitAsked, Submitted, ListEdited, FormJoins, FormGivesUp, FormSaved, EditEnds
  <2>2. wanted' \in BOOLEAN
    BY <1>7 DEF FlagType, SaveSteps, AirSteps, AirJoins, UserSteps, ListSteps, FormWaits, FormEnds,
                ExitAsked, Submitted, ListEdited, FormJoins, FormGivesUp, FormSaved, EditEnds, Schedules
  <2> QED
    BY <1>0, <1>3, <1>4, <2>1, <2>2 DEF FlagType
<1>8. CASE Callbacks
  <2>1. CASE TellsConnected
    <3>1. Told /\ OUTAGE_CHANGE' \in BOOLEAN
      BY <2>1 DEF TellsConnected, FlagType
    <3>2. Bits
      BY <2>1, <3>1 DEF TellsConnected, FlagType
    <3> QED
      BY <1>0, <3>1, <3>2 DEF FlagType
  <2>2. CASE Drops
    BY <1>0, <1>2, <2>2 DEF Drops, TellsDisconnected, FlagType
  <2> QED
    BY <1>8, <2>1, <2>2 DEF Callbacks
<1>9. CASE Exits
  <2>1. PICK i \in DOMAIN exits : ExitTask(i)
    BY <1>9 DEF Exits
  <2>2. portal' \in BOOLEAN /\ wanted' \in BOOLEAN
    BY <2>1 DEF FlagType, ExitTask, ExitTells, ExitChecks, ExitEnters, Closes, ExitCloses, ExitNotifies
  <2>3. UNCHANGED watch /\ CONNECTED' = CONNECTED /\ (CONFIG_EXIT' = CONFIG_EXIT \/ CONFIG_EXIT' = TRUE)
    BY <2>1 DEF ExitTask, ExitTells, Others, Elsewhere
  <2> QED
    BY <1>0, <1>3, <2>2, <2>3 DEF FlagType
<1>10. CASE OutageTask
  <2>1. Told /\ OUTAGE_CHANGE' \in BOOLEAN
    BY <1>10 DEF OutageTask, OutageLooks, OutageChecks, OutageSubmits, FlagType
  <2>2. UNCHANGED <<bits, portal, wanted>>
    BY <1>10 DEF OutageTask, OutageLooks, OutageChecks, OutageSubmits
  <2> QED
    BY <1>0, <2>1, <2>2 DEF FlagType
<1>11. CASE LongPress
  BY <1>0, <1>1, <1>11 DEF LongPress, FlagType
<1>12. CASE PowerFails
  BY <1>0, <1>12 DEF PowerFails, LinkRestarts, FlagType
<1>13. CASE UNCHANGED vars
  BY <1>0, <1>13 DEF FlagType
<1> QED
  BY <1>6, <1>7, <1>8, <1>9, <1>10, <1>11, <1>12, <1>13 DEF Next

LEMMA TaskTypeNext ==
  ASSUME TaskType, [Next]_vars
  PROVE  TaskType'
<1> USE DEF TaskType
<1>1. CASE UNCHANGED <<runtime, task>>
  BY <1>1
<1>2. CASE Runtime
  <2> USE DEF Goes, Fails, Elsewhere
  <2>1. CASE Initialises \/ Migrated \/ SeedBegins \/ Seeded \/ Starts \/ HasNone \/ Evicts \/ Joins
             \/ GivesUp \/ Stops
    BY <2>1 DEF Initialises, Migrated, SeedBegins, Seeded, Starts, HasNone, Evicts, Joins, GivesUp,
                Stops
  <2>2. CASE Stopped \/ PortalOpens \/ Switches \/ Switched \/ Configured \/ TimesOut \/ PortalClosed
             \/ Joined
    BY <2>2 DEF Stopped, PortalOpens, AfterOpening, Switches, Switched, Configured, TimesOut,
                PortalClosed, Joined
  <2> QED
    BY <1>2, <2>1, <2>2 DEF Runtime
<1>3. CASE \/ SaveSteps \/ AirSteps \/ AirJoins \/ Callbacks \/ UserSteps \/ ListSteps \/ FormWaits
           \/ FormEnds \/ Exits
  <2>1. UNCHANGED <<runtime, task>>
    BY <1>3 DEF SaveSteps, AirSteps, AirJoins, Callbacks, TellsConnected, Drops, UserSteps, ListSteps,
                FormWaits, FormEnds, Exits, ExitTask, ExitTells, Others, Elsewhere
  <2> QED
    BY <2>1, <1>1
<1>4. CASE OutageTask
  BY <1>4 DEF OutageTask, OutageLooks, OutageChecks, OutageSubmits
<1>5. CASE LongPress \/ PowerFails
  BY <1>5 DEF LongPress, PowerFails
<1>6. CASE UNCHANGED vars
  BY <1>6, <1>1
<1> QED
  BY <1>2, <1>3, <1>4, <1>5, <1>6 DEF Next

(* Every variable keeps its type: the list in hand and those in flash name *)
(* no network twice and fit in the store, whatever is added, removed,      *)
(* preferred, marked or migrated, and whenever the power fails.            *)
THEOREM Typed == Spec => []TypeOK
<1>1. Init => FlagType /\ TaskType
  BY DEF Init, StoreInit, LinkInit, FlagType, TaskType
<1>2. NetworkInv' /\ FlagType /\ TaskType /\ [Next]_vars => FlagType' /\ TaskType'
  BY FlagTypeNext, TaskTypeNext
<1>3. NetworkInv /\ KnownInv /\ FlagType /\ TaskType => TypeOK
  BY DEF NetworkInv, ExitsInv, ExitPlaces, KnownInv, AirType, ApType, FlagType, TaskType, TypeOK,
         LinkType
<1> QED
  BY <1>1, <1>2, <1>3, Invariant, KnownAlways, PTL DEF Spec
=============================================================================
