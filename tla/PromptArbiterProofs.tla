------------------------- MODULE PromptArbiterProofs -------------------------
(***************************************************************************)
(* Proofs about PromptArbiter, for every set of prompts and every capacity. *)
(***************************************************************************)
EXTENDS PromptArbiter, FiniteSetTheorems, TLAPS

USE DEF vars, arbiter, caller, history

(* The types are kept: first the owner's state, ...                        *)
LEMMA OwnerTypeStep == TypeOK /\ OneOfAKind /\ [Next]_vars => OwnerType'
<1> SUFFICES ASSUME TypeOK, OneOfAKind, [Next]_vars PROVE OwnerType'
  OBVIOUS
<1> USE DEF TypeOK, OwnerType, CallerType, Prompts, Result
<1>1. CASE OwnerWakes
  BY <1>1 DEF OwnerWakes
<1>2. CASE Take
  <2>1. PICK p \in Playable : table' = {q \in table : Relevant(q)} \ {p} /\ hand' = p
                              /\ playing' = p
    BY <1>2 DEF Take
  <2> QED
    BY <1>2, <2>1 DEF Take, Playable
<1>3. CASE TakeNothing
  BY <1>3 DEF TakeNothing
<1>4. CASE Check
  BY <1>4 DEF Check, OneOfAKind
<1>5. CASE PlayEnds
  BY <1>5 DEF PlayEnds, OneOfAKind
<1>6. CASE Main
  <2>1. ASSUME NEW p \in Cues, PlayPrompt(p) PROVE OwnerType'
    <3>1. table' \subseteq Prompts
      BY <2>1 DEF PlayPrompt, Submit
    <3> QED
      BY <2>1, <3>1 DEF PlayPrompt
  <2> QED
    BY <1>6, <2>1 DEF Main, ConversationBegins, WaitReturns, WaitTimesOut, NextPrompt,
                      ConversationEnds
<1>7. CASE NetworkChanges
  BY <1>7 DEF NetworkChanges
<1>8. ASSUME NEW p \in Network, AnnounceNetwork(p) PROVE OwnerType'
  <2>1. table' \subseteq Prompts
    BY <1>8 DEF AnnounceNetwork, Submit
  <2> QED
    BY <1>8, <2>1 DEF AnnounceNetwork
<1>9. ASSUME NEW c \in Callers, Notify(c) PROVE OwnerType'
  BY <1>9 DEF Notify
<1>10. CASE UNCHANGED vars
  BY <1>10
<1> QED
  BY <1>1, <1>2, <1>3, <1>4, <1>5, <1>6, <1>7, <1>8, <1>9, <1>10 DEF Next, Owner

(* ... then the callers', ...                                              *)
LEMMA CallerTypeStep == TypeOK /\ [Next]_vars => CallerType'
<1> SUFFICES ASSUME TypeOK, [Next]_vars PROVE CallerType'
  OBVIOUS
<1> USE DEF TypeOK, CallerType, Result, Callers
<1>1. CASE Owner
  BY <1>1 DEF Owner, OwnerWakes, Take, TakeNothing, Check, PlayEnds
<1>2. ASSUME NEW p \in Cues, PlayPrompt(p) PROVE CallerType'
  <2>1. owes' \subseteq Callers
    BY <1>2 DEF PlayPrompt, Submit
  <2> QED
    BY <1>2, <2>1 DEF PlayPrompt
<1>3. CASE ConversationBegins \/ NextPrompt \/ WaitTimesOut
  BY <1>3 DEF ConversationBegins, NextPrompt, WaitTimesOut
<1>4. CASE WaitReturns
  BY <1>4 DEF WaitReturns, OwnerType
<1>5. CASE ConversationEnds
  <2>1. owes' \subseteq Callers
    BY <1>5 DEF ConversationEnds
  <2> QED
    BY <1>5, <2>1 DEF ConversationEnds
<1>6. CASE NetworkChanges
  BY <1>6 DEF NetworkChanges
<1>7. ASSUME NEW p \in Network, AnnounceNetwork(p) PROVE CallerType'
  <2>1. owes' \subseteq Callers
    BY <1>7 DEF AnnounceNetwork, Submit
  <2>2. due' \subseteq Network /\ raised' \subseteq Network
    BY <1>7 DEF AnnounceNetwork
  <2> QED
    BY <1>7, <2>1, <2>2 DEF AnnounceNetwork
<1>8. ASSUME NEW c \in Callers, Notify(c) PROVE CallerType'
  BY <1>8 DEF Notify
<1>9. CASE UNCHANGED vars
  BY <1>9
<1> QED
  BY <1>1, <1>2, <1>3, <1>4, <1>5, <1>6, <1>7, <1>8, <1>9 DEF Next, Main

(* ... then the flags.                                                     *)
LEMMA FlagTypeStep == TypeOK /\ [Next]_vars => FlagType'
<1> SUFFICES ASSUME TypeOK, [Next]_vars PROVE FlagType'
  OBVIOUS
<1> USE DEF TypeOK, FlagType
<1>1. CASE Owner
  BY <1>1, Zenon DEF Owner, OwnerWakes, Take, TakeNothing, Check, PlayEnds
<1>2. CASE Main
  BY <1>2, Zenon DEF Main, ConversationBegins, PlayPrompt, WaitReturns, WaitTimesOut, NextPrompt,
                      ConversationEnds
<1>3. CASE NetworkChanges
  BY <1>3, Zenon DEF NetworkChanges
<1>4. ASSUME NEW p \in Network, AnnounceNetwork(p) PROVE FlagType'
  BY <1>4, Zenon DEF AnnounceNetwork
<1>5. ASSUME NEW c \in Callers, Notify(c) PROVE FlagType'
  BY <1>5, Zenon DEF Notify
<1>6. CASE UNCHANGED vars
  BY <1>6, Zenon
<1> QED
  BY <1>1, <1>2, <1>3, <1>4, <1>5, <1>6 DEF Next

LEMMA InitInv == Init => ArbiterInv
<1> SUFFICES ASSUME Init PROVE ArbiterInv
  OBVIOUS
<1> USE DEF Init
<1>1. OwnerType /\ CallerType
  BY DEF OwnerType, CallerType, Result, Prompts
<1>2. FlagType
  BY Zenon DEF FlagType
<1>3. OneOfAKind /\ DueIsRelevant
  BY DEF OneOfAKind, DueIsRelevant
<1>4. MainActive
  BY DEF MainActive
<1>5. OnlyTheAwaited /\ PendingUntilHeard /\ NotifiedBehind
  BY DEF OnlyTheAwaited, InHand, PendingUntilHeard, NotifiedBehind
<1> QED
  BY <1>1, <1>2, <1>3, <1>4, <1>5 DEF ArbiterInv, TypeOK

(* What the owner holds is out of the table and marked as playing.         *)
LEMMA OneOfAKindStep == TypeOK /\ OneOfAKind /\ [Next]_vars => OneOfAKind'
<1> SUFFICES ASSUME TypeOK, OneOfAKind, [Next]_vars PROVE OneOfAKind'
  OBVIOUS
<1> USE DEF OneOfAKind
<1>1. CASE OwnerWakes
  BY <1>1 DEF OwnerWakes
<1>2. CASE Take
  <2>1. PICK p \in Playable : table' = {q \in table : Relevant(q)} \ {p} /\ hand' = p
                              /\ playing' = p
    BY <1>2 DEF Take
  <2> QED
    BY <1>2, <2>1 DEF Take, Playable, TypeOK, OwnerType
<1>3. CASE TakeNothing
  BY <1>3 DEF TakeNothing
<1>4. CASE Check
  BY <1>4 DEF Check
<1>5. CASE PlayEnds
  BY <1>5 DEF PlayEnds
<1>6. ASSUME NEW p \in Cues, PlayPrompt(p) PROVE OneOfAKind'
  BY <1>6 DEF PlayPrompt, Submit, Pending
<1>7. CASE ConversationBegins \/ WaitReturns \/ WaitTimesOut \/ NextPrompt \/ ConversationEnds
  BY <1>7 DEF ConversationBegins, WaitReturns, WaitTimesOut, NextPrompt, ConversationEnds
<1>8. CASE NetworkChanges
  BY <1>8 DEF NetworkChanges
<1>9. ASSUME NEW p \in Network, AnnounceNetwork(p) PROVE OneOfAKind'
  BY <1>9 DEF AnnounceNetwork, Submit, Pending
<1>10. ASSUME NEW c \in Callers, Notify(c) PROVE OneOfAKind'
  BY <1>10 DEF Notify
<1>11. CASE UNCHANGED vars
  BY <1>11
<1> QED
  BY <1>1, <1>2, <1>3, <1>4, <1>5, <1>6, <1>7, <1>8, <1>9, <1>10, <1>11 DEF Next, Owner, Main

(* The conversation is active exactly while the main task is in one, and   *)
(* what it waits for is one of its prompts.                                *)
LEMMA MainStep ==
  /\ MainActive /\ (main = "waiting" => awaited \in Cues) /\ [Next]_vars
  => MainActive' /\ (main' = "waiting" => awaited' \in Cues)
<1> SUFFICES ASSUME MainActive, main = "waiting" => awaited \in Cues, [Next]_vars
             PROVE  MainActive' /\ (main' = "waiting" => awaited' \in Cues)
  OBVIOUS
<1> USE DEF MainActive
<1>1. CASE Owner
  BY <1>1 DEF Owner, OwnerWakes, Take, TakeNothing, Check, PlayEnds
<1>2. CASE Main
  BY <1>2 DEF Main, ConversationBegins, PlayPrompt, WaitReturns, WaitTimesOut, NextPrompt,
              ConversationEnds
<1>3. CASE NetworkChanges
  BY <1>3 DEF NetworkChanges
<1>4. ASSUME NEW p \in Network, AnnounceNetwork(p)
      PROVE  MainActive' /\ (main' = "waiting" => awaited' \in Cues)
  BY <1>4 DEF AnnounceNetwork
<1>5. ASSUME NEW c \in Callers, Notify(c)
      PROVE  MainActive' /\ (main' = "waiting" => awaited' \in Cues)
  BY <1>5 DEF Notify
<1>6. CASE UNCHANGED vars
  BY <1>6
<1> QED
  BY <1>1, <1>2, <1>3, <1>4, <1>5, <1>6 DEF Next

(* What is due is true of the network as it is.                            *)
LEMMA DueStep == CallerType /\ DueIsRelevant /\ [Next]_vars => DueIsRelevant'
<1> SUFFICES ASSUME CallerType, DueIsRelevant, [Next]_vars PROVE DueIsRelevant'
  OBVIOUS
<1> USE DEF DueIsRelevant, Relevant
<1>1. CASE Owner
  BY <1>1 DEF Owner, OwnerWakes, Take, TakeNothing, Check, PlayEnds
<1>2. CASE Main
  BY <1>2 DEF Main, ConversationBegins, PlayPrompt, WaitReturns, WaitTimesOut, NextPrompt,
              ConversationEnds
<1>3. CASE NetworkChanges
  BY <1>3, KindAssumption DEF NetworkChanges
<1>4. ASSUME NEW p \in Network, AnnounceNetwork(p) PROVE DueIsRelevant'
  BY <1>4 DEF AnnounceNetwork
<1>5. ASSUME NEW c \in Callers, Notify(c) PROVE DueIsRelevant'
  BY <1>5 DEF Notify
<1>6. CASE UNCHANGED vars
  BY <1>6
<1> QED
  BY <1>1, <1>2, <1>3, <1>4, <1>5, <1>6 DEF Next


(* Until a wait times out, no prompt of the conversation is about but the  *)
(* one it waits for.                                                       *)
LEMMA OnlyTheAwaitedStep ==
  ASSUME ArbiterInv, OnlyTheAwaited, PendingUntilHeard, [Next]_vars, ~late'
  PROVE  OnlyTheAwaited'
<1> USE KindAssumption DEF ArbiterInv, OnlyTheAwaited, InHand
<1>1. CASE OwnerWakes
  BY <1>1 DEF OwnerWakes
<1>2. CASE Take
  <2>1. PICK p \in Playable : table' = {q \in table : Relevant(q)} \ {p} /\ hand' = p
                              /\ playing' = p
    BY <1>2 DEF Take
  <2> QED
    BY <1>2, <2>1 DEF Take, Playable
<1>3. CASE TakeNothing
  BY <1>3 DEF TakeNothing
<1>4. CASE Check
  BY <1>4 DEF Check
<1>5. CASE PlayEnds
  BY <1>5 DEF PlayEnds
<1>6. ASSUME NEW p \in Cues, PlayPrompt(p) PROVE OnlyTheAwaited'
  BY <1>6 DEF PlayPrompt, Submit, Refused
<1>7. CASE WaitReturns
  BY <1>7 DEF WaitReturns, Pending, OneOfAKind
<1>8. CASE WaitTimesOut
  BY <1>8 DEF WaitTimesOut
<1>9. CASE ConversationBegins \/ NextPrompt \/ ConversationEnds
  BY <1>9 DEF ConversationBegins, NextPrompt, ConversationEnds
<1>10. CASE NetworkChanges
  BY <1>10 DEF NetworkChanges
<1>11. ASSUME NEW p \in Network, AnnounceNetwork(p) PROVE OnlyTheAwaited'
  BY <1>11 DEF AnnounceNetwork, Submit, Network
<1>12. ASSUME NEW c \in Callers, Notify(c) PROVE OnlyTheAwaited'
  BY <1>12 DEF Notify
<1>13. CASE UNCHANGED vars
  BY <1>13
<1> QED
  BY <1>1, <1>2, <1>3, <1>4, <1>5, <1>6, <1>7, <1>8, <1>9, <1>10, <1>11, <1>12, <1>13
     DEF Next, Owner, Main

(* The awaited prompt is pending until it is heard, and nothing is played  *)
(* after it.                                                               *)
LEMMA PendingUntilHeardStep ==
  ASSUME ArbiterInv, OnlyTheAwaited, PendingUntilHeard, [Next]_vars, ~late'
  PROVE  PendingUntilHeard'
<1> USE DEF PendingUntilHeard, Pending
<1>a. main = "waiting" => awaited \in Cues /\ active
  BY DEF ArbiterInv, MainActive
<1>b. \A p \in Cues : p \notin Network
  BY KindAssumption DEF Network
<1>1. CASE OwnerWakes
  BY <1>1 DEF OwnerWakes
<1>2. CASE Take
  <2>1. PICK p \in Playable : table' = {q \in table : Relevant(q)} \ {p} /\ hand' = p
                              /\ playing' = p
    BY <1>2 DEF Take
  <2>2. p \in table /\ ~Deferred(p) /\ p \in Prompts
    BY <2>1 DEF Playable, ArbiterInv, TypeOK, OwnerType
  <2>3. main = "waiting" => p \in Cues /\ p = awaited
    BY <1>a, <2>2 DEF Deferred, Prompts, OnlyTheAwaited
  <2> QED
    BY <1>2, <2>1, <2>2, <2>3 DEF Take
<1>3. CASE TakeNothing
  BY <1>a, <1>3, KindAssumption, NoneAssumption
     DEF TakeNothing, Relevant, ArbiterInv, OneOfAKind, Prompts
<1>4. CASE Check
  BY <1>4, <1>a, <1>b, KindAssumption DEF Check, ArbiterInv, OneOfAKind, Deferred, Relevant, Network
<1>5. CASE PlayEnds
  <2>1. PICK r \in Result : /\ last' = [key |-> hand, result |-> r]
                            /\ heard' = IF hand = awaited THEN r ELSE heard
    BY <1>5 DEF PlayEnds
  <2>2. r # None
    BY DEF Result, None
  <2>3. hand \notin table /\ playing = hand
    BY <1>5 DEF PlayEnds, ArbiterInv, OneOfAKind
  <2> QED
    BY <1>5, <2>1, <2>2, <2>3 DEF PlayEnds
<1>6. ASSUME NEW p \in Cues, PlayPrompt(p) PROVE PendingUntilHeard'
  BY <1>6 DEF PlayPrompt, Submit, Refused
<1>7. CASE ConversationBegins \/ WaitReturns \/ WaitTimesOut \/ NextPrompt \/ ConversationEnds
  BY <1>7 DEF ConversationBegins, WaitReturns, WaitTimesOut, NextPrompt, ConversationEnds
<1>8. CASE NetworkChanges
  BY <1>8 DEF NetworkChanges
<1>9. ASSUME NEW p \in Network, AnnounceNetwork(p) PROVE PendingUntilHeard'
  BY <1>9, <1>a, <1>b DEF AnnounceNetwork, Submit
<1>10. ASSUME NEW c \in Callers, Notify(c) PROVE PendingUntilHeard'
  BY <1>10 DEF Notify
<1>11. CASE UNCHANGED vars
  BY <1>11
<1> QED
  BY <1>1, <1>2, <1>3, <1>4, <1>5, <1>6, <1>7, <1>8, <1>9, <1>10, <1>11 DEF Next, Owner, Main

(* A prompt that came while the owner holds a network prompt is notified.  *)
LEMMA NotifiedBehindStep ==
  ASSUME ArbiterInv, OnlyTheAwaited, NotifiedBehind, [Next]_vars, ~late'
  PROVE  NotifiedBehind'
<1> USE DEF NotifiedBehind
<1>1. CASE Take
  <2>1. PICK p \in Playable : table' = {q \in table : Relevant(q)} \ {p} /\ hand' = p
                              /\ playing' = p
    BY <1>1 DEF Take
  <2>2. p \in Network => main # "waiting"
    BY <2>1 DEF Playable, Deferred, ArbiterInv, MainActive
  <2> QED
    BY <1>1, <2>1, <2>2 DEF Take, OnlyTheAwaited
<1>2. CASE OwnerWakes \/ TakeNothing \/ Check \/ PlayEnds
  BY <1>2 DEF OwnerWakes, TakeNothing, Check, PlayEnds
<1>3. ASSUME NEW p \in Cues, PlayPrompt(p) PROVE NotifiedBehind'
  BY <1>3 DEF PlayPrompt, Submit
<1>4. CASE ConversationBegins \/ WaitReturns \/ WaitTimesOut \/ NextPrompt \/ ConversationEnds
  BY <1>4 DEF ConversationBegins, WaitReturns, WaitTimesOut, NextPrompt, ConversationEnds
<1>5. CASE NetworkChanges
  BY <1>5 DEF NetworkChanges
<1>6. ASSUME NEW p \in Network, AnnounceNetwork(p) PROVE NotifiedBehind'
  BY <1>6, KindAssumption DEF AnnounceNetwork, Submit, Network
<1>7. ASSUME NEW c \in Callers, Notify(c) PROVE NotifiedBehind'
  BY <1>7 DEF Notify
<1>8. CASE UNCHANGED vars
  BY <1>8
<1> QED
  BY <1>1, <1>2, <1>3, <1>4, <1>5, <1>6, <1>7, <1>8 DEF Next, Owner, Main

(* A timeout is never forgotten.                                           *)
LEMMA LateStays == [Next]_vars /\ ~late' => ~late
BY Zenon DEF Next, Owner, OwnerWakes, Take, TakeNothing, Check, PlayEnds, Main, ConversationBegins,
       PlayPrompt, WaitReturns, WaitTimesOut, NextPrompt, ConversationEnds, NetworkChanges,
       AnnounceNetwork, Notify

LEMMA InvStep == ArbiterInv /\ [Next]_vars => ArbiterInv'
<1> SUFFICES ASSUME ArbiterInv, [Next]_vars PROVE ArbiterInv'
  OBVIOUS
<1>1. TypeOK' /\ OneOfAKind'
  BY OwnerTypeStep, CallerTypeStep, FlagTypeStep, OneOfAKindStep DEF ArbiterInv, TypeOK
<1>2. MainActive' /\ DueIsRelevant' /\ (main' = "waiting" => awaited' \in Cues)
  BY MainStep, DueStep DEF ArbiterInv, TypeOK
<1>3. ASSUME ~late' PROVE OnlyTheAwaited' /\ PendingUntilHeard' /\ NotifiedBehind'
  BY <1>3, LateStays, OnlyTheAwaitedStep, PendingUntilHeardStep, NotifiedBehindStep DEF ArbiterInv
<1> QED
  BY <1>1, <1>2, <1>3 DEF ArbiterInv

(* The arbiter and its callers keep their state together, in every         *)
(* interleaving, for every set of prompts and every capacity.              *)
THEOREM Invariant == Spec => []ArbiterInv
<1>1. Init => ArbiterInv
  BY InitInv
<1>2. ArbiterInv /\ [Next]_vars => ArbiterInv'
  BY InvStep
<1> QED
  BY <1>1, <1>2, PTL DEF Spec

(* Whoever is told that its prompt was played has had it played.           *)
LEMMA TruthStep ==
  ASSUME ArbiterInv, WaitTellsTruth, [Next]_vars PROVE WaitTellsTruth'
<1> USE DEF WaitTellsTruth
<1>1. CASE OwnerWakes \/ Take \/ TakeNothing \/ Check
  BY <1>1 DEF OwnerWakes, Take, TakeNothing, Check
<1>2. CASE PlayEnds
  <2>1. ~late /\ hand \in Cues => main = "waiting"
    BY <1>2 DEF PlayEnds, ArbiterInv, OnlyTheAwaited, InHand
  <2>2. ~late /\ hand = awaited => main = "waiting"
    BY <1>2, <2>1, NoneAssumption DEF PlayEnds, ArbiterInv, OneOfAKind, TypeOK, CallerType
  <2> QED
    BY <1>2, <2>2 DEF PlayEnds
<1>3. CASE WaitReturns
  BY <1>3 DEF WaitReturns, ArbiterInv, PendingUntilHeard
<1>4. ASSUME NEW p \in Cues, PlayPrompt(p) PROVE WaitTellsTruth'
  BY <1>4 DEF PlayPrompt
<1>5. CASE ConversationBegins \/ WaitTimesOut \/ NextPrompt \/ ConversationEnds
  BY <1>5 DEF ConversationBegins, WaitTimesOut, NextPrompt, ConversationEnds
<1>6. CASE NetworkChanges
  BY <1>6 DEF NetworkChanges
<1>7. ASSUME NEW p \in Network, AnnounceNetwork(p) PROVE WaitTellsTruth'
  BY <1>7 DEF AnnounceNetwork
<1>8. ASSUME NEW c \in Callers, Notify(c) PROVE WaitTellsTruth'
  BY <1>8 DEF Notify
<1>9. CASE UNCHANGED vars
  BY <1>9
<1> QED
  BY <1>1, <1>2, <1>3, <1>4, <1>5, <1>6, <1>7, <1>8, <1>9 DEF Next, Owner, Main

THEOREM TellsTruth == Spec => []WaitTellsTruth
<1>1. Init => WaitTellsTruth
  BY DEF Init, WaitTellsTruth
<1>2. ArbiterInv /\ WaitTellsTruth /\ [Next]_vars => WaitTellsTruth'
  BY TruthStep
<1> QED
  BY <1>1, <1>2, Invariant, PTL DEF Spec

(* The owner does not sleep on a prompt it could play.                     *)
LEMMA AwakeStep ==
  ASSUME ArbiterInv, NoSleepOverWork, [Next]_vars PROVE NoSleepOverWork'
<1> USE DEF NoSleepOverWork, Playable
<1>1. CASE OwnerWakes \/ Take \/ PlayEnds
  BY <1>1 DEF OwnerWakes, Take, PlayEnds
<1>2. CASE TakeNothing
  BY <1>2 DEF TakeNothing, Relevant, Deferred
<1>3. CASE Check
  <2> SUFFICES ASSUME owner' = "asleep", ~notified, owes = {}, ~late, NEW p \in table',
                      ~Deferred(p)
               PROVE  FALSE
    BY <1>3 DEF Check, Deferred, Relevant
  <2>1. hand \in Network /\ active /\ table \cap Cues = {}
    BY <1>3 DEF Check, Deferred, ArbiterInv, NotifiedBehind
  <2>2. table' \subseteq Network
    BY <1>3, <2>1 DEF Check, ArbiterInv, TypeOK, OwnerType, Prompts
  <2> QED
    BY <2>1, <2>2 DEF Deferred
<1>4. ASSUME NEW p \in Cues, PlayPrompt(p) PROVE NoSleepOverWork'
  BY <1>4 DEF PlayPrompt, Submit, Relevant, Deferred
<1>5. CASE ConversationBegins \/ WaitReturns \/ WaitTimesOut \/ NextPrompt \/ ConversationEnds
  BY <1>5 DEF ConversationBegins, WaitReturns, WaitTimesOut, NextPrompt, ConversationEnds,
              Relevant, Deferred, ArbiterInv, MainActive
<1>6. CASE NetworkChanges
  BY <1>6 DEF NetworkChanges
<1>7. ASSUME NEW p \in Network, AnnounceNetwork(p) PROVE NoSleepOverWork'
  BY <1>7 DEF AnnounceNetwork, Submit, Relevant, Deferred
<1>8. ASSUME NEW c \in Callers, Notify(c) PROVE NoSleepOverWork'
  BY <1>8 DEF Notify
<1>9. CASE UNCHANGED vars
  BY <1>9 DEF Relevant, Deferred
<1> QED
  BY <1>1, <1>2, <1>3, <1>4, <1>5, <1>6, <1>7, <1>8, <1>9 DEF Next, Owner, Main

THEOREM NeverSleepsOverWork == Spec => []NoSleepOverWork
<1>1. Init => NoSleepOverWork
  BY DEF Init, NoSleepOverWork, Playable
<1>2. ArbiterInv /\ NoSleepOverWork /\ [Next]_vars => NoSleepOverWork'
  BY AwakeStep
<1> QED
  BY <1>1, <1>2, Invariant, PTL DEF Spec

-----------------------------------------------------------------------------
(* The table has a place for every network prompt and one besides.         *)
RoomForNetwork == IsFiniteSet(Network) /\ Cardinality(Network) < Capacity

(* Then one that is in the owner's hand can be put back.                   *)
LEMMA RoomForHand ==
  ASSUME RoomForNetwork, ArbiterInv, OnlyTheAwaited, hand \in Network \ table
  PROVE  Cardinality(table) < Capacity
<1> DEFINE Others == Network \ {hand}
<1>1. table \subseteq Others \cup {awaited}
  BY DEF ArbiterInv, TypeOK, OwnerType, Prompts, OnlyTheAwaited
<1>2. IsFiniteSet(Others) /\ Cardinality(Others) = Cardinality(Network) - 1
  BY FS_RemoveElement DEF RoomForNetwork
<1>3. IsFiniteSet(Others \cup {awaited}) /\ Cardinality(Others \cup {awaited}) <= Cardinality(Network)
  <2> HIDE DEF Others
  <2>1. /\ IsFiniteSet(Others \cup {awaited})
        /\ \/ Cardinality(Others \cup {awaited}) = Cardinality(Others)
           \/ Cardinality(Others \cup {awaited}) = Cardinality(Others) + 1
    BY <1>2, FS_AddElement
  <2>2. Cardinality(Network) \in Nat
    BY FS_CardinalityType DEF RoomForNetwork
  <2> QED
    BY <1>2, <2>1, <2>2
<1>4. IsFiniteSet(table) /\ Cardinality(table) <= Cardinality(Others \cup {awaited})
  BY <1>1, <1>3, FS_Subset
<1>5. /\ Cardinality(table) \in Nat /\ Cardinality(Others \cup {awaited}) \in Nat
      /\ Cardinality(Network) \in Nat
  BY <1>3, <1>4, FS_CardinalityType DEF RoomForNetwork
<1> QED
  BY <1>3, <1>4, <1>5, CapacityAssumption DEF RoomForNetwork

LEMMA LostStep ==
  ASSUME RoomForNetwork, ArbiterInv, NothingLost, [Next]_vars, ~late' PROVE NothingLost'
<1> USE DEF NothingLost
<1>a. \A p \in due : Relevant(p) /\ p \in Network
  BY DEF ArbiterInv, DueIsRelevant, TypeOK, CallerType
<1>c. ~late /\ OnlyTheAwaited
  BY LateStays DEF ArbiterInv
<1>b. None \notin due
  BY <1>a, NoneAssumption DEF Prompts
<1>1. CASE OwnerWakes
  BY <1>1 DEF OwnerWakes
<1>2. CASE Take
  <2>1. PICK p \in Playable : table' = {q \in table : Relevant(q)} \ {p} /\ hand' = p
                              /\ playing' = p
    BY <1>2 DEF Take
  <2>2. playing = None
    BY <1>2 DEF Take, ArbiterInv, OneOfAKind
  <2> QED
    BY <1>a, <1>b, <1>2, <2>1, <2>2 DEF Take
<1>3. CASE TakeNothing
  BY <1>a, <1>b, <1>3 DEF TakeNothing
<1>4. CASE Check
  <2>1. hand \notin table /\ playing = hand
    BY <1>4 DEF Check, ArbiterInv, OneOfAKind
  <2>2. Deferred(hand) => Cardinality(table) < Capacity
    BY <1>c, <2>1, RoomForHand DEF Deferred
  <2>3. ~Relevant(hand) => hand \notin due
    BY <1>a
  <2> QED
    BY <1>4, <1>c, <2>1, <2>2, <2>3 DEF Check
<1>5. CASE PlayEnds
  BY <1>5 DEF PlayEnds, ArbiterInv, OneOfAKind
<1>6. ASSUME NEW p \in Cues, PlayPrompt(p) PROVE NothingLost'
  BY <1>6 DEF PlayPrompt, Submit
<1>7. CASE ConversationBegins \/ WaitReturns \/ WaitTimesOut \/ NextPrompt \/ ConversationEnds
  BY <1>7 DEF ConversationBegins, WaitReturns, WaitTimesOut, NextPrompt, ConversationEnds
<1>8. CASE NetworkChanges
  BY <1>8 DEF NetworkChanges
<1>9. ASSUME NEW p \in Network, AnnounceNetwork(p) PROVE NothingLost'
  BY <1>9 DEF AnnounceNetwork, Submit, Refused, Pending
<1>10. ASSUME NEW c \in Callers, Notify(c) PROVE NothingLost'
  BY <1>10 DEF Notify
<1>11. CASE UNCHANGED vars
  BY <1>11
<1> QED
  BY <1>1, <1>2, <1>3, <1>4, <1>5, <1>6, <1>7, <1>8, <1>9, <1>10, <1>11 DEF Next, Owner, Main

(* No network prompt that stays true is lost, if the table has room for     *)
(* them all and one besides: eight places are enough for seven.             *)
THEOREM NothingIsLost == ASSUME RoomForNetwork PROVE Spec => []NothingLost
<1>1. Init => NothingLost
  BY DEF Init, NothingLost
<1>2. ArbiterInv /\ NothingLost /\ [Next]_vars => NothingLost'
  BY LostStep DEF NothingLost
<1> QED
  BY <1>1, <1>2, Invariant, PTL DEF Spec
==============================================================================
