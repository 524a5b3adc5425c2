--------------------------- MODULE PlaybackProofs ----------------------------
(***************************************************************************)
(* Proofs about Playback, for every set of sessions, every length of an    *)
(* answer and all sizes of the queues and of the jitter buffer.            *)
(***************************************************************************)
EXTENDS Playback, SequenceTheorems, TLAPS

USE DEF vars, flags, jitter, speaker, audio, net, decoding, sinking, opus, down, pipeline, reaping,
        OwnerPlaces, Late, DecoderPlaces, PlayerPlaces, After, AfterWork, Goes, Fails, Allocates,
        Frees

-----------------------------------------------------------------------------
(* Types                                                                   *)

Written == [session : Sessions, n : Nat]

OutputType ==
  /\ ring \in [there : BOOLEAN, items : Seq(Written)]
  /\ scratch \in Seq(Written) /\ heard \in Seq(Written)
  /\ stream \in {"none", "prebuffering", "receiving", "flushing", "ending", "suspended"}
  /\ closing \in [Users -> {"no", "waiting", "deleted"}]

Joining == {"joining", "rejoining", "detaching"}

PipelineType == PlaybackType /\ (main \in Joining => joining \in Sessions)

LEMMA Packet ==
  /\ Eof \in Packets /\ Error \in Packets /\ \A n \in Nat : Frame(n) \in Packets
  /\ \A ok \in BOOLEAN : Terminal(ok) \in Packets
BY DEF Eof, Error, Frame, Packets, Terminal

(* What a task holds while it works on it.                                 *)
HandType(s) ==
  /\ decoder[s] \in {"decoding", "forwarding"} => inhand[s] \in Packets
  /\ player[s] \in {"entering", "sending", "counting"} => playing[s] \in Packets

Allocated == [where : {"encoded", "pcm"}, packet : Packets]

QueueType(q, max) == q \in [Sessions -> Seq(Packets)] /\ \A t \in Sessions : Len(q[t]) <= max

(* DownType, but for the flags.                                            *)
DataType ==
  /\ owner \in [Sessions -> OwnerPlaces] /\ read \in [Sessions -> Nat]
  /\ QueueType(encoded, EncodedMax) /\ QueueType(pcm, PcmMax)
  /\ decoder \in [Sessions -> DecoderPlaces] /\ inhand \in [Sessions -> Packets \cup {Nothing}]
  /\ player \in [Sessions -> PlayerPlaces] /\ playing \in [Sessions -> Packets \cup {Nothing}]
  /\ failed \in [Sessions -> SUBSET {"stream", "tasks"}]
  /\ memory \in [Sessions -> SUBSET Allocated]

FlagType ==
  /\ silent \in [Sessions -> BOOLEAN] /\ cancelled \in [Sessions -> BOOLEAN]
  /\ ragged \in [Sessions -> BOOLEAN] /\ tail \in [Sessions -> BOOLEAN]
  /\ corrupted \in BOOLEAN

LEMMA DownTypeIs == DownType <=> DataType /\ FlagType
BY Zenon DEF DownType, DataType, FlagType, QueueType, Allocated

(* A packet put at the end of a queue, or taken from its front.            *)
LEMMA Queueing ==
  ASSUME NEW max \in Nat, NEW q, QueueType(q, max), NEW s \in Sessions, NEW p \in Packets, NEW r
  PROVE  /\ q[s] \in Seq(Packets) /\ (q[s] # << >> => Head(q[s]) \in Packets)
         /\ r = q => QueueType(r, max)
         /\ r = [q EXCEPT ![s] = << >>] => QueueType(r, max)
         /\ Len(q[s]) < max /\ r = [q EXCEPT ![s] = Append(@, p)] => QueueType(r, max)
         /\ q[s] # << >> /\ r = [q EXCEPT ![s] = Tail(@)] => QueueType(r, max)
<1> USE DEF QueueType
<1>1. ASSUME Len(q[s]) < max, r = [q EXCEPT ![s] = Append(@, p)] PROVE QueueType(r, max)
  <2>1. Append(q[s], p) \in Seq(Packets) /\ Len(Append(q[s], p)) = Len(q[s]) + 1
    BY AppendProperties
  <2> QED
    BY <1>1, <2>1
<1>2. ASSUME q[s] # << >>, r = [q EXCEPT ![s] = Tail(@)] PROVE QueueType(r, max)
  <2>1. Tail(q[s]) \in Seq(Packets) /\ Len(Tail(q[s])) = Len(q[s]) - 1
    BY <1>2, HeadTailProperties
  <2> QED
    BY <1>2, <2>1
<1>3. ASSUME r = [q EXCEPT ![s] = << >>] PROVE QueueType(r, max)
  <2>1. << >> \in Seq(Packets) /\ Len(<< >>) = 0
    OBVIOUS
  <2> QED
    BY <1>3, <2>1
<1>4. q[s] # << >> => Head(q[s]) \in Packets
  BY HeadTailProperties
<1> QED
  BY <1>1, <1>2, <1>3, <1>4

(* A packet allocated or freed, or both.                                   *)
LEMMA Memory ==
  ASSUME memory \in [Sessions -> SUBSET Allocated], NEW s \in Sessions, NEW p, NEW q \in Packets
  PROVE  /\ memory' = memory => memory' \in [Sessions -> SUBSET Allocated]
         /\ Frees(s, p) => memory' \in [Sessions -> SUBSET Allocated]
         /\ Allocates(s, InEncoded(q)) => memory' \in [Sessions -> SUBSET Allocated]
         /\ Allocates(s, InPcm(q)) => memory' \in [Sessions -> SUBSET Allocated]
         /\ memory' = [memory EXCEPT ![s] = (@ \ {p}) \cup {InPcm(q)}]
              => memory' \in [Sessions -> SUBSET Allocated]
         /\ \A P : memory' = [memory EXCEPT ![s] = @ \ P]
                    => memory' \in [Sessions -> SUBSET Allocated]
BY DEF Allocated, InPcm, InEncoded

LEMMA Failing ==
  ASSUME failed \in [Sessions -> SUBSET {"stream", "tasks"}], NEW s \in Sessions,
         failed' = failed \/ Fails(s, "stream") \/ Fails(s, "tasks")
  PROVE  failed' \in [Sessions -> SUBSET {"stream", "tasks"}]
OBVIOUS

LEMMA ReaderTypes ==
  ASSUME DataType, NEW s \in Sessions, HandType(s), ReaderNext(s)
  PROVE  DataType' /\ HandType(s)'
<1> USE DEF DataType, HandType
<1>0. EncodedMax \in Nat /\ PcmMax \in Nat
  BY QueueAssumption
<1>1. CASE Connects(s)
  <2>1. owner' \in [Sessions -> OwnerPlaces] /\ decoder' \in [Sessions -> DecoderPlaces]
    BY <1>1 DEF Connects
  <2>2. player' \in [Sessions -> PlayerPlaces]
    BY <1>1 DEF Connects
  <2>3. /\ decoder'[s] = "waiting" /\ player'[s] = "waiting"
        /\ UNCHANGED <<read, encoded, inhand, pcm, playing, failed, memory>>
    BY <1>1 DEF Connects
  <2>4. HandType(s)'
    BY <2>3
  <2>5. DataType'
    BY <2>1, <2>2, <2>3, Zenon
  <2> QED
    BY <2>4, <2>5
<1>2. CASE Refused(s) \/ QueueFull(s) \/ ReadFails(s) \/ SeesCancel(s) \/ JoinExpires(s)
  <2>1. /\ owner' \in [Sessions -> OwnerPlaces] /\ Fails(s, "stream")
        /\ UNCHANGED <<read, encoded, decoding, pcm, sinking, memory>>
    BY <1>2 DEF Refused, QueueFull, ReadFails, SeesCancel, JoinExpires
  <2>2. failed' \in [Sessions -> SUBSET {"stream", "tasks"}]
    BY <2>1, Failing
  <2> QED
    BY <2>1, <2>2
<1>3. CASE Reads(s)
  <2>1. PICK p \in Packets : p = Frame(read[s] + 1)
    BY Packet
  <2>2. /\ encoded' = [encoded EXCEPT ![s] = Append(@, p)] /\ Len(encoded[s]) < EncodedMax
        /\ Allocates(s, InEncoded(p))
    BY <1>3, <2>1 DEF Reads
  <2>3. QueueType(encoded', EncodedMax)
    BY <1>0, <2>2, Queueing
  <2>4. memory' \in [Sessions -> SUBSET Allocated]
    BY <2>2, Memory
  <2>5. read' \in [Sessions -> Nat]
    BY <1>3 DEF Reads
  <2> QED
    BY <1>3, <2>3, <2>4, <2>5 DEF Reads
<1>4. CASE FallsSilent(s) \/ ReadsAll(s) \/ Joins(s) \/ LooksAgain(s) \/ Cleans(s)
  <2>1. /\ owner' \in [Sessions -> OwnerPlaces]
        /\ UNCHANGED <<read, encoded, decoding, pcm, sinking, failed, memory>>
    BY <1>4 DEF FallsSilent, ReadsAll, Joins, LooksAgain, LooksAtPlayer, Cleans
  <2> QED
    BY <2>1
<1>5. CASE Terminates(s)
  <2>1. owner' \in [Sessions -> OwnerPlaces]
    BY <1>5 DEF Terminates
  <2>2. PICK p \in Packets : p = Terminal("stream" \notin failed[s])
    BY Packet
  <2>3. \/ /\ Len(encoded[s]) < EncodedMax /\ encoded' = [encoded EXCEPT ![s] = Append(@, p)]
           /\ Allocates(s, InEncoded(p)) /\ failed' = failed
        \/ Fails(s, "stream") /\ UNCHANGED <<encoded, memory>>
    BY <1>5, <2>2 DEF Terminates
  <2>4. QueueType(encoded', EncodedMax)
    BY <1>0, <2>3, Queueing
  <2>5. memory' \in [Sessions -> SUBSET Allocated]
    BY <2>3, Memory
  <2>6. failed' \in [Sessions -> SUBSET {"stream", "tasks"}]
    BY <2>3, Failing
  <2> QED
    BY <1>5, <2>1, <2>4, <2>5, <2>6 DEF Terminates
<1>6. CASE DeletesDecoder(s)
  <2>1. owner' \in [Sessions -> OwnerPlaces] /\ UNCHANGED <<read, encoded, pcm, sinking, failed>>
    BY <1>6 DEF DeletesDecoder, LooksAtPlayer
  <2>2. \/ /\ decoder' = [decoder EXCEPT ![s] = "done"] /\ inhand' = [inhand EXCEPT ![s] = Nothing]
           /\ memory' = [memory EXCEPT ![s] = @ \ DecoderHolds(s)]
        \/ UNCHANGED <<decoding, memory>>
    BY <1>6 DEF DeletesDecoder
  <2>3. memory' \in [Sessions -> SUBSET Allocated]
    BY <2>2, Memory, Packet
  <2>4. decoder' \in [Sessions -> DecoderPlaces] /\ inhand' \in [Sessions -> Packets \cup {Nothing}]
    BY <2>2
  <2>5. HandType(s)'
    BY <2>1, <2>2
  <2> QED
    BY <2>1, <2>3, <2>4, <2>5
<1>8. CASE DeletesPlayer(s)
  <2>1. owner' \in [Sessions -> OwnerPlaces] /\ UNCHANGED <<read, encoded, pcm, decoding, failed>>
    BY <1>8 DEF DeletesPlayer
  <2>2. \/ /\ player' = [player EXCEPT ![s] = "done"] /\ playing' = [playing EXCEPT ![s] = Nothing]
           /\ memory' = [memory EXCEPT ![s] = @ \ PlayerHolds(s)]
        \/ UNCHANGED <<sinking, memory>>
    BY <1>8 DEF DeletesPlayer
  <2>3. memory' \in [Sessions -> SUBSET Allocated]
    BY <2>2, Memory, Packet
  <2>4. player' \in [Sessions -> PlayerPlaces] /\ playing' \in [Sessions -> Packets \cup {Nothing}]
    BY <2>2
  <2>5. HandType(s)'
    BY <2>1, <2>2
  <2> QED
    BY <2>1, <2>3, <2>4, <2>5
<1>7. CASE Drains(s)
  <2>1. QueueType(encoded', EncodedMax) /\ QueueType(pcm', PcmMax)
    BY <1>0, <1>7, Queueing, Packet DEF Drains
  <2>2. memory' \in [Sessions -> SUBSET Allocated]
    BY <1>7, Memory, Packet DEF Drains
  <2>3. failed' \in [Sessions -> SUBSET {"stream", "tasks"}]
    BY <1>7, Failing DEF Drains
  <2> QED
    BY <1>7, <2>1, <2>2, <2>3 DEF Drains
<1> QED
  BY <1>1, <1>2, <1>3, <1>4, <1>5, <1>6, <1>7, <1>8 DEF ReaderNext

LEMMA DecoderTypes ==
  ASSUME DataType, NEW s \in Sessions, HandType(s), DecoderNext(s)
  PROVE  DataType' /\ HandType(s)'
<1> USE DEF DataType, HandType
<1>0. EncodedMax \in Nat /\ PcmMax \in Nat
  BY QueueAssumption
<1>1. CASE Decodes(s)
  <2>1. PICK p : p = Head(encoded[s])
    OBVIOUS
  <2>2. QueueType(encoded', EncodedMax) /\ p \in Packets
    BY <1>0, <1>1, <2>1, Queueing, Packet DEF Decodes
  <2>3. \E h \in Packets, w \in {"decoding", "forwarding"} :
          /\ inhand' = [inhand EXCEPT ![s] = h] /\ decoder' = [decoder EXCEPT ![s] = w]
          /\ memory' = memory \/ Frees(s, InEncoded(p))
    BY <1>1, <2>1, <2>2, Packet DEF Decodes
  <2>4. /\ inhand' \in [Sessions -> Packets \cup {Nothing}] /\ inhand'[s] \in Packets
        /\ decoder' \in [Sessions -> DecoderPlaces]
    BY <2>3
  <2>5. memory' \in [Sessions -> SUBSET Allocated]
    BY <2>2, <2>3, Memory
  <2> QED
    BY <1>1, <2>2, <2>4, <2>5 DEF Decodes
<1>2. ASSUME Enqueues(s) \/ Forwards(s) PROVE DataType' /\ HandType(s)'
  <2>1. PICK p \in Packets : p = inhand[s]
    BY <1>2 DEF Enqueues, Forwards
  <2>2. /\ inhand' \in [Sessions -> Packets \cup {Nothing}]
        /\ decoder' \in [Sessions -> DecoderPlaces] /\ decoder'[s] \in {"waiting", "finishing"}
    BY <1>2 DEF Enqueues, Forwards
  <2>3. UNCHANGED <<net, encoded, sinking>>
    BY <1>2 DEF Enqueues, Forwards
  <2>4. /\ pcm' = pcm \/ (Len(pcm[s]) < PcmMax /\ pcm' = [pcm EXCEPT ![s] = Append(@, p)])
        /\ failed' = failed \/ Fails(s, "tasks")
        /\ \/ memory' = memory \/ Frees(s, InEncoded(p)) \/ Allocates(s, InPcm(p))
           \/ memory' = [memory EXCEPT ![s] = (@ \ {InEncoded(p)}) \cup {InPcm(p)}]
    <3>1. CASE Enqueues(s)
      BY <2>1, <3>1 DEF Enqueues
    <3>2. CASE Forwards(s)
      BY <2>1, <3>2 DEF Forwards
    <3> QED
      BY <1>2, <3>1, <3>2
  <2>5. QueueType(pcm', PcmMax)
    BY <1>0, <2>4, Queueing
  <2>6. failed' \in [Sessions -> SUBSET {"stream", "tasks"}]
    BY <2>4, Failing
  <2>7. memory' \in [Sessions -> SUBSET Allocated]
    <3>1. CASE memory' = memory \/ Frees(s, InEncoded(p)) \/ Allocates(s, InPcm(p))
      BY <3>1, Memory
    <3>2. CASE memory' = [memory EXCEPT ![s] = (@ \ {InEncoded(p)}) \cup {InPcm(p)}]
      BY <3>2, Memory
    <3> QED
      BY <2>4, <3>1, <3>2
  <2>8. HandType(s)'
    BY <2>2, <2>3
  <2> QED
    BY <2>2, <2>3, <2>5, <2>6, <2>7, <2>8
<1>3. CASE DecodeFails(s)
  <2>1. memory' \in [Sessions -> SUBSET Allocated]
    BY <1>3, Memory, Packet DEF DecodeFails
  <2> QED
    BY <1>3, <2>1, Packet DEF DecodeFails
<1>4. CASE DecoderEnds(s)
  BY <1>4 DEF DecoderEnds, EndsAt
<1> QED
  BY <1>1, <1>2, <1>3, <1>4 DEF DecoderNext

LEMMA PlayerTypes ==
  ASSUME DataType, NEW s \in Sessions, HandType(s), PlayerNext(s)
  PROVE  DataType' /\ HandType(s)'
<1> USE DEF DataType, HandType
<1>0. EncodedMax \in Nat /\ PcmMax \in Nat
  BY QueueAssumption
<1>1. CASE Takes(s)
  <2>1. PICK p : p = Head(pcm[s])
    OBVIOUS
  <2>2. QueueType(pcm', PcmMax) /\ p \in Packets
    BY <1>0, <1>1, <2>1, Queueing, Packet DEF Takes
  <2>3. \/ /\ playing' = [playing EXCEPT ![s] = p] /\ player' = [player EXCEPT ![s] = "entering"]
           /\ UNCHANGED <<failed, memory>>
        \/ /\ player' = [player EXCEPT ![s] = "finishing"] /\ playing' = playing
           /\ Frees(s, InPcm(p))
           /\ failed' = failed \/ Fails(s, "tasks")
    BY <1>1, <2>1 DEF Takes
  <2>4. UNCHANGED <<net, encoded, decoding>>
    BY <1>1 DEF Takes
  <2>5. memory' \in [Sessions -> SUBSET Allocated]
    BY <2>2, <2>3, Memory
  <2>6. failed' \in [Sessions -> SUBSET {"stream", "tasks"}]
    BY <2>3, Failing
  <2>7. /\ playing' \in [Sessions -> Packets \cup {Nothing}]
        /\ player' \in [Sessions -> PlayerPlaces]
        /\ player'[s] = "finishing" \/ (player'[s] = "entering" /\ playing'[s] \in Packets)
    BY <2>2, <2>3
  <2> QED
    BY <2>2, <2>4, <2>5, <2>6, <2>7
<1>2. CASE SinkEnters(s) \/ SinkSends(s)
  BY <1>2 DEF SinkEnters, SinkSends
<1>3. CASE SinkCounts(s)
  <2>1. memory' \in [Sessions -> SUBSET Allocated]
    BY <1>3, Memory, Packet DEF SinkCounts
  <2> QED
    BY <1>3, <2>1 DEF SinkCounts
<1>4. CASE SinkFails(s)
  <2>1. memory' \in [Sessions -> SUBSET Allocated]
    BY <1>4, Memory, Packet DEF SinkFails
  <2>2. /\ player' = [player EXCEPT ![s] = "finishing"]
        /\ playing' = [playing EXCEPT ![s] = Nothing]
        /\ Fails(s, "tasks") /\ UNCHANGED <<net, encoded, decoding, pcm>>
    BY <1>4 DEF SinkFails
  <2> QED
    BY <2>1, <2>2
<1>5. CASE PlayerEnds(s)
  BY <1>5 DEF PlayerEnds, EndsAt
<1> QED
  BY <1>1, <1>2, <1>3, <1>4, <1>5 DEF PlayerNext

LEMMA OwnerTypes ==
  ASSUME DataType, NEW s \in Sessions, HandType(s), OwnerNext(s)
  PROVE  DataType' /\ HandType(s)'
<1>1. CASE ReaderNext(s)
  BY <1>1, ReaderTypes
<1>2. CASE OwnerOpens(s) \/ OwnerCloses(s) \/ OwnerWaits(s) \/ OwnerEnds(s)
  <2>1. owner' \in [Sessions -> OwnerPlaces]
    <3>1. owner \in [Sessions -> OwnerPlaces]
      BY DEF DataType
    <3>2. CASE OwnerOpens(s) \/ OwnerCloses(s) \/ OwnerWaits(s)
      BY <3>1, <3>2 DEF OwnerOpens, OwnerCloses, OwnerWaits
    <3>3. CASE OwnerEnds(s)
      BY <3>1, <3>3 DEF OwnerEnds, Ends
    <3> QED
      BY <1>2, <3>2, <3>3
  <2>2. /\ UNCHANGED <<read, encoded, decoding, pcm, sinking, memory>>
        /\ failed' = failed \/ Fails(s, "stream")
    BY <1>2 DEF OwnerOpens, OwnerCloses, OwnerWaits, OwnerEnds
  <2>3. failed' \in [Sessions -> SUBSET {"stream", "tasks"}]
    BY <2>2, Failing DEF DataType
  <2> QED
    BY <2>1, <2>2, <2>3 DEF DataType, HandType
<1> QED
  BY <1>1, <1>2 DEF OwnerNext

(* What the pipeline does to a session.                                    *)
Starts(s) ==
  /\ main = "idle" /\ owner[s] \in {"none", "freed"}
  /\ {decoder[s], player[s]} \subseteq {"none", "done"}
  /\ owner' = Goes(owner, s, "opening")
  /\ memory' = [memory EXCEPT ![s] = {}]
  /\ decoder' = Goes(decoder, s, "none") /\ player' = Goes(player, s, "none")
  /\ UNCHANGED <<read, silent, encoded, inhand, pcm, playing, failed, cancelled, opus>>

LEMMA PipelineTypes ==
  ASSUME DataType, NEW s \in Sessions, HandType(s),
         Starts(s) \/ FreesSession(s) \/ Cancels(s)
  PROVE  DataType' /\ HandType(s)'
<1> USE DEF DataType, HandType
<1>1. CASE Starts(s)
  <2>1. owner' \in [Sessions -> OwnerPlaces] /\ decoder' \in [Sessions -> DecoderPlaces]
    BY <1>1 DEF Starts
  <2>2. player' \in [Sessions -> PlayerPlaces] /\ memory' \in [Sessions -> SUBSET Allocated]
    BY <1>1 DEF Starts
  <2>3. /\ decoder'[s] = "none" /\ player'[s] = "none"
        /\ UNCHANGED <<read, encoded, inhand, pcm, playing, failed>>
    BY <1>1 DEF Starts
  <2> QED
    BY <2>1, <2>2, <2>3
<1>2. CASE FreesSession(s)
  <2>1. owner' \in [Sessions -> OwnerPlaces] /\ read' \in [Sessions -> Nat]
    BY <1>2 DEF FreesSession
  <2>2. /\ failed' \in [Sessions -> SUBSET {"stream", "tasks"}]
        /\ UNCHANGED <<encoded, decoding, pcm, sinking, memory>>
    BY <1>2 DEF FreesSession
  <2> QED
    BY <2>1, <2>2
<1>3. CASE Cancels(s)
  BY <1>3 DEF Cancels
<1> QED
  BY <1>1, <1>2, <1>3

(* Everything that changes the answer of a session is a step of it.        *)
StepOf(s) ==
  \/ OwnerNext(s) \/ DecoderNext(s) \/ PlayerNext(s)
  \/ Starts(s) \/ FreesSession(s) \/ Cancels(s)

(* The other sessions see nothing of it.                                   *)
Same(s) ==
  /\ owner'[s] = owner[s] /\ read'[s] = read[s] /\ failed'[s] = failed[s]
  /\ encoded'[s] = encoded[s] /\ pcm'[s] = pcm[s]
  /\ decoder'[s] = decoder[s] /\ inhand'[s] = inhand[s]
  /\ player'[s] = player[s] /\ playing'[s] = playing[s]
  /\ memory'[s] = memory[s] /\ ragged'[s] = ragged[s]

LEMMA Elsewhere ==
  ASSUME DataType, FlagType, NEW s \in Sessions, StepOf(s), NEW t \in Sessions \ {s}
  PROVE  Same(t)
<1> USE DEF Same
<1>0. DataType /\ ragged \in [Sessions -> BOOLEAN]
  BY DEF FlagType
<1> USE DEF DataType, QueueType
<1>1. CASE OwnerNext(s)
  <2>1. CASE Connects(s) \/ Refused(s) \/ Reads(s) \/ QueueFull(s) \/ ReadFails(s)
    BY <1>0, <2>1 DEF Connects, Refused, Reads, QueueFull, ReadFails
  <2>2. CASE FallsSilent(s) \/ ReadsAll(s) \/ SeesCancel(s) \/ Terminates(s) \/ Joins(s)
    BY <1>0, <2>2 DEF FallsSilent, ReadsAll, SeesCancel, Terminates, Joins
  <2>3. CASE JoinExpires(s) \/ LooksAgain(s) \/ Cleans(s) \/ Drains(s)
    BY <1>0, <2>3 DEF JoinExpires, LooksAgain, Cleans, Drains
  <2>5. CASE DeletesDecoder(s) \/ DeletesPlayer(s)
    BY <1>0, <2>5 DEF DeletesDecoder, DeletesPlayer
  <2>4. CASE OwnerOpens(s) \/ OwnerCloses(s) \/ OwnerWaits(s) \/ OwnerEnds(s)
    BY <1>0, <2>4 DEF OwnerOpens, OwnerCloses, OwnerWaits, OwnerEnds
  <2> QED
    BY <1>1, <2>1, <2>2, <2>3, <2>4, <2>5 DEF OwnerNext, ReaderNext
<1>2. CASE DecoderNext(s)
  <2>1. CASE Decodes(s)
    BY <1>0, <2>1 DEF Decodes
  <2>2. CASE Enqueues(s)
    BY <1>0, <2>2 DEF Enqueues
  <2>3. CASE DecodeFails(s) \/ Forwards(s) \/ DecoderEnds(s)
    BY <1>0, <2>3 DEF DecodeFails, Forwards, DecoderEnds
  <2> QED
    BY <1>2, <2>1, <2>2, <2>3 DEF DecoderNext
<1>3. CASE PlayerNext(s)
  <2>1. CASE Takes(s)
    BY <1>0, <2>1 DEF Takes
  <2>2. CASE SinkEnters(s) \/ SinkSends(s) \/ SinkCounts(s) \/ SinkFails(s) \/ PlayerEnds(s)
    BY <1>0, <2>2 DEF SinkEnters, SinkSends, SinkCounts, SinkFails, PlayerEnds
  <2> QED
    BY <1>3, <2>1, <2>2 DEF PlayerNext
<1>4. CASE Starts(s) \/ FreesSession(s) \/ Cancels(s)
  BY <1>0, <1>4 DEF Starts, FreesSession, Cancels
<1> QED
  BY <1>1, <1>2, <1>3, <1>4 DEF StepOf

LEMMA FlagTypes ==
  ASSUME FlagType, NEW s \in Sessions, StepOf(s), corrupted' \in BOOLEAN
  PROVE  FlagType'
<1> USE DEF FlagType
<1> DEFINE Sets(f, g) == \/ g = f \/ g = [f EXCEPT ![s] = TRUE] \/ g = [f EXCEPT ![s] = FALSE]
<1>1. /\ Sets(silent, silent') /\ Sets(cancelled, cancelled')
      /\ Sets(ragged, ragged') /\ Sets(tail, tail')
  <2>1. CASE OwnerNext(s)
    BY <2>1 DEF OwnerNext, ReaderNext, Connects, Refused, Reads, QueueFull, ReadFails,
                FallsSilent, ReadsAll, SeesCancel, Terminates, Joins, JoinExpires, LooksAgain,
                DeletesDecoder, DeletesPlayer, Cleans, Drains,
                OwnerOpens, OwnerCloses, OwnerWaits, OwnerEnds
  <2>2. CASE DecoderNext(s) \/ PlayerNext(s)
    BY <2>2 DEF DecoderNext, Decodes, Enqueues, DecodeFails, Forwards, DecoderEnds, PlayerNext,
                Takes, SinkEnters, SinkSends, SinkCounts, SinkFails, PlayerEnds
  <2>3. CASE Starts(s) \/ FreesSession(s) \/ Cancels(s)
    BY <2>3 DEF Starts, FreesSession, Cancels
  <2> QED
    BY <2>1, <2>2, <2>3 DEF StepOf
<1>2. ASSUME NEW f \in [Sessions -> BOOLEAN], NEW g, Sets(f, g) PROVE g \in [Sessions -> BOOLEAN]
  BY <1>2
<1> HIDE DEF Sets
<1> QED
  BY <1>1, <1>2

(* Memory that was overwritten stays so: it is no more than one flag.      *)
LEMMA Corrupting ==
  ASSUME corrupted \in BOOLEAN, [Next]_vars
  PROVE  corrupted' \in BOOLEAN
<1>1. CASE UNCHANGED vars
  BY <1>1
<1>2. ASSUME NEW s \in Sessions, OwnerStep(s) PROVE corrupted' \in BOOLEAN
  BY <1>2 DEF OwnerStep, OwnerNext, ReaderNext, DeletesDecoder, DeletesPlayer
<1>3. ASSUME NEW s \in Sessions, DecoderStep(s) \/ PlayerStep(s) PROVE corrupted' \in BOOLEAN
  BY <1>3 DEF DecoderStep, PlayerStep, DecoderNext, PlayerNext, UsesFrame
<1> QED
  BY <1>1, <1>2, <1>3 DEF Next, MainNext, ReaperNext, PromptNext, SpeakerNext

LEMMA StepBy ==
  ASSUME PipelineType, [Next]_vars
  PROVE  UNCHANGED down \/ \E s \in Sessions : StepOf(s)
<1> USE DEF PipelineType, PlaybackType, StepOf
<1>1. CASE MainNext
  <2>1. CASE StartsPlayback
    BY <2>1 DEF StartsPlayback, Starts
  <2>2. CASE JoinsPlayback
    BY <2>2 DEF JoinsPlayback, Joining
  <2>3. CASE JoinTimesOut
    BY <2>3 DEF JoinTimesOut, Joining
  <2>4. CASE Detaches \/ PromptHeard \/ CleansUp
    BY <2>4 DEF Detaches, PromptHeard, CleansUp
  <2> QED
    BY <1>1, <2>1, <2>2, <2>3, <2>4 DEF MainNext
<1>2. CASE ReaperNext
  BY <1>2 DEF ReaperNext, ReaperTakes, ReaperJoins
<1>3. CASE PromptNext \/ SpeakerNext
  BY <1>3 DEF PromptNext, SpeakerNext
<1>4. ASSUME NEW s \in Sessions, OwnerStep(s) \/ DecoderStep(s) \/ PlayerStep(s)
      PROVE  StepOf(s)
  BY <1>4 DEF OwnerStep, DecoderStep, PlayerStep
<1>5. CASE UNCHANGED vars
  BY <1>5
<1> QED
  BY <1>1, <1>2, <1>3, <1>4, <1>5 DEF Next

LEMMA UserIs == Arbiter \in Users /\ Pipeline \in Users /\ \A s \in Sessions : s \in Users
BY TaskAssumption

LEMMA CloseTypes ==
  ASSUME OutputType, NEW u \in Users,
         \/ CloseBegins(u) \/ CloseDeletes(u) \/ CloseStalls(u) \/ CloseDone(u)
         \/ Opens(u) \/ OpenFails(u)
  PROVE  OutputType'
<1> USE DEF OutputType
<1>1. /\ NoRing \in [there : BOOLEAN, items : Seq(Written)]
      /\ << >> \in Seq(Written)
  BY DEF NoRing
<1>2. CASE CloseBegins(u) \/ CloseStalls(u)
  BY <1>2 DEF CloseBegins, CloseStalls
<1>3. CASE CloseDeletes(u)
  BY <1>3 DEF CloseDeletes
<1>4. CASE CloseDone(u)
  BY <1>1, <1>4 DEF CloseDone, Closes
<1>5. CASE Opens(u) \/ OpenFails(u)
  BY <1>1, <1>5 DEF Opens, OpenFails
<1> QED
  BY <1>2, <1>3, <1>4, <1>5

LEMMA StreamTypes ==
  ASSUME OutputType, StreamNext
  PROVE  OutputType'
<1> USE DEF OutputType
<1>1. CASE Prebuffered \/ RunsDry \/ StreamEnds
  BY <1>1 DEF Prebuffered, RunsDry, StreamEnds
<1>2. ASSUME NEW w \in {"receiving", "ending"}, Writes(w)
      PROVE  heard' \in Seq(Written) /\ stream' \in {"receiving", "ending"}
  <2>1. heard \o scratch \in Seq(Written)
    OBVIOUS
  <2> QED
    BY <1>2, <2>1 DEF Writes
<1>3. CASE Receive
  <2>1. Tail(ring.items) \in Seq(Written) /\ Head(ring.items) \in Written
    BY <1>3 DEF Receive
  <2>2. ring' \in [there : BOOLEAN, items : Seq(Written)]
    BY <1>3, <2>1 DEF Receive
  <2>3. scratch' \in Seq(Written)
    BY <1>3, <2>1 DEF Receive
  <2>4. /\ heard' \in Seq(Written)
        /\ stream' \in {"none", "prebuffering", "receiving", "flushing", "ending", "suspended"}
    BY <1>2, <1>3 DEF Receive
  <2> QED
    BY <1>3, <2>2, <2>3, <2>4 DEF Receive
<1>4. CASE Flush
  BY <1>2, <1>4 DEF Flush
<1> QED
  BY <1>1, <1>3, <1>4 DEF StreamNext

LEMMA WriteTypes ==
  ASSUME OutputType, NEW p \in Written, WriteEnters \/ WriteSends(p) \/ WriteCounts
  PROVE  OutputType'
<1> USE DEF OutputType
<1>1. NewRing \in [there : BOOLEAN, items : Seq(Written)] /\ << >> \in Seq(Written)
  BY DEF NewRing
<1>2. CASE WriteEnters
  BY <1>1, <1>2 DEF WriteEnters
<1>3. CASE WriteSends(p)
  <2>1. Append(ring.items, p) \in Seq(Written)
    BY AppendProperties
  <2>2. ring' \in [there : BOOLEAN, items : Seq(Written)]
    BY <1>3, <2>1 DEF WriteSends
  <2> QED
    BY <1>3, <2>2 DEF WriteSends
<1>4. CASE WriteCounts
  BY <1>4 DEF WriteCounts
<1> QED
  BY <1>2, <1>3, <1>4

(* A session's piece, written by the task that holds its packet.           *)
LEMMA PieceIsWritten ==
  ASSUME DataType, NEW s \in Sessions, HandType(s), player[s] = "sending"
  PROVE  [session |-> s, n |-> playing[s].n] \in Written
BY DEF HandType, Packets, Written

LEMMA OutputTypeNext ==
  ASSUME DataType, \A s \in Sessions : HandType(s), OutputType, [Next]_vars
  PROVE  OutputType'
<1>0. /\ Arbiter \in Users /\ Pipeline \in Users /\ \A s \in Sessions : s \in Users
      /\ UNCHANGED audio => OutputType'
  BY UserIs, Zenon DEF OutputType
<1>1. CASE MainNext
  <2>1. CASE CleansUp
    BY <1>0, <2>1, CloseTypes DEF CleansUp
  <2>2. CASE ~CleansUp
    BY <1>0, <1>1, <2>2 DEF MainNext, StartsPlayback, JoinsPlayback, JoinTimesOut, Detaches,
                            PromptHeard
  <2> QED
    BY <2>1, <2>2
<1>2. CASE ReaperNext
  BY <1>0, <1>2 DEF ReaperNext, ReaperTakes, ReaperJoins
<1>3. CASE PromptNext
  BY <1>0, <1>3, CloseTypes DEF PromptNext, PromptOpens, PromptCloses
<1>4. CASE SpeakerNext
  BY <1>4, StreamTypes DEF SpeakerNext
<1>5. ASSUME NEW s \in Sessions, OwnerStep(s) PROVE OutputType'
  <2>1. CASE OwnerOpens(s) \/ OwnerCloses(s) \/ OwnerWaits(s)
    BY <1>0, <2>1, CloseTypes DEF OwnerOpens, OwnerCloses, OwnerWaits
  <2>2. CASE UNCHANGED audio
    BY <1>0, <2>2
  <2> QED
    BY <1>5, <2>1, <2>2 DEF OwnerStep, OwnerNext, OwnerEnds
<1>6. ASSUME NEW s \in Sessions, PlayerStep(s) PROVE OutputType'
  <2>1. CASE SinkEnters(s) \/ SinkCounts(s)
    <3>1. WriteEnters \/ WriteCounts
      BY <2>1 DEF SinkEnters, SinkCounts
    <3>2. PICK p : p \in Written
      <4>1. [session |-> s, n |-> 0] \in Written
        BY DEF Written
      <4> QED
        BY <4>1
    <3> QED
      BY <3>1, <3>2, WriteTypes
  <2>2. CASE SinkSends(s)
    <3>1. player[s] = "sending" /\ WriteSends([session |-> s, n |-> playing[s].n])
      BY <2>2 DEF SinkSends
    <3> QED
      BY <3>1, PieceIsWritten, WriteTypes
  <2>3. CASE UNCHANGED audio
    BY <1>0, <2>3
  <2> QED
    BY <1>6, <2>1, <2>2, <2>3 DEF PlayerStep, PlayerNext, SinkFails
<1>7. CASE UNCHANGED vars
  BY <1>0, <1>7
<1> QED
  BY <1>0, <1>1, <1>2, <1>3, <1>4, <1>5, <1>6, <1>7 DEF Next, DecoderStep

LEMMA PipelineTypeNext ==
  ASSUME PipelineType, DataType, [Next]_vars
  PROVE  PipelineType'
<1> USE DEF PipelineType, PlaybackType, Joining
<1>1. CASE MainNext
  <2>1. CASE StartsPlayback
    BY <2>1 DEF StartsPlayback
  <2>2. CASE JoinsPlayback
    <3>1. said' = (failed[joining] # {})
      BY <2>2 DEF JoinsPlayback, Says
    <3>2. said' \in BOOLEAN
      BY <3>1
    <3> QED
      BY <2>2, <3>2 DEF JoinsPlayback, Says
  <2>3. CASE JoinTimesOut
    BY <2>3 DEF JoinTimesOut
  <2>4. CASE Detaches
    <3>1. CASE detached = << >>
      <4>1. joining \in Sessions /\ detached' = <<joining>>
        BY <2>4, <3>1 DEF Detaches
      <4>2. detached' \in Seq(Sessions)
        BY <4>1
      <4>3. /\ left' = TRUE /\ main' = "waiting" /\ joining' = Nobody /\ said' = TRUE
            /\ prompt' = "opening" /\ UNCHANGED <<reaper, restarted>>
        BY <2>4, <3>1 DEF Detaches, Says
      <4> QED
        BY <4>2, <4>3
    <3>2. CASE detached # << >>
      BY <2>4, <3>2 DEF Detaches
    <3> QED
      BY <3>1, <3>2
  <2>5. CASE PromptHeard
    BY <2>5 DEF PromptHeard
  <2>6. CASE CleansUp
    BY <2>6 DEF CleansUp
  <2> QED
    BY <1>1, <2>1, <2>2, <2>3, <2>4, <2>5, <2>6 DEF MainNext
<1>2. CASE ReaperNext
  <2>1. CASE ReaperTakes
    <3>1. Head(detached) \in Sessions /\ Tail(detached) \in Seq(Sessions)
      BY <2>1 DEF ReaperTakes
    <3> QED
      BY <2>1, <3>1 DEF ReaperTakes
  <2>2. CASE ReaperJoins
    BY <2>2 DEF ReaperJoins
  <2> QED
    BY <1>2, <2>1, <2>2 DEF ReaperNext
<1>3. CASE PromptNext
  BY <1>3 DEF PromptNext, PromptOpens, PromptCloses
<1>4. CASE SpeakerNext \/ UNCHANGED vars
  BY <1>4 DEF SpeakerNext, Others
<1>5. ASSUME NEW s \in Sessions, OwnerStep(s) \/ DecoderStep(s) \/ PlayerStep(s)
      PROVE  PipelineType'
  BY <1>5 DEF OwnerStep, DecoderStep, PlayerStep, Others
<1> QED
  BY <1>1, <1>2, <1>3, <1>4, <1>5 DEF Next

Types ==
  /\ DataType /\ FlagType /\ OutputType /\ PipelineType
  /\ \A s \in Sessions : HandType(s)

LEMMA TypesInit == Init => Types
<1> SUFFICES ASSUME Init PROVE Types
  OBVIOUS
<1>1. DataType /\ \A s \in Sessions : HandType(s)
  BY QueueAssumption DEF Init, DownInit, DataType, QueueType, HandType
<1>2. FlagType
  BY Zenon DEF Init, DownInit, FlagType
<1>3. OutputType
  BY DEF Init, AudioInit, OutputType, NoRing
<1>4. PipelineType
  <2>1. detached \in Seq(Sessions)
    BY DEF Init
  <2>2. said \in BOOLEAN /\ left \in BOOLEAN /\ restarted \in BOOLEAN
    BY DEF Init
  <2> QED
    BY <2>1, <2>2 DEF Init, PipelineType, PlaybackType, Joining
<1> QED
  BY <1>1, <1>2, <1>3, <1>4 DEF Types

LEMMA TypesNext == Types /\ [Next]_vars => Types'
<1> SUFFICES ASSUME Types, [Next]_vars PROVE Types'
  OBVIOUS
<1> USE DEF Types
<1>1. OutputType' /\ PipelineType' /\ corrupted' \in BOOLEAN
  BY OutputTypeNext, PipelineTypeNext, Corrupting DEF FlagType
<1>2. CASE UNCHANGED down
  BY <1>1, <1>2, Zenon DEF DataType, FlagType, QueueType, HandType
<1>3. ASSUME NEW s \in Sessions, StepOf(s) PROVE Types'
  <2>1. DataType' /\ HandType(s)'
    BY <1>3, OwnerTypes, DecoderTypes, PlayerTypes, PipelineTypes DEF StepOf
  <2>2. ASSUME NEW t \in Sessions \ {s} PROVE HandType(t)'
    BY <1>3, <2>2, Elsewhere DEF Same, HandType
  <2>3. FlagType'
    BY <1>1, <1>3, FlagTypes
  <2> QED
    BY <1>1, <2>1, <2>2, <2>3
<1> QED
  BY <1>2, <1>3, StepBy


-----------------------------------------------------------------------------
(* Places                                                                  *)

Fresh == {"none", "opening", "connecting"}
Busy  == {"reading", "ending", "joining", "gone"} \cup Late
Over  == {"cleaning", "draining", "closing", "publishing", "published", "suspended", "freed"}
Ended == {"none", "leaving", "exiting", "done"}
Tidying == {"cleaning", "draining"}

(* The helpers of a session work while its own task reads or waits for     *)
(* them, or has gone; then they end.                                       *)
PlacesInv(s) ==
  /\ owner[s] \in Fresh =>
       decoder[s] = "none" /\ player[s] = "none" /\ read[s] = 0 /\ failed[s] = {}
  /\ owner[s] \in Busy => decoder[s] # "none" /\ player[s] # "none"
  /\ owner[s] \in Over => decoder[s] \in Ended /\ player[s] \in Ended
  /\ owner[s] = "deletesPlayer" => decoder[s] \in Ended
  /\ owner[s] \notin Busy \cup Tidying => encoded[s] = << >> /\ pcm[s] = << >>
  /\ owner[s] = "freed" => read[s] = 0 /\ failed[s] = {}
  /\ owner[s] \in Late \cup {"gone"} => failed[s] # {}
  /\ read[s] <= Frames[s]

(* Nothing of a session's answer was cut before it was asked for.          *)
UncutInv(s) == owner[s] \in Fresh \cup {"freed"} => ragged[s] = FALSE

USE DEF Fresh, Busy, Over, Ended, Tidying

(* The last steps of a helper change nothing but its place.                *)
LEMMA Ending ==
  ASSUME DataType, NEW s \in Sessions
  PROVE  /\ DecoderEnds(s) =>
              /\ decoder[s] \in {"finishing", "leaving", "exiting"}
              /\ decoder'[s] \in Ended \ {"none"}
              /\ UNCHANGED <<net, encoded, inhand, pcm, sinking, failed, memory, cancelled, opus>>
         /\ PlayerEnds(s) =>
              /\ player[s] \in {"finishing", "leaving", "exiting"}
              /\ player'[s] \in Ended \ {"none"}
              /\ UNCHANGED <<net, encoded, decoding, pcm, playing, failed, memory, cancelled, opus>>
BY DEF DataType, DecoderEnds, PlayerEnds, EndsAt

LEMMA PlacesNext ==
  ASSUME DataType, NEW s \in Sessions, PlacesInv(s), StepOf(s)
  PROVE  PlacesInv(s)'
<1> USE DEF PlacesInv
<1>0. DataType /\ Frames[s] \in Nat
  BY FrameAssumption
<1> USE DEF DataType, QueueType
<1>1. CASE OwnerNext(s)
  <2>1. CASE Connects(s)
    BY <1>0, <2>1 DEF Connects
  <2>2. CASE Refused(s) \/ QueueFull(s) \/ ReadFails(s) \/ SeesCancel(s)
    BY <1>0, <2>2 DEF Refused, QueueFull, ReadFails, SeesCancel, Reading
  <2>3. CASE Reads(s)
    BY <1>0, <2>3 DEF Reads, Reading
  <2>4. CASE FallsSilent(s) \/ ReadsAll(s) \/ Joins(s)
    BY <1>0, <2>4 DEF FallsSilent, ReadsAll, Joins, Reading, TasksDone, Published
  <2>5. CASE Terminates(s)
    BY <1>0, <2>5 DEF Terminates
  <2>6. CASE JoinExpires(s)
    <3>1. /\ owner[s] = "joining" /\ owner'[s] = "expired" /\ failed'[s] # {}
          /\ UNCHANGED <<read, encoded, decoder, pcm, player>>
      BY <1>0, <2>6 DEF JoinExpires
    <3> QED
      BY <1>0, <3>1
  <2>12. CASE LooksAgain(s)
    BY <1>0, <2>12 DEF LooksAgain, LooksAtPlayer, Published
  <2>10. CASE DeletesDecoder(s)
    BY <1>0, <2>10 DEF DeletesDecoder, LooksAtPlayer, Published
  <2>11. CASE DeletesPlayer(s)
    <3>1. /\ owner[s] = "deletesPlayer" /\ owner'[s] \in {"cleaning", "gone"}
          /\ player'[s] = "done" \/ player' = player
          /\ UNCHANGED <<read, encoded, pcm, decoder, failed>>
      BY <1>0, <2>11 DEF DeletesPlayer
    <3>2. owner'[s] = "cleaning" => decoder[s] \in Ended /\ player'[s] = "done"
      BY <1>0, <2>11 DEF DeletesPlayer
    <3> QED
      BY <1>0, <3>1, <3>2
  <2>7. CASE Cleans(s) \/ Drains(s)
    BY <1>0, <2>7 DEF Cleans, Drains
  <2>8. CASE OwnerOpens(s) \/ OwnerCloses(s) \/ OwnerWaits(s)
    BY <1>0, <2>8 DEF OwnerOpens, OwnerCloses, OwnerWaits
  <2>9. CASE OwnerEnds(s)
    BY <1>0, <2>9 DEF OwnerEnds, Ends
  <2> QED
    BY <1>1, <2>1, <2>2, <2>3, <2>4, <2>5, <2>6, <2>7, <2>8, <2>9, <2>10, <2>11,
       <2>12 DEF OwnerNext, ReaderNext
<1>2. CASE DecoderNext(s)
  <2>1. CASE DecoderEnds(s)
    BY <1>0, <2>1, Ending
  <2>2. CASE ~DecoderEnds(s)
    <3>1. /\ decoder[s] \notin Ended /\ decoder'[s] # "none"
          /\ UNCHANGED <<owner, read, player>> /\ failed[s] \subseteq failed'[s]
      <4>1. CASE Decodes(s)
        BY <1>0, <4>1 DEF Decodes
      <4>2. CASE Enqueues(s) \/ DecodeFails(s) \/ Forwards(s)
        BY <1>0, <4>2 DEF Enqueues, DecodeFails, Forwards
      <4> QED
        BY <1>2, <2>2, <4>1, <4>2 DEF DecoderNext
    <3>2. owner[s] \in Busy
      BY <1>0, <3>1
    <3> QED
      BY <1>0, <3>1, <3>2
  <2> QED
    BY <2>1, <2>2
<1>3. CASE PlayerNext(s)
  <2>1. CASE PlayerEnds(s)
    BY <1>0, <2>1, Ending
  <2>2. CASE ~PlayerEnds(s)
    <3>1. /\ player[s] \notin Ended /\ player'[s] # "none"
          /\ UNCHANGED <<owner, read, decoder>> /\ failed[s] \subseteq failed'[s]
      <4>1. CASE Takes(s)
        BY <1>0, <4>1 DEF Takes
      <4>2. CASE SinkEnters(s) \/ SinkSends(s) \/ SinkCounts(s) \/ SinkFails(s)
        BY <1>0, <4>2 DEF SinkEnters, SinkSends, SinkCounts, SinkFails
      <4> QED
        BY <1>3, <2>2, <4>1, <4>2 DEF PlayerNext
    <3>2. owner[s] \in Busy
      BY <1>0, <3>1
    <3> QED
      BY <1>0, <3>1, <3>2
  <2> QED
    BY <2>1, <2>2
<1>4. CASE Starts(s) \/ FreesSession(s) \/ Cancels(s)
  BY <1>0, <1>4 DEF Starts, FreesSession, Cancels
<1> QED
  BY <1>1, <1>2, <1>3, <1>4 DEF StepOf

LEMMA UncutNext ==
  ASSUME DataType, FlagType, NEW s \in Sessions, PlacesInv(s), UncutInv(s), StepOf(s)
  PROVE  UncutInv(s)'
<1> USE DEF UncutInv
<1>0. /\ owner \in [Sessions -> OwnerPlaces] /\ ragged \in [Sessions -> BOOLEAN]
      /\ decoder \in [Sessions -> DecoderPlaces]
  BY DEF DataType, FlagType
<1>1. CASE Enqueues(s)
  <2>1. decoder[s] = "decoding" /\ owner' = owner
    BY <1>1 DEF Enqueues
  <2>2. owner[s] \in Busy
    BY <1>0, <2>1 DEF PlacesInv
  <2> QED
    BY <2>1, <2>2
<1>2. CASE FreesSession(s)
  BY <1>0, <1>2 DEF FreesSession
<1>3. CASE ~Enqueues(s) /\ ~FreesSession(s)
  <2>1. ragged' = ragged
    <3>1. CASE OwnerNext(s)
      BY <3>1 DEF OwnerNext, ReaderNext, Connects, Refused, Reads, QueueFull, ReadFails,
                  FallsSilent, ReadsAll, SeesCancel, Terminates, Joins, JoinExpires, LooksAgain,
                  DeletesDecoder, DeletesPlayer, Cleans, Drains, OwnerOpens, OwnerCloses,
                  OwnerWaits, OwnerEnds
    <3>2. CASE DecoderNext(s) \/ PlayerNext(s)
      BY <1>3, <3>2 DEF DecoderNext, Decodes, DecodeFails, Forwards, DecoderEnds,
                        PlayerNext, Takes, SinkEnters, SinkSends, SinkCounts, SinkFails, PlayerEnds
    <3>3. CASE Starts(s) \/ Cancels(s)
      BY <3>3 DEF Starts, Cancels
    <3> QED
      BY <1>3, <3>1, <3>2, <3>3 DEF StepOf
  <2>2. owner'[s] \in Fresh \cup {"freed"} => owner[s] \in Fresh \cup {"freed"}
    <3>1. CASE OwnerNext(s)
      BY <1>0, <3>1 DEF OwnerNext, ReaderNext, Connects, Refused, Reads, QueueFull, ReadFails,
                  FallsSilent, ReadsAll, SeesCancel, Terminates, Joins, JoinExpires, LooksAgain,
                  LooksAtPlayer, DeletesDecoder, DeletesPlayer, Cleans, Drains, OwnerOpens,
                  OwnerCloses, OwnerWaits, OwnerEnds, Ends, Reading
    <3>2. CASE DecoderNext(s) \/ PlayerNext(s)
      BY <3>2 DEF DecoderNext, Decodes, Enqueues, DecodeFails, Forwards, DecoderEnds,
                  PlayerNext, Takes, SinkEnters, SinkSends, SinkCounts, SinkFails, PlayerEnds
    <3>3. CASE Starts(s) \/ Cancels(s)
      BY <1>0, <3>3 DEF Starts, Cancels
    <3> QED
      BY <1>3, <3>1, <3>2, <3>3 DEF StepOf
  <2> QED
    BY <2>1, <2>2
<1> QED
  BY <1>1, <1>2, <1>3

-----------------------------------------------------------------------------
(* Queues                                                                  *)

Marks == {Nothing, Eof, Error}

(* A queue holds the frames after a up to b, and then perhaps an end.      *)
Line(q, a, b, e) ==
  /\ a <= b /\ Len(q) = (b - a) + (IF e = Nothing THEN 0 ELSE 1)
  /\ \A i \in 1..(b - a) : q[i] = Frame(a + i)
  /\ e # Nothing => q[Len(q)] = e

Items(q) == {q[i] : i \in DOMAIN q}

LEMMA PacketsDiffer ==
  /\ \A n \in Nat : Frame(n).type = "frame" /\ Frame(n).n = n
  /\ Eof.type = "eof" /\ Error.type = "error" /\ Nothing.type = "nothing"
  /\ \A n \in Nat : Frame(n) \notin Marks
  /\ \A m, n \in Nat : Frame(m) = Frame(n) => m = n
BY DEF Frame, Eof, Error, Nothing, Marks

LEMMA LineEmpty ==
  ASSUME NEW a \in Nat
  PROVE  Line(<< >>, a, a, Nothing)
BY DEF Line

LEMMA LineOfEmpty ==
  ASSUME NEW a \in Nat, NEW b \in Nat, NEW e, Line(<< >>, a, b, e)
  PROVE  a = b /\ e = Nothing
BY DEF Line

LEMMA LineFrame ==
  ASSUME NEW q \in Seq(Packets), NEW a \in Nat, NEW b \in Nat, Line(q, a, b, Nothing)
  PROVE  Line(Append(q, Frame(b + 1)), a, b + 1, Nothing)
<1> DEFINE p == Frame(b + 1)
           r == Append(q, p)
<1>0. p \in Packets
  BY Packet
<1>1. /\ Len(r) = Len(q) + 1 /\ \A i \in 1..Len(q) : r[i] = q[i]
  BY <1>0, AppendProperties
<1>2. r[Len(q) + 1] = p
  BY <1>0, AppendProperties
<1>3. Len(q) = b - a /\ a <= b /\ \A i \in 1..(b - a) : q[i] = Frame(a + i)
  BY DEF Line
<1> HIDE DEF r
<1>4. ASSUME NEW i \in 1..(b + 1 - a) PROVE r[i] = Frame(a + i)
  <2>1. CASE i <= b - a
    BY <1>1, <1>3, <2>1
  <2>2. CASE i = b - a + 1
    <3>1. a + i = b + 1
      BY <2>2
    <3> QED
      BY <1>2, <1>3, <2>2, <3>1
  <2> QED
    BY <2>1, <2>2
<1> QED
  BY <1>1, <1>3, <1>4 DEF Line, r

LEMMA LineEnd ==
  ASSUME NEW q \in Seq(Packets), NEW a \in Nat, NEW b \in Nat, Line(q, a, b, Nothing),
         NEW e \in {Eof, Error}
  PROVE  Line(Append(q, e), a, b, e)
<1> DEFINE r == Append(q, e)
<1>0. e \in Packets /\ e # Nothing
  BY Packet, PacketsDiffer
<1>1. /\ Len(r) = Len(q) + 1 /\ \A i \in 1..Len(q) : r[i] = q[i]
  BY <1>0, AppendProperties
<1>2. r[Len(q) + 1] = e
  BY <1>0, AppendProperties
<1>3. Len(q) = b - a /\ a <= b /\ \A i \in 1..(b - a) : q[i] = Frame(a + i)
  BY DEF Line
<1> HIDE DEF r
<1> QED
  BY <1>0, <1>1, <1>2, <1>3 DEF Line, r

LEMMA LineTail ==
  ASSUME NEW q \in Seq(Packets), q # << >>, NEW a \in Nat, NEW b \in Nat, NEW e \in Marks,
         Line(q, a, b, e)
  PROVE  \/ a < b /\ Head(q) = Frame(a + 1) /\ Line(Tail(q), a + 1, b, e)
         \/ a = b /\ e # Nothing /\ Head(q) = e /\ Tail(q) = << >>
<1> DEFINE r == Tail(q)
<1>1. /\ r \in Seq(Packets) /\ Len(r) = Len(q) - 1
      /\ \A i \in 1..Len(r) : r[i] = q[i + 1]
  BY HeadTailProperties
<1>2. Head(q) = q[1] /\ Len(q) \in Nat \ {0}
  OBVIOUS
<1>3. /\ a <= b /\ Len(q) = (b - a) + (IF e = Nothing THEN 0 ELSE 1)
      /\ \A i \in 1..(b - a) : q[i] = Frame(a + i)
      /\ e # Nothing => q[Len(q)] = e
  BY DEF Line
<1> HIDE DEF r
<1>4. CASE a < b
  <2>1. Head(q) = Frame(a + 1)
    BY <1>2, <1>3, <1>4
  <2>2. ASSUME NEW i \in 1..(b - (a + 1)) PROVE r[i] = Frame((a + 1) + i)
    <3>1. i \in 1..Len(r) /\ i + 1 \in 1..(b - a)
      BY <1>1, <1>3, <1>4
    <3>2. r[i] = q[i + 1] /\ q[i + 1] = Frame(a + (i + 1))
      BY <1>1, <1>3, <3>1
    <3>3. a + (i + 1) = (a + 1) + i
      OBVIOUS
    <3> QED
      BY <3>2, <3>3
  <2>3. Len(r) = (b - (a + 1)) + (IF e = Nothing THEN 0 ELSE 1)
    BY <1>1, <1>3, <1>4
  <2>4. ASSUME e # Nothing PROVE r[Len(r)] = e
    <3>1. Len(r) \in 1..Len(r) /\ Len(r) + 1 = Len(q)
      BY <1>1, <1>3, <1>4, <2>4
    <3> QED
      BY <1>1, <1>3, <2>4, <3>1
  <2>5. Line(r, a + 1, b, e)
    BY <1>4, <2>2, <2>3, <2>4 DEF Line
  <2> QED
    BY <1>4, <2>1, <2>5 DEF r
<1>5. CASE a = b
  <2>1. e # Nothing /\ Len(q) = 1
    BY <1>2, <1>3, <1>5
  <2>2. Head(q) = e
    BY <1>2, <1>3, <2>1
  <2>3. r = << >>
    BY <1>1, <2>1
  <2> QED
    BY <1>5, <2>1, <2>2, <2>3 DEF r
<1> QED
  BY <1>3, <1>4, <1>5


-----------------------------------------------------------------------------
(* The loudspeaker                                                         *)

(* A close finds the task it waits for; without a stream task nothing is   *)
(* started, and the task that fills its scratch buffer has a jitter buffer. *)
SpeakerInv ==
  /\ ~crashed
  /\ \A u \in Users : closing[u] = "deleted" => stream = "none"
  /\ \A u \in Users : closing[u] # "no" => handle /\ ~started
  /\ handle /\ (\A u \in Users : closing[u] # "deleted") => stream # "none"
  /\ ~handle => stream = "none" /\ ~started
  /\ stream \in {"prebuffering", "receiving"} => ring.there

(* Nobody else is closing the output.                                      *)
Alone(u) == \A v \in Users \ {u} : closing[v] = "no"

LEMMA SpeakerFrame ==
  ASSUME SpeakerInv, UNCHANGED audio
  PROVE  SpeakerInv'
BY Zenon DEF SpeakerInv

(* What a user does to close and to open it.                               *)
LEMMA SpeakerClose ==
  ASSUME OutputType, SpeakerInv, NEW u \in Users, Alone(u),
         CloseBegins(u) \/ CloseDeletes(u) \/ CloseStalls(u) \/ CloseDone(u)
  PROVE  SpeakerInv'
<1> USE DEF OutputType, SpeakerInv, Alone
<1>1. CASE CloseBegins(u)
  BY <1>1 DEF CloseBegins
<1>2. CASE CloseDeletes(u)
  BY <1>2 DEF CloseDeletes
<1>3. CASE CloseStalls(u)
  BY <1>3 DEF CloseStalls, Blocked
<1>4. CASE CloseDone(u)
  BY <1>4 DEF CloseDone, Closes
<1> QED
  BY <1>1, <1>2, <1>3, <1>4

LEMMA SpeakerOpen ==
  ASSUME OutputType, SpeakerInv, NEW u \in Users, Alone(u), closing[u] = "no",
         (Opens(u) /\ ~handle) \/ OpenFails(u)
  PROVE  SpeakerInv'
<1> USE DEF OutputType, SpeakerInv, Alone
<1>1. CASE Opens(u) /\ ~handle
  BY <1>1 DEF Opens
<1>2. CASE OpenFails(u)
  BY <1>2 DEF OpenFails
<1> QED
  BY <1>1, <1>2

LEMMA SpeakerWrite ==
  ASSUME OutputType, SpeakerInv, \A u \in Users : closing[u] = "no", NEW p,
         WriteEnters \/ WriteSends(p) \/ WriteCounts
  PROVE  SpeakerInv'
<1> USE DEF OutputType, SpeakerInv
<1>1. CASE WriteEnters
  BY <1>1 DEF WriteEnters, NewRing
<1>2. CASE WriteSends(p) \/ WriteCounts
  BY <1>2 DEF WriteSends, WriteCounts
<1> QED
  BY <1>1, <1>2

LEMMA SpeakerStream ==
  ASSUME OutputType, SpeakerInv, StreamNext
  PROVE  /\ SpeakerInv' /\ UNCHANGED <<started, handle, closing>>
         /\ ring.there' = ring.there
<1> USE DEF OutputType, SpeakerInv
<1>1. CASE Prebuffered \/ RunsDry \/ StreamEnds
  BY <1>1 DEF Prebuffered, RunsDry, StreamEnds
<1>2. CASE Receive
  BY <1>2 DEF Receive, Writes
<1>3. CASE Flush
  BY <1>3 DEF Flush, Writes
<1> QED
  BY <1>1, <1>2, <1>3 DEF StreamNext


-----------------------------------------------------------------------------
(* The users of the output                                                 *)

(* A session's task closes the output before it opens it, and at the end.  *)
CloserInv == \A s \in Sessions : closing[s] # "no" => owner[s] \in {"opening", "closing"}

Rest == {"none", "freed"}

(* Unless a session was detached, the pipeline waits for whoever has the   *)
(* output: for the session it joins or for the prompt.                     *)
UserInv ==
  /\ detached = << >> /\ reaper = Nobody
  /\ \A s \in Sessions : owner[s] \notin Rest => main \in Joining /\ joining = s
  /\ prompt # "idle" => main = "waiting"
  /\ closing[Arbiter] # "no" => prompt # "idle"
  /\ closing[Pipeline] # "no" => main = "cleaning"

(* What is open or running, and for whom.                                  *)
OpenInv ==
  /\ prompt = "writing" => ~handle
  /\ started => \E s \in Sessions : owner[s] \in Busy \cup Tidying \cup {"closing"}
  /\ \A s \in Sessions : owner[s] \in {"connecting"} \cup Busy \cup Tidying =>
                           (handle => started)
  /\ \A s \in Sessions : player[s] = "sending" => ring.there

USE DEF Rest, Joining

LEMMA AloneIs ==
  ASSUME DataType, OutputType, CloserInv, UserInv, PipelineType
  PROVE  /\ \A s \in Sessions : owner[s] \notin Rest => Alone(s)
         /\ prompt # "idle" => Alone(Arbiter)
         /\ main = "cleaning" => Alone(Pipeline)
         /\ \A s \in Sessions : owner[s] \in {"connecting"} \cup Busy \cup Tidying =>
              \A u \in Users : closing[u] = "no"
<1> USE DEF Alone, CloserInv, UserInv, OutputType
<1>1. Users = Sessions \cup {Arbiter, Pipeline} /\ Arbiter # Pipeline
      /\ Arbiter \notin Sessions /\ Pipeline \notin Sessions
  BY TaskAssumption
<1>2. ASSUME NEW s \in Sessions, owner[s] \notin Rest, NEW v \in Users \ {s} PROVE closing[v] = "no"
  BY <1>1, <1>2
<1>3. ASSUME prompt # "idle", NEW v \in Users \ {Arbiter} PROVE closing[v] = "no"
  BY <1>1, <1>3
<1>4. ASSUME main = "cleaning", NEW v \in Users \ {Pipeline} PROVE closing[v] = "no"
  BY <1>1, <1>4
<1>5. ASSUME NEW s \in Sessions, owner[s] \in {"connecting"} \cup Busy \cup Tidying, NEW v \in Users
      PROVE  closing[v] = "no"
  BY <1>1, <1>2, <1>5
<1> QED
  BY <1>2, <1>3, <1>4, <1>5

(* Whose step it is and whose closing it changes.                          *)
LEMMA CloserNext ==
  ASSUME DataType, OutputType, PipelineType, CloserInv, [Next]_vars
  PROVE  CloserInv'
<1> USE DEF CloserInv
<1>0. /\ closing \in [Users -> {"no", "waiting", "deleted"}]
      /\ owner \in [Sessions -> OwnerPlaces]
      /\ \A s \in Sessions : s # Arbiter /\ s # Pipeline /\ s \in Users
  BY TaskAssumption DEF OutputType, DataType
<1>1. CASE MainNext
  <2>1. CASE CleansUp
    <3>1. owner' = owner /\ \A s \in Sessions : closing'[s] = closing[s]
      BY <1>0, <2>1 DEF CleansUp, CloseBegins, CloseDeletes, CloseStalls, CloseDone, Closes, OpenFails
    <3> QED
      BY <1>0, <3>1
  <2>2. CASE ~CleansUp
    BY <1>0, <1>1, <2>2 DEF MainNext, StartsPlayback, JoinsPlayback, FreesSession, JoinTimesOut,
                            Cancels, Detaches, PromptHeard
  <2> QED
    BY <2>1, <2>2
<1>2. CASE ReaperNext
  BY <1>0, <1>2 DEF ReaperNext, ReaperTakes, ReaperJoins, FreesSession
<1>3. CASE PromptNext
  <2>1. owner' = owner /\ \A s \in Sessions : closing'[s] = closing[s]
    BY <1>0, <1>3 DEF PromptNext, PromptOpens, PromptCloses, CloseBegins, CloseDeletes,
                      CloseStalls, CloseDone, Closes, Opens, OpenFails
  <2> QED
    BY <1>0, <2>1
<1>4. CASE SpeakerNext
  BY <1>0, <1>4 DEF SpeakerNext, StreamNext, Prebuffered, Receive, RunsDry, Flush, StreamEnds
<1>5. ASSUME NEW s \in Sessions, OwnerStep(s) PROVE CloserInv'
  <2>1. CASE ReaderNext(s) /\ UNCHANGED audio
    BY <1>0, <2>1 DEF ReaderNext, Connects, Refused, Reads, QueueFull, ReadFails, FallsSilent,
                      ReadsAll, SeesCancel, Terminates, Joins, JoinExpires, LooksAgain,
                      LooksAtPlayer, DeletesDecoder, DeletesPlayer, Cleans, Drains, Reading
  <2>2. CASE OwnerOpens(s) \/ OwnerCloses(s)
    BY <1>0, <2>2 DEF OwnerOpens, OwnerCloses, CloseBegins, CloseDone, Closes, Opens, OpenFails
  <2>3. CASE OwnerWaits(s)
    BY <1>0, <2>3 DEF OwnerWaits, CloseDeletes, CloseStalls, CloseDone, Closes
  <2>4. CASE OwnerEnds(s)
    BY <1>0, <2>4 DEF OwnerEnds, Ends
  <2> QED
    BY <1>5, <2>1, <2>2, <2>3, <2>4 DEF OwnerStep, OwnerNext
<1>6. ASSUME NEW s \in Sessions, DecoderStep(s) \/ PlayerStep(s) PROVE CloserInv'
  <2>1. closing' = closing /\ owner' = owner
    BY <1>6 DEF DecoderStep, DecoderNext, Decodes, Enqueues, DecodeFails, Forwards, DecoderEnds,
                PlayerStep, PlayerNext, Takes, SinkEnters, SinkSends, SinkCounts, SinkFails,
                PlayerEnds, WriteEnters, WriteSends, WriteCounts
  <2> QED
    BY <2>1
<1>7. CASE UNCHANGED vars
  BY <1>7
<1> QED
  BY <1>1, <1>2, <1>3, <1>4, <1>5, <1>6, <1>7 DEF Next


OutputInv ==
  /\ CloserInv
  /\ ~left => SpeakerInv /\ UserInv /\ OpenInv

Places == \A s \in Sessions : PlacesInv(s) /\ UncutInv(s)

(* While a session's task is at work or not begun, nothing is written.     *)
LEMMA NothingSent ==
  ASSUME DataType, Places, NEW s \in Sessions, owner[s] \notin Busy
  PROVE  player[s] # "sending"
BY DEF Places, PlacesInv, DataType

LEMMA MainOutput ==
  ASSUME DataType, OutputType, PipelineType, Places, CloserInv, ~left', UserInv, OpenInv,
         SpeakerInv, MainNext
  PROVE  SpeakerInv' /\ UserInv' /\ OpenInv'
<1> USE DEF UserInv, OpenInv
<1>0. /\ owner \in [Sessions -> OwnerPlaces] /\ player \in [Sessions -> PlayerPlaces]
      /\ closing \in [Users -> {"no", "waiting", "deleted"}]
      /\ \A s \in Sessions : owner[s] \notin Busy => player[s] # "sending"
      /\ main \in Joining => joining \in Sessions
      /\ Pipeline \in Users /\ Arbiter \in Users /\ Pipeline # Arbiter
  BY NothingSent, TaskAssumption DEF DataType, OutputType, PipelineType
<1>1. CASE StartsPlayback
  <2>1. SpeakerInv'
    BY <1>1, SpeakerFrame DEF StartsPlayback
  <2>2. PICK s \in Sessions : /\ owner[s] \in {"none", "freed"} /\ joining' = s
                              /\ owner' = [owner EXCEPT ![s] = "opening"]
                              /\ player' = [player EXCEPT ![s] = "none"]
    BY <1>1 DEF StartsPlayback
  <2>3. /\ main = "idle" /\ main' = "joining"
        /\ UNCHANGED <<prompt, detached, reaper, closing, ring, handle, started>>
    BY <1>1 DEF StartsPlayback
  <2>4. ~started
    BY <1>0, <2>3
  <2>5. UserInv'
    BY <1>0, <2>2, <2>3
  <2>6. OpenInv'
    BY <1>0, <2>2, <2>3, <2>4
  <2> QED
    BY <2>1, <2>5, <2>6
<1>2. CASE JoinsPlayback
  <2>1. SpeakerInv'
    BY <1>2, SpeakerFrame DEF JoinsPlayback
  <2>2. /\ main \in Joining /\ owner[joining] = "suspended" /\ main' = "waiting"
        /\ owner' = [owner EXCEPT ![joining] = "freed"] /\ prompt' = "opening"
        /\ UNCHANGED <<player, detached, reaper, closing, ring, handle, started>>
    BY <1>2 DEF JoinsPlayback, FreesSession, Says
  <2>3. ~started /\ \A s \in Sessions : owner'[s] \in Rest
    BY <1>0, <2>2
  <2>4. UserInv'
    BY <1>0, <2>2, <2>3
  <2>5. OpenInv'
    BY <1>0, <2>2, <2>3
  <2> QED
    BY <2>1, <2>4, <2>5
<1>3. CASE JoinTimesOut
  <2>1. SpeakerInv'
    BY <1>3, SpeakerFrame DEF JoinTimesOut
  <2>2. /\ main \in Joining /\ main' \in Joining /\ joining' = joining
        /\ UNCHANGED <<owner, prompt, player, detached, reaper, closing, ring, handle, started>>
    BY <1>3 DEF JoinTimesOut, Cancels
  <2> QED
    BY <1>0, <2>1, <2>2
<1>4. CASE Detaches
  <2>1. SpeakerInv'
    BY <1>4, SpeakerFrame DEF Detaches
  <2>2. UNCHANGED vars \/ UNCHANGED <<audio, down, pipeline, prompt, reaping, left>>
    BY <1>4 DEF Detaches
  <2> QED
    BY <2>1, <2>2
<1>5. CASE PromptHeard
  <2>1. SpeakerInv'
    BY <1>5, SpeakerFrame DEF PromptHeard
  <2>2. /\ main = "waiting" /\ main' \in {"cleaning", "idle"} /\ prompt = "idle"
        /\ UNCHANGED <<owner, prompt, player, detached, reaper, closing, ring, handle, started>>
    BY <1>5 DEF PromptHeard
  <2> QED
    BY <1>0, <2>1, <2>2
<1>6. CASE CleansUp
  <2>1. /\ main = "cleaning" /\ prompt = "idle" /\ \A s \in Sessions : owner[s] \in Rest
        /\ UNCHANGED <<owner, prompt, player, detached, reaper>>
    BY <1>0, <1>6 DEF CleansUp
  <2>2. Alone(Pipeline) /\ closing[Arbiter] = "no"
    BY <1>0, <2>1, AloneIs DEF Alone
  <2>3. SpeakerInv'
    <3>1. CASE CloseBegins(Pipeline) \/ CloseDeletes(Pipeline) \/ CloseStalls(Pipeline)
               \/ CloseDone(Pipeline)
      BY <1>0, <2>2, <3>1, SpeakerClose
    <3>2. CASE closing[Pipeline] = "no" /\ OpenFails(Pipeline)
      BY <1>0, <2>2, <3>2, SpeakerOpen
    <3> QED
      BY <1>6, <3>1, <3>2 DEF CleansUp
  <2>4. ~started /\ ~started' /\ closing'[Arbiter] = "no"
        /\ (closing'[Pipeline] # "no" => main' = "cleaning")
        /\ (main' = "cleaning" \/ main' = "idle")
    <3>1. ~started
      BY <1>0, <2>1
    <3> QED
      BY <1>0, <1>6, <2>1, <2>2, <3>1 DEF CleansUp, CloseBegins, CloseDeletes, CloseStalls,
         CloseDone, Closes, OpenFails
  <2> QED
    BY <1>0, <2>1, <2>3, <2>4
<1> QED
  BY <1>1, <1>2, <1>3, <1>4, <1>5, <1>6 DEF MainNext

LEMMA PromptOutput ==
  ASSUME DataType, OutputType, PipelineType, Places, CloserInv, UserInv, OpenInv,
         SpeakerInv, PromptNext
  PROVE  SpeakerInv' /\ UserInv' /\ OpenInv'
<1> USE DEF UserInv, OpenInv
<1>0. /\ owner \in [Sessions -> OwnerPlaces] /\ player \in [Sessions -> PlayerPlaces]
      /\ closing \in [Users -> {"no", "waiting", "deleted"}]
      /\ \A s \in Sessions : owner[s] \notin Busy => player[s] # "sending"
      /\ Pipeline \in Users /\ Arbiter \in Users /\ Pipeline # Arbiter
  BY NothingSent, TaskAssumption DEF DataType, OutputType
<1>1. /\ prompt # "idle" /\ main = "waiting" /\ \A s \in Sessions : owner[s] \in Rest
      /\ UNCHANGED <<owner, main, joining, player, detached, reaper>>
  BY <1>0 DEF PromptNext, PromptOpens, PromptCloses
<1>2. Alone(Arbiter) /\ closing[Pipeline] = "no" /\ ~started
  BY <1>0, <1>1, AloneIs DEF Alone
<1>3. CASE PromptOpens
  <2>1. SpeakerInv'
    <3>1. CASE CloseBegins(Arbiter) \/ CloseDeletes(Arbiter) \/ CloseStalls(Arbiter)
               \/ CloseDone(Arbiter)
      BY <1>0, <1>2, <3>1, SpeakerClose
    <3>2. CASE closing[Arbiter] = "no" /\ ~handle /\ (Opens(Arbiter) \/ OpenFails(Arbiter))
      BY <1>0, <1>2, <3>2, SpeakerOpen
    <3> QED
      BY <1>3, <3>1, <3>2 DEF PromptOpens
  <2>2. ~started' /\ closing'[Pipeline] = "no" /\ (closing'[Arbiter] # "no" => prompt' # "idle")
        /\ (prompt' = "writing" => ~handle')
    BY <1>0, <1>1, <1>2, <1>3 DEF PromptOpens, CloseBegins, CloseDeletes, CloseStalls,
         CloseDone, Closes, Opens, OpenFails
  <2> QED
    BY <1>0, <1>1, <2>1, <2>2
<1>4. CASE PromptCloses
  <2>1. SpeakerInv'
    BY <1>0, <1>2, <1>4, SpeakerClose DEF PromptCloses
  <2>2. ~started' /\ closing'[Pipeline] = "no" /\ (closing'[Arbiter] # "no" => prompt' # "idle")
        /\ (prompt' = "writing" => ~handle')
    BY <1>0, <1>1, <1>2, <1>4 DEF PromptCloses, CloseBegins, CloseDeletes, CloseStalls,
         CloseDone, Closes
  <2> QED
    BY <1>0, <1>1, <2>1, <2>2
<1> QED
  BY <1>3, <1>4 DEF PromptNext


LEMMA OwnerOutput ==
  ASSUME DataType, OutputType, PipelineType, Places, CloserInv, UserInv, OpenInv,
         SpeakerInv, NEW s \in Sessions, OwnerStep(s)
  PROVE  SpeakerInv' /\ UserInv' /\ OpenInv'
<1> USE DEF UserInv, OpenInv
<1>0. /\ owner \in [Sessions -> OwnerPlaces] /\ player \in [Sessions -> PlayerPlaces]
      /\ decoder \in [Sessions -> DecoderPlaces]
      /\ closing \in [Users -> {"no", "waiting", "deleted"}]
      /\ \A t \in Sessions : owner[t] \notin Busy => player[t] # "sending"
      /\ Pipeline \in Users /\ Arbiter \in Users /\ s \in Users /\ s # Arbiter /\ s # Pipeline
      /\ UNCHANGED <<prompt, main, joining, detached, reaper>>
  BY NothingSent, TaskAssumption DEF DataType, OutputType, OwnerStep, Others
<1>1. ASSUME owner[s] \notin Rest
      PROVE  /\ main \in Joining /\ joining = s /\ prompt = "idle"
             /\ closing[Arbiter] = "no" /\ closing[Pipeline] = "no"
             /\ \A t \in Sessions \ {s} : owner[t] \in Rest
  BY <1>0, <1>1
<1>2. CASE ReaderNext(s) /\ UNCHANGED audio
  <2>1. SpeakerInv'
    BY <1>2, SpeakerFrame
  <2>2. /\ owner[s] \notin Rest /\ owner'[s] \in OwnerPlaces \ {"none", "opening", "connecting"}
        /\ owner'[s] \in Busy \cup Tidying => owner[s] \in {"connecting"} \cup Busy \cup Tidying
        /\ owner[s] \in Busy \cup Tidying => owner'[s] \in Busy \cup Tidying \cup {"closing"}
        /\ \A t \in Sessions \ {s} : owner'[t] = owner[t]
    BY <1>0, <1>2 DEF ReaderNext, Connects, Refused, Reads, QueueFull, ReadFails, FallsSilent,
                      ReadsAll, SeesCancel, Terminates, Joins, JoinExpires, LooksAgain,
                      LooksAtPlayer, DeletesDecoder, DeletesPlayer, Cleans, Drains, Reading
  <2>3. \A t \in Sessions : player'[t] = "sending" => player[t] = "sending"
    BY <1>0, <1>2 DEF ReaderNext, Connects, Refused, Reads, QueueFull, ReadFails, FallsSilent,
                      ReadsAll, SeesCancel, Terminates, Joins, JoinExpires, LooksAgain,
                      DeletesDecoder, DeletesPlayer, Cleans, Drains
  <2>4. UNCHANGED <<closing, handle, started, ring>>
    BY <1>2
  <2>5. UserInv'
    BY <1>0, <1>1, <2>2, <2>4
  <2>6. owner[s] = "closing" => FALSE
    BY <1>0, <1>2 DEF ReaderNext, Connects, Refused, Reads, QueueFull, ReadFails, FallsSilent,
                      ReadsAll, SeesCancel, Terminates, Joins, JoinExpires, LooksAgain,
                      LooksAtPlayer, DeletesDecoder, DeletesPlayer, Cleans, Drains, Reading
  <2>7. OpenInv'
    <3>1. started' => \E t \in Sessions : owner'[t] \in Busy \cup Tidying \cup {"closing"}
      BY <1>0, <1>1, <2>2, <2>4, <2>6
    <3>2. \A t \in Sessions : owner'[t] \in {"connecting"} \cup Busy \cup Tidying =>
                                (handle' => started')
      BY <1>0, <1>1, <2>2, <2>4
    <3> QED
      BY <1>0, <2>3, <2>4, <3>1, <3>2
  <2> QED
    BY <2>1, <2>5, <2>7
<1>3. CASE OwnerOpens(s) \/ OwnerCloses(s) \/ OwnerWaits(s)
  <2>1. /\ owner[s] \in {"opening", "closing"}
        /\ \/ CloseBegins(s) \/ CloseDeletes(s) \/ CloseStalls(s) \/ CloseDone(s)
           \/ closing[s] = "no" /\ ~handle /\ (Opens(s) \/ OpenFails(s))
        /\ UNCHANGED player
    BY <1>3 DEF OwnerOpens, OwnerCloses, OwnerWaits
  <2>2. Alone(s)
    BY <2>1, AloneIs
  <2>3. SpeakerInv'
    BY <1>0, <2>1, <2>2, SpeakerClose, SpeakerOpen
  <2>4. /\ closing'[Arbiter] = "no" /\ closing'[Pipeline] = "no"
        /\ started' => started
    BY <1>0, <1>1, <2>1 DEF CloseBegins, CloseDeletes, CloseStalls, CloseDone, Closes, Opens,
                            OpenFails
  <2>5. /\ owner'[s] \in {"opening", "connecting", "closing", "publishing"}
        /\ \A t \in Sessions \ {s} : owner'[t] = owner[t]
        /\ owner[s] = "closing" => owner'[s] # "connecting"
        /\ owner'[s] = "connecting" => ~handle'
    BY <1>0, <1>3 DEF OwnerOpens, OwnerCloses, OwnerWaits, Opens
  <2>6. owner[s] = "closing" /\ owner'[s] # "closing" => ~started'
    BY <1>0, <1>3, <2>5 DEF OwnerOpens, OwnerCloses, OwnerWaits, SpeakerInv, CloseBegins,
       CloseDeletes, CloseDone, Closes, CloseStalls
  <2>7. UserInv'
    BY <1>0, <1>1, <2>1, <2>4, <2>5
  <2>8. OpenInv'
    <3>1. started' => \E t \in Sessions : owner'[t] \in Busy \cup Tidying \cup {"closing"}
      BY <1>0, <1>1, <2>1, <2>4, <2>5, <2>6
    <3> QED
      BY <1>0, <1>1, <2>1, <2>5, <3>1
  <2> QED
    BY <2>3, <2>7, <2>8
<1>4. CASE OwnerEnds(s)
  <2>1. SpeakerInv'
    BY <1>4, SpeakerFrame DEF OwnerEnds
  <2>2. /\ owner[s] \in {"publishing", "published"} /\ owner'[s] \in {"published", "suspended"}
        /\ \A t \in Sessions \ {s} : owner'[t] = owner[t]
        /\ UNCHANGED <<player, closing, handle, started, ring>>
    BY <1>0, <1>4 DEF OwnerEnds, Ends
  <2>3. UserInv'
    BY <1>0, <1>1, <2>2
  <2>4. OpenInv'
    BY <1>0, <1>1, <2>2
  <2> QED
    BY <2>1, <2>3, <2>4
<1> QED
  BY <1>2, <1>3, <1>4 DEF OwnerStep, OwnerNext

LEMMA PlayerOutput ==
  ASSUME DataType, OutputType, PipelineType, Places, CloserInv, UserInv, OpenInv,
         SpeakerInv, NEW s \in Sessions, PlayerStep(s)
  PROVE  SpeakerInv' /\ UserInv' /\ OpenInv'
<1> USE DEF UserInv, OpenInv
<1>0. /\ owner \in [Sessions -> OwnerPlaces] /\ player \in [Sessions -> PlayerPlaces]
      /\ closing \in [Users -> {"no", "waiting", "deleted"}]
      /\ Pipeline \in Users /\ Arbiter \in Users
      /\ UNCHANGED <<prompt, main, joining, detached, reaper>>
  BY UserIs DEF DataType, OutputType, PlayerStep, Others
<1>1. CASE PlayerEnds(s) /\ UNCHANGED audio
  <2>1. UNCHANGED owner /\ \A t \in Sessions : player'[t] = "sending" => player[t] = "sending"
    BY <1>0, <1>1, Ending DEF PlayerEnds
  <2>2. SpeakerInv'
    BY <1>1, SpeakerFrame
  <2>3. UNCHANGED <<closing, handle, started, ring>>
    BY <1>1
  <2> QED
    BY <1>0, <2>1, <2>2, <2>3
<1> SUFFICES ASSUME \/ Takes(s) /\ UNCHANGED audio
                    \/ SinkEnters(s) \/ SinkSends(s) \/ SinkCounts(s) \/ SinkFails(s)
             PROVE  SpeakerInv' /\ UserInv' /\ OpenInv'
  BY <1>1 DEF PlayerStep, PlayerNext
<1>5. owner' = owner /\ player[s] \notin Ended
  BY <1>0 DEF Takes, SinkEnters, SinkSends, SinkCounts, SinkFails
<1>2. owner[s] \in Busy /\ (\A u \in Users : closing[u] = "no") /\ prompt = "idle"
  <2>1. owner[s] \in Busy
    BY <1>0, <1>5 DEF Places, PlacesInv
  <2> QED
    BY <1>0, <2>1, AloneIs
<1>3. CASE (Takes(s) /\ UNCHANGED audio) \/ SinkFails(s)
  <2>1. SpeakerInv'
    BY <1>3, SpeakerFrame DEF SinkFails
  <2>2. \A t \in Sessions : player'[t] = "sending" => player[t] = "sending"
    BY <1>0, <1>3 DEF Takes, SinkFails
  <2>3. UNCHANGED <<closing, handle, started, ring>>
    BY <1>3 DEF SinkFails
  <2> QED
    BY <1>0, <1>5, <2>1, <2>2, <2>3
<1>4. CASE SinkEnters(s) \/ SinkSends(s) \/ SinkCounts(s)
  <2>1. PICK p : WriteEnters \/ WriteSends(p) \/ WriteCounts
    BY <1>4 DEF SinkEnters, SinkSends, SinkCounts
  <2>2. SpeakerInv'
    BY <1>2, <2>1, SpeakerWrite
  <2>3. /\ closing' = closing /\ (ring.there => ring.there')
        /\ (handle' /\ ~started' => handle /\ ~started)
    <3>1. CASE WriteEnters
      <4>1. ring.there => ring.there'
        BY <3>1 DEF WriteEnters
      <4>2. CASE started
        <5>1. started'
          BY <3>1, <4>2, Zenon DEF WriteEnters
        <5> QED
          BY <3>1, <4>1, <5>1 DEF WriteEnters
      <4>3. CASE ~started
        BY <3>1, <4>1, <4>3 DEF WriteEnters
      <4> QED
        BY <4>2, <4>3
    <3>2. CASE WriteSends(p)
      <4>1. ring.there'
        BY <3>2 DEF WriteSends, OutputType
      <4> QED
        BY <3>2, <4>1 DEF WriteSends
    <3>3. CASE WriteCounts
      BY <3>3 DEF WriteCounts
    <3> QED
      BY <2>1, <3>1, <3>2, <3>3
  <2>4. ASSUME NEW t \in Sessions, player'[t] = "sending" PROVE ring.there'
    <3>1. CASE SinkEnters(s)
      <4>1. ring' = (IF ring.there THEN ring ELSE [there |-> TRUE, items |-> << >>])
        BY <3>1 DEF SinkEnters, WriteEnters, NewRing
      <4> QED
        BY <4>1
    <3>2. CASE SinkSends(s) \/ SinkCounts(s)
      <4>1. player[t] = "sending"
        BY <1>0, <2>4, <3>2 DEF SinkSends, SinkCounts
      <4> QED
        BY <2>3, <4>1
    <3> QED
      BY <1>4, <3>1, <3>2
  <2>5. UserInv'
    BY <1>0, <1>5, <1>2, <2>3
  <2>6. OpenInv'
    <3>1. \A t \in Sessions : owner[t] \in {"connecting"} \cup Busy \cup Tidying =>
                                (handle' => started')
      BY <2>3
    <3> QED
      BY <1>0, <1>5, <1>2, <2>3, <2>4, <3>1
  <2> QED
    BY <2>2, <2>5, <2>6
<1> QED
  BY <1>3, <1>4

LEMMA OutputNext ==
  ASSUME Types, Places, OutputInv, [Next]_vars
  PROVE  OutputInv'
<1>0. DataType /\ OutputType /\ PipelineType
  BY DEF Types
<1>1. CloserInv'
  BY <1>0, CloserNext DEF OutputInv
<1> SUFFICES ASSUME ~left' PROVE SpeakerInv' /\ UserInv' /\ OpenInv'
  BY <1>1 DEF OutputInv
<1>2. left' = left \/ left' = TRUE
  BY DEF Next, MainNext, StartsPlayback, JoinsPlayback, JoinTimesOut, Detaches, PromptHeard,
         CleansUp, ReaperNext, ReaperTakes, ReaperJoins, PromptNext, SpeakerNext, OwnerStep,
         DecoderStep, PlayerStep, Others
<1>3. SpeakerInv /\ UserInv /\ OpenInv /\ CloserInv
  BY <1>2 DEF OutputInv
<1>4. CASE MainNext
  BY <1>0, <1>3, <1>4, MainOutput
<1>5. CASE ReaperNext
  BY <1>3, <1>5 DEF UserInv, ReaperNext, ReaperTakes, ReaperJoins
<1>6. CASE PromptNext
  BY <1>0, <1>3, <1>6, PromptOutput
<1>7. CASE SpeakerNext
  <2>1. /\ SpeakerInv' /\ UNCHANGED <<started, handle, closing>> /\ ring.there' = ring.there
    BY <1>0, <1>3, <1>7, SpeakerStream DEF SpeakerNext
  <2>2. UNCHANGED <<owner, player, prompt, main, joining, detached, reaper>>
    BY <1>7 DEF SpeakerNext, Others
  <2>3. UserInv'
    BY <1>3, <2>1, <2>2 DEF UserInv
  <2>4. OpenInv'
    BY <1>3, <2>1, <2>2 DEF OpenInv
  <2> QED
    BY <2>1, <2>3, <2>4
<1>8. ASSUME NEW s \in Sessions, OwnerStep(s) PROVE SpeakerInv' /\ UserInv' /\ OpenInv'
  BY <1>0, <1>3, <1>8, OwnerOutput
<1>9. ASSUME NEW s \in Sessions, PlayerStep(s) PROVE SpeakerInv' /\ UserInv' /\ OpenInv'
  BY <1>0, <1>3, <1>9, PlayerOutput
<1>10. CASE (\E s \in Sessions : DecoderStep(s)) \/ UNCHANGED vars
  <2>1. UNCHANGED <<audio, owner, player, prompt, main, joining, detached, reaper>>
    BY <1>10 DEF DecoderStep, DecoderNext, Decodes, Enqueues, DecodeFails, Forwards, DecoderEnds,
                 Others
  <2>2. SpeakerInv'
    BY <1>3, <2>1, SpeakerFrame
  <2>3. UserInv'
    BY <1>3, <2>1 DEF UserInv
  <2>4. OpenInv'
    BY <1>3, <2>1 DEF OpenInv
  <2> QED
    BY <2>2, <2>3, <2>4
<1> QED
  BY <1>4, <1>5, <1>6, <1>7, <1>8, <1>9, <1>10 DEF Next


(* The packets of a queue, all different: its frames, and its end.         *)
LEMMA LineItems ==
  ASSUME NEW q \in Seq(Packets), NEW a \in Nat, NEW b \in Nat, NEW e \in Marks, Line(q, a, b, e)
  PROVE  \A p \in Items(q) : (\E n \in a + 1..b : p = Frame(n)) \/ (p = e /\ e # Nothing)
<1> SUFFICES ASSUME NEW i \in 1..Len(q)
             PROVE  (\E n \in a + 1..b : q[i] = Frame(n)) \/ (q[i] = e /\ e # Nothing)
  BY DEF Items
<1>1. CASE i <= b - a
  <2>1. q[i] = Frame(a + i) /\ a + i \in a + 1..b
    BY <1>1 DEF Line
  <2> QED
    BY <2>1
<1>2. CASE ~(i <= b - a)
  BY <1>2 DEF Line
<1> QED
  BY <1>1, <1>2

(* Frames that are not in a queue yet, or no longer.                       *)
LEMMA FrameNotIn ==
  ASSUME NEW q \in Seq(Packets), NEW a \in Nat, NEW b \in Nat, NEW e \in Marks, Line(q, a, b, e),
         NEW n \in Nat, n <= a \/ b < n
  PROVE  Frame(n) \notin Items(q)
<1> SUFFICES ASSUME Frame(n) \in Items(q) PROVE FALSE
  OBVIOUS
<1>1. CASE \E m \in a + 1..b : Frame(n) = Frame(m)
  <2>1. PICK m \in a + 1..b : Frame(n) = Frame(m)
    BY <1>1
  <2>2. m \in Nat /\ m = n
    BY <2>1, PacketsDiffer
  <2> QED
    BY <2>1, <2>2
<1>2. CASE Frame(n) = e
  BY <1>2, PacketsDiffer
<1> QED
  BY <1>1, <1>2, LineItems

LEMMA ItemsAppend ==
  ASSUME NEW q \in Seq(Packets), NEW p \in Packets
  PROVE  Items(Append(q, p)) = Items(q) \cup {p}
<1> DEFINE r == Append(q, p)
<1>1. /\ r \in Seq(Packets) /\ Len(r) = Len(q) + 1 /\ \A i \in 1..Len(q) : r[i] = q[i]
  BY AppendProperties
<1>2. r[Len(q) + 1] = p
  BY AppendProperties
<1> HIDE DEF r
<1>3. DOMAIN r = 1..(Len(q) + 1) /\ DOMAIN q = 1..Len(q) /\ Len(q) \in Nat
  BY <1>1
<1>4. ASSUME NEW x \in Items(r) PROVE x \in Items(q) \cup {p}
  BY <1>1, <1>2, <1>3 DEF Items
<1>5. ASSUME NEW x \in Items(q) PROVE x \in Items(r)
  BY <1>1, <1>3 DEF Items
<1>6. p \in Items(r)
  BY <1>2, <1>3 DEF Items
<1> QED
  BY <1>4, <1>5, <1>6 DEF r

LEMMA ItemsTail ==
  ASSUME NEW q \in Seq(Packets), q # << >>
  PROVE  Items(q) = Items(Tail(q)) \cup {Head(q)}
<1> DEFINE r == Tail(q)
<1>1. /\ r \in Seq(Packets) /\ Len(r) = Len(q) - 1
      /\ \A i \in 1..Len(r) : r[i] = q[i + 1]
  BY HeadTailProperties
<1>2. Head(q) = q[1] /\ Len(q) \in Nat \ {0}
  OBVIOUS
<1> HIDE DEF r
<1>3. DOMAIN r = 1..(Len(q) - 1) /\ DOMAIN q = 1..Len(q)
  BY <1>1
<1>4. ASSUME NEW i \in 1..Len(q) PROVE q[i] \in Items(r) \cup {Head(q)}
  <2>1. CASE i = 1
    BY <1>2, <2>1
  <2>2. CASE i # 1
    <3>1. i - 1 \in 1..Len(r) /\ r[i - 1] = q[i]
      BY <1>1, <1>2, <2>2
    <3> QED
      BY <1>1, <1>3, <3>1 DEF Items
  <2> QED
    BY <2>1, <2>2
<1>5. ASSUME NEW x \in Items(r) PROVE x \in Items(q)
  <2>1. PICK i \in 1..Len(r) : x = r[i]
    BY <1>1, <1>3 DEF Items
  <2>2. x = q[i + 1] /\ i + 1 \in 1..Len(q)
    BY <1>1, <1>2, <2>1
  <2> QED
    BY <1>3, <2>2 DEF Items
<1>6. Head(q) \in Items(q)
  BY <1>2, <1>3 DEF Items
<1> QED
  BY <1>3, <1>4, <1>5, <1>6 DEF Items, r

LEMMA ItemsEmpty == Items(<< >>) = {}
BY DEF Items


-----------------------------------------------------------------------------
(* The order of the frames                                                 *)

InSink == {"entering", "sending", "counting"}

(* The end was put at the end of the first queue.                          *)
AfterEnd == {"joining", "gone"} \cup Late \cup Tidying

(* The frames up to a were given to the sink, those up to b are in the     *)
(* second queue or were, those up to c were taken out of the first one.    *)
OrderInv(s, a, b, c, e, f) ==
  /\ Line(pcm[s], a, b, f) /\ b <= c /\ Line(encoded[s], c, read[s], e)
  /\ e # Nothing => owner[s] \in AfterEnd
  /\ f # Nothing => decoder[s] \in AfterWork
  /\ decoder[s] = "decoding" => b + 1 = c /\ inhand[s] = Frame(c)
  /\ decoder[s] = "waiting" /\ c < Frames[s] => b = c
  /\ decoder[s] = "forwarding" => inhand[s] \in {Eof, Error}
  /\ decoder[s] \notin {"decoding", "forwarding"} => inhand[s] = Nothing
  /\ player[s] \in InSink => 0 < a /\ playing[s] = Frame(a)
  /\ player[s] \notin InSink => playing[s] = Nothing

USE DEF InSink, AfterEnd

LEMMA OrderOfOwner ==
  ASSUME DataType, NEW s \in Sessions, PlacesInv(s),
         NEW a \in Nat, NEW b \in Nat, NEW c \in Nat, NEW e \in Marks, NEW f \in Marks,
         OrderInv(s, a, b, c, e, f),
         \/ Connects(s) \/ Refused(s) \/ QueueFull(s) \/ ReadFails(s) \/ FallsSilent(s)
         \/ ReadsAll(s) \/ SeesCancel(s) \/ Joins(s) \/ JoinExpires(s) \/ Starts(s) \/ Cancels(s)
         \/ LooksAgain(s) \/ DeletesDecoder(s) \/ DeletesPlayer(s) \/ Cleans(s)
         \/ OwnerOpens(s) \/ OwnerCloses(s) \/ OwnerWaits(s) \/ OwnerEnds(s)
  PROVE  OrderInv(s, a, b, c, e, f)'
<1> USE DEF OrderInv
<1>0. /\ owner \in [Sessions -> OwnerPlaces] /\ player \in [Sessions -> PlayerPlaces]
      /\ decoder \in [Sessions -> DecoderPlaces]
      /\ inhand \in [Sessions -> Packets \cup {Nothing}]
      /\ playing \in [Sessions -> Packets \cup {Nothing}]
  BY DEF DataType
<1>1. UNCHANGED <<pcm, encoded, read>>
  BY DEF Connects, Refused, QueueFull, ReadFails, FallsSilent, ReadsAll, SeesCancel, Joins,
         JoinExpires, LooksAgain, DeletesDecoder, DeletesPlayer, Cleans,
         Starts, Cancels, OwnerOpens, OwnerCloses, OwnerWaits, OwnerEnds
<1>2. owner[s] \in AfterEnd => owner'[s] \in AfterEnd
  BY <1>0 DEF Connects, Refused, QueueFull, ReadFails, FallsSilent, ReadsAll, SeesCancel, Joins,
         JoinExpires, LooksAgain, LooksAtPlayer, DeletesDecoder, DeletesPlayer, Cleans,
         Starts, Cancels, OwnerOpens, OwnerCloses, OwnerWaits, OwnerEnds, Reading, Ends
<1>3. CASE Starts(s)
  <2>1. encoded[s] = << >> /\ pcm[s] = << >> /\ read[s] = 0
        /\ decoder[s] \in Ended /\ player[s] \in Ended
    BY <1>0, <1>3 DEF Starts, PlacesInv
  <2>2. f = Nothing /\ e = Nothing /\ a = b /\ c = 0
    BY <2>1, LineOfEmpty
  <2>3. /\ decoder'[s] = "none" /\ player'[s] = "none" /\ UNCHANGED <<inhand, playing>>
    BY <1>0, <1>3 DEF Starts
  <2> QED
    BY <1>0, <1>1, <2>1, <2>2, <2>3
<1>4. CASE DeletesDecoder(s) \/ DeletesPlayer(s)
  <2>1. /\ UNCHANGED decoding \/ (decoder'[s] = "done" /\ inhand'[s] = Nothing)
        /\ UNCHANGED sinking \/ (player'[s] = "done" /\ playing'[s] = Nothing)
    BY <1>0, <1>4 DEF DeletesDecoder, DeletesPlayer
  <2> QED
    BY <1>1, <1>2, <2>1
<1>5. CASE Connects(s)
  <2>1. /\ decoder'[s] = "waiting" /\ player'[s] = "waiting"
        /\ decoder[s] = "none" /\ player[s] = "none" /\ UNCHANGED <<inhand, playing>>
        /\ read[s] = 0 /\ encoded[s] = << >>
    BY <1>0, <1>5 DEF Connects, PlacesInv
  <2>2. c = 0
    <3>1. Line(<< >>, c, 0, e)
      BY <2>1
    <3> QED
      BY <3>1, LineOfEmpty
  <2>3. b = 0
    BY <2>2
  <2> QED
    BY <1>1, <1>2, <2>1, <2>2, <2>3
<1>6. CASE ~Starts(s) /\ ~DeletesDecoder(s) /\ ~DeletesPlayer(s) /\ ~Connects(s)
  <2>1. UNCHANGED <<decoder, player, inhand, playing>>
    BY <1>6 DEF Refused, QueueFull, ReadFails, FallsSilent, ReadsAll, SeesCancel, Joins,
                JoinExpires, LooksAgain, Cleans,
                Cancels, OwnerOpens, OwnerCloses, OwnerWaits, OwnerEnds
  <2> QED
    BY <1>1, <1>2, <2>1
<1> QED
  BY <1>3, <1>4, <1>5, <1>6

LEMMA OrderOfRead ==
  ASSUME DataType, NEW s \in Sessions,
         NEW a \in Nat, NEW b \in Nat, NEW c \in Nat, NEW e \in Marks, NEW f \in Marks,
         OrderInv(s, a, b, c, e, f), Reads(s)
  PROVE  e = Nothing /\ OrderInv(s, a, b, c, e, f)'
<1> USE DEF OrderInv
<1>1. e = Nothing
  BY DEF Reads, Reading
<1>2. encoded[s] \in Seq(Packets) /\ read[s] \in Nat
  BY DEF DataType, QueueType
<1>3. PICK p : p = Frame(read[s] + 1)
  OBVIOUS
<1>4. Line(Append(encoded[s], p), c, read[s] + 1, Nothing)
  BY <1>1, <1>2, <1>3, LineFrame
<1>5. encoded'[s] = Append(encoded[s], p) /\ read'[s] = read[s] + 1
  BY <1>3 DEF Reads, DataType, QueueType
<1>6. UNCHANGED <<owner, pcm, decoding, sinking>>
  BY DEF Reads
<1> QED
  BY <1>1, <1>4, <1>5, <1>6

LEMMA OrderOfEnd ==
  ASSUME DataType, NEW s \in Sessions,
         NEW a \in Nat, NEW b \in Nat, NEW c \in Nat, NEW e \in Marks, NEW f \in Marks,
         OrderInv(s, a, b, c, e, f), Terminates(s)
  PROVE  /\ e = Nothing
         /\ \/ OrderInv(s, a, b, c, e, f)' /\ Fails(s, "stream")
            \/ /\ \E g \in {Eof, Error} : /\ g = Terminal("stream" \notin failed[s])
                                           /\ OrderInv(s, a, b, c, g, f)'
               /\ failed' = failed
<1> USE DEF OrderInv
<1>1. e = Nothing /\ owner'[s] = "joining"
  BY DEF Terminates, DataType
<1>2. encoded[s] \in Seq(Packets) /\ read[s] \in Nat
  BY DEF DataType, QueueType
<1>3. PICK p \in {Eof, Error} : p = Terminal("stream" \notin failed[s])
  BY DEF Terminal
<1>4. Line(Append(encoded[s], p), c, read[s], p)
  BY <1>1, <1>2, LineEnd
<1>5. \/ encoded'[s] = Append(encoded[s], p) /\ failed' = failed
      \/ encoded'[s] = encoded[s] /\ Fails(s, "stream")
  BY <1>3 DEF Terminates, DataType, QueueType
<1>6. UNCHANGED <<read, pcm, decoding, sinking>>
  BY DEF Terminates
<1>7. CASE encoded'[s] = Append(encoded[s], p) /\ failed' = failed
  <2>1. p \in Marks
    BY DEF Marks
  <2>2. OrderInv(s, a, b, c, p, f)'
    BY <1>1, <1>4, <1>6, <1>7, <2>1
  <2> QED
    BY <1>1, <1>3, <1>7, <2>2
<1>8. CASE encoded'[s] = encoded[s] /\ Fails(s, "stream")
  <2>1. OrderInv(s, a, b, c, e, f)'
    BY <1>1, <1>6, <1>8
  <2> QED
    BY <1>1, <1>8, <2>1
<1> QED
  BY <1>5, <1>7, <1>8

LEMMA OrderOfDrain ==
  ASSUME DataType, NEW s \in Sessions, PlacesInv(s),
         NEW a \in Nat, NEW b \in Nat, NEW c \in Nat, NEW e \in Marks, NEW f \in Marks,
         OrderInv(s, a, b, c, e, f), Drains(s)
  PROVE  a <= b /\ b <= c /\ c <= read[s] /\ OrderInv(s, a, a, read[s], Nothing, Nothing)'
<1> USE DEF OrderInv
<1>1. read[s] \in Nat /\ a <= b /\ b <= c /\ c <= read[s]
  BY DEF DataType, Line
<1>2. Line(<< >>, a, a, Nothing) /\ Line(<< >>, read[s], read[s], Nothing)
  BY <1>1, LineEmpty
<1>3. decoder[s] \in Ended /\ player[s] \in Ended
  BY DEF Drains, PlacesInv
<1>5. encoded'[s] = << >> /\ pcm'[s] = << >> /\ read'[s] = read[s]
  BY DEF Drains, DataType, QueueType
<1>6. UNCHANGED <<decoding, sinking>>
  BY DEF Drains
<1> QED
  BY <1>1, <1>2, <1>3, <1>5, <1>6

LEMMA OrderOfFree ==
  ASSUME DataType, NEW s \in Sessions, PlacesInv(s),
         NEW a \in Nat, NEW b \in Nat, NEW c \in Nat, NEW e \in Marks, NEW f \in Marks,
         OrderInv(s, a, b, c, e, f), FreesSession(s)
  PROVE  OrderInv(s, 0, 0, 0, Nothing, Nothing)'
<1> USE DEF OrderInv
<1>1. /\ encoded[s] = << >> /\ pcm[s] = << >> /\ decoder[s] \in Ended /\ player[s] \in Ended
  BY DEF FreesSession, PlacesInv
<1>2. Line(<< >>, 0, 0, Nothing)
  BY LineEmpty
<1>3. UNCHANGED <<encoded, pcm, decoding, sinking>> /\ read'[s] = 0
  BY DEF FreesSession, DataType
<1> QED
  BY <1>1, <1>2, <1>3


LEMMA OrderOfDecode ==
  ASSUME DataType, NEW s \in Sessions, PlacesInv(s),
         NEW a \in Nat, NEW b \in Nat, NEW c \in Nat, NEW e \in Marks, NEW f \in Marks,
         OrderInv(s, a, b, c, e, f), Decodes(s)
  PROVE  \/ /\ c < read[s] /\ Head(encoded[s]) = Frame(c + 1) /\ b <= c
            /\ OrderInv(s, a, b, c + 1, e, f)'
         \/ /\ e # Nothing /\ c = read[s] /\ Head(encoded[s]) = e
            /\ OrderInv(s, a, b, c, Nothing, f)'
<1> USE DEF OrderInv
<1>0. /\ decoder \in [Sessions -> DecoderPlaces] /\ read[s] \in Nat /\ Frames[s] \in Nat
      /\ inhand \in [Sessions -> Packets \cup {Nothing}] /\ read[s] <= Frames[s]
  BY FrameAssumption DEF DataType, PlacesInv
<1>1. encoded[s] \in Seq(Packets) /\ encoded[s] # << >> /\ encoded'[s] = Tail(encoded[s])
  BY DEF DataType, QueueType, Decodes
<1>2. \/ /\ c < read[s] /\ Head(encoded[s]) = Frame(c + 1)
         /\ Line(Tail(encoded[s]), c + 1, read[s], e)
      \/ c = read[s] /\ e # Nothing /\ Head(encoded[s]) = e /\ Tail(encoded[s]) = << >>
  BY <1>0, <1>1, LineTail
<1>3. UNCHANGED <<owner, read, pcm, sinking>> /\ f = Nothing /\ decoder[s] = "waiting"
  BY DEF Decodes
<1>4. PICK p : p = Head(encoded[s])
  OBVIOUS
<1>5. \/ p.type = "frame" /\ inhand'[s] = p /\ decoder'[s] = "decoding"
      \/ p.type = "frame" /\ inhand'[s] = Error /\ decoder'[s] = "forwarding"
      \/ p.type # "frame" /\ inhand'[s] = p /\ decoder'[s] = "forwarding"
  BY <1>0, <1>4 DEF Decodes
<1>6. CASE c < read[s] /\ p = Frame(c + 1) /\ Line(Tail(encoded[s]), c + 1, read[s], e)
  <2>1. p.type = "frame" /\ b = c
    BY <1>0, <1>3, <1>6, PacketsDiffer
  <2>2. OrderInv(s, a, b, c + 1, e, f)'
    BY <1>1, <1>3, <1>5, <1>6, <2>1
  <2> QED
    BY <1>4, <1>6, <2>1, <2>2
<1>7. CASE c = read[s] /\ e # Nothing /\ p = e /\ Tail(encoded[s]) = << >>
  <2>1. p.type # "frame" /\ p \in {Eof, Error}
    BY <1>7, PacketsDiffer DEF Marks
  <2>2. Line(<< >>, c, read[s], Nothing)
    BY <1>7, LineEmpty
  <2>3. OrderInv(s, a, b, c, Nothing, f)'
    BY <1>1, <1>3, <1>5, <1>7, <2>1, <2>2
  <2> QED
    BY <1>4, <1>7, <2>3
<1> QED
  BY <1>2, <1>4, <1>6, <1>7

LEMMA OrderOfEnqueue ==
  ASSUME DataType, FlagType, NEW s \in Sessions, PlacesInv(s),
         NEW a \in Nat, NEW b \in Nat, NEW c \in Nat, NEW e \in Marks, NEW f \in Marks,
         OrderInv(s, a, b, c, e, f), Enqueues(s)
  PROVE  /\ b + 1 = c /\ f = Nothing /\ inhand[s] = Frame(c)
         /\ \/ c = Frames[s] /\ ragged'[s] = TRUE /\ OrderInv(s, a, b, c, e, f)'
            \/ ragged'[s] = ragged[s] /\ OrderInv(s, a, c, c, e, f)'
<1> USE DEF OrderInv
<1>0. /\ decoder \in [Sessions -> DecoderPlaces] /\ pcm[s] \in Seq(Packets)
      /\ inhand \in [Sessions -> Packets \cup {Nothing}] /\ Frames[s] \in Nat
  BY FrameAssumption DEF DataType, QueueType
<1>1. /\ b + 1 = c /\ f = Nothing /\ inhand[s] = Frame(c)
      /\ decoder'[s] = "waiting" /\ inhand'[s] = Nothing
      /\ UNCHANGED <<owner, read, encoded, sinking>>
  BY <1>0 DEF Enqueues
<1>2. CASE inhand[s].n = Frames[s] /\ ragged'[s] = TRUE /\ pcm' = pcm
  <2>1. c = Frames[s]
    BY <1>1, <1>2, PacketsDiffer
  <2>2. OrderInv(s, a, b, c, e, f)'
    BY <1>1, <1>2, <2>1
  <2> QED
    BY <1>1, <1>2, <2>1, <2>2
<1>3. CASE ragged'[s] = ragged[s] /\ pcm'[s] = Append(pcm[s], inhand[s])
  <2>1. Line(Append(pcm[s], Frame(c)), a, c, Nothing)
    <3>1. Line(Append(pcm[s], Frame(b + 1)), a, b + 1, Nothing)
      BY <1>0, <1>1, LineFrame
    <3> QED
      BY <1>1, <3>1
  <2>2. OrderInv(s, a, c, c, e, f)'
    BY <1>1, <1>3, <2>1
  <2> QED
    BY <1>1, <1>3, <2>2
<1> QED
  BY <1>2, <1>3 DEF Enqueues, DataType, FlagType, QueueType

LEMMA OrderOfDecodeFails ==
  ASSUME DataType, NEW s \in Sessions,
         NEW a \in Nat, NEW b \in Nat, NEW c \in Nat, NEW e \in Marks, NEW f \in Marks,
         OrderInv(s, a, b, c, e, f), DecodeFails(s)
  PROVE  OrderInv(s, a, b, c, e, f)'
<1> USE DEF OrderInv
<1>1. /\ decoder'[s] = "forwarding" /\ inhand'[s] = Error /\ decoder[s] = "decoding"
      /\ UNCHANGED <<owner, read, encoded, pcm, sinking>>
  BY DEF DecodeFails, DataType
<1> QED
  BY <1>1

LEMMA OrderOfForward ==
  ASSUME DataType, NEW s \in Sessions,
         NEW a \in Nat, NEW b \in Nat, NEW c \in Nat, NEW e \in Marks, NEW f \in Marks,
         OrderInv(s, a, b, c, e, f), Forwards(s)
  PROVE  /\ f = Nothing
         /\ \/ OrderInv(s, a, b, c, e, f)' /\ Fails(s, "tasks")
            \/ /\ \E g \in {Eof, Error} : g = inhand[s] /\ OrderInv(s, a, b, c, e, g)'
               /\ failed' = failed
<1> USE DEF OrderInv
<1>1. /\ decoder'[s] = "finishing" /\ inhand'[s] = Nothing /\ f = Nothing
      /\ UNCHANGED <<owner, read, encoded, sinking>>
  BY DEF Forwards, DataType
<1>2. PICK p \in {Eof, Error} : p = inhand[s]
  BY DEF Forwards
<1>3. pcm[s] \in Seq(Packets) /\ Line(Append(pcm[s], p), a, b, p)
  BY <1>1, LineEnd DEF DataType, QueueType
<1>4. \/ pcm'[s] = Append(pcm[s], p) /\ failed' = failed
      \/ pcm'[s] = pcm[s] /\ Fails(s, "tasks")
  BY <1>2 DEF Forwards, DataType, QueueType
<1> QED
  BY <1>1, <1>2, <1>3, <1>4

LEMMA OrderOfTake ==
  ASSUME DataType, NEW s \in Sessions,
         NEW a \in Nat, NEW b \in Nat, NEW c \in Nat, NEW e \in Marks, NEW f \in Marks,
         OrderInv(s, a, b, c, e, f), Takes(s)
  PROVE  \/ /\ a < b /\ Head(pcm[s]) = Frame(a + 1) /\ OrderInv(s, a + 1, b, c, e, f)'
            /\ player'[s] = "entering" \/ (player'[s] = "finishing" /\ Fails(s, "tasks"))
         \/ /\ f # Nothing /\ a = b /\ Head(pcm[s]) = f /\ OrderInv(s, a, b, c, e, Nothing)'
            /\ player'[s] = "finishing" /\ (f = Error => Fails(s, "tasks"))
<1> USE DEF OrderInv
<1>0. /\ player \in [Sessions -> PlayerPlaces]
      /\ playing \in [Sessions -> Packets \cup {Nothing}]
  BY DEF DataType
<1>1. pcm[s] \in Seq(Packets) /\ pcm[s] # << >> /\ pcm'[s] = Tail(pcm[s])
  BY DEF DataType, QueueType, Takes
<1>2. \/ a < b /\ Head(pcm[s]) = Frame(a + 1) /\ Line(Tail(pcm[s]), a + 1, b, f)
      \/ a = b /\ f # Nothing /\ Head(pcm[s]) = f /\ Tail(pcm[s]) = << >>
  BY <1>1, LineTail
<1>3. /\ UNCHANGED <<owner, read, encoded, decoding>>
      /\ player[s] = "waiting" /\ playing[s] = Nothing
  BY DEF Takes
<1>4. PICK p : p = Head(pcm[s])
  OBVIOUS
<1>5. \/ p.type = "frame" /\ playing'[s] = p /\ player'[s] = "entering"
      \/ /\ p.type = "error" \/ p.type = "frame"
         /\ playing'[s] = Nothing /\ player'[s] = "finishing" /\ Fails(s, "tasks")
      \/ p.type = "eof" /\ playing'[s] = Nothing /\ player'[s] = "finishing"
  BY <1>0, <1>3, <1>4 DEF Takes
<1>6. CASE a < b /\ p = Frame(a + 1) /\ Line(Tail(pcm[s]), a + 1, b, f)
  <2>1. p.type = "frame"
    BY <1>6, PacketsDiffer
  <2>2. OrderInv(s, a + 1, b, c, e, f)'
    BY <1>1, <1>3, <1>5, <1>6, <2>1
  <2> QED
    BY <1>4, <1>5, <1>6, <2>1, <2>2
<1>7. CASE a = b /\ f # Nothing /\ p = f /\ Tail(pcm[s]) = << >>
  <2>1. (p.type = "eof" \/ p.type = "error") /\ (p = Error => p.type = "error")
    BY <1>7, PacketsDiffer DEF Marks
  <2>2. Line(<< >>, a, b, Nothing)
    BY <1>7, LineEmpty
  <2>3. OrderInv(s, a, b, c, e, Nothing)'
    BY <1>1, <1>3, <1>5, <1>7, <2>1, <2>2
  <2> QED
    BY <1>4, <1>5, <1>7, <2>1, <2>3
<1> QED
  BY <1>2, <1>4, <1>6, <1>7

LEMMA OrderOfSink ==
  ASSUME DataType, NEW s \in Sessions,
         NEW a \in Nat, NEW b \in Nat, NEW c \in Nat, NEW e \in Marks, NEW f \in Marks,
         OrderInv(s, a, b, c, e, f),
         SinkEnters(s) \/ SinkSends(s) \/ SinkCounts(s) \/ SinkFails(s)
  PROVE  OrderInv(s, a, b, c, e, f)'
<1> USE DEF OrderInv
<1>1. /\ player \in [Sessions -> PlayerPlaces]
      /\ playing \in [Sessions -> Packets \cup {Nothing}]
      /\ UNCHANGED <<owner, read, encoded, decoding, pcm>>
  BY DEF DataType, SinkEnters, SinkSends, SinkCounts, SinkFails
<1>2. /\ player[s] \in InSink
      /\ \/ player'[s] \in InSink /\ playing'[s] = playing[s]
         \/ player'[s] \notin InSink /\ playing'[s] = Nothing
  BY <1>1 DEF SinkEnters, SinkSends, SinkCounts, SinkFails
<1> QED
  BY <1>1, <1>2


LEMMA OrderOfEnding ==
  ASSUME DataType, NEW s \in Sessions,
         NEW a \in Nat, NEW b \in Nat, NEW c \in Nat, NEW e \in Marks, NEW f \in Marks,
         OrderInv(s, a, b, c, e, f), DecoderEnds(s) \/ PlayerEnds(s)
  PROVE  OrderInv(s, a, b, c, e, f)'
<1> USE DEF OrderInv
<1>1. CASE DecoderEnds(s)
  BY <1>1, Ending
<1>2. CASE PlayerEnds(s)
  BY <1>2, Ending
<1> QED
  BY <1>1, <1>2


-----------------------------------------------------------------------------
(* What is allocated                                                       *)

Held(E, P) == {InEncoded(p) : p \in E} \cup {InPcm(p) : p \in P}

LEMMA WaysDiffer ==
  /\ \A x, y : InEncoded(x) # InPcm(y)
  /\ \A x, y : InEncoded(x) = InEncoded(y) => x = y
  /\ \A x, y : InPcm(x) = InPcm(y) => x = y
BY DEF InEncoded, InPcm

LEMMA HeldDecoded ==
  ASSUME NEW E, NEW P, NEW p, p \notin E
  PROVE  Held(E \cup {p}, P) \ {InEncoded(p)} = Held(E, P)
BY WaysDiffer DEF Held

LEMMA HeldPlayed ==
  ASSUME NEW E, NEW P, NEW p, p \notin P
  PROVE  Held(E, P \cup {p}) \ {InPcm(p)} = Held(E, P)
BY WaysDiffer DEF Held

LEMMA HeldNothing == Held({}, {}) = {}
BY DEF Held

(* The encoded packets and the decoded ones that somebody has to free.     *)
ToDecode(s) == Items(encoded[s]) \cup ({inhand[s]} \ Marks)
ToPlay(s)   == Items(pcm[s]) \cup ({playing[s]} \ {Nothing})

MemoryInv(s) == memory[s] = Held(ToDecode(s), ToPlay(s))

(* A task that holds nothing adds nothing, one that holds a frame, that.   *)
LEMMA HandIs ==
  /\ \A p \in Marks : {p} \ Marks = {}
  /\ \A n \in Nat : {Frame(n)} \ Marks = {Frame(n)} /\ {Frame(n)} \ {Nothing} = {Frame(n)}
  /\ {Nothing} \ {Nothing} = {}
<1>1. \A n \in Nat : Frame(n) \notin Marks
  BY PacketsDiffer
<1> QED
  BY <1>1, Zenon DEF Marks

LEMMA MemorySame ==
  ASSUME NEW s \in Sessions, MemoryInv(s), memory'[s] = memory[s],
         ToDecode(s)' = ToDecode(s), ToPlay(s)' = ToPlay(s)
  PROVE  MemoryInv(s)'
BY Zenon DEF MemoryInv

LEMMA MemoryOfOwner ==
  ASSUME DataType, NEW s \in Sessions, PlacesInv(s), MemoryInv(s),
         NEW a \in Nat, NEW b \in Nat, NEW c \in Nat, NEW e \in Marks, NEW f \in Marks,
         OrderInv(s, a, b, c, e, f),
         ReaderNext(s) \/ Starts(s)
  PROVE  MemoryInv(s)'
<1>0. /\ encoded[s] \in Seq(Packets) /\ pcm[s] \in Seq(Packets) /\ read[s] \in Nat
      /\ memory \in [Sessions -> SUBSET Allocated]
  BY DEF DataType, QueueType
<1>1. ASSUME NEW p \in Packets, encoded' = [encoded EXCEPT ![s] = Append(@, p)],
             Allocates(s, InEncoded(p)), UNCHANGED <<inhand, playing, pcm>>
      PROVE  MemoryInv(s)'
  <2>1. encoded'[s] = Append(encoded[s], p)
    BY <1>1 DEF DataType, QueueType
  <2>2. Items(encoded'[s]) = Items(encoded[s]) \cup {p}
    BY <1>0, <2>1, ItemsAppend
  <2>3. memory'[s] = memory[s] \cup {InEncoded(p)}
    BY <1>0, <1>1
  <2>4. ToDecode(s)' = ToDecode(s) \cup {p} /\ ToPlay(s)' = ToPlay(s)
    BY <1>1, <2>2 DEF ToDecode, ToPlay
  <2>5. Held(ToDecode(s), ToPlay(s)) \cup {InEncoded(p)} = Held(ToDecode(s) \cup {p}, ToPlay(s))
    BY DEF Held
  <2> QED
    BY <2>3, <2>4, <2>5 DEF MemoryInv
<1>2. CASE Reads(s)
  <2>1. PICK p \in Packets : p = Frame(read[s] + 1)
    BY Packet DEF DataType
  <2> QED
    BY <1>1, <1>2, <2>1 DEF Reads
<1>3. ASSUME UNCHANGED <<encoded, inhand, pcm, playing, memory>>
      PROVE  MemoryInv(s)'
  BY <1>3, Zenon DEF MemoryInv, ToDecode, ToPlay
<1>4. CASE Terminates(s)
  <2>1. PICK p \in Packets : p = Terminal("stream" \notin failed[s])
    BY Packet
  <2>2. CASE Allocates(s, InEncoded(p)) /\ encoded' = [encoded EXCEPT ![s] = Append(@, p)]
    BY <1>1, <1>4, <2>2 DEF Terminates
  <2>3. CASE UNCHANGED <<encoded, memory>>
    BY <1>3, <1>4, <2>3 DEF Terminates
  <2> QED
    BY <1>4, <2>1, <2>2, <2>3 DEF Terminates
<1>5. CASE DeletesDecoder(s)
  <2>1. CASE UNCHANGED <<decoding, memory>>
    BY <1>3, <1>5, <2>1 DEF DeletesDecoder
  <2>2. CASE decoder[s] = "decoding" /\ ~UNCHANGED <<decoding, memory>>
    <3>1. PICK p \in Packets : p = Frame(c) /\ inhand[s] = p
      BY <2>2, Packet DEF OrderInv
    <3>2. /\ inhand'[s] = Nothing /\ memory'[s] = memory[s] \ DecoderHolds(s)
          /\ UNCHANGED <<encoded, pcm, playing>>
      BY <1>0, <1>5, <2>2 DEF DeletesDecoder, DataType
    <3>3. {p} \ Marks = {p} /\ {Nothing} \ Marks = {}
      BY <3>1, HandIs DEF Marks
    <3>4. DecoderHolds(s) = {InEncoded(p)}
      BY <3>1, <3>3, Zenon DEF DecoderHolds, Marks
    <3>5. ToDecode(s) = Items(encoded[s]) \cup {p} /\ ToDecode(s)' = Items(encoded[s])
      BY <3>1, <3>2, <3>3 DEF ToDecode
    <3>6. p \notin Items(encoded[s])
      <4>1. Line(encoded[s], c, read[s], e)
        BY DEF OrderInv
      <4> QED
        BY <1>0, <3>1, <4>1, FrameNotIn
    <3>7. ToPlay(s)' = ToPlay(s)
      BY <3>2 DEF ToPlay
    <3>8. Held(Items(encoded[s]) \cup {p}, ToPlay(s)) \ {InEncoded(p)}
            = Held(Items(encoded[s]), ToPlay(s))
      BY <3>6, HeldDecoded
    <3> QED
      BY <3>2, <3>4, <3>5, <3>7, <3>8 DEF MemoryInv
  <2>3. CASE decoder[s] # "decoding" /\ ~UNCHANGED <<decoding, memory>>
    <3>1. inhand[s] \in Marks
      BY <2>3 DEF OrderInv, Marks
    <3>2. /\ inhand'[s] = Nothing /\ memory'[s] = memory[s] \ DecoderHolds(s)
          /\ UNCHANGED <<encoded, pcm, playing>>
      BY <1>0, <1>5, <2>3 DEF DeletesDecoder, DataType
    <3>3. {inhand[s]} \ Marks = {} /\ {Nothing} \ Marks = {}
      BY <3>1, HandIs DEF Marks
    <3>4. DecoderHolds(s) = {}
      BY <3>3, Zenon DEF DecoderHolds, Marks
    <3>5. ToDecode(s)' = ToDecode(s) /\ ToPlay(s)' = ToPlay(s)
      BY <3>2, <3>3 DEF ToDecode, ToPlay
    <3> QED
      BY <3>2, <3>4, <3>5 DEF MemoryInv
  <2> QED
    BY <2>1, <2>2, <2>3
<1>9. CASE DeletesPlayer(s)
  <2>1. CASE UNCHANGED <<sinking, memory>>
    BY <1>3, <1>9, <2>1 DEF DeletesPlayer
  <2>2. CASE player[s] \in InSink /\ ~UNCHANGED <<sinking, memory>>
    <3>1. PICK p \in Packets : p = Frame(a) /\ playing[s] = p
      BY <2>2, Packet DEF OrderInv
    <3>2. /\ playing'[s] = Nothing /\ memory'[s] = memory[s] \ PlayerHolds(s)
          /\ UNCHANGED <<encoded, pcm, inhand>>
      BY <1>0, <1>9, <2>2 DEF DeletesPlayer, DataType
    <3>3. {p} \ {Nothing} = {p} /\ {Nothing} \ {Nothing} = {}
      BY <3>1, HandIs
    <3>4. PlayerHolds(s) = {InPcm(p)}
      BY <3>1, <3>3, Zenon DEF PlayerHolds
    <3>5. ToPlay(s) = Items(pcm[s]) \cup {p} /\ ToPlay(s)' = Items(pcm[s])
      BY <3>1, <3>2, <3>3 DEF ToPlay
    <3>6. p \notin Items(pcm[s])
      BY <1>0, <3>1, FrameNotIn DEF OrderInv
    <3>7. ToDecode(s)' = ToDecode(s)
      BY <3>2 DEF ToDecode
    <3>8. Held(ToDecode(s), Items(pcm[s]) \cup {p}) \ {InPcm(p)}
            = Held(ToDecode(s), Items(pcm[s]))
      BY <3>6, HeldPlayed
    <3> QED
      BY <3>2, <3>4, <3>5, <3>7, <3>8 DEF MemoryInv
  <2>3. CASE player[s] \notin InSink /\ ~UNCHANGED <<sinking, memory>>
    <3>1. playing[s] = Nothing
      BY <2>3 DEF OrderInv
    <3>2. /\ playing'[s] = Nothing /\ memory'[s] = memory[s] \ PlayerHolds(s)
          /\ UNCHANGED <<encoded, pcm, inhand>>
      BY <1>0, <1>9, <2>3 DEF DeletesPlayer, DataType
    <3>3. PlayerHolds(s) = {}
      BY <3>1, Zenon DEF PlayerHolds
    <3>4. ToDecode(s)' = ToDecode(s) /\ ToPlay(s)' = ToPlay(s)
      BY <3>1, <3>2 DEF ToDecode, ToPlay
    <3> QED
      BY <3>2, <3>3, <3>4 DEF MemoryInv
  <2> QED
    BY <2>1, <2>2, <2>3
<1>6. CASE Drains(s)
  <2>1. /\ decoder[s] \in Ended /\ player[s] \in Ended
        /\ inhand[s] = Nothing /\ playing[s] = Nothing
    BY <1>6 DEF Drains, PlacesInv, OrderInv
  <2>2. ToDecode(s) = Items(encoded[s]) /\ ToPlay(s) = Items(pcm[s])
    BY <2>1, HandIs DEF ToDecode, ToPlay, Marks
  <2>3. Queued(s) = Held(ToDecode(s), ToPlay(s))
    BY <2>2 DEF Queued, Held, Items
  <2>4. encoded'[s] = << >> /\ pcm'[s] = << >> /\ UNCHANGED <<inhand, playing>>
    BY <1>6 DEF Drains, DataType, QueueType
  <2>5. ToDecode(s)' = {} /\ ToPlay(s)' = {}
    BY <2>1, <2>4, HandIs, ItemsEmpty DEF ToDecode, ToPlay, Marks
  <2>6. memory'[s] = memory[s] \ Queued(s)
    BY <1>0, <1>6 DEF Drains
  <2>7. Held({}, {}) = {}
    BY HeldNothing
  <2> QED
    BY <2>3, <2>5, <2>6, <2>7 DEF MemoryInv
<1>7. CASE Starts(s)
  <2>1. encoded[s] = << >> /\ pcm[s] = << >> /\ decoder[s] \in Ended /\ player[s] \in Ended
    BY <1>7 DEF Starts, PlacesInv
  <2>2. inhand[s] = Nothing /\ playing[s] = Nothing
    BY <2>1 DEF OrderInv
  <2>3. UNCHANGED <<encoded, pcm, inhand, playing>> /\ memory'[s] = {}
    BY <1>0, <1>7 DEF Starts
  <2>4. ToDecode(s)' = {} /\ ToPlay(s)' = {}
    BY <2>1, <2>2, <2>3, HandIs, ItemsEmpty DEF ToDecode, ToPlay, Marks
  <2> QED
    BY <2>3, <2>4, HeldNothing DEF MemoryInv
<1>8. CASE \/ Connects(s) \/ Refused(s) \/ QueueFull(s) \/ ReadFails(s) \/ FallsSilent(s)
           \/ ReadsAll(s) \/ SeesCancel(s) \/ Joins(s) \/ JoinExpires(s) \/ LooksAgain(s)
           \/ Cleans(s)
  BY <1>3, <1>8 DEF Connects, Refused, QueueFull, ReadFails, FallsSilent, ReadsAll,
                    SeesCancel, Joins, JoinExpires, LooksAgain, Cleans
<1> QED
  BY <1>2, <1>4, <1>5, <1>6, <1>7, <1>8, <1>9 DEF ReaderNext


(* A queue without the packet at its front, which it held once.            *)
LEMMA HeadOnce ==
  ASSUME NEW q \in Seq(Packets), q # << >>, NEW a \in Nat, NEW b \in Nat, NEW e \in Marks,
         Line(q, a, b, e)
  PROVE  /\ Head(q) \notin Items(Tail(q)) /\ Items(q) = Items(Tail(q)) \cup {Head(q)}
         /\ Head(q) \in Packets /\ Head(q) # Nothing
         /\ (Head(q).type = "frame" => Head(q) \notin Marks)
         /\ (Head(q).type # "frame" => Head(q) \in Marks)
<1>1. Items(q) = Items(Tail(q)) \cup {Head(q)} /\ Tail(q) \in Seq(Packets) /\ Head(q) \in Packets
  BY ItemsTail, HeadTailProperties
<1>2. CASE a < b /\ Head(q) = Frame(a + 1) /\ Line(Tail(q), a + 1, b, e)
  <2>1. PICK n \in Nat : n = a + 1
    OBVIOUS
  <2>2. Line(Tail(q), n, b, e)
    BY <1>2, <2>1
  <2>3. Frame(n) \notin Items(Tail(q))
    <3>1. PICK r \in Seq(Packets) : r = Tail(q)
      BY <1>1
    <3>2. Line(r, n, b, e) /\ n <= n
      BY <2>2, <3>1
    <3>3. Frame(n) \notin Items(r)
      BY <3>2, FrameNotIn
    <3> QED
      BY <3>1, <3>3
  <2>4. Frame(n) \notin Marks /\ Frame(n).type = "frame"
    BY PacketsDiffer
  <2> QED
    BY <1>1, <1>2, <2>1, <2>3, <2>4 DEF Marks
<1>3. CASE e # Nothing /\ Head(q) = e /\ Tail(q) = << >>
  <2>1. e.type # "frame"
    BY PacketsDiffer DEF Marks
  <2> QED
    BY <1>1, <1>3, <2>1, ItemsEmpty
<1> QED
  BY <1>2, <1>3, LineTail

LEMMA MemoryOfDecoder ==
  ASSUME DataType, NEW s \in Sessions, PlacesInv(s), MemoryInv(s),
         NEW a \in Nat, NEW b \in Nat, NEW c \in Nat, NEW e \in Marks, NEW f \in Marks,
         OrderInv(s, a, b, c, e, f), DecoderNext(s)
  PROVE  MemoryInv(s)'
<1>0. /\ encoded[s] \in Seq(Packets) /\ pcm[s] \in Seq(Packets) /\ read[s] \in Nat
      /\ memory \in [Sessions -> SUBSET Allocated]
      /\ inhand \in [Sessions -> Packets \cup {Nothing}]
      /\ Line(encoded[s], c, read[s], e) /\ Nothing \in Marks
  BY DEF DataType, QueueType, OrderInv, Marks
<1>1. UNCHANGED playing
  BY DEF DecoderNext, Decodes, Enqueues, DecodeFails, Forwards, DecoderEnds
<1>2. CASE Decodes(s)
  <2>1. PICK p : p = Head(encoded[s])
    OBVIOUS
  <2>2. /\ encoded[s] # << >> /\ encoded'[s] = Tail(encoded[s]) /\ pcm' = pcm
        /\ inhand[s] = Nothing
    BY <1>2 DEF Decodes, OrderInv, DataType, QueueType
  <2>3. /\ p \notin Items(encoded'[s]) /\ Items(encoded[s]) = Items(encoded'[s]) \cup {p}
        /\ (p.type = "frame" => p \notin Marks) /\ (p.type # "frame" => p \in Marks)
    BY <1>0, <2>1, <2>2, HeadOnce
  <2>4. ToPlay(s)' = ToPlay(s)
    BY <1>1, <2>2 DEF ToPlay
  <2>5. {Nothing} \ Marks = {}
    BY HandIs DEF Marks
  <2>6. ToDecode(s) = Items(encoded'[s]) \cup {p}
    BY <2>2, <2>3, <2>5 DEF ToDecode
  <2>7. CASE inhand'[s] = p /\ p \notin Marks /\ memory' = memory
    <3>1. ToDecode(s)' = Items(encoded'[s]) \cup {p}
      BY <2>7 DEF ToDecode
    <3> QED
      BY <1>1, <2>4, <2>6, <2>7, <3>1, MemorySame
  <2>8. CASE inhand'[s] \in Marks /\ Frees(s, InEncoded(p))
    <3>1. ToDecode(s)' = Items(encoded'[s])
      BY <2>8 DEF ToDecode
    <3>2. memory'[s] = memory[s] \ {InEncoded(p)}
      BY <1>0, <2>8
    <3>3. Held(Items(encoded'[s]) \cup {p}, ToPlay(s)) \ {InEncoded(p)}
            = Held(Items(encoded'[s]), ToPlay(s))
      BY <2>3, HeldDecoded
    <3> QED
      BY <1>1, <2>4, <2>6, <3>1, <3>2, <3>3 DEF MemoryInv
  <2> QED
    BY <1>0, <1>2, <2>1, <2>3, <2>7, <2>8 DEF Decodes, Marks
<1>3. ASSUME decoder[s] = "decoding"
      PROVE  /\ Frame(c) \notin Items(encoded[s]) /\ inhand[s] = Frame(c)
             /\ ToDecode(s) = Items(encoded[s]) \cup {inhand[s]}
             /\ inhand[s] \in Packets
  <2>1. inhand[s] = Frame(c)
    BY <1>3 DEF OrderInv
  <2>2. Frame(c) \notin Items(encoded[s])
    BY <1>0, FrameNotIn
  <2> QED
    BY <2>1, <2>2, HandIs, Packet DEF ToDecode
<1>4. ASSUME decoder[s] = "decoding", encoded' = encoded, inhand'[s] \in Marks
      PROVE  ToDecode(s)' = Items(encoded[s])
  BY <1>4 DEF ToDecode
<1>5. ASSUME decoder[s] = "decoding", UNCHANGED <<encoded, pcm>>, inhand'[s] \in Marks,
             Frees(s, InEncoded(inhand[s]))
      PROVE  MemoryInv(s)'
  <2>1. memory'[s] = memory[s] \ {InEncoded(inhand[s])}
    BY <1>0, <1>5
  <2>2. ToPlay(s)' = ToPlay(s)
    BY <1>1, <1>5 DEF ToPlay
  <2>3. Held(Items(encoded[s]) \cup {inhand[s]}, ToPlay(s)) \ {InEncoded(inhand[s])}
          = Held(Items(encoded[s]), ToPlay(s))
    BY <1>3, <1>5, HeldDecoded
  <2> QED
    BY <1>1, <1>3, <1>4, <1>5, <2>1, <2>2, <2>3 DEF MemoryInv
<1>6. CASE Enqueues(s)
  <2>1. decoder[s] = "decoding" /\ encoded' = encoded /\ inhand'[s] \in Marks
    BY <1>0, <1>6 DEF Enqueues
  <2>2. CASE Frees(s, InEncoded(inhand[s])) /\ pcm' = pcm
    BY <1>5, <2>1, <2>2
  <2>3. CASE /\ pcm' = [pcm EXCEPT ![s] = Append(@, inhand[s])]
             /\ memory' = [memory EXCEPT ![s] = (@ \ {InEncoded(inhand[s])}) \cup {InPcm(inhand[s])}]
    <3>1. pcm'[s] = Append(pcm[s], inhand[s])
      BY <2>3 DEF DataType, QueueType
    <3>2. ToPlay(s)' = ToPlay(s) \cup {inhand[s]}
      BY <1>0, <1>1, <1>3, <2>1, <3>1, ItemsAppend DEF ToPlay
    <3>3. memory'[s] = (memory[s] \ {InEncoded(inhand[s])}) \cup {InPcm(inhand[s])}
      BY <1>0, <2>3
    <3>4. Held(Items(encoded[s]) \cup {inhand[s]}, ToPlay(s)) \ {InEncoded(inhand[s])}
            = Held(Items(encoded[s]), ToPlay(s))
      BY <1>3, <2>1, HeldDecoded
    <3>5. Held(Items(encoded[s]), ToPlay(s)) \cup {InPcm(inhand[s])}
            = Held(Items(encoded[s]), ToPlay(s) \cup {inhand[s]})
      BY DEF Held
    <3> QED
      BY <1>1, <1>3, <1>4, <2>1, <3>2, <3>3, <3>4, <3>5 DEF MemoryInv
  <2> QED
    BY <1>6, <2>2, <2>3 DEF Enqueues
<1>7. CASE DecodeFails(s)
  <2>1. inhand'[s] \in Marks
    BY <1>0, <1>7 DEF DecodeFails, Marks
  <2> QED
    BY <1>5, <1>7, <2>1 DEF DecodeFails
<1>8. CASE Forwards(s)
  <2>1. PICK p \in Packets : p = inhand[s] /\ p \in Marks
    BY <1>8, Packet DEF Forwards, OrderInv, Marks
  <2>2. inhand'[s] = Nothing /\ encoded' = encoded
    BY <1>0, <1>8 DEF Forwards
  <2>3. ToDecode(s)' = ToDecode(s)
    <3>1. {p} \ Marks = {} /\ {Nothing} \ Marks = {}
      BY <1>0, <2>1, HandIs
    <3> QED
      BY <2>1, <2>2, <3>1 DEF ToDecode
  <2>4. CASE pcm' = [pcm EXCEPT ![s] = Append(@, p)] /\ Allocates(s, InPcm(p))
    <3>1. pcm'[s] = Append(pcm[s], p)
      BY <2>4 DEF DataType, QueueType
    <3>2. ToPlay(s)' = ToPlay(s) \cup {p}
      BY <1>0, <1>1, <3>1, ItemsAppend DEF ToPlay
    <3>3. memory'[s] = memory[s] \cup {InPcm(p)}
      BY <1>0, <2>4
    <3>4. Held(ToDecode(s), ToPlay(s)) \cup {InPcm(p)} = Held(ToDecode(s), ToPlay(s) \cup {p})
      BY DEF Held
    <3> QED
      BY <1>1, <2>3, <3>2, <3>3, <3>4 DEF MemoryInv
  <2>5. CASE UNCHANGED <<pcm, memory>>
    BY <1>1, <2>3, <2>5, MemorySame DEF ToPlay
  <2> QED
    BY <1>8, <2>1, <2>4, <2>5 DEF Forwards
<1>9. CASE DecoderEnds(s)
  <2>1. UNCHANGED <<encoded, inhand, pcm, memory>>
    BY <1>9, Ending
  <2> QED
    BY <1>1, <2>1, MemorySame DEF ToDecode, ToPlay
<1> QED
  BY <1>2, <1>6, <1>7, <1>8, <1>9 DEF DecoderNext

LEMMA MemoryOfPlayer ==
  ASSUME DataType, NEW s \in Sessions, PlacesInv(s), MemoryInv(s),
         NEW a \in Nat, NEW b \in Nat, NEW c \in Nat, NEW e \in Marks, NEW f \in Marks,
         OrderInv(s, a, b, c, e, f), PlayerNext(s)
  PROVE  MemoryInv(s)'
<1>0. /\ pcm[s] \in Seq(Packets) /\ memory \in [Sessions -> SUBSET Allocated]
      /\ playing \in [Sessions -> Packets \cup {Nothing}]
      /\ Line(pcm[s], a, b, f)
  BY DEF DataType, QueueType, OrderInv
<1>1. UNCHANGED <<encoded, inhand>>
  BY DEF PlayerNext, Takes, SinkEnters, SinkSends, SinkCounts, SinkFails, PlayerEnds
<1>2. ToDecode(s)' = ToDecode(s)
  BY <1>1 DEF ToDecode
<1>3. CASE Takes(s)
  <2>1. PICK p : p = Head(pcm[s])
    OBVIOUS
  <2>2. /\ pcm[s] # << >> /\ pcm'[s] = Tail(pcm[s]) /\ playing[s] = Nothing
    BY <1>3 DEF Takes, OrderInv, DataType, QueueType
  <2>3. /\ p \notin Items(pcm'[s]) /\ Items(pcm[s]) = Items(pcm'[s]) \cup {p} /\ p # Nothing
    BY <1>0, <2>1, <2>2, HeadOnce
  <2>4. ToPlay(s) = Items(pcm'[s]) \cup {p}
    BY <2>2, <2>3, HandIs DEF ToPlay
  <2>5. CASE playing'[s] = p /\ memory' = memory
    <3>1. ToPlay(s)' = Items(pcm'[s]) \cup {p}
      BY <2>3, <2>5 DEF ToPlay
    <3> QED
      BY <1>1, <1>2, <2>4, <2>5, <3>1, MemorySame
  <2>6. CASE playing'[s] = Nothing /\ Frees(s, InPcm(p))
    <3>1. ToPlay(s)' = Items(pcm'[s])
      BY <2>6, HandIs DEF ToPlay
    <3>2. memory'[s] = memory[s] \ {InPcm(p)}
      BY <1>0, <2>6
    <3>3. Held(ToDecode(s), Items(pcm'[s]) \cup {p}) \ {InPcm(p)}
            = Held(ToDecode(s), Items(pcm'[s]))
      BY <2>3, HeldPlayed
    <3> QED
      BY <1>1, <1>2, <2>4, <3>1, <3>2, <3>3 DEF MemoryInv
  <2> QED
    BY <1>0, <1>3, <2>1, <2>2, <2>5, <2>6 DEF Takes
<1>4. CASE SinkEnters(s) \/ SinkSends(s)
  BY <1>1, <1>2, <1>4, MemorySame DEF SinkEnters, SinkSends, ToPlay
<1>5. CASE SinkCounts(s) \/ SinkFails(s)
  <2>1. /\ playing'[s] = Nothing /\ pcm' = pcm /\ Frees(s, InPcm(playing[s]))
        /\ playing[s] = Frame(a)
    BY <1>0, <1>5 DEF SinkCounts, SinkFails, OrderInv
  <2>2. PICK p : p = playing[s]
    OBVIOUS
  <2>3. p \notin Items(pcm[s]) /\ ToPlay(s) = Items(pcm[s]) \cup {p}
    <3>1. Frame(a) \notin Items(pcm[s])
      BY <1>0, FrameNotIn
    <3>2. {Frame(a)} \ {Nothing} = {Frame(a)}
      BY HandIs
    <3> QED
      BY <2>1, <2>2, <3>1, <3>2 DEF ToPlay
  <2>4. ToPlay(s)' = Items(pcm[s])
    BY <2>1, HandIs DEF ToPlay
  <2>5. memory'[s] = memory[s] \ {InPcm(p)}
    BY <1>0, <2>1, <2>2
  <2>6. Held(ToDecode(s), Items(pcm[s]) \cup {p}) \ {InPcm(p)} = Held(ToDecode(s), Items(pcm[s]))
    BY <2>3, HeldPlayed
  <2> QED
    BY <1>1, <1>2, <2>3, <2>4, <2>5, <2>6 DEF MemoryInv
<1>6. CASE PlayerEnds(s)
  <2>1. UNCHANGED <<pcm, playing, memory>>
    BY <1>6, Ending
  <2> QED
    BY <1>1, <1>2, <2>1, MemorySame DEF ToPlay
<1> QED
  BY <1>3, <1>4, <1>5, <1>6 DEF PlayerNext


-----------------------------------------------------------------------------
(* Nothing is left out                                                     *)

(* The last frame to be heard, as far as it is known.                      *)
Last(s) == IF ragged[s] THEN Frames[s] - 1 ELSE Frames[s]
Least(m, n) == IF m < n THEN m ELSE n

AtWork == {"connecting", "reading", "ending", "joining"} \cup Tidying \cup {"closing"}

(* A playback of which nothing has failed.                                 *)
Going(s) == failed[s] = {} /\ owner[s] \in AtWork

USE DEF AtWork

(* Every frame is forwarded, but for a last one that ends within an Opus   *)
(* packet, and the end follows the last one.                               *)
QueueFlow(s, a, b, c, e, f) ==
  /\ decoder[s] = "waiting" => b = Least(c, Last(s))
  /\ inhand[s] = Eof \/ f = Eof => b = Last(s)
  /\ e = Eof \/ owner[s] = "ending" => read[s] = Frames[s]
  /\ player[s] \in AfterWork => a = Last(s) /\ b = Last(s)
  /\ owner[s] \in Tidying \cup {"closing"} => player[s] \in AfterWork
  /\ ragged[s] => c = Frames[s] /\ decoder[s] # "decoding"

(* How many frames have been put into the jitter buffer.                   *)
Put(s, a) == IF player[s] \in {"entering", "sending"} THEN a - 1 ELSE a

LEMMA LastIs ==
  ASSUME NEW s \in Sessions
  PROVE  /\ Last(s) \in Nat /\ Frames[s] \in Nat \ {0}
         /\ Last(s) <= Frames[s] /\ Frames[s] <= Last(s) + 1
         /\ ragged'[s] = ragged[s] => Last(s)' = Last(s)
BY FrameAssumption DEF Last

(* Before the first packet nothing can be missing.                         *)
LEMMA FlowStarts ==
  ASSUME DataType, NEW s \in Sessions, PlacesInv(s), UncutInv(s),
         owner[s] \in {"opening", "connecting"},
         NEW a \in Nat, NEW b \in Nat, NEW c \in Nat, NEW e \in Marks, NEW f \in Marks,
         OrderInv(s, a, b, c, e, f)
  PROVE  a = 0 /\ b = 0 /\ c = 0 /\ QueueFlow(s, a, b, c, e, f) /\ Put(s, a) = 0
<1>1. /\ read[s] = 0 /\ encoded[s] = << >> /\ pcm[s] = << >>
      /\ decoder[s] = "none" /\ player[s] = "none" /\ ragged[s] = FALSE
  BY DEF PlacesInv, UncutInv
<1>2. /\ Line(<< >>, a, b, f) /\ b <= c /\ Line(<< >>, c, 0, e) /\ inhand[s] = Nothing
  BY <1>1 DEF OrderInv
<1>3. c = 0 /\ e = Nothing
  BY <1>2, LineOfEmpty
<1>4. a = b /\ f = Nothing
  BY <1>2, LineOfEmpty
<1>5. Nothing # Eof
  BY PacketsDiffer
<1> QED
  BY <1>1, <1>2, <1>3, <1>4, <1>5 DEF QueueFlow, Put

LEMMA GoingOn ==
  ASSUME DataType, NEW s \in Sessions, PlacesInv(s), StepOf(s), Going(s)'
  PROVE  Going(s) \/ (OwnerOpens(s) /\ owner'[s] = "connecting")
<1> USE DEF Going
<1>0. /\ owner \in [Sessions -> OwnerPlaces]
      /\ failed \in [Sessions -> SUBSET {"stream", "tasks"}]
  BY DEF DataType
<1>1. CASE OwnerNext(s)
  <2>1. CASE Connects(s) \/ Refused(s) \/ Reads(s) \/ QueueFull(s) \/ ReadFails(s)
    BY <1>0, <2>1 DEF Connects, Refused, Reads, QueueFull, ReadFails, Reading
  <2>2. CASE FallsSilent(s) \/ ReadsAll(s) \/ SeesCancel(s) \/ Terminates(s) \/ Joins(s)
    BY <1>0, <2>2 DEF FallsSilent, ReadsAll, SeesCancel, Terminates, Joins, Reading
  <2>3. CASE Cleans(s) \/ Drains(s)
    BY <1>0, <2>3 DEF Cleans, Drains
  <2>5. CASE JoinExpires(s) \/ LooksAgain(s) \/ DeletesDecoder(s) \/ DeletesPlayer(s)
    <3>1. failed'[s] # {}
      BY <1>0, <2>5 DEF JoinExpires, LooksAgain, DeletesDecoder, DeletesPlayer, PlacesInv
    <3> QED
      BY <3>1
  <2>4. CASE OwnerOpens(s) \/ OwnerCloses(s) \/ OwnerWaits(s) \/ OwnerEnds(s)
    BY <1>0, <2>4 DEF OwnerOpens, OwnerCloses, OwnerWaits, OwnerEnds, Ends
  <2> QED
    BY <1>1, <2>1, <2>2, <2>3, <2>4, <2>5 DEF OwnerNext, ReaderNext
<1>2. CASE DecoderNext(s)
  BY <1>0, <1>2 DEF DecoderNext, Decodes, Enqueues, DecodeFails, Forwards, DecoderEnds
<1>3. CASE PlayerNext(s)
  BY <1>0, <1>3 DEF PlayerNext, Takes, SinkEnters, SinkSends, SinkCounts, SinkFails,
                    PlayerEnds
<1>4. CASE Starts(s) \/ FreesSession(s) \/ Cancels(s)
  BY <1>0, <1>4 DEF Starts, FreesSession, Cancels
<1> QED
  BY <1>1, <1>2, <1>3, <1>4 DEF StepOf

LEMMA FlowOfOwner ==
  ASSUME DataType, NEW s \in Sessions, PlacesInv(s), UncutInv(s),
         NEW a \in Nat, NEW b \in Nat, NEW c \in Nat, NEW e \in Marks, NEW f \in Marks,
         OrderInv(s, a, b, c, e, f), QueueFlow(s, a, b, c, e, f), Going(s), Going(s)',
         \/ Connects(s) \/ Refused(s) \/ QueueFull(s) \/ ReadFails(s) \/ FallsSilent(s)
         \/ ReadsAll(s) \/ SeesCancel(s) \/ Joins(s) \/ JoinExpires(s) \/ Starts(s) \/ Cancels(s)
         \/ LooksAgain(s) \/ DeletesDecoder(s) \/ DeletesPlayer(s) \/ Cleans(s)
         \/ OwnerOpens(s) \/ OwnerCloses(s) \/ OwnerWaits(s) \/ OwnerEnds(s)
  PROVE  QueueFlow(s, a, b, c, e, f)' /\ Put(s, a)' = Put(s, a)
<1> USE DEF QueueFlow, Put
<1>0. /\ owner \in [Sessions -> OwnerPlaces] /\ player \in [Sessions -> PlayerPlaces]
      /\ decoder \in [Sessions -> DecoderPlaces]
      /\ failed \in [Sessions -> SUBSET {"stream", "tasks"}]
  BY DEF DataType
<1>1. CASE Connects(s)
  <2>1. /\ owner'[s] = "reading" /\ decoder'[s] = "waiting" /\ player'[s] = "waiting"
        /\ player[s] = "none" /\ UNCHANGED <<read, inhand, ragged>> /\ owner[s] = "connecting"
        /\ ragged[s] = FALSE
    BY <1>0, <1>1 DEF Connects, PlacesInv, UncutInv
  <2>2. a = 0 /\ b = 0 /\ c = 0
    BY <2>1, FlowStarts
  <2>3. b = Least(c, Last(s))
    BY <2>2, LastIs DEF Least
  <2>4. Last(s)' = Last(s)
    BY <2>1, LastIs
  <2> QED
    BY <2>1, <2>3, <2>4
<1>2. CASE FallsSilent(s) \/ ReadsAll(s) \/ Joins(s) \/ Cancels(s) \/ Cleans(s)
  <2>1. /\ UNCHANGED <<read, inhand, decoder, player, ragged>>
        /\ owner'[s] = "ending" /\ owner[s] # "ending" => read[s] = Frames[s]
        /\ owner'[s] \in Tidying /\ owner[s] \notin Tidying => player[s] \in AfterWork
        /\ owner'[s] = "closing" => owner[s] = "closing"
    BY <1>0, <1>2 DEF FallsSilent, ReadsAll, Joins, Cancels, Cleans, TasksDone, Published, Reading
  <2>2. Last(s)' = Last(s)
    BY <2>1, LastIs
  <2> QED
    BY <2>1, <2>2
<1>3. CASE OwnerCloses(s) \/ OwnerWaits(s)
  <2>1. UNCHANGED <<read, inhand, decoder, player, ragged>> /\ owner[s] = "closing"
    BY <1>0, <1>3 DEF OwnerCloses, OwnerWaits, Going
  <2>2. owner'[s] \in {"closing", "publishing"}
    BY <1>0, <1>3, <2>1 DEF OwnerCloses, OwnerWaits
  <2>3. owner'[s] = "closing"
    BY <2>2 DEF Going
  <2>4. Last(s)' = Last(s)
    BY <2>1, LastIs
  <2> QED
    BY <2>1, <2>3, <2>4
<1>6. CASE LooksAgain(s) \/ DeletesDecoder(s) \/ DeletesPlayer(s)
  <2>1. owner[s] \in Late
    BY <1>6 DEF LooksAgain, DeletesDecoder, DeletesPlayer
  <2> QED
    BY <2>1 DEF Going
<1>4. CASE Refused(s) \/ QueueFull(s) \/ ReadFails(s) \/ SeesCancel(s) \/ JoinExpires(s)
  <2>1. Fails(s, "stream")
    BY <1>4 DEF Refused, QueueFull, ReadFails, SeesCancel, JoinExpires
  <2>2. failed'[s] # {}
    BY <1>0, <2>1
  <2> QED
    BY <2>2 DEF Going
<1>5. CASE Starts(s) \/ OwnerOpens(s) \/ OwnerEnds(s)
  BY <1>0, <1>5 DEF Starts, OwnerOpens, OwnerEnds, Ends, Going
<1> QED
  BY <1>1, <1>2, <1>3, <1>4, <1>5, <1>6


(* A frame is put by the step that sends it.                               *)
Sent(s) == player[s] = "sending" /\ player'[s] = "counting"
Puts(s, a, d) == Put(s, d)' = IF Sent(s) THEN Put(s, a) + 1 ELSE Put(s, a)

Follows(s, a, d, b, c, e, f) ==
  /\ OrderInv(s, d, b, c, e, f)'
  /\ Going(s)' => QueueFlow(s, d, b, c, e, f)' /\ (Going(s) => Puts(s, a, d))

LEMMA FlowOfReader ==
  ASSUME DataType, NEW s \in Sessions, PlacesInv(s), UncutInv(s),
         NEW a \in Nat, NEW b \in Nat, NEW c \in Nat, NEW e \in Marks, NEW f \in Marks,
         OrderInv(s, a, b, c, e, f), Going(s) => QueueFlow(s, a, b, c, e, f),
         ReaderNext(s), UNCHANGED audio
  PROVE  \E d, g, h \in Nat, x, y \in Marks : Follows(s, a, d, g, h, x, y)
<1>0. /\ owner \in [Sessions -> OwnerPlaces] /\ player \in [Sessions -> PlayerPlaces]
      /\ decoder \in [Sessions -> DecoderPlaces] /\ read \in [Sessions -> Nat]
      /\ failed \in [Sessions -> SUBSET {"stream", "tasks"}]
      /\ inhand \in [Sessions -> Packets \cup {Nothing}]
  BY DEF DataType
<1>1. Going(s)' => Going(s) /\ QueueFlow(s, a, b, c, e, f)
  <2>1. ReaderNext(s) => ~OwnerOpens(s)
    BY DEF ReaderNext, Connects, Refused, Reads, QueueFull, ReadFails, FallsSilent, ReadsAll,
           SeesCancel, Terminates, Joins, JoinExpires, LooksAgain, DeletesDecoder,
           DeletesPlayer, Cleans, Drains, OwnerOpens, Reading
  <2>2. StepOf(s)
    BY DEF StepOf, OwnerNext
  <2> QED
    BY <2>1, <2>2, GoingOn
<1>2. CASE \/ Connects(s) \/ Refused(s) \/ QueueFull(s) \/ ReadFails(s) \/ FallsSilent(s)
           \/ ReadsAll(s) \/ SeesCancel(s) \/ Joins(s) \/ JoinExpires(s)
           \/ LooksAgain(s) \/ DeletesDecoder(s) \/ DeletesPlayer(s) \/ Cleans(s)
  <2>1. OrderInv(s, a, b, c, e, f)'
    BY <1>2, OrderOfOwner
  <2>2. Going(s)' => QueueFlow(s, a, b, c, e, f)' /\ Put(s, a)' = Put(s, a)
    BY <1>1, <1>2, FlowOfOwner
  <2>3. ~Sent(s)
    BY <1>0, <1>2 DEF Sent, Connects, Refused, QueueFull, ReadFails, FallsSilent, ReadsAll,
                      SeesCancel, Joins, JoinExpires, LooksAgain, DeletesDecoder,
                      DeletesPlayer, Cleans
  <2> QED
    BY <2>1, <2>2, <2>3 DEF Follows, Puts
<1>3. CASE Reads(s)
  <2>1. OrderInv(s, a, b, c, e, f)' /\ e = Nothing /\ Nothing # Eof
    BY <1>3, OrderOfRead, PacketsDiffer
  <2>2. UNCHANGED <<owner, decoding, sinking, ragged>> /\ owner[s] = "reading"
    BY <1>3 DEF Reads, Reading
  <2>4. Last(s)' = Last(s)
    BY <2>2, LastIs
  <2>3. Going(s)' => QueueFlow(s, a, b, c, e, f)' /\ Puts(s, a, a)
    BY <1>1, <2>1, <2>2, <2>4 DEF QueueFlow, Puts, Put, Sent
  <2> QED
    BY <2>1, <2>3 DEF Follows
<1>4. CASE Terminates(s)
  <2>1. /\ owner[s] = "ending" /\ owner'[s] = "joining"
        /\ UNCHANGED <<read, decoding, sinking, ragged>>
    BY <1>0, <1>4 DEF Terminates
  <2>4. Last(s)' = Last(s)
    BY <2>1, LastIs
  <2>2. CASE OrderInv(s, a, b, c, e, f)' /\ Fails(s, "stream")
    <3>1. ~Going(s)'
      BY <1>0, <2>2 DEF Going
    <3> QED
      BY <2>2, <3>1 DEF Follows
  <2>3. ASSUME NEW x \in {Eof, Error}, OrderInv(s, a, b, c, x, f)', failed' = failed
        PROVE  \E d, g, h \in Nat, z, y \in Marks : Follows(s, a, d, g, h, z, y)
    <3>1. x \in Marks
      BY DEF Marks
    <3>2. Going(s)' => QueueFlow(s, a, b, c, x, f)' /\ Puts(s, a, a)
      BY <1>1, <2>1, <2>4 DEF QueueFlow, Puts, Put, Sent
    <3> QED
      BY <2>3, <3>1, <3>2 DEF Follows
  <2> QED
    BY <1>4, <2>2, <2>3, OrderOfEnd
<1>5. CASE Drains(s)
  <2>1. PICK h \in Nat : h = read[s]
    BY <1>0
  <2>2. OrderInv(s, a, a, read[s], Nothing, Nothing)' /\ Nothing # Eof /\ Nothing \in Marks
    BY <1>5, OrderOfDrain, PacketsDiffer DEF Marks
  <2>3. /\ owner[s] = "draining" /\ owner'[s] = "closing"
        /\ UNCHANGED <<read, decoding, sinking, ragged>> /\ decoder[s] \in Ended
        /\ c <= read[s] /\ read[s] <= Frames[s]
    BY <1>0, <1>5, OrderOfDrain DEF Drains, PlacesInv
  <2>7. Last(s)' = Last(s) /\ Frames[s] \in Nat
    BY <2>3, LastIs
  <2>4. OrderInv(s, a, a, h, Nothing, Nothing)'
    BY <2>1, <2>2, <2>3
  <2>5. inhand'[s] # Eof
    BY <2>2, <2>3 DEF OrderInv
  <2>8. QueueFlow(s, a, b, c, e, f) /\ ragged'[s] => h = Frames[s]
    BY <2>1, <2>3, <2>7 DEF QueueFlow
  <2>6. Going(s)' => QueueFlow(s, a, a, h, Nothing, Nothing)' /\ Puts(s, a, a)
    BY <1>1, <2>2, <2>3, <2>5, <2>7, <2>8 DEF QueueFlow, Puts, Put, Sent
  <2> QED
    BY <2>2, <2>4, <2>6 DEF Follows
<1> QED
  BY <1>2, <1>3, <1>4, <1>5 DEF ReaderNext

LEMMA FlowOfTask ==
  ASSUME DataType, NEW s \in Sessions, PlacesInv(s), UncutInv(s),
         NEW a \in Nat, NEW b \in Nat, NEW c \in Nat, NEW e \in Marks, NEW f \in Marks,
         OrderInv(s, a, b, c, e, f), Going(s) => QueueFlow(s, a, b, c, e, f), StepOf(s),
         \/ OwnerOpens(s) \/ OwnerCloses(s) \/ OwnerWaits(s) \/ OwnerEnds(s)
         \/ Starts(s) \/ FreesSession(s) \/ Cancels(s)
  PROVE  \E d, g, h \in Nat, x, y \in Marks : Follows(s, a, d, g, h, x, y)
<1>0. /\ owner \in [Sessions -> OwnerPlaces] /\ player \in [Sessions -> PlayerPlaces]
  BY DEF DataType
<1>1. CASE FreesSession(s)
  <2>1. OrderInv(s, 0, 0, 0, Nothing, Nothing)' /\ Nothing \in Marks
    BY <1>1, OrderOfFree DEF Marks
  <2>2. ~Going(s)'
    BY <1>0, <1>1 DEF FreesSession, Going
  <2> QED
    BY <2>1, <2>2 DEF Follows
<1>2. CASE ~FreesSession(s)
  <2>1. OrderInv(s, a, b, c, e, f)'
    BY <1>2, OrderOfOwner
  <2>2. ~Sent(s)
    BY <1>0, <1>2 DEF Sent, Starts, Cancels, OwnerOpens, OwnerCloses, OwnerWaits, OwnerEnds
  <2>3. CASE Going(s)' => Going(s)
    <3>1. Going(s)' => QueueFlow(s, a, b, c, e, f)' /\ Put(s, a)' = Put(s, a)
      BY <1>2, <2>3, FlowOfOwner
    <3> QED
      BY <2>1, <2>2, <3>1 DEF Follows, Puts
  <2>4. CASE OwnerOpens(s) /\ owner'[s] = "connecting"
    <3>1. a = 0 /\ b = 0 /\ c = 0 /\ QueueFlow(s, a, b, c, e, f)
      BY <2>4, FlowStarts DEF OwnerOpens
    <3>2. /\ UNCHANGED <<read, decoding, sinking, ragged>>
          /\ decoder[s] = "none" /\ player[s] = "none"
      BY <2>4 DEF OwnerOpens, PlacesInv
    <3>4. Last(s)' = Last(s)
      BY <3>2, LastIs
    <3>3. QueueFlow(s, a, b, c, e, f)' /\ ~Going(s)
      BY <2>4, <3>1, <3>2, <3>4 DEF QueueFlow, Going, OwnerOpens
    <3> QED
      BY <2>1, <3>3 DEF Follows
  <2> QED
    BY <2>3, <2>4, GoingOn
<1> QED
  BY <1>1, <1>2


LEMMA FlowOfDecoder ==
  ASSUME DataType, FlagType, NEW s \in Sessions, PlacesInv(s),
         NEW a \in Nat, NEW b \in Nat, NEW c \in Nat, NEW e \in Marks, NEW f \in Marks,
         OrderInv(s, a, b, c, e, f), Going(s) => QueueFlow(s, a, b, c, e, f), DecoderNext(s)
  PROVE  \E d, g, h \in Nat, x, y \in Marks : Follows(s, a, d, g, h, x, y)
<1>0. /\ decoder \in [Sessions -> DecoderPlaces] /\ read[s] \in Nat
      /\ ragged \in [Sessions -> BOOLEAN]
      /\ failed \in [Sessions -> SUBSET {"stream", "tasks"}]
      /\ inhand \in [Sessions -> Packets \cup {Nothing}] /\ Nothing \in Marks
      /\ Last(s) \in Nat /\ Frames[s] \in Nat \ {0} /\ Last(s) <= Frames[s]
      /\ Frames[s] <= Last(s) + 1 /\ read[s] <= Frames[s]
      /\ Nothing # Eof /\ Eof # Error /\ \A n \in Nat : Frame(n) # Eof
  BY LastIs, PacketsDiffer DEF DataType, FlagType, Marks, PlacesInv
<1>1. /\ UNCHANGED <<owner, read, sinking>>
      /\ Going(s)' => Going(s) /\ QueueFlow(s, a, b, c, e, f)
      /\ \A d : Put(s, d)' = Put(s, d) /\ ~Sent(s)
  <2>1. UNCHANGED <<owner, read, sinking>>
    BY DEF DecoderNext, Decodes, Enqueues, DecodeFails, Forwards, DecoderEnds
  <2>2. StepOf(s) /\ ~(owner'[s] = "connecting" /\ OwnerOpens(s))
    BY <2>1 DEF StepOf, OwnerOpens
  <2>3. \A d : Put(s, d)' = Put(s, d) /\ ~Sent(s)
    BY <2>1 DEF Put, Sent
  <2> QED
    BY <2>1, <2>2, <2>3, GoingOn
<1>2. CASE Decodes(s)
  <2>1. /\ decoder[s] = "waiting" /\ decoder'[s] \in {"decoding", "forwarding"}
        /\ inhand'[s] \in {Head(encoded[s]), Error} /\ f = Nothing /\ UNCHANGED ragged
    BY <1>0, <1>2 DEF Decodes, OrderInv
  <2>4. Last(s)' = Last(s)
    BY <2>1, LastIs
  <2>5. Head(encoded[s]) = Eof \/ Head(encoded[s]) = Error => decoder'[s] = "forwarding"
    BY <1>0, <1>2, PacketsDiffer DEF Decodes
  <2>2. CASE /\ c < read[s] /\ Head(encoded[s]) = Frame(c + 1)
             /\ OrderInv(s, a, b, c + 1, e, f)'
    <3>1. PICK h \in Nat : h = c + 1
      OBVIOUS
    <3>2. Frame(h) # Eof
      BY <1>0
    <3>5. ~(QueueFlow(s, a, b, c, e, f) /\ ragged[s])
      BY <1>0, <2>2 DEF QueueFlow
    <3>3. Going(s)' => QueueFlow(s, a, b, h, e, f)'
      BY <1>0, <1>1, <2>1, <2>2, <2>4, <3>1, <3>2, <3>5 DEF QueueFlow
    <3>4. OrderInv(s, a, b, h, e, f)'
      BY <2>2, <3>1
    <3> QED
      BY <1>1, <3>3, <3>4 DEF Follows, Puts
  <2>3. CASE e # Nothing /\ c = read[s] /\ Head(encoded[s]) = e /\ OrderInv(s, a, b, c, Nothing, f)'
    <3>1. Going(s)' /\ inhand'[s] = Eof => b = Last(s)
      <4> SUFFICES ASSUME Going(s)', inhand'[s] = Eof PROVE b = Last(s)
        OBVIOUS
      <4>1. e = Eof
        BY <1>0, <2>1, <2>3
      <4>2. c = Frames[s] /\ b = Least(c, Last(s))
        BY <1>1, <2>1, <2>3, <4>1 DEF QueueFlow
      <4> QED
        BY <1>0, <4>2 DEF Least
    <3>3. decoder'[s] = "forwarding"
      BY <2>3, <2>5 DEF Marks
    <3>2. Going(s)' => QueueFlow(s, a, b, c, Nothing, f)'
      BY <1>0, <1>1, <2>1, <2>4, <3>1, <3>3 DEF QueueFlow
    <3> QED
      BY <1>0, <1>1, <2>3, <3>2 DEF Follows, Puts
  <2> QED
    BY <1>2, <2>2, <2>3, OrderOfDecode
<1>3. CASE Enqueues(s)
  <2>1. /\ b + 1 = c /\ f = Nothing /\ inhand[s] = Frame(c)
        /\ \/ c = Frames[s] /\ ragged'[s] = TRUE /\ OrderInv(s, a, b, c, e, f)'
           \/ ragged'[s] = ragged[s] /\ OrderInv(s, a, c, c, e, f)'
    BY <1>3, OrderOfEnqueue
  <2>2. decoder'[s] = "waiting" /\ inhand'[s] = Nothing /\ decoder[s] = "decoding"
    BY <1>0, <1>3 DEF Enqueues
  <2>3. c <= Frames[s]
    BY <1>0, <2>1 DEF OrderInv, Line
  <2>6. QueueFlow(s, a, b, c, e, f) => Last(s) = Frames[s] /\ player[s] \notin AfterWork
    <3> SUFFICES ASSUME QueueFlow(s, a, b, c, e, f)
                 PROVE  Last(s) = Frames[s] /\ player[s] \notin AfterWork
      OBVIOUS
    <3>1. ragged[s] = FALSE
      BY <1>0, <2>2 DEF QueueFlow
    <3>2. Last(s) = Frames[s]
      BY <3>1 DEF Last
    <3>3. b # Last(s)
      BY <1>0, <2>1, <2>3, <3>2
    <3> QED
      BY <3>2, <3>3 DEF QueueFlow
  <2>4. CASE c = Frames[s] /\ ragged'[s] = TRUE /\ OrderInv(s, a, b, c, e, f)'
    <3>1. Last(s)' = Frames[s] - 1
      BY <2>4 DEF Last
    <3>2. b = Least(c, Last(s)')
      BY <1>0, <2>1, <2>4, <3>1 DEF Least
    <3>3. Going(s)' => QueueFlow(s, a, b, c, e, f)'
      BY <1>0, <1>1, <2>1, <2>2, <2>4, <2>6, <3>2 DEF QueueFlow
    <3> QED
      BY <1>1, <2>4, <3>3 DEF Follows, Puts
  <2>5. CASE ragged'[s] = ragged[s] /\ OrderInv(s, a, c, c, e, f)'
    <3>1. Last(s)' = Last(s)
      BY <2>5, LastIs
    <3>2. QueueFlow(s, a, b, c, e, f) => c = Least(c, Last(s)) /\ ragged[s] = FALSE
      BY <1>0, <2>2, <2>3, <2>6 DEF Least, QueueFlow
    <3>3. Going(s)' => QueueFlow(s, a, c, c, e, f)'
      BY <1>0, <1>1, <2>1, <2>2, <2>5, <2>6, <3>1, <3>2 DEF QueueFlow
    <3> QED
      BY <1>1, <2>5, <3>3 DEF Follows, Puts
  <2> QED
    BY <2>1, <2>4, <2>5
<1>4. CASE DecodeFails(s)
  <2>1. /\ OrderInv(s, a, b, c, e, f)' /\ decoder'[s] = "forwarding" /\ inhand'[s] = Error
        /\ UNCHANGED ragged
    BY <1>0, <1>4, OrderOfDecodeFails DEF DecodeFails
  <2>3. Last(s)' = Last(s)
    BY <2>1, LastIs
  <2>2. Going(s)' => QueueFlow(s, a, b, c, e, f)'
    BY <1>0, <1>1, <2>1, <2>3 DEF QueueFlow
  <2> QED
    BY <1>1, <2>1, <2>2 DEF Follows, Puts
<1>5. CASE Forwards(s)
  <2>1. decoder'[s] = "finishing" /\ inhand'[s] = Nothing /\ UNCHANGED ragged
    BY <1>0, <1>5 DEF Forwards
  <2>4. Last(s)' = Last(s)
    BY <2>1, LastIs
  <2>2. CASE OrderInv(s, a, b, c, e, f)' /\ Fails(s, "tasks")
    <3>1. ~Going(s)'
      BY <1>0, <2>2 DEF Going
    <3> QED
      BY <2>2, <3>1 DEF Follows
  <2>3. ASSUME NEW g \in {Eof, Error}, g = inhand[s], OrderInv(s, a, b, c, e, g)'
        PROVE  \E d, k, h \in Nat, x, y \in Marks : Follows(s, a, d, k, h, x, y)
    <3>1. Going(s)' => QueueFlow(s, a, b, c, e, g)'
      BY <1>0, <1>1, <2>1, <2>3, <2>4 DEF QueueFlow
    <3>2. g \in Marks
      BY DEF Marks
    <3> QED
      BY <1>1, <2>3, <3>1, <3>2 DEF Follows, Puts
  <2> QED
    BY <1>5, <2>2, <2>3, OrderOfForward
<1>6. CASE DecoderEnds(s)
  <2>1. /\ decoder[s] \in AfterWork /\ decoder'[s] \in AfterWork
        /\ UNCHANGED <<inhand, ragged>> /\ OrderInv(s, a, b, c, e, f)'
    BY <1>6, Ending, OrderOfEnding
  <2>2. Last(s)' = Last(s)
    BY <2>1, LastIs
  <2>3. Going(s)' => QueueFlow(s, a, b, c, e, f)'
    BY <1>1, <2>1, <2>2 DEF QueueFlow
  <2> QED
    BY <1>1, <2>1, <2>3 DEF Follows, Puts
<1> QED
  BY <1>2, <1>3, <1>4, <1>5, <1>6 DEF DecoderNext

LEMMA FlowOfPlayer ==
  ASSUME DataType, NEW s \in Sessions, PlacesInv(s),
         NEW a \in Nat, NEW b \in Nat, NEW c \in Nat, NEW e \in Marks, NEW f \in Marks,
         OrderInv(s, a, b, c, e, f), Going(s) => QueueFlow(s, a, b, c, e, f), PlayerNext(s)
  PROVE  \E d, g, h \in Nat, x, y \in Marks : Follows(s, a, d, g, h, x, y)
<1>0. /\ player \in [Sessions -> PlayerPlaces] /\ Nothing \in Marks
      /\ failed \in [Sessions -> SUBSET {"stream", "tasks"}]
      /\ Nothing # Eof /\ Marks = {Nothing, Eof, Error}
  BY PacketsDiffer DEF DataType, Marks
<1>1. /\ UNCHANGED <<owner, read, encoded, decoding, ragged>> /\ Last(s)' = Last(s)
      /\ Going(s)' => Going(s) /\ QueueFlow(s, a, b, c, e, f)
  <2>1. UNCHANGED <<owner, read, encoded, decoding, ragged>>
    BY DEF PlayerNext, Takes, SinkEnters, SinkSends, SinkCounts, SinkFails, PlayerEnds
  <2>3. Last(s)' = Last(s)
    BY <2>1, LastIs
  <2>2. StepOf(s) /\ ~(owner'[s] = "connecting" /\ OwnerOpens(s))
    BY <2>1 DEF StepOf, OwnerOpens
  <2> QED
    BY <2>1, <2>2, <2>3, GoingOn
<1>2. Fails(s, "tasks") => ~Going(s)'
  BY <1>0 DEF Going
<1>3. CASE Takes(s)
  <2>1. player[s] = "waiting"
    BY <1>3 DEF Takes
  <2>2. CASE /\ OrderInv(s, a + 1, b, c, e, f)'
             /\ player'[s] = "entering" \/ (player'[s] = "finishing" /\ Fails(s, "tasks"))
    <3>1. PICK d \in Nat : d = a + 1
      OBVIOUS
    <3>2. Going(s)' => player'[s] = "entering"
      BY <1>2, <2>2
    <3>3. Going(s)' => QueueFlow(s, d, b, c, e, f)'
      BY <1>1, <2>1, <3>2 DEF QueueFlow
    <3>4. Going(s)' => Puts(s, a, d)
      BY <2>1, <3>1, <3>2 DEF Puts, Put, Sent
    <3> QED
      BY <2>2, <3>1, <3>3, <3>4 DEF Follows
  <2>3. CASE /\ f # Nothing /\ a = b /\ OrderInv(s, a, b, c, e, Nothing)'
             /\ player'[s] = "finishing" /\ (f = Error => Fails(s, "tasks"))
    <3>1. Going(s)' => f = Eof
      BY <1>0, <1>2, <2>3
    <3>2. Going(s)' => QueueFlow(s, a, b, c, e, Nothing)'
      BY <1>0, <1>1, <2>3, <3>1 DEF QueueFlow
    <3>3. Puts(s, a, a)
      BY <2>1, <2>3 DEF Puts, Put, Sent
    <3> QED
      BY <1>0, <2>3, <3>2, <3>3 DEF Follows
  <2> QED
    BY <1>3, <2>2, <2>3, OrderOfTake
<1>4. CASE SinkEnters(s) \/ SinkSends(s) \/ SinkCounts(s) \/ SinkFails(s)
  <2>1. OrderInv(s, a, b, c, e, f)' /\ (player[s] \in InSink => 0 < a)
    BY <1>4, OrderOfSink DEF OrderInv
  <2>2. \/ player[s] = "entering" /\ player'[s] = "sending"
        \/ player[s] = "sending" /\ player'[s] = "counting"
        \/ player[s] = "counting" /\ player'[s] = "waiting"
        \/ Fails(s, "tasks")
    BY <1>0, <1>4 DEF SinkEnters, SinkSends, SinkCounts, SinkFails
  <2>3. Going(s)' => QueueFlow(s, a, b, c, e, f)'
    BY <1>1, <1>2, <2>2 DEF QueueFlow
  <2>4. Going(s)' => Puts(s, a, a)
    BY <1>2, <2>1, <2>2 DEF Puts, Put, Sent
  <2> QED
    BY <2>1, <2>3, <2>4 DEF Follows
<1>5. CASE PlayerEnds(s)
  <2>1. /\ player[s] \in AfterWork /\ player'[s] \in AfterWork
        /\ UNCHANGED playing /\ OrderInv(s, a, b, c, e, f)'
    BY <1>5, Ending, OrderOfEnding
  <2>2. Going(s)' => QueueFlow(s, a, b, c, e, f)'
    BY <1>1, <2>1 DEF QueueFlow
  <2>3. Puts(s, a, a)
    BY <2>1 DEF Puts, Put, Sent
  <2> QED
    BY <2>1, <2>2, <2>3 DEF Follows
<1> QED
  BY <1>3, <1>4, <1>5 DEF PlayerNext


-----------------------------------------------------------------------------
(* The pieces in the output                                                *)

Piece(s, n) == [session |-> s, n |-> n]
PiecesOf(q, s, k) == \A i \in 1..Len(q) : q[i] = Piece(s, k + i)

(* What was put is in the codec, in the scratch buffer and in the jitter   *)
(* buffer, in this order; and a stream that ends has left nothing behind.  *)
SpeakerFlow(s, k) ==
  /\ handle =>
       /\ k = Len(heard) + Len(scratch) + Len(ring.items)
       /\ PiecesOf(heard, s, 0) /\ PiecesOf(scratch, s, Len(heard))
       /\ PiecesOf(ring.items, s, Len(heard) + Len(scratch))
       /\ ring.there
  /\ ~handle => k = 0 /\ heard = << >> /\ ring = NoRing
  /\ player[s] \in {"sending", "counting"} => handle
  /\ handle /\ stream \in {"flushing", "ending", "suspended", "none"} =>
       ring.items = << >> /\ ~started
  /\ handle /\ stream \in {"ending", "suspended", "none"} => scratch = << >>
  /\ handle /\ ~started => owner[s] = "closing"

LEMMA PiecesAppend ==
  ASSUME NEW q \in Seq(Written), NEW s \in Sessions, NEW k \in Nat, PiecesOf(q, s, k),
         NEW n \in Nat, n = k + Len(q) + 1
  PROVE  /\ PiecesOf(Append(q, Piece(s, n)), s, k)
         /\ Len(Append(q, Piece(s, n))) = Len(q) + 1
<1>0. Piece(s, n) \in Written
  BY DEF Piece, Written
<1>1. PICK p \in Written : p = Piece(s, n)
  BY <1>0
<1>2. PICK r : r = Append(q, p)
  OBVIOUS
<1>3. /\ Len(r) = Len(q) + 1 /\ \A i \in 1..Len(q) : r[i] = q[i]
  BY <1>2, AppendProperties
<1>4. r[Len(q) + 1] = p
  BY <1>2, AppendProperties
<1>5. ASSUME NEW i \in 1..Len(r) PROVE r[i] = Piece(s, k + i)
  <2>1. CASE i <= Len(q)
    BY <1>3, <2>1 DEF PiecesOf
  <2>2. CASE i = Len(q) + 1
    <3>1. k + i = n
      BY <2>2
    <3> QED
      BY <1>1, <1>4, <2>2, <3>1
  <2> QED
    BY <1>3, <2>1, <2>2
<1> QED
  BY <1>1, <1>2, <1>3, <1>5 DEF PiecesOf

LEMMA PiecesTail ==
  ASSUME NEW q \in Seq(Written), q # << >>, NEW s \in Sessions, NEW k \in Nat, PiecesOf(q, s, k)
  PROVE  /\ PiecesOf(Tail(q), s, k + 1) /\ Len(Tail(q)) = Len(q) - 1
         /\ Head(q) = Piece(s, k + 1) /\ Len(q) \in Nat \ {0}
<1>1. PICK r : r = Tail(q)
  OBVIOUS
<1>2. /\ Len(r) = Len(q) - 1 /\ \A i \in 1..Len(r) : r[i] = q[i + 1]
  BY <1>1, HeadTailProperties
<1>3. Head(q) = q[1] /\ Len(q) \in Nat \ {0}
  OBVIOUS
<1>4. ASSUME NEW i \in 1..Len(r) PROVE r[i] = Piece(s, (k + 1) + i)
  <2>1. i + 1 \in 1..Len(q) /\ k + (i + 1) = (k + 1) + i
    BY <1>2, <1>3
  <2>2. q[i + 1] = Piece(s, k + (i + 1))
    BY <2>1 DEF PiecesOf
  <2> QED
    BY <1>2, <2>1, <2>2
<1>5. q[1] = Piece(s, k + 1)
  BY <1>3 DEF PiecesOf
<1> QED
  BY <1>1, <1>2, <1>3, <1>4, <1>5 DEF PiecesOf

LEMMA PiecesConcat ==
  ASSUME NEW q \in Seq(Written), NEW r \in Seq(Written), NEW s \in Sessions, NEW k \in Nat,
         PiecesOf(q, s, k), PiecesOf(r, s, k + Len(q))
  PROVE  /\ PiecesOf(q \o r, s, k) /\ Len(q \o r) = Len(q) + Len(r)
         /\ q \o r \in Seq(Written)
<1>1. PICK t : t = q \o r
  OBVIOUS
<1>2. /\ t \in Seq(Written) /\ Len(t) = Len(q) + Len(r)
      /\ \A i \in 1..Len(t) : t[i] = IF i <= Len(q) THEN q[i] ELSE r[i - Len(q)]
  BY <1>1, ConcatProperties
<1>3. ASSUME NEW i \in 1..Len(t) PROVE t[i] = Piece(s, k + i)
  <2>1. CASE i <= Len(q)
    BY <1>2, <2>1 DEF PiecesOf
  <2>2. CASE ~(i <= Len(q))
    <3>1. i - Len(q) \in 1..Len(r) /\ (k + Len(q)) + (i - Len(q)) = k + i
      BY <1>2, <2>2
    <3>2. r[i - Len(q)] = Piece(s, (k + Len(q)) + (i - Len(q)))
      BY <3>1 DEF PiecesOf
    <3> QED
      BY <1>2, <2>2, <3>1, <3>2
  <2> QED
    BY <2>1, <2>2
<1> QED
  BY <1>1, <1>2, <1>3 DEF PiecesOf


LEMMA FlowOfStream ==
  ASSUME OutputType, NEW s \in Sessions, NEW k, SpeakerFlow(s, k), SpeakerInv,
         StreamNext, ~broken', UNCHANGED <<owner, player>>
  PROVE  SpeakerFlow(s, k)'
<1>0. /\ stream # "none" /\ handle
      /\ heard \in Seq(Written) /\ scratch \in Seq(Written)
      /\ ring.items \in Seq(Written) /\ Len(heard) \in Nat /\ Len(scratch) \in Nat
      /\ Len(ring.items) \in Nat
  BY DEF StreamNext, Prebuffered, Receive, RunsDry, Flush, StreamEnds, SpeakerInv, OutputType
<1>1. /\ handle' /\ (started' => started) /\ (started => started') /\ ring.there
      /\ (started' \/ owner'[s] = "closing")
  <2>1. UNCHANGED <<handle, started>>
    BY DEF StreamNext, Prebuffered, Receive, RunsDry, Flush, StreamEnds
  <2>2. started \/ owner[s] = "closing"
    BY <1>0 DEF SpeakerFlow
  <2> QED
    BY <1>0, <2>1, <2>2 DEF SpeakerFlow
<1>2. /\ k = Len(heard) + Len(scratch) + Len(ring.items)
      /\ PiecesOf(heard, s, 0) /\ PiecesOf(scratch, s, Len(heard))
      /\ PiecesOf(ring.items, s, Len(heard) + Len(scratch))
      /\ stream \in {"flushing", "ending", "suspended", "none"} => ring.items = << >> /\ ~started
      /\ stream \in {"ending", "suspended", "none"} => scratch = << >>
  BY <1>0 DEF SpeakerFlow
<1>3. CASE Prebuffered \/ RunsDry \/ StreamEnds
  <2>1. /\ UNCHANGED <<heard, scratch, ring>>
        /\ stream' \in {"flushing", "ending", "suspended", "none"} => ring.items = << >> /\ ~started
        /\ stream' \in {"ending", "suspended", "none"} => scratch = << >>
    BY <1>2, <1>3 DEF Prebuffered, RunsDry, StreamEnds
  <2> QED
    BY <1>1, <1>2, <2>1 DEF SpeakerFlow
<1>4. PiecesOf(heard \o scratch, s, 0) /\ Len(heard \o scratch) = Len(heard) + Len(scratch)
  BY <1>0, <1>2, PiecesConcat
<1>5. CASE Receive
  <2>1. PICK q \in Seq(Written) : q = ring.items
    BY <1>0
  <2>2. /\ q # << >> /\ ring'.items = Tail(q) /\ ring'.there
        /\ scratch' = <<Head(q)>>
    BY <1>1, <1>5, <2>1 DEF Receive, OutputType
  <2>3. PICK m \in Nat : m = Len(heard) + Len(scratch)
    BY <1>0
  <2>4. /\ PiecesOf(Tail(q), s, m + 1) /\ Len(Tail(q)) = Len(q) - 1
        /\ Head(q) = Piece(s, m + 1) /\ Len(q) \in Nat \ {0}
    BY <1>2, <2>1, <2>2, <2>3, PiecesTail
  <2>5. Len(scratch') = 1 /\ PiecesOf(scratch', s, m)
    BY <2>2, <2>4 DEF PiecesOf
  <2>6. heard' = heard \o scratch /\ stream' = "receiving"
    <3>1. CASE scratch = << >>
      <4>1. heard \o scratch = heard
        BY <1>0, <3>1, ConcatEmptySeq
      <4> QED
        BY <1>5, <3>1, <4>1 DEF Receive
    <3>2. CASE scratch # << >>
      BY <1>5, <3>2 DEF Receive, Writes
    <3> QED
      BY <3>1, <3>2
  <2>7. Len(heard') = m /\ PiecesOf(heard', s, 0)
    BY <1>4, <2>3, <2>6
  <2>8. k = m + 1 + Len(ring'.items)
    <3>1. Len(ring.items) = Len(q)
      BY <2>1
    <3>2. k = m + Len(q)
      BY <1>2, <2>3, <3>1
    <3>3. PICK r : r = Tail(q)
      OBVIOUS
    <3>4. Len(ring'.items) = Len(q) - 1
      BY <2>2, <2>4, <3>3
    <3>5. Len(q) \in Nat
      OBVIOUS
    <3>6. PICK t : t = Len(ring'.items)
      OBVIOUS
    <3>7. t = Len(q) - 1
      BY <3>4, <3>6
    <3>8. k = m + 1 + t
      BY <3>2, <3>5, <3>7
    <3> QED
      BY <3>6, <3>8
  <2>9. UNCHANGED player
    OBVIOUS
  <2> QED
    BY <1>1, <2>2, <2>4, <2>5, <2>6, <2>7, <2>8, <2>9 DEF SpeakerFlow
<1>6. CASE Flush
  <2>1. /\ ring' = ring /\ scratch' = << >> /\ stream = "flushing"
        /\ heard' = heard \o scratch /\ stream' = "ending"
    BY <1>6 DEF Flush, Writes
  <2>2. ring.items = << >> /\ ~started /\ Len(ring.items) = 0 /\ Len(scratch') = 0
    BY <1>2, <2>1
  <2>3. /\ Len(heard') = Len(heard) + Len(scratch) /\ PiecesOf(heard', s, 0)
        /\ PiecesOf(scratch', s, Len(heard')) /\ PiecesOf(ring'.items, s, Len(heard') + Len(scratch'))
    BY <1>4, <2>1, <2>2 DEF PiecesOf
  <2>4. k = Len(heard') + Len(scratch') + Len(ring'.items)
    BY <1>0, <1>2, <2>1, <2>2, <2>3
  <2> QED
    BY <1>1, <2>1, <2>2, <2>3, <2>4 DEF SpeakerFlow
<1> QED
  BY <1>3, <1>5, <1>6 DEF StreamNext


LEMMA FlowOfSink ==
  ASSUME OutputType, DataType, NEW s \in Sessions, NEW k \in Nat, SpeakerFlow(s, k), SpeakerInv,
         handle => started, player[s] = "sending" => playing[s].n = k + 1,
         SinkEnters(s) \/ SinkSends(s) \/ SinkCounts(s)
  PROVE  (Sent(s) => SpeakerFlow(s, k + 1)') /\ (~Sent(s) => SpeakerFlow(s, k)')
<1>0. /\ heard \in Seq(Written) /\ scratch \in Seq(Written) /\ player \in [Sessions -> PlayerPlaces]
      /\ ring \in [there : BOOLEAN, items : Seq(Written)] /\ ring.items \in Seq(Written)
      /\ Len(heard) \in Nat /\ Len(scratch) \in Nat /\ Len(ring.items) \in Nat
  BY DEF OutputType, DataType
<1>1. ASSUME handle
      PROVE  /\ k = Len(heard) + Len(scratch) + Len(ring.items)
             /\ PiecesOf(heard, s, 0) /\ PiecesOf(scratch, s, Len(heard))
             /\ PiecesOf(ring.items, s, Len(heard) + Len(scratch))
             /\ ring.there /\ started /\ stream \notin {"flushing", "ending", "suspended", "none"}
  BY <1>1 DEF SpeakerFlow
<1>2. CASE SinkEnters(s)
  <2>1. /\ WriteEnters /\ player'[s] = "sending" /\ player[s] = "entering" /\ owner' = owner
    BY <1>0, <1>2 DEF SinkEnters
  <2>2. CASE handle
    <3>1. UNCHANGED <<ring, started, handle, stream, scratch, heard>>
      BY <1>1, <2>1, <2>2 DEF WriteEnters
    <3>2. handle' /\ started'
      BY <1>1, <2>2, <3>1
    <3>3. SpeakerFlow(s, k)'
      BY <1>1, <2>2, <3>1, <3>2 DEF SpeakerFlow
    <3> QED
      BY <2>1, <3>3 DEF Sent
  <2>3. CASE ~handle
    <3>1. k = 0 /\ heard = << >> /\ ring = NoRing /\ ~started
      BY <2>3 DEF SpeakerFlow, SpeakerInv
    <3>2. ring' = NewRing
      BY <2>1, <3>1 DEF WriteEnters, NoRing
    <3>3. /\ ring'.items = << >> /\ ring'.there
      BY <3>2 DEF NewRing
    <3>4. started' /\ handle' /\ stream' = "prebuffering" /\ scratch' = << >> /\ heard' = << >>
      BY <2>1, <3>1 DEF WriteEnters
    <3>5. SpeakerFlow(s, k)'
      BY <3>1, <3>3, <3>4 DEF SpeakerFlow, PiecesOf
    <3> QED
      BY <2>1, <3>5 DEF Sent
  <2> QED
    BY <2>2, <2>3
<1>3. CASE SinkSends(s)
  <2>1. /\ player[s] = "sending" /\ player'[s] = "counting" /\ owner' = owner
        /\ WriteSends(Piece(s, k + 1))
    BY <1>0, <1>3 DEF SinkSends, Piece
  <2>2. handle
    BY <2>1 DEF SpeakerFlow
  <2>3. UNCHANGED <<started, handle, stream, scratch, heard>>
    BY <2>1 DEF WriteSends
  <2>4. handle' /\ started'
    BY <1>1, <2>2, <2>3
  <2>5. PICK n \in Nat : n = k + 1
    OBVIOUS
  <2>6. PICK q \in Seq(Written) : q = ring.items
    BY <1>0
  <2>7. PICK m \in Nat : m = Len(heard) + Len(scratch)
    BY <1>0
  <2>8. n = m + Len(q) + 1 /\ PiecesOf(q, s, m)
    BY <1>0, <1>1, <2>2, <2>5, <2>6, <2>7
  <2>9. ring'.items = Append(q, Piece(s, n)) /\ ring'.there
    BY <1>0, <1>1, <2>1, <2>2, <2>5, <2>6 DEF WriteSends
  <2>10. PiecesOf(ring'.items, s, m) /\ Len(ring'.items) = Len(q) + 1
    BY <2>8, <2>9, PiecesAppend
  <2>11. n = m + Len(ring'.items)
    BY <2>6, <2>8, <2>10
  <2>12. stream \notin {"flushing", "ending", "suspended", "none"}
    BY <1>1, <2>2
  <2>13. Len(heard') = Len(heard) /\ Len(scratch') = Len(scratch)
    BY <2>3
  <2>14. /\ n = Len(heard') + Len(scratch') + Len(ring'.items)
         /\ PiecesOf(heard', s, 0) /\ PiecesOf(scratch', s, Len(heard'))
         /\ PiecesOf(ring'.items, s, Len(heard') + Len(scratch'))
    BY <1>1, <2>2, <2>3, <2>7, <2>10, <2>11, <2>13
  <2>15. SpeakerFlow(s, n)'
    BY <2>3, <2>4, <2>9, <2>12, <2>14 DEF SpeakerFlow
  <2> QED
    BY <2>1, <2>5, <2>15 DEF Sent
<1>4. CASE SinkCounts(s)
  <2>1. /\ player'[s] = "waiting" /\ player[s] = "counting"
        /\ UNCHANGED <<owner, ring, started, handle, stream, scratch, heard>>
    BY <1>0, <1>4 DEF SinkCounts, WriteCounts
  <2>2. SpeakerFlow(s, k)'
    BY <2>1 DEF SpeakerFlow
  <2> QED
    BY <2>1, <2>2 DEF Sent
<1> QED
  BY <1>2, <1>3, <1>4

(* While the session's task closes the output, all of it is still played.  *)
LEMMA FlowOfClose ==
  ASSUME OutputType, DataType, NEW s \in Sessions, NEW k \in Nat, SpeakerFlow(s, k),
         CloseBegins(s) \/ CloseDeletes(s), SpeakerInv,
         owner[s] = "closing", UNCHANGED <<owner, player>>, player[s] \in Ended
  PROVE  SpeakerFlow(s, k)'
<1>1. CASE CloseBegins(s)
  BY <1>1 DEF SpeakerFlow, CloseBegins
<1>2. CASE CloseDeletes(s)
  <2>1. /\ UNCHANGED <<ring, started, handle, scratch, heard>> /\ stream' = "none"
        /\ handle => stream \in {"none", "suspended"}
    BY <1>2 DEF CloseDeletes
  <2> QED
    BY <2>1 DEF SpeakerFlow
<1> QED
  BY <1>1, <1>2

(* A stream that was just opened holds nothing.                            *)
LEMMA FlowOfOpen ==
  ASSUME NEW s \in Sessions, Opens(s), UNCHANGED player, player[s] = "none"
  PROVE  SpeakerFlow(s, 0)'
BY DEF SpeakerFlow, Opens

LEMMA FlowSame ==
  ASSUME NEW s \in Sessions, NEW k \in Nat, SpeakerFlow(s, k), UNCHANGED audio,
         player'[s] \in {"sending", "counting"} => player[s] \in {"sending", "counting"},
         owner[s] = "closing" => owner'[s] = "closing"
  PROVE  SpeakerFlow(s, k)'
<1>1. UNCHANGED <<ring, stream, scratch, heard>>
  OBVIOUS
<1>2. handle' = handle /\ started' = started
  BY Zenon
<1>3. (handle' => handle) /\ (handle => handle') /\ (~started' => ~started)
      /\ (~started => ~started')
  BY <1>2
<1> QED
  BY <1>1, <1>3 DEF SpeakerFlow


(* A playback has the output for itself: no task of another one works, but *)
(* for helpers that end.                                                   *)
LEMMA OthersRest ==
  ASSUME DataType, Places, UserInv, NEW s \in Sessions, owner[s] \notin Rest,
         NEW t \in Sessions, OwnerStep(t) \/ DecoderStep(t) \/ PlayerStep(t),
         ~DecoderEnds(t), ~PlayerEnds(t)
  PROVE  t = s
<1>1. /\ owner[t] \notin Rest => t = s
      /\ owner[t] \in Rest => decoder[t] \in Ended /\ player[t] \in Ended
  BY DEF UserInv, Places, PlacesInv, DataType
<1>2. CASE OwnerStep(t)
  <2>1. ReaderNext(t) => owner[t] \notin Rest
    BY DEF ReaderNext, Connects, Refused, Reads, QueueFull, ReadFails, FallsSilent,
           ReadsAll, SeesCancel, Terminates, Joins, JoinExpires, LooksAgain, DeletesDecoder,
           DeletesPlayer, Cleans, Drains, Reading
  <2>2. OwnerOpens(t) \/ OwnerCloses(t) \/ OwnerWaits(t) \/ OwnerEnds(t) => owner[t] \notin Rest
    BY DEF OwnerOpens, OwnerCloses, OwnerWaits, OwnerEnds, Ends
  <2> QED
    BY <1>1, <1>2, <2>1, <2>2 DEF OwnerStep, OwnerNext
<1>3. CASE DecoderStep(t)
  BY <1>1, <1>3 DEF DecoderStep, DecoderNext, Decodes, Enqueues, DecodeFails, Forwards
<1>4. CASE PlayerStep(t)
  BY <1>1, <1>4 DEF PlayerStep, PlayerNext, Takes, SinkEnters, SinkSends, SinkCounts, SinkFails
<1> QED
  BY <1>2, <1>3, <1>4

(* While a playback is going, only its own tasks and the stream task use   *)
(* the output.                                                             *)
Calm(s) ==
  /\ UNCHANGED audio
  /\ player'[s] \in {"sending", "counting"} => player'[s] = player[s]
  /\ owner[s] = "closing" => owner'[s] = "closing"

LEMMA OutputIsOurs ==
  ASSUME Types, Places, UserInv, NEW s \in Sessions, Going(s), [Next]_vars
  PROVE  \/ StreamNext /\ UNCHANGED down
         \/ SinkEnters(s) \/ SinkSends(s) \/ SinkCounts(s)
         \/ OwnerOpens(s) \/ OwnerCloses(s) \/ OwnerWaits(s)
         \/ Calm(s)
<1> USE DEF Calm
<1>0. /\ owner \in [Sessions -> OwnerPlaces] /\ player \in [Sessions -> PlayerPlaces]
      /\ decoder \in [Sessions -> DecoderPlaces]
  BY DEF Types, DataType
<1>1. /\ owner[s] \in AtWork
      /\ main \in Joining /\ joining = s /\ prompt = "idle" /\ reaper = Nobody
      /\ detached = << >> /\ DataType
  BY <1>0 DEF Going, UserInv, Types
<1>2. CASE MainNext
  <2>1. ~StartsPlayback /\ ~JoinsPlayback /\ ~PromptHeard /\ ~CleansUp
    BY <1>1 DEF StartsPlayback, JoinsPlayback, FreesSession, PromptHeard, CleansUp
  <2>2. CASE JoinTimesOut
    BY <2>2 DEF JoinTimesOut, Cancels
  <2>3. CASE Detaches
    BY <2>3 DEF Detaches
  <2> QED
    BY <1>2, <2>1, <2>2, <2>3 DEF MainNext
<1>3. CASE ReaperNext
  BY <1>1, <1>3 DEF ReaperNext, ReaperTakes, ReaperJoins
<1>4. CASE PromptNext
  BY <1>1, <1>4 DEF PromptNext, PromptOpens, PromptCloses
<1>5. CASE SpeakerNext
  BY <1>5 DEF SpeakerNext
<1>6. ASSUME NEW t \in Sessions, OwnerStep(t) PROVE t = s
  <2>1. owner[t] \notin Rest
    BY <1>6 DEF OwnerStep, OwnerNext, ReaderNext, Connects, Refused, Reads, QueueFull, ReadFails,
                FallsSilent, ReadsAll, SeesCancel, Terminates, Joins, JoinExpires, LooksAgain,
                DeletesDecoder, DeletesPlayer, Cleans, Drains, Reading, OwnerOpens, OwnerCloses,
                OwnerWaits, OwnerEnds, Ends
  <2> QED
    BY <1>1, <2>1 DEF UserInv
<1>7. ASSUME NEW t \in Sessions, PlayerStep(t), ~PlayerEnds(t) PROVE t = s
  <2>1. player[t] \notin Ended
    BY <1>7 DEF PlayerStep, PlayerNext, Takes, SinkEnters, SinkSends, SinkCounts, SinkFails
  <2>2. owner[t] \notin Rest
    BY <1>0, <2>1 DEF Places, PlacesInv
  <2> QED
    BY <1>1, <2>2 DEF UserInv
<1>8. CASE OwnerStep(s)
  <2>1. CASE ReaderNext(s) /\ UNCHANGED audio
    <3>1. player'[s] \in {"sending", "counting"} => player'[s] = player[s]
      BY <1>0, <2>1 DEF ReaderNext, Connects, Refused, Reads, QueueFull, ReadFails, FallsSilent,
                        ReadsAll, SeesCancel, Terminates, Joins, JoinExpires, LooksAgain,
                        DeletesDecoder, DeletesPlayer, Cleans, Drains
    <3>2. owner[s] # "closing"
      BY <2>1 DEF ReaderNext, Connects, Refused, Reads, QueueFull, ReadFails, FallsSilent,
                  ReadsAll, SeesCancel, Terminates, Joins, JoinExpires, LooksAgain, DeletesDecoder,
                  DeletesPlayer, Cleans, Drains, Reading
    <3> QED
      BY <2>1, <3>1, <3>2
  <2>2. ~OwnerEnds(s)
    BY <1>1 DEF OwnerEnds, Ends
  <2> QED
    BY <1>8, <2>1, <2>2 DEF OwnerStep, OwnerNext
<1>9. ASSUME NEW t \in Sessions, DecoderStep(t) PROVE Calm(s)
  BY <1>9 DEF DecoderStep, DecoderNext, Decodes, Enqueues, DecodeFails, Forwards, DecoderEnds
<1>10. CASE PlayerStep(s)
  <2>1. CASE (Takes(s) /\ UNCHANGED audio) \/ SinkFails(s)
    BY <1>0, <2>1 DEF Takes, SinkFails
  <2>2. CASE PlayerEnds(s) /\ UNCHANGED audio
    <3>1. player'[s] \in Ended /\ UNCHANGED owner
      BY <1>1, <2>2, Ending
    <3> QED
      BY <2>2, <3>1
  <2> QED
    BY <1>10, <2>1, <2>2 DEF PlayerStep, PlayerNext
<1>12. ASSUME NEW t \in Sessions, PlayerStep(t), PlayerEnds(t), t # s PROVE Calm(s)
  <2>1. UNCHANGED <<audio, owner>>
    BY <1>12 DEF PlayerStep, PlayerNext, PlayerEnds, Takes, SinkEnters, SinkSends,
                 SinkCounts, SinkFails
  <2>2. player'[s] = player[s]
    BY <1>0, <1>12 DEF PlayerEnds
  <2> QED
    BY <2>1, <2>2
<1>11. CASE UNCHANGED vars
  BY <1>11
<1> QED
  BY <1>2, <1>3, <1>4, <1>5, <1>6, <1>7, <1>8, <1>9, <1>10, <1>11, <1>12 DEF Next

LEMMA FlowOfStep ==
  ASSUME Types, Places, SpeakerInv, UserInv, OpenInv, NEW s \in Sessions, Going(s), Going(s)',
         ~broken', NEW k \in Nat, SpeakerFlow(s, k), player[s] = "sending" => playing[s].n = k + 1,
         [Next]_vars
  PROVE  (Sent(s) => SpeakerFlow(s, k + 1)') /\ (~Sent(s) => SpeakerFlow(s, k)')
<1>0. /\ OutputType /\ DataType /\ owner \in [Sessions -> OwnerPlaces]
      /\ player \in [Sessions -> PlayerPlaces]
  BY DEF Types, DataType
<1>1. owner[s] \in AtWork
  BY DEF Going
<1>2. CASE StreamNext /\ UNCHANGED down
  <2>1. SpeakerFlow(s, k)'
    BY <1>0, <1>2, FlowOfStream
  <2> QED
    BY <1>2, <2>1 DEF Sent
<1>3. CASE SinkEnters(s) \/ SinkSends(s) \/ SinkCounts(s)
  <2>1. player[s] \notin Ended
    BY <1>3 DEF SinkEnters, SinkSends, SinkCounts
  <2>2. owner[s] \in Busy
    BY <1>1, <2>1 DEF Places, PlacesInv
  <2>3. handle => started
    BY <2>2 DEF OpenInv
  <2> QED
    BY <1>0, <1>3, <2>3, FlowOfSink
<1>4. CASE OwnerOpens(s) \/ OwnerCloses(s) \/ OwnerWaits(s)
  <2>1. owner[s] = "closing" /\ UNCHANGED player /\ player[s] \in Ended
    BY <1>1, <1>4 DEF OwnerOpens, OwnerCloses, OwnerWaits, Places, PlacesInv
  <2>2. (CloseBegins(s) \/ CloseDeletes(s)) /\ UNCHANGED owner
    BY <1>0, <1>4, <2>1 DEF OwnerOpens, OwnerCloses, OwnerWaits, Going
  <2>3. SpeakerFlow(s, k)'
    BY <1>0, <2>1, <2>2, FlowOfClose
  <2> QED
    BY <2>1, <2>3 DEF Sent
<1>5. CASE Calm(s)
  <2>1. SpeakerFlow(s, k)'
    BY <1>5, FlowSame DEF Calm
  <2> QED
    BY <1>5, <2>1 DEF Sent, Calm
<1> QED
  BY <1>2, <1>3, <1>4, <1>5, OutputIsOurs

(* Nothing mends a broken output but opening it.                           *)
LEMMA BrokenStays ==
  ASSUME Types, Places, UserInv, NEW s \in Sessions, Going(s), [Next]_vars, ~broken'
  PROVE  ~broken
<1>1. CASE OwnerOpens(s) \/ OwnerCloses(s) \/ OwnerWaits(s)
  BY <1>1 DEF Going, OwnerOpens, OwnerCloses, OwnerWaits, CloseBegins, CloseDeletes, CloseStalls,
     CloseDone, Closes
<1>2. CASE SinkEnters(s) \/ SinkSends(s) \/ SinkCounts(s) \/ Calm(s)
  BY <1>2 DEF SinkEnters, SinkSends, SinkCounts, WriteEnters, WriteSends, WriteCounts, Calm
<1>3. CASE StreamNext
  BY <1>3 DEF StreamNext, Prebuffered, Receive, RunsDry, Flush, StreamEnds, Writes
<1> QED
  BY <1>1, <1>2, <1>3, OutputIsOurs


(* A playback that is going well: every frame it has put is on its way.    *)
Good(s) == Going(s) /\ ~left /\ ~broken

LineIs(s, a, b, c, e, f) ==
  /\ OrderInv(s, a, b, c, e, f)
  /\ Going(s) => QueueFlow(s, a, b, c, e, f)
  /\ Good(s) => SpeakerFlow(s, Put(s, a))

LineInv(s) == \E a, b, c \in Nat, e, f \in Marks : LineIs(s, a, b, c, e, f)

LEMMA PutIs ==
  ASSUME NEW s \in Sessions, NEW a \in Nat, NEW b \in Nat, NEW c \in Nat,
         NEW e \in Marks, NEW f \in Marks, OrderInv(s, a, b, c, e, f)
  PROVE  /\ Put(s, a) \in Nat
         /\ player[s] = "sending" => playing[s].n = Put(s, a) + 1
<1>1. player[s] \in InSink => 0 < a /\ playing[s] = Frame(a)
  BY DEF OrderInv
<1>2. Frame(a).n = a
  BY PacketsDiffer
<1> QED
  BY <1>1, <1>2 DEF Put

LEMMA QueuesNext ==
  ASSUME Types, Places, NEW s \in Sessions, [Next]_vars,
         NEW a \in Nat, NEW b \in Nat, NEW c \in Nat, NEW e \in Marks, NEW f \in Marks,
         OrderInv(s, a, b, c, e, f), Going(s) => QueueFlow(s, a, b, c, e, f)
  PROVE  \E d, g, h \in Nat, x, y \in Marks : Follows(s, a, d, g, h, x, y)
<1>0. DataType /\ FlagType /\ PipelineType /\ PlacesInv(s) /\ UncutInv(s)
  BY DEF Types, Places
<1>1. CASE StepOf(s)
  <2>1. CASE ReaderNext(s) /\ UNCHANGED audio
    BY <1>0, <2>1, FlowOfReader
  <2>2. CASE \/ OwnerOpens(s) \/ OwnerCloses(s) \/ OwnerWaits(s) \/ OwnerEnds(s)
             \/ Starts(s) \/ FreesSession(s) \/ Cancels(s)
    BY <1>0, <1>1, <2>2, FlowOfTask
  <2>3. CASE DecoderNext(s)
    BY <1>0, <2>3, FlowOfDecoder
  <2>4. CASE PlayerNext(s)
    BY <1>0, <2>4, FlowOfPlayer
  <2> QED
    BY <1>1, <2>1, <2>2, <2>3, <2>4 DEF StepOf, OwnerNext
<1>2. CASE Same(s)
  <2>1. /\ owner'[s] = owner[s] /\ read'[s] = read[s] /\ failed'[s] = failed[s]
        /\ encoded'[s] = encoded[s] /\ pcm'[s] = pcm[s]
        /\ decoder'[s] = decoder[s] /\ inhand'[s] = inhand[s]
        /\ player'[s] = player[s] /\ playing'[s] = playing[s] /\ ragged'[s] = ragged[s]
    BY <1>2 DEF Same
  <2>2. OrderInv(s, a, b, c, e, f)'
    BY <2>1 DEF OrderInv
  <2>3. Going(s)' = Going(s) /\ Put(s, a)' = Put(s, a) /\ ~Sent(s)
    BY <2>1 DEF Going, Put, Sent
  <2>5. Last(s)' = Last(s)
    BY <2>1, LastIs
  <2>4. Going(s)' => QueueFlow(s, a, b, c, e, f)'
    BY <2>1, <2>3, <2>5 DEF QueueFlow
  <2> QED
    BY <2>2, <2>3, <2>4 DEF Follows, Puts
<1>3. CASE UNCHANGED down
  BY <1>2, <1>3, Zenon DEF Same
<1>4. ASSUME NEW t \in Sessions \ {s}, StepOf(t) PROVE Same(s)
  BY <1>0, <1>4, Elsewhere
<1> QED
  BY <1>0, <1>1, <1>2, <1>3, <1>4, StepBy

LEMMA LineNext ==
  ASSUME Types, Places, OutputInv, NEW s \in Sessions, LineInv(s), [Next]_vars
  PROVE  LineInv(s)'
<1>1. PICK a \in Nat, b \in Nat, c \in Nat, e \in Marks, f \in Marks : LineIs(s, a, b, c, e, f)
  BY DEF LineInv
<1>2. PICK d \in Nat, g \in Nat, h \in Nat, x \in Marks, y \in Marks :
        Follows(s, a, d, g, h, x, y)
  BY <1>1, QueuesNext DEF LineIs
<1>3. PICK k \in Nat : k = Put(s, a)
  BY <1>1, PutIs DEF LineIs
<1>4. ASSUME Good(s)' PROVE SpeakerFlow(s, Put(s, d))'
  <2>1. Going(s)' /\ ~left' /\ ~broken'
    BY <1>4 DEF Good
  <2>2. ~left
    BY <2>1 DEF Next, MainNext, StartsPlayback, JoinsPlayback, JoinTimesOut, Detaches,
         PromptHeard, CleansUp, ReaperNext, ReaperTakes, ReaperJoins, PromptNext, SpeakerNext,
         OwnerStep, DecoderStep, PlayerStep, Others
  <2>3. SpeakerInv /\ UserInv /\ OpenInv
    BY <2>2 DEF OutputInv
  <2>4. CASE Going(s)
    <3>1. ~broken
      BY <2>1, <2>3, <2>4, BrokenStays
    <3>2. SpeakerFlow(s, k)
      BY <1>1, <1>3, <2>2, <2>4, <3>1 DEF LineIs, Good
    <3>3. player[s] = "sending" => playing[s].n = k + 1
      BY <1>1, <1>3, PutIs DEF LineIs
    <3>4. (Sent(s) => SpeakerFlow(s, k + 1)') /\ (~Sent(s) => SpeakerFlow(s, k)')
      BY <2>1, <2>3, <2>4, <3>2, <3>3, FlowOfStep
    <3>5. Put(s, d)' = IF Sent(s) THEN k + 1 ELSE k
      BY <1>2, <1>3, <2>1, <2>4 DEF Follows, Puts
    <3>6. ASSUME NEW n \in Nat, n = Put(s, d)', SpeakerFlow(s, n)' PROVE SpeakerFlow(s, Put(s, d))'
      BY <3>6 DEF SpeakerFlow
    <3> QED
      BY <3>4, <3>5, <3>6
  <2>5. CASE ~Going(s)
    <3>1. OwnerOpens(s) /\ owner'[s] = "connecting"
      <4>1. CASE StepOf(s)
        BY <2>1, <2>5, <4>1, GoingOn DEF Types, Places
      <4>2. CASE UNCHANGED down
        BY <2>1, <2>5, <4>2 DEF Going
      <4>3. ASSUME NEW t \in Sessions \ {s}, StepOf(t) PROVE FALSE
        <5>1. Same(s)
          BY <4>3, Elsewhere DEF Types
        <5> QED
          BY <2>1, <2>5, <5>1 DEF Going, Same
      <4> QED
        BY <4>1, <4>2, <4>3, StepBy DEF Types
    <3>2. Opens(s) /\ UNCHANGED player /\ player[s] = "none"
      BY <3>1 DEF OwnerOpens, Types, DataType, Places, PlacesInv
    <3>3. SpeakerFlow(s, 0)'
      BY <3>2, FlowOfOpen
    <3>4. read'[s] = 0 /\ encoded'[s] = << >> /\ pcm'[s] = << >> /\ player'[s] = "none"
      BY <3>1, <3>2 DEF OwnerOpens, Places, PlacesInv
    <3>5. Line(<< >>, d, g, y) /\ g <= h /\ Line(<< >>, h, 0, x)
      BY <1>2, <3>4 DEF Follows, OrderInv
    <3>6. h = 0
      BY <3>5, LineOfEmpty
    <3>7. d = g
      BY <3>5, LineOfEmpty
    <3>8. Put(s, d)' = 0
      BY <3>4, <3>5, <3>6, <3>7 DEF Put
    <3> QED
      BY <3>3, <3>8 DEF SpeakerFlow
  <2> QED
    BY <2>4, <2>5
<1>5. LineIs(s, d, g, h, x, y)'
  BY <1>2, <1>4 DEF LineIs, Follows
<1> QED
  BY <1>5 DEF LineInv



-----------------------------------------------------------------------------
(* What was heard                                                          *)

Told == {"publishing", "published", "suspended"}

(* A playback without an error was heard whole, and the output is closed.  *)
Whole(s) == FirstFrames(s, Last(s))

HeardInv(s) ==
  ~left /\ owner[s] \in Told /\ failed[s] = {} => heard = Whole(s) /\ ~handle

LEMMA PiecesWhole ==
  ASSUME NEW s \in Sessions, NEW q \in Seq(Written), Len(q) = Last(s), PiecesOf(q, s, 0)
  PROVE  q = Whole(s)
<1>1. Whole(s) = [i \in 1..Last(s) |-> Piece(s, i)]
  BY DEF Whole, FirstFrames, Piece
<1>2. PICK w : w = [i \in 1..Last(s) |-> Piece(s, i)]
  OBVIOUS
<1>3. Last(s) \in Nat /\ \A i \in 1..Last(s) : Piece(s, i) \in Written
  BY LastIs DEF Piece, Written
<1>4. w \in Seq(Written) /\ Len(w) = Last(s)
  BY <1>2, <1>3
<1>5. \A i \in 1..Len(q) : q[i] = w[i]
  BY <1>2, <1>3 DEF PiecesOf
<1>6. q = w
  BY <1>4, <1>5, SeqEqual
<1> QED
  BY <1>1, <1>2, <1>6

(* What was told stays true until the session is freed.                    *)
LEMMA ToldStays ==
  ASSUME Types, Places, SpeakerInv, UserInv, NEW s \in Sessions, owner[s] \in Told, ~handle,
         [Next]_vars
  PROVE  /\ UNCHANGED <<heard, handle>>
         /\ owner'[s] \in Told => failed'[s] = failed[s] /\ ragged'[s] = ragged[s]
<1> DEFINE Stays == /\ UNCHANGED <<heard, handle>>
                    /\ owner'[s] \in Told => failed'[s] = failed[s] /\ ragged'[s] = ragged[s]
<1>0. /\ owner \in [Sessions -> OwnerPlaces] /\ DataType /\ decoder[s] \in Ended
      /\ player[s] \in Ended /\ joining = s /\ main \in Joining /\ prompt = "idle"
      /\ reaper = Nobody /\ detached = << >> /\ stream = "none"
  BY DEF Types, DataType, Places, PlacesInv, UserInv, SpeakerInv, Told
<1>1. CASE MainNext
  <2>1. ~StartsPlayback /\ ~PromptHeard /\ ~CleansUp
    BY <1>0 DEF StartsPlayback, PromptHeard, CleansUp
  <2>2. CASE JoinsPlayback
    BY <1>0, <2>2 DEF JoinsPlayback, FreesSession, Told
  <2>3. CASE JoinTimesOut
    BY <2>3 DEF JoinTimesOut, Cancels
  <2>4. CASE Detaches
    BY <2>4 DEF Detaches
  <2> QED
    BY <1>1, <2>1, <2>2, <2>3, <2>4 DEF MainNext
<1>2. CASE ReaperNext \/ PromptNext
  BY <1>0, <1>2 DEF ReaperNext, ReaperTakes, ReaperJoins, PromptNext, PromptOpens, PromptCloses
<1>3. CASE SpeakerNext
  BY <1>0, <1>3 DEF SpeakerNext, StreamNext, Prebuffered, Receive, RunsDry, Flush, StreamEnds
<1>4. ASSUME NEW t \in Sessions, OwnerStep(t) PROVE Stays
  <2>1. ReaderNext(t) => owner[t] \notin Rest \cup Told
    BY DEF ReaderNext, Connects, Refused, Reads, QueueFull, ReadFails, FallsSilent, ReadsAll,
           SeesCancel, Terminates, Joins, JoinExpires, LooksAgain, DeletesDecoder,
           DeletesPlayer, Cleans, Drains, Reading, Told
  <2>2. OwnerOpens(t) \/ OwnerCloses(t) \/ OwnerWaits(t) => owner[t] \notin Rest \cup Told
    BY DEF OwnerOpens, OwnerCloses, OwnerWaits, Told
  <2>3. owner[t] \in Rest \cup Told
    BY <1>0, <2>2 DEF UserInv, Told
  <2>4. OwnerEnds(t)
    BY <1>4, <2>1, <2>2, <2>3 DEF OwnerStep, OwnerNext
  <2> QED
    BY <2>4 DEF OwnerEnds
<1>6. ASSUME NEW t \in Sessions, DecoderStep(t) \/ PlayerStep(t) PROVE Stays
  <2>1. owner[t] \in Rest \cup Told
    BY <1>0 DEF UserInv, Told
  <2>2. decoder[t] \in Ended /\ player[t] \in Ended
    BY <1>0, <2>1 DEF Places, PlacesInv, Told
  <2>3. CASE DecoderStep(t)
    <3>1. DecoderEnds(t)
      BY <2>2, <2>3 DEF DecoderStep, DecoderNext, Decodes, Enqueues, DecodeFails, Forwards
    <3> QED
      BY <1>0, <2>3, <3>1, Ending DEF DecoderStep
  <2>4. CASE PlayerStep(t)
    <3>1. PlayerEnds(t) /\ UNCHANGED audio
      BY <2>2, <2>4 DEF PlayerStep, PlayerNext, Takes, SinkEnters, SinkSends, SinkCounts, SinkFails
    <3> QED
      BY <1>0, <3>1, Ending
  <2> QED
    BY <1>6, <2>3, <2>4
<1>5. CASE UNCHANGED vars
  BY <1>5
<1> QED
  BY <1>1, <1>2, <1>3, <1>4, <1>5, <1>6 DEF Next

(* Where it is told: at the end of a close, with nothing left on the way.  *)
LEMMA ToldWhole ==
  ASSUME Types, SpeakerInv, NEW s \in Sessions, LineInv(s), ~left, ~broken, failed[s] = {},
         owner[s] = "closing", CloseDone(s)
  PROVE  heard' = Whole(s) /\ ~handle'
<1>0. /\ OutputType /\ heard \in Seq(Written) /\ (closing[s] # "no" \/ ~handle)
      /\ Len(heard) \in Nat /\ s \in Users
  BY UserIs DEF Types, OutputType, CloseDone
<1>1. PICK a \in Nat, b \in Nat, c \in Nat, e \in Marks, f \in Marks : LineIs(s, a, b, c, e, f)
  BY DEF LineInv
<1>2. QueueFlow(s, a, b, c, e, f) /\ SpeakerFlow(s, Put(s, a))
  BY <1>1 DEF LineIs, Good, Going
<1>3. a = Last(s) /\ Put(s, a) = Last(s)
  BY <1>2 DEF QueueFlow, Put
<1>4. Len(heard) = Last(s) /\ PiecesOf(heard, s, 0)
  <2>1. CASE handle
    <3>1. closing[s] = "deleted" /\ stream = "none"
      BY <1>0, <2>1 DEF CloseDone, SpeakerInv
    <3>2. scratch = << >> /\ ring.items = << >>
      BY <1>2, <2>1, <3>1 DEF SpeakerFlow
    <3>3. Last(s) = Len(heard) + Len(scratch) + Len(ring.items) /\ PiecesOf(heard, s, 0)
      BY <1>2, <1>3, <2>1 DEF SpeakerFlow
    <3>4. Len(scratch) = 0 /\ Len(ring.items) = 0
      BY <3>2
    <3> QED
      BY <1>0, <3>3, <3>4
  <2>2. CASE ~handle
    <3>1. Last(s) = 0 /\ heard = << >>
      BY <1>2, <1>3, <2>2 DEF SpeakerFlow
    <3> QED
      BY <3>1 DEF PiecesOf
  <2> QED
    BY <2>1, <2>2
<1>5. heard = Whole(s)
  BY <1>0, <1>4, PiecesWhole
<1>6. heard' = heard /\ ~handle'
  BY DEF CloseDone, Closes
<1> QED
  BY <1>5, <1>6

LEMMA HeardNext ==
  ASSUME Types, Places, OutputInv, NEW s \in Sessions, LineInv(s), HeardInv(s), [Next]_vars
  PROVE  HeardInv(s)'
<1> SUFFICES ASSUME ~left', owner'[s] \in Told, failed'[s] = {}
             PROVE  heard' = Whole(s)' /\ ~handle'
  BY DEF HeardInv
<1>6. ragged'[s] = ragged[s] => Whole(s)' = Whole(s)
  BY LastIs DEF Whole, FirstFrames
<1>1. ~left
  BY DEF Next, MainNext, StartsPlayback, JoinsPlayback, JoinTimesOut, Detaches,
         PromptHeard, CleansUp, ReaperNext, ReaperTakes, ReaperJoins, PromptNext, SpeakerNext,
         OwnerStep, DecoderStep, PlayerStep, Others
<1>2. SpeakerInv /\ UserInv /\ OpenInv
  BY <1>1 DEF OutputInv
<1>3. /\ owner \in [Sessions -> OwnerPlaces] /\ DataType /\ FlagType /\ PipelineType
      /\ failed \in [Sessions -> SUBSET {"stream", "tasks"}]
  BY DEF Types, DataType
<1>4. CASE owner[s] \in Told
  <2>1. CASE failed[s] = {}
    <3>1. heard = Whole(s) /\ ~handle
      BY <1>1, <1>4, <2>1 DEF HeardInv
    <3>2. UNCHANGED <<heard, handle>> /\ Whole(s)' = Whole(s)
      BY <1>2, <1>4, <1>6, <3>1, ToldStays
    <3> QED
      BY <3>1, <3>2
  <2>2. CASE failed[s] # {}
    <3>1. ASSUME StepOf(s) PROVE failed'[s] # {}
      <4>1. CASE OwnerNext(s)
        BY <1>3, <1>4, <2>2, <4>1 DEF Told, OwnerNext, ReaderNext, Connects, Refused, Reads,
           QueueFull, ReadFails, FallsSilent, ReadsAll, SeesCancel, Terminates, Joins, JoinExpires,
           LooksAgain, DeletesDecoder, DeletesPlayer, Cleans, Drains, Reading, OwnerOpens,
           OwnerCloses, OwnerWaits, OwnerEnds
      <4>2. CASE DecoderNext(s) \/ PlayerNext(s)
        BY <1>3, <2>2, <4>2 DEF DecoderNext, Decodes, Enqueues, DecodeFails, Forwards, DecoderEnds,
           PlayerNext, Takes, SinkEnters, SinkSends, SinkCounts, SinkFails, PlayerEnds
      <4>3. CASE Starts(s) \/ FreesSession(s) \/ Cancels(s)
        BY <1>3, <1>4, <2>2, <4>3 DEF Starts, FreesSession, Cancels, Told
      <4> QED
        BY <3>1, <4>1, <4>2, <4>3 DEF StepOf
    <3>2. ASSUME NEW t \in Sessions \ {s}, StepOf(t) PROVE failed'[s] # {}
      BY <1>3, <2>2, <3>2, Elsewhere DEF Same
    <3> QED
      BY <1>3, <2>2, <3>1, <3>2, StepBy
  <2> QED
    BY <2>1, <2>2
<1>5. CASE owner[s] \notin Told
  <2>1. StepOf(s)
    <3>1. ASSUME NEW t \in Sessions \ {s}, StepOf(t) PROVE FALSE
      BY <1>3, <1>5, <3>1, Elsewhere DEF Same
    <3> QED
      BY <1>3, <1>5, <3>1, StepBy
  <2>2. /\ OwnerCloses(s) /\ CloseDone(s) /\ ~broken /\ failed[s] = {} /\ owner[s] = "closing"
        /\ Whole(s)' = Whole(s)
    <3>1. ~ReaderNext(s)
      BY <1>3, <1>5 DEF Told, ReaderNext, Connects, Refused, Reads, QueueFull, ReadFails,
         FallsSilent, ReadsAll, SeesCancel, Terminates, Joins, JoinExpires,
         LooksAgain, LooksAtPlayer, DeletesDecoder, DeletesPlayer, Cleans, Drains, Reading
    <3>2. ~DecoderNext(s) /\ ~PlayerNext(s)
      BY <1>5 DEF DecoderNext, Decodes, Enqueues, DecodeFails, Forwards, DecoderEnds,
         PlayerNext, Takes, SinkEnters, SinkSends, SinkCounts, SinkFails, PlayerEnds
    <3>3. ~Starts(s) /\ ~FreesSession(s) /\ ~Cancels(s) /\ ~OwnerEnds(s)
      BY <1>3, <1>5 DEF Starts, FreesSession, Cancels, OwnerEnds, Told, Ends
    <3>4. ~OwnerOpens(s) /\ ~OwnerWaits(s)
      BY <1>3, <1>5 DEF OwnerOpens, OwnerWaits, Told
    <3>5. OwnerCloses(s)
      BY <2>1, <3>1, <3>2, <3>3, <3>4 DEF StepOf, OwnerNext
    <3>6. CloseDone(s) /\ owner[s] = "closing"
      BY <1>5, <3>5 DEF OwnerCloses
    <3>7. ~broken /\ failed' = failed
      <4>1. IF broken THEN Fails(s, "stream") ELSE failed' = failed
        BY <1>5, <3>5 DEF OwnerCloses
      <4>2. ~Fails(s, "stream")
        BY <1>3
      <4> QED
        BY <4>1, <4>2
    <3>8. Whole(s)' = Whole(s)
      BY <1>6, <3>5 DEF OwnerCloses
    <3> QED
      BY <3>5, <3>6, <3>7, <3>8
  <2> QED
    BY <1>1, <1>2, <2>2, ToldWhole
<1> QED
  BY <1>4, <1>5



-----------------------------------------------------------------------------
(* The inductive invariant                                                 *)

LEMMA MemoryNext ==
  ASSUME Types, Places, NEW s \in Sessions, LineInv(s), MemoryInv(s), [Next]_vars
  PROVE  MemoryInv(s)'
<1>0. DataType /\ FlagType /\ PipelineType /\ PlacesInv(s)
  BY DEF Types, Places
<1>1. PICK a \in Nat, b \in Nat, c \in Nat, e \in Marks, f \in Marks : OrderInv(s, a, b, c, e, f)
  BY DEF LineInv, LineIs
<1>2. ASSUME /\ encoded'[s] = encoded[s] /\ inhand'[s] = inhand[s] /\ pcm'[s] = pcm[s]
             /\ playing'[s] = playing[s] /\ memory'[s] = memory[s]
      PROVE  MemoryInv(s)'
  <2>1. ToDecode(s)' = ToDecode(s) /\ ToPlay(s)' = ToPlay(s)
    BY <1>2 DEF ToDecode, ToPlay
  <2> QED
    BY <1>2, <2>1, MemorySame
<1>3. CASE StepOf(s)
  <2>1. CASE ReaderNext(s) \/ Starts(s)
    BY <1>0, <1>1, <2>1, MemoryOfOwner
  <2>2. CASE DecoderNext(s)
    BY <1>0, <1>1, <2>2, MemoryOfDecoder
  <2>3. CASE PlayerNext(s)
    BY <1>0, <1>1, <2>3, MemoryOfPlayer
  <2>4. CASE \/ OwnerOpens(s) \/ OwnerCloses(s) \/ OwnerWaits(s) \/ OwnerEnds(s)
             \/ FreesSession(s) \/ Cancels(s)
    <3>1. UNCHANGED <<encoded, inhand, pcm, playing, memory>>
      BY <2>4 DEF OwnerOpens, OwnerCloses, OwnerWaits, OwnerEnds, FreesSession, Cancels
    <3> QED
      BY <1>2, <3>1
  <2> QED
    BY <1>3, <2>1, <2>2, <2>3, <2>4 DEF StepOf, OwnerNext
<1>4. CASE UNCHANGED down
  BY <1>2, <1>4
<1>5. ASSUME NEW t \in Sessions \ {s}, StepOf(t) PROVE MemoryInv(s)'
  <2>1. Same(s)
    BY <1>0, <1>5, Elsewhere
  <2> QED
    BY <1>2, <2>1 DEF Same
<1> QED
  BY <1>0, <1>3, <1>4, <1>5, StepBy

LEMMA AllPlacesNext ==
  ASSUME Types, Places, [Next]_vars
  PROVE  Places'
<1> SUFFICES ASSUME NEW s \in Sessions PROVE PlacesInv(s)' /\ UncutInv(s)'
  BY DEF Places
<1>0. DataType /\ FlagType /\ PipelineType /\ PlacesInv(s) /\ UncutInv(s)
  BY DEF Types, Places
<1>1. CASE StepOf(s)
  BY <1>0, <1>1, PlacesNext, UncutNext
<1>2. CASE UNCHANGED down
  BY <1>0, <1>2 DEF PlacesInv, UncutInv
<1>3. ASSUME NEW t \in Sessions \ {s}, StepOf(t) PROVE PlacesInv(s)' /\ UncutInv(s)'
  <2>1. Same(s)
    BY <1>0, <1>3, Elsewhere
  <2> QED
    BY <1>0, <2>1 DEF Same, PlacesInv, UncutInv
<1> QED
  BY <1>0, <1>1, <1>2, <1>3, StepBy

SessionInv(s) == LineInv(s) /\ MemoryInv(s) /\ HeardInv(s)

PlaybackInv == Types /\ Places /\ OutputInv /\ \A s \in Sessions : SessionInv(s)

LEMMA InvInit == Init => PlaybackInv
<1> SUFFICES ASSUME Init PROVE PlaybackInv
  OBVIOUS
<1>1. Types
  BY TypesInit
<1>2. /\ closing = [u \in Users |-> "no"] /\ stream = "none" /\ ~handle /\ ~started /\ ~crashed
      /\ detached = << >> /\ reaper = Nobody /\ main = "idle" /\ prompt = "idle"
      /\ owner = [s \in Sessions |-> "none"] /\ player = [s \in Sessions |-> "none"]
      /\ decoder = [s \in Sessions |-> "none"] /\ read = [s \in Sessions |-> 0]
      /\ failed = [s \in Sessions |-> {}] /\ memory = [s \in Sessions |-> {}]
      /\ encoded = [s \in Sessions |-> << >>] /\ pcm = [s \in Sessions |-> << >>]
      /\ inhand = [s \in Sessions |-> Nothing] /\ playing = [s \in Sessions |-> Nothing]
      /\ ragged = [s \in Sessions |-> FALSE]
  BY DEF Init, AudioInit, DownInit
<1>3. Places
  BY <1>2, FrameAssumption DEF Places, PlacesInv, UncutInv
<1>4. OutputInv
  <2>1. \A u \in Users : closing[u] = "no"
    BY <1>2
  <2>2. CloserInv /\ SpeakerInv
    BY <1>2, <2>1, UserIs DEF CloserInv, SpeakerInv
  <2>3. UserInv
    BY <1>2, <2>1, UserIs DEF UserInv
  <2>4. OpenInv
    BY <1>2 DEF OpenInv
  <2> QED
    BY <2>2, <2>3, <2>4 DEF OutputInv
<1>5. ASSUME NEW s \in Sessions PROVE SessionInv(s)
  <2>0. /\ owner[s] = "none" /\ player[s] = "none" /\ decoder[s] = "none" /\ read[s] = 0
        /\ encoded[s] = << >> /\ pcm[s] = << >> /\ inhand[s] = Nothing /\ playing[s] = Nothing
        /\ memory[s] = {}
    BY <1>2
  <2>1. OrderInv(s, 0, 0, 0, Nothing, Nothing)
    <3>1. Line(<< >>, 0, 0, Nothing)
      BY LineEmpty
    <3> QED
      BY <2>0, <3>1 DEF OrderInv
  <2>2. ~Going(s) /\ Nothing \in Marks
    BY <2>0 DEF Going, Marks
  <2>3. LineInv(s)
    BY <2>1, <2>2 DEF LineInv, LineIs, Good
  <2>4. MemoryInv(s)
    <3>1. ToDecode(s) = {} /\ ToPlay(s) = {}
      BY <2>0, <2>2, HandIs, ItemsEmpty DEF ToDecode, ToPlay
    <3> QED
      BY <2>0, <3>1, HeldNothing DEF MemoryInv
  <2>5. HeardInv(s)
    BY <2>0 DEF HeardInv, Told
  <2> QED
    BY <2>3, <2>4, <2>5 DEF SessionInv
<1> QED
  BY <1>1, <1>3, <1>4, <1>5 DEF PlaybackInv

LEMMA InvNext == PlaybackInv /\ [Next]_vars => PlaybackInv'
<1> SUFFICES ASSUME PlaybackInv, [Next]_vars PROVE PlaybackInv'
  OBVIOUS
<1>0. Types /\ Places /\ OutputInv
  BY DEF PlaybackInv
<1>1. Types' /\ Places' /\ OutputInv'
  BY <1>0, TypesNext, AllPlacesNext, OutputNext
<1>2. ASSUME NEW s \in Sessions PROVE SessionInv(s)'
  <2>1. LineInv(s) /\ MemoryInv(s) /\ HeardInv(s)
    BY DEF PlaybackInv, SessionInv
  <2>2. LineInv(s)'
    BY <1>0, <1>1, <2>1, LineNext
  <2>3. MemoryInv(s)'
    BY <1>0, <2>1, MemoryNext
  <2>4. HeardInv(s)'
    BY <1>0, <2>1, HeardNext
  <2> QED
    BY <2>2, <2>3, <2>4 DEF SessionInv
<1> QED
  BY <1>1, <1>2 DEF PlaybackInv


LEMMA WaitsToldWhole ==
  PlaybackInv /\ [Next]_vars =>
    [~left /\ main \in {"joining", "rejoining"} /\ main' = "waiting" /\ ~said'
       => heard = FirstFrames(joining, IF ragged[joining] THEN Frames[joining] - 1
                                                          ELSE Frames[joining])]_vars
<1> SUFFICES ASSUME PlaybackInv, [Next]_vars,
                    ~left, main \in {"joining", "rejoining"}, main' = "waiting", ~said'
             PROVE  heard = Whole(joining)
  BY DEF Whole, Last
<1>1. JoinsPlayback
  BY DEF Next, MainNext, StartsPlayback, JoinTimesOut, Detaches, PromptHeard, CleansUp,
         ReaperNext, ReaperTakes, ReaperJoins, PromptNext, SpeakerNext, OwnerStep, DecoderStep,
         PlayerStep, Others
<1>2. joining \in Sessions
  BY DEF PlaybackInv, Types, PipelineType
<1>3. owner[joining] = "suspended"
  BY <1>1 DEF JoinsPlayback, FreesSession
<1>4. failed[joining] = {}
  <2>1. said' = (failed[joining] # {})
    BY <1>1 DEF JoinsPlayback, Says
  <2> QED
    BY <2>1
<1>5. HeardInv(joining)
  BY <1>2 DEF PlaybackInv, SessionInv
<1> QED
  BY <1>3, <1>4, <1>5 DEF HeardInv, Told

-----------------------------------------------------------------------------
(* What is true of every reachable state of the playback: places, queues,  *)
(* what is allocated, the users of the output, and the frames on the way.  *)
(* (playback_session.c, cloud_client.c:1080-1490 and 2738-3137, audio_out.c) *)
THEOREM Invariant == Spec => []PlaybackInv
BY InvInit, InvNext, PTL DEF Spec

(* The queues, the tasks and the flags of a session stay within their      *)
(* types and their lengths (DEMO_REALTIME_AUDIO_ENCODED_QUEUE_LENGTH and   *)
(* DEMO_REALTIME_AUDIO_PCM_QUEUE_LENGTH of config.h).                      *)
THEOREM QueuesBounded == Spec => [](DownType /\ PlaybackType)
<1>1. PlaybackInv => DownType /\ PlaybackType
  BY DownTypeIs DEF PlaybackInv, Types, PipelineType
<1> QED
  BY <1>1, Invariant, PTL

(* The session's task, the arbiter's and the pipeline's never use the      *)
(* output together unless a playback was given up, although none of them   *)
(* asks whether another does. (audio_out.c, main.c, run_v6_conversation)   *)
THEOREM OneUser == Spec => []SpeakerHasOneUser
<1>1. PlaybackInv => SpeakerHasOneUser
  <2> SUFFICES ASSUME PlaybackInv, ~left
               PROVE  ~crashed /\ \A u, v \in UsingSpeaker : u = v
    BY DEF SpeakerHasOneUser
  <2>1. SpeakerInv /\ UserInv
    BY DEF PlaybackInv, OutputInv
  <2>2. ~crashed
    BY <2>1 DEF SpeakerInv
  <2>3. ASSUME NEW u \in UsingSpeaker, NEW v \in UsingSpeaker PROVE u = v
    BY <2>1, <2>3 DEF UserInv, UsingSpeaker
  <2> QED
    BY <2>2, <2>3
<1> QED
  BY <1>1, Invariant, PTL

(* Whatever fails where, each packet is freed once, by who took it out of  *)
(* a queue or with the task that held it. Once the session's task has left *)
(* the stack frame that it shares with its helpers, each of them has       *)
(* published its end and has at most its handle left to clear, and the     *)
(* queues are empty. The jitter buffer outlives the stream task and every  *)
(* write into it, unless a playback was given up.                          *)
(* (cloud_client.c:1422-1426, 1482-1486 and 3054-3137)                     *)
THEOREM NotFreedInUse == Spec => []NothingFreedInUse
<1>1. PlaybackInv => NothingFreedInUse
  <2> SUFFICES ASSUME PlaybackInv PROVE NothingFreedInUse
    OBVIOUS
  <2>1. PacketsFreedOnce
    <3> SUFFICES ASSUME NEW s \in Sessions
                 PROVE  memory[s] = Queued(s)
                          \cup {InEncoded(p) : p \in {inhand[s]} \ {Nothing, Eof, Error}}
                          \cup {InPcm(p) : p \in {playing[s]} \ {Nothing}}
      BY DEF PacketsFreedOnce, DecoderHolds, PlayerHolds
    <3>1. memory[s] = Held(ToDecode(s), ToPlay(s))
      BY DEF PlaybackInv, SessionInv, MemoryInv
    <3>2. {InEncoded(p) : p \in ToDecode(s)}
            = {InEncoded(encoded[s][i]) : i \in DOMAIN encoded[s]}
                \cup {InEncoded(p) : p \in {inhand[s]} \ {Nothing, Eof, Error}}
      BY Zenon DEF ToDecode, Items, Marks
    <3>3. {InPcm(p) : p \in ToPlay(s)}
            = {InPcm(pcm[s][i]) : i \in DOMAIN pcm[s]}
                \cup {InPcm(p) : p \in {playing[s]} \ {Nothing}}
      BY Zenon DEF ToPlay, Items
    <3> QED
      BY <3>1, <3>2, <3>3, Zenon DEF Held, Queued
  <2>2. ASSUME NEW s \in Sessions, FrameLeft(s), owner[s] # "gone"
        PROVE  /\ \A place \in {decoder[s], player[s]} : place = "none" \/ Published(place)
               /\ encoded[s] = << >> /\ pcm[s] = << >>
               /\ owner[s] = "freed" => closing[s] = "no"
    BY <2>2 DEF FrameLeft, Published, PlaybackInv, Places, PlacesInv, OutputInv, CloserInv
  <2>3. ~left /\ stream \in {"prebuffering", "receiving"} => ring.there
    BY DEF PlaybackInv, OutputInv, SpeakerInv
  <2>4. \A s \in Sessions : ~left /\ player[s] = "sending" => ring.there
    BY DEF PlaybackInv, OutputInv, OpenInv
  <2> QED
    BY <2>1, <2>2, <2>3, <2>4 DEF NothingFreedInUse
<1> QED
  BY <1>1, Invariant, PTL

(* When the conversation is told that the answer was played, the codec got *)
(* its frames, once and in order: every one, or every one but the last if  *)
(* that was found to end within an Opus packet, which cloud_client.c:3103  *)
(* means to be told as an error and is not. (playback_session_join; main.c *)
(* run_v6_conversation)                                                    *)
THEOREM ToldMeansHeard == Spec => HeardWhole
BY WaitsToldWhole, Invariant, PTL DEF Spec, HeardWhole
=============================================================================
