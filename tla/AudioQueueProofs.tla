-------------------------- MODULE AudioQueueProofs ---------------------------
(***************************************************************************)
(* Proofs about AudioQueue, for every capacity, chunk size, number of      *)
(* chunks, set of readers and set of provider hooks.                       *)
(***************************************************************************)
EXTENDS AudioQueue, SequenceTheorems, TLAPS

USE DEF vars, data, hooks, prod, history

(* Taking the head off the buffered chunks and putting it behind the       *)
(* delivered ones leaves their concatenation as it was.                    *)
LEMMA HeadMoves ==
  ASSUME NEW S, NEW d \in Seq(S), NEW c \in Seq(S), c # << >>
  PROVE  /\ Append(d, Head(c)) \o Tail(c) = d \o c
         /\ Len(d) < Len(d \o c)
         /\ (d \o c)[Len(d) + 1] = Head(c)
  OBVIOUS

(* Appending to the buffered chunks appends to the whole.                  *)
LEMMA AppendMoves ==
  ASSUME NEW S, NEW d \in Seq(S), NEW c \in Seq(S), NEW e \in S
  PROVE  d \o Append(c, e) = Append(d \o c, e)
  OBVIOUS

(* The size of a chunk is a number of bytes.                               *)
LEMMA ChunkSize == ASSUME NEW c \in Chunk PROVE c.size \in Nat
  BY SizesAssumption DEF Chunk

(* QueueInv holds initially.                                               *)
LEMMA InitInv == Init => QueueInv
<1> SUFFICES ASSUME Init PROVE QueueInv
  OBVIOUS
<1> USE DEF Init
<1>1. TypeOK
  <2>1. QueueType
    BY DEF QueueType
  <2>2. HooksType
    BY DEF HooksType
  <2>3. WorkerType
    BY MaxPutsAssumption DEF WorkerType
  <2>4. ThreadsType
    BY DEF ThreadsType
  <2>5. FlagsType
    BY Zenon DEF FlagsType
  <2> QED
    BY <2>1, <2>2, <2>3, <2>4, <2>5 DEF TypeOK
<1>2. RoomIsKept /\ EndedInv /\ HooksInv
  BY DEF RoomIsKept, EndedInv, HooksInv
<1>3. Phases
  BY MaxBytesAssumption DEF Phases
<1>4. InOrder
  BY DEF InOrder
<1> QED
  BY <1>1, <1>2, <1>3, <1>4 DEF QueueInv

(* What the worker offers next is a chunk.                                 *)
LEMMA NextChunkType ==
  ASSUME WorkerType, offers < MaxPuts, NEW n \in Sizes
  PROVE  NextChunk(n) \in Chunk /\ offers + 1 \in 0..MaxPuts
  BY MaxPutsAssumption DEF WorkerType, NextChunk, Chunk

(* The worker's steps keep the worker's variables in their types.          *)
LEMMA WorkerTypeStep == WorkerType /\ [Next]_vars => WorkerType'
<1> SUFFICES ASSUME WorkerType, [Next]_vars PROVE WorkerType'
  OBVIOUS
<1>1. ASSUME NEW n \in Sizes, PutEnter(n) PROVE WorkerType'
  <2>1. NextChunk(n) \in Chunk /\ offers + 1 \in 0..MaxPuts
    BY <1>1, NextChunkType DEF PutEnter
  <2> QED
    BY <1>1, <2>1 DEF PutEnter, Room, WorkerType
<1>2. CASE PutWake
  BY <1>2 DEF PutWake, Room, WorkerType
<1>3. CASE PutAdmit
  BY <1>3 DEF PutAdmit, WorkerType
<1>4. CASE PutAppend \/ Finish
  BY <1>4 DEF PutAppend, Finish, WorkerType
<1>5. CASE UNCHANGED prod
  BY <1>5 DEF WorkerType
<1> QED
  BY <1>1, <1>2, <1>3, <1>4, <1>5
     DEF Next, Worker, AddCloseHook, CallHook, ReaderOpens, Get, GetChunk, GetNothing,
         ReaderLeaves, Waiter, WaitFirst, WaitExpires, Canceller, SetCancelEvent, Revoke,
         CloseProviders, Join, JoinTimesOut

(* Every step keeps the queue and its history in their types.              *)
LEMMA QueueTypeStep == QueueType /\ RoomIsKept /\ [Next]_vars => QueueType'
<1> SUFFICES ASSUME QueueType, RoomIsKept, [Next]_vars PROVE QueueType'
  OBVIOUS
<1> USE DEF QueueType
<1>1. CASE PutAppend
  <2>1. offered \in Chunk
    BY <1>1 DEF PutAppend, RoomIsKept
  <2>2. offered.size \in Int
    BY <2>1, ChunkSize
  <2>3. chunks' \in Seq(Chunk) /\ published' \in Seq(Chunk) /\ delivered' \in Seq(Chunk)
    <3>1. /\ chunks' = Append(chunks, offered) /\ published' = Append(published, offered)
          /\ delivered' = delivered
      BY <1>1 DEF PutAppend
    <3> QED
      BY <2>1, <3>1
  <2>4. byte_count' \in Int
    BY <1>1, <2>2 DEF PutAppend
  <2> QED
    BY <2>3, <2>4
<1>2. ASSUME NEW r \in Readers, GetChunk(r) PROVE QueueType'
  <2>1. Head(chunks) \in Chunk /\ Tail(chunks) \in Seq(Chunk)
    BY <1>2 DEF GetChunk
  <2>2. Head(chunks).size \in Int
    BY <2>1, ChunkSize
  <2>3. chunks' \in Seq(Chunk) /\ published' \in Seq(Chunk) /\ delivered' \in Seq(Chunk)
    <3>1. /\ chunks' = Tail(chunks) /\ delivered' = Append(delivered, Head(chunks))
          /\ published' = published
      BY <1>2 DEF GetChunk
    <3> QED
      BY <2>1, <3>1
  <2>4. byte_count' \in Int
    BY <1>2, <2>2 DEF GetChunk
  <2> QED
    BY <2>3, <2>4
<1>3. CASE Revoke
  <2>1. chunks' = << >> /\ byte_count' = 0 /\ UNCHANGED history
    BY <1>3 DEF Revoke
  <2>2. << >> \in Seq(Chunk)
    OBVIOUS
  <2> QED
    BY <2>1, <2>2
<1>4. CASE UNCHANGED <<chunks, byte_count, history>>
  BY <1>4
<1> QED
  BY <1>1, <1>2, <1>3, <1>4
     DEF Next, Worker, PutEnter, PutWake, PutAdmit, Finish, AddCloseHook, CallHook,
         ReaderOpens, Get, GetNothing, ReaderLeaves, Waiter, WaitFirst, WaitExpires, Canceller,
         SetCancelEvent, CloseProviders, Join, JoinTimesOut

(* Flags are set by the worker's end and by the cancellation only.         *)
LEMMA FlagsTypeStep == FlagsType /\ [Next]_vars => FlagsType'
<1> SUFFICES ASSUME FlagsType, [Next]_vars PROVE FlagsType'
  OBVIOUS
<1> USE DEF FlagsType
<1>1. CASE PutAppend
  BY <1>1, Zenon DEF PutAppend
<1>2. CASE Finish
  BY <1>2, Zenon DEF Finish
<1>3. CASE SetCancelEvent
  BY <1>3, Zenon DEF SetCancelEvent
<1>4. CASE Revoke
  BY <1>4, Zenon DEF Revoke
<1>5. CASE CloseProviders
  BY <1>5, Zenon DEF CloseProviders
<1>6. CASE UNCHANGED <<cancel_event, has_published_audio, finished, revoked,
                       close_hooks_called>>
  BY <1>6, Zenon
<1> QED
  BY <1>1, <1>2, <1>3, <1>4, <1>5, <1>6
     DEF Next, Worker, PutEnter, PutWake, PutAdmit, AddCloseHook, CallHook, ReaderOpens, Get,
         GetChunk, GetNothing, ReaderLeaves, Waiter, WaitFirst, WaitExpires, Canceller,
         Join, JoinTimesOut

(* Threads move between their program points.                              *)
LEMMA ThreadsTypeStep == ThreadsType /\ [Next]_vars => ThreadsType'
<1> SUFFICES ASSUME ThreadsType, [Next]_vars PROVE ThreadsType'
  OBVIOUS
<1> USE DEF ThreadsType
<1>1. CASE NotifyAll /\ canceller' \in {canceller, "revoked"}
  BY <1>1 DEF NotifyAll, Notified
<1>2. ASSUME NEW r \in Readers, ReaderOpens(r) \/ GetNothing(r) \/ ReaderLeaves(r)
      PROVE  ThreadsType'
  BY <1>2 DEF ReaderOpens, GetNothing, ReaderLeaves
<1>3. ASSUME NEW r \in Readers, GetChunk(r) PROVE ThreadsType'
  BY <1>3 DEF GetChunk, Notified
<1>4. CASE Waiter
  BY <1>4 DEF Waiter, WaitFirst, WaitExpires
<1>5. CASE SetCancelEvent \/ CloseProviders \/ Join \/ JoinTimesOut
  BY <1>5 DEF SetCancelEvent, CloseProviders, Join, JoinTimesOut
<1>6. CASE UNCHANGED <<reader, waiter, canceller>>
  BY <1>6
<1>7. CASE PutAppend \/ Finish \/ Revoke
  BY <1>1, <1>6, <1>7 DEF PutAppend, Finish, Revoke
<1> QED
  BY <1>2, <1>3, <1>4, <1>5, <1>6, <1>7
     DEF Next, Worker, PutEnter, PutWake, PutAdmit, AddCloseHook, CallHook, Get, Canceller

(* A hook is registered once, taken once and called once.                  *)
LEMMA HooksStep ==
  HooksType /\ HooksInv /\ [Next]_vars => HooksType' /\ HooksInv'
<1> SUFFICES ASSUME HooksType, HooksInv, [Next]_vars PROVE HooksType' /\ HooksInv'
  OBVIOUS
<1> USE DEF HooksType, HooksInv
<1>1. CASE CloseProviders
  BY <1>1 DEF CloseProviders
<1>2. ASSUME NEW h \in Hooks, AddCloseHook(h) PROVE HooksType' /\ HooksInv'
  BY <1>2 DEF AddCloseHook, NewHook
<1>3. ASSUME NEW h \in Hooks, CallHook(h) PROVE HooksType' /\ HooksInv'
  BY <1>3 DEF CallHook
<1>4. CASE UNCHANGED hooks
  BY <1>4
<1> QED
  BY <1>1, <1>2, <1>3, <1>4
     DEF Next, Worker, PutEnter, PutWake, PutAdmit, PutAppend, Finish, ReaderOpens, Get,
         GetChunk, GetNothing, ReaderLeaves, Waiter, WaitFirst, WaitExpires, Canceller,
         SetCancelEvent, Revoke, Join, JoinTimesOut

(* put() keeps the lock from the moment it found room until it appends: no *)
(* reader, canceller or finish() comes in between.                         *)
LEMMA RoomStep == WorkerType /\ RoomIsKept /\ [Next]_vars => RoomIsKept'
<1> SUFFICES ASSUME WorkerType, RoomIsKept, [Next]_vars PROVE RoomIsKept'
  OBVIOUS
<1> USE DEF RoomIsKept
<1>1. ASSUME NEW n \in Sizes, PutEnter(n) PROVE RoomIsKept'
  <2>1. NextChunk(n) \in Chunk
    BY <1>1, NextChunkType DEF PutEnter
  <2>2. CASE ~Cancelled /\ n \in 1..MaxBytes
    <3>1. offered' = NextChunk(n)
      BY <1>1, <2>2 DEF PutEnter
    <3>2. producer' = Room(NextChunk(n)) \/ producer' \in {"ready", "oversized"}
      BY <1>1, <2>2 DEF PutEnter
    <3> QED
      BY <1>1, <2>1, <3>1, <3>2 DEF PutEnter, Room, Fits
  <2>3. CASE ~(~Cancelled /\ n \in 1..MaxBytes)
    <3>1. producer' \in {"cancelled", "ready", "oversized"}
      BY <1>1, <2>3, SizesAssumption, MaxBytesAssumption DEF PutEnter
    <3> QED
      BY <3>1
  <2> QED
    BY <2>2, <2>3
<1>2. CASE PutWake
  BY <1>2 DEF PutWake, Room, Fits
<1>3. CASE PutAdmit
  BY <1>3 DEF PutAdmit, Cancelled, Fits
<1>4. CASE PutAppend \/ Finish
  BY <1>4 DEF PutAppend, Finish
<1>5. ASSUME NEW r \in Readers, GetChunk(r) PROVE RoomIsKept'
  BY <1>5 DEF GetChunk, Unlocked
<1>6. CASE Revoke
  BY <1>6 DEF Revoke, Unlocked
<1>7. CASE UNCHANGED <<data, prod>>
  BY <1>7 DEF Fits
<1> QED
  BY <1>1, <1>2, <1>3, <1>4, <1>5, <1>6, <1>7
     DEF Next, Worker, AddCloseHook, CallHook, ReaderOpens, Get, GetNothing, ReaderLeaves,
         Waiter, WaitFirst, WaitExpires, Canceller, SetCancelEvent, CloseProviders, Join,
         JoinTimesOut

(* The byte count stays within the capacity, and a revoked queue empty.    *)
LEMMA PhasesStep ==
  QueueType /\ RoomIsKept /\ Phases /\ [Next]_vars => Phases'
<1> SUFFICES ASSUME QueueType, RoomIsKept, Phases, [Next]_vars PROVE Phases'
  OBVIOUS
<1> USE DEF Phases
<1>1. CASE PutAppend
  <2>1. offered \in Chunk /\ ~revoked /\ byte_count + offered.size <= MaxBytes
    BY <1>1 DEF PutAppend, RoomIsKept, Fits
  <2> QED
    BY <1>1, <2>1 DEF PutAppend
<1>2. ASSUME NEW r \in Readers, GetChunk(r) PROVE Phases'
  <2>1. chunks # << >> /\ ~revoked
    BY <1>2 DEF GetChunk
  <2>2. Head(chunks) \in Chunk
    BY <2>1 DEF QueueType
  <2>3. byte_count' <= MaxBytes
    <3>1. byte_count' = byte_count - Head(chunks).size
      BY <1>2 DEF GetChunk
    <3> QED
      BY <2>2, <3>1, ChunkSize, MaxBytesAssumption DEF QueueType
  <2> QED
    BY <1>2, <2>1, <2>3 DEF GetChunk
<1>3. CASE Finish
  BY <1>3 DEF Finish
<1>4. CASE Revoke
  BY <1>4, MaxBytesAssumption DEF Revoke
<1>5. CASE UNCHANGED data
  BY <1>5
<1> QED
  BY <1>1, <1>2, <1>3, <1>4, <1>5
     DEF Next, Worker, PutEnter, PutWake, PutAdmit, AddCloseHook, CallHook, ReaderOpens, Get,
         GetNothing, ReaderLeaves, Waiter, WaitFirst, WaitExpires, Canceller, SetCancelEvent,
         CloseProviders, Join, JoinTimesOut

(* Until the revocation, delivered chunks followed by the buffered ones    *)
(* are the published ones.                                                 *)
LEMMA InOrderStep ==
  QueueType /\ RoomIsKept /\ Phases /\ InOrder /\ [Next]_vars => InOrder'
<1> SUFFICES ASSUME QueueType, RoomIsKept, Phases, InOrder, [Next]_vars PROVE InOrder'
  OBVIOUS
<1>1. CASE PutAppend
  <2>1. offered \in Chunk /\ ~revoked
    BY <1>1 DEF PutAppend, RoomIsKept
  <2>2. delivered \o Append(chunks, offered) = Append(delivered \o chunks, offered)
    BY <2>1, AppendMoves DEF QueueType
  <2> QED
    BY <1>1, <2>1, <2>2 DEF PutAppend, InOrder
<1>2. ASSUME NEW r \in Readers, GetChunk(r) PROVE InOrder'
  <2>1. chunks # << >> /\ ~revoked
    BY <1>2 DEF GetChunk, Phases
  <2>2. Append(delivered, Head(chunks)) \o Tail(chunks) = delivered \o chunks
    BY <2>1, HeadMoves DEF QueueType
  <2> QED
    BY <1>2, <2>1, <2>2 DEF GetChunk, InOrder
<1>3. CASE Finish
  BY <1>3 DEF Finish, InOrder
<1>4. CASE Revoke
  BY <1>4 DEF Revoke, InOrder
<1>5. CASE UNCHANGED <<data, history>>
  BY <1>5 DEF InOrder
<1> QED
  BY <1>1, <1>2, <1>3, <1>4, <1>5
     DEF Next, Worker, PutEnter, PutWake, PutAdmit, AddCloseHook, CallHook, ReaderOpens, Get,
         GetNothing, ReaderLeaves, Waiter, WaitFirst, WaitExpires, Canceller, SetCancelEvent,
         CloseProviders, Join, JoinTimesOut

(* A reader told end-of-stream leaves nothing behind, and nothing follows. *)
LEMMA EndedStep ==
  /\ QueueType /\ ThreadsType /\ RoomIsKept /\ Phases /\ InOrder /\ EndedInv
  /\ [Next]_vars
  => EndedInv'
<1> SUFFICES ASSUME QueueType, ThreadsType, RoomIsKept, Phases, InOrder, EndedInv,
                    [Next]_vars,
                    NEW q \in Readers, reader'[q] = "ended"
             PROVE  finished' /\ chunks' = << >> /\ delivered' = published'
  BY DEF EndedInv
<1>1. CASE reader[q] = "ended"
  <2>1. finished /\ chunks = << >> /\ delivered = published
    BY <1>1 DEF EndedInv
  <2>2. ~PutAppend
    BY <2>1 DEF PutAppend, RoomIsKept
  <2>3. ASSUME NEW r \in Readers PROVE ~GetChunk(r)
    BY <2>1 DEF GetChunk
  <2>4. CASE Finish
    BY <2>1, <2>4 DEF Finish
  <2>5. CASE Revoke
    BY <2>1, <2>5 DEF Revoke
  <2>6. CASE UNCHANGED <<data, history>>
    BY <2>1, <2>6
  <2> QED
    BY <2>2, <2>3, <2>4, <2>5, <2>6
       DEF Next, Worker, PutEnter, PutWake, PutAdmit, AddCloseHook, CallHook, ReaderOpens, Get,
           GetNothing, ReaderLeaves, Waiter, WaitFirst, WaitExpires, Canceller,
           SetCancelEvent, CloseProviders, Join, JoinTimesOut
<1>2. CASE reader[q] # "ended"
  <2>1. GetNothing(q) \/ ~GetNothing(q)
    OBVIOUS
  <2>2. CASE GetNothing(q)
    <3>1. finished /\ ~revoked /\ chunks = << >>
      BY <1>2, <2>2 DEF GetNothing, Cancelled, ThreadsType
    <3>2. delivered = published
      BY <3>1, ConcatEmptySeq DEF InOrder, QueueType
    <3> QED
      BY <2>2, <3>1, <3>2 DEF GetNothing
  <2>3. ASSUME NEW r \in Readers, Get(r) \/ ReaderOpens(r) \/ ReaderLeaves(r), r # q
        PROVE  FALSE
    BY <1>2, <2>3 DEF Get, GetChunk, GetNothing, ReaderOpens, ReaderLeaves, Notified,
                      ThreadsType
  <2>4. ~(GetChunk(q) \/ ReaderOpens(q) \/ ReaderLeaves(q))
    BY <1>2 DEF GetChunk, ReaderOpens, ReaderLeaves, Notified, ThreadsType
  <2>5. ~(PutAppend \/ Finish \/ Revoke)
    BY <1>2 DEF PutAppend, Finish, Revoke, NotifyAll, Notified, ThreadsType
  <2>6. reader' # reader
    BY <1>2
  <2> QED
    BY <2>2, <2>3, <2>4, <2>5, <2>6
       DEF Next, Worker, PutEnter, PutWake, PutAdmit, AddCloseHook, CallHook, Get,
           Waiter, WaitFirst, WaitExpires, Canceller, SetCancelEvent, CloseProviders, Join,
           JoinTimesOut
<1> QED
  BY <1>1, <1>2

(* QueueInv is inductive.                                                  *)
LEMMA InvStep == QueueInv /\ [Next]_vars => QueueInv'
  BY FlagsTypeStep, QueueTypeStep, WorkerTypeStep, ThreadsTypeStep, HooksStep, RoomStep,
     PhasesStep, InOrderStep, EndedStep
     DEF QueueInv, TypeOK

(* Every reachable state satisfies the inductive invariant: types, the     *)
(* room put() found, the capacity in bytes, the order of the chunks, the   *)
(* meaning of end-of-stream, the place of every hook.                      *)
THEOREM Invariant == Spec => []QueueInv
  BY InitInv, InvStep, PTL DEF Spec

(* A reader told end-of-stream has missed nothing, however put(), get(),   *)
(* finish() and revoke() interleave.                                       *)
THEOREM EndOfStream == Spec => []EndMeansAll
<1>1. QueueInv => EndMeansAll
  BY DEF QueueInv, EndedInv, EndMeansAll
<1> QED
  BY <1>1, Invariant, PTL

(* No provider hook is stranded or called twice, however add_close_hook    *)
(* and close_providers interleave.                                         *)
THEOREM HooksAccounted == Spec => []NoHookForgotten
<1>1. QueueInv => NoHookForgotten
  BY DEF QueueInv, HooksInv, NoHookForgotten
<1> QED
  BY <1>1, Invariant, PTL

-----------------------------------------------------------------------------
(* The queue implements the stream.                                        *)

(* One step of the queue is one step of the stream, or none: put() appends *)
(* what the stream publishes, get() pops what the stream delivers next,    *)
(* finish() and revoke() end it.                                           *)
LEMMA StreamStep == QueueInv /\ [Next]_vars => [Stream!Next]_(Stream!streamVars)
<1> SUFFICES ASSUME QueueInv, [Next]_vars
             PROVE  Stream!Next \/ UNCHANGED Stream!streamVars
  OBVIOUS
<1> USE DEF QueueInv, TypeOK, QueueType, Stream!Next, Stream!streamVars
<1>1. CASE PutAppend
  <2>1. offered \in Chunk /\ ~finished /\ ~revoked
    BY <1>1 DEF PutAppend, RoomIsKept
  <2> QED
    BY <1>1, <2>1 DEF PutAppend, Stream!Publish
<1>2. ASSUME NEW r \in Readers, GetChunk(r)
      PROVE  Stream!Next \/ UNCHANGED Stream!streamVars
  <2>1. chunks # << >> /\ ~revoked /\ delivered \o chunks = published
    BY <1>2 DEF GetChunk, Phases, InOrder
  <2>2. Len(delivered) < Len(published) /\ published[Len(delivered) + 1] = Head(chunks)
    BY <2>1, HeadMoves
  <2> QED
    BY <1>2, <2>1, <2>2 DEF GetChunk, Stream!Deliver
<1>3. CASE Finish
  <2>1. CASE revoked \/ finished
    BY <1>3, <2>1 DEF Finish
  <2>2. CASE ~revoked /\ ~finished
    BY <1>3, <2>2 DEF Finish, Stream!End
  <2> QED
    BY <2>1, <2>2
<1>4. CASE Revoke
  <2>1. CASE revoked
    BY <1>4, <2>1 DEF Revoke
  <2>2. CASE ~revoked
    BY <1>4, <2>2 DEF Revoke, Stream!Revoke
  <2> QED
    BY <2>1, <2>2
<1>5. CASE UNCHANGED <<finished, revoked, history>>
  BY <1>5
<1> QED
  BY <1>1, <1>2, <1>3, <1>4, <1>5
     DEF Next, Worker, PutEnter, PutWake, PutAdmit, AddCloseHook, CallHook, ReaderOpens, Get,
         GetNothing, ReaderLeaves, Waiter, WaitFirst, WaitExpires, Canceller, SetCancelEvent,
         CloseProviders, Join, JoinTimesOut

(* What readers are handed is what the worker published, in order, once,   *)
(* and nothing once the turn is revoked.                                   *)
THEOREM Refinement == Spec => ImplementsStream
<1>1. Init => Stream!Init
  BY DEF Init, Stream!Init
<1> QED
  BY <1>1, StreamStep, Invariant, PTL DEF Spec, ImplementsStream, Stream!Spec
==============================================================================
