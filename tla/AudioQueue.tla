----------------------------- MODULE AudioQueue ------------------------------
(***************************************************************************)
(* BoundedAudioQueue of storage/conversation_v6_store.py: the byte-bounded *)
(* queue between the worker that speaks an answer and the HTTP request     *)
(* that streams it to the device, with the thread that waits for the first *)
(* chunk and the thread that cancels the turn.                             *)
(*                                                                         *)
(* Every method body runs under one threading.Condition and is one action, *)
(* except where the cancel event matters: it is a threading.Event, and      *)
(* revoke() sets it BEFORE it takes the lock.  So revoke() is two steps,    *)
(* and put(), which reads the event up to three times before it appends,   *)
(* is a step per reading; in "putting" and "appending" it holds the lock.  *)
(***************************************************************************)
EXTENDS Integers, SequencesExt

CONSTANTS
  MaxBytes,      \* conversation_v6_audio_queue_bytes
  Sizes,         \* byte lengths a chunk may have, too large ones included
  MaxPuts,       \* bound on the chunks one worker offers
  Readers,       \* HTTP requests streaming the turn (the token is reusable)
  Hooks          \* close() methods of the providers the worker opens

ASSUME MaxBytesAssumption == MaxBytes \in Nat \ {0}
ASSUME SizesAssumption == Sizes \subseteq Nat
ASSUME MaxPutsAssumption == MaxPuts \in Nat

Chunk == [id : 1..MaxPuts, size : Sizes]

None == [id |-> 0, size |-> 0]      \* the worker offers nothing

VARIABLES
  cancel_event,          \* threading.Event shared with the turn
  chunks, byte_count, has_published_audio, finished, revoked,
  close_hooks,           \* registered, not yet taken by close_providers
  close_hooks_called,
  pending_hooks,         \* taken (or registered too late), about to be called
  hook_calls,            \* hook -> times it was called
  producer, offered, offers,   \* the worker thread, its chunk, chunks so far
  reader,                \* reader -> where its get() loop is
  waiter,                \* the thread in wait_for_first_chunk
  canceller,             \* the thread in _stop_turn_worker
  published, delivered   \* history: chunks accepted, chunks handed out

data    == <<chunks, byte_count, has_published_audio, finished, revoked>>
hooks   == <<close_hooks, close_hooks_called, pending_hooks, hook_calls>>
prod    == <<producer, offered, offers>>
history == <<published, delivered>>
vars    == <<cancel_event, data, hooks, prod, reader, waiter, canceller, history>>

FlagsType ==
  /\ cancel_event \in BOOLEAN
  /\ has_published_audio \in BOOLEAN
  /\ finished \in BOOLEAN
  /\ revoked \in BOOLEAN
  /\ close_hooks_called \in BOOLEAN

QueueType ==
  /\ chunks \in Seq(Chunk)
  /\ byte_count \in Int
  /\ published \in Seq(Chunk)
  /\ delivered \in Seq(Chunk)

HooksType ==
  /\ close_hooks \subseteq Hooks
  /\ pending_hooks \subseteq Hooks
  /\ hook_calls \in [Hooks -> Nat]

WorkerType ==
  /\ producer \in {"ready", "asleep", "putting", "appending", "cancelled",
                   "oversized", "rejected", "done"}
  /\ offered \in Chunk \cup {None}
  /\ offers \in 0..MaxPuts

ThreadsType ==
  /\ reader \in [Readers -> {"absent", "ready", "asleep", "ended", "cut", "left"}]
  /\ waiter \in {"ready", "asleep", "audio", "no_audio", "cancelled"}
  /\ canceller \in {"idle", "event_set", "revoked", "joining", "joined"}

TypeOK == FlagsType /\ QueueType /\ HooksType /\ WorkerType /\ ThreadsType

Init ==
  /\ cancel_event = FALSE
  /\ chunks = << >> /\ byte_count = 0
  /\ has_published_audio = FALSE /\ finished = FALSE /\ revoked = FALSE
  /\ close_hooks = {} /\ close_hooks_called = FALSE /\ pending_hooks = {}
  /\ hook_calls = [h \in Hooks |-> 0]
  /\ producer = "ready" /\ offered = None /\ offers = 0
  /\ reader = [r \in Readers |-> "absent"]
  /\ waiter = "ready"
  /\ canceller = "idle"
  /\ published = << >> /\ delivered = << >>

Cancelled == cancel_event \/ revoked          \* _raise_if_cancelled

Unlocked == producer \notin {"putting", "appending"}

(* notify_all: whoever sleeps on the condition goes round its loop again.  *)
(* The worker's own sleep is bounded (50 ms), so it needs no notification. *)
Notified(pc) == IF pc = "asleep" THEN "ready" ELSE pc

NotifyAll ==
  /\ reader' = [r \in Readers |-> Notified(reader[r])]
  /\ waiter' = Notified(waiter)

-----------------------------------------------------------------------------
(* The worker: put, finish.                                                *)

FitsBefore(c) == byte_count < MaxBytes                               \* mutant

Fits(c) == byte_count + c.size <= MaxBytes

Room(c) == IF Fits(c) THEN "putting" ELSE "asleep"

NextChunk(n) == [id |-> offers + 1, size |-> n]

(* put() is entered.  An empty chunk is dropped, a chunk larger than the   *)
(* queue is a ValueError, any other waits for room or keeps the lock.      *)
PutEnter(n) ==
  /\ producer = "ready"
  /\ offers < MaxPuts
  /\ offers' = offers + 1
  /\ producer' = IF Cancelled THEN "cancelled"
                 ELSE IF n = 0 THEN "ready"
                 ELSE IF n > MaxBytes THEN "oversized" ELSE Room(NextChunk(n))
  /\ offered' = IF ~Cancelled /\ n \in 1..MaxBytes THEN NextChunk(n) ELSE None
  /\ UNCHANGED <<cancel_event, data, hooks, reader, waiter, canceller, history>>

(* condition.wait(0.05) is over, notified or not.                          *)
PutWake ==
  /\ producer = "asleep"
  /\ producer' = IF Cancelled THEN "cancelled" ELSE Room(offered)
  /\ offered' = IF Cancelled THEN None ELSE offered
  /\ UNCHANGED <<cancel_event, data, hooks, offers, reader, waiter, canceller, history>>

(* The checks after the wait loop.                                         *)
PutAdmit ==
  /\ producer = "putting"
  /\ producer' = IF Cancelled THEN "cancelled"
                 ELSE IF finished THEN "rejected" ELSE "appending"
  /\ offered' = IF Cancelled \/ finished THEN None ELSE offered
  /\ UNCHANGED <<cancel_event, data, hooks, offers, reader, waiter, canceller, history>>

PutAppend ==
  /\ producer = "appending"
  /\ chunks' = Append(chunks, offered)
  /\ byte_count' = byte_count + offered.size
  /\ has_published_audio' = TRUE
  /\ published' = Append(published, offered)
  /\ producer' = "ready" /\ offered' = None
  /\ NotifyAll
  /\ UNCHANGED <<cancel_event, finished, revoked, hooks, offers, canceller, delivered>>

(* The end of run_turn, or the exception handler of _run_owned_turn; a     *)
(* worker that was told TurnCancelled leaves without finish().             *)
FinishQuietly ==                                                     \* mutant
  /\ producer \in {"ready", "oversized", "rejected"}
  /\ producer' = "done"
  /\ finished' = TRUE
  /\ UNCHANGED <<cancel_event, chunks, byte_count, has_published_audio, revoked, hooks,
                 offered, offers, reader, waiter, canceller, history>>

Finish ==
  /\ producer \in {"ready", "oversized", "rejected"}
  /\ producer' = "done"
  /\ finished' = TRUE
  /\ IF revoked THEN UNCHANGED <<reader, waiter>> ELSE NotifyAll
  /\ UNCHANGED <<cancel_event, chunks, byte_count, has_published_audio, revoked, hooks,
                 offered, offers, canceller, history>>

-----------------------------------------------------------------------------
(* The HTTP request: __iter__ calls get() until it returns None.           *)

ReaderOpens(r) ==
  /\ reader[r] = "absent" /\ ~revoked             \* 410 once revoked
  /\ reader' = [reader EXCEPT ![r] = "ready"]
  /\ UNCHANGED <<cancel_event, data, hooks, prod, waiter, canceller, history>>

GetChunk(r) ==
  /\ reader[r] = "ready" /\ Unlocked
  /\ chunks # << >>
  /\ chunks' = Tail(chunks)
  /\ byte_count' = byte_count - Head(chunks).size
  /\ delivered' = Append(delivered, Head(chunks))
  /\ reader' = [q \in Readers |-> Notified(reader[q])]
  /\ waiter' = Notified(waiter)
  /\ UNCHANGED <<cancel_event, has_published_audio, finished, revoked, hooks, prod,
                 canceller, published>>

GetFinishedFirst(r) ==                                               \* mutant
  /\ reader[r] = "ready" /\ Unlocked
  /\ chunks = << >> \/ finished
  /\ reader' = [reader EXCEPT ![r] =
                   IF Cancelled THEN "cut" ELSE IF finished THEN "ended" ELSE "asleep"]
  /\ UNCHANGED <<cancel_event, data, hooks, prod, waiter, canceller, history>>

GetNothing(r) ==
  /\ reader[r] = "ready" /\ Unlocked
  /\ chunks = << >>
  /\ reader' = [reader EXCEPT ![r] =
                   IF Cancelled THEN "cut" ELSE IF finished THEN "ended" ELSE "asleep"]
  /\ UNCHANGED <<cancel_event, data, hooks, prod, waiter, canceller, history>>

(* The device drops the HTTP connection between two chunks.                *)
ReaderLeaves(r) ==
  /\ reader[r] = "ready"
  /\ reader' = [reader EXCEPT ![r] = "left"]
  /\ UNCHANGED <<cancel_event, data, hooks, prod, waiter, canceller, history>>

-----------------------------------------------------------------------------
(* wait_for_first_chunk, called once per turn by _finish_turn.             *)

WaitFirst ==
  /\ waiter = "ready" /\ Unlocked
  /\ waiter' = IF has_published_audio THEN "audio"
               ELSE IF Cancelled THEN "cancelled"
               ELSE IF finished THEN "no_audio" ELSE "asleep"
  /\ UNCHANGED <<cancel_event, data, hooks, prod, reader, canceller, history>>

(* first_audio_timeout: the wait is re-examined once it is over.           *)
WaitExpires ==
  /\ waiter = "asleep" /\ Unlocked
  /\ waiter' = IF has_published_audio THEN "audio"
               ELSE IF Cancelled THEN "cancelled" ELSE "no_audio"
  /\ UNCHANGED <<cancel_event, data, hooks, prod, reader, canceller, history>>

-----------------------------------------------------------------------------
(* _stop_turn_worker: revoke, close_providers, join.  cancel_turn and      *)
(* close() may both run it, one after the other.                           *)

SetCancelEvent ==
  /\ canceller = "idle"
  /\ cancel_event' = TRUE
  /\ canceller' = "event_set"
  /\ UNCHANGED <<data, hooks, prod, reader, waiter, history>>

RevokeKeepingChunks ==                                               \* mutant
  /\ canceller = "event_set" /\ Unlocked
  /\ revoked' = TRUE /\ finished' = TRUE
  /\ NotifyAll
  /\ canceller' = "revoked"
  /\ UNCHANGED <<cancel_event, chunks, byte_count, has_published_audio, hooks, prod,
                 history>>

Revoke ==
  /\ canceller = "event_set" /\ Unlocked
  /\ revoked' = TRUE /\ finished' = TRUE
  /\ chunks' = << >> /\ byte_count' = 0
  /\ NotifyAll
  /\ canceller' = "revoked"
  /\ UNCHANGED <<cancel_event, has_published_audio, hooks, prod, history>>

(* The registered hooks are taken once, and a thread of its own calls      *)
(* each; a second cancellation finds close_hooks_called set.               *)
CloseProviders ==
  /\ canceller = "revoked" /\ Unlocked
  /\ close_hooks_called' = TRUE
  /\ pending_hooks' = pending_hooks \cup close_hooks
  /\ close_hooks' = {}
  /\ canceller' = "joining"
  /\ UNCHANGED <<cancel_event, data, hook_calls, prod, reader, waiter, history>>

NewHook(h) == h \notin close_hooks \cup pending_hooks /\ hook_calls[h] = 0

AddHookAlwaysKept(h) ==                                              \* mutant
  /\ producer = "ready" /\ NewHook(h)
  /\ close_hooks' = close_hooks \cup {h}
  /\ UNCHANGED <<cancel_event, data, close_hooks_called, pending_hooks, hook_calls, prod,
                 reader, waiter, canceller, history>>

(* The worker opens a provider: its hook is kept for the canceller, or     *)
(* called at once when the canceller has been and gone.                    *)
AddCloseHook(h) ==
  /\ producer = "ready" /\ NewHook(h)
  /\ IF close_hooks_called
     THEN pending_hooks' = pending_hooks \cup {h} /\ UNCHANGED close_hooks
     ELSE close_hooks' = close_hooks \cup {h} /\ UNCHANGED pending_hooks
  /\ UNCHANGED <<cancel_event, data, close_hooks_called, hook_calls, prod, reader, waiter,
                 canceller, history>>

CallHook(h) ==
  /\ h \in pending_hooks
  /\ pending_hooks' = pending_hooks \ {h}
  /\ hook_calls' = [hook_calls EXCEPT ![h] = @ + 1]
  /\ UNCHANGED <<cancel_event, data, close_hooks, close_hooks_called, prod, reader, waiter,
                 canceller, history>>

Stopped == {"cancelled", "done"}

Join ==
  /\ canceller = "joining" /\ producer \in Stopped
  /\ canceller' = "joined"
  /\ UNCHANGED <<cancel_event, data, hooks, prod, reader, waiter, history>>

(* turn_cancel_timeout: a later close() runs _stop_turn_worker again.      *)
JoinTimesOut ==
  /\ canceller = "joining" /\ producer \notin Stopped
  /\ canceller' = "idle"
  /\ UNCHANGED <<cancel_event, data, hooks, prod, reader, waiter, history>>

-----------------------------------------------------------------------------
Worker ==
  \/ \E n \in Sizes : PutEnter(n)
  \/ PutWake
  \/ PutAdmit
  \/ PutAppend
  \/ Finish

Get(r) == GetChunk(r) \/ GetNothing(r)

Waiter == WaitFirst \/ WaitExpires

Canceller == SetCancelEvent \/ Revoke \/ CloseProviders \/ Join \/ JoinTimesOut

Next ==
  \/ Worker
  \/ \E h \in Hooks : AddCloseHook(h) \/ CallHook(h)
  \/ \E r \in Readers : ReaderOpens(r) \/ Get(r) \/ ReaderLeaves(r)
  \/ Waiter
  \/ Canceller

Spec == Init /\ [][Next]_vars

(* The worker goes on or ends (its providers end, fail or are closed), a   *)
(* reader that opened the stream keeps calling get(), the wait for the     *)
(* first chunk has a timeout, hooks run in threads of their own, and a     *)
(* cancellation once begun runs to its join.  Nothing makes a device open  *)
(* the stream or anybody cancel.                                           *)
Fairness ==
  /\ WF_vars(Worker)
  /\ \A r \in Readers : WF_vars(Get(r))
  /\ WF_vars(Waiter)
  /\ \A h \in Hooks : WF_vars(CallHook(h))
  /\ WF_vars(Revoke \/ CloseProviders \/ Join \/ JoinTimesOut)

FairSpec == Spec /\ Fairness

-----------------------------------------------------------------------------
(* Why it works, as one inductive statement: put() keeps the room it found *)
(* until it has appended; a revoked queue is empty and stays so; what is   *)
(* buffered is what was published and not yet delivered; end-of-stream is  *)
(* told only when nothing is; a hook is in one place at a time.            *)
RoomIsKept ==
  /\ producer \in {"asleep", "putting", "appending"} => offered \in Chunk
  /\ producer \in {"putting", "appending"} => Fits(offered)
  /\ producer = "appending" => ~finished /\ ~revoked

Phases ==
  /\ revoked => finished /\ chunks = << >> /\ byte_count = 0
  /\ byte_count <= MaxBytes

InOrder == ~revoked => delivered \o chunks = published

EndedInv ==
  (\E r \in Readers : reader[r] = "ended") =>
     finished /\ chunks = << >> /\ delivered = published

HooksInv ==
  /\ close_hooks \cap pending_hooks = {}
  /\ close_hooks_called => close_hooks = {}
  /\ \A h \in Hooks : hook_calls[h] <= 1
  /\ \A h \in close_hooks \cup pending_hooks : hook_calls[h] = 0

QueueInv == TypeOK /\ RoomIsKept /\ Phases /\ InOrder /\ EndedInv /\ HooksInv

(* A reader that was told end-of-stream has missed nothing: every chunk    *)
(* put() accepted had been handed to some reader.                          *)
EndMeansAll == (\E r \in Readers : reader[r] = "ended") => delivered = published

(* No provider is left open by a cancellation that raced its registration: *)
(* once close_providers has run no hook waits for it, and none runs twice. *)
NoHookForgotten ==
  /\ close_hooks_called => close_hooks = {}
  /\ \A h \in Hooks : hook_calls[h] <= 1

(* The queue is the stream the server and the device rely on: in order,    *)
(* nothing twice, nothing after the revocation.                            *)
Stream == INSTANCE AudioStream
            WITH phase <- IF revoked THEN "revoked" ELSE IF finished THEN "ended" ELSE "open"

ImplementsStream == Stream!Spec

(* Nobody stays blocked. A cancellation unblocks the worker waiting for    *)
(* room, every reader waiting for a chunk and the thread waiting for the   *)
(* first one: the event is set without notifying, so this rests on         *)
(* revoke()'s second half. And once the worker has finished, every reader  *)
(* gets to the end of the stream, leaves or is cut.                        *)
NobodyStaysBlocked ==
  /\ cancel_event ~> /\ producer \in Stopped
                     /\ waiter \notin {"ready", "asleep"}
                     /\ \A r \in Readers : reader[r] \notin {"ready", "asleep"}
  /\ \A r \in Readers : finished /\ reader[r] = "asleep" ~> reader[r] \notin {"ready", "asleep"}
==============================================================================
