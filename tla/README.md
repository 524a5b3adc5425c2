# Verification of the voice assistant

TLA+ models, TLC runs and TLAPS proofs for the talking-toy assistant in this
repository: a FastAPI server (`src/`) that turns recorded speech into streamed
answers, and an ESP32-S3 firmware (`esp_idf_demo/`) that listens, records,
plays, and updates itself. `PROJECT.json` lists, for every definition, the
source lines it stands for.

To repeat a run: `tlc -workers 2 -config <cfg> <module>`; a proof:
`tlapm <module>Proofs.tla`.

## 1. The system

### 1.1 How the parts meet

    device                                         server
    wake word -> conversation loop --websocket--> run loop (one per connection)
                   |   controller                   |-- finish task, one per turn
                   |   websocket task (flags)       |-- cancel thread
                   |-- prompts (arbiter, owner)     |-- worker thread (LLM + TTS)
                   |-- playback --HTTP chunked----> |-- turn audio queue
                 update, confirm, validation,       task pipeline, pets and games
                 watchdog tasks ------HTTP--------> OTA manifest and reports

A **conversation** is one websocket. The device sends `turn_start`, audio
frames, `turn_end`, `turn_playback_complete`, `turn_cancel`,
`conversation_end`; the server answers with acks, `asr_final`, `turn_result`,
`turn_complete`, `turn_cancelled`, `conversation_done` and errors. The answer's
audio comes over HTTP, from a queue the worker fills.

### 1.2 Inventory: the server

| component | state | operations | what is hard | what makes it correct |
| --- | --- | --- | --- | --- |
| Turn audio queue (`conversation_v6_store.py`) | chunks, byte count, finished, revoked, published flag, close hooks, a cancel event shared with the turn | put, get, finish, revoke, wait_for_first_chunk, register_close, close_providers | four kinds of thread; `revoke()` sets the event before it takes the lock; `put()` sleeps with the lock released | never over its size; order kept; a reader told end-of-stream has missed nothing; no close hook forgotten or run twice; nobody stays blocked |
| v6 conversation (`api/realtime_v6.py`, `services/conversation_v6.py`, `models/conversation_v6.py`) | per turn a protocol state machine, a status, a worker, an answer; per conversation limits, budget, context, deadline | the controls above; process_turn, begin/finish cancel, record_technical_error, close | event loop, a task per turn, a cancel thread, one worker thread, an absolute deadline | events in protocol order; cancelled means over; turn limits; order of context; no worker outlives the conversation; every turn is answered (one case is not, section 4) |
| registry, grants, keepalive (`ConversationRegistry`, `receive_with_keepalive`) | conversations by id, audio tokens with expiry, ping timer | add, grant, resolve, remove | tokens expire or are replaced while a request streams | a grant serves its own turn only, until removed |
| v3/v5 realtime (`api/realtime.py`, `services/realtime_session.py`, `realtime_store.py`) | session, cached audio, recognised text | start, frames, stop, stream | same races as v6, older protocol still served | one answer per session, no leak of sessions |
| Task pipeline and database (`storage/db.py`, `workers/`, `services/`) | tasks and stages in SQLite, queue in Redis | submit, claim, stage, finish, fail | crash between stage and record; duplicated job | a task ends once; stages in order |
| Pet companion and games | profile and game per device in SQLite, ids of events applied | profile events, game moves, settle | repeated events | an event counts once (one `BEGIN IMMEDIATE` transaction) |
| Question routing, navigation, retrieval | read-only data | match, rank, ingest | text only | - |
| Speech and language providers | a remote connection each | transcribe, generate, synthesize | they fail, hang, answer late | seen by the conversation as outcomes |
| OTA service and release scripts | release manifest, log of reports | manifest, artifact, report; create, close out | retried and stale reports | a confirmed release is not offered again |
| Demo page and diagnostics | bounded event lists | append, list | - | - |

### 1.3 Inventory: the device

| component | state | operations | what is hard | what makes it correct |
| --- | --- | --- | --- | --- |
| Conversation (`conversation_controller.c`, `cloud_conversation.c`, `run_v6_conversation` in `main.c`) | controller state and counters; flags raised by the websocket task; result of the turn | one event of the controller per step; start, finish, complete, close; wait for a flag | flags are shared with the websocket task and outlive a turn; the controller silently ignores an event it does not expect | loop and controller in step; same idea of turn number and limit as the server; it always comes back to idle |
| Prompts (`prompt_arbiter.c`, callers in `main.c`, `app_network.cc`) | a table of 8 entries, the one playing, the last result, two flags | submit, wait_key, set_conversation_active, set_network_connected, owner task | flags change between taking a prompt and playing it; notification after the critical section | no prompt lost, played twice, or slept over; a caller told "ok" has been heard |
| Firmware update (`main.c`, `cloud_client.c`) | two slots and otadata, NVS namespace `ota_p3c`, four tasks | manifest check, download, store, switch, confirm, validate, watchdog | power failure at any step; record written key by key; four tasks and no lock | always something to boot; a trial is named, guarded and ends |
| Playback (`playback_session.c`, streaming in `cloud_client.c`, `audio_out.c`) | owner of the output, session, two queues of packets, jitter buffer, reaper queue | start, join, cancel, detach, reap; read, decode, play; open, write, close | five tasks hand pointers on; every wait has a limit after which the waiter deletes the other task; a hung session is left to a reaper | one user of the output; packets freed once; nothing freed under a task that works with it; what is reported as played was heard |
| Wake word, trigger, microphone (`wake_word_service.c`, `trigger_input.c`, `audio_in.c`, `app_runtime_task` in `main.c`) | feed and fetch tasks, pending detection, microphone open, retry time; pre-roll, hold, silence | start, stop, poll, retry; wait for speech, record | flags without a lock on two cores; stop crosses a detection; the microphone goes on between two calls | one user of the microphone; no gap in the speech; the device listens again |
| Wi-Fi (`app_network.cc`, `wifi_credential_store.cc`, `components/esp-wifi-connect`) | list of networks, kept in two slots of NVS; station, portal, scheduled exits; event bits, outage state | connect, set up, reconfigure, save, roll back; scan, join, lose; outage task | a power failure within a save; an exit task that comes late; callbacks of three tasks; an outage that ends while it is announced | no list lost; prompts know the truth; a portal is closed by its own session only; an outage is told |
| Display, video, board | pictures, registers | draw, set up | - | - |
| Vendored components, `esp-wifi-connect` apart | - | - | third-party | modelled only as the firmware relies on it |

The hazards behind these columns, with file, line and the property that
watches each, are in `PROJECT.json`.

## 2. The modules

| module | models | state and actions in the code |
| --- | --- | --- |
| `AudioStream` | what a turn's audio promises, with no queue: accepted, handed out, ended or cut | abstract specification |
| `AudioQueue` | `BoundedAudioQueue` with its users; implements `AudioStream` | fields keep their names; one action per pass of a method through its lock, except that `put` and `revoke` are a step per reading or setting of the cancel event |
| `AudioQueueProofs` | the proofs about it | |
| `ConversationV6` | one conversation on the server | `fsm` is `TurnStateMachine.state`, `status` is `ConversationTurn.status`; `task[t]` is the line where `_finish_turn` awaits, `future[t]` how far the worker is, `stop` a run of `_stop_turn_worker` |
| `DeviceConversation` | one conversation on the device | `ctl` is `conversation_controller_t`, `conversation_controller_handle` its `switch`; `pc` is the place in `run_v6_conversation`; `flags` are the booleans `v6_handle_json` raises |
| `VoiceLink` | both, joined by a websocket | `EXTENDS ConversationV6`, `D == INSTANCE DeviceConversation`; `up` and `down` are the messages in flight; what a server step adds to `sent` goes down |
| `VoiceLinkProofs` | the proofs about it and `DeviceConversation` | |
| `ConversationV6Proofs` | the proofs about `ConversationV6` | |
| `PromptArbiter` | the table, the owner task, the callers | `table` is `s_entries`, `playing`, `last`, `active`, `connected` the other statics; one action per critical section, `Notify` for the `xTaskNotifyGive` after it |
| `PromptArbiterProofs` | the proofs about it | |
| `FirmwareUpdate` | slots, NVS record and every task that touches them | `runtime`, `timer`, `validating`, `confirm`, `update` are the places of `app_runtime_task`, the timeout, validation, confirm and manifest tasks |
| `FirmwareUpdateProofs` | the proofs about it | |
| `AudioOut` | codec, jitter buffer, stream task (`audio_out.c`) | `started`, `done`, `handle`, `broken` are `stream_task_started`, `_done`, the task's handle and result; opening, closing and writing are operators that take the calling task |
| `Downlink` | an answer's way from socket to jitter buffer; `EXTENDS AudioOut` | `owner` is the session's task, `decoder` and `player` its helpers, `encoded` and `pcm` the queues between; a step is a receive or a send, the work between two of them is part of it; `After` are the last steps of a helper (its flag, its handle, its deletion), `FrameLeft` says that the owner has left the stack frame they share, `corrupted` that a helper used it later or was deleted twice |
| `Playback` | session, joiner, reaper, prompts; `EXTENDS Downlink` | `main` is the pipeline task in `run_v6_conversation`, `detached` the reaper's queue |
| `PlaybackProofs` | the proofs about it, `Downlink` and `AudioOut` | |
| `Capture` | waiting for speech and recording it (`audio_in.c`) | `prefix` is the pre-roll, `hold` and `silence` the counters of bytes, in chunks |
| `WakeWord` | the service and the trigger | flags keep their names, `feed` and `fetch` are the two tasks, `at` the runtime task |
| `Listening` | runtime loop and pipeline task over one microphone; `EXTENDS Capture, WakeWord` | `busy` is `s_app_state # APP_STATE_IDLE`, `pipeline` the conversation's task |
| `ListeningProofs` | the proofs about it and `Capture` | |
| `CredentialStore` | the list of networks and its two slots | `slot` holds what can be read, `saving` is the place in `PersistLocked` |
| `WifiLink` | station, portal, manager; `EXTENDS CredentialStore` | `station` and `handler` are the station and the callback its event task is in, `form` the web server's task, `exits` the scheduled exit tasks |
| `Network` | the runtime task, the outage task; `EXTENDS WifiLink` | `at` is the place in `app_network_start` or `app_network_reconfigure_blocking`, the event bits keep their names |
| `NetworkProofs` | the proofs about it and `CredentialStore`, `WifiLink` | |
| `MC*` | constants and symmetry for TLC | |

Each definition with the comment `Mutant:` before it or `mutant` behind it is a
plausible mistake in another one; it is used nowhere. Putting it in the place
of that definition makes TLC find the violation `PROJECT.json` names, which
shows that the property does watch that code.

## 3. What is checked

| run | constants | distinct states | shows |
| --- | --- | --- | --- |
| `audio_queue` | queue of 2 bytes, chunks of 0 to 3 bytes, 3 puts, 2 readers, 1 hook | 231,636 | safety of the queue, refinement of `AudioStream`, no blocked thread |
| `conversation` | 3 turn ids, 1 turn by default, 2 in a game | 974,309 | order of events, cancellation, limits, context, closing |
| `conversation_live` | 2 ids, 1 turn | 15,628 | turns are answered, but for one case; stops end |
| `conversation_cancel` | 2 ids, limits 1 and 2 | - | violation, finding 1 |
| `voice_link` | 4 ids (2 attempts at 2 turns), limits 1 and 2, no failures, any timeouts | 1,048,448 | device and server agree |
| `voice_link_live` | 2 ids, limit 1, one failure anywhere | 187,237 | both ends come back |
| `prompt_arbiter` | 2 cues, 1 outage and its end, table of 3 | 294,503 | nothing lost, truth, progress |
| `firmware_update` | the factory firmware and 2 releases | 320,008 | slots, record and tasks agree |
| `firmware_guard` | the same | - | violation, finding 2 |
| `playback` | one session place, 2 frames, the last perhaps cut; buffer and both queues 1 | 300,743 | an answer is heard, memory and output have one user, a playback ends |
| `listening` | pre-roll 1, hold 2, 2 faults, 2 questions, 2 presses | 132,109 | one user of the microphone, whole speech, listening again |
| `network` | 2 networks, room for one, 1 exit task at a time | 110,090 | credentials, truth of the prompts, outages, setup |

### 3.1 The audio queue

- `QueueInv` is the inductive invariant: byte count, history and flags agree,
  and however `put` sleeps and wakes, the queue never holds more than its bytes.
- `EndMeansAll`: when a reader is told end-of-stream (rather than cut off by a
  cancellation), every accepted chunk has been handed out.
- `NoHookForgotten`: a close hook registered while the canceller collects them
  is not left waiting, and none runs twice.
- `ImplementsStream`: refinement of `AudioStream`. Its phase is mapped from the
  flags: `revoked` or an event seen cuts the stream, `finished` ends it.
- `NobodyStaysBlocked` (liveness): a cancellation or the end of the answer wakes
  every thread that waits.

*Bounds.* A queue of two bytes and chunks of 0, 1, 2 and 3 bytes give the empty
chunk, one that fits, one that fills, one that must wait and one larger than
the queue. Three puts let the queue fill, empty and fill again; two readers
contend. The proofs cover every other value. `CHECK_DEADLOCK FALSE`: the queue
of a finished turn does stop.

*Fairness.* The worker's next step, `get` of a reader that has come, the
waiter, the registered hooks and a canceller that has begun. These are threads
of one process with timed or notified waits. Nobody is obliged to read or to
cancel; that a worker goes on is assumed here and *not* in the conversation.

### 3.2 The conversation on the server

- `EventsInOrder`: the run loop, the finish task and the cancel thread each
  send events of one turn, yet the device sees `asr_final`, then one
  `turn_result`, then one terminal event, and nothing after it.
- `CancelIsBarrier`: once `turn_cancelled` is sent no result follows, and what
  the context remembers of that turn is marked interrupted.
- `WithinTurnLimit`, `ProcessTurnAccepts`: limits that grow and shrink with the
  game mode, a second attempt after an empty recording, and the budget never
  disagree: a turn that was allowed to start is never refused by the budget.
- `ContextInOrder`: a worker that outlives its failed turn does not commit over
  the turns that follow. The order is that in which the turns were started, kept
  by the history variable `earlier`; that of the indices may be another one
  (section 4).
- `NoOrphanInTime`: a conversation closed before its deadline leaves no worker
  it has not told to stop.
- `EndedTurnIsAnswered`, `StopEnds` (liveness): although the worker may hang
  for ever, a stop ends, and a turn that has ended is answered. The exception is
  `GivenUp`: a turn that failed while its worker is in a call which outlasts the
  join. Its finish task ends by a `TimeoutError` that nobody catches, and the
  device is told nothing (section 4).

*Bounds.* Three ids give a turn, its second attempt and a further turn; limits 1
and 2 make the limit grow during a game and shrink below the turns already
counted. Symmetry of turn ids is used only in the safety run. Liveness is
checked with two ids. With these limits no turn follows at a higher index while
an empty one can be tried again; the proofs cover that and every other number.

*Fairness.* Finish tasks, error threads, the cancel thread and `close()`: one
event loop that nothing blocks, and timed waits. Nothing is assumed of the
device, of the worker, or of the deadline.

### 3.3 Both ends together

- `InStep`: wherever the loop is, the controller is in the state from which the
  loop's next event leads on, so no event is silently ignored.
- `HealthyConversation`: while nothing fails or is late, no control is refused
  and no event arrives for a turn the device has left.
- `StartWillBeAccepted`: a `turn_start` in flight has the index, the state and
  the limit the server requires, though each side counts for itself.
- `DeviceComesBack`, `ServerLetsGo` (liveness): with one failure at any point,
  lost link included, and with any waits timing out, the device returns to
  idle and the server closes the conversation.

*Bounds.* Two attempts at each of two turns need four ids. `MaxFailures` bounds
the failures of a conversation: none in the safety run, which asks what two
healthy ends do under every timing, one in the liveness run. The
messages in flight need no bound: both sides wait for answers.

*Fairness.* The device's loop goes on (all its waits have deadlines, so a wait
may end by its flag, by a failure or by timeout), the server reads what arrives,
notices a lost connection, and finishes what it has begun to stop. Nothing is
assumed of the worker or of the finish tasks.

*The history variable `timely`* becomes false when a wait times out, or when the
device reports an answer as played before the worker has committed it. The
second is a real window of the code: between the last chunk and the commit the
turn's limit is not yet stored.

### 3.4 Prompts

- `ArbiterInv`: the inductive invariant.
- `NothingLost`: a network prompt that stays true is never lost, however often
  the owner takes it and puts it back.
- `WaitTellsTruth`: `wait_key` answers "ok" when its prompt is neither pending
  nor the last one played; the model shows that it was nevertheless played.
- `NoSleepOverWork`: the owner leaves its loop after putting a prompt back, yet
  never sleeps on a prompt it could play.
- `CueIsHeard`, `DeferredIsPlayed` (liveness).

*Bounds.* The code's generation counters give every outage keys of its own; one
outage and its end are enough for every order of the two. A table of 3 for 4
prompts can be full, so that a submission is refused or a prompt finds no room
to go back to; the code has 8 entries, the proofs cover every number.

*Fairness.* The owner task, a wait whose prompt is done, and notifications about
to be given. No timeout is relied on, and no caller is obliged to speak.

*The history variable `late`*: after a wait has timed out, its prompt stays in
the table and may be played in a later state of the conversation. The
properties claim nothing from then on; this is listed as a hazard.

### 3.5 Firmware update

An update asks for the manifest once the device is idle, begins to write the
spare slot (`esp_ota_begin`, which may refuse), downloads, stores the record key
by key and switches the slot; it may give up at each of these steps.

- `UpdateInv`: the inductive invariant: slots, record and tasks agree.
- `AlwaysBoots`: whatever step the power failed in, the boot loader finds a
  complete firmware. The code never checks this itself: it rests on
  `esp_ota_begin` refusing to overwrite while a firmware is on trial.
- `TrialIsNamed`: the record is overwritten key by key over one that may never
  have been cleared; a complete one that points to the firmware on trial still
  names that firmware's release.
- `TrialEnds` (liveness): a firmware on trial under the watchdog is marked valid
  or left.

*Bounds.* Two releases besides the factory firmware let a record of one be half
overwritten by the other. Power failures are unbounded.

*Fairness.* The watchdog alone: a delay and a restart.

### 3.6 Playback

- `SpeakerHasOneUser`: a session's task, the task of the prompts and the
  pipeline task open and close the output, and none of them asks whether
  another does. As long as no playback is given up, no two do at a time.
- `NothingFreedInUse`: what is allocated is what a queue holds or a task has in
  its hand. When a session's task leaves the stack frame it shares with its
  helpers, both have published their end and the queues are empty; what a helper
  may still do there is clear its handle, as the code lets it (section 4). A
  session is not freed while its task closes the output, and the jitter buffer
  is not deleted under its task or under a write.
- `HeardWhole`: when the conversation is told that an answer was played, the
  codec got every frame of it, once and in order. The exception is an answer that
  ends within an Opus packet: the code means to report it as an error and does
  not (section 4), so it is told as played although its last frame was not heard.
- `PlaybackSettles` (liveness): a session that was begun is freed and the
  conversation goes on, also when the connection only stays silent. The exceptions
  are named: the device restarts because the reaper has no room; the session's
  task deletes itself in the place of a helper, and is never freed; or `Accident`,
  where the code gives no guarantee any more: the stream task is deleted twice
  after a playback was given up, a helper is deleted twice, or it writes into a
  frame its owner has left. Section 4 has each of them.

*The history variable `left`* becomes true when a session is handed to the
reaper. From then on the next answer may open the output that the first still
has: the code accepts this as the lesser evil, and `SpeakerHasOneUser`,
`HeardWhole` and the part of `NothingFreedInUse` about the jitter buffer claim
nothing. The part about packets and the frame goes on.

*What a late step may do.* A write into a frame that was left, or a second
deletion, may do nothing or anything: the step sets `corrupted` or leaves it, and
what follows is explored either way, except that nothing follows `corrupted`.

*Bounds.* Two frames are one more than the jitter buffer and one more than
either queue holds, so that every sender waits at some time. One place for a
session, used again and again; the proofs cover every other number.
`CHECK_DEADLOCK FALSE`: a restart (`esp_restart` when the reaper's queue is full)
or an accident ends the behaviour.

*Fairness.* Each task goes on and each limit on a wait expires. The pipeline
task is not obliged to ask the next question.

### 3.7 Listening

- `MicHasOneUser`: the conversation does not wait for the wake word service to
  give the microphone back; it is nevertheless never open twice, in either order.
- `SpeechIsWhole`: what the sink is given begins with what was said just before
  speech was found, and goes on without a gap, a repetition or a swap; only
  what the driver itself dropped, and no more than that, is missing.
- `ListensAgain` (liveness): whatever conversations, settings and failures come
  in between, the service listens again and again, unless the recogniser could
  not be loaded.

*Bounds.* A hold of two chunks tells speech from a noise; a pre-roll of one is
shifted while the device waits. Two faults let a failure meet the recovery from
another. `MaxLost` is one chunk dropped by the driver while a turn is opened
(section 4); a second one would be counted in the same way.

*Fairness.* The tasks and the codec go on, and the time until the next attempt
to start the service passes. Nobody is obliged to speak or to press a key.

### 3.8 Network

- `CredentialsSurvive`: whenever the power fails, a restart finds the list that
  was last saved; a save that fails leaves the device with the list before it.
- `FlagIsTrue`: once no callback is on its way, the prompts know whether the
  device is connected.
- `PortalKeepsItsSession`: an exit task that comes late does not close the portal
  of a later session.
- `OutageIsTold` (liveness): a network that stays away is announced, though the
  outage task reads the state, waits, and reads it again.
- `SetupContinues` (liveness): once an exit of the current session is scheduled,
  the device goes on with what was set up.

*The history variable `unnoticed`*: a network lost while outages are suppressed
(between the disconnection for a portal and the end of the setup) is not
announced; see section 4.

*Bounds.* Two networks and room for one, so that a second one replaces the
first; the order within longer lists decides only which network is tried first.
`MarkedIsByLastSuccess` and `RankedIsByStrength` in `MCNetwork` check the two
orders against their definition for every list of up to three, and section 5
proves them for lists of any length. Times of last success are only compared, so
ranks stand for them. Power failures, failing
saves, outages and uses of the portal are unbounded; `MaxExits` is one exit task
at a time, which may outlast its session.

*Fairness.* The device's tasks, the steps of a save and the callbacks. Not the
user, the networks, the power. The station's scanning and joining need none.

## 4. What was found

1. `conversation_cancel`, `CancelledTurnIsOver`: a cancellation that completes
   while `asr_final` is being sent is undone by `process_turn`, which sets the
   status to "processing" without looking. The device is told
   `turn_cancelled`, and every later `turn_start` is refused with
   `active_turn_exists` (`services/conversation_v6.py:235`).
2. `firmware_guard`, `TrialIsGuarded`: a confirmation or validation still under
   way erases the record the next update has just stored. The new firmware then
   runs on trial with no watchdog, and never validates itself
   (`main.c:2299`).

Met while modelling, and contradicting nothing that the repository says:

- Past its deadline `begin_cancel` raises before it revokes the audio; `close()`
  swallows that, and the worker runs on (`services/conversation_v6.py:260`).
  `NoOrphanInTime` therefore speaks of conversations closed in time.
- A turn that fails while its worker hangs is not answered:
  `complete_technical_error` raises the `TimeoutError` of the join again
  (`services/conversation_v6.py:217`, 363), `_finish_turn` catches only
  `ProtocolError` there (`realtime_v6.py:588`) and the callback of the task drops
  it (line 395). The device hears of it by its own timeout only.
- An answer that ends within an Opus packet is reported as played. The check that
  makes it an error (`cloud_client.c:3103`) looks at `pending_len`, which the
  cleanup at line 3080 has set to zero, so it never finds anything.
- A helper of the playback sets its `done` flag and then clears its handle in its
  owner's stack frame (`cloud_client.c:1422`, 1482). The owner waits for the flag
  only and may have returned, and the frame may belong to something else.
- When the join expires, the owner looks at flag and handle of each helper and
  then deletes the task of that handle, read again (`cloud_client.c:3068`). If the
  helper ends in between, it is deleted twice, or the handle is NULL by then and
  the owner deletes itself: the session stays, and the conversation hands it to
  the reaper.
- Once a playback was given up, its task and the next user may both wait in
  `audio_out_close` for the same stream task, and both delete it
  (`audio_out.c:1016`).
- After a packet is queued, its length is read for the metrics, when the task
  behind the queue may have freed it (`cloud_client.c:1090`, 1288, 3011).
- A wake word heard while the Wi-Fi settings are being entered is acted upon
  after them (`wake_word_service.c:550`); one failure to load the recogniser
  leaves the wake word off until a restart.
- Between waiting for speech and recording it nobody reads the microphone; if
  opening the turn takes longer than the driver buffers, the words in between
  are lost (`main.c:640`).
- A reconfiguration that fails leaves the portal open with nobody waiting for
  it; an exit from it then leaves the station off (`app_network.cc:374`, 391). A
  stale exit bit may end the wait for a portal just opened
  (`wifi_manager.cc:301`).
- An index whose only recording was empty may be used again at any later time,
  not only next: the device may go on to the following index and come back
  (`services/conversation_v6.py:176`). The device of this repository never does;
  what is remembered is then in the order spoken, not in that of the indices.
- A network lost before outages are unsuppressed is never announced
  (`app_network.cc:115`).
- An error in reading which slot is active counts as "none"
  (`wifi_credential_store.cc:121`, 314). `WifiManager::Initialize` erases NVS,
  credentials included, when it has no free pages (`wifi_manager.cc:74`).

## 5. What is proved

For every value of the constants that satisfies the stated assumptions.

| theorem | states |
| --- | --- |
| `AudioQueueProofs!Invariant` | `Spec => []QueueInv` |
| `AudioQueueProofs!EndOfStream`, `HooksAccounted` | `EndMeansAll`, `NoHookForgotten` |
| `AudioQueueProofs!Refinement` | the queue implements `AudioStream` |
| `PromptArbiterProofs!Invariant` | `Spec => []ArbiterInv` |
| `PromptArbiterProofs!TellsTruth`, `NeverSleepsOverWork` | `WaitTellsTruth`, `NoSleepOverWork` |
| `PromptArbiterProofs!NothingIsLost` | `NothingLost`, if the table has room for the network prompts and one more |
| `FirmwareUpdateProofs!Invariant` | `Spec => []UpdateInv` |
| `FirmwareUpdateProofs!Boots`, `Named` | `AlwaysBoots`, `TrialIsNamed` |
| `ConversationV6Proofs!Invariant` | `Spec => []ConversationInv` |
| `ConversationV6Proofs!InOrder`, `Barrier` | `EventsInOrder`, `CancelIsBarrier` |
| `ConversationV6Proofs!InLimits`, `Accepted` | `WithinTurnLimit`, `ProcessTurnAccepts` |
| `ConversationV6Proofs!Remembers`, `NoOrphans` | `ContextInOrder`, `NoOrphanInTime` |
| `ListeningProofs!Invariant` | `Spec => []ListeningInv` |
| `ListeningProofs!OneUser`, `Whole` | `MicHasOneUser`, `SpeechIsWhole` |
| `ListeningProofs!Typed` | `TypeOK`: types, and the limits of every count |
| `NetworkProofs!Invariant` | `Spec => []NetworkInv` |
| `NetworkProofs!Survives`, `FlagTells` | `CredentialsSurvive`, `FlagIsTrue` |
| `NetworkProofs!KeepsSession` | `PortalKeepsItsSession`, of every step |
| `NetworkProofs!MarksLatestFirst` | what `Marked` returns: the same networks, the latest joined first |
| `NetworkProofs!RanksStrongestFirst` | what `Ranked` returns: the known networks heard, the strongest first |
| `NetworkProofs!TriesOnlyKnown` | what the station tries is in the list in hand |
| `NetworkProofs!Typed` | `TypeOK`: the lists name no network twice and fit in the store |
| `PlaybackProofs!Invariant` | `Spec => []PlaybackInv` |
| `PlaybackProofs!QueuesBounded` | types and lengths of the queues |
| `PlaybackProofs!OneUser`, `NotFreedInUse` | `SpeakerHasOneUser`, `NothingFreedInUse` |
| `PlaybackProofs!ToldMeansHeard` | `HeardWhole`, of every step |
| `VoiceLinkProofs!ServerAlone` | `LinkSpec => Spec`: all that is proved of `ConversationV6` holds here too |
| `VoiceLinkProofs!StaysInStep` | `InStep` |
| `VoiceLinkProofs!LinkInvariant` | `LinkSpec => []LinkInv` |
| `VoiceLinkProofs!HealthyConversations`, `TurnStartsAccepted` | `HealthyConversation`, `StartWillBeAccepted` |

**Audio queue.** Assumptions: the capacity is positive, chunk sizes are natural
numbers. What was accepted is what was handed out followed by what is queued,
as long as the turn is not revoked; the byte count is what is queued, and never
above the capacity, because between the reading that found room and the append
the worker holds the lock. A hook is registered, about to be called, or has been
called once. The refinement adds that `finished` is set by the worker alone, so
nothing is accepted after it.

**Prompts.** Assumptions: kinds of prompts are disjoint and the capacity is
positive; `NothingIsLost` adds `RoomForNetwork`, that the network prompts
are finite and fewer than the entries. `WaitTellsTruth` is not inductive: it
needs that the only prompt of the conversation anywhere is the awaited one
(`OnlyTheAwaited`), that it is pending until heard, and that once it is heard
its result stays the last one, because the owner then has nothing else it may
play (`PendingUntilHeard`). `NoSleepOverWork` needs `NotifiedBehind`: if the
owner holds a network prompt while one of the conversation is in the table,
the notification for the latter is still to be consumed. `NothingLost`
adds a count: there is always room to put a network prompt back, for the table
holds at most one cue.

**Firmware update.** Assumptions: the factory firmware is no release. While an
update is written before its switch, no slot is on trial (lemma `NotOnTrial`), so
the slot it erases is not the one to go back to. A slot on trial always has a
complete one beside it. A firmware on trial is the one selected, and the
record's release is its own or erased, since the release is the second key
stored, before the slot is switched. Lemma `Restarts` says what the boot loader
makes of these in each case, power failures included.

**Conversation on the server.** Assumptions: turn ids are finitely many, the
default limit is positive and at most that of a game. Of each turn, `TurnInv` and
`WorkerInv` say which states of the state machine, the status, the finish task
and the worker go together: a cancelled turn has no worker at work, because
the join came before; a committed one can still be cancelled only while its
worker is past the answer. `SentInv` lists the prefixes a device can have been
told; a turn that can still be told something terminal (`Untold`) is not
completed, except while a technical error or the reply to a cancellation is on
its way, and these two exclude each other by the state they need. `StopInv` is
about the cancellation under way, `CloseFinds` about those of `close()`: a
worker that is queued or at work is on the list, found already, or revoked.
The order of what is remembered needs two facts about several turns.
`OneAfterAnother`: a turn that is active, or whose `asr_final` is being sent, is
the last one started; for a turn cancelled in that window this holds only
because the run loop waits for the send lock before it accepts a `turn_start`.
`OneWorker`: while the thread serves a turn, those after it have not been
served. So whoever is remembered started before the one remembered next
(`ContextInv`). The budget suffices because accepted turns have indices of their
own: an injection into the indices, of which there are at most the limit.

**Listening.** Assumptions: sizes are natural numbers, the hold is positive, a
recording has room for pre-roll and hold and more, as the constants of `config.h`
have. `UserInv`: a pipeline task
begins only where the feed task is gone, and wherever the runtime task may start
the service again no pipeline task runs, since events are accepted only then.
`CaptureInv`: while the device waits, the pre-roll buffer holds the chunks read
last without a gap; once speech is found it starts at the onset; from then on
what was sent, followed by what is in hand, goes on in order from the onset, and
the next chunk is the onset plus all of these plus what the driver dropped.

**Network.** Assumptions: positive capacity and signal strengths, a
number of exit tasks. `SavedInv`: the list in flash that a restart would load is
the one last saved, at every step of a save, because the slot in use is readable
before the spare one is given up; `MigratingInv` treats the one time this is not
so, the move from the earlier firmware's format, whose list counts until it is
stored. `StationInv`: nobody but the runtime task starts the station, and only
with the portal closed. `FlagInv` and `ExitsInv`: the flag follows the callbacks,
and an exit that is current belongs to the portal now open. The types rest on
what each operation returns for a list of any length that names no network
twice (`AddedList`, `RemovedList`, `PreferredList`, `MarkedList`). The two sorts
share `StableOrder`: `OrderIs` proves that it is a permutation which puts one
entry before another exactly where `std::stable_sort` would, by counting the
entries ahead of each. `TriesOnlyKnown` needs `FormInv`: a request to the portal
that is saving keeps the station off, as the runtime task waits for it.

**Playback.** Assumptions: the sizes of queues and buffer are positive, every
answer has a frame, and the arbiter's task, the pipeline's and those of the
sessions are different ones. Any number of sessions and frames. `PlacesInv`: an
owner that has joined its helpers, or deleted them, finds them past their work
(`Ended`), and the queues it leaves are empty. `UserInv`: unless a playback was
given up, the pipeline joins the only session that is not at rest, and waits for
whoever else has the output. `SpeakerInv`: a close that waits has a stream task
to wait for. The answer itself is followed by three numbers per session,
`a <= b <= c` (`OrderInv`): the frames up to `a` were given to the sink, those
between `a` and `b` are in the second queue, those up to `c` were taken out of the
first one, and what is allocated (`MemoryInv`) is what these queues and two hands
hold. `QueueFlow` adds, for a playback of which nothing has failed, that no frame
is left out between `b` and `c` but a last one found to be cut (`Last`; none is
found before the answer is asked for, `UncutInv`); `SpeakerFlow`, that what was
put is what was heard, what is in the scratch buffer and what is in the jitter
buffer, in this order, and that a stream that ends has left nothing behind. So
when the close is done all of it was heard, and nobody touches the output until it
is told (`HeardInv`). The last steps of the helpers change nothing of this
(lemma `Ending`); that they come in time is not claimed, see section 4.

**Device and server.** Assumptions: those of the server, and that the limit of a
game is below 256, because the device keeps indices and limits in a byte.
`DeviceInv`: the place in `run_v6_conversation` fixes the state of the
controller, and what the device sends is about turns it has begun; it holds
whatever fails. `ServerAlone`: an index the server lets in is below the limit,
so a control that is read is a step of `ConversationV6`. `HealthyInv` is about a
conversation in which nothing has failed, timed out or come late: it is then at
one of fifteen places (`Somewhere`), from `NotBegun` to `Gone`, each of which
says where the device is, how far the server is with the turn (`Hearing` to
`Over`), and what is in flight; earlier turns are over, though their workers may
still be remembering them (`AtRest`). The two ends number turns without telling
each other, so the places carry what each may assume of the other: the device
asks for an index that is new, or for the last one again, whose only turn was
empty (`Asking`); the limit that `turn_complete` told is at most the one the
server now has, and the sum the device compares with it does not wrap (`GoesOn`).

**Only model-checked.** All liveness: fairness and `ENABLED` are out of this
prover's reach. The runs that expect a violation. Induction over data is out of
reach too; no property here needs it (for finite orders, that a set of numbers
has a least one is enough), and the modules proved about use no recursive
operator.

## 6. What the models leave out

- **ConversationV6.** Upload frames, their sequence numbers and the codec: the
  recogniser's outcome is free. A refused control changes nothing and is not a
  step. Methods of the state machine are atomic; a revocation is one step
  (`AudioQueue` splits it). Queued workers run in any order. The close handshake
  is merged. A re-sent, cached `turn_cancelled` is not recorded twice. Keepalive
  pings, audio grants and the registry are left out.
- **DeviceConversation, VoiceLink.** Recording, prompts and playback are
  outcomes. A send that fails is a message lost. The controller's deadlines are
  waits that may time out. Turn ids are fresh. A lost link keeps any prefix of
  what was in flight. One conversation at a time.
- **PromptArbiter.** The table is a set (which entry is free does not matter);
  prompts of equal priority come in any order. `prompt_arbiter_wait_idle`
  changes no state.
- **Playback.** Whole files (an answer by URL, a WAV), the boot sound, volume.
  Failures to allocate end as a refused connection does. A locked section of
  `audio_out.c` is one step, so no helper is deleted while it holds the output's
  mutex. A helper's lines after its handle is cleared are part of its deletion.
  A second session detached
  while the reaper still joins the first is beyond TLC (over ten million states).
- **Listening.** The direction of the voice, the key and touch triggers, recording
  into a buffer, the microphone probe. Of a chunk only its loudness is kept.
- **Network.** SmartConfig (never started), the advanced settings page, the DNS
  server, lengths of timers, texts of prompts, the erasing of NVS. The bit "no
  candidates" only shortens a wait. The two slots are named for their part, the
  one in use and the spare one.
- **FirmwareUpdate.** The build with boot switch, rollback validation and the
  boot loader's rollback. NVS reads and `erase_all` are atomic, stores are key by
  key ("release" includes the version, "slot" the address, "rest" is the
  checksum). The artifact is content; what is wrong with it is a failure of the
  download. The boot loader and `esp_ota_*` are external: modelled as the
  firmware uses them. `esp_ota_mark_app_valid_cancel_rollback` marks the running
  slot, which is what the firmware asks it for; the library marks the active entry
  of otadata, which is another one if the update task has switched just before.
  The label `last_stage` and reports that decide nothing are
  left out; so are read errors other than "not found".
- **Not modelled at all.** v3/v5 realtime: the older protocol, which the default
  build of this firmware does not speak. Task pipeline: one job per task, in
  sequence, not retried. Pets and games: an event is recognised and applied in one
  transaction. Routing, navigation, retrieval, demo, display: no state worth
  exploring. Providers: outcomes. Vendored components: third-party,
  `esp-wifi-connect` apart.

## 7. Plan

Done, in this order: the audio queue with its refinement; the conversation on
the server; the device and both together; prompts; firmware update; proofs
for the queue, the prompts and the update; playback, listening and the network;
the steps of an update.

Proofs for the network, listening, the conversation on the server, the playback
and the device with the server followed, then the types of the last two modules
and the two sorts of the network list. Every safety property of a run that
passes is now a theorem.

Next: lemmas about what a healthy conversation of both ends says of the turns
themselves (each turn heard is remembered once), and of the places an update
can be at when the power fails.

No component is left whose concurrency is its own and not explored. Should the
upload frames gain a retry, or the reaper more than one place, these come first.
