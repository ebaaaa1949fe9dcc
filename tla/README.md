# Vigilume NVR in TLA+

Vigilume is a network video recorder: a FastAPI backend on one asyncio loop that
detects objects in camera streams, records footage, stores events in SQLite,
notifies phones, and answers doorbells. These modules model its own control
logic, TLC checks them on small instances, and TLAPS proves the results listed
under *Proofs* for every value of the constants. `PROJECT.json` maps every
definition to the lines it stands for.

    tlc -workers 2 -config lifecycle.cfg MCEventLifecycle      # one run
    tlapm EventLifecycleProofs.tla                             # one module of proofs

## The system

Paths are relative to `src/backend/app/`.

| Part | State it keeps | Operations | Module |
|---|---|---|---|
| Detection engine `native/engine.py` | `_events`: one open event per (camera, label); `last_seen`; enabled cameras | `process` (a frame), `_housekeeping` (2 s), `reload`, `stop` | EventLifecycle |
| Event pipeline `events_pipeline.py` | `_active` (per-event flags), `_cooldowns`, `_tasks`, `_doorbell_recording_cams` | `handle_event` new/update/end, enrichment and notification, `handle_doorbell` and its supervisor, `shutdown` | EventLifecycle, Doorbell |
| Doorbell watcher `amcrest/doorbell.py` | one task per doorbell | awaits the press handler inline; `sync` after a camera edit | Doorbell |
| Recorder `native/recorder.py` | `_cams`, `_purge_lock`, clip tasks, export futures and cache | `reload`, `purge_all_recordings`, `stop`, the supervisors; exports, retention; clips | Recorder (capture), Footage (exports) |
| Transcoder `native/transcode.py`, `routers/recordings.py` | builds in flight, LRU of H.264 segments | playback, export, eviction | Footage |
| Privacy Mode `privacy.py`, `routers/privacy.py`, `routers/groups.py` | the persisted document, the resolved set | load, save, resolve, refresh, apply, acknowledge | Capture; as an environment in EventLifecycle, Doorbell, Recorder, Talk |
| Live streams `native/streams.py` | go2rtc's file, what it was last told | `apply` and its two ways of syncing | Streams, in Capture |
| Ingest `native/ingest.py` | sources and children, worker, gates | `reload`, the worker's pass, the supervisor | Ingest, in Capture; AiTrigger, Models, Coral for what it calls |
| Camera-side AI events `amcrest/ai_events.py` | watchers; connection clock, trigger window | `sync`; connect, pull, renew, failsafe | AiListener, in Capture; AiTrigger |
| Detector, model store `native/detector.py`, `native/model_store.py` | files, session, downloads in flight | download, activate, delete, bootstrap, swap, rebuild | Models |
| Edge TPU `native/coral.py` | fleet, pool, health | `detect`, `_release`, `reinit`, `reconfigure` | Coral |
| Spotlight `native/spotlight.py` | `_on`, `_timers` | person, hold, off, sync | Spotlight |
| IR reassertion `amcrest/ir_reassert.py`, `routers/cameras.py` | pins per camera, pending hook | connect hook, sweep, settings, probe, delete | NightVision |
| Notifications `notify/` , `routers/notifications.py` | registrations | register, fan out, retry, prune | Push |
| Talk `routers/talk.py`, `amcrest/backchannel.py` | lock per camera, queue, sender task | dial, chunk, stop, drain, hang up | Talk |
| Push relay `src/relay/main.py` | sliding windows, key table, breaker, semaphore | admit, evict, wait, forward | Relay |
| Process `main.py` | construction and teardown order | boot, exit, forced exit | in EventLifecycle, Doorbell, Capture |
| Database `db.py` | event rows, cameras, registrations | insert, update, lookup, sweep, upserts | in the modules that use them |
| Camera health, camera CGI, WebSocket hub, settings, users, clients | little control state, or pure I/O and user interface | | see *Not modelled* |

How they interact: ingest hands frames to the engine; the engine awaits
`handle_event` of the pipeline from two coroutines, the inference worker and the
housekeeping task; the pipeline writes rows, publishes to MQTT and WebSocket, and
spawns tasks for enrichment and senders; after "end" the engine asks the recorder
for a clip. A doorbell watcher awaits `handle_doorbell`, which spawns a
supervisor that polls the engine's person count. `privacy.apply` runs the
reconcilers (go2rtc, engine, recorder, AI events) and then cancels the pipeline's
tasks; a camera edit runs the same reconcilers and restarts watchers.

What is hard: everything is one thread, so the races are between *awaits*: a
state read before one and used after it, "end" overtaking "new", a task cancelled
where it awaits (or before its first step, when not even its `finally` runs), a
crash between two writes, and a privacy toggle that must have stopped everything
by the time it is answered. `PROJECT.json` lists these hazards at their lines.

## Reading the models

An action is the code between two awaits of one coroutine, with everything it
changes. A program counter (`emit[p].pc`, `task[t].pc`, `handler[c]`, `sup[e]`,
`op[o].pc`, `req[r].pc`) says at which await a coroutine is; the actions after it take it on.

- A database call takes effect where it is submitted: one aiosqlite connection
  runs the calls in that order. A file write takes effect when it is handed to
  its thread, which a cancellation does not stop.
- Cancelling a task is one action with the `finally` it runs; a task that has not
  run a step is just gone.
- Scores, boxes, zones, message texts and paths are data no property tells apart
  and are left out; a rule over them (heartbeat, score gate, minimum hits) is a
  choice.
- `private` is the resolved set, `acked` the set of the last answered POST,
  `phase`/`boots` the process. One administrator acts at a time.
- Operators named `Fault...` are not part of the model. Each is a plausible bug
  in the definition that follows it and shows that a property can fail.

### EventLifecycle

`open[k]` is the number of the event in `_events[k]` (0: none), so an event id is
`<<k, n>>`, never reused, as `_make_fid` never repeats. `quiet` are the keys whose
`last_seen` is `ABSENCE_TIMEOUT_S` old. `scan` is housekeeping's copy of the
table, with the verdict the copied entry would get: the loop awaits inside
`_end_event`, then judges the next *copied* entry and ends whatever the key then
has. `HandleNew/Update/End` are the handlers up to their first await,
`NewInsert` ... `EndDone` the rest (`Publish` is the await of MQTT in each), `Enrich*`
the enrichment task, one action per await: `EnrichGate` is the privacy gate of
`_send_notification`, `EnrichPush` the push itself once the subscriptions have been
listed; an exception in it is `EnrichFail`. `Slots` bounds the pipeline's tasks.
`Spawn` waits for a free slot, which only delays a handler. APNs and ntfy are one
`sender`. `FallSilent` may come at any time: `last_seen` is the time of the frame, an
inference alone may take `DETECT_TIMEOUT_S` (8 s), and `ABSENCE_TIMEOUT_S` is 5 s, so
an event may be ended while the worker is still reporting its last frame.

Three action properties say what becomes of an event in the end, each as the complete
list of the ways in which it goes wrong. `Rows`: a row loses what would have closed it
(an open event, or a handler at its lookup) only as its "end" is dropped at the privacy
gate (`Dropped`), as the worker reports an event that housekeeping has ended
(`LateReport`), or as the process stops or dies. `Entries`: an entry of `_active` loses
what would have popped it in the first two ways only, or with a final enrichment that is
cancelled before its first step. `Sensors`: a binary_sensor stays ON in the first two
ways, by an event that ends without a row, or at a stop. Every way is needed: TLC finds a
violation of the property without it.

EventRecord is what a client of the API is promised of an event, with none of the
machinery: the row opens and closes once, a picture and a push are of an event that
has a row, `has_snapshot` follows the file, one push at most. EventLifecycle keeps
its four variables under the same names; `ImplementsRecord` says that each of its
steps is one of EventRecord's or changes none of them.

### Doorbell

`handler[c]` is the watcher inside `handle_doorbell`; `sup[e]`, `age[e]`,
`seen[e]` the supervisor of a press, its time since the press and since the
visitor was last seen. Time is in ticks, and a tick does not pass before every
supervisor has polled (the period is 1 s). `row[e]` distinguishes how a row was
closed: `marker` (at the press, no clip), `visit`, or `swept` at boot. `Ring` spawns the
ring and passes the gate of `_send_notification`, `Send` hands the web push to its
threads once the subscriptions have been listed, `Alert` spawns the phone channels: a
toggle may come between any of them, and as the handler is the watcher's, the drain of
`pipeline.shutdown` does not cancel it (see *Also seen*).

VisitRecord is what a client is promised of one press: its row is entered once and
given an end once; it is filmed once at most, while its row is open and no other press
at that camera is; only a visit filmed to its end becomes a clip; a browser is told, a
phone rings and is alerted once at most, the alert after the browser. Interruptions
(privacy, exit, crash) may cut any of it short. `ImplementsVisit` maps the stages of a
supervisor to "on", "done" (to its end, no clip yet) and "over", and the senders that
are through to what has been rung and alerted.

### Recorder

`sup[c]` is the supervisor `_run_camera`: spawning its ffmpeg child, watching it,
killing a hung one, backing off. `op[o]` is the reload of a camera edit or of a
privacy toggle, or the purge; all hold `_purge_lock`, stop cameras one by one
awaiting each supervisor, and (re)start the wanted ones. `leaving` are cameras
whose cancelled supervisor still terminates its child, `orphan` those whose child
was abandoned between SIGTERM and SIGKILL. `exit` is `stop()`, which takes no
lock. Edits, toggles and purges are one of each kind at a time (a second purge is
refused by the code); ffmpeg is installed; SIGKILL ends a child.

### Capture, with Streams, Ingest and AiListener

Capture composes the three parts that a camera's pictures go through and the
requests that reconcile them. Each part is a module with its variables and the
steps of its calls; Capture instantiates them and owns the tables (`rows`,
`members`, `doc`, `default`), the resolved `private` set, and `req[r]`: where the
coroutine of each request is and what it had read by then. `Post` ... `Answer`
are the awaits of `set_privacy`, `refresh` and `apply`; `CameraPut`, `GroupPut`,
`SettingsPut` and `Learn` the other requests that run the same reconcilers.
`Streams` keeps the file, what go2rtc serves, and the last configuration `apply`
remembers; `Ingest` the sources with their children, the one worker with the
frame it holds, the engine's latest frame of each camera; `AiListener` its two
tables of watchers. `Crash` is `main.lifespan` starting over.

### The parts that share nothing

Nine components run beside the pipeline without sharing state with each other.
Each is a module of its own, and MCServices lets TLC explore all of them in one
run, one at a time: `component` says which, the others stand still.

- **Relay**: `Arrive` is all of a request up to its first await (both windows, the
  key table, the breaker). `Serve` hands free slots to those who wait the longest,
  `Enter` is the handler going on with the slot it was granted, `GiveUp` the timeout of
  `wait_for`, which may come in the instant of the grant and then gives the slot back,
  `Apple` the answer with the `finally` that releases the slot. A deque is the set of
  requests whose hits it holds; `at` remembers when each was counted.
- **AiTrigger**: one watcher's connection, pulls, renewals and backoff against a
  camera that may go silent, or let a call hang (`Hang`; the SOAP calls have no
  time-out); `ShouldInfer` is ingest's gate.
- **Push**: `leg[a][k]` is one `_send_one` of a fan-out, with retries; a delivered
  push may look failed. `refused` remembers what a send was told.
- **Models**: a worker per model, the three tasks that bring a session up
  (`start`, `reload`, `reinit`), the routes, the ingest worker and its supervisor.
  A cancelled worker raises CancelledError in whoever awaits it, and `Killed`
  says what that ends.
- **Coral**: threads that check devices out of the pool they found, rebuilds that
  start a new generation, devices that come and go.
- **Spotlight**: `until[t]` is a hold task; each call to the camera is a task that
  may land late or never.
- **Talk**: the handler's loop in quiet seconds, the queue, the sender; `left`
  counts down the drain and the teardown.
- **NightVision**: every write to the camera is a step and may fail; the camera
  falls back to its defaults with each new RTSP session.
- **Footage**: segments appear and go; requests join the build in flight; a build
  is queued, listed, encoded, renamed and published into a bounded cache, while a
  purge wipes the three directories one after the other.

## Runs

Every passing run explores its instance completely.

| Run | Instance | What it shows |
|---|---|---|
| `lifecycle` | 1 key, 2 events, 2 tasks, toggles, edits, late frames; crash and 2 boots, within `EventsApart` | a row stays open, an entry of `_active` or a sensor is left behind only in the ways `Rows`, `Entries` and `Sensors` name |
| `lifecycle_host` | 1 event, toggles, edits, crash, 2 boots; 2 labels with an event each, within `KeysApart` | no task writes or sends anything of a private camera after the acknowledgement; enrichments of one event do not overlap; a flagged row has its file, across a crash; what becomes of an event is what EventRecord allows, one notification included |
| `lifecycle_live` | 1 event, 2 tasks, fair | an event whose object has gone ends, and its memory is given back, though no frame ever comes again |
| `doorbell` | 2 presses, crash, 2 boots, fair | one recording per visit, every open row supervised, rows close, every press rings |
| `doorbell_faults` | 2 presses, toggles, edits, failures | a supervisor that ends gives its camera back, however it ends; whatever becomes of a press is what VisitRecord allows |
| `recorder` | 1 camera, hanging children, exit, fair | the wipe is undisturbed, an acknowledged camera stays unrecorded, no request is lost to another, stop is final, every request ends |
| `capture` | 1 camera in a group, 2 URLs, 2 modes, 1 new host, refused calls, crash | an acknowledged camera has no source, child still to be reaped, watcher or stream, and gets none while it is private; every request leaves the parts as the tables ask |
| `services` | see below | the nine parts keep what they promise, each against its own environment |
| `privacy_drops_end` | 1 event, toggles, within `Timely` | *violated*: see below |
| `recorder_orphan` | 1 camera, hanging child | *violated* |
| `privacy_boot` | as `capture` | *violated* |
| `coral_dead` | as `services` | *violated* |

What `services` shows: no window of the relay exceeds its global limit
(`GlobalBound`), slots come back once (`SlotsReturned`), an open breaker lets only
those pass that already waited, and not for longer than a wait (`BreakerHolds`);
a watcher that hears nothing fails open in time, unless it is stuck in a pull or a
renewal that does not return (`BlindOnlyHung`); only a key that was
called dead is pruned (`PrunedForCause`); no session comes from a file that failed
its hash, and a detector with the wrong model is on its way to the right one
(`RightModel`); a device is in its pool or in one thread's hands (`PoolWhole`); a
lit light has a hold, and it is that of the last person (`HoldKept`); talk ends
within turn and drain after Privacy Mode, and within its cap (`TalkEnds`); a
re-assert that nothing came between leaves the camera as pinned (`Reasserted`); a
purge is not undone by a build in flight (`PurgeLeavesNone`); and tables and caches
keep their bounds (`ServicesTypeOK`).

Bounds. Keys do not share engine state except through the two emitters and
housekeeping's scan, so one key with two events in a row (an old event's tasks beside a
new event) and two keys with one event each (a copied entry that is no longer true when
its turn comes) show the interleavings. Two constraints keep the instances small:
`KeysApart` follows two keys up to the first picture, one task at a time and without a
toggle, as only emissions and the scan are shared; `EventsApart` follows the second
event of a key while there is no picture or notification and in the first process, as
its two events share the emitters, the sensor and the scan. A second camera adds
independent copies. Two task slots are the least with which enrichments of one event, or
an enrichment and a sender, can overlap. Two boots show what a crash leaves behind. Two
presses are the least with which visits overlap; a cooldown shorter than the code's, or
none, only lets the second come sooner. VisitRecord is checked up to the exit, where
Privacy Mode has cancelled what the exit cancels; crash, boot and sweep are in its
proof. The recorder's proofs cover every set of cameras; TLC's one camera is there for
`RequestsEnd`. In `capture` one request is under way at a time (`Together = 1`) and
meets everything that is not a request; `StaysDark` is proved for any number of them,
and what two of them do to the other two properties is under *Also seen*. A call that
go2rtc refuses, or does not answer in time, is dropped by the code for good
(`streams.py:510`, `:487`); `refused` remembers that, and what go2rtc serves is then
outside `AckMeansDark` and `Reconciled`, until it has read its file again. Two URLs let
a source be replaced, the two modes switch the camera off and on in ingest and in the
listener. In `services`, three requests with limits of two fill a window, one slot makes
the second wait, one key in the table evicts another's; times are the shortest that keep
their order (a pull shorter than a renewal, a window shorter than the breaker's pause, a
wait for a slot shorter than that pause); two models, two devices and two threads are
the least that can be mixed up, and two rebuilds let a thread be two generations late;
three timers let a hold be restarted twice; two windows overlap in a segment, and one
cached file evicts another. Symmetry is over task slots and labels, in safety runs only.
`CHECK_DEADLOCK FALSE`: a stopped process, or one whose bounds are used up, does nothing
more.

`EventsEnd` and `ActiveDrains` are checked where they hold: without toggles, edits and
crashes, and of an event that is not reported late, which they say themselves. `Timely`
keeps late reports out of `privacy_drops_end`, so that its trace shows the dropped "end".

Fairness. Weak fairness of a coroutine's continuation: the loop runs what is
ready, and the calls awaited (database, threads, HTTP with time-outs) return.
Housekeeping wakes up every 2 s, ticks pass, the container is restarted
(`restart: unless-stopped`). `_purge_lock` is handed out first come, first served,
hence strong fairness of taking it. Nothing is assumed of frames, visitors,
administrators, or of a hung child without SIGKILL. In `services` time is a
variable and the deadlines are safety properties: a clock does not pass a timer
that is due, because the loop runs it first.

## Findings

- **`recorder_orphan`** (code bug). `_terminate` says "SIGTERM, wait 5 s, then
  SIGKILL". The watchdog runs it in the supervisor with `state.proc` already
  cleared. If a reload or purge cancels the supervisor in that wait, the
  cancellation leaves `_terminate`, no SIGKILL follows, and the outer `finally`
  finds no process: the hung child lives on while the next reload starts another.
- **`privacy_drops_end`**. The privacy gate of `handle_event` drops "end" too, so
  an event open at the toggle keeps a row without an end time.
- **`privacy_boot`** (code bug). `Go2rtcManager.apply` writes the file, then tells
  go2rtc. If the backend dies in between, the boot finds the file as it wants it,
  makes no call, and go2rtc, a container of its own, goes on serving the private
  camera until something else changes. `main.py:477` promises fail-closed.
- **`coral_dead`** (code bug). `CoralDetector.reinit` clears the flag that asked for
  it whatever the rebind found. With no device bound `detect` is never called
  again, no failure is counted, nobody asks for another rebuild: detection is off
  for good, also when the device is back. `OnnxDetector.reinit`, whose semantics
  the comment claims, sets the flag again.

*Also seen* while modelling. Those marked with a property can be had from TLC: the
property is in its module, under a heading of its own, and fails when it is
checked in the run named (for a part of `services`, through its instance there).

- A detection row open at a crash stays open: ids never recur, so `_on_update`
  never "adopts" it, and the boot sweep closes doorbell rows only
  (`events_pipeline.py:318`; `MayCrash` breaks `EventsEnd`).
- `privacy.apply` cancels pipeline tasks, but the press handler belongs to the
  doorbell watcher: after the answer it still writes its picture and rings, and if it had
  passed the gate of `_send_notification`, also sends the web push for which it was
  listing the subscriptions and alerts the phones (`events_pipeline.py:714`, `:546`,
  `push.py:40`; `SilentWhenAnswered`, in `doorbell_faults`).
- The handlers of detection events are not cancelled either: one that had passed the gate
  of `handle_event` goes on with its row, its broadcast and its MQTT report after the
  answer (`events_pipeline.py:259`). `AckMeansSilent` is about what the pipeline's
  tasks write and send.
- An ONVIF pull or renewal that does not return leaves its watcher connected: no
  notification comes, `failsafe_needed` stays False, and no frame of the camera is looked
  at until it does, although "Blind is the one outcome this system must never reach"
  (`ai_events.py:544`, `:568`; the SOAP calls have no time-out, as `:699-705` says of
  Unsubscribe). It is the one exception of `BlindOnlyHung`.
- Two requests at once (`Together = 2` in `capture`): `set_privacy` loses the update
  of another (`routers/privacy.py:62`), unlocked ingest reloads and listener syncs
  leave strays, and `AiEventListener.sync`, which "never raises", meets a name
  another sync has taken out (`AckMeansDark`, `Reconciled`, `SyncNeverRaises`).
- A frame taken before the toggle and inferred during it is cached after `reload`
  has cleared the cache, and is served as the camera's snapshot from then on
  (`engine.py:480`; `AckMeansNoFrame`, in `capture`).
- A subscription that was up for longer than the grace period fails open at its
  first brief drop, as the grace is counted from the connect and not from the drop
  (`ai_events.py:788` against `:539`; `BriefDropTrusted`, in `services`).
- Deleting a model while `start`, a reload or the supervisor's rebuild awaits its
  download cancels that too: the supervisor then is gone (`ingest.py:628`;
  `SupervisorLives`). A cancelled download shows "downloading" until it is asked
  for again (`ShownIsDone`), and a swap renames the classes of an inference that
  still runs (`detector.py:447`; `LabelsMatch`). All in `services`.
- The hold of an automatic light switches off a light an operator has lit meanwhile
  (`spotlight.py:27`; `HandKept`, in `services`).
- `_reassert_camera` returns when no illuminator mode is pinned even if a
  night-vision mode is (`ir_reassert.py:212`; `NightVisionKept`, in `services`).
  Two overlapping PUTs merge over the same old pins, and a PUT or probe under way
  re-inserts a camera deleted meanwhile (`cameras.py:621`).
- An export whose window was still being recorded is cached and served as it is
  from then on (`recorder.py:980`; `ExportCovers`, in `services`). One larger than
  the cache evicts itself before its path is returned (`recorder.py:1078`).
- Housekeeping may end an event while the worker is still inside `_on_new` or `_on_update`
  for it (`LateReport`): a frame 5 s old is silent while its inference may take 8 s
  (`engine.py:67`, `ingest.py:56`), a disabled camera's event is due at once
  (`engine.py:754`), and so is the successor of a copied entry (next item). "end" then
  overtakes "new": it finds no row to close, or closes it before the entry and the sensor
  are set, and row, entry and sensor stay (`NoWedgedRow` without `Timely`).
- Housekeeping walks a copy of `_events` across the awaits of `_end_event`. It
  judges `last_seen` of the copied entry but ends whatever its key holds by then:
  when the worker has ended that event and begun another, the new one is ended at
  once, though it has just been seen, and the same person gets a second event
  (`engine.py:751`).
- The entry that a final enrichment was to pop stays in `_active` if `pipeline.shutdown`
  cancels that task before its first step (`events_pipeline.py:375`, `:396`; an exception
  of `Entries`).
- `_do_enrich` passes its privacy gate before two awaits and may write a picture
  after the toggle, before its answer (`events_pipeline.py:459`).
- A supervisor task cancelled before its first step runs no `finally`
  (`events_pipeline.py:711`), and a watcher cancelled between the insert and the
  spawn starts none (`:690`): the row stays open until the next boot (`MayToggle`
  and `MayResync` break `OpenRowSupervised`). Such a supervisor also leaves its camera in
  `_doorbell_recording_cams`, so that no later press records (an exception of
  `CameraFreed`).
- `pipeline.shutdown` cancels the tasks of every camera: one camera's toggle ends
  the visit another is recording (`privacy.py:131`).
- A request that its token's window refuses still uses the relay's global window
  (`relay/main.py:610`). A prune by token takes a registration renewed during the
  send with it (`apns.py:311`).
- `_send_ntfy` uses two names that are not in scope (`events_pipeline.py:595`).

## Proofs

Eight modules prove every safety property that a passing run checks, the assumptions
being those named in the modules (sets not empty, bounds positive, switches Boolean,
times in the order the code has them), but for two: `AckMeansDark` and `Reconciled` hold
of one request at a time only, and the code does not ensure that; they are
model-checked, and what is proved of any number of requests is `StaysDark`. One theorem
has a condition of its own, spelled out in its statement: no toggles, edits and failures
(`OpenRowsSupervised`). The sets of cameras, labels, slots, requests, devices or models
may be infinite. Each invariant was checked by TLC, on the instance of a run, before it
was proved.

**EventLifecycleProofs.**
`TypeCorrect`: every action keeps the types; the lemmas go handler by handler
(`TypeHandleUpdate`, `TypeHandleEnd`, `TypeEngine`, ...), and `Placeholders`
gives the one fact about `CHOOSE` that idle records need.
`FlaggedFiles`: a row with `has_snapshot` has its file. Not inductive alone: the
strengthening adds that a task past the write has its file.
`AcknowledgedIsSilent`: after the answer nothing of a private camera is written
or sent, an action property. Its invariant `SilentInv` says that once
`pipeline.shutdown` has run, every task of a private camera is in a stage that
still has a privacy gate in front of it, and `acked` is part of `private`; the
lemmas `SlotMoves`, `GatedStep` and `OnlyTasksWrite` say what a step can do to a
slot and who writes.

**EventRecordProofs.** What one event's tasks do, on top of the types. The inductive
invariant `LifeInv` follows an event through the engine and the tasks it spawned:
`HousekeepingEnds`, housekeeping's handler only ever runs an end; `Numbered`, no handler
and no task is of an event number not given out yet; `TrackedOnce`, what is not in
`_active` yet has had no task and no push; `EndedForGood`, an event that ends does not
come back to `open`; `HasRow`, whatever has tasks or a place in `_active` has a row, and
the one whose row is still to be inserted has not; `FlagHeld`, an enrichment past its
first step has its event's `enriching` flag and no other task has; `Marked`, a push is
of an event that is marked `notified` or is over. From it `EnrichesAlone`
(`EnrichExclusive`), `NotifiesOnce` (`NotifiedOnce`, which the runs have as part of
`ImplementsRecord`), and `RecordImplemented`: with the identity as refinement mapping,
every step of EventLifecycle is a step of EventRecord or a stutter.

**EventEndsProofs.** What an event leaves behind, of whatever frames, administrators,
crashes and restarts: `RowsHaveClosers` (`Rows`), `EntriesArePopped` (`Entries`) and
`SensorsAreToldOff` (`Sensors`), none with a condition. They are action properties, so
each is a walk over the actions on top of `LifeInv`: `EngineStep` says that an engine
step begins a handler or ends one key's event, `EndsOne` that an "end" is dropped, or
takes the entry and closes the row, or goes to look the row up, `OthersStep` and
`PhaseStep` that tasks, administrators and boots touch none of it. Two facts carry them.
Only the worker's handlers insert a row, enter `_active` or switch a sensor on
(`HousekeepingEnds`), so what one does for an event that is over is a late report. And a
final task is neither free nor a sender (`FinalInv`), so it leaves through the `finally`
that pops the entry, or by a cancellation before its first step. What is *not* claimed
is that the named ways do not occur: the code has them all (see *Also seen*).

**DoorbellProofs.** `VisitInv` says what a camera in `_doorbell_recording_cams` stands for:
every supervisor has its camera in it, and a press whose row waits for its
supervisor found it out of it (`Reserved`), although it is read before an await and
written after it; besides, watchers end before the rest and nothing outlives the process
(`Ended`). From it `TypeCorrect`, `OneVisitAtATime` (`OneVisit`), `LeavesWhenGone`
(`NoEarlyLeave`) and `FreedWithTheVisit` (`CameraFreed`), unconditionally, and
`OpenRowsSupervised` without toggles, camera edits and failures, each of which
does leave an open row alone (see above).

`VisitImplemented` (`ImplementsVisit`), unconditionally as well: every step maps to a step of
VisitRecord or a stutter. `PressInv` follows each press by itself through the `Stage` its
handler is at. `Forwards`: what the handler has still to do for it is undone, so nothing is
inserted, spawned, pushed or rung a second time. `Backed`: a press is supervised only
while its row is open, a supervisor that has come to the visit's end finds the row
ended by itself or, when that write failed, open; a ring is of a row, an alert of a push,
and a dead process supervises nothing, so that the boot sweep meets no recording. That
no second press of a camera is filmed comes from `Reserved`.

**RecorderProofs.** One inductive invariant `IInv`, a conjunction of nine named
parts besides the types, and one lemma per kind of step (`InvSupervisor`, `InvRequest`,
`InvReload`, `InvHalt`, ...). The parts that carry the argument:
`LockInv`, only the lock's holder is past it; `LeaveInv`, whoever is being
terminated has the holder waiting for it; `PurgeInv`, what the purge has yet to
stop is on its list; `ReloadInv`, likewise; `AckInv`, no list of wanted cameras
has an acknowledged one; `FreshInv`, whoever outdated such a list is waiting for
the lock. From it: `TypeCorrect`, `PurgeIsAlone` (`WipeUndisturbed`),
`AcknowledgedStops` (`AckMeansStopped`), `NothingLost` (`RecordsWhatItShould`) and
`StopEndsCapture` (`StopIsFinal`).

**CaptureProofs.** `TypeCorrect` and `DarkForGood` (`StaysDark`) hold for any number of
overlapping requests, which the code does not keep apart. Once an acknowledged camera is
dark, in what the components show and in what the calls under way have read, no step of
any request lights it up again while it is private: every call that begins computes its
wanted set from the private set as it is then, and every call under way goes on with
what it has. The lemmas take the components in turn (`StreamsStayDark`, `FeedsStayDark`,
`WatchersStayDark`), and the invariant they need is only that what is acknowledged is
private (`DarkInv`). Refused calls and a crash are no exception. That a camera *is* dark
when its request is answered is `AckMeansDark`, which TLC checks of one request at a
time.

**RelayProofs.** `GlobalBoundHolds`: whichever instant a window ends in, it has let
no more than the global limit pass. The bound is not inductive: a request that is
counted must find every earlier one still in the deque. `WindowInv` says that the
deque holds every hit that is still in the window, that it is finite, and that no
hit lies in the future; `HitKeepsInvariant` is the one step that adds a hit.
`SlotsReturnedHolds`: free slots and requests that hold one, at Apple or granted and not
yet on their way, add up to `MaxConcurrency`; the invariant adds that those requests are
finitely many, or their number would mean nothing. `ServedSlots` is the step in which
a slot goes from one request to those who wait for it.

`BreakerHoldsFast` (`BreakerHolds`): whoever reaches Apple past an open breaker already
stood at the gate (`GateInv`).

`TypeCorrect`: the types, and the table of tokens never longer than `MaxKeys`. A token
at its limit is refused before `allow` comes to the eviction, so its move must not have
made the table longer: `TableInv` adds that whoever has a hit is in the table. The
lemmas say what the table's sequence operators return for any sequence: one element
taken out (`WithoutOne`), a token moved to the end without making the table longer or
losing another (`TouchedIs`), the oldest evicted (`EvictedIs`).

**ServicesProofs.** The other parts of `services`, each with an invariant of its own
while the others stand still. Spotlight, `HoldIsKept`, and Push, `PrunesForCause`: the
property is inductive once the timers and the legs have their types. Coral,
`PoolIsWhole`: `OfTheirAge` keeps the devices of two generations apart, `HeldOnce` says
that what a thread holds is in no pool and in no other hands, `FleetPooled` that the
rest of the fleet is in its pool unless a rebuild runs. Talk, `TalkIsOver`: in each
phase the age and what the phase may still take stay within the cap. NightVision,
`ReassertTakes`: a hook that is still alone has read the pins as they are
(`AloneKnows`). Models, `ModelIsRight`: one task boots at a time (`OneBoots`), it builds
from a file that passed its hash (`BuildsVerified`), and if that model is no longer
wanted a reload waits behind it (`Behind`). Footage, `PurgeIsWhole`: a cached or
temporary file shows a purged segment only if its directory is still to be wiped
(`CachesInv`), and what is purged does not come back (`SegmentsInv`). AiTrigger,
`NeverBlindOtherwise` (`BlindOnlyHung`): a subscription has been deaf for no longer than
since its last renewal, which is due again in time unless the call hangs (`BlindInv`).
`PartsAssumption` has what these need of the constants.

`TypesAreKept` (`ServicesTypeOK`) is the types and bounds of all nine parts at once. Four
of the parts need more than their types for it. Push: a leg that backs off has an
attempt left, or a third retry could follow the third post. Talk and Coral:
`TalkInv`, as the age of a session is bounded only by what its phase may still take, and
`PoolInv`. NightVision: who is at a write has something to write (`OnlyAsked`), or
a form whose pin could not be stored would set the camera to nothing. Footage: a
request that is looking knows its item and only an export writes a list; a cache
that is full when a build publishes loses one file for it (`FileTouched`,
`FilesEvicted`). For AiTrigger the pauses stay between their limits since they double
no further than the maximum.

Only model-checked: `AckMeansDark` and `Reconciled` (above), and all liveness
(`EventsEnd`, `ActiveDrains`, `PressRings`, `RowsClose`, `RequestsEnd`), which rests on
fairness and is out of the prover's reach here. What the community modules define by
recursion or with an operator argument is out of reach too, so the operators on tables
and caches (`Touched`, `Evicted`, `Evict`) are written with `SubSeq` and `CHOOSE`.

## Not modelled, and why

- Clips (`schedule_clip` and the cut): only that an event hands over one.
- A database that fails inside the detection handlers (it is modelled for
  enrichment and doorbells).
- Camera health: one task that turns polled flags into intervals, no concurrency.
- The choice between Edge TPU and ONNX at boot, ntfy's one POST per alert.
- Image and media work (inference, decoding, annotation), parsers of the camera
  protocol and its other CGI calls: no control state.
- Authentication, users and settings documents: single-request documents.
- WebSocket hub: a set of clients and a broadcast; queries of the HTTP API.
- The web and iOS clients: user interface.

## What could follow

Clips as a module of their own; overlapping requests in Capture once the reconcilers
take a lock.
