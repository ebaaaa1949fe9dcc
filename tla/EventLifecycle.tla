--------------------------- MODULE EventLifecycle ---------------------------
(***************************************************************************)
(* The life of one detection event, from the tracker to the phone.         *)
(*                                                                         *)
(* DetectionEngine (native/engine.py) keeps at most one open event per     *)
(* (camera, label) and emits "new", "update" and "end" into EventsPipeline *)
(* (events_pipeline.py), which owns the database row, the `_active` table, *)
(* the enrichment tasks and the notification decision.  Two coroutines     *)
(* emit: the inference worker (one frame at a time) and the 2 s            *)
(* housekeeping task.  Everything runs on one asyncio loop, so a coroutine *)
(* is cut into the segments between its awaits and every segment is one    *)
(* action; a database call takes effect where it is submitted, because the *)
(* single aiosqlite connection runs them in that order.                    *)
(*                                                                         *)
(* Left out: zones, scores, boxes and label sets (data of the row), MIN_   *)
(* HITS and masking (which frames count as a sighting).  A sighting always *)
(* has a frame, as ingest always hands one over with the observations.     *)
(***************************************************************************)
EXTENDS Naturals, FiniteSets

CONSTANTS
    Cameras,      \* camera names
    Labels,       \* object classes
    Recorded,     \* cameras with record_enabled
    MaxEvents,    \* bound: events opened per (camera, label)
    Slots,        \* bound: pipeline tasks alive at once
    MaxBoots,     \* bound: how often the backend process is started
    MayToggle,    \* TRUE: an administrator switches Privacy Mode
    MayDisable,   \* TRUE: detection of a camera can be switched off
    MayCrash      \* TRUE: the process can die without running lifespan's exit

ASSUME ConstantsAssumption ==
    /\ Cameras # {} /\ Labels # {}
    /\ Recorded \subseteq Cameras
    /\ MaxEvents \in Nat \ {0}
    /\ MaxBoots \in Nat \ {0}
    /\ \A b \in {MayToggle, MayDisable, MayCrash} : b \in BOOLEAN

Keys == Cameras \X Labels
Numbers == 1 .. MaxEvents
\* An event id (`fid`) never recurs: time stamp plus random suffix.
Fids == Keys \X Numbers
KeyOf(f) == f[1]
CameraOf(f) == f[1][1]
Emitters == {"worker", "housekeeping"}

VARIABLES
    \* DetectionEngine
    open,        \* _events: the number of the open event of a key, 0 for none
    made,        \* events a key has had so far
    quiet,       \* keys whose event was last seen ABSENCE_TIMEOUT_S ago or more
    disabled,    \* cameras whose detection is off
    scan,        \* housekeeping's copy of _events.items(), as far as unvisited
    emit,        \* what each emitter is awaiting inside pipeline.handle_event
    \* EventsPipeline
    active,      \* keys of _active
    state,       \* the dict _active maps an event to
    task,        \* _tasks: enrichment tasks and the senders they spawn
    hot,         \* _cooldowns: keys notified less than cooldown_seconds ago
    \* what outlives the process, and what the outside sees
    row,         \* events.end_time of the event's row
    flagged,     \* events.has_snapshot
    files,       \* <event>.jpg written
    clips,       \* events handed to recorder.schedule_clip
    sensor,      \* MQTT binary_sensor of a key
    pushed,      \* web pushes sent for an event
    phoned,      \* events handed to APNs / ntfy
    \* Privacy Mode and the process itself
    private, admin, acked, phase, boots

engineVars == <<open, made, quiet, disabled, scan>>
storeVars == <<row, flagged, files>>
outVars == <<clips, sensor>>
notifyVars == <<hot, pushed, phoned>>
hostVars == <<private, admin, acked, phase, boots>>
vars == <<engineVars, emit, active, state, task, storeVars, outVars,
          notifyVars, hostVars>>

NoEmit == [pc |-> "idle", f |-> CHOOSE f \in Fids : TRUE, found |-> FALSE]
NoScan == [n |-> 0, silent |-> FALSE]
NoTask == [pc |-> "free", f |-> CHOOSE f \in Fids : TRUE, final |-> FALSE]
FreshState == [notified |-> FALSE, snapped |-> FALSE, enriching |-> FALSE]

EmitPcs == {"idle", "new_read", "new_inserted", "new_told", "new_on",
            "updated", "update_on", "end_lookup", "end_closed", "end_told",
            "end_off"}
TaskPcs == {"free", "spawned", "snapshot", "annotate", "written", "marked",
            "naming", "listing", "pushing", "sender"}

Init ==
    /\ open = [k \in Keys |-> 0]
    /\ made = [k \in Keys |-> 0]
    /\ quiet = {}
    /\ disabled = {}
    /\ scan = [k \in Keys |-> NoScan]
    /\ emit = [p \in Emitters |-> NoEmit]
    /\ active = {}
    /\ state = [f \in Fids |-> FreshState]
    /\ task = [t \in Slots |-> NoTask]
    /\ hot = {}
    /\ row = [f \in Fids |-> "none"]
    /\ flagged = {}
    /\ files = {}
    /\ clips = {}
    /\ sensor = [k \in Keys |-> FALSE]
    /\ pushed = [f \in Fids |-> 0]
    /\ phoned = {}
    /\ private = {}
    /\ admin = "idle"
    /\ acked = {}
    /\ phase = "up"
    /\ boots = 1

-----------------------------------------------------------------------------
(* Helpers *)

IsPrivate(f) == CameraOf(f) \in private
Idle(p) == emit[p].pc = "idle"
Goto(p, pc, f, found) ==
    emit' = [emit EXCEPT ![p] = [pc |-> pc, f |-> f, found |-> found]]
Return(p) == emit' = [emit EXCEPT ![p] = NoEmit]
Resume(p, pc) == emit' = [emit EXCEPT ![p].pc = pc]

\* update_event(end_time=...); SQLite's UPDATE of a row that is not there does
\* nothing.
\* Fault: end_time is written together with the snapshot only.
FaultCloseSnapped(f) ==
    row' = [row EXCEPT ![f] = IF @ = "open" /\ state[f].snapped THEN "closed" ELSE @]
CloseRow(f) == row' = [row EXCEPT ![f] = IF @ = "open" THEN "closed" ELSE @]

\* asyncio.create_task plus _tasks.add: the task has not run a step yet.
Spawn(f, final) ==
    \E t \in Slots :
        /\ task[t] = NoTask
        /\ task' = [task EXCEPT ![t] = [pc |-> "spawned", f |-> f, final |-> final]]

\* recorder.schedule_clip, called once the "end" emission has returned.
ScheduleClip(f) ==
    clips' = IF CameraOf(f) \in Recorded /\ ~IsPrivate(f)
             THEN clips \cup {f} ELSE clips

-----------------------------------------------------------------------------
(* EventsPipeline.handle_event, up to its first await.                     *)

\* _on_new: an event already in _active is left alone, otherwise look for a
\* row with this id.
HandleNew(p, f) ==
    IF IsPrivate(f) \/ f \in active
    THEN UNCHANGED emit
    ELSE Goto(p, "new_read", f, row[f] # "none")

\* _on_update: refresh the row, or adopt an event the table does not know.
HandleUpdate(p, f) ==
    IF ~IsPrivate(f) /\ f \in active
    THEN Goto(p, "updated", f, TRUE)
    ELSE HandleNew(p, f)

\* _on_end: take the event out of _active and close its row; without a state,
\* look for the row first.  A private camera's "end" is dropped at the gate.
HandleEnd(p, f) ==
    \/ /\ IsPrivate(f)
       /\ ScheduleClip(f)
       /\ UNCHANGED <<emit, active, row>>
    \/ /\ ~IsPrivate(f) /\ f \in active
       /\ active' = active \ {f}
       /\ CloseRow(f)
       /\ Goto(p, "end_closed", f, TRUE)
       /\ UNCHANGED clips
    \/ /\ ~IsPrivate(f) /\ f \notin active
       /\ Goto(p, "end_lookup", f, row[f] # "none")
       /\ UNCHANGED <<active, row, clips>>

-----------------------------------------------------------------------------
(* DetectionEngine: the worker's frames and the housekeeping task.         *)

\* A confirmed track of a key that has no open event (_observe_label).  A frame
\* taken before the camera was disabled or made private may still arrive.
Appear(k) ==
    LET n == made[k] + 1 IN
    /\ phase = "up" /\ Idle("worker")
    /\ open[k] = 0 /\ n \in Numbers
    /\ open' = [open EXCEPT ![k] = n]
    /\ made' = [made EXCEPT ![k] = n]
    /\ quiet' = quiet \ {k}
    /\ HandleNew("worker", <<k, n>>)
    /\ UNCHANGED <<disabled, scan, active, state, task, storeVars, outVars,
                   notifyVars, hostVars>>

\* A further sighting; the score, count and heartbeat rules decide whether it
\* is emitted.
Sighting(k) ==
    /\ phase = "up" /\ Idle("worker")
    /\ open[k] # 0
    /\ quiet' = quiet \ {k}
    /\ \/ HandleUpdate("worker", <<k, open[k]>>)
       \/ UNCHANGED emit
    /\ UNCHANGED <<open, made, disabled, scan, active, state, task, storeVars,
                   outVars, notifyVars, hostVars>>

\* ABSENCE_TIMEOUT_S (5 s) since the last sighting, which is dated by its frame:
\* inference alone may take DETECT_TIMEOUT_S (8 s), so the worker may still be
\* reporting that very frame.
FallSilent(k) ==
    /\ open[k] # 0 /\ k \notin quiet
    /\ quiet' = quiet \cup {k}
    /\ UNCHANGED <<open, made, disabled, scan, emit, active, state, task,
                   storeVars, outVars, notifyVars, hostVars>>

\* _end_event: the event of a key leaves _events and "end" is emitted.
EndEvent(p, k) ==
    /\ open' = [open EXCEPT ![k] = 0]
    /\ HandleEnd(p, <<k, open[k]>>)

\* frame_time - st.last_seen >= ABSENCE_TIMEOUT_S.
Absent(k) == k \in quiet

\* The absence loop at the end of process().
WorkerEnd(k) ==
    /\ phase = "up" /\ Idle("worker")
    /\ open[k] # 0 /\ Absent(k)
    /\ EndEvent("worker", k)
    /\ UNCHANGED <<made, quiet, disabled, scan, state, task, flagged, files,
                   sensor, notifyVars, hostVars>>

\* The housekeeping cycle: `now` is read, _events.items() is copied, and the
\* loop runs without an await up to the first entry that is due.
HousekeepingCycle(k) ==
    /\ phase = "up" /\ Idle("housekeeping")
    /\ \A j \in Keys : scan[j] = NoScan
    /\ open[k] # 0
    /\ k \in quiet \/ k[1] \in disabled
    /\ scan' = [j \in Keys |-> IF j = k \/ open[j] = 0 THEN NoScan
                               ELSE [n |-> open[j], silent |-> j \in quiet]]
    /\ EndEvent("housekeeping", k)
    /\ UNCHANGED <<made, quiet, disabled, state, task, flagged, files, sensor,
                   notifyVars, hostVars>>

\* Whether a copied entry is due when the loop gets to it: its own last_seen
\* against the copied `now`, or the camera gone or disabled by then.
Due(k) ==
    \/ k[1] \in disabled
    \/ /\ scan[k].silent
       /\ open[k] = scan[k].n => k \in quiet

\* A later iteration; _end_event takes the KEY and ends whatever is open there.
HousekeepingVisit(k) ==
    /\ phase = "up" /\ Idle("housekeeping")
    /\ scan[k].n # 0
    /\ scan' = [scan EXCEPT ![k] = NoScan]
    /\ IF Due(k) /\ open[k] # 0
       THEN EndEvent("housekeeping", k)
       ELSE UNCHANGED <<open, emit, active, row, clips>>
    /\ UNCHANGED <<made, quiet, disabled, state, task, flagged, files, sensor,
                   notifyVars, hostVars>>

-----------------------------------------------------------------------------
(* EventsPipeline handlers after their awaits.                             *)

\* _on_new, row looked up: insert one unless it was found.
NewInsert(p) ==
    LET f == emit[p].f IN
    /\ emit[p].pc = "new_read"
    /\ row' = IF emit[p].found THEN row ELSE [row EXCEPT ![f] = "open"]
    /\ Resume(p, "new_inserted")
    /\ UNCHANGED <<engineVars, active, state, task, flagged, files, outVars,
                   notifyVars, hostVars>>

\* _on_new, row in place: a fresh state enters _active; the row is read back
\* and broadcast.
NewTrack(p) ==
    LET f == emit[p].f IN
    /\ emit[p].pc = "new_inserted"
    /\ active' = active \cup {f}
    /\ state' = [state EXCEPT ![f] = FreshState]
    /\ Resume(p, "new_told")
    /\ UNCHANGED <<engineVars, task, storeVars, outVars, notifyVars, hostVars>>

\* Fault: the sensor is not told.
FaultNoOff(f) == UNCHANGED sensor
SensorOff(f) == sensor' = [sensor EXCEPT ![KeyOf(f)] = FALSE]

\* Broadcast done: MQTT ON of a "new" or an "update", OFF of an "end".
Publish(p) ==
    LET f == emit[p].f IN
    /\ \/ /\ emit[p].pc = "new_told"
          /\ sensor' = [sensor EXCEPT ![KeyOf(f)] = TRUE]
          /\ Resume(p, "new_on")
       \/ /\ emit[p].pc = "updated"
          /\ sensor' = [sensor EXCEPT ![KeyOf(f)] = TRUE]
          /\ Resume(p, "update_on")
       \/ /\ emit[p].pc = "end_told"
          /\ SensorOff(f)
          /\ Resume(p, "end_off")
    /\ UNCHANGED <<engineVars, active, state, task, storeVars, clips, notifyVars,
                   hostVars>>

\* _on_new, published: enrichment in a task of its own.
NewDone(p) ==
    /\ emit[p].pc = "new_on"
    /\ Spawn(emit[p].f, FALSE)
    /\ Return(p)
    /\ UNCHANGED <<engineVars, active, state, storeVars, outVars, notifyVars,
                   hostVars>>

\* _on_update, published: enrich again while there is a newer best frame or no
\* notification yet, unless a task is at it.
UpdateDone(p) ==
    LET f == emit[p].f
        s == state[f] IN
    /\ emit[p].pc = "update_on"
    /\ \/ ~s.enriching /\ Spawn(f, FALSE)
       \/ (s.enriching \/ (s.notified /\ s.snapped)) /\ UNCHANGED task
    /\ Return(p)
    /\ UNCHANGED <<engineVars, active, state, storeVars, outVars, notifyVars,
                   hostVars>>

\* _on_end without a state: close the row that was found, if any.
EndLookup(p) ==
    LET f == emit[p].f IN
    /\ emit[p].pc = "end_lookup"
    /\ IF emit[p].found
       THEN /\ CloseRow(f)
            /\ emit' = [emit EXCEPT ![p].pc = "end_closed", ![p].found = FALSE]
            /\ UNCHANGED clips
       ELSE Return(p) /\ ScheduleClip(f) /\ UNCHANGED row
    /\ UNCHANGED <<engineVars, active, state, task, flagged, files, sensor,
                   notifyVars, hostVars>>

\* _on_end, row closed: an event that never got its snapshot goes back into
\* _active for one final attempt.
EndFinal(p) ==
    LET f == emit[p].f IN
    /\ emit[p].pc = "end_closed"
    /\ IF emit[p].found /\ ~state[f].snapped
       THEN active' = active \cup {f} /\ Spawn(f, TRUE)
       ELSE UNCHANGED <<active, task>>
    /\ Resume(p, "end_told")
    /\ UNCHANGED <<engineVars, state, storeVars, outVars, notifyVars, hostVars>>

\* _on_end is over: back in _end_event the clip.
EndDone(p) ==
    /\ emit[p].pc = "end_off"
    /\ ScheduleClip(emit[p].f)
    /\ Return(p)
    /\ UNCHANGED <<engineVars, active, state, task, storeVars, sensor,
                   notifyVars, hostVars>>

Handler(p) ==
    \/ NewInsert(p) \/ NewTrack(p) \/ Publish(p) \/ NewDone(p) \/ UpdateDone(p)
    \/ EndLookup(p) \/ EndFinal(p) \/ EndDone(p)

-----------------------------------------------------------------------------
(* _enrich_and_notify, one action per await.                               *)

Advance(t, pc) == task' = [task EXCEPT ![t].pc = pc]

\* Fault: the final enrichment leaves its entry in _active.
FaultLeaveEntry(t) == task' = [task EXCEPT ![t] = NoTask] /\ UNCHANGED active
\* The end of a task: `_final_enrich` also takes the event out of _active.
Leave(t) ==
    /\ task' = [task EXCEPT ![t] = NoTask]
    /\ active' = IF task[t].final THEN active \ {task[t].f} ELSE active

\* Not notified yet and no cooldown running.
\* Fault: only the cooldown is looked at.
FaultDueAgain(f, s) == KeyOf(f) \notin hot
NotificationDue(f, s) == ~s.notified /\ KeyOf(f) \notin hot

\* Fault: the cooldown is marked for the camera, though read for the key.
FaultCameraCooldown(f) == CameraOf(f)
CooldownKey(f) == KeyOf(f)

\* _maybe_notify_object, decided without an await: notified and the cooldown
\* are marked before anything is sent.
Decide(t, s) ==
    LET f == task[t].f IN
    \/ /\ NotificationDue(f, s)
       /\ state' = [state EXCEPT ![f] = [s EXCEPT !.notified = TRUE]]
       /\ hot' = hot \cup {CooldownKey(f)}
       /\ Advance(t, "naming")
       /\ UNCHANGED active
    \* already notified, cooling down, or the label, score and enabled gates
    \/ /\ state' = [state EXCEPT ![f] = [s EXCEPT !.enriching = FALSE]]
       /\ Leave(t)
       /\ UNCHANGED hot

\* Nothing to do: the event is not active, or a task is already at it.
\* Fault: the `enriching` flag is not looked at.
FaultNotBusy(f) == f \notin active
Busy(f) == f \notin active \/ state[f].enriching

EnrichStart(t) ==
    LET f == task[t].f
        s == state[f] IN
    /\ task[t].pc = "spawned"
    /\ IF Busy(f)
       THEN Leave(t) /\ UNCHANGED <<state, hot>>
       ELSE IF IsPrivate(f)
       THEN Decide(t, [s EXCEPT !.enriching = TRUE])
       ELSE /\ state' = [state EXCEPT ![f].enriching = TRUE]
            /\ Advance(t, "snapshot")
            /\ UNCHANGED <<active, hot>>
    /\ UNCHANGED <<engineVars, emit, storeVars, outVars, pushed, phoned, hostVars>>

\* Fault: the flag goes up without the file.
FaultUnwritten(t) ==
    /\ task[t].pc = "snapshot"
    /\ Advance(t, "written")
    /\ UNCHANGED <<active, state, hot>>
    /\ UNCHANGED <<engineVars, emit, storeVars, outVars, pushed, phoned, hostVars>>
\* The best frame came back, or the engine no longer has it.
EnrichSnapshot(t) ==
    LET f == task[t].f IN
    /\ task[t].pc = "snapshot"
    /\ \/ Advance(t, "annotate") /\ UNCHANGED <<active, state, hot>>
       \/ Decide(t, state[f])
    /\ UNCHANGED <<engineVars, emit, storeVars, outVars, pushed, phoned, hostVars>>

\* Annotated; the file is handed to a thread, which a cancellation cannot stop.
EnrichWrite(t) ==
    /\ task[t].pc = "annotate"
    /\ files' = files \cup {task[t].f}
    /\ Advance(t, "written")
    /\ UNCHANGED <<engineVars, emit, active, state, row, flagged, outVars,
                   notifyVars, hostVars>>

EnrichMark(t) ==
    LET f == task[t].f IN
    /\ task[t].pc = "written"
    /\ state' = [state EXCEPT ![f].snapped = TRUE]
    /\ flagged' = flagged \cup {f}
    /\ Advance(t, "marked")
    /\ UNCHANGED <<engineVars, emit, active, row, files, outVars, notifyVars,
                   hostVars>>

EnrichDecide(t) ==
    /\ task[t].pc = "marked"
    /\ Decide(t, state[task[t].f])
    /\ UNCHANGED <<engineVars, emit, storeVars, outVars, pushed, phoned, hostVars>>

Withheld(f) == IsPrivate(f)

\* _send_notification: the privacy gate again.
EnrichGate(t) ==
    LET f == task[t].f IN
    /\ task[t].pc = "naming"
    /\ IF Withheld(f)
       THEN /\ state' = [state EXCEPT ![f].enriching = FALSE]
            /\ Leave(t)
       ELSE Advance(t, "listing") /\ UNCHANGED <<active, state>>
    /\ UNCHANGED <<engineVars, emit, storeVars, outVars, notifyVars, hostVars>>

\* The subscriptions are listed: push.send_to_all hands the web push to threads.
EnrichPush(t) ==
    LET f == task[t].f IN
    /\ task[t].pc = "listing"
    /\ pushed' = [pushed EXCEPT ![f] = @ + 1]
    /\ Advance(t, "pushing")
    /\ UNCHANGED <<engineVars, emit, active, state, storeVars, outVars, hot, phoned,
                   hostVars>>

\* Web push answered: the phone channels get a task of their own (it takes the
\* slot over) and the enrichment is over.
EnrichHandOver(t) ==
    LET f == task[t].f IN
    /\ task[t].pc = "pushing"
    /\ state' = [state EXCEPT ![f].enriching = FALSE]
    /\ task' = [task EXCEPT ![t] = [pc |-> "sender", f |-> f, final |-> FALSE]]
    /\ active' = IF task[t].final THEN active \ {f} ELSE active
    /\ UNCHANGED <<engineVars, emit, storeVars, outVars, notifyVars, hostVars>>

SenderDone(t) ==
    /\ task[t].pc = "sender"
    /\ phoned' = phoned \cup {task[t].f}
    /\ task' = [task EXCEPT ![t] = NoTask]
    /\ UNCHANGED <<engineVars, emit, active, state, storeVars, outVars, hot,
                   pushed, hostVars>>

Enriching(pc) == pc \notin {"free", "spawned", "sender"}

\* An exception in any await of the enrichment: logged, `finally` runs.
EnrichFail(t) ==
    LET f == task[t].f IN
    /\ Enriching(task[t].pc)
    /\ state' = [state EXCEPT ![f].enriching = FALSE]
    /\ Leave(t)
    /\ UNCHANGED <<engineVars, emit, storeVars, outVars, notifyVars, hostVars>>

\* cooldown_seconds have passed.
CoolDown(k) ==
    /\ k \in hot
    /\ hot' = hot \ {k}
    /\ UNCHANGED <<engineVars, emit, active, state, task, storeVars, outVars,
                   pushed, phoned, hostVars>>

Enrich(t) ==
    \/ EnrichStart(t) \/ EnrichSnapshot(t) \/ EnrichWrite(t) \/ EnrichMark(t)
    \/ EnrichDecide(t) \/ EnrichGate(t) \/ EnrichPush(t) \/ EnrichHandOver(t)
    \/ SenderDone(t)

-----------------------------------------------------------------------------
(* Privacy Mode, detection on/off, exit, crash and restart.                *)

\* Fault: apply() forgets to call shutdown.
FaultNoCancel == UNCHANGED <<task, state, active>>
\* pipeline.shutdown: every task is cancelled.  A task that ran a step runs its
\* `finally`; one that never started runs nothing at all.
CancelTasks ==
    LET ended == {task[t].f : t \in {u \in Slots : Enriching(task[u].pc)}}
        final == {task[t].f : t \in {u \in Slots : Enriching(task[u].pc)
                                                   /\ task[u].final}} IN
    /\ task' = [t \in Slots |-> NoTask]
    /\ state' = [f \in Fids |-> IF f \in ended
                                THEN [state[f] EXCEPT !.enriching = FALSE]
                                ELSE state[f]]
    /\ active' = active \ final

\* POST /api/privacy: persisted, then privacy.refresh() rebinds the set.
PrivacySet(c) ==
    /\ MayToggle /\ phase = "up" /\ admin = "idle"
    /\ private' = IF c \in private THEN private \ {c} ELSE private \cup {c}
    /\ acked' = acked \cap private'
    /\ admin' = "applying"
    /\ UNCHANGED <<engineVars, emit, active, state, task, storeVars, outVars,
                   notifyVars, phase, boots>>

\* privacy.apply(): the reconcilers, then pipeline.shutdown().
PrivacyShutdown ==
    /\ admin = "applying"
    /\ CancelTasks
    /\ admin' = "drained"
    /\ UNCHANGED <<engineVars, emit, storeVars, outVars, notifyVars, private,
                   acked, phase, boots>>

PrivacyAck ==
    /\ admin = "drained"
    /\ admin' = "idle"
    /\ acked' = private
    /\ UNCHANGED <<engineVars, emit, active, state, task, storeVars, outVars,
                   notifyVars, private, phase, boots>>

\* detect_enabled edited; engine.reload has the new rows.
Disable(c) ==
    /\ MayDisable /\ phase = "up"
    /\ disabled' = IF c \in disabled THEN disabled \ {c} ELSE disabled \cup {c}
    /\ UNCHANGED <<open, made, quiet, scan, emit, active, state, task, storeVars,
                   outVars, notifyVars, hostVars>>

\* engine.stop: worker and housekeeping are cancelled where they await.
Stop ==
    /\ phase = "up" /\ admin = "idle"
    /\ phase' = "stopping"
    /\ emit' = [p \in Emitters |-> NoEmit]
    /\ scan' = [k \in Keys |-> NoScan]
    /\ UNCHANGED <<open, made, quiet, disabled, active, state, task, storeVars,
                   outVars, notifyVars, private, admin, acked, boots>>

\* engine.stop ends every event that is still open, one after the other.
StopEnd(k) ==
    /\ phase = "stopping" /\ Idle("housekeeping")
    /\ open[k] # 0
    /\ EndEvent("housekeeping", k)
    /\ UNCHANGED <<made, quiet, disabled, scan, state, task, flagged, files,
                   sensor, notifyVars, hostVars>>

\* A process ends and all that lived in memory with it; rows, files and the
\* privacy document stay.
Forget ==
    /\ phase' = "down"
    /\ open' = [k \in Keys |-> 0]
    /\ quiet' = {}
    /\ scan' = [k \in Keys |-> NoScan]
    /\ emit' = [p \in Emitters |-> NoEmit]
    /\ active' = {}
    /\ state' = [f \in Fids |-> FreshState]
    /\ task' = [t \in Slots |-> NoTask]
    /\ hot' = {}
    /\ sensor' = [k \in Keys |-> FALSE]
    /\ admin' = "idle"
    /\ UNCHANGED <<made, disabled, storeVars, clips, pushed, phoned, private,
                   acked, boots>>

\* The rest of lifespan's exit: pipeline.shutdown, the database closes.
Down ==
    /\ phase = "stopping" /\ Idle("housekeeping")
    /\ \A k \in Keys : open[k] = 0
    /\ Forget

\* The process dies where it stands (power cut, restart watchdog).
Crash ==
    /\ MayCrash /\ phase # "down"
    /\ Forget

Boot ==
    /\ phase = "down" /\ boots < MaxBoots
    /\ phase' = "up"
    /\ boots' = boots + 1
    /\ UNCHANGED <<engineVars, emit, active, state, task, storeVars, outVars,
                   notifyVars, private, admin, acked>>

-----------------------------------------------------------------------------

Engine ==
    \E k \in Keys : \/ Appear(k) \/ Sighting(k) \/ FallSilent(k)
                       \/ WorkerEnd(k) \/ HousekeepingCycle(k)
                       \/ HousekeepingVisit(k)

Host ==
    \/ \E c \in Cameras : PrivacySet(c) \/ Disable(c)
    \/ \E k \in Keys : StopEnd(k)
    \/ PrivacyShutdown \/ PrivacyAck \/ Stop \/ Down \/ Boot \/ Crash

Next ==
    \/ Engine
    \/ \E p \in Emitters : Handler(p)
    \/ \E t \in Slots : Enrich(t) \/ EnrichFail(t)
    \/ \E k \in Keys : CoolDown(k)
    \/ Host

Spec == Init /\ [][Next]_vars

\* The loop runs every coroutine that can go on, tasks come back from their
\* threads and calls, and the housekeeping task wakes up every 2 s.  Nothing
\* forces a frame, a silence, an administrator, a stop or a boot.
Fairness ==
    /\ \A p \in Emitters : WF_vars(Handler(p))
    /\ \A t \in Slots : WF_vars(Enrich(t))
    /\ WF_vars(\E k \in Keys : HousekeepingCycle(k) \/ HousekeepingVisit(k))

FairSpec == Spec /\ Fairness

-----------------------------------------------------------------------------
(* Properties.                                                             *)

\* Every variable keeps its type: an entry of _active has its three flags, an
\* open event a number that has been given out.
TypeOK ==
    /\ open \in [Keys -> 0 .. MaxEvents]
    /\ made \in [Keys -> 0 .. MaxEvents]
    /\ quiet \subseteq Keys
    /\ disabled \subseteq Cameras
    /\ scan \in [Keys -> [n : 0 .. MaxEvents, silent : BOOLEAN]]
    /\ emit \in [Emitters -> [pc : EmitPcs, f : Fids, found : BOOLEAN]]
    /\ active \subseteq Fids
    /\ state \in [Fids -> [notified : BOOLEAN, snapped : BOOLEAN,
                           enriching : BOOLEAN]]
    /\ task \in [Slots -> [pc : TaskPcs, f : Fids, final : BOOLEAN]]
    /\ hot \subseteq Keys
    /\ row \in [Fids -> {"none", "open", "closed"}]
    /\ flagged \subseteq Fids
    /\ files \subseteq Fids
    /\ clips \subseteq Fids
    /\ sensor \in [Keys -> BOOLEAN]
    /\ pushed \in [Fids -> Nat]
    /\ phoned \subseteq Fids
    /\ private \subseteq Cameras
    /\ admin \in {"idle", "applying", "drained"}
    /\ acked \subseteq Cameras
    /\ phase \in {"up", "stopping", "down"}
    /\ boots \in 1 .. MaxBoots

IsOpen(f) == open[KeyOf(f)] = f[2]
InHandler(f) == \E p \in Emitters : emit[p].pc # "idle" /\ emit[p].f = f

\* The ways the code has of losing track of an event, each a note of README:
\* its "end" is dropped at the gate of a private camera; or it was ended, by
\* housekeeping, while the worker was still reporting it.
Dropped(f) == IsOpen(f) /\ IsPrivate(f)
LateReport(f) ==
    emit["worker"].pc # "idle" /\ emit["worker"].f = f /\ ~IsOpen(f)

\* Nobody is going to write the end of a row that has none.
Orphaned(f) ==
    /\ row[f] = "open" /\ ~IsOpen(f)
    /\ ~\E p \in Emitters : /\ emit[p].f = f /\ emit[p].found
                            /\ emit[p].pc = "end_lookup"

\* A row without an end time loses what would have closed it in three ways
\* only: a dropped "end", a late report, or the process leaving "up" or dying.
\* In every other order of _on_new, _on_update, _on_end, _end_event and the two
\* coroutines that emit, the engine still has the event open or closes the row.
Rows ==
    [][\A f \in Fids : Orphaned(f)' /\ ~Orphaned(f) =>
            Dropped(f) \/ LateReport(f) \/ phase' # phase]_vars

\* An entry of _active that nothing will take out: the event is not open, and
\* no final enrichment, which pops it, is under way.
Kept(f) ==
    /\ f \in active /\ ~IsOpen(f)
    /\ ~\E t \in Slots : task[t].f = f /\ task[t].final

\* _active keeps an entry for ever only after a dropped "end", a late report, or
\* the cancellation of a final enrichment that has not run a step, whose
\* `finally` never runs (_on_end, _final_enrich, shutdown).
Entries ==
    [][\A f \in Fids : Kept(f)' /\ ~Kept(f) =>
            \/ Dropped(f) \/ LateReport(f)
            \/ \E t \in Slots : /\ task[t].pc = "spawned" /\ task[t].final
                                /\ task[t].f = f]_vars

\* A binary_sensor that is ON, with nobody who would switch it off.
Stuck(k) ==
    /\ sensor[k] /\ open[k] = 0
    /\ ~\E p \in Emitters : /\ KeyOf(emit[p].f) = k
                            /\ \/ emit[p].pc \in {"end_closed", "end_told"}
                               \/ emit[p].pc = "end_lookup" /\ emit[p].found

\* Home Assistant is left with somebody nobody sees only by a dropped "end", a
\* late report, an event that ends without a row, or a stop (_publish_mqtt).
Sensors ==
    [][\A k \in Keys : Stuck(k)' /\ ~Stuck(k) =>
            \/ \E n \in Numbers : LET f == <<k, n>> IN
                  Dropped(f) \/ LateReport(f) \/ (IsOpen(f) /\ row[f] = "none")
            \/ phase' # phase]_vars

\* A row without an end time belongs to an event the engine has open or that a
\* handler is at work on (engine.py: a dead ingest can't wedge events open).
NoWedgedRow ==
    \A f \in Fids : row[f] = "open" => IsOpen(f) \/ InHandler(f)

\* No two tasks enrich one event at the same time, though "new", "update" and
\* the final attempt all spawn one (the `enriching` flag).
EnrichExclusive ==
    \A t, u \in Slots :
        Enriching(task[t].pc) /\ Enriching(task[u].pc) /\ task[t].f = task[u].f
            => t = u

\* An event notifies at most once, however often it is enriched again and
\* whatever the cooldown says by then (state["notified"], set before any await).
NotifiedOnce == \A f \in Fids : pushed[f] <= 1

\* A row that says has_snapshot has its file, after a crash too (_do_enrich
\* writes the file first).
FlaggedHasFile == flagged \subseteq files

\* All that clients see of an event goes the way EventRecord promises: a row is
\* opened once and never opened again after its end, pictures and pushes are of
\* an event that has a row, and no second push follows (handle_event,
\* _enrich_and_notify, across restarts).
Record == INSTANCE EventRecord
ImplementsRecord == Record!Spec

\* Once the administrator's POST has been answered, nothing more of a private
\* camera is written or sent: no snapshot, no web push, no phone (privacy.apply,
\* the gates of handle_event, _do_enrich and _send_notification).
AckMeansSilent ==
    [][\A f \in Fids : CameraOf(f) \in acked =>
            /\ f \in files' => f \in files
            /\ pushed'[f] = pushed[f]
            /\ f \in phoned' => f \in phoned]_vars

\* Nothing of the event is seen any more while the backend stays up.
Over(f) == phase = "up" /\ (KeyOf(f) \in quiet \/ ~IsOpen(f))

\* An event whose object has gone, and that is not reported late, is closed in
\* the end, though the worker may never see another frame: housekeeping ends it.
EventsEnd ==
    \A f \in Fids : <>[]Over(f) /\ []~LateReport(f) => <>[](row[f] # "open")

\* And all that enrichment keeps of it in memory is given back.
ActiveDrains ==
    \A f \in Fids : <>[]Over(f) /\ []~LateReport(f) =>
        <>[](f \notin active /\ \A t \in Slots : task[t].f # f \/ task[t] = NoTask)

=============================================================================
