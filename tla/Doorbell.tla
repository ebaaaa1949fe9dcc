------------------------------ MODULE Doorbell ------------------------------
(***************************************************************************)
(* A press of a doorbell button (events_pipeline.py, handle_doorbell and   *)
(* what it spawns).                                                        *)
(*                                                                         *)
(* One watcher per doorbell camera (amcrest/doorbell.py) awaits the press  *)
(* handler inline: it inserts the row, saves a live picture, rings and     *)
(* pushes.  On a camera that records, the row is left open and a           *)
(* supervisor task polls the engine's person count until the visitor has   *)
(* left, then closes the row and schedules the clip.  Privacy Mode and the *)
(* exit cancel the pipeline's tasks; they do not cancel the handler, which *)
(* is the watcher's.                                                       *)
(*                                                                         *)
(* Time passes in ticks; a supervisor polls at least once per tick (its    *)
(* period is 1 s).  An action is the code between two awaits.              *)
(***************************************************************************)
EXTENDS Naturals, FiniteSets

CONSTANTS
    Cameras,      \* doorbell cameras
    Recorded,     \* those with record_enabled
    MaxPresses,   \* bound: presses per camera that get past the cooldown
    Cooldown,     \* _DOORBELL_COOLDOWN_S, in ticks
    Absence,      \* _DOORBELL_ABSENCE_S
    MinHold,      \* _DOORBELL_MIN_S
    MaxHold,      \* DOORBELL_MAX_S
    MaxBoots,     \* bound: starts of the process
    MayToggle,    \* TRUE: an administrator switches Privacy Mode
    MayResync,    \* TRUE: a camera edit restarts its watcher
    MayFail,      \* TRUE: the write that closes a row can fail
    MayCrash      \* TRUE: the process can die

ASSUME ConstantsAssumption ==
    /\ Cameras # {} /\ Recorded \subseteq Cameras
    /\ MaxPresses \in Nat \ {0} /\ MaxBoots \in Nat \ {0}
    /\ {Cooldown, Absence, MinHold, MaxHold} \subseteq Nat
    /\ 0 < Absence /\ Absence <= MinHold /\ MinHold < MaxHold
    /\ {MayToggle, MayResync, MayFail, MayCrash} \subseteq BOOLEAN

Presses == Cameras \X (1 .. MaxPresses)
CameraOf(e) == e[1]

VARIABLES
    hot,         \* ticks left of a camera's ("doorbell", camera) cooldown
    count,       \* presses of a camera so far
    handler,     \* the await a camera's watcher is at inside handle_doorbell
    recording,   \* _doorbell_recording_cams
    sup,         \* the recording supervisor of a press
    age, seen,   \* its now - start_time and last_present - start_time
    polled,      \* supervisors that have polled in this tick
    present,     \* cameras whose person count is above zero
    voip, phone, \* the ring, and the APNs/ntfy alert, of a press
    row,         \* end_time: none, open, marker (= start_time), visit, swept
    files,       \* pictures written
    pushed,      \* web pushes sent
    clips,       \* handed to recorder.schedule_clip
    private, admin,  phase, boots

visitVars == <<recording, sup, age, seen, polled, present>>
senderVars == <<voip, phone>>
outVars == <<files, pushed, clips>>
hostVars == <<private, admin,  phase, boots>>
vars == <<hot, count, handler, visitVars, senderVars, row, outVars, hostVars>>

HandlerPcs == {"idle", "reading", "inserting", "grabbing", "telling", "listing", "pushing"}
SupPcs == {"none", "spawned", "watching", "leaving", "capped", "closing", "over"}
SenderPcs == {"none", "spawned", "sent", "cancelled"}

Init ==
    /\ hot = [c \in Cameras |-> 0]
    /\ count = [c \in Cameras |-> 0]
    /\ handler = [c \in Cameras |-> "idle"]
    /\ recording = {}
    /\ sup = [e \in Presses |-> "none"]
    /\ age = [e \in Presses |-> 0]
    /\ seen = [e \in Presses |-> 0]
    /\ polled = {}
    /\ present = {}
    /\ voip = [e \in Presses |-> "none"]
    /\ phone = [e \in Presses |-> "none"]
    /\ row = [e \in Presses |-> "none"]
    /\ files = {}
    /\ pushed = {}
    /\ clips = {}
    /\ private = {}
    /\ admin = "idle"
    /\ phase = "up"
    /\ boots = 1

Current(c) == <<c, count[c]>>
IsPrivate(e) == CameraOf(e) \in private
Goto(c, pc) == handler' = [handler EXCEPT ![c] = pc]
Supervising(pc) == pc \in {"spawned", "watching"}

-----------------------------------------------------------------------------
(* handle_doorbell.                                                        *)

\* The privacy gate, then the cooldown, marked before the first await.
Press(c) ==
    /\ phase = "up" /\ handler[c] = "idle"
    /\ count[c] < MaxPresses
    /\ c \notin private /\ hot[c] = 0
    /\ hot' = [hot EXCEPT ![c] = Cooldown]
    /\ count' = [count EXCEPT ![c] = @ + 1]
    /\ Goto(c, "reading")
    /\ UNCHANGED <<visitVars, senderVars, row, outVars, hostVars>>

\* One recording per visit: a second press only rings.
\* Fault: a press during a visit records as well.
FaultRecordAgain(c) == c \in Recorded
WillRecord(c) == c \in Recorded /\ c \notin recording

\* The camera row is read; the event row is inserted, open if it will record.
Insert(c) ==
    /\ handler[c] = "reading"
    /\ row' = [row EXCEPT ![Current(c)] = IF WillRecord(c) THEN "open" ELSE "marker"]
    /\ Goto(c, "inserting")
    /\ UNCHANGED <<hot, count, visitVars, senderVars, outVars, hostVars>>

\* Row inserted: the supervisor is spawned, then _save_live_snapshot passes its
\* gate or returns at once.
Spawn(c) ==
    LET e == Current(c) IN
    /\ handler[c] = "inserting"
    /\ IF row[e] = "open"
       THEN /\ recording' = recording \cup {c}
            /\ sup' = [sup EXCEPT ![e] = "spawned"]
       ELSE UNCHANGED <<recording, sup>>
    /\ Goto(c, IF c \in private THEN "telling" ELSE "grabbing")
    /\ UNCHANGED <<hot, count, age, seen, polled, present, senderVars, row,
                   outVars, hostVars>>

\* The picture came, goes to a thread and onto the row; or there is none.
Grab(c) ==
    /\ handler[c] = "grabbing"
    /\ files' \in {files, files \cup {Current(c)}}
    /\ Goto(c, "telling")
    /\ UNCHANGED <<hot, count, visitVars, senderVars, row, pushed, clips,
                   hostVars>>

\* Fault: a repeat press, which records nothing, does not ring either.
FaultRingRecorded(e) ==
    voip' = IF row[e] = "marker" THEN voip ELSE [voip EXCEPT ![e] = "spawned"]
SpawnVoip(e) == voip' = [voip EXCEPT ![e] = "spawned"]

MaySend(c) == c \notin private

\* The ring gets a task of its own; _send_notification passes its gate and asks
\* for the subscriptions, unless notifications are off.
Ring(c) ==
    /\ handler[c] = "telling"
    /\ SpawnVoip(Current(c))
    /\ \/ MaySend(c) /\ Goto(c, "listing")
       \/ Goto(c, "idle")
    /\ UNCHANGED <<hot, count, visitVars, phone, row, outVars, hostVars>>

\* send_to_all hands the push to its threads.
Send(c) ==
    /\ handler[c] = "listing"
    /\ pushed' = pushed \cup {Current(c)}
    /\ Goto(c, "pushing")
    /\ UNCHANGED <<hot, count, visitVars, senderVars, row, files, clips, hostVars>>

\* Web push answered: APNs and ntfy get tasks of their own.
Alert(c) ==
    /\ handler[c] = "pushing"
    /\ phone' = [phone EXCEPT ![Current(c)] = "spawned"]
    /\ Goto(c, "idle")
    /\ UNCHANGED <<hot, count, visitVars, voip, row, outVars, hostVars>>

Voip(e) ==
    /\ voip[e] = "spawned"
    /\ voip' = [voip EXCEPT ![e] = "sent"]
    /\ UNCHANGED <<hot, count, handler, visitVars, phone, row, outVars, hostVars>>

Phone(e) ==
    /\ phone[e] = "spawned"
    /\ phone' = [phone EXCEPT ![e] = "sent"]
    /\ UNCHANGED <<hot, count, handler, visitVars, voip, row, outVars, hostVars>>

\* An await of the handler raises; the watcher logs it and goes on listening.
\* Nothing is awaited between the insert and the spawn.
HandlerFails(c) ==
    /\ MayFail /\ handler[c] \in {"reading", "grabbing", "telling", "listing", "pushing"}
    /\ Goto(c, "idle")
    /\ UNCHANGED <<hot, count, visitVars, senderVars, row, outVars, hostVars>>

-----------------------------------------------------------------------------
(* _doorbell_recording.                                                    *)

\* The `finally` of a supervisor that ran: the camera is free again and the row
\* is closed, as a visit or at the press.  A write that fails is only logged.
\* Fault: the camera is freed after the write, so not if that fails.
FaultFinally(e, end, pc) ==
    /\ \/ /\ recording' = recording \ {CameraOf(e)}
          /\ row' = [row EXCEPT ![e] = end]
       \/ MayFail /\ UNCHANGED <<recording, row>>
    /\ sup' = [sup EXCEPT ![e] = pc]
    /\ seen' = [seen EXCEPT ![e] = 0]
    /\ UNCHANGED polled
Finally(e, end, pc) ==
    /\ recording' = recording \ {CameraOf(e)}
    /\ \/ row' = [row EXCEPT ![e] = end]
       \/ MayFail /\ UNCHANGED row
    /\ sup' = [sup EXCEPT ![e] = pc]
    /\ seen' = [seen EXCEPT ![e] = 0]
    /\ UNCHANGED polled

\* A visitor has left: unseen for long enough, and not too soon.
Left(e, last) == age[e] - last >= Absence /\ age[e] >= MinHold

\* Fault: the person count is read once, at the press.
FaultSeenOnce(e) == seen[e]
LastSeen(e) == IF CameraOf(e) \in present THEN age[e] ELSE seen[e]

\* Fault: no cap, the visit lasts as long as somebody is there; or it comes a tick late.
FaultNoCap(e) == FALSE
FaultCapLate(e) == age[e] > MaxHold
Capped(e) == age[e] >= MaxHold

Poll(e) ==
    LET last == LastSeen(e) IN
    /\ Supervising(sup[e]) /\ e \notin polled
    /\ \/ MayFail /\ Finally(e, "marker", "closing")   \* outcome "error"
       \/ IF IsPrivate(e) THEN Finally(e, "marker", "closing")
          ELSE IF Capped(e) THEN Finally(e, "visit", "capped")
          ELSE IF Left(e, last) THEN Finally(e, "visit", "leaving")
          ELSE /\ seen' = [seen EXCEPT ![e] = last]
               /\ polled' = polled \cup {e}
               /\ sup' = [sup EXCEPT ![e] = "watching"]
               /\ UNCHANGED <<recording, row>>
    /\ UNCHANGED <<hot, count, handler, age, present, senderVars, outVars, hostVars>>

\* Fault: the clip of a recording that went wrong is cut as well.
FaultClipAll(e) == ~IsPrivate(e)
\* A visit is handed to the recorder, whose gate is Privacy Mode and its own stop.
Clippable(e) == sup[e] # "closing" /\ ~IsPrivate(e)

\* Row closed and broadcast.  During the exit the recorder may have stopped already.
SupDone(e) ==
    /\ sup[e] \in {"leaving", "capped", "closing"}
    /\ \/ Clippable(e) /\ clips' = clips \cup {e}
       \/ (~Clippable(e) \/ phase = "stopping") /\ UNCHANGED clips
    /\ sup' = [sup EXCEPT ![e] = "over"]
    /\ age' = [age EXCEPT ![e] = 0]
    /\ UNCHANGED <<hot, count, handler, recording, seen, polled, present,
                   senderVars, row, files, pushed, hostVars>>

\* The engine's person count of a camera changes (update_count).
Person(c) ==
    /\ phase = "up"
    /\ present' = IF c \in present THEN present \ {c} ELSE present \cup {c}
    /\ UNCHANGED <<hot, count, handler, recording, sup, age, seen, polled,
                   senderVars, row, outVars, hostVars>>

RunDown(h) == IF h > 0 THEN h - 1 ELSE 0

\* A tick: cooldowns run down, and the ages of the rows held open go up.
Tick ==
    /\ phase # "down"
    /\ \A e \in Presses : Supervising(sup[e]) => e \in polled
    /\ \/ \E c \in Cameras : hot[c] > 0
       \/ \E e \in Presses : Supervising(sup[e])
    /\ hot' = [c \in Cameras |-> RunDown(hot[c])]
    /\ age' = [e \in Presses |-> IF Supervising(sup[e]) /\ age[e] <= MaxHold
                                 THEN age[e] + 1 ELSE age[e]]
    /\ polled' = {}
    /\ UNCHANGED <<count, handler, recording, sup, seen, present, senderVars,
                   row, outVars, hostVars>>

-----------------------------------------------------------------------------
(* Privacy Mode, camera edits, exit, crash and restart.                    *)

\* The pipeline's tasks are gone.
TasksEnd ==
    /\ sup' = [e \in Presses |-> IF sup[e] = "none" THEN "none" ELSE "over"]
    /\ age' = [e \in Presses |-> 0]
    /\ seen' = [e \in Presses |-> 0]
    /\ polled' = {}
    /\ voip' = [e \in Presses |-> IF voip[e] = "spawned" THEN "cancelled" ELSE voip[e]]
    /\ phone' = [e \in Presses |-> IF phone[e] = "spawned" THEN "cancelled"
                                                           ELSE phone[e]]

\* pipeline.shutdown.  A supervisor that ran closes its row at the press, unless that
\* write fails; one that never started runs no `finally`; one already closing is cut
\* short.
CancelTasks ==
    LET ran == {e \in Presses : sup[e] = "watching"} IN
    /\ recording' = recording \ {CameraOf(e) : e \in ran}
    /\ \E closed \in SUBSET ran :
          /\ MayFail \/ closed = ran
          /\ row' = [e \in Presses |-> IF e \in closed THEN "marker" ELSE row[e]]
    /\ TasksEnd

PrivacySet(c) ==
    /\ MayToggle /\ phase = "up" /\ admin = "idle"
    /\ private' = IF c \in private THEN private \ {c} ELSE private \cup {c}
    /\ admin' = "applying"
    /\ UNCHANGED <<hot, count, handler, visitVars, senderVars, row, outVars,
                   phase, boots>>

\* The last thing apply does before the POST is answered.
PrivacyShutdown ==
    /\ admin = "applying"
    /\ CancelTasks
    /\ admin' = "idle"
    /\ UNCHANGED <<hot, count, handler, present, outVars, private, phase,
                   boots>>

\* DoorbellManager.sync after a camera edit: the watcher is cancelled where it
\* awaits, and a new one is started.
WatcherRestart(c) ==
    /\ MayResync /\ phase = "up" /\ handler[c] # "idle"
    /\ Goto(c, "idle")
    /\ UNCHANGED <<hot, count, visitVars, senderVars, row, outVars, hostVars>>

\* lifespan's exit: the watchers first.
Stop ==
    /\ phase = "up" /\ admin = "idle"
    /\ phase' = "stopping"
    /\ handler' = [c \in Cameras |-> "idle"]
    /\ UNCHANGED <<hot, count, visitVars, senderVars, row, outVars, private,
                   admin, boots>>

\* What lives in memory; a new process starts with it empty (Boot).
Forget ==
    /\ phase' = "down"
    /\ handler' = [c \in Cameras |-> "idle"]
    /\ hot' = [c \in Cameras |-> 0]
    /\ present' = {}
    /\ admin' = "idle"
    /\ UNCHANGED <<count, outVars, private, boots>>

\* Then the pipeline's tasks, and the database.
Down ==
    /\ phase = "stopping"
    /\ CancelTasks
    /\ Forget

\* Process death, or the restart watchdog's forced exit: no `finally` runs.
Crash ==
    /\ MayCrash /\ phase # "down"
    /\ TasksEnd
    /\ UNCHANGED <<recording, row>>
    /\ Forget

\* db.close_open_doorbell_events.
\* Fault: the rows of the previous process are left alone.
FaultNoSweep == UNCHANGED row
Sweep == row' = [e \in Presses |-> IF row[e] = "open" THEN "swept" ELSE row[e]]

Boot ==
    /\ phase = "down" /\ boots < MaxBoots
    /\ phase' = "up"
    /\ boots' = boots + 1
    /\ Sweep
    /\ recording' = {}
    /\ UNCHANGED <<hot, count, handler, sup, age, seen, polled, present,
                   senderVars, outVars, private, admin>>

-----------------------------------------------------------------------------

Handle(c) == \/ Insert(c) \/ Spawn(c) \/ Grab(c) \/ Ring(c) \/ Send(c) \/ Alert(c)

Supervise(e) == Poll(e) \/ SupDone(e)

Next ==
    \/ \E c \in Cameras : \/ Press(c) \/ Handle(c) \/ Person(c)
                          \/ HandlerFails(c) \/ PrivacySet(c) \/ WatcherRestart(c)
    \/ \E e \in Presses : Supervise(e) \/ Voip(e) \/ Phone(e)
    \/ Tick \/ PrivacyShutdown \/ Stop \/ Down \/ Crash \/ Boot

Spec == Init /\ [][Next]_vars

\* The loop runs what can run, time passes, and Docker restarts the container.
Fairness ==
    /\ \A c \in Cameras : WF_vars(Handle(c))
    /\ \A e \in Presses : WF_vars(Supervise(e)) /\ WF_vars(Voip(e))
                          /\ WF_vars(Phone(e))
    /\ WF_vars(Tick)
    /\ WF_vars(Down)
    /\ WF_vars(Boot)

FairSpec == Spec /\ Fairness

-----------------------------------------------------------------------------
(* Properties.                                                             *)

\* Every variable keeps its type; no row is held open a tick longer than the cap.
TypeOK ==
    /\ hot \in [Cameras -> 0 .. Cooldown]
    /\ count \in [Cameras -> 0 .. MaxPresses]
    /\ handler \in [Cameras -> HandlerPcs]
    /\ recording \subseteq Cameras
    /\ sup \in [Presses -> SupPcs]
    /\ age \in [Presses -> 0 .. MaxHold]
    /\ seen \in [Presses -> 0 .. MaxHold]
    /\ polled \subseteq Presses
    /\ present \subseteq Cameras
    /\ voip \in [Presses -> SenderPcs]
    /\ phone \in [Presses -> SenderPcs]
    /\ row \in [Presses -> {"none", "open", "marker", "visit", "swept"}]
    /\ files \subseteq Presses
    /\ pushed \subseteq Presses
    /\ clips \subseteq Presses
    /\ private \subseteq Cameras
    /\ admin \in {"idle", "applying"}
    /\ phase \in {"up", "stopping", "down"}
    /\ boots \in 1 .. MaxBoots

\* One recording per visit: a camera never has two supervisors, though it may
\* ring again every 15 s (_doorbell_recording_cams, checked before the insert
\* and set after it).
OneVisit ==
    \A d, e \in Presses :
        Supervising(sup[d]) /\ Supervising(sup[e]) /\ CameraOf(d) = CameraOf(e)
            => d = e

\* While the backend is up, a row without an end time has its supervisor, or
\* the handler is just about to spawn it: nothing reads "processing" for ever
\* (handle_doorbell spawns before anything that can fail; the boot sweep).
OpenRowSupervised ==
    phase = "up" => \A e \in Presses : row[e] = "open" =>
        \/ Supervising(sup[e])
        \/ handler[CameraOf(e)] = "inserting" /\ Current(CameraOf(e)) = e

\* A visit is not closed while the visitor stands in front of the camera,
\* unless the cap is reached.
NoEarlyLeave ==
    [][\A e \in Presses :
            row[e] = "open" /\ row'[e] = "visit" /\ CameraOf(e) \in present
                => age[e] = MaxHold]_vars

\* A camera that is filmed no longer can be filmed again: _doorbell_recording_cams lets
\* it go with its supervisor, however that ends and whatever fails.  The exception is a
\* supervisor that Privacy Mode cancels before its first step.
CameraFreed ==
    [][\A e \in Presses :
            Supervising(sup[e]) /\ ~Supervising(sup'[e]) /\ CameraOf(e) \in recording' =>
                \/ sup[e] = "spawned" /\ admin = "applying"
                \/ phase' = "down"]_vars

\* Every press that got past the cooldown rings in the end, whether it records
\* or not, as long as the backend runs.
PressRings ==
    [](phase = "up") =>
        \A e \in Presses : count[CameraOf(e)] >= e[2] ~> voip[e] = "sent"

\* A row held open is closed in the end, though the visitor may never leave
\* and the process may die: by the supervisor, by its cap, or by the sweep.
RowsClose ==
    <>[](phase = "up") => \A e \in Presses : row[e] = "open" ~> row[e] # "open"

\* What the supervisor of a press has done for it, by its stage.
Filming ==
    [pc \in SupPcs |->
        CASE pc = "none" -> "none"
          [] Supervising(pc) -> "on"
          [] pc \in {"leaving", "capped"} -> "done"
          [] OTHER -> "over"]

\* Through toggles, camera edits, failures, crashes and restarts, what becomes of
\* a press is what VisitRecord allows: its row ends once, it is filmed once and
\* alone, only a whole visit is clipped, and nobody is told, rung or alerted twice.
Visit == INSTANCE VisitRecord WITH
    film    <- [e \in Presses |-> Filming[sup[e]]],
    rung    <- {e \in Presses : voip[e] = "sent"},
    alerted <- {e \in Presses : phone[e] = "sent"}
ImplementsVisit == Visit!Spec

-----------------------------------------------------------------------------
(* What the source's comments say and TLC finds violated (see the README). *)

\* privacy.apply: "the ack must not precede the actual teardown above".  But the press
\* handler is the watcher's, and goes on.
SilentWhenAnswered ==
    [][\A e \in Presses : IsPrivate(e) /\ admin = "idle" =>
            /\ e \in files' => e \in files
            /\ e \in pushed' => e \in pushed
            /\ voip'[e] = "sent" => voip[e] = "sent"
            /\ phone'[e] = "sent" => phone[e] = "sent"]_vars

=============================================================================
