------------------------------ MODULE Recorder ------------------------------
(***************************************************************************)
(* The 24/7 recorder (native/recorder.py): one supervisor task and one     *)
(* ffmpeg child per recorded camera, against everything that stops and     *)
(* starts them: camera edits and Privacy Mode (reload), the purge, and the *)
(* exit (stop).                                                            *)
(*                                                                         *)
(* reload and purge hold _purge_lock; stop does not.  An action is the     *)
(* code between two awaits of one coroutine.  Each of the callers "edit",  *)
(* "privacy" and "purge" is one request at a time: a second purge is       *)
(* refused (409), and each other caller ends in one reload.                *)
(*                                                                         *)
(* Left out: segments, hour directories, retention and clips; the back-off *)
(* times; a host without ffmpeg; a child that SIGKILL does not end.        *)
(***************************************************************************)
EXTENDS Naturals, FiniteSets

CONSTANTS
    Cameras,      \* camera names
    MayStall,     \* TRUE: a child can hang, so that the watchdog kills it
    MayExit       \* TRUE: the process can be told to stop

ASSUME ConstantsAssumption ==
    /\ Cameras # {}
    /\ {MayStall, MayExit} \subseteq BOOLEAN

Callers == {"edit", "privacy", "purge"}

VARIABLES
    running,     \* _running
    cams,        \* keys of _cams
    sup,         \* where the supervisor task in _cams[c] is
    leaving,     \* cameras whose cancelled supervisor is terminating its child
    orphan,      \* cameras with a child that got SIGTERM and nobody waits for
    lock,        \* the caller holding _purge_lock, or "free"
    op,          \* what each caller is at
    exit,        \* what stop() is at
    enabled,     \* cameras whose row says record_enabled
    private,     \* settings.private_cameras
    acked        \* the private set of the last answered POST

taskVars == <<cams, sup, leaving, orphan>>
adminVars == <<enabled, private, acked>>
vars == <<running, taskVars, lock, op, exit, adminVars>>

SupPcs == {"none", "new", "spawning", "watching", "killing", "backoff", "over"}
OpPcs == {"idle", "waiting", "listing", "halting", "emptying", "wiping"}

At(pc, rows, todo) == [pc |-> pc, rows |-> rows, todo |-> todo, wait |-> {}]
NoOp == At("idle", {}, {})

Init ==
    /\ running = TRUE
    /\ cams = Cameras
    /\ sup = [c \in Cameras |-> "new"]
    /\ leaving = {}
    /\ orphan = {}
    /\ lock = "free"
    /\ op = [o \in Callers |-> NoOp]
    /\ exit = [pc |-> "idle", todo |-> {}, wait |-> {}]
    /\ enabled = Cameras
    /\ private = {}
    /\ acked = {}

-----------------------------------------------------------------------------
(* The supervisor of a camera: _run_camera, _record_once, _watch.          *)

\* `while self._running`.
\* Fault: the loop does not look.
FaultGoesOn == TRUE
GoesOn == running

Move(c, from, to) ==
    /\ sup[c] = from
    /\ sup' = [sup EXCEPT ![c] = to]
    /\ UNCHANGED <<running, cams, leaving, orphan, lock, op, exit, adminVars>>

\* The task's first step, and the step after each back-off.
Cycle(c) ==
    \E from \in {"new", "backoff"} :
        Move(c, from, IF GoesOn THEN "spawning" ELSE "over")

\* The child is there, or could not be spawned.
Spawned(c) == \E to \in {"watching", "backoff"} : Move(c, "spawning", to)

ChildExits(c) == Move(c, "watching", "backoff")

\* No new segment for SEGMENT_STALL_S: SIGTERM, then up to 5 s of waiting.
Stall(c) == MayStall /\ Move(c, "watching", "killing")

Killed(c) == Move(c, "killing", "backoff")

\* A cancelled supervisor's child has ended: by SIGTERM, or by SIGKILL.
Terminated(c) ==
    /\ c \in leaving
    /\ leaving' = leaving \ {c}
    /\ UNCHANGED <<running, cams, sup, orphan, lock, op, exit, adminVars>>

OrphanEnds(c) ==
    /\ c \in orphan
    /\ orphan' = orphan \ {c}
    /\ UNCHANGED <<running, cams, sup, leaving, lock, op, exit, adminVars>>

Supervisor(c) == Cycle(c) \/ Spawned(c) \/ Killed(c) \/ Terminated(c)

-----------------------------------------------------------------------------
(* _stop_camera.                                                           *)

\* Out of _cams, and the supervisor is cancelled where it awaits.  Watching, it
\* terminates its child first.  Already terminating a hung one, it is torn out
\* of that very wait: the child keeps its SIGTERM and no SIGKILL follows.
Cancel(c) ==
    /\ cams' = cams \ {c}
    /\ sup' = [sup EXCEPT ![c] = "none"]
    /\ leaving' = IF c \in cams /\ sup[c] = "watching" THEN leaving \cup {c} ELSE leaving
    /\ orphan' = IF c \in cams /\ sup[c] = "killing" THEN orphan \cup {c} ELSE orphan

\* The caller awaits the task it has cancelled.
\* Fault: it does not.
FaultAwaited(c) == {}
Awaited(c) == IF c \in cams /\ sup[c] = "watching" THEN {c} ELSE {}

-----------------------------------------------------------------------------
(* reload and purge_all_recordings.                                        *)

Set(o, r) == op' = [op EXCEPT ![o] = r]
Ask(o) == op[o].pc = "idle" /\ Set(o, At("waiting", {}, {}))

\* A camera row is edited, then _apply_camera_change reloads.
Edit(c) ==
    /\ Ask("edit")
    /\ enabled' = IF c \in enabled THEN enabled \ {c} ELSE enabled \cup {c}
    /\ UNCHANGED <<running, taskVars, lock, exit, private, acked>>

\* privacy.resolve: groups become the cameras in them.
\* Fault: a group's number is put among the cameras.
FaultRaw(c) == {<<"group", c>>}
Resolved(c) == {c}

\* The private set is rebound, then privacy.apply reloads.
PrivacySet(c) ==
    /\ Ask("privacy")
    /\ private' = IF c \in private THEN private \ {c} ELSE private \cup Resolved(c)
    /\ acked' = acked \cap private'
    /\ UNCHANGED <<running, taskVars, lock, exit, enabled>>

Purge ==
    /\ Ask("purge")
    /\ UNCHANGED <<running, taskVars, lock, exit, adminVars>>

\* The caller is through; the answer to a privacy POST follows.
Finish(o) ==
    /\ Set(o, NoOp)
    /\ lock' = "free"
    /\ acked' = IF o = "privacy" THEN private ELSE acked
    /\ UNCHANGED <<enabled, private>>

\* _reload_locked, up to its await of the camera rows.
Reload(o) ==
    IF running
    THEN /\ Set(o, At("listing", enabled, {}))
         /\ lock' = o
         /\ UNCHANGED adminVars
    ELSE Finish(o)

Acquire(o) ==
    /\ op[o].pc = "waiting" /\ lock = "free"
    /\ IF o = "purge"
       THEN /\ lock' = o
            /\ Set(o, At("emptying", {}, cams))
            /\ UNCHANGED adminVars
       ELSE Reload(o)
    /\ UNCHANGED <<running, taskVars, exit>>

\* Fault: the privacy gate of _reload_locked is missing.
FaultWanted(o) == op[o].rows
Wanted(o) == op[o].rows \ private

\* The rows are there: which cameras to record, which to stop.
Listed(o) ==
    /\ op[o].pc = "listing"
    /\ Set(o, At("halting", Wanted(o), cams \ Wanted(o)))
    /\ UNCHANGED <<running, taskVars, lock, exit, adminVars>>

\* One camera is stopped, once the one before it is.
Halt(o) ==
    /\ op[o].pc \in {"halting", "emptying"}
    /\ op[o].wait \cap leaving = {}
    /\ \E c \in op[o].todo :
        /\ Set(o, [op[o] EXCEPT !.todo = @ \ {c}, !.wait = Awaited(c)])
        /\ Cancel(c)
    /\ UNCHANGED <<running, lock, exit, adminVars>>

Halted(o, pc) ==
    /\ op[o].pc = pc
    /\ op[o].todo = {} /\ op[o].wait \cap leaving = {}

\* All are stopped: the wanted ones that are not there get a supervisor.
Start(o) ==
    LET fresh == op[o].rows \ cams IN
    /\ Halted(o, "halting")
    /\ cams' = cams \cup fresh
    /\ sup' = [c \in Cameras |-> IF c \in fresh THEN "new" ELSE sup[c]]
    /\ Finish(o)
    /\ UNCHANGED <<running, leaving, orphan, exit>>

\* All are stopped: the tree is removed in a thread.
Wipe ==
    /\ Halted("purge", "emptying")
    /\ Set("purge", At("wiping", {}, {}))
    /\ UNCHANGED <<running, taskVars, lock, exit, adminVars>>

\* Faults: the recorders are not brought back; they are, by the public reload,
\* which waits for the lock its caller holds.
FaultStaysOff(o) == Finish(o)
FaultRelock(o) ==
    /\ Set(o, At("waiting", {}, {}))
    /\ UNCHANGED <<lock, adminVars>>
Resume(o) == Reload(o)

\* Removed, or failed; the recorders are brought back either way.
Wiped ==
    /\ op["purge"].pc = "wiping"
    /\ Resume("purge")
    /\ UNCHANGED <<running, taskVars, exit>>

Work(o) == Listed(o) \/ Halt(o) \/ Start(o)

-----------------------------------------------------------------------------
(* stop.                                                                   *)

Exit ==
    /\ MayExit /\ exit.pc = "idle"
    /\ running' = FALSE
    /\ exit' = [exit EXCEPT !.pc = "gathering"]
    /\ UNCHANGED <<taskVars, lock, op, adminVars>>

\* The recorder's own loops and clip workers are gone; now the cameras.
Gathered ==
    /\ exit.pc = "gathering"
    /\ exit' = [pc |-> "halting", todo |-> cams, wait |-> {}]
    /\ UNCHANGED <<running, taskVars, lock, op, adminVars>>

ExitHalt ==
    /\ exit.pc = "halting" /\ exit.wait \cap leaving = {}
    /\ \E c \in exit.todo :
        /\ exit' = [exit EXCEPT !.todo = @ \ {c}, !.wait = Awaited(c)]
        /\ Cancel(c)
    /\ UNCHANGED <<running, lock, op, adminVars>>

Stopped ==
    /\ exit.pc = "halting" /\ exit.todo = {} /\ exit.wait \cap leaving = {}
    /\ exit' = [exit EXCEPT !.pc = "stopped"]
    /\ UNCHANGED <<running, taskVars, lock, op, adminVars>>

Stopping == Gathered \/ ExitHalt \/ Stopped

-----------------------------------------------------------------------------

Next ==
    \/ \E c \in Cameras : \/ Supervisor(c) \/ ChildExits(c) \/ Stall(c)
                          \/ OrphanEnds(c) \/ Edit(c) \/ PrivacySet(c)
    \/ \E o \in Callers : Acquire(o) \/ Work(o)
    \/ Purge \/ Wipe \/ Wiped
    \/ Exit \/ Stopping

Spec == Init /\ [][Next]_vars

\* Coroutines that can go on do, a terminated child ends (SIGKILL at the
\* latest), the wipe ends, and the lock is handed out in the order it was asked
\* for.  Nothing makes an administrator act, a child hang or an orphan end.
Fairness ==
    /\ \A c \in Cameras : WF_vars(Supervisor(c))
    /\ \A o \in Callers : WF_vars(Work(o)) /\ SF_vars(Acquire(o))
    /\ WF_vars(Wipe) /\ WF_vars(Wiped) /\ WF_vars(Stopping)

FairSpec == Spec /\ Fairness

-----------------------------------------------------------------------------
(* Properties.                                                             *)

\* Every variable keeps its type; what is private is a set of cameras.
TypeOK ==
    /\ running \in BOOLEAN
    /\ cams \subseteq Cameras
    /\ sup \in [Cameras -> SupPcs]
    /\ leaving \subseteq Cameras
    /\ orphan \subseteq Cameras
    /\ lock \in Callers \cup {"free"}
    /\ op \in [Callers -> [pc : OpPcs, rows : SUBSET Cameras,
                           todo : SUBSET Cameras, wait : SUBSET Cameras]]
    /\ exit \in [pc : {"idle", "gathering", "halting", "stopped"},
                 todo : SUBSET Cameras, wait : SUBSET Cameras]
    /\ enabled \subseteq Cameras
    /\ private \subseteq Cameras
    /\ acked \subseteq Cameras

Capturing(c) == sup[c] \in {"spawning", "watching", "killing"}

\* While the recordings are wiped no supervisor has or spawns a child, and none
\* is still being waited for: no segment is unlinked mid-write
\* (purge_all_recordings under _purge_lock against reload).
WipeUndisturbed ==
    op["purge"].pc = "wiping" /\ running =>
        leaving = {} /\ \A c \in Cameras : ~Capturing(c)

\* From the answer to the privacy POST on, until the camera is released again,
\* nothing records it, whatever edit or purge reloads in the meantime, until the
\* process is told to stop (a reload that finds it stopping answers at once)
\* (the gate inside _reload_locked).
AckMeansStopped == running => \A c \in acked : c \notin cams /\ ~Capturing(c)

\* With no request under way the recorded cameras are those that should be: no
\* edit, toggle or purge is lost to another one it overlapped, and a purge never
\* leaves recording off.
RecordsWhatItShould ==
    running /\ (\A o \in Callers : op[o].pc = "idle") => cams = enabled \ private

\* After stop() nothing captures any more, not even a supervisor that a reload
\* started while stop was at work (stop takes no lock).
StopIsFinal == exit.pc = "stopped" => \A c \in Cameras : ~Capturing(c)

\* A camera never has two children: a new one is only spawned when the one
\* before it has ended (_stop_camera waits for it, _terminate kills it).
OneChild == \A c \in Cameras : sup[c] = "watching" => c \notin leaving \cup orphan

\* Every edit, toggle and purge ends, unless the process is told to stop: nobody
\* keeps _purge_lock, and nobody waits for it or for a supervisor for ever.
RequestsEnd ==
    \A o \in Callers : op[o].pc # "idle" ~> op[o].pc = "idle" \/ ~running

=============================================================================
