------------------------------- MODULE Ingest -------------------------------
(***************************************************************************)
(* IngestManager and FrameSource (native/ingest.py) with the part of the   *)
(* engine that keeps a camera's latest frame: one source task with its     *)
(* ffmpeg child per detecting camera, one worker that takes the newest     *)
(* frame of each source, and the calls of reload().  A component of        *)
(* Capture.                                                                *)
(*                                                                         *)
(* A row is [url, mode]; a source's key is its url.  Left out: what a      *)
(* frame shows, back-off times, trackers, and the detector's               *)
(* reinitialisation.                                                       *)
(***************************************************************************)
EXTENDS Naturals, FiniteSets

CONSTANTS
    Cameras,
    Versions,     \* numbers above 0
    Requests      \* administrator requests, each in at most one reload()

Modes == {"always", "camera_ai", "camera_ai_only"}
Rows == [url : Versions, mode : Modes]

VARIABLES
    sources,      \* [Cameras -> key of the source in _sources, or 0]
    feed,         \* [Cameras -> where the source's task is]
    dying,        \* cameras with a child that a stop has killed and that has not
                  \* ended yet
    slot,         \* cameras whose source holds a frame nobody took yet
    cams,         \* keys of _cams
    worker,       \* the worker: pc, the cameras it has yet to visit, its frame
    latest,       \* cameras the engine has a latest_frame of
    reloading     \* [Requests -> a call of reload()]

ingestVars == <<sources, feed, dying, slot, cams, worker, latest, reloading>>

FeedPcs == {"none", "spawning", "reading", "killing", "backoff"}

Idle == [pc |-> "idle", todo |-> {}, cam |-> CHOOSE c \in Cameras : TRUE]
Reload(pc, wanted, todo, wait) == [pc |-> pc, wanted |-> wanted, todo |-> todo, wait |-> wait]
NoReload == Reload("idle", [c \in Cameras |-> 0], {}, {})

IngestTypeOK ==
    /\ sources \in [Cameras -> Versions \cup {0}]
    /\ feed \in [Cameras -> FeedPcs]
    /\ {dying, slot, cams, latest} \subseteq SUBSET Cameras
    /\ worker \in [pc : {"idle", "visiting", "inferring"}, todo : SUBSET Cameras,
                   cam : Cameras]
    /\ reloading \in [Requests -> [pc : {"idle", "stopping", "over"},
                                   wanted : [Cameras -> Versions \cup {0}],
                                   todo : SUBSET Cameras, wait : SUBSET Cameras]]

-----------------------------------------------------------------------------
(* FrameSource.run.                                                        *)

Fed(c, from, to) ==
    /\ feed[c] = from
    /\ feed' = [feed EXCEPT ![c] = to]
    /\ UNCHANGED <<sources, dying, cams, worker, latest, reloading>>

Spawn(c) ==
    /\ \E to \in {"reading", "backoff"} : Fed(c, "spawning", to)
    /\ UNCHANGED slot

\* readexactly returns a frame: it replaces the one nobody took.
FrameRead(c) ==
    /\ feed[c] = "reading"
    /\ c \notin slot
    /\ slot' = slot \cup {c}
    /\ UNCHANGED <<sources, feed, dying, cams, worker, latest, reloading>>

\* End of stream, or no frame for STALL_TIMEOUT_S: the child is killed and waited
\* for.
Lost(c) == Fed(c, "reading", "killing") /\ UNCHANGED slot

Killed(c) == Fed(c, "killing", "backoff") /\ UNCHANGED slot

Respawn(c) == Fed(c, "backoff", "spawning") /\ UNCHANGED slot

-----------------------------------------------------------------------------
(* reload().                                                               *)

\* The sources the rows ask for.  The rows are the caller's; the private set is
\* the one of this moment.
Wanted(rows, private) ==
    [c \in Cameras |-> IF rows[c].mode = "camera_ai_only" \/ c \in private
                       THEN 0 ELSE rows[c].url]

\* _stop_source, up to its await: out of every table, and the task cancelled.
\* A child that is reading is killed; one that was killed before is not waited for
\* any more.
StopSource(c) ==
    /\ sources' = [sources EXCEPT ![c] = 0]
    /\ feed' = [feed EXCEPT ![c] = "none"]
    /\ dying' = IF feed[c] = "reading" THEN dying \cup {c} ELSE dying
    /\ slot' = slot \ {c}

\* Then the task is awaited.  Fault: it is not.
FaultAwaits(c) == {}
Awaits(c) == {c}

\* The loop over the snapshot of names, up to the next await.  After the last
\* one, the missing sources start and _cams is brought up to date.
Proceed(r, call) ==
    LET stopping == {c \in call.todo : sources[c] \notin {0, call.wanted[c]}}
        starting == {c \in Cameras : call.wanted[c] # 0 /\ sources[c] = 0}
    IN  /\ \/ \E c \in stopping, passed \in SUBSET (call.todo \ stopping) :
                 /\ StopSource(c)
                 /\ reloading' = [reloading EXCEPT ![r] =
                       Reload("stopping", call.wanted, call.todo \ (passed \cup {c}), Awaits(c))]
                 /\ UNCHANGED cams
           \/ /\ stopping = {}
              /\ sources' = [c \in Cameras |-> IF c \in starting THEN call.wanted[c] ELSE sources[c]]
              /\ feed' = [c \in Cameras |-> IF c \in starting THEN "spawning" ELSE feed[c]]
              /\ cams' = {c \in Cameras : call.wanted[c] # 0}
              /\ reloading' = [reloading EXCEPT ![r] = Reload("over", NoReload.wanted, {}, {})]
              /\ UNCHANGED <<dying, slot>>
        /\ UNCHANGED worker

BeginReload(r, rows, private) ==
    /\ reloading[r].pc = "idle"
    /\ Proceed(r, Reload("stopping", Wanted(rows, private), {c \in Cameras : sources[c] # 0}, {}))

ReloadStep(r) ==
    /\ reloading[r].pc = "stopping"
    /\ reloading[r].wait \cap dying = {}
    /\ Proceed(r, reloading[r])
    /\ UNCHANGED latest

Reaped(c) ==
    /\ c \in dying
    /\ dying' = dying \ {c}
    /\ UNCHANGED <<sources, feed, slot, cams, worker, latest, reloading>>

ReloadDone(r) == reloading[r].pc = "over"

-----------------------------------------------------------------------------
(* The one inference worker.                                               *)

\* Woken by a frame or by the heartbeat: a snapshot of the sources to visit.
Wake ==
    /\ worker.pc = "idle"
    /\ slot # {}
    /\ worker' = [worker EXCEPT !.pc = "visiting", !.todo = {c \in Cameras : sources[c] # 0}]
    /\ UNCHANGED <<sources, feed, dying, slot, cams, latest, reloading>>

\* _process_frame, up to the inference: a private camera's frame is dropped.
Gate(c, private) == c \notin private

\* A source that is gone or has no frame gets no inference.  camera_ai and a
\* detector that is not ready hand the frame to the engine at once.
Visit(c, private) ==
    /\ worker.pc = "visiting"
    /\ c \in worker.todo
    /\ slot' = slot \ {c}
    /\ worker' \in
         IF c \in slot /\ c \in cams /\ Gate(c, private)
         THEN {[worker EXCEPT !.todo = @ \ {c}],
               [worker EXCEPT !.pc = "inferring", !.todo = @ \ {c}, !.cam = c]}
         ELSE {[worker EXCEPT !.todo = @ \ {c}]}
    /\ latest' = IF c \in slot /\ c \in cams /\ Gate(c, private) /\ worker'.pc = "visiting"
                 THEN latest \cup {c}
                 ELSE latest
    /\ UNCHANGED <<sources, feed, dying, cams, reloading>>

\* The inference has answered, failed or run into DETECT_TIMEOUT_S; engine.process
\* takes the frame in every case.
Inferred ==
    /\ worker.pc = "inferring"
    /\ worker' = [worker EXCEPT !.pc = "visiting"]
    /\ latest' = latest \cup {worker.cam}
    /\ UNCHANGED <<sources, feed, dying, slot, cams, reloading>>

Rest ==
    /\ worker.pc = "visiting"
    /\ worker.todo = {}
    /\ worker' = Idle
    /\ UNCHANGED <<sources, feed, dying, slot, cams, latest, reloading>>

-----------------------------------------------------------------------------
(* engine.reload: the latest frame of a camera that is private is dropped. *)
Cleared(private) == latest \ private

=============================================================================
