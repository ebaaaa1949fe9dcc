------------------------------- MODULE Models -------------------------------
(***************************************************************************)
(* The detector's models: the store that downloads and verifies them       *)
(* (native/model_store.py), the ONNX detector that loads one of them and   *)
(* swaps it live (native/detector.py), the routes that activate and delete *)
(* (routers/detection.py) and the supervisor that rebuilds a failing       *)
(* session (native/ingest.py).                                             *)
(*                                                                         *)
(* Three tasks bring a session up, one at a time under _boot_lock: start() *)
(* at boot, the reload of a model swap, and the supervisor's reinit.  Each *)
(* awaits the store's worker of its key, so a cancelled caller cancels the *)
(* worker and a cancelled worker raises CancelledError in its caller.      *)
(* Left out: byte counts, back-off times, the reinit cooldown, and stop(). *)
(***************************************************************************)
EXTENDS Integers

CONSTANTS
    Keys,          \* the models
    FailureRun     \* DETECT_FAILURE_THRESHOLD

Tasks == {"start", "reload", "reinit"}
None == "none"

VARIABLES
    file,       \* [Keys -> what is on disk: "absent", "good" or "bad"]
    shown,      \* [Keys -> _states[key].state]
    worker,     \* [Keys -> what the download task is doing, or None]
    active,     \* settings.detection.model
    model,      \* the detector's _model_key
    session,    \* the key whose session and label map are loaded, or None
    ready,      \* _ready
    task,       \* [Tasks -> where it is]
    key,        \* the key that the bootstrap under _boot_lock read, or None: it is free
    failures, needsReinit,
    frame       \* the key of the session an inference in flight runs on, or None

modelVars == <<file, shown, worker, active, model, session, ready, task, key, failures,
               needsReinit, frame>>

Store == <<file, shown, worker>>
Detector == <<model, session, ready>>
Health == <<failures, needsReinit>>

ModelsTypeOK ==
    /\ file \in [Keys -> {"absent", "good", "bad"}]
    /\ shown \in [Keys -> {"absent", "downloading", "verifying", "ready", "error"}]
    /\ worker \in [Keys -> {None, "created", "hashing", "fetching"}]
    /\ {active, model} \subseteq Keys /\ {session, key, frame} \subseteq Keys \cup {None}
    /\ ready \in BOOLEAN /\ needsReinit \in BOOLEAN
    /\ task \in [Tasks -> {"idle", "lock", "ensuring", "building", "backoff", "over", "dead"}]
    /\ failures \in 0..FailureRun

\* The store has looked at the disk (refresh), and start() is a boot task.
ModelsInit ==
    /\ file \in [Keys -> {"absent", "good", "bad"}]
    /\ shown = [k \in Keys |-> IF file[k] = "absent" THEN "absent" ELSE "ready"]
    /\ worker = [k \in Keys |-> None]
    /\ active \in Keys /\ model = active
    /\ session = None /\ ready = FALSE
    /\ task = [t \in Tasks |-> IF t = "start" THEN "lock" ELSE "idle"]
    /\ key = None
    /\ failures = 0 /\ needsReinit = FALSE
    /\ frame = None

-----------------------------------------------------------------------------
(* ModelStore.                                                             *)

\* _spawn: one worker per key.
Spawned(k) == IF worker[k] = None THEN [worker EXCEPT ![k] = "created"] ELSE worker

\* The task that awaits the worker of k.
Awaits(t, k) == task[t] = "ensuring" /\ key = k

\* What becomes of the tasks when the worker of k is over.
Woken(k, at) == [t \in Tasks |-> IF Awaits(t, k) THEN at ELSE task[t]]

\* A CancelledError ends start() and a reload for good, and with a reinit the
\* supervisor that called it.
Killed(k) ==
    [t \in Tasks |-> CASE Awaits(t, k) /\ t = "reinit" -> "dead"
                       [] Awaits(t, k) /\ t # "reinit" -> "over"
                       [] OTHER -> task[t]]

Download(k) ==
    /\ ~ (shown[k] = "ready" /\ file[k] # "absent")
    /\ worker[k] = None
    /\ worker' = Spawned(k)
    /\ UNCHANGED <<file, shown, active, Detector, task, key, Health, frame>>

WorkerStarts(k) ==
    /\ worker[k] = "created"
    /\ worker' = [worker EXCEPT ![k] = IF file[k] = "absent" THEN "fetching" ELSE "hashing"]
    /\ shown' = [shown EXCEPT ![k] = IF file[k] = "absent" THEN "downloading" ELSE "verifying"]
    /\ UNCHANGED <<file, active, Detector, task, key, Health, frame>>

\* sha256_file.
Hashed(k) == file[k]

Verified(k) ==
    /\ worker[k] = "hashing"
    /\ IF Hashed(k) = "good"
       THEN /\ worker' = [worker EXCEPT ![k] = None]
            /\ shown' = [shown EXCEPT ![k] = "ready"]
            /\ task' = Woken(k, "building")
            /\ UNCHANGED file
       ELSE /\ worker' = [worker EXCEPT ![k] = "fetching"]
            /\ file' = [file EXCEPT ![k] = "absent"]
            /\ UNCHANGED <<shown, task>>
    /\ UNCHANGED <<active, Detector, key, Health, frame>>

\* The download is complete and hashes to its pin, or it is not or does not.
Fetched(k, well) ==
    /\ worker[k] = "fetching"
    /\ worker' = [worker EXCEPT ![k] = None]
    /\ file' = IF well THEN [file EXCEPT ![k] = "good"] ELSE file
    /\ shown' = [shown EXCEPT ![k] = IF well THEN "ready" ELSE "error"]
    /\ task' = IF well THEN Woken(k, "building")
               ELSE [Woken(k, "backoff") EXCEPT !["reinit"] = IF Awaits("reinit", k) THEN "idle" ELSE @]
    /\ needsReinit' = (needsReinit \/ (~well /\ Awaits("reinit", k)))
    /\ key' = IF ~well /\ \E t \in Tasks : Awaits(t, k) THEN None ELSE key
    /\ UNCHANGED <<active, Detector, failures, frame>>

\* DELETE /api/detection/models/{key}: refused for the active model.
Delete(k) ==
    /\ k # active
    /\ worker' = [worker EXCEPT ![k] = None]
    /\ task' = Killed(k)
    /\ file' = [file EXCEPT ![k] = "absent"]
    /\ shown' = [shown EXCEPT ![k] = "absent"]
    /\ key' = IF \E t \in Tasks : Awaits(t, k) THEN None ELSE key
    /\ UNCHANGED <<active, Detector, Health, frame>>

-----------------------------------------------------------------------------
(* OnnxDetector.                                                           *)

\* The lock is taken and _bootstrap_once reads the key and joins the worker.
Bootstrap(t) ==
    /\ task[t] = "lock" /\ key = None
    /\ task' = [task EXCEPT ![t] = "ensuring"]
    /\ key' = model
    /\ worker' = Spawned(model)
    /\ ready' = (ready /\ t # "reinit")
    /\ UNCHANGED <<file, shown, active, model, session, Health, frame>>

Built(t) ==
    /\ task[t] = "building"
    /\ file[key] = "good"
    /\ session' = key
    /\ key' = None
    /\ ready' = TRUE
    /\ failures' = 0 /\ needsReinit' = FALSE
    /\ task' = [task EXCEPT ![t] = IF t = "start" THEN "over" ELSE "idle"]
    /\ UNCHANGED <<Store, active, model, frame>>

\* onnxruntime raises: the loops retry, a reinit leaves its flag set.
BuildFails(t) ==
    /\ task[t] = "building"
    /\ task' = [task EXCEPT ![t] = IF t = "reinit" THEN "idle" ELSE "backoff"]
    /\ needsReinit' = (needsReinit \/ t = "reinit")
    /\ key' = None
    /\ UNCHANGED <<Store, active, Detector, failures, frame>>

Retry(t) ==
    /\ task[t] = "backoff"
    /\ task' = [task EXCEPT ![t] = "lock"]
    /\ UNCHANGED <<Store, active, Detector, key, Health, frame>>

\* _start_reload_task: a reload under way is cancelled, and with it the worker
\* it awaits, whose state stays what it was.
\* Fault: the reload under way goes on instead.
FaultReplaced == IF task["reload"] \in {"idle", "over"} THEN "lock" ELSE task["reload"]
Replaced == "lock"

\* activate_model and PUT /api/settings persist the choice first.  Bound: the next
\* choice is made when the last has reached the detector.
Activate(k) ==
    /\ active = model /\ k # active
    /\ active' = k
    /\ UNCHANGED <<Store, Detector, task, key, Health, frame>>

\* engine.reload calls reconfigure with what is stored now, and the route then
\* asks the store for the model.
Reconfigure ==
    /\ active # model
    /\ model' = active
    /\ ready' = FALSE
    /\ task' = [task EXCEPT !["reload"] = Replaced]
    /\ LET cancelled == {k \in Keys : Awaits("reload", k) /\ task'["reload"] = "lock"}
           left == [k \in Keys |-> IF k \in cancelled THEN None ELSE worker[k]]
       IN  worker' = IF (shown[active] = "ready" /\ file[active] # "absent") \/ left[active] # None
                     THEN left ELSE [left EXCEPT ![active] = "created"]
    /\ key' = IF task["reload"] \in {"ensuring", "building"} /\ task'["reload"] = "lock"
              THEN None ELSE key
    /\ UNCHANGED <<file, shown, active, session, Health, frame>>

-----------------------------------------------------------------------------
(* The ingest worker and its supervisor.                                   *)

Infer ==
    /\ frame = None /\ ready
    /\ frame' = session
    /\ UNCHANGED <<Store, active, Detector, task, key, Health>>

\* The inference's result is turned into labels with the label map of now.
Inferred ==
    /\ frame # None
    /\ frame' = None /\ failures' = 0
    /\ UNCHANGED <<Store, active, Detector, task, key, needsReinit>>

InferenceFails ==
    /\ frame # None
    /\ frame' = None
    /\ failures' = IF failures < FailureRun THEN failures + 1 ELSE failures
    /\ needsReinit' = (needsReinit \/ failures + 1 >= FailureRun)
    /\ UNCHANGED <<Store, active, Detector, task, key>>

Supervise ==
    /\ needsReinit /\ task["reinit"] = "idle"
    /\ needsReinit' = FALSE
    /\ task' = [task EXCEPT !["reinit"] = "lock"]
    /\ UNCHANGED <<Store, active, Detector, key, failures, frame>>

ModelsNext ==
    \/ \E k \in Keys :
          \/ Download(k) \/ WorkerStarts(k) \/ Verified(k) \/ Delete(k) \/ Activate(k)
          \/ \E well \in BOOLEAN : Fetched(k, well)
    \/ \E t \in Tasks : Bootstrap(t) \/ Built(t) \/ BuildFails(t)
    \/ \E t \in Tasks : Retry(t)
    \/ Reconfigure \/ Infer \/ Inferred \/ InferenceFails \/ Supervise

-----------------------------------------------------------------------------
(* Properties.                                                             *)

UnderWay(t) == task[t] \in {"lock", "ensuring", "building", "backoff"}

\* reconfigure, ensure_model and the boot lock: however swaps, deletions and failures
\* interleave, no session is built from a file whose hash was not its pin, and the
\* detector runs the model it was last told to, or is about to be told another, or
\* some task is still bringing it up, or the supervisor will.
RightModel ==
    /\ \A t \in Tasks : task[t] = "building" => file[key] # "bad"
    /\ \/ ready /\ session = model
       \/ active # model
       \/ \E t \in Tasks : UnderWay(t)
       \/ needsReinit /\ task["reinit"] # "dead"

-----------------------------------------------------------------------------
(* What the source's comments say and TLC finds violated (see the README). *)

\* The state machine of the store: a model that shows a download or a check has a
\* task doing it.
ShownIsDone == \A k \in Keys : shown[k] \in {"downloading", "verifying"} => worker[k] # None

\* _bootstrap_once: what an inference found is named with its own model's labels.
LabelsMatch == [][Inferred => frame = session]_modelVars

\* _supervisor: it survives anything.
SupervisorLives == task["reinit"] # "dead"

=============================================================================
