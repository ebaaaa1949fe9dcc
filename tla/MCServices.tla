----------------------------- MODULE MCServices -----------------------------
(***************************************************************************)
(* The components around the event pipeline for TLC, nine that share no    *)
(* state: one of them runs while the others stay as they start.            *)
(***************************************************************************)
EXTENDS Relay

CONSTANTS
    Topics, FireTopics, Pull, Renew, AiCooldown, MaxActive, Grace, BackoffMin, BackoffMax, Stable,
    Phones, Browsers, Alerts,
    Keys, FailureRun,
    Devices, Detects, MaxRebuilds, RunLength,
    Timers, Holds, Dusk,
    QueueMax, TalkMax, Drain, Teardown,
    Forms,
    Newest, Windows, Asks, Encoders, MaxCached

\* The parts' settings: durations and limits are whole numbers, a pull takes time, a
\* queue holds a chunk, a backoff starts below its maximum, the failsafe's grace is no
\* longer than the period of renewals (ai_events.py: 120 s and 300 s), a window is of
\* segments, and no name of a task or a model is a word the modules use.
ASSUME PartsAssumption ==
    /\ {Pull, Renew, AiCooldown, MaxActive, Grace, BackoffMin, BackoffMax, Stable} \subseteq Nat
    /\ Pull > 0 /\ BackoffMin <= BackoffMax /\ Grace <= Renew
    /\ FailureRun \in Nat /\ "none" \notin Keys
    /\ MaxRebuilds \in Nat /\ RunLength \in Nat
    /\ Holds \subseteq Nat /\ "none" \notin Timers /\ Dusk \in Nat
    /\ QueueMax \in Nat \ {0} /\ {TalkMax, Drain, Teardown} \subseteq Nat
    /\ Forms \cap {"connect", "sweep"} = {}
    /\ {Newest, Encoders, MaxCached} \subseteq Nat /\ Windows \subseteq SUBSET (1..Newest)

VARIABLES
    component,
    reachable, alive, aiPc, aiLeft, hung, backoff, tried, connected, ever, since, renewed, started,
    fired, cooling, dead, down,
    mode, rows, delivers, leg, posts, refused,
    file, shown, worker, active, model, session, ready, task, key, failures, needsReinit, frame,
    plugged, gen, fleet, pools, thread, poolOf, taken, serves, ailing, run, rebuild,
    clock, armed, lit, until, current, turningOn, lamp, byHand, due,
    hush, hushed, phase, age, waited, queued, ended, sender, left,
    there, pins, device, doing, read, asked, alone, settled,
    seg, purged, cached, holds, build, listed, part, list, ask, wanted, found, purge

triggerVars == <<reachable, alive, aiPc, aiLeft, hung, backoff, tried, connected, ever, since, renewed,
                 started, fired, cooling, dead, down>>
pushVars == <<mode, rows, delivers, leg, posts, refused>>
modelVars == <<file, shown, worker, active, model, session, ready, task, key, failures,
               needsReinit, frame>>
coralVars == <<plugged, gen, fleet, pools, thread, poolOf, taken, serves, ailing, run, rebuild>>
spotVars == <<clock, armed, lit, until, current, turningOn, lamp, byHand, due>>
talkVars == <<hush, hushed, phase, age, waited, queued, ended, sender, left>>
nightVars == <<there, pins, device, doing, read, asked, alone, settled>>
footageVars == <<seg, purged, cached, holds, build, listed, part, list, ask, wanted, found, purge>>

AI == INSTANCE AiTrigger WITH Cooldown <- AiCooldown, pc <- aiPc, left <- aiLeft
Pushes == INSTANCE Push WITH alive <- delivers
Store == INSTANCE Models
Pool == INSTANCE Coral
Light == INSTANCE Spotlight
Talking == INSTANCE Talk
Night == INSTANCE NightVision
Files == INSTANCE Footage

Components ==
    {"relay", "trigger", "push", "models", "coral", "spotlight", "talk", "night", "footage"}

\* Of the parts that start in more than one way, those that do not run start in one.
ServicesInit ==
    /\ component \in Components
    /\ Init
    /\ AI!Init /\ (component # "trigger" => reachable)
    /\ Pushes!PushInit /\ (component # "push" => rows = {})
    /\ Store!ModelsInit
    /\ component # "models" =>
          file = [k \in Keys |-> "absent"] /\ active = CHOOSE k \in Keys : TRUE
    /\ Pool!CoralInit /\ (component # "coral" => plugged = Devices)
    /\ Light!SpotInit /\ (component # "spotlight" => armed)
    /\ Talking!TalkInit
    /\ Night!NightInit
    /\ Files!FootageInit

\* All but c stand still.
Only(c) ==
    /\ component = c /\ component' = c
    /\ IF c = "relay" THEN TRUE ELSE UNCHANGED vars
    /\ IF c = "trigger" THEN TRUE ELSE UNCHANGED triggerVars
    /\ IF c = "push" THEN TRUE ELSE UNCHANGED pushVars
    /\ IF c = "models" THEN TRUE ELSE UNCHANGED modelVars
    /\ IF c = "coral" THEN TRUE ELSE UNCHANGED coralVars
    /\ IF c = "spotlight" THEN TRUE ELSE UNCHANGED spotVars
    /\ IF c = "talk" THEN TRUE ELSE UNCHANGED talkVars
    /\ IF c = "night" THEN TRUE ELSE UNCHANGED nightVars
    /\ IF c = "footage" THEN TRUE ELSE UNCHANGED footageVars

ServicesNext ==
    \/ Only("relay") /\ Next
    \/ Only("trigger") /\ AI!Next
    \/ Only("push") /\ Pushes!PushNext
    \/ Only("models") /\ Store!ModelsNext
    \/ Only("coral") /\ Pool!CoralNext
    \/ Only("spotlight") /\ Light!SpotNext
    \/ Only("talk") /\ Talking!TalkNext
    \/ Only("night") /\ Night!NightNext
    \/ Only("footage") /\ Files!FootageNext

ServicesSpec ==
    ServicesInit /\ [][ServicesNext]_<<component, vars, triggerVars, pushVars, modelVars,
                                       coralVars, spotVars, talkVars, nightVars, footageVars>>

-----------------------------------------------------------------------------
(* The properties of the parts; those of Relay have its names.             *)

\* Every variable of every part has its type, and every table and cache its bound.
ServicesTypeOK ==
    CASE component = "relay" -> TypeOK
      [] component = "trigger" -> AI!TypeOK
      [] component = "push" -> Pushes!PushTypeOK
      [] component = "models" -> Store!ModelsTypeOK
      [] component = "coral" -> Pool!CoralTypeOK
      [] component = "spotlight" -> Light!SpotTypeOK
      [] component = "talk" -> Talking!TalkTypeOK
      [] component = "night" -> Night!NightTypeOK
      [] component = "footage" -> Files!FootageTypeOK

\* AiTrigger: a watcher that could not hear its camera for longer than it takes to
\* notice has every frame looked at, unless a pull or a renewal hangs.
BlindOnlyHung == component = "trigger" => AI!BlindOnlyHung

\* Push: a registration is deleted only for an answer that said its token is dead.
PrunedForCause == component = "push" => Pushes!PrunedForCause

\* Models: no session of a file that failed its hash, and a detector that runs the wrong
\* model is on its way to the right one.
RightModel == component = "models" => Store!RightModel

\* Coral: every device is in its pool or in the hands of one thread.
PoolWhole == component = "coral" => Pool!PoolWhole

\* Spotlight: the light that the last person switched on stays on for its hold.
HoldKept == component = "spotlight" => Light!HoldKept

\* Talk: neither Privacy Mode nor the cap is outlived by more than drain and teardown.
TalkEnds == component = "talk" => Talking!TalkEnds

\* NightVision: a hook that nothing came between leaves the camera as it is pinned.
Reasserted == component = "night" => Night!Reasserted

\* Footage: no file of a cache shows what a purge deleted.
PurgeLeavesNone == component = "footage" => Files!PurgeLeavesNone

\* Coral: "same semantics as OnnxDetector": a backend that cannot detect is flagged
\* for another try.
KeepsTrying == component = "coral" => Pool!KeepsTrying

=============================================================================
