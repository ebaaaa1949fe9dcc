------------------------------ MODULE Capture ------------------------------
(***************************************************************************)
(* What a camera's pictures go through, and the administrator's requests   *)
(* that switch it on and off: Streams, Ingest and AiListener, brought in   *)
(* line by privacy.apply and cameras._apply_camera_change, one component   *)
(* after the other.                                                        *)
(*                                                                         *)
(* A request is a coroutine; one of its steps runs between two awaits.     *)
(* "privacy" is POST /api/privacy, "group" a change of a group's members,  *)
(* "edit" a camera's PUT, "default" a change of detection.default_mode     *)
(* and "learn" the middleware that meets a new host address.  There is one *)
(* group.  Left out: the recorder's part (Recorder), the event tasks'      *)
(* (EventLifecycle), and cameras coming and going.                         *)
(***************************************************************************)
EXTENDS Naturals, FiniteSets

CONSTANTS
    Cameras,
    Versions,     \* stream URLs a row may have, numbers above 0
    ModesUsed,    \* detect modes a row may have; "unset" takes the default
    Hosts,
    Together,     \* how many requests may be under way at once
    MayRefuse,    \* TRUE: go2rtc may refuse a request, or time out, while it is up
    MayCrash      \* TRUE: the process can die and be started again

Requests == {"privacy", "group", "edit", "default", "learn"}

ASSUME ConstantsAssumption ==
    /\ Cameras # {}
    /\ Versions \subseteq Nat \ {0} /\ Versions # {}
    /\ ModesUsed \subseteq {"unset", "always", "camera_ai", "camera_ai_only"}
    /\ ModesUsed # {}
    /\ "none" \notin Hosts
    /\ Together \in Nat \ {0}
    /\ {MayRefuse, MayCrash} \subseteq BOOLEAN

VARIABLES
    file, fileHost, prevStreams, prevHost, published, up, refused, observed, syncing,
    sources, feed, dying, slot, cams, worker, latest, reloading,
    watchers, cancelled, strays, syncs,
    rows,         \* the camera table: [Cameras -> [url, mode]]
    members,      \* the cameras in the group
    doc,          \* the privacy document: the cameras and whether the group is in it
    default,      \* settings.detection.default_mode
    private,      \* settings.private_cameras
    acked,        \* private cameras whose being so a request has answered for
    req,          \* where each request is, and what it has read
    crashed       \* the process has died, at most once

Streaming == INSTANCE Streams
Feeding == INSTANCE Ingest
Listening == INSTANCE AiListener

streamVars == <<file, fileHost, prevStreams, prevHost, published, up, refused, observed,
                syncing>>
ingestVars == <<sources, feed, dying, slot, cams, worker, latest, reloading>>
aiVars == <<watchers, cancelled, strays, syncs>>
tables == <<rows, members, doc, default, crashed>>
vars == <<streamVars, ingestVars, aiVars, tables, private, acked, req>>

DbRows == [Cameras -> [url : Versions, mode : ModesUsed]]
Docs == [cams : SUBSET Cameras, group : BOOLEAN]

\* effective_detect_mode, for cameras that have AI of their own.
EffectiveMode(mode, dflt) == IF mode = "unset" THEN dflt ELSE mode

Effective(table) ==
    [c \in Cameras |-> [url |-> table[c].url, mode |-> EffectiveMode(table[c].mode, default)]]
Urls(table) == [c \in Cameras |-> table[c].url]

\* privacy.resolve.
\* Fault: the group's number stands for its members.
FaultResolve(d) == d.cams \cup (IF d.group THEN {"group"} ELSE {})
Resolve(d) == d.cams \cup (IF d.group THEN members ELSE {})

At(pc, table, d) == [pc |-> pc, table |-> table, doc |-> d]
Waiting == At("idle", [c \in Cameras |-> [url |-> 0, mode |-> "unset"]],
              [cams |-> {}, group |-> FALSE])

ReqPcs == {"idle", "load", "save", "refresh", "bind", "streams", "streaming", "rows",
           "rebuild", "detector", "ingest", "list", "listening", "answer"}

TypeOK ==
    /\ Streaming!StreamsTypeOK /\ Feeding!IngestTypeOK /\ Listening!AiTypeOK
    /\ rows \in DbRows
    /\ {members, private, acked} \subseteq SUBSET Cameras
    /\ doc \in Docs
    /\ crashed \in BOOLEAN
    /\ default \in {"always", "camera_ai", "camera_ai_only"}
    /\ \A r \in Requests : /\ req[r].pc \in ReqPcs
                           /\ req[r].doc \in Docs
                           /\ req[r].table \in DbRows \cup {Waiting.table}

\* All cameras public and detecting, the file and go2rtc up to date.
Init ==
    /\ \E u \in Versions, m \in ModesUsed : rows = [c \in Cameras |-> [url |-> u, mode |-> m]]
    /\ members = Cameras
    /\ doc = [cams |-> {}, group |-> FALSE]
    /\ default = "always"
    /\ private = {}
    /\ acked = {}
    /\ req = [r \in Requests |-> Waiting]
    /\ crashed = FALSE
    /\ Streaming!StreamsInit(Urls(rows))
    /\ sources = Feeding!Wanted(Effective(rows), {})
    /\ feed = [c \in Cameras |-> IF sources[c] = 0 THEN "none" ELSE "spawning"]
    /\ slot = {}
    /\ dying = {}
    /\ cams = {c \in Cameras : sources[c] # 0}
    /\ worker = Feeding!Idle
    /\ latest = {}
    /\ reloading = [r \in Requests |-> Feeding!NoReload]
    /\ watchers = Listening!Watched(Effective(rows), {})
    /\ cancelled = {}
    /\ strays = {}
    /\ syncs = [r \in Requests |-> Listening!NoSync]

-----------------------------------------------------------------------------
(* A request arrives.                                                      *)

Quiet == UNCHANGED <<streamVars, ingestVars, aiVars>>

Step(r, from, to) == req[r].pc = from /\ req' = [req EXCEPT ![r].pc = to]

Arrive(r, pc, d) ==
    /\ req[r].pc = "idle"
    /\ Cardinality({q \in Requests : req[q].pc # "idle"}) < Together
    /\ req' = [req EXCEPT ![r] = At(pc, Waiting.table, d)]
    /\ Quiet
    /\ UNCHANGED <<private, acked>>

\* set_privacy's body: a list of cameras, or the list of groups.  `group` of the
\* request's document holds which; load_raw comes next.
Post ==
    /\ \E body \in {d \in Docs : d.group => d.cams = {}} : Arrive("privacy", "load", body)
    /\ UNCHANGED tables

\* update_group, then privacy.on_change.
GroupPut(m) ==
    /\ m # members
    /\ members' = m
    /\ Arrive("group", "refresh", Waiting.doc)
    /\ UNCHANGED <<rows, doc, default, crashed>>

CameraPut(c, row) ==
    /\ rows[c] # row
    /\ rows' = [rows EXCEPT ![c] = row]
    /\ Arrive("edit", "refresh", Waiting.doc)
    /\ UNCHANGED <<members, doc, default, crashed>>

\* put_settings: the default mode changes and activate_model reloads the engine.
SettingsPut(m) ==
    /\ m # default
    /\ default' = m
    /\ Arrive("default", "rows", Waiting.doc)
    /\ UNCHANGED <<rows, members, doc, crashed>>

\* _learn_webrtc_host: a new address, then go2rtc.apply.
Learn(h) ==
    /\ Streaming!LearnHost(h)
    /\ req["learn"].pc = "idle"
    /\ Cardinality({q \in Requests : req[q].pc # "idle"}) < Together
    /\ req' = [req EXCEPT !["learn"] = [Waiting EXCEPT !.pc = "streams"]]
    /\ UNCHANGED <<file, fileHost, prevStreams, prevHost, published, up, refused, syncing,
                   ingestVars, aiVars, tables, private, acked>>

-----------------------------------------------------------------------------
(* set_privacy and privacy.refresh.                                        *)

\* load_raw has answered: the fields that were sent replace those of the document.
Load(r) ==
    /\ req[r].pc = "load"
    /\ \E d \in {[doc EXCEPT !.cams = req[r].doc.cams], [doc EXCEPT !.group = req[r].doc.group]} :
         req' = [req EXCEPT ![r] = At("save", Waiting.table, d)]
    /\ Quiet
    /\ UNCHANGED <<tables, private, acked>>

Save(r) ==
    /\ Step(r, "save", "refresh")
    /\ doc' = req[r].doc
    /\ Quiet
    /\ UNCHANGED <<rows, members, default, crashed, private, acked>>

Refresh(r) ==
    /\ req[r].pc = "refresh"
    /\ req' = [req EXCEPT ![r].pc = "bind", ![r].doc = doc]
    /\ Quiet
    /\ UNCHANGED <<tables, private, acked>>

\* The set is rebound.  on_change goes on only if it is another one.
Bind(r) ==
    /\ req[r].pc = "bind"
    /\ private' = Resolve(req[r].doc)
    /\ acked' = acked \cap private'
    /\ req' = [req EXCEPT ![r] = IF r = "group" /\ private' = private
                                 THEN Waiting ELSE [Waiting EXCEPT !.pc = "streams"]]
    /\ Quiet
    /\ UNCHANGED tables

-----------------------------------------------------------------------------
(* privacy.apply, _apply_camera_change: one component after the other.     *)

ApplyStreams(r) ==
    /\ Step(r, "streams", "streaming")
    /\ Streaming!BeginApply(r, Urls(rows), private)
    /\ UNCHANGED <<ingestVars, aiVars, tables, private, acked>>

StreamsApplied(r) ==
    /\ Step(r, "streaming", IF r = "learn" THEN "answer" ELSE "rows")
    /\ Streaming!ApplyDone(r)
    /\ Quiet
    /\ UNCHANGED <<tables, private, acked>>

\* engine.reload: the rows, then the suppressions, then the states are rebuilt.
EngineRows(r) ==
    /\ req[r].pc = "rows"
    /\ req' = [req EXCEPT ![r] = At("rebuild", rows, Waiting.doc)]
    /\ Quiet
    /\ UNCHANGED <<tables, private, acked>>

Rebuild(r) ==
    /\ Step(r, "rebuild", "detector")
    /\ latest' = Feeding!Cleared(private)
    /\ UNCHANGED <<sources, feed, dying, slot, cams, worker, reloading,
                   streamVars, aiVars, tables, private, acked>>

\* The detector has been reconfigured: ingest is reloaded with the rows from above.
ReloadIngest(r) ==
    /\ req[r].pc = "detector"
    /\ req' = [req EXCEPT ![r] = [Waiting EXCEPT !.pc = "ingest"]]
    /\ Feeding!BeginReload(r, Effective(req[r].table), private)
    /\ UNCHANGED <<latest, streamVars, aiVars, tables, private, acked>>

IngestReloaded(r) ==
    /\ Step(r, "ingest", "list")
    /\ Feeding!ReloadDone(r)
    /\ reloading' = [reloading EXCEPT ![r] = Feeding!NoReload]
    /\ UNCHANGED <<sources, feed, dying, slot, cams, worker, latest,
                   streamVars, aiVars, tables, private, acked>>

SyncWatchers(r) ==
    /\ Step(r, "list", "listening")
    /\ Listening!BeginSync(r, Effective(rows), private)
    /\ UNCHANGED <<streamVars, ingestVars, tables, private, acked>>

\* A sync that raises ends the request with a 500.
WatchersSynced(r) ==
    /\ req[r].pc = "listening"
    /\ Listening!SyncDone(r)
    /\ req' = [req EXCEPT ![r] = IF Listening!Raised(r) THEN Waiting
                                 ELSE [Waiting EXCEPT !.pc = "answer"]]
    /\ syncs' = [syncs EXCEPT ![r] = Listening!NoSync]
    /\ UNCHANGED <<watchers, cancelled, strays, streamVars, ingestVars, tables, private, acked>>

\* The response.  Fault: it is not held back until everything has stopped.
FaultAnswered(r) == req[r].pc \in {"listening", "answer"}
Answered(r) == req[r].pc = "answer"

Answer(r) ==
    /\ Answered(r)
    /\ acked' = IF r \in {"privacy", "group"} THEN private ELSE acked
    /\ req' = [req EXCEPT ![r] = Waiting]
    /\ syncs' = [syncs EXCEPT ![r] = Listening!NoSync]
    /\ UNCHANGED <<watchers, cancelled, strays, streamVars, ingestVars, tables, private>>

Request(r) ==
    \/ Load(r) \/ Save(r) \/ Refresh(r) \/ Bind(r)
    \/ ApplyStreams(r) \/ StreamsApplied(r)
    \/ EngineRows(r) \/ Rebuild(r) \/ ReloadIngest(r) \/ IngestReloaded(r)
    \/ SyncWatchers(r) \/ WatchersSynced(r) \/ Answer(r)

-----------------------------------------------------------------------------
(* The components' own steps.                                              *)

Rest == UNCHANGED <<tables, private, acked, req>>

StreamStep ==
    /\ (\E r \in Requests : Streaming!ApplyStep(r)) \/ Streaming!GoDown \/ Streaming!GoUp
    /\ UNCHANGED <<ingestVars, aiVars>> /\ Rest

IngestStep ==
    /\ \/ \E c \in Cameras : \/ Feeding!Spawn(c) \/ Feeding!FrameRead(c) \/ Feeding!Lost(c)
                             \/ Feeding!Killed(c) \/ Feeding!Respawn(c)
                             \/ Feeding!Visit(c, private) \/ Feeding!Reaped(c)
       \/ Feeding!Wake \/ Feeding!Inferred \/ Feeding!Rest
       \/ \E r \in Requests : Feeding!ReloadStep(r)
    /\ UNCHANGED <<streamVars, aiVars>> /\ Rest

ListenStep ==
    /\ \E r \in Requests : Listening!SyncStep(r)
    /\ UNCHANGED <<streamVars, ingestVars>> /\ Rest

\* The process dies during a request, and main.lifespan starts it again: the
\* private set is resolved before anything else starts.
Crash ==
    /\ MayCrash /\ ~crashed
    /\ crashed' = TRUE
    /\ \E r \in Requests : req[r].pc # "idle"
    /\ req' = [r \in Requests |-> Waiting]
    /\ private' = Resolve(doc)
    /\ Streaming!BootApply(Urls(rows), private')
    /\ sources' = Feeding!Wanted(Effective(rows), private')
    /\ feed' = [c \in Cameras |-> IF sources'[c] = 0 THEN "none" ELSE "spawning"]
    /\ slot' = {} /\ dying' = {} /\ cams' = {c \in Cameras : sources'[c] # 0}
    /\ worker' = Feeding!Idle
    /\ latest' = {}
    /\ reloading' = [r \in Requests |-> Feeding!NoReload]
    /\ watchers' = Listening!Watched(Effective(rows), private')
    /\ cancelled' = {} /\ strays' = {}
    /\ syncs' = [r \in Requests |-> Listening!NoSync]
    /\ acked' = acked \cap private'
    /\ UNCHANGED <<rows, members, doc, default>>

Next ==
    \/ Post
    \/ \E m \in SUBSET Cameras : GroupPut(m)
    \/ \E c \in Cameras, u \in Versions, m \in ModesUsed : CameraPut(c, [url |-> u, mode |-> m])
    \/ \E m \in (ModesUsed \ {"unset"}) \cup {"always"} : SettingsPut(m)
    \/ \E h \in Hosts : Learn(h)
    \/ \E r \in Requests : Request(r)
    \/ StreamStep \/ IngestStep \/ ListenStep
    \/ Crash

Spec == Init /\ [][Next]_vars

-----------------------------------------------------------------------------
(* Properties.                                                             *)

\* privacy.apply: "Await everything before the caller acks".  A camera that was
\* answered for as private and still is has no source, no child that a stop has
\* killed, no watcher and, if go2rtc has refused nothing and the process has not died
\* on the way (see StaysPrivate), no published stream.
AckMeansDark ==
    \A c \in acked :
       /\ sources[c] = 0 /\ feed[c] = "none"
       /\ c \notin dying
       /\ watchers[c] = 0 /\ c \notin strays
       /\ published[c] = 0 \/ crashed \/ refused

\* With no request under way the three components show what the tables and the
\* private set ask for: no reconciler was left behind by an earlier one.  What
\* go2rtc serves counts if it has refused nothing and the process has not died on
\* the way (see StaysPrivate).
Reconciled ==
    (\A r \in Requests : req[r].pc = "idle") =>
       /\ up /\ ~crashed /\ ~refused =>
             published = Streaming!Publishable(Urls(rows), private)
       /\ sources = Feeding!Wanted(Effective(rows), private)
       /\ \A c \in Cameras : (feed[c] = "none") = (sources[c] = 0)
       /\ cams = {c \in Cameras : sources[c] # 0}
       /\ watchers = Listening!Watched(Effective(rows), private)
       /\ private = Resolve(doc)

\* Nothing of a camera is on, nor would a go2rtc that starts serve it.
Dark(c) ==
    /\ sources[c] = 0 /\ feed[c] = "none" /\ c \notin dying
    /\ watchers[c] = 0 /\ c \notin strays
    /\ published[c] = 0 /\ file[c] = 0

\* Nor has a call that is under way read it as one that is to be shown.
Unasked(c) ==
    \A r \in Requests :
        syncing[r].new[c] = 0 /\ reloading[r].wanted[c] = 0 /\ syncs[r].wanted[c] = 0

\* However many requests of whatever kind overlap, whatever go2rtc refuses and if the
\* process dies: once a camera that was answered for as private is dark, it stays so
\* for as long as it is private (the privacy gate of each reconciler).
StaysDark ==
    [][\A c \in acked : Dark(c) /\ Unasked(c) /\ c \in acked'
            => (Dark(c) /\ Unasked(c))']_vars

-----------------------------------------------------------------------------
(* What the source's comments say and TLC finds violated (see the README). *)

\* engine.reload: the cached frame of a private camera is dropped, or the snapshot
\* "would keep serving the last REAL frame indefinitely" (engine.py).
AckMeansNoFrame == acked \cap latest = {}

\* main.lifespan: "a camera that was private stays private across a restart
\* (fail-closed)", and "the boot config already omits private cameras' live streams".
StaysPrivate ==
    (\A r \in Requests : req[r].pc = "idle") => \A c \in private : published[c] = 0

\* AiEventListener.sync: "Never raises."
SyncNeverRaises == \A r \in Requests : syncs[r].pc # "raised"

=============================================================================
