---------------------------- MODULE CaptureProofs ----------------------------
(***************************************************************************)
(* Types, and that a camera which is dark stays dark while it is private:  *)
(* for every set of cameras, rows, modes and hosts, however many requests  *)
(* run at once, whatever go2rtc refuses, and across a crash.               *)
(***************************************************************************)
EXTENDS Capture, FiniteSetTheorems, TLAPS

\* TypeOK, with what is in each request's record.
Records == [pc : ReqPcs, table : DbRows \cup {Waiting.table}, doc : Docs]

TablesOK ==
    /\ rows \in DbRows
    /\ {members, private, acked} \subseteq SUBSET Cameras
    /\ doc \in Docs
    /\ crashed \in BOOLEAN
    /\ default \in Feeding!Modes

Types ==
    /\ Streaming!StreamsTypeOK /\ Feeding!IngestTypeOK /\ Listening!AiTypeOK
    /\ TablesOK
    /\ req \in [Requests -> Records]

-----------------------------------------------------------------------------
(* Types.                                                                  *)

Tables == [Cameras -> [url : Versions \cup {0}, mode : Feeding!Modes]]

LEMMA TableTypes ==
    ASSUME NEW t \in DbRows \cup {Waiting.table}, default \in Feeding!Modes
    PROVE  /\ Effective(t) \in Tables
           /\ t \in DbRows => Urls(t) \in [Cameras -> Versions]
<1>1. \A c \in Cameras : t[c].url \in Versions \cup {0} /\ t[c].mode \in Feeding!Modes \cup {"unset"}
  <2>1. ModesUsed \subseteq Feeding!Modes \cup {"unset"}
    BY ConstantsAssumption DEF Feeding!Modes
  <2>2. CASE t \in DbRows
    BY <2>1, <2>2 DEF DbRows
  <2>3. CASE t = Waiting.table
    BY <2>3 DEF Waiting, At
  <2> QED
    BY <2>2, <2>3
<1>2. Effective(t) \in Tables
  BY <1>1 DEF Effective, EffectiveMode, Tables
<1> QED
  BY <1>2 DEF DbRows, Urls

LEMMA AskedTypes ==
    ASSUME NEW t \in Tables, NEW p, NEW u \in [Cameras -> Versions]
    PROVE  /\ Feeding!Wanted(t, p) \in [Cameras -> Versions \cup {0}]
           /\ Listening!Watched(t, p) \in [Cameras -> Versions \cup {0}]
           /\ Streaming!Publishable(u, p) \in [Cameras -> Versions \cup {0}]
BY DEF Tables, Feeding!Wanted, Listening!Watched, Streaming!Publishable

LEMMA DefaultTypes ==
    /\ {"always", "camera_ai", "camera_ai_only"} = Feeding!Modes
    /\ ModesUsed \ {"unset"} \subseteq Feeding!Modes
BY ConstantsAssumption DEF Feeding!Modes

\* One step of apply() and go2rtc.
LEMMA StreamTypes ==
    ASSUME Streaming!StreamsTypeOK,
           NEW u \in [Cameras -> Versions], NEW p,
           \/ \E r \in Requests : Streaming!BeginApply(r, u, p) \/ Streaming!ApplyStep(r)
           \/ Streaming!GoDown \/ Streaming!GoUp
           \/ Streaming!BootApply(u, p)
    PROVE  Streaming!StreamsTypeOK'
<1> USE DEF Streaming!StreamsTypeOK, Streaming!StreamSets
<1> DEFINE Calls == [pc : {"idle", "sync", "restart", "fallback"},
                     new : [Cameras -> Versions \cup {0}], old : [Cameras -> Versions \cup {0}],
                     host : Hosts \cup {"none"}]
<1>1. /\ Streaming!Publishable(u, p) \in [Cameras -> Versions \cup {0}]
      /\ Streaming!Nothing \in [Cameras -> Versions \cup {0}]
      /\ Streaming!NoCall \in Calls
      /\ Streaming!NoHost = "none"
      /\ Streaming!NoHost \in Hosts \cup {"none"}
      /\ Streaming!Unsynced = "unset"
  BY DEF Streaming!Publishable, Streaming!Nothing, Streaming!NoCall, Streaming!Call, Streaming!NoHost,
         Streaming!Unsynced
<1>2. syncing \in [Requests -> Calls]
  BY <1>1
<1>3. ASSUME NEW r \in Requests, NEW call \in Calls, Streaming!Onward(r, call)
      PROVE  /\ prevStreams' \in [Cameras -> Versions \cup {0}]
             /\ prevHost' \in Hosts \cup {"none", "unset"}
             /\ syncing' \in [Requests -> Calls]
  <2>1. CASE Streaming!Left(call) = {}
    <3>1. Streaming!Ends(r, call)
      BY <1>3, <2>1 DEF Streaming!Onward
    <3>2. call.new \in [Cameras -> Versions \cup {0}] /\ call.host \in Hosts \cup {"none"}
      OBVIOUS
    <3> QED
      BY <1>1, <1>2, <3>1, <3>2 DEF Streaming!Ends
  <2>2. CASE Streaming!Left(call) # {}
    <3>1. syncing' = [syncing EXCEPT ![r] = call] /\ UNCHANGED <<prevStreams, prevHost>>
      BY <1>3, <2>2, Zenon DEF Streaming!Onward
    <3>2. syncing' \in [Requests -> Calls]
      BY <1>2, <3>1
    <3> QED
      BY <1>1, <3>1, <3>2
  <2> QED
    BY <2>1, <2>2
<1>4. ASSUME NEW r \in Requests, Streaming!BeginApply(r, u, p)
      PROVE  Streaming!StreamsTypeOK'
  <2> DEFINE new == Streaming!Publishable(u, p)
  <2>1. observed \in Hosts \cup {"none"} /\ Streaming!DeriveHost(observed) = observed
    BY <1>1 DEF Streaming!DeriveHost
  <2>2. \A old \in [Cameras -> Versions \cup {0}], pc \in {"sync", "restart"} :
           Streaming!Call(pc, new, old, observed) \in Calls
    BY <1>1, <2>1 DEF Streaming!Call
  <2>3. /\ prevStreams' \in [Cameras -> Versions \cup {0}]
        /\ prevHost' \in Hosts \cup {"none", "unset"}
        /\ syncing' \in [Requests -> Calls]
    <3>1. CASE UNCHANGED <<prevStreams, prevHost, syncing>>
      BY <1>1, <1>2, <3>1
    <3>2. CASE Streaming!Onward(r, Streaming!Call("sync", new, prevStreams, observed))
      BY <1>3, <2>2, <3>2
    <3>3. CASE /\ syncing' = [syncing EXCEPT ![r] =
                     Streaming!Call("restart", new, Streaming!Nothing, observed)]
               /\ UNCHANGED <<prevStreams, prevHost>>
      BY <1>1, <1>2, <2>2, <3>3
    <3> QED
      BY <1>4, <2>1, <3>1, <3>2, <3>3 DEF Streaming!BeginApply
  <2>4. /\ file' = new /\ fileHost' = observed
        /\ UNCHANGED <<published, up, refused, observed>>
    BY <1>4, <2>1 DEF Streaming!BeginApply
  <2> QED
    BY <1>1, <2>1, <2>3, <2>4
<1>5. ASSUME NEW r \in Requests, Streaming!ApplyStep(r)
      PROVE  Streaming!StreamsTypeOK'
  <2> DEFINE call == syncing[r]
  <2>1. call \in Calls
    BY <1>2
  <2>2. \A c \in Cameras, v \in Versions \cup {0} : [call EXCEPT !.old[c] = v] \in Calls
    BY <2>1
  <2>3. [call EXCEPT !.pc = "fallback"] \in Calls
    BY <2>1
  <2>4. /\ prevStreams' \in [Cameras -> Versions \cup {0}]
        /\ prevHost' \in Hosts \cup {"none", "unset"}
        /\ syncing' \in [Requests -> Calls]
        /\ published' \in [Cameras -> Versions \cup {0}]
        /\ refused' \in BOOLEAN
    <3>1. CASE Streaming!Put(r)
      <4>1. PICK c \in Streaming!ToPut(call) :
              /\ Streaming!Asked([published EXCEPT ![c] = call.new[c]])
              /\ Streaming!Onward(r, [call EXCEPT !.old[c] = call.new[c]])
        BY <3>1 DEF Streaming!Put
      <4>2. c \in Cameras /\ call.new[c] \in Versions \cup {0}
        BY <2>1, <4>1 DEF Streaming!ToPut
      <4> QED
        BY <1>3, <2>2, <4>1, <4>2 DEF Streaming!Asked
    <3>2. CASE Streaming!Delete(r)
      <4>1. PICK c \in Streaming!ToDelete(call) :
              /\ Streaming!Asked(Streaming!Without(c))
              /\ Streaming!Onward(r, [call EXCEPT !.old[c] = 0])
        BY <3>2 DEF Streaming!Delete
      <4>2. c \in Cameras
        BY <4>1 DEF Streaming!ToDelete
      <4> QED
        BY <1>3, <2>2, <4>1, <4>2 DEF Streaming!Without, Streaming!Asked
    <3>3. CASE /\ Streaming!Ends(r, call)
               /\ published' \in {published, file}
               /\ refused' \in {up, FALSE}
      BY <1>1, <1>2, <2>1, <3>3 DEF Streaming!Ends
    <3>4. CASE /\ Streaming!Onward(r, [call EXCEPT !.pc = "fallback"])
               /\ UNCHANGED <<published, refused>>
      BY <1>3, <2>3, <3>4
    <3> QED
      BY <1>5, <3>1, <3>2, <3>3, <3>4
         DEF Streaming!ApplyStep, Streaming!SyncStep, Streaming!Restart, Streaming!Unreached
  <2>5. UNCHANGED <<file, fileHost, up, observed>>
    BY <1>5 DEF Streaming!ApplyStep, Streaming!SyncStep, Streaming!Restart
  <2> QED
    BY <1>1, <2>4, <2>5
<1>6. CASE Streaming!GoDown \/ Streaming!GoUp
  <2>1. up' \in BOOLEAN /\ refused' \in {refused, FALSE} /\ published' \in {Streaming!Nothing, file}
    BY <1>6, Zenon DEF Streaming!GoDown, Streaming!GoUp
  <2>2. UNCHANGED <<file, fileHost, prevStreams, prevHost, observed, syncing>>
    BY <1>6, Zenon DEF Streaming!GoDown, Streaming!GoUp
  <2> QED
    BY <1>1, <2>1, <2>2
<1>7. CASE Streaming!BootApply(u, p)
  <2>1. syncing' = [r \in Requests |-> Streaming!NoCall]
    BY <1>7 DEF Streaming!BootApply
  <2>2. syncing' \in [Requests -> Calls]
    BY <1>1, <2>1
  <2>3. /\ file' = Streaming!Publishable(u, p) /\ fileHost' = "none" /\ observed' = "none"
        /\ published' \in [Cameras -> Versions \cup {0}]
        /\ prevStreams' \in {file', Streaming!Nothing}
        /\ prevHost' \in {"none", "unset"}
        /\ refused' = FALSE /\ up' = up
    BY <1>1, <1>7 DEF Streaming!BootApply, Streaming!Resynced
  <2> QED
    BY <1>1, <2>2, <2>3
<1> QED
  BY <1>4, <1>5, <1>6, <1>7

\* One step of reload(), the sources' tasks and the worker.
LEMMA FeedTypes ==
    ASSUME Feeding!IngestTypeOK,
           NEW t \in Tables, NEW p,
           \/ \E r \in Requests : \/ Feeding!BeginReload(r, t, p) /\ latest' = latest
                                  \/ Feeding!ReloadStep(r)
           \/ \E c \in Cameras : \/ Feeding!Spawn(c) \/ Feeding!FrameRead(c) \/ Feeding!Lost(c)
                                 \/ Feeding!Killed(c) \/ Feeding!Respawn(c)
                                 \/ Feeding!Visit(c, p) \/ Feeding!Reaped(c)
           \/ Feeding!Wake \/ Feeding!Inferred \/ Feeding!Rest
    PROVE  Feeding!IngestTypeOK'
<1> DEFINE Keys == [Cameras -> Versions \cup {0}]
           Calls == [pc : {"idle", "stopping", "over"}, wanted : Keys,
                     todo : SUBSET Cameras, wait : SUBSET Cameras]
           Workers == [pc : {"idle", "visiting", "inferring"}, todo : SUBSET Cameras,
                       cam : Cameras]
<1> USE DEF Feeding!IngestTypeOK, Feeding!FeedPcs
<1>1. ASSUME NEW r \in Requests, NEW call \in Calls, Feeding!Proceed(r, call)
      PROVE  /\ sources' \in Keys
             /\ feed' \in [Cameras -> Feeding!FeedPcs]
             /\ {dying', slot', cams'} \subseteq SUBSET Cameras
             /\ reloading' \in [Requests -> Calls]
             /\ worker' = worker
  <2> DEFINE stopping == {c \in call.todo : sources[c] \notin {0, call.wanted[c]}}
  <2>0. call.todo \subseteq Cameras /\ call.wanted \in Keys
    OBVIOUS
  <2>1. ASSUME NEW c \in stopping, NEW passed \in SUBSET (call.todo \ stopping), Feeding!StopSource(c),
               reloading' = [reloading EXCEPT ![r] =
                  Feeding!Reload("stopping", call.wanted, call.todo \ (passed \cup {c}), Feeding!Awaits(c))],
               UNCHANGED cams
        PROVE  /\ sources' \in Keys
               /\ feed' \in [Cameras -> Feeding!FeedPcs]
               /\ {dying', slot', cams'} \subseteq SUBSET Cameras
               /\ reloading' \in [Requests -> Calls]
    <3>1. c \in Cameras
      BY <2>0
    <3>2. Feeding!Reload("stopping", call.wanted, call.todo \ (passed \cup {c}), Feeding!Awaits(c)) \in Calls
      BY <2>0, <3>1 DEF Feeding!Reload, Feeding!Awaits
    <3>3. reloading' \in [Requests -> Calls]
      BY <2>1, <3>2
    <3>4. /\ sources' = [sources EXCEPT ![c] = 0] /\ feed' = [feed EXCEPT ![c] = "none"]
          /\ dying' \in {dying, dying \cup {c}} /\ slot' = slot \ {c}
      BY <2>1 DEF Feeding!StopSource
    <3>5. sources' \in Keys
      BY <3>1, <3>4
    <3>6. feed' \in [Cameras -> Feeding!FeedPcs]
      BY <3>1, <3>4
    <3>7. dying' \subseteq Cameras /\ slot' \subseteq Cameras /\ cams' \subseteq Cameras
      BY <2>1, <3>1, <3>4
    <3> QED
      BY <3>3, <3>5, <3>6, <3>7
  <2>2. ASSUME sources' = [c \in Cameras |-> IF c \in {d \in Cameras : call.wanted[d] # 0 /\ sources[d] = 0}
                                             THEN call.wanted[c] ELSE sources[c]],
               feed' = [c \in Cameras |-> IF c \in {d \in Cameras : call.wanted[d] # 0 /\ sources[d] = 0}
                                          THEN "spawning" ELSE feed[c]],
               cams' = {c \in Cameras : call.wanted[c] # 0},
               reloading' = [reloading EXCEPT ![r] =
                  Feeding!Reload("over", Feeding!NoReload.wanted, {}, {})],
               UNCHANGED <<dying, slot>>
        PROVE  /\ sources' \in Keys
               /\ feed' \in [Cameras -> Feeding!FeedPcs]
               /\ {dying', slot', cams'} \subseteq SUBSET Cameras
               /\ reloading' \in [Requests -> Calls]
    <3>1. Feeding!Reload("over", Feeding!NoReload.wanted, {}, {}) \in Calls
      BY DEF Feeding!Reload, Feeding!NoReload
    <3>2. reloading' \in [Requests -> Calls]
      BY <2>2, <3>1
    <3>3. sources' \in Keys /\ feed' \in [Cameras -> Feeding!FeedPcs]
      BY <2>0, <2>2
    <3> QED
      BY <2>2, <3>2, <3>3
  <2> QED
    BY <1>1, <2>1, <2>2 DEF Feeding!Proceed
<1>2. ASSUME NEW r \in Requests, Feeding!BeginReload(r, t, p), latest' = latest
      PROVE  Feeding!IngestTypeOK'
  <2>1. Feeding!Wanted(t, p) \in Keys
    BY DEF Feeding!Wanted, Tables
  <2> DEFINE call == Feeding!Reload("stopping", Feeding!Wanted(t, p), {c \in Cameras : sources[c] # 0}, {})
  <2>2. call \in Calls
    BY <2>1 DEF Feeding!Reload
  <2>3. Feeding!Proceed(r, call)
    BY <1>2 DEF Feeding!BeginReload
  <2> HIDE DEF call
  <2>4. /\ sources' \in Keys
        /\ feed' \in [Cameras -> Feeding!FeedPcs]
        /\ {dying', slot', cams'} \subseteq SUBSET Cameras
        /\ reloading' \in [Requests -> Calls]
        /\ worker' = worker
    BY <1>1, <2>2, <2>3
  <2> QED
    BY <1>2, <2>4
<1>3. ASSUME NEW r \in Requests, Feeding!ReloadStep(r)
      PROVE  Feeding!IngestTypeOK'
  <2>1. reloading[r] \in Calls /\ latest' = latest
    BY <1>3 DEF Feeding!ReloadStep
  <2>2. Feeding!Proceed(r, reloading[r])
    BY <1>3 DEF Feeding!ReloadStep
  <2> QED
    BY <1>1, <2>1, <2>2
<1>4. ASSUME NEW c \in Cameras, \/ Feeding!Spawn(c) \/ Feeding!FrameRead(c) \/ Feeding!Lost(c)
                                \/ Feeding!Killed(c) \/ Feeding!Respawn(c) \/ Feeding!Reaped(c)
      PROVE  Feeding!IngestTypeOK'
  BY <1>4 DEF Feeding!Spawn, Feeding!FrameRead, Feeding!Lost, Feeding!Killed, Feeding!Respawn,
              Feeding!Reaped, Feeding!Fed
<1>5. ASSUME NEW c \in Cameras, Feeding!Visit(c, p)
      PROVE  Feeding!IngestTypeOK'
  <2>1. /\ slot' = slot \ {c}
        /\ \/ worker' = [worker EXCEPT !.todo = @ \ {c}]
           \/ worker' = [worker EXCEPT !.pc = "inferring", !.todo = @ \ {c}, !.cam = c]
        /\ latest' = latest \cup {c} \/ latest' = latest
        /\ UNCHANGED <<sources, feed, dying, cams, reloading>>
    BY <1>5 DEF Feeding!Visit
  <2>2. worker.todo \ {c} \subseteq Cameras
    OBVIOUS
  <2>3. worker' \in Workers
    BY <2>1, <2>2
  <2>4. latest' \subseteq Cameras
    BY <2>1
  <2> QED
    BY <2>1, <2>3, <2>4
<1>6. CASE Feeding!Wake \/ Feeding!Inferred \/ Feeding!Rest
  <2>1. Feeding!Idle \in Workers
    BY ConstantsAssumption DEF Feeding!Idle
  <2>2. \/ (\E s \in SUBSET Cameras : worker' = [worker EXCEPT !.pc = "visiting", !.todo = s])
           /\ latest' = latest
        \/ worker' = [worker EXCEPT !.pc = "visiting"]
           /\ latest' = latest \cup {worker.cam}
        \/ worker' = Feeding!Idle /\ latest' = latest
    <3>1. {c \in Cameras : sources[c] # 0} \in SUBSET Cameras
      OBVIOUS
    <3> QED
      BY <1>6, <3>1, Zenon DEF Feeding!Wake, Feeding!Inferred, Feeding!Rest
  <2>3. worker' \in Workers
    <3>1. ASSUME NEW s \in SUBSET Cameras, worker' = [worker EXCEPT !.pc = "visiting", !.todo = s]
          PROVE  worker' \in Workers
      BY <3>1
    <3> QED
      BY <2>1, <2>2, <3>1
  <2>4. latest' \subseteq Cameras
    BY <2>2
  <2>5. UNCHANGED <<sources, feed, dying, slot, cams, reloading>>
    BY <1>6 DEF Feeding!Wake, Feeding!Inferred, Feeding!Rest
  <2> QED
    BY <2>3, <2>4, <2>5
<1> QED
  BY <1>2, <1>3, <1>4, <1>5, <1>6

\* One step of sync().
LEMMA WatchTypes ==
    ASSUME Listening!AiTypeOK,
           NEW t \in Tables, NEW p, NEW r \in Requests,
           Listening!BeginSync(r, t, p) \/ Listening!SyncStep(r)
    PROVE  Listening!AiTypeOK'
<1> DEFINE Keys == [Cameras -> Versions \cup {0}]
           Calls == [pc : {"idle", "stopping", "over", "raised"}, wanted : Keys,
                     todo : SUBSET Cameras, wait : SUBSET Cameras]
<1> USE DEF Listening!AiTypeOK
<1>1. ASSUME NEW call \in Calls, NEW table \in Keys, NEW gone \in SUBSET Cameras,
             Listening!Proceed(r, call, table, gone)
      PROVE  watchers' \in Keys /\ cancelled' \subseteq Cameras /\ syncs' \in [Requests -> Calls]
  <2> DEFINE stopping == {c \in call.todo : table[c] = 0 \/ table[c] # call.wanted[c]}
  <2>0. call.todo \subseteq Cameras /\ call.wanted \in Keys
    OBVIOUS
  <2>1. ASSUME NEW c \in stopping, NEW passed \in SUBSET (call.todo \ stopping)
        PROVE  /\ Listening!Sync("stopping", call.wanted, call.todo \ (passed \cup {c}), {c}) \in Calls
               /\ c \in Cameras
    BY <2>0, <2>1 DEF Listening!Sync
  <2>2. /\ Listening!Sync("raised", Listening!NoSync.wanted, {}, {}) \in Calls
        /\ Listening!Sync("over", Listening!NoSync.wanted, {}, {}) \in Calls
    BY DEF Listening!Sync, Listening!NoSync
  <2>3. [c \in Cameras |-> IF table[c] = 0 THEN call.wanted[c] ELSE table[c]] \in Keys
    BY <2>0
  <2>4. watchers' \in Keys /\ cancelled' \subseteq Cameras
    BY <1>1, <2>1, <2>3 DEF Listening!Proceed
  <2>5. \E s \in Calls : syncs' = [syncs EXCEPT ![r] = s]
    BY <1>1, <2>1, <2>2 DEF Listening!Proceed
  <2> QED
    BY <2>4, <2>5
<1>2. CASE Listening!BeginSync(r, t, p)
  <2>1. Listening!Watched(t, p) \in Keys
    BY DEF Listening!Watched, Tables
  <2>2. Listening!Sync("stopping", Listening!Watched(t, p), {c \in Cameras : watchers[c] # 0}, {}) \in Calls
    BY <2>1 DEF Listening!Sync
  <2> QED
    BY <1>1, <1>2, <2>2 DEF Listening!BeginSync
<1>3. CASE Listening!SyncStep(r)
  <2>1. PICK c \in syncs[r].wait :
           \/ /\ watchers[c] = 0
              /\ syncs' = [syncs EXCEPT ![r] = Listening!Sync("raised", Listening!NoSync.wanted, {}, {})]
              /\ UNCHANGED <<watchers, cancelled, strays>>
           \/ /\ watchers[c] # 0
              /\ strays' = IF c \in cancelled THEN strays ELSE strays \cup {c}
              /\ Listening!Proceed(r, syncs[r], Listening!Out(c), cancelled \ {c})
    BY <1>3 DEF Listening!SyncStep
  <2>2. /\ syncs[r] \in Calls /\ c \in Cameras /\ Listening!Out(c) \in Keys
        /\ Listening!Sync("raised", Listening!NoSync.wanted, {}, {}) \in Calls
    BY DEF Listening!Out, Listening!Sync, Listening!NoSync
  <2>3. CASE Listening!Proceed(r, syncs[r], Listening!Out(c), cancelled \ {c})
             /\ strays' = IF c \in cancelled THEN strays ELSE strays \cup {c}
    BY <1>1, <2>2, <2>3
  <2>4. CASE /\ syncs' = [syncs EXCEPT ![r] = Listening!Sync("raised", Listening!NoSync.wanted, {}, {})]
             /\ UNCHANGED <<watchers, cancelled, strays>>
    BY <2>2, <2>4
  <2> QED
    BY <2>1, <2>3, <2>4
<1> QED
  BY <1>2, <1>3

LEMMA StillTypes ==
    /\ Streaming!StreamsTypeOK /\ UNCHANGED streamVars => Streaming!StreamsTypeOK'
    /\ Feeding!IngestTypeOK /\ UNCHANGED ingestVars => Feeding!IngestTypeOK'
    /\ Listening!AiTypeOK /\ UNCHANGED aiVars => Listening!AiTypeOK'
<1>1. Streaming!StreamsTypeOK /\ UNCHANGED streamVars => Streaming!StreamsTypeOK'
  BY DEF streamVars, Streaming!StreamsTypeOK
<1>2. Feeding!IngestTypeOK /\ UNCHANGED ingestVars => Feeding!IngestTypeOK'
  BY DEF ingestVars, Feeding!IngestTypeOK
<1>3. Listening!AiTypeOK /\ UNCHANGED aiVars => Listening!AiTypeOK'
  BY DEF aiVars, Listening!AiTypeOK
<1> QED
  BY <1>1, <1>2, <1>3

LEMMA TypesGive == Types => TypeOK
<1>1. ASSUME req \in [Requests -> Records], NEW r \in Requests
      PROVE  /\ req[r].pc \in ReqPcs /\ req[r].doc \in Docs
             /\ req[r].table \in DbRows \cup {Waiting.table}
  <2>1. req[r] \in Records
    BY <1>1
  <2> QED
    BY <2>1, Zenon DEF Records
<1>2. TablesOK => default \in {"always", "camera_ai", "camera_ai_only"}
  BY DefaultTypes DEF TablesOK
<1> QED
  BY <1>1, <1>2, Zenon DEF Types, TypeOK, TablesOK

LEMMA RecordTypes ==
    /\ Waiting \in Records
    /\ \A pc \in ReqPcs, t \in DbRows \cup {Waiting.table}, d \in Docs : At(pc, t, d) \in Records
    /\ \A pc \in ReqPcs : [Waiting EXCEPT !.pc = pc] \in Records
    /\ Waiting.table \in DbRows \cup {Waiting.table}
    /\ Waiting.doc \in Docs
<1>1. [cams |-> {}, group |-> FALSE] \in Docs
  BY DEF Docs
<1>2. /\ Waiting.pc = "idle" /\ Waiting.doc = [cams |-> {}, group |-> FALSE]
      /\ Waiting = [pc |-> Waiting.pc, table |-> Waiting.table, doc |-> Waiting.doc]
  BY DEF Waiting, At
<1>3. ASSUME NEW pc \in ReqPcs
      PROVE  [Waiting EXCEPT !.pc = pc] = At(pc, Waiting.table, Waiting.doc)
  <2> DEFINE t == [c \in Cameras |-> [url |-> 0, mode |-> "unset"]]
             d == [cams |-> {}, group |-> FALSE]
  <2>1. Waiting = [pc |-> "idle", table |-> t, doc |-> d]
    BY DEF Waiting, At
  <2> HIDE DEF t, d
  <2> QED
    BY <2>1 DEF At
<1>4. \A pc \in ReqPcs, t \in DbRows \cup {Waiting.table}, d \in Docs : At(pc, t, d) \in Records
  BY DEF At, Records
<1>5. Waiting = At("idle", Waiting.table, Waiting.doc) /\ "idle" \in ReqPcs
  BY <1>2 DEF At, ReqPcs
<1> QED
  BY <1>1, <1>2, <1>3, <1>4, <1>5

\* What resolving, editing and merging documents give.
LEMMA DocTypes ==
    ASSUME TablesOK, NEW d \in Docs
    PROVE  /\ Resolve(d) \subseteq Cameras
           /\ \A e \in Docs : /\ [d EXCEPT !.cams = e.cams] \in Docs
                              /\ [d EXCEPT !.group = e.group] \in Docs
BY DEF TablesOK, Docs, Resolve

LEMMA TypesInit == Init => Types
<1> SUFFICES ASSUME Init PROVE Types
  OBVIOUS
<1>1. PICK u \in Versions, m \in ModesUsed : rows = [c \in Cameras |-> [url |-> u, mode |-> m]]
  BY DEF Init
<1>2. TablesOK
  BY <1>1 DEF Init, TablesOK, DbRows, Docs, Feeding!Modes
<1>3. req \in [Requests -> Records]
  BY RecordTypes DEF Init
<1>4. Urls(rows) \in [Cameras -> Versions] /\ Effective(rows) \in Tables
  BY <1>2, TableTypes DEF TablesOK
<1>5. Streaming!StreamsTypeOK
  BY <1>4 DEF Init, Streaming!StreamsInit, Streaming!StreamsTypeOK, Streaming!StreamSets, Streaming!NoCall,
         Streaming!Call, Streaming!Nothing, Streaming!NoHost, Streaming!Unsynced
<1>6. Feeding!IngestTypeOK
  <2>1. sources \in [Cameras -> Versions \cup {0}]
    BY <1>4 DEF Init, Feeding!Wanted, Tables
  <2>2. worker \in [pc : {"idle", "visiting", "inferring"}, todo : SUBSET Cameras,
                    cam : Cameras]
    BY ConstantsAssumption DEF Init, Feeding!Idle
  <2>3. reloading \in [Requests -> [pc : {"idle", "stopping", "over"},
                                    wanted : [Cameras -> Versions \cup {0}],
                                    todo : SUBSET Cameras, wait : SUBSET Cameras]]
    BY DEF Init, Feeding!NoReload, Feeding!Reload
  <2>4. feed \in [Cameras -> Feeding!FeedPcs]
    BY DEF Init, Feeding!FeedPcs
  <2>5. {dying, slot, cams, latest} \subseteq SUBSET Cameras
    BY DEF Init
  <2> QED
    BY <2>1, <2>2, <2>3, <2>4, <2>5 DEF Feeding!IngestTypeOK
<1>7. Listening!AiTypeOK
  <2>1. watchers \in [Cameras -> Versions \cup {0}]
    BY <1>4 DEF Init, Listening!Watched, Tables
  <2> QED
    BY <2>1 DEF Init, Listening!AiTypeOK, Listening!NoSync, Listening!Sync
<1> QED
  BY <1>2, <1>3, <1>5, <1>6, <1>7 DEF Types

\* A request's own step.
LEMMA RequestTypes ==
    ASSUME Types, NEW r \in Requests, Request(r)
    PROVE  Types'
<1>0. /\ Streaming!StreamsTypeOK /\ Feeding!IngestTypeOK /\ Listening!AiTypeOK
      /\ TablesOK /\ req \in [Requests -> Records]
  BY DEF Types
<1>1. /\ Urls(rows) \in [Cameras -> Versions] /\ Effective(rows) \in Tables
      /\ rows \in DbRows \cup {Waiting.table}
      /\ Effective(req[r].table) \in Tables
      /\ req[r].doc \in Docs /\ doc \in Docs
  <2>1. req[r].table \in DbRows \cup {Waiting.table} /\ req[r].doc \in Docs
    BY <1>0 DEF Records
  <2> QED
    BY <1>0, <2>1, TableTypes DEF TablesOK
<1>2. ASSUME NEW s \in Records, req' = [req EXCEPT ![r] = s]
      PROVE  req' \in [Requests -> Records]
  BY <1>0, <1>2
<1>3. ASSUME NEW from, NEW to \in ReqPcs, Step(r, from, to)
      PROVE  req' \in [Requests -> Records]
  BY <1>0, <1>3 DEF Step, Records
<1>4. ASSUME Quiet PROVE Streaming!StreamsTypeOK' /\ Feeding!IngestTypeOK' /\ Listening!AiTypeOK'
  BY <1>0, <1>4, StillTypes DEF Quiet
<1>5. ASSUME UNCHANGED <<tables, private>>, acked' \subseteq Cameras PROVE TablesOK'
  BY <1>0, <1>5 DEF TablesOK, tables
<1> USE DEF ReqPcs
<1>a. CASE Load(r)
  <2>1. PICK d \in {[doc EXCEPT !.cams = req[r].doc.cams], [doc EXCEPT !.group = req[r].doc.group]} :
           req' = [req EXCEPT ![r] = At("save", Waiting.table, d)]
    BY <1>a DEF Load
  <2>2. d \in Docs
    BY <1>0, <1>1, DocTypes
  <2>3. At("save", Waiting.table, d) \in Records
    BY <2>2, RecordTypes
  <2>4. req' \in [Requests -> Records]
    BY <1>2, <2>1, <2>3
  <2>5. TablesOK'
    BY <1>a, <1>0, <1>5 DEF Load, TablesOK
  <2> QED
    BY <1>a, <1>4, <2>4, <2>5 DEF Load, Types
<1>b. CASE Save(r)
  <2>1. TablesOK'
    BY <1>b, <1>0, <1>1 DEF Save, TablesOK
  <2> QED
    BY <1>b, <1>3, <1>4, <2>1 DEF Save, Types
<1>c. CASE Refresh(r)
  <2>1. req' \in [Requests -> Records]
    BY <1>c, <1>0, <1>1 DEF Refresh, Records
  <2> QED
    BY <1>c, <1>0, <1>4, <1>5, <2>1 DEF Refresh, Types, TablesOK
<1>d. CASE Bind(r)
  <2>1. \E s \in Records : req' = [req EXCEPT ![r] = s]
    BY <1>d, RecordTypes DEF Bind
  <2>2. private' \subseteq Cameras /\ acked' \subseteq Cameras
    BY <1>d, <1>0, <1>1, DocTypes DEF Bind, TablesOK
  <2>3. TablesOK'
    BY <1>d, <1>0, <2>2 DEF Bind, TablesOK, tables
  <2> QED
    BY <1>d, <1>2, <1>4, <2>1, <2>3 DEF Bind, Types
<1>e. CASE ApplyStreams(r)
  <2>1. Streaming!StreamsTypeOK'
    BY <1>e, <1>0, <1>1, StreamTypes DEF ApplyStreams
  <2> QED
    BY <1>e, <1>0, <1>3, <1>5, <2>1, StillTypes DEF ApplyStreams, Types, TablesOK
<1>f. CASE StreamsApplied(r)
  BY <1>f, <1>0, <1>3, <1>4, <1>5 DEF StreamsApplied, Types, TablesOK
<1>g. CASE EngineRows(r)
  <2>1. At("rebuild", rows, Waiting.doc) \in Records
    BY <1>1, RecordTypes
  <2>2. req' \in [Requests -> Records]
    BY <1>g, <1>2, <2>1 DEF EngineRows
  <2> QED
    BY <1>g, <1>0, <1>4, <1>5, <2>2 DEF EngineRows, Types, TablesOK
<1>h. CASE Rebuild(r)
  <2>1. Feeding!Cleared(private) \subseteq Cameras
    BY <1>0 DEF Feeding!Cleared, Feeding!IngestTypeOK
  <2>2. Feeding!IngestTypeOK'
    BY <1>h, <1>0, <2>1 DEF Rebuild, Feeding!IngestTypeOK
  <2> QED
    BY <1>h, <1>0, <1>3, <1>5, <2>2, StillTypes DEF Rebuild, Types, TablesOK
<1>i. CASE ReloadIngest(r)
  <2>1. Feeding!IngestTypeOK'
    BY <1>i, <1>0, <1>1, FeedTypes DEF ReloadIngest
  <2>2. req' \in [Requests -> Records]
    BY <1>i, <1>2, RecordTypes DEF ReloadIngest
  <2> QED
    BY <1>i, <1>0, <1>5, <2>1, <2>2, StillTypes DEF ReloadIngest, Types, TablesOK
<1>j. CASE IngestReloaded(r)
  <2>1. Feeding!NoReload \in [pc : {"idle", "stopping", "over"},
                              wanted : [Cameras -> Versions \cup {0}],
                              todo : SUBSET Cameras, wait : SUBSET Cameras]
    BY DEF Feeding!NoReload, Feeding!Reload
  <2>2. Feeding!IngestTypeOK'
    BY <1>j, <1>0, <2>1 DEF IngestReloaded, Feeding!IngestTypeOK
  <2> QED
    BY <1>j, <1>0, <1>3, <1>5, <2>2, StillTypes DEF IngestReloaded, Types, TablesOK
<1>0a. Listening!NoSync \in [pc : {"idle", "stopping", "over", "raised"},
                             wanted : [Cameras -> Versions \cup {0}],
                             todo : SUBSET Cameras, wait : SUBSET Cameras]
  BY DEF Listening!NoSync, Listening!Sync
<1>k. CASE SyncWatchers(r)
  <2>1. Listening!AiTypeOK'
    BY <1>k, <1>0, <1>1, WatchTypes DEF SyncWatchers
  <2> QED
    BY <1>k, <1>0, <1>3, <1>5, <2>1, StillTypes DEF SyncWatchers, Types, TablesOK
<1>l. CASE WatchersSynced(r)
  <2>1. \E s \in Records : req' = [req EXCEPT ![r] = s]
    BY <1>l, RecordTypes DEF WatchersSynced
  <2>2. Listening!AiTypeOK'
    BY <1>l, <1>0, <1>0a DEF WatchersSynced, Listening!AiTypeOK
  <2> QED
    BY <1>l, <1>0, <1>2, <1>5, <2>1, <2>2, StillTypes DEF WatchersSynced, Types, TablesOK
<1>m. CASE Answer(r)
  <2>1. req' \in [Requests -> Records]
    BY <1>m, <1>2, RecordTypes DEF Answer
  <2>2. Listening!AiTypeOK'
    BY <1>m, <1>0, <1>0a DEF Answer, Listening!AiTypeOK
  <2>3. acked' \subseteq Cameras
    BY <1>m, <1>0 DEF Answer, TablesOK
  <2> QED
    BY <1>m, <1>0, <1>5, <2>1, <2>2, <2>3, StillTypes DEF Answer, Types
<1> QED
  BY <1>a, <1>b, <1>c, <1>d, <1>e, <1>f, <1>g, <1>h, <1>i, <1>j, <1>k, <1>l, <1>m DEF Request

\* A request's arrival.
LEMMA ArrivalTypes ==
    ASSUME Types,
           \/ Post
           \/ \E m \in SUBSET Cameras : GroupPut(m)
           \/ \E c \in Cameras, u \in Versions, m \in ModesUsed : CameraPut(c, [url |-> u, mode |-> m])
           \/ \E m \in (ModesUsed \ {"unset"}) \cup {"always"} : SettingsPut(m)
           \/ \E h \in Hosts : Learn(h)
    PROVE  Types'
<1>0. /\ Streaming!StreamsTypeOK /\ Feeding!IngestTypeOK /\ Listening!AiTypeOK
      /\ TablesOK /\ req \in [Requests -> Records]
  BY DEF Types
<1>1. ASSUME NEW r \in Requests, NEW pc \in ReqPcs, NEW d \in Docs, Arrive(r, pc, d), TablesOK'
      PROVE  Types'
  <2>1. At(pc, Waiting.table, d) \in Records
    BY RecordTypes
  <2>2. req' \in [Requests -> Records]
    BY <1>0, <1>1, <2>1 DEF Arrive
  <2> QED
    BY <1>0, <1>1, <2>2, StillTypes DEF Arrive, Quiet, Types
<1>2. CASE Post
  <2>1. PICK d \in Docs : Arrive("privacy", "load", d)
    BY <1>2 DEF Post
  <2>2. TablesOK'
    BY <1>2, <2>1, <1>0 DEF Post, Arrive, TablesOK, tables
  <2> QED
    BY <1>1, <2>1, <2>2 DEF Requests, ReqPcs
<1>3. ASSUME NEW m \in SUBSET Cameras, GroupPut(m) PROVE Types'
  <2>1. TablesOK'
    BY <1>3, <1>0 DEF GroupPut, Arrive, TablesOK
  <2> QED
    BY <1>1, <1>3, <2>1, RecordTypes DEF GroupPut, Requests, ReqPcs
<1>4. ASSUME NEW c \in Cameras, NEW u \in Versions, NEW m \in ModesUsed,
             CameraPut(c, [url |-> u, mode |-> m])
      PROVE  Types'
  <2>1. rows' \in DbRows
    BY <1>4, <1>0 DEF CameraPut, TablesOK, DbRows
  <2>2. TablesOK'
    BY <1>4, <2>1, <1>0 DEF CameraPut, Arrive, TablesOK
  <2> QED
    BY <1>1, <1>4, <2>2, RecordTypes DEF CameraPut, Requests, ReqPcs
<1>5. ASSUME NEW m \in (ModesUsed \ {"unset"}) \cup {"always"}, SettingsPut(m) PROVE Types'
  <2>1. m \in Feeding!Modes
    BY DefaultTypes
  <2>2. TablesOK'
    BY <1>5, <2>1, <1>0 DEF SettingsPut, Arrive, TablesOK
  <2> QED
    BY <1>1, <1>5, <2>2, RecordTypes DEF SettingsPut, Requests, ReqPcs
<1>6. ASSUME NEW h \in Hosts, Learn(h) PROVE Types'
  <2>1. Streaming!StreamsTypeOK'
    BY <1>6, <1>0 DEF Learn, Streaming!LearnHost, Streaming!StreamsTypeOK
  <2>2. "streams" \in ReqPcs /\ "learn" \in Requests
    BY DEF ReqPcs, Requests
  <2>3. req' \in [Requests -> Records]
    BY <1>6, <1>0, <2>2, RecordTypes DEF Learn
  <2>4. TablesOK'
    BY <1>6, <1>0 DEF Learn, tables, TablesOK
  <2> QED
    BY <1>6, <1>0, <2>1, <2>3, <2>4, StillTypes DEF Learn, Types
<1> QED
  BY <1>2, <1>3, <1>4, <1>5, <1>6

\* The components' own steps, and the process dying.
LEMMA OwnTypes ==
    ASSUME Types, StreamStep \/ IngestStep \/ ListenStep \/ Crash
    PROVE  Types'
<1>0. /\ Streaming!StreamsTypeOK /\ Feeding!IngestTypeOK /\ Listening!AiTypeOK
      /\ TablesOK /\ req \in [Requests -> Records]
      /\ Urls(rows) \in [Cameras -> Versions] /\ Effective(rows) \in Tables
  BY TableTypes DEF Types, TablesOK
<1>1. ASSUME Rest PROVE TablesOK' /\ req' \in [Requests -> Records]
  BY <1>0, <1>1 DEF Rest, TablesOK, tables
<1>2. CASE StreamStep
  <2>1. Streaming!StreamsTypeOK'
    BY <1>0, <1>2, StreamTypes DEF StreamStep
  <2> QED
    BY <1>0, <1>1, <1>2, <2>1, StillTypes DEF StreamStep, Types
<1>3. CASE IngestStep
  <2>1. Feeding!IngestTypeOK'
    BY <1>0, <1>3, FeedTypes DEF IngestStep
  <2> QED
    BY <1>0, <1>1, <1>3, <2>1, StillTypes DEF IngestStep, Types
<1>4. CASE ListenStep
  <2>1. Listening!AiTypeOK'
    BY <1>0, <1>4, WatchTypes DEF ListenStep
  <2> QED
    BY <1>0, <1>1, <1>4, <2>1, StillTypes DEF ListenStep, Types
<1>5. CASE Crash
  <2>1. Streaming!StreamsTypeOK'
    BY <1>0, <1>5, StreamTypes DEF Crash
  <2>2. private' \subseteq Cameras
    BY <1>0, <1>5, DocTypes DEF Crash, TablesOK
  <2>3. TablesOK'
    BY <1>0, <1>5, <2>2 DEF Crash, TablesOK
  <2>4. req' \in [Requests -> Records]
    BY <1>5, RecordTypes DEF Crash
  <2>5. Feeding!IngestTypeOK'
    <3>1. sources' \in [Cameras -> Versions \cup {0}]
      BY <1>0, <1>5 DEF Crash, Feeding!Wanted, Tables
    <3>2. worker' \in [pc : {"idle", "visiting", "inferring"}, todo : SUBSET Cameras,
                       cam : Cameras]
      BY <1>5, ConstantsAssumption DEF Crash, Feeding!Idle
    <3>3. reloading' \in [Requests -> [pc : {"idle", "stopping", "over"},
                                       wanted : [Cameras -> Versions \cup {0}],
                                       todo : SUBSET Cameras, wait : SUBSET Cameras]]
      BY <1>5 DEF Crash, Feeding!NoReload, Feeding!Reload
    <3>4. feed' \in [Cameras -> Feeding!FeedPcs]
      BY <1>5 DEF Crash, Feeding!FeedPcs
    <3>5. {dying', slot', cams', latest'} \subseteq SUBSET Cameras
      BY <1>5 DEF Crash
    <3> QED
      BY <3>1, <3>2, <3>3, <3>4, <3>5 DEF Feeding!IngestTypeOK
  <2>6. Listening!AiTypeOK'
    <3>1. watchers' \in [Cameras -> Versions \cup {0}]
      BY <1>0, <1>5 DEF Crash, Listening!Watched, Tables
    <3>2. syncs' = [r \in Requests |-> Listening!NoSync] /\ cancelled' = {} /\ strays' = {}
      BY <1>5 DEF Crash
    <3> QED
      BY <3>1, <3>2 DEF Listening!AiTypeOK, Listening!NoSync, Listening!Sync
  <2> QED
    BY <2>1, <2>3, <2>4, <2>5, <2>6 DEF Types
<1> QED
  BY <1>2, <1>3, <1>4, <1>5

LEMMA TypesStep == Types /\ [Next]_vars => Types'
<1> SUFFICES ASSUME Types, [Next]_vars PROVE Types'
  OBVIOUS
<1>1. CASE UNCHANGED vars
  BY <1>1, StillTypes DEF vars, tables, Types, TablesOK
<1>2. ASSUME NEW r \in Requests, Request(r) PROVE Types'
  BY <1>2, RequestTypes
<1>3. CASE StreamStep \/ IngestStep \/ ListenStep \/ Crash
  BY <1>3, OwnTypes
<1> QED
  BY <1>1, <1>2, <1>3, ArrivalTypes DEF Next

\* Types: every variable of a camera's streams, sources and watchers, of the tables and
\* of a request's record stays in its type, however many requests run at once.
THEOREM TypeCorrect == Spec => []TypeOK
<1> QED
  BY TypesInit, TypesStep, TypesGive, PTL DEF Spec

-----------------------------------------------------------------------------
(* A camera that is dark stays dark while it is private.                   *)

DarkInv == Types /\ acked \subseteq private

LEMMA DarkInvStep == DarkInv /\ [Next]_vars => DarkInv'
<1> SUFFICES ASSUME DarkInv, [Next]_vars PROVE DarkInv'
  OBVIOUS
<1>1. Types'
  BY TypesStep DEF DarkInv
<1>2. acked' \subseteq private'
  <2>1. CASE UNCHANGED <<private, acked>>
    BY <2>1 DEF DarkInv
  <2>2. ASSUME NEW r \in Requests, Bind(r) \/ Answer(r) PROVE acked' \subseteq private'
    BY <2>2 DEF DarkInv, Bind, Answer
  <2>3. CASE Crash
    BY <2>3 DEF Crash
  <2>4. ASSUME NEW r \in Requests, Request(r), ~Bind(r), ~Answer(r) PROVE UNCHANGED <<private, acked>>
    BY <2>4 DEF Request, Load, Save, Refresh, ApplyStreams, StreamsApplied, EngineRows, Rebuild,
                ReloadIngest, IngestReloaded, SyncWatchers, WatchersSynced
  <2>5. ASSUME [Next]_vars, ~Crash, \A r \in Requests : ~Request(r) PROVE UNCHANGED <<private, acked>>
    BY <2>5 DEF Next, vars, Post, GroupPut, CameraPut, SettingsPut, Learn, Arrive, StreamStep,
                IngestStep, ListenStep, Rest
  <2> QED
    BY <2>1, <2>2, <2>3, <2>4, <2>5
<1> QED
  BY <1>1, <1>2 DEF DarkInv

\* Publishable leaves a private camera out, so no call that begins asks for it, and go2rtc
\* serves what calls ask for or what the file names.
LEMMA StreamsStayDark ==
    ASSUME Streaming!StreamsTypeOK,
           NEW u \in [Cameras -> Versions], NEW p, NEW c \in Cameras, c \in p,
           published[c] = 0, file[c] = 0, \A r \in Requests : syncing[r].new[c] = 0,
           \/ \E r \in Requests : Streaming!BeginApply(r, u, p) \/ Streaming!ApplyStep(r)
           \/ Streaming!GoDown \/ Streaming!GoUp
           \/ Streaming!BootApply(u, p)
    PROVE  /\ published'[c] = 0 /\ file'[c] = 0
           /\ \A r \in Requests : syncing'[r].new[c] = 0
<1> DEFINE Sets == [Cameras -> Versions \cup {0}]
           Calls == [pc : {"idle", "sync", "restart", "fallback"}, new : Sets, old : Sets,
                     host : Hosts \cup {Streaming!NoHost}]
           new == Streaming!Publishable(u, p)
<1>1. /\ new[c] = 0 /\ new \in Sets
      /\ Streaming!NoCall.new[c] = 0
      /\ Streaming!Nothing[c] = 0 /\ Streaming!Nothing \in Sets
  BY DEF Streaming!Publishable, Streaming!NoCall, Streaming!Call, Streaming!Nothing
<1>2. syncing \in [Requests -> Calls] /\ published \in Sets
  BY DEF Streaming!StreamsTypeOK, Streaming!StreamSets
<1>3. ASSUME NEW r \in Requests, NEW call, call.new[c] = 0, Streaming!Onward(r, call)
      PROVE  \A q \in Requests : syncing'[q].new[c] = 0
  BY <1>1, <1>2, <1>3 DEF Streaming!Onward, Streaming!Ends
<1> HIDE DEF new
<1>4. ASSUME NEW r \in Requests, Streaming!BeginApply(r, u, p)
      PROVE  /\ published'[c] = 0 /\ file'[c] = 0
             /\ \A q \in Requests : syncing'[q].new[c] = 0
  <2>1. \A pc, old, host : Streaming!Call(pc, new, old, host).new[c] = 0
    BY <1>1 DEF Streaming!Call
  <2>2. /\ file' = new /\ published' = published
        /\ \/ syncing' = syncing
           \/ \E pc, old, host : Streaming!Onward(r, Streaming!Call(pc, new, old, host))
           \/ \E pc, old, host : syncing' = [syncing EXCEPT ![r] = Streaming!Call(pc, new, old, host)]
    BY <1>4 DEF Streaming!BeginApply, new
  <2>3. CASE \E pc, old, host : Streaming!Onward(r, Streaming!Call(pc, new, old, host))
    BY <1>1, <1>3, <2>1, <2>2, <2>3
  <2>4. CASE \E pc, old, host : syncing' = [syncing EXCEPT ![r] = Streaming!Call(pc, new, old, host)]
    <3>1. PICK pc, old, host : syncing' = [syncing EXCEPT ![r] = Streaming!Call(pc, new, old, host)]
      BY <2>4
    <3> QED
      BY <1>1, <1>2, <2>1, <2>2, <3>1
  <2> QED
    BY <1>1, <2>2, <2>3, <2>4
<1>5. ASSUME NEW r \in Requests, Streaming!ApplyStep(r)
      PROVE  /\ published'[c] = 0 /\ file'[c] = 0
             /\ \A q \in Requests : syncing'[q].new[c] = 0
  <2>1. syncing[r] \in Calls /\ syncing[r].new[c] = 0
    BY <1>2
  <2>2. \A d \in Cameras : \A v : [syncing[r] EXCEPT !.old[d] = v].new[c] = 0
    BY <2>1
  <2>3. [syncing[r] EXCEPT !.pc = "fallback"].new[c] = 0
    BY <2>1
  <2>4. file' = file
    BY <1>5 DEF Streaming!ApplyStep, Streaming!SyncStep, Streaming!Restart
  <2>5. CASE Streaming!Put(r)
    <3>1. PICK d \in Streaming!ToPut(syncing[r]) :
            /\ Streaming!Asked([published EXCEPT ![d] = syncing[r].new[d]])
            /\ Streaming!Onward(r, [syncing[r] EXCEPT !.old[d] = syncing[r].new[d]])
      BY <2>5 DEF Streaming!Put
    <3>2. d \in Cameras /\ d # c
      BY <2>1, <3>1 DEF Streaming!ToPut
    <3>3. published'[c] = 0
      BY <1>2, <3>1, <3>2 DEF Streaming!Asked
    <3> QED
      BY <1>3, <2>2, <2>4, <3>1, <3>2, <3>3
  <2>6. CASE Streaming!Delete(r)
    <3>1. PICK d \in Streaming!ToDelete(syncing[r]) :
            /\ Streaming!Asked(Streaming!Without(d))
            /\ Streaming!Onward(r, [syncing[r] EXCEPT !.old[d] = 0])
      BY <2>6 DEF Streaming!Delete
    <3>2. d \in Cameras
      BY <3>1 DEF Streaming!ToDelete
    <3>3. published'[c] = 0
      BY <1>2, <3>1, <3>2 DEF Streaming!Asked, Streaming!Without
    <3> QED
      BY <1>3, <2>2, <2>4, <3>1, <3>2, <3>3
  <2>7. CASE Streaming!Ends(r, syncing[r]) /\ published' \in {published, file}
    BY <1>1, <1>2, <2>4, <2>7 DEF Streaming!Ends
  <2>8. CASE Streaming!Onward(r, [syncing[r] EXCEPT !.pc = "fallback"]) /\ published' = published
    BY <1>3, <2>3, <2>4, <2>8
  <2> QED
    BY <1>5, <2>5, <2>6, <2>7, <2>8
       DEF Streaming!ApplyStep, Streaming!SyncStep, Streaming!Restart, Streaming!Unreached
<1>6. CASE Streaming!GoDown \/ Streaming!GoUp
  BY <1>1, <1>6 DEF Streaming!GoDown, Streaming!GoUp
<1>7. CASE Streaming!BootApply(u, p)
  <2>1. /\ file' = new
        /\ published' \in {published, new, [d \in Cameras |-> IF new[d] # 0 THEN new[d] ELSE published[d]]}
        /\ syncing' = [r \in Requests |-> Streaming!NoCall]
    BY <1>7 DEF Streaming!BootApply, Streaming!Resynced, new
  <2> QED
    BY <1>1, <2>1
<1> QED
  BY <1>4, <1>5, <1>6, <1>7

\* Wanted leaves it out, so no reload that begins or goes on starts a source of it, and
\* without a source it has no child.
LEMMA FeedsStayDark ==
    ASSUME Feeding!IngestTypeOK,
           NEW t \in Tables, NEW p, NEW c \in Cameras, c \in p,
           sources[c] = 0, feed[c] = "none", c \notin dying,
           \A r \in Requests : reloading[r].wanted[c] = 0,
           \/ \E r \in Requests : Feeding!BeginReload(r, t, p) \/ Feeding!ReloadStep(r)
           \/ \E d \in Cameras : \/ Feeding!Spawn(d) \/ Feeding!FrameRead(d) \/ Feeding!Lost(d)
                                 \/ Feeding!Killed(d) \/ Feeding!Respawn(d)
                                 \/ Feeding!Visit(d, p) \/ Feeding!Reaped(d)
           \/ Feeding!Wake \/ Feeding!Inferred \/ Feeding!Rest
    PROVE  /\ sources'[c] = 0 /\ feed'[c] = "none" /\ c \notin dying'
           /\ \A r \in Requests : reloading'[r].wanted[c] = 0
<1>1. ASSUME NEW r \in Requests, NEW call, call.wanted[c] = 0, Feeding!Proceed(r, call)
      PROVE  /\ sources'[c] = 0 /\ feed'[c] = "none" /\ c \notin dying'
             /\ \A q \in Requests : reloading'[q].wanted[c] = 0
  <2>1. \A todo, wait, pc : Feeding!Reload(pc, call.wanted, todo, wait).wanted[c] = 0
    BY <1>1 DEF Feeding!Reload
  <2>2. \A pc : Feeding!Reload(pc, Feeding!NoReload.wanted, {}, {}).wanted[c] = 0
    BY DEF Feeding!Reload, Feeding!NoReload
  <2> DEFINE stopping == {e \in call.todo : sources[e] \notin {0, call.wanted[e]}}
  <2>3. ASSUME NEW d \in stopping, NEW passed \in SUBSET (call.todo \ stopping), Feeding!StopSource(d),
               reloading' = [reloading EXCEPT ![r] =
                  Feeding!Reload("stopping", call.wanted, call.todo \ (passed \cup {d}), Feeding!Awaits(d))]
        PROVE  /\ sources'[c] = 0 /\ feed'[c] = "none" /\ c \notin dying'
               /\ \A q \in Requests : reloading'[q].wanted[c] = 0
    <3>1. sources[d] # 0
      BY <2>3
    <3>2. d # c
      BY <3>1
    <3>3. sources'[c] = 0 /\ feed'[c] = "none" /\ c \notin dying'
      BY <2>3, <3>2 DEF Feeding!StopSource, Feeding!IngestTypeOK
    <3>4. \A q \in Requests : reloading'[q].wanted[c] = 0
      BY <2>1, <2>3 DEF Feeding!IngestTypeOK
    <3> QED
      BY <3>3, <3>4
  <2>4. CASE /\ sources' = [d \in Cameras |-> IF d \in {e \in Cameras : call.wanted[e] # 0 /\ sources[e] = 0}
                                              THEN call.wanted[d] ELSE sources[d]]
             /\ feed' = [d \in Cameras |-> IF d \in {e \in Cameras : call.wanted[e] # 0 /\ sources[e] = 0}
                                           THEN "spawning" ELSE feed[d]]
             /\ dying' = dying
             /\ reloading' = [reloading EXCEPT ![r] = Feeding!Reload("over", Feeding!NoReload.wanted, {}, {})]
    <3>1. sources'[c] = 0 /\ feed'[c] = "none" /\ c \notin dying'
      BY <1>1, <2>4
    <3>2. \A q \in Requests : reloading'[q].wanted[c] = 0
      BY <2>2, <2>4 DEF Feeding!IngestTypeOK
    <3> QED
      BY <3>1, <3>2
  <2> QED
    BY <1>1, <2>3, <2>4 DEF Feeding!Proceed
<1>2. ASSUME NEW r \in Requests, Feeding!BeginReload(r, t, p) \/ Feeding!ReloadStep(r)
      PROVE  \E call : call.wanted[c] = 0 /\ Feeding!Proceed(r, call)
  <2>1. Feeding!Wanted(t, p)[c] = 0
    BY DEF Feeding!Wanted
  <2>2. \A todo : Feeding!Reload("stopping", Feeding!Wanted(t, p), todo, {}).wanted[c] = 0
    BY <2>1 DEF Feeding!Reload
  <2> QED
    BY <1>2, <2>2 DEF Feeding!BeginReload, Feeding!ReloadStep
<1>3. ASSUME NEW d \in Cameras, \/ Feeding!Spawn(d) \/ Feeding!FrameRead(d) \/ Feeding!Lost(d)
                                \/ Feeding!Killed(d) \/ Feeding!Respawn(d)
                                \/ Feeding!Visit(d, p) \/ Feeding!Reaped(d)
      PROVE  /\ sources'[c] = 0 /\ feed'[c] = "none" /\ c \notin dying'
             /\ reloading' = reloading
  BY <1>3 DEF Feeding!Spawn, Feeding!FrameRead, Feeding!Lost, Feeding!Killed, Feeding!Respawn,
              Feeding!Visit, Feeding!Reaped, Feeding!Fed, Feeding!IngestTypeOK
<1>4. CASE Feeding!Wake \/ Feeding!Inferred \/ Feeding!Rest
  BY <1>4 DEF Feeding!Wake, Feeding!Inferred, Feeding!Rest
<1> QED
  BY <1>1, <1>2, <1>3, <1>4

\* Watched leaves it out, so no sync that begins or goes on starts a watcher of it, and
\* only a watcher that is in the tables can become a stray.
LEMMA WatchersStayDark ==
    ASSUME Listening!AiTypeOK,
           NEW t \in Tables, NEW p, NEW c \in Cameras, c \in p,
           watchers[c] = 0, c \notin strays,
           \A q \in Requests : syncs[q].wanted[c] = 0,
           NEW r \in Requests, Listening!BeginSync(r, t, p) \/ Listening!SyncStep(r)
    PROVE  /\ watchers'[c] = 0 /\ c \notin strays'
           /\ \A q \in Requests : syncs'[q].wanted[c] = 0
<1>0. /\ \A pc, w, todo, wait : Listening!Sync(pc, w, todo, wait).wanted = w
      /\ Listening!NoSync.wanted[c] = 0
  BY DEF Listening!Sync, Listening!NoSync
<1>1. ASSUME NEW call, NEW table, NEW gone, call.wanted[c] = 0, table[c] = 0,
             Listening!Proceed(r, call, table, gone)
      PROVE  /\ watchers'[c] = 0
             /\ \A q \in Requests : syncs'[q].wanted[c] = 0
  <2>1. \/ watchers' = table
        \/ watchers' = [d \in Cameras |-> IF table[d] = 0 THEN call.wanted[d] ELSE table[d]]
    BY <1>1 DEF Listening!Proceed
  <2>2. /\ Listening!Sync("raised", Listening!NoSync.wanted, {}, {}).wanted[c] = 0
        /\ Listening!Sync("over", Listening!NoSync.wanted, {}, {}).wanted[c] = 0
        /\ \A todo, wait : Listening!Sync("stopping", call.wanted, todo, wait).wanted[c] = 0
    BY <1>0, <1>1
  <2> DEFINE stopping == {d \in call.todo : table[d] = 0 \/ table[d] # call.wanted[d]}
  <2>3. ASSUME NEW d \in stopping, NEW passed \in SUBSET (call.todo \ stopping),
               syncs' = [syncs EXCEPT ![r] =
                    IF table[d] = 0
                    THEN Listening!Sync("raised", Listening!NoSync.wanted, {}, {})
                    ELSE Listening!Sync("stopping", call.wanted, call.todo \ (passed \cup {d}), {d})]
        PROVE  \A q \in Requests : syncs'[q].wanted[c] = 0
    <3> DEFINE s == IF table[d] = 0
                    THEN Listening!Sync("raised", Listening!NoSync.wanted, {}, {})
                    ELSE Listening!Sync("stopping", call.wanted, call.todo \ (passed \cup {d}), {d})
    <3>1. s.wanted[c] = 0
      BY <2>2
    <3>2. syncs' = [syncs EXCEPT ![r] = s]
      BY <2>3
    <3>3. syncs = [q \in Requests |-> syncs[q]]
      BY DEF Listening!AiTypeOK
    <3> HIDE DEF s
    <3>4. \A q \in Requests : syncs'[q] = IF q = r THEN s ELSE syncs[q]
      BY <3>2, <3>3
    <3> QED
      BY <3>1, <3>4
  <2>4. ASSUME syncs' = [syncs EXCEPT ![r] = Listening!Sync("over", Listening!NoSync.wanted, {}, {})]
        PROVE  \A q \in Requests : syncs'[q].wanted[c] = 0
    BY <2>2, <2>4 DEF Listening!AiTypeOK
  <2>5. \A q \in Requests : syncs'[q].wanted[c] = 0
    BY <1>1, <2>3, <2>4 DEF Listening!Proceed
  <2> QED
    BY <1>1, <2>1, <2>5
<1>2. CASE Listening!BeginSync(r, t, p)
  <2>1. Listening!Sync("stopping", Listening!Watched(t, p), {d \in Cameras : watchers[d] # 0}, {}).wanted[c] = 0
    BY <1>0 DEF Listening!Watched
  <2>2. /\ Listening!Proceed(r, Listening!Sync("stopping", Listening!Watched(t, p),
                                               {d \in Cameras : watchers[d] # 0}, {}), watchers, cancelled)
        /\ strays' = strays
    BY <1>2 DEF Listening!BeginSync
  <2> QED
    BY <1>1, <2>1, <2>2
<1>3. CASE Listening!SyncStep(r)
  <2>1. PICK d \in syncs[r].wait :
           \/ /\ watchers[d] = 0
              /\ syncs' = [syncs EXCEPT ![r] = Listening!Sync("raised", Listening!NoSync.wanted, {}, {})]
              /\ UNCHANGED <<watchers, cancelled, strays>>
           \/ /\ watchers[d] # 0
              /\ strays' = IF d \in cancelled THEN strays ELSE strays \cup {d}
              /\ Listening!Proceed(r, syncs[r], Listening!Out(d), cancelled \ {d})
    BY <1>3 DEF Listening!SyncStep
  <2>2. CASE watchers[d] = 0
    BY <1>0, <2>1, <2>2 DEF Listening!AiTypeOK
  <2>3. CASE watchers[d] # 0
    <3>1. Listening!Out(d)[c] = 0
      BY <2>3 DEF Listening!Out, Listening!AiTypeOK
    <3>2. c \notin strays'
      BY <2>1, <2>3
    <3>3. Listening!Proceed(r, syncs[r], Listening!Out(d), cancelled \ {d})
      BY <2>1, <2>3
    <3> QED
      BY <1>1, <3>1, <3>2, <3>3
  <2> QED
    BY <2>2, <2>3
<1> QED
  BY <1>2, <1>3

StreamsDark(c) ==
    published[c] = 0 /\ file[c] = 0 /\ \A r \in Requests : syncing[r].new[c] = 0
FeedsDark(c) ==
    /\ sources[c] = 0 /\ feed[c] = "none" /\ c \notin dying
    /\ \A r \in Requests : reloading[r].wanted[c] = 0
WatchersDark(c) ==
    watchers[c] = 0 /\ c \notin strays /\ \A r \in Requests : syncs[r].wanted[c] = 0

LEMMA DarkParts ==
    ASSUME NEW c
    PROVE  /\ Dark(c) /\ Unasked(c) <=> StreamsDark(c) /\ FeedsDark(c) /\ WatchersDark(c)
           /\ (Dark(c) /\ Unasked(c))' <=> StreamsDark(c)' /\ FeedsDark(c)' /\ WatchersDark(c)'
           /\ UNCHANGED streamVars /\ StreamsDark(c) => StreamsDark(c)'
           /\ UNCHANGED ingestVars /\ FeedsDark(c) => FeedsDark(c)'
           /\ UNCHANGED aiVars /\ WatchersDark(c) => WatchersDark(c)'
BY Zenon DEF Dark, Unasked, StreamsDark, FeedsDark, WatchersDark, streamVars, ingestVars, aiVars

LEMMA DarkStep ==
    ASSUME DarkInv, [Next]_vars, NEW c \in acked, Dark(c), Unasked(c), c \in acked'
    PROVE  (Dark(c) /\ Unasked(c))'
<1>0. /\ Types /\ Types' /\ c \in Cameras /\ c \in private /\ c \in private'
      /\ Streaming!StreamsTypeOK /\ Feeding!IngestTypeOK /\ Listening!AiTypeOK
      /\ Urls(rows) \in [Cameras -> Versions] /\ Effective(rows) \in Tables
      /\ \A r \in Requests : Effective(req[r].table) \in Tables
  <2>1. \A r \in Requests : req[r].table \in DbRows \cup {Waiting.table}
    BY DEF DarkInv, Types, Records
  <2> QED
    BY <2>1, TypesStep, DarkInvStep, TableTypes DEF DarkInv, Types, TablesOK
<1>1. StreamsDark(c) /\ FeedsDark(c) /\ WatchersDark(c)
  BY DarkParts
<1>2. ASSUME UNCHANGED <<streamVars, ingestVars, aiVars>> PROVE (Dark(c) /\ Unasked(c))'
  BY <1>1, <1>2, DarkParts, Zenon
<1>3. ASSUME UNCHANGED <<streamVars, aiVars>>, FeedsDark(c)' PROVE (Dark(c) /\ Unasked(c))'
  BY <1>1, <1>3, DarkParts, Zenon
<1>4. ASSUME UNCHANGED <<streamVars, ingestVars>>, WatchersDark(c)' PROVE (Dark(c) /\ Unasked(c))'
  BY <1>1, <1>4, DarkParts, Zenon
<1>5. ASSUME UNCHANGED <<ingestVars, aiVars>>, StreamsDark(c)' PROVE (Dark(c) /\ Unasked(c))'
  BY <1>1, <1>5, DarkParts, Zenon
<1>6. ASSUME NEW r \in Requests, Request(r) PROVE (Dark(c) /\ Unasked(c))'
  <2>1. CASE Load(r) \/ Save(r) \/ Refresh(r) \/ Bind(r) \/ StreamsApplied(r) \/ EngineRows(r)
    BY <1>2, <2>1 DEF Load, Save, Refresh, Bind, StreamsApplied, EngineRows, Quiet
  <2>2. CASE ApplyStreams(r)
    <3>1. StreamsDark(c)'
      BY <1>0, <1>1, <2>2, StreamsStayDark DEF ApplyStreams, StreamsDark
    <3> QED
      BY <1>5, <2>2, <3>1 DEF ApplyStreams
  <2>3. CASE Rebuild(r)
    <3>1. FeedsDark(c)'
      BY <1>1, <2>3 DEF Rebuild, FeedsDark
    <3> QED
      BY <1>3, <2>3, <3>1 DEF Rebuild
  <2>4. CASE ReloadIngest(r)
    <3>1. FeedsDark(c)'
      BY <1>0, <1>1, <2>4, FeedsStayDark DEF ReloadIngest, FeedsDark
    <3> QED
      BY <1>3, <2>4, <3>1 DEF ReloadIngest
  <2>5. CASE IngestReloaded(r)
    <3>1. Feeding!NoReload.wanted[c] = 0
      BY <1>0 DEF Feeding!NoReload, Feeding!Reload
    <3>2. FeedsDark(c)'
      BY <1>0, <1>1, <2>5, <3>1 DEF IngestReloaded, FeedsDark, Feeding!IngestTypeOK
    <3> QED
      BY <1>3, <2>5, <3>2 DEF IngestReloaded
  <2>6. CASE SyncWatchers(r)
    <3>1. WatchersDark(c)'
      BY <1>0, <1>1, <2>6, WatchersStayDark DEF SyncWatchers, WatchersDark
    <3> QED
      BY <1>4, <2>6, <3>1 DEF SyncWatchers
  <2>7. CASE WatchersSynced(r) \/ Answer(r)
    <3>1. Listening!NoSync.wanted[c] = 0
      BY <1>0 DEF Listening!NoSync, Listening!Sync
    <3>2. WatchersDark(c)'
      BY <1>0, <1>1, <2>7, <3>1 DEF WatchersSynced, Answer, WatchersDark, Listening!AiTypeOK
    <3> QED
      BY <1>4, <2>7, <3>2 DEF WatchersSynced, Answer
  <2> QED
    BY <1>6, <2>1, <2>2, <2>3, <2>4, <2>5, <2>6, <2>7 DEF Request
<1>7. CASE Post \/ (\E m \in SUBSET Cameras : GroupPut(m))
           \/ (\E d \in Cameras, u \in Versions, m \in ModesUsed : CameraPut(d, [url |-> u, mode |-> m]))
           \/ (\E m \in (ModesUsed \ {"unset"}) \cup {"always"} : SettingsPut(m))
  BY <1>2, <1>7 DEF Post, GroupPut, CameraPut, SettingsPut, Arrive, Quiet
<1>8. ASSUME NEW h \in Hosts, Learn(h) PROVE (Dark(c) /\ Unasked(c))'
  <2>1. StreamsDark(c)'
    BY <1>1, <1>8 DEF Learn, StreamsDark
  <2> QED
    BY <1>5, <1>8, <2>1 DEF Learn
<1>9. CASE StreamStep
  <2>1. StreamsDark(c)'
    BY <1>0, <1>1, <1>9, StreamsStayDark DEF StreamStep, StreamsDark
  <2> QED
    BY <1>5, <1>9, <2>1 DEF StreamStep
<1>10. CASE IngestStep
  <2>1. FeedsDark(c)'
    BY <1>0, <1>1, <1>10, FeedsStayDark DEF IngestStep, FeedsDark
  <2> QED
    BY <1>3, <1>10, <2>1 DEF IngestStep
<1>11. CASE ListenStep
  <2>1. WatchersDark(c)'
    BY <1>0, <1>1, <1>11, WatchersStayDark DEF ListenStep, WatchersDark
  <2> QED
    BY <1>4, <1>11, <2>1 DEF ListenStep
<1>12. CASE Crash
  <2>1. StreamsDark(c)'
    BY <1>0, <1>1, <1>12, StreamsStayDark DEF Crash, StreamsDark
  <2>2. FeedsDark(c)'
    BY <1>0, <1>12 DEF Crash, FeedsDark, Feeding!Wanted, Feeding!NoReload, Feeding!Reload
  <2>3. WatchersDark(c)'
    BY <1>0, <1>12 DEF Crash, WatchersDark, Listening!Watched, Listening!NoSync, Listening!Sync
  <2> QED
    BY <2>1, <2>2, <2>3, DarkParts
<1>13. CASE UNCHANGED vars
  BY <1>2, <1>13 DEF vars
<1> QED
  BY <1>6, <1>7, <1>8, <1>9, <1>10, <1>11, <1>12, <1>13 DEF Next

\* StaysDark: for any number of requests at once, of any kind, whatever go2rtc refuses and
\* whenever it stops, and across a crash, no reconciler brings back a camera that was
\* answered for as private and has gone dark.
THEOREM DarkForGood == Spec => StaysDark
<1>1. Init => DarkInv
  BY TypesInit DEF Init, DarkInv
<1>2. DarkInv /\ [Next]_vars =>
        [\A c \in acked : Dark(c) /\ Unasked(c) /\ c \in acked' => (Dark(c) /\ Unasked(c))']_vars
  BY DarkStep
<1> QED
  BY <1>1, <1>2, DarkInvStep, PTL DEF Spec, StaysDark

=============================================================================
