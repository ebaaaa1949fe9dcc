----------------------------- MODULE AiListener -----------------------------
(***************************************************************************)
(* AiEventListener.sync (amcrest/ai_events.py): one ONVIF watcher per      *)
(* camera that runs on its own AI, reconciled with the camera rows.        *)
(* Stopping a watcher awaits its Unsubscribe; nothing keeps a second sync  *)
(* out meanwhile.  A component of Capture; what a watcher does is in       *)
(* AiTrigger.                                                              *)
(*                                                                         *)
(* A watcher's key is the url of the row it was started with.              *)
(***************************************************************************)
EXTENDS Naturals, FiniteSets

CONSTANTS
    Cameras,
    Versions,
    Requests      \* administrator requests, each in at most one sync()

VARIABLES
    watchers,     \* [Cameras -> key of the watcher in _watchers, or 0]
    cancelled,    \* cameras whose watcher in _watchers has been cancelled
    strays,       \* cameras with a running watcher that is in no table
    syncs         \* [Requests -> a call of sync()]

aiVars == <<watchers, cancelled, strays, syncs>>

Sync(pc, wanted, todo, wait) == [pc |-> pc, wanted |-> wanted, todo |-> todo, wait |-> wait]
NoSync == Sync("idle", [c \in Cameras |-> 0], {}, {})

AiTypeOK ==
    /\ watchers \in [Cameras -> Versions \cup {0}]
    /\ {cancelled, strays} \subseteq SUBSET Cameras
    /\ syncs \in [Requests -> [pc : {"idle", "stopping", "over", "raised"},
                               wanted : [Cameras -> Versions \cup {0}],
                               todo : SUBSET Cameras, wait : SUBSET Cameras]]

\* The cameras that get a watcher: on their own AI, and not private.
\* Fault: whatever the private set is.
FaultWatched(rows, private) ==
    [c \in Cameras |-> IF rows[c].mode = "always" THEN 0 ELSE rows[c].url]
Watched(rows, private) ==
    [c \in Cameras |-> IF rows[c].mode = "always" \/ c \in private THEN 0 ELSE rows[c].url]

\* The loop over the snapshot of names, up to the next await.  A name another
\* sync has taken out is looked up all the same, and the lookup raises.  After
\* the last one the missing watchers start.
Proceed(r, call, table, gone) ==
    LET stopping == {c \in call.todo : table[c] = 0 \/ table[c] # call.wanted[c]}
    IN  \/ \E c \in stopping, passed \in SUBSET (call.todo \ stopping) :
              /\ watchers' = table
              /\ cancelled' = IF table[c] = 0 THEN gone ELSE gone \cup {c}
              /\ syncs' = [syncs EXCEPT ![r] =
                    IF table[c] = 0
                    THEN Sync("raised", NoSync.wanted, {}, {})
                    ELSE Sync("stopping", call.wanted, call.todo \ (passed \cup {c}), {c})]
        \/ /\ stopping = {}
           /\ watchers' = [c \in Cameras |-> IF table[c] = 0 THEN call.wanted[c] ELSE table[c]]
           /\ cancelled' = gone
           /\ syncs' = [syncs EXCEPT ![r] = Sync("over", NoSync.wanted, {}, {})]

BeginSync(r, rows, private) ==
    /\ syncs[r].pc = "idle"
    /\ Proceed(r, Sync("stopping", Watched(rows, private), {c \in Cameras : watchers[c] # 0}, {}),
               watchers, cancelled)
    /\ UNCHANGED strays

Out(c) == [watchers EXCEPT ![c] = 0]

\* The watcher has unsubscribed: it is taken out of the tables.  What is in them
\* by then may be a watcher another sync has started, which then runs on.
SyncStep(r) ==
    \E c \in syncs[r].wait :
       \/ /\ watchers[c] = 0
          /\ syncs' = [syncs EXCEPT ![r] = Sync("raised", NoSync.wanted, {}, {})]
          /\ UNCHANGED <<watchers, cancelled, strays>>
       \/ /\ watchers[c] # 0
          /\ strays' = IF c \in cancelled THEN strays ELSE strays \cup {c}
          /\ Proceed(r, syncs[r], Out(c), cancelled \ {c})

Raised(r) == syncs[r].pc = "raised"
SyncDone(r) == syncs[r].pc = "over" \/ Raised(r)

=============================================================================
