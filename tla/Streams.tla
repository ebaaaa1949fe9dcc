------------------------------- MODULE Streams -------------------------------
(***************************************************************************)
(* Go2rtcManager (native/streams.py): the generated configuration file,    *)
(* the streams the go2rtc container serves, and the calls of apply() that  *)
(* bring the second in line with the first.  A component of Capture.       *)
(*                                                                         *)
(* A camera's two streams are put and deleted one after the other and are  *)
(* one here; its sources are the version of its row, 0 for no stream.  An  *)
(* apply() works on a snapshot of the rows and of _prev_streams, and other *)
(* calls may run between its requests to go2rtc.                           *)
(***************************************************************************)
EXTENDS Naturals, FiniteSets

CONSTANTS
    Cameras,      \* camera names
    Versions,     \* what a row's stream URLs may be, numbers above 0
    Requests,     \* administrator requests, each in at most one apply()
    Hosts,        \* addresses a client may have reached the server on
    MayRefuse     \* TRUE: go2rtc may refuse a request, or time out, while it is up

VARIABLES
    file,         \* [Cameras -> version]: `streams` of the YAML on disk
    fileHost,     \* the host candidate in the YAML
    prevStreams,  \* _prev_streams
    prevHost,     \* what tells one _prev_listeners from another: its host candidate,
                  \* or that this process has not synced yet
    published,    \* what go2rtc serves now
    up,           \* go2rtc answers
    refused,      \* a request to go2rtc is lost, and it has not read its file since
    observed,     \* _observed_host
    syncing       \* [Requests -> a call of apply()]

streamVars == <<file, fileHost, prevStreams, prevHost, published, up, refused, observed,
                syncing>>

NoHost == "none"
Unsynced == "unset"
Nothing == [c \in Cameras |-> 0]
StreamSets == [Cameras -> Versions \cup {0}]

Call(pc, new, old, host) == [pc |-> pc, new |-> new, old |-> old, host |-> host]
NoCall == Call("idle", Nothing, Nothing, NoHost)

StreamsTypeOK ==
    /\ {file, prevStreams, published} \subseteq StreamSets
    /\ {fileHost, observed} \subseteq Hosts \cup {NoHost}
    /\ prevHost \in Hosts \cup {NoHost, Unsynced}
    /\ {up, refused} \subseteq BOOLEAN
    /\ syncing \in [Requests -> [pc : {"idle", "sync", "restart", "fallback"},
                                 new : StreamSets, old : StreamSets,
                                 host : Hosts \cup {NoHost}]]

StreamsInit(rows) ==
    /\ file = rows
    /\ fileHost = NoHost
    /\ prevStreams = rows
    /\ prevHost = NoHost
    /\ published = rows
    /\ up = TRUE
    /\ refused = FALSE
    /\ observed = NoHost
    /\ syncing = [r \in Requests |-> NoCall]

-----------------------------------------------------------------------------
(* Which host candidate goes into the file.                                *)

\* _derive_host without the environment and PUBLIC_URL set, in a bridge network
\* where the default route shows a docker address: what clients showed it.
DeriveHost(seen) == seen

\* note_observed_host: a private address outside docker's block, and a new one.
LearnHost(h) ==
    /\ h # observed
    /\ observed' = h

-----------------------------------------------------------------------------
(* apply().                                                                *)

\* The rows that may be published: those of cameras not in Privacy Mode.
Publishable(rows, private) == [c \in Cameras |-> IF c \in private THEN 0 ELSE rows[c]]

\* What is put where it is not there yet, and what is deleted.
ToPut(call) == {c \in Cameras : call.new[c] # 0 /\ call.new[c] # call.old[c]}
ToDelete(call) == {c \in Cameras : call.old[c] # 0 /\ call.new[c] = 0}

\* What is left of a sync; a refused restart is followed by puts only.
Left(call) == ToPut(call) \cup IF call.pc = "sync" THEN ToDelete(call) ELSE {}

\* The call goes on to its next request, or ends: `_prev_streams = new_streams`,
\* whatever became of the requests.
Ends(r, call) ==
    /\ prevStreams' = call.new
    /\ prevHost' = call.host
    /\ syncing' = [syncing EXCEPT ![r] = NoCall]

Onward(r, call) ==
    IF Left(call) = {}
    THEN Ends(r, call)
    ELSE /\ syncing' = [syncing EXCEPT ![r] = call]
         /\ UNCHANGED <<prevStreams, prevHost>>

\* list_cameras has answered: the YAML is built, compared and written.
BeginApply(r, rows, private) ==
    LET new == Publishable(rows, private)
        host == DeriveHost(observed)
    IN  /\ syncing[r].pc = "idle"
        /\ file' = new
        /\ fileHost' = host
        /\ \/ /\ <<new, host>> = <<file, fileHost>>
              /\ UNCHANGED <<prevStreams, prevHost, syncing>>
           \/ /\ <<new, host>> # <<file, fileHost>>
              /\ prevHost = host
              /\ Onward(r, Call("sync", new, prevStreams, host))
           \/ /\ <<new, host>> # <<file, fileHost>>
              /\ prevHost # host
              /\ syncing' = [syncing EXCEPT ![r] = Call("restart", new, Nothing, host)]
              /\ UNCHANGED <<prevStreams, prevHost>>
        /\ UNCHANGED <<published, up, refused, observed>>

\* A request to go2rtc is done; or it is not, and nobody looks at the status.
Asked(serves) ==
    \/ published' = serves /\ UNCHANGED refused
    \/ MayRefuse /\ refused' = TRUE /\ UNCHANGED published

\* The next request of _sync_streams, or of _sync after a refused restart; `old`
\* follows what was asked for.  All puts come before all deletes.
Put(r) ==
    \E c \in ToPut(syncing[r]) :
       /\ Asked([published EXCEPT ![c] = syncing[r].new[c]])
       /\ Onward(r, [syncing[r] EXCEPT !.old[c] = syncing[r].new[c]])

\* A name go2rtc does not know any more.
Without(c) == [published EXCEPT ![c] = 0]

Delete(r) ==
    /\ ToPut(syncing[r]) = {}
    /\ \E c \in ToDelete(syncing[r]) :
         /\ Asked(Without(c))
         /\ Onward(r, [syncing[r] EXCEPT !.old[c] = 0])

\* go2rtc cannot be reached, or does not answer in time: the call ends, and the rest
\* is not asked for again, as _prev_streams is set all the same.
Unreached(r) ==
    /\ ~up \/ MayRefuse
    /\ refused' = up
    /\ Ends(r, syncing[r])
    /\ UNCHANGED published

SyncStep(r) ==
    /\ syncing[r].pc \in {"sync", "fallback"}
    /\ \/ up /\ Put(r)
       \/ up /\ syncing[r].pc = "sync" /\ Delete(r)
       \/ Unreached(r)
    /\ UNCHANGED <<file, fileHost, up, observed>>

\* _sync: a restart makes go2rtc read the file; refused, each stream is put;
\* unreachable, the file is read at go2rtc's next start.
Restart(r) ==
    /\ syncing[r].pc = "restart"
    /\ \/ up /\ published' = file /\ refused' = FALSE /\ Ends(r, syncing[r])
       \/ /\ up
          /\ Onward(r, [syncing[r] EXCEPT !.pc = "fallback"])
          /\ UNCHANGED <<published, refused>>
       \/ Unreached(r)
    /\ UNCHANGED <<file, fileHost, up, observed>>

\* What _sync leaves behind: go2rtc has read the file, or has refused and been asked
\* to put each stream.
Resynced(new) == {new, [c \in Cameras |-> IF new[c] # 0 THEN new[c] ELSE published[c]]}

\* The first apply() of a process: a file that is current is not synced, and
\* go2rtc goes on serving what it did.
BootApply(rows, private) ==
    LET new == Publishable(rows, private)
        changed == <<new, NoHost>> # <<file, fileHost>>
    IN  /\ file' = new
        /\ fileHost' = NoHost
        /\ observed' = NoHost
        /\ published' \in IF changed /\ up THEN Resynced(new) ELSE {published}
        /\ refused' = FALSE
        /\ prevStreams' = IF changed THEN new ELSE Nothing
        /\ prevHost' = IF changed THEN NoHost ELSE Unsynced
        /\ syncing' = [r \in Requests |-> NoCall]
        /\ UNCHANGED up

ApplyStep(r) == SyncStep(r) \/ Restart(r)
ApplyDone(r) == syncing[r].pc = "idle"

-----------------------------------------------------------------------------
(* The go2rtc container.                                                   *)

GoDown ==
    /\ up
    /\ up' = FALSE
    /\ published' = Nothing
    /\ refused' = FALSE
    /\ UNCHANGED <<file, fileHost, prevStreams, prevHost, observed, syncing>>

GoUp ==
    /\ ~up
    /\ up' = TRUE
    /\ published' = file
    /\ UNCHANGED <<file, fileHost, prevStreams, prevHost, refused, observed, syncing>>

=============================================================================
