------------------------------- MODULE Footage -------------------------------
(***************************************************************************)
(* What is made of one camera's recorded segments: the H.264 segments that *)
(* the timeline plays (native/transcode.py) and the range exports          *)
(* (export_range of native/recorder.py, routers/recordings.py), both built *)
(* once for all who ask at the same time and kept in a bounded cache,      *)
(* against the recorder, the retention sweep and the purge.                *)
(*                                                                         *)
(* A build is the task that the requests await, shielded from them.        *)
(* ffmpeg opens what it reads and what it writes in one step, and a look   *)
(* at the cache is one step with what follows from it.  Left out: the      *)
(* source's codec, which of the two encoders it is, and times.             *)
(***************************************************************************)
EXTENDS Integers, SequencesExt, FiniteSetsExt

CONSTANTS
    Newest,        \* the segments are 1..Newest
    Windows,       \* windows that are exported: sets of segments
    Asks,          \* requests
    Encoders,      \* _export_sem's value
    MaxCached      \* EXPORT_CACHE_MAX_BYTES and DEFAULT_CACHE_BYTES, in files

Segments == 1..Newest
Exports == {<<"export", w>> : w \in Windows}
Playable == {<<"segment", {s}>> : s \in Segments}
Items == Exports \cup Playable
Kinds == {"export", "segment"}

VARIABLES
    seg,         \* [Segments -> "future", "writing", "whole" or "gone"]
    purged,      \* the segments that a purge has deleted
    cached,      \* [Kinds -> the files in the cache, the least recently used first]
    holds,       \* [Items -> the segments whose pictures the cached file has]
    build,       \* [Items -> what the build in flight is doing, or "none"]
    listed,      \* [Items -> the segments the build is to read]
    part,        \* [Items -> what the temporary file has; {}: there is none]
    list,        \* the exports whose concat list is on disk
    ask,         \* [Asks -> where the request is]
    wanted,      \* [Asks -> the item, or <<>>]
    found,       \* [Asks -> the segments of its window that were on disk]
    purge        \* where purge_all_recordings is

footageVars == <<seg, purged, cached, holds, build, listed, part, list, ask, wanted, found, purge>>

Disk == <<seg, purged>>
Cache == <<cached, holds>>
Builds == <<build, listed, part, list>>
Request == <<ask, wanted, found>>

FootageTypeOK ==
    /\ seg \in [Segments -> {"future", "writing", "whole", "gone"}]
    /\ purged \subseteq Segments
    /\ \A k \in Kinds : cached[k] \in Seq(Items) /\ Len(cached[k]) <= MaxCached
    /\ holds \in [Items -> SUBSET Segments]
    /\ build \in [Items -> {"none", "queued", "writing", "starting", "running", "renaming"}]
    /\ {listed, part} \subseteq [Items -> SUBSET Segments]
    /\ list \subseteq Exports
    /\ ask \in [Asks -> {"new", "checking", "waiting", "answered"}]
    /\ wanted \in [Asks -> Items \cup {<<>>}]
    /\ found \in [Asks -> SUBSET Segments]
    /\ purge \in {"idle", "halted", "tree", "export", "segment"}

FootageInit ==
    /\ seg = [s \in Segments |-> IF s = 1 THEN "whole" ELSE IF s = 2 THEN "writing" ELSE "future"]
    /\ purged = {}
    /\ cached = [k \in Kinds |-> <<>>]
    /\ holds = [i \in Items |-> {}]
    /\ build = [i \in Items |-> "none"]
    /\ listed = [i \in Items |-> {}]
    /\ part = [i \in Items |-> {}]
    /\ list = {}
    /\ ask = [r \in Asks |-> "new"]
    /\ wanted = [r \in Asks |-> <<>>]
    /\ found = [r \in Asks |-> {}]
    /\ purge = "idle"

-----------------------------------------------------------------------------
(* The segments.                                                           *)

Are(states, set) == {s \in set : seg[s] \in states}
OnDisk(set) == Are({"writing", "whole"}, set)

\* ffmpeg closes a segment and opens the next.
Rollover ==
    /\ purge = "idle"
    /\ \E s \in Are({"writing"}, Segments) :
          seg' = [t \in Segments |-> CASE t = s -> "whole"
                                       [] t = s + 1 -> "writing"
                                       [] OTHER -> seg[t]]
    /\ UNCHANGED <<purged, Cache, Builds, Request, purge>>

\* retention_pass: whole hours of segments, the oldest first.
Retain ==
    /\ \E s \in Are({"whole"}, Segments) :
          /\ \A t \in 1..(s - 1) : seg[t] = "gone"
          /\ seg' = [seg EXCEPT ![s] = "gone"]
    /\ UNCHANGED <<purged, Cache, Builds, Request, purge>>

-----------------------------------------------------------------------------
(* The cache of each kind.                                                 *)

Kind(i) == i[1]
Has(i) == Contains(cached[Kind(i)], i)

\* The newest mtime: the file comes last, wherever it was.
Touched(files, i) ==
    LET n == CHOOSE m \in 1..Len(files) : files[m] = i
    IN  Append(IF Contains(files, i) THEN RemoveAt(files, n) ELSE files, i)

Touch(i) == [cached EXCEPT ![Kind(i)] = Touched(@, i)]

\* _evict_export_cache, _evict_lru: the oldest go until the rest fits.
\* Fault: nothing is ever dropped.
FaultEvict(files) == files
Evict(files) == IF Len(files) > MaxCached THEN Tail(files) ELSE files

\* The finished file is in its place, and the cache within its bound.
Publish(i) ==
    /\ cached' = [Touch(i) EXCEPT ![Kind(i)] = Evict(@)]
    /\ holds' = [j \in Items |-> IF j = i THEN part[i]
                                 ELSE IF Contains(cached'[Kind(j)], j) THEN holds[j] ELSE {}]

-----------------------------------------------------------------------------
(* A request.                                                              *)

\* export_range looks for footage in the window; segment_for_playback is asked
\* for a segment that _find_segment found.
Ask(r, i) ==
    /\ ask[r] = "new"
    /\ OnDisk(i[2]) # {}
    /\ ask' = [ask EXCEPT ![r] = "checking"]
    /\ wanted' = [wanted EXCEPT ![r] = i]
    /\ found' = [found EXCEPT ![r] = OnDisk(i[2])]
    /\ UNCHANGED <<Disk, Cache, Builds, purge>>

Hit(r) ==
    /\ ask[r] = "checking" /\ Has(wanted[r])
    /\ ask' = [ask EXCEPT ![r] = "answered"]
    /\ cached' = Touch(wanted[r])
    /\ UNCHANGED <<Disk, holds, Builds, wanted, found, purge>>

\* _get_or_build_export, _get_or_transcode_segment: it joins the build in flight, or
\* starts one, of the segments it found.
Miss(r) ==
    LET i == wanted[r]
    IN  /\ ask[r] = "checking" /\ ~Has(i)
        /\ ask' = [ask EXCEPT ![r] = "waiting"]
        /\ IF build[i] = "none"
           THEN /\ build' = [build EXCEPT ![i] = "queued"]
                /\ listed' = [listed EXCEPT ![i] = found[r]]
           ELSE UNCHANGED <<build, listed>>
        /\ UNCHANGED <<Disk, Cache, part, list, wanted, found, purge>>

-----------------------------------------------------------------------------
(* A build.                                                                *)

Encoding == {i \in Exports : build[i] \notin {"none", "queued"}}

Step(i, to) == build' = [build EXCEPT ![i] = to]

\* The semaphore, for an export, and then its concat list.
Begin(i) ==
    /\ build[i] = "queued"
    /\ i \in Exports => Cardinality(Encoding) < Encoders
    /\ Step(i, IF i \in Exports THEN "writing" ELSE "starting")
    /\ UNCHANGED <<Disk, Cache, listed, part, list, Request, purge>>

WriteList(i) ==
    /\ build[i] = "writing"
    /\ Step(i, "starting")
    /\ list' = list \cup {i}
    /\ UNCHANGED <<Disk, Cache, listed, part, Request, purge>>

\* _build_export, _transcode_segment: the future is resolved, whoever waits resumes.
Over(i) ==
    /\ Step(i, "none")
    /\ listed' = [listed EXCEPT ![i] = {}]
    /\ part' = [part EXCEPT ![i] = {}]
    /\ list' = list \ {i}
    /\ ask' = [r \in Asks |-> IF wanted[r] = i /\ ask[r] = "waiting" THEN "answered" ELSE ask[r]]

\* What ffmpeg can open.
Readable(i) == IF i \in Exports /\ i \notin list THEN {} ELSE OnDisk(listed[i])

\* What a wiped directory leaves of the temporary files.
Swept(kind) == [i \in Items |-> IF Kind(i) = kind THEN {} ELSE part[i]]

Launch(i) ==
    /\ build[i] = "starting"
    /\ IF Readable(i) = {}
       THEN Over(i)
       ELSE /\ Step(i, "running")
            /\ part' = [part EXCEPT ![i] = Readable(i)]
            /\ UNCHANGED <<listed, list, ask>>
    /\ UNCHANGED <<Disk, Cache, wanted, found, purge>>

\* It ends well, or fails and is tried with the next encoder, or at last copied.
Encoded(i) ==
    /\ build[i] = "running"
    /\ \/ /\ part[i] # {}
          /\ Step(i, "renaming")
          /\ UNCHANGED <<listed, part, list, ask>>
       \/ /\ Step(i, "starting")
          /\ UNCHANGED <<listed, part, list, ask>>
       \/ Over(i)
    /\ UNCHANGED <<Disk, Cache, wanted, found, purge>>

Rename(i) ==
    /\ build[i] = "renaming"
    /\ Over(i)
    /\ IF part[i] = {}
       THEN UNCHANGED Cache
       ELSE Publish(i)
    /\ UNCHANGED <<Disk, wanted, found, purge>>

Builder(i) == Begin(i) \/ WriteList(i) \/ Launch(i) \/ Encoded(i) \/ Rename(i)

-----------------------------------------------------------------------------
(* purge_all_recordings.                                                   *)

\* Every recorder is stopped, so that no segment is being written.
Purge ==
    /\ purge = "idle"
    /\ purge' = "halted"
    /\ seg' = [s \in Segments |-> IF seg[s] = "writing" THEN "whole" ELSE seg[s]]
    /\ UNCHANGED <<purged, Cache, Builds, Request>>

\* The tree goes first.  Fault: it goes last.
FaultWipes == <<"export", "segment", "tree">>
Wipes == <<"tree", "export", "segment">>

Wipe ==
    \E n \in 1..3 :
        /\ purge = IF n = 1 THEN "halted" ELSE Wipes[n - 1]
        /\ purge' = IF n = 3 THEN "idle" ELSE Wipes[n]
        /\ IF Wipes[n] = "tree"
           THEN /\ purged' = purged \cup OnDisk(Segments)
                /\ seg' = [s \in Segments |-> IF seg[s] = "whole" THEN "gone" ELSE seg[s]]
                /\ UNCHANGED <<cached, holds, part, list>>
           ELSE /\ cached' = [cached EXCEPT ![Wipes[n]] = <<>>]
                /\ holds' = [i \in Items |-> IF Kind(i) = Wipes[n] THEN {} ELSE holds[i]]
                /\ part' = Swept(Wipes[n])
                /\ list' = {i \in list : Kind(i) # Wipes[n]}
                /\ UNCHANGED Disk
        /\ UNCHANGED <<build, listed, Request>>

\* The recorders are back: the next segment is being written.
Resume ==
    /\ purge = "idle" /\ Are({"writing"}, Segments) = {}
    /\ \E s \in Are({"future"}, Segments) :
          /\ \A t \in 1..(s - 1) : seg[t] # "future"
          /\ seg' = [seg EXCEPT ![s] = "writing"]
    /\ UNCHANGED <<purged, Cache, Builds, Request, purge>>

FootageNext ==
    \/ Rollover \/ Retain \/ Resume \/ Purge \/ Wipe
    \/ \E r \in Asks : Hit(r) \/ Miss(r) \/ \E i \in Items : Ask(r, i)
    \/ \E i \in Items : Builder(i)

-----------------------------------------------------------------------------
(* Properties.                                                             *)

\* _wipe_recordings_tree: "so a purge leaves no cached footage": once it is over,
\* whatever was being built meanwhile, no file of a cache shows what it deleted.
PurgeLeavesNone ==
    purge = "idle" => \A i \in Items : Has(i) => holds[i] \cap purged = {}

-----------------------------------------------------------------------------
(* What the source's comments say and TLC finds violated (see the README). *)

\* export_range: "MP4 covering [start_time, end_time]": an export that is reused has
\* all the footage of its window.
ExportCovers ==
    \A r \in Asks : ask[r] = "checking" /\ wanted[r] \in Exports /\ Has(wanted[r]) =>
        Are({"whole"}, wanted[r][2]) \subseteq holds[wanted[r]]

=============================================================================
