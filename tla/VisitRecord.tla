----------------------------- MODULE VisitRecord -----------------------------
(***************************************************************************)
(* What a client is promised of one press of a doorbell, whatever the      *)
(* watchers, the supervisors, Privacy Mode and restarts do.  Its row is    *)
(* entered once and given an end once; it is filmed once at most, while    *)
(* the row is open, and no camera films two presses at a time; only a      *)
(* visit filmed to its end becomes a clip, once; a browser is told, a      *)
(* phone rings and is alerted once at most, the alert after the browser.   *)
(* Doorbell implements it.                                                 *)
(***************************************************************************)
CONSTANTS
    Presses,        \* presses of a doorbell
    CameraOf(_)     \* the camera of a press

VARIABLES
    row,       \* end_time: none, open, marker (= start_time), visit, swept
    film,      \* "none", "on", "done" (to its end, no clip yet) or "over"
    files,     \* presses whose picture is on disk
    pushed,    \* web pushes sent
    rung,      \* rings sent
    alerted,   \* APNs and ntfy alerts sent
    clips      \* clips scheduled

outVars == <<files, pushed, rung, alerted, clips>>
visitVars == <<row, film, outVars>>

Init ==
    /\ row = [e \in Presses |-> "none"]
    /\ film = [e \in Presses |-> "none"]
    /\ files = {} /\ pushed = {} /\ rung = {} /\ alerted = {} /\ clips = {}

Open(e) == row[e] = "open"
Filmed == {e \in Presses : film[e] = "on"}
Unfinished == Filmed \cup {e \in Presses : film[e] = "done"}

Enter(e, end) ==
    /\ row[e] = "none"
    /\ row' = [row EXCEPT ![e] = end]
    /\ UNCHANGED <<film, outVars>>

Film(e) ==
    /\ Open(e) /\ film[e] = "none"
    /\ \A d \in Filmed : CameraOf(d) # CameraOf(e)
    /\ film' = [film EXCEPT ![e] = "on"]
    /\ UNCHANGED <<row, outVars>>

\* The visitor has left, or filming went wrong.  The write that gives the row
\* its end can fail.
Finish(e, end, last) ==
    /\ Open(e) /\ film[e] = "on"
    /\ row' \in {row, [row EXCEPT ![e] = end]}
    /\ film' = [film EXCEPT ![e] = last]
    /\ UNCHANGED outVars

\* What was begun is cut short.  Of what is being filmed, some rows get an end.
Interrupt(cut, closed) ==
    /\ film' = [e \in Presses |-> IF e \in cut THEN "over" ELSE film[e]]
    /\ row' = [e \in Presses |-> IF e \in closed THEN "marker" ELSE row[e]]
    /\ UNCHANGED outVars

\* A new process gives the rows it finds open an end.
Sweep ==
    /\ Unfinished = {} /\ \E e \in Presses : Open(e)
    /\ row' = [e \in Presses |-> IF Open(e) THEN "swept" ELSE row[e]]
    /\ UNCHANGED <<film, outVars>>

Picture(e) ==
    /\ row[e] # "none" /\ e \notin files
    /\ files' = files \cup {e}
    /\ UNCHANGED <<row, film, pushed, rung, alerted, clips>>

Push(e) ==
    /\ row[e] # "none" /\ e \notin pushed
    /\ pushed' = pushed \cup {e}
    /\ UNCHANGED <<row, film, files, rung, alerted, clips>>

Ring(e) ==
    /\ row[e] # "none" /\ e \notin rung
    /\ rung' = rung \cup {e}
    /\ UNCHANGED <<row, film, files, pushed, alerted, clips>>

Alert(e) ==
    /\ e \in pushed /\ e \notin alerted
    /\ alerted' = alerted \cup {e}
    /\ UNCHANGED <<row, film, files, pushed, rung, clips>>

Clip(e) ==
    /\ film[e] = "done" /\ row[e] \in {"visit", "open"}
    /\ film' = [film EXCEPT ![e] = "over"]
    /\ clips' = clips \cup {e}
    /\ UNCHANGED <<row, files, pushed, rung, alerted>>

Next ==
    \/ \E e \in Presses :
          \/ Enter(e, "open") \/ Enter(e, "marker")
          \/ Film(e) \/ Finish(e, "visit", "done") \/ Finish(e, "marker", "over")
          \/ Picture(e) \/ Push(e) \/ Ring(e) \/ Alert(e) \/ Clip(e)
    \/ \E cut \in (SUBSET Unfinished) \ {{}} :
          \E closed \in SUBSET {e \in cut \cap Filmed : Open(e)} : Interrupt(cut, closed)
    \/ Sweep

Spec == Init /\ [][Next]_visitVars

=============================================================================
