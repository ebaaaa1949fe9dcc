----------------------------- MODULE EventRecord -----------------------------
(***************************************************************************)
(* What a client is promised of one detection event, whatever the engine,  *)
(* the enrichment tasks, Privacy Mode and restarts do: its row opens once  *)
(* and closes once, a picture and a push are of a row that exists, the     *)
(* has_snapshot flag follows the file, and there is one push at most.      *)
(* EventLifecycle implements it.                                           *)
(***************************************************************************)
EXTENDS Naturals

CONSTANT Fids      \* event ids

VARIABLES
    row,       \* "none", "open" (no end time) or "closed"
    files,     \* events whose picture is on disk
    flagged,   \* events whose row says has_snapshot
    pushed     \* web pushes sent for an event

recordVars == <<row, files, flagged, pushed>>

Init ==
    /\ row = [f \in Fids |-> "none"]
    /\ files = {} /\ flagged = {}
    /\ pushed = [f \in Fids |-> 0]

Open(f) ==
    /\ row[f] = "none"
    /\ row' = [row EXCEPT ![f] = "open"]
    /\ UNCHANGED <<files, flagged, pushed>>

Close(f) ==
    /\ row[f] = "open"
    /\ row' = [row EXCEPT ![f] = "closed"]
    /\ UNCHANGED <<files, flagged, pushed>>

Picture(f) ==
    /\ row[f] # "none"
    /\ files' = files \cup {f}
    /\ UNCHANGED <<row, flagged, pushed>>

Flag(f) ==
    /\ f \in files
    /\ flagged' = flagged \cup {f}
    /\ UNCHANGED <<row, files, pushed>>

Push(f) ==
    /\ row[f] # "none" /\ pushed[f] = 0
    /\ pushed' = [pushed EXCEPT ![f] = 1]
    /\ UNCHANGED <<row, files, flagged>>

Next == \E f \in Fids : Open(f) \/ Close(f) \/ Picture(f) \/ Flag(f) \/ Push(f)

Spec == Init /\ [][Next]_recordVars

=============================================================================
