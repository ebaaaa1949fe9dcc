----------------------------- MODULE Spotlight -----------------------------
(***************************************************************************)
(* The smart spotlight of one camera (native/spotlight.py): every frame    *)
(* with a person at night restarts the hold that switches it off.  Each    *)
(* call to the camera is a task of its own, so calls may land in any       *)
(* order, late or never.  Cameras do not share any of this.                *)
(***************************************************************************)
EXTENDS Integers

CONSTANTS
    Timers,     \* names for the tasks of _hold_then_off
    Holds,      \* spotlight_hold_seconds
    Dusk        \* the last instant of the model

VARIABLES
    clock,
    armed,      \* the toggle is on, the camera has a white light and it is night
    lit,        \* _on
    until,      \* [Timers -> when its hold ends, -1: not a task, -2: switching off]
    current,    \* _timers[name], or "none"
    turningOn,  \* set_white_light("on") calls under way
    lamp,       \* the light itself
    byHand,     \* an operator switched it on last
    due         \* when the hold of the last person ends

spotVars == <<clock, armed, lit, until, current, turningOn, lamp, byHand, due>>

SpotTypeOK ==
    /\ clock \in 0..Dusk /\ due \in Int
    /\ {armed, lit, lamp, byHand} \subseteq BOOLEAN
    /\ until \in [Timers -> Int]
    /\ current \in Timers \cup {"none"}
    /\ turningOn \in 0..2

SpotInit ==
    /\ clock = 0 /\ due = 0
    /\ armed \in BOOLEAN /\ lamp = FALSE /\ byHand = FALSE
    /\ lit = FALSE
    /\ until = [t \in Timers |-> -1]
    /\ current = "none"
    /\ turningOn = 0

Idle(t) == until[t] = -1
Switching(t) == until[t] = -2

\* _restart_timer cancels the old one, in its sleep or in its call.
\* Fault: the old one is only forgotten.
FaultCancelled == until
Cancelled == IF current = "none" THEN until ELSE [until EXCEPT ![current] = -1]

\* notify_person.
Person(t, hold) ==
    /\ armed /\ Idle(t) /\ turningOn < 2
    /\ lit' = TRUE
    /\ turningOn' = IF lit THEN turningOn ELSE turningOn + 1
    /\ until' = [Cancelled EXCEPT ![t] = clock + hold]
    /\ current' = t
    /\ due' = clock + hold
    /\ UNCHANGED <<clock, armed, lamp, byHand>>

\* The hold is over: a light that is not _on is left alone.
Expire(t) ==
    /\ until[t] >= 0 /\ until[t] <= clock
    /\ until' = [until EXCEPT ![t] = IF lit THEN -2 ELSE -1]
    /\ current' = IF current = t /\ ~lit THEN "none" ELSE current
    /\ lit' = FALSE
    /\ UNCHANGED <<clock, armed, turningOn, lamp, byHand, due>>

\* The camera has switched off, or the call failed.
Off(t) ==
    /\ Switching(t)
    /\ until' = [until EXCEPT ![t] = -1]
    /\ current' = IF current = t THEN "none" ELSE current
    /\ \/ lamp' = FALSE /\ byHand' = FALSE
       \/ UNCHANGED <<lamp, byHand>>
    /\ UNCHANGED <<clock, armed, lit, turningOn, due>>

On ==
    /\ turningOn > 0
    /\ turningOn' = turningOn - 1
    /\ lamp' \in {lamp, TRUE}
    /\ UNCHANGED <<clock, armed, lit, until, current, byHand, due>>

\* sync, reload: the camera is gone from the roster.
Forget ==
    /\ lit' = FALSE
    /\ until' = Cancelled
    /\ current' = "none"
    /\ UNCHANGED <<clock, armed, turningOn, lamp, byHand, due>>

\* POST /{name}/light and PUT /{name}/settings.
Operate(on) ==
    /\ lamp' = on /\ byHand' = on
    /\ UNCHANGED <<clock, armed, lit, until, current, turningOn, due>>

\* Dusk or dawn, or the camera's toggle.
Arm == armed' = ~armed /\ UNCHANGED <<clock, lit, until, current, turningOn, lamp, byHand, due>>

\* A sleep that is over wakes before the clock moves on.
Wait ==
    /\ clock < Dusk
    /\ \A t \in Timers : until[t] < 0 \/ until[t] > clock
    /\ clock' = clock + 1
    /\ UNCHANGED <<armed, lit, until, current, turningOn, lamp, byHand, due>>

SpotNext ==
    \/ \E t \in Timers : Expire(t) \/ Off(t) \/ \E hold \in Holds : Person(t, hold)
    \/ On \/ Forget \/ Arm \/ Wait
    \/ \E on \in BOOLEAN : Operate(on)

-----------------------------------------------------------------------------
(* Properties.                                                             *)

\* "Each new person detection resets the trailing hold", and a light that the
\* controller lit is never forgotten: the light is only told to go off when the
\* hold of the last person is over, and while it is _on a hold is running.
HoldKept ==
    /\ lit => current # "none" /\ until[current] >= 0
    /\ \A t \in Timers : until[t] >= 0 => t = current /\ until[t] = due

-----------------------------------------------------------------------------
(* What the source's comments say and TLC finds violated (see the README). *)

\* "a light the operator switched on manually is never extinguished by an
\* expiring hold".
HandKept == [][\A t \in Timers : Off(t) /\ byHand => lamp']_spotVars

=============================================================================
