------------------------- MODULE MCEventLifecycle -------------------------
(* EventLifecycle over small instances: cameras, labels and slots are model *)
(* values; keys and slots are interchangeable, so they may be permuted.     *)
EXTENDS EventLifecycle, FiniteSets, TLC

SlotSymmetry == Permutations(Slots)
KeySymmetry == SlotSymmetry \cup Permutations(Labels)

\* Two keys with an event each are followed with one task at a time, up to a
\* first picture or notification, a stop or an administrator: keys meet in the
\* emitters and in housekeeping's scan only.
KeysApart ==
    Cardinality({k \in Keys : made[k] > 0}) > 1 =>
        /\ Cardinality({t \in Slots : task[t] # NoTask}) <= 1
        /\ files = {} /\ hot = {}
        /\ phase = "up" /\ boots = 1 /\ private = {} /\ disabled = {}

\* A key that has its second event has no picture and no notification yet:
\* its two events meet in the emitters, the sensor and housekeeping's scan.
EventsApart ==
    (\E k \in Keys : made[k] > 1) =>
        files = {} /\ hot = {} /\ boots = 1

\* No event is ended while the worker is still reporting it.
Timely == \A f \in Fids : ~LateReport(f)

=============================================================================
