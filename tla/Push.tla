-------------------------------- MODULE Push --------------------------------
(***************************************************************************)
(* Pushing to the registered phones and browsers (notify/apns.py,          *)
(* notify/push.py, routers/notifications.py): an alert is fanned out to    *)
(* the registrations listed when it starts, each sent to on its own, with  *)
(* retries where the relay carries it, and a registration that is said to  *)
(* be dead is deleted.                                                     *)
(*                                                                         *)
(* A phone's alert and VoIP registrations and a browser's subscription are *)
(* three kinds of key with one life.  Left out: what a push says, its      *)
(* encryption, and the log.                                                *)
(***************************************************************************)
EXTENDS Integers

CONSTANTS
    Phones,      \* keys of apns_devices and of voip_devices
    Browsers,    \* endpoints of push_subscriptions
    Alerts       \* the fan-outs

Addresses == Phones \cup Browsers

VARIABLES
    mode,      \* settings.notifications["apns"]["mode"]
    rows,      \* the keys that are in the tables
    alive,     \* the keys at which Apple, or the push service, still delivers
    leg,       \* [Alerts -> [Addresses -> what _send_one is doing]]
    posts,     \* [Alerts -> [Addresses -> POSTs made]]
    refused    \* [Alerts -> the keys its sends were told are dead]

pushVars == <<mode, rows, alive, leg, posts, refused>>

Legs == {"none", "posting", "backoff", "pruning", "ok", "error", "pruned"}

PushTypeOK ==
    /\ mode \in {"off", "relay"}
    /\ rows \subseteq Addresses /\ alive \subseteq Addresses
    /\ leg \in [Alerts -> [Addresses -> Legs]]
    /\ posts \in [Alerts -> [Addresses -> 0..3]]
    /\ refused \in [Alerts -> SUBSET Addresses]

PushInit ==
    LET each(x) == [a \in Alerts |-> [k \in Addresses |-> x]]
    IN  /\ mode = "relay"
        /\ rows \in SUBSET Addresses /\ alive = Addresses
        /\ leg = each("none") /\ posts = each(0)
        /\ refused = [a \in Alerts |-> {}]

-----------------------------------------------------------------------------
(* The tables.                                                             *)

\* An app that starts, or a browser that subscribes: an upsert.
Register(k) ==
    /\ rows' = rows \cup {k} /\ alive' = alive \cup {k}
    /\ UNCHANGED <<mode, leg, posts, refused>>

Unregister(k) ==
    /\ k \in rows
    /\ rows' = rows \ {k}
    /\ UNCHANGED <<mode, alive, leg, posts, refused>>

\* The app is deleted, or the subscription expires.
Expire(k) ==
    /\ k \in alive
    /\ alive' = alive \ {k}
    /\ UNCHANGED <<mode, rows, leg, posts, refused>>

SetMode ==
    /\ mode' \in {"off", "relay"} \ {mode}
    /\ UNCHANGED <<rows, alive, leg, posts, refused>>

-----------------------------------------------------------------------------
(* A fan-out.                                                              *)

Listed == rows \cap (Browsers \cup (IF mode = "relay" THEN Phones ELSE {}))

Begin(a) ==
    /\ \A k \in Addresses : leg[a][k] = "none"
    /\ Listed # {}
    /\ leg' = [leg EXCEPT ![a] = [k \in Addresses |-> IF k \in Listed THEN "posting" ELSE "none"]]
    /\ posts' = [posts EXCEPT ![a] = [k \in Addresses |-> IF k \in Listed THEN 1 ELSE 0]]
    /\ UNCHANGED <<mode, rows, alive, refused>>

\* A browser's push is tried once, a phone's up to _RETRY_ATTEMPTS times.
Attempts(k) == IF k \in Browsers THEN 1 ELSE 3

\* "dead": 410 (404 for a browser), or the relay's 400 bad_device_token.
\* "refused": any other answer below 500.  "failed": a 5xx or no answer.
\* Fault: whatever did not work is taken for a dead key.
FaultDead(answer) == answer \in {"dead", "refused"}
Dead(answer) == answer = "dead"

Final(answer) == answer # "failed"

After(a, k, answer) ==
    IF Final(answer)
    THEN IF Dead(answer) THEN "pruning" ELSE IF answer = "ok" THEN "ok" ELSE "error"
    ELSE IF posts[a][k] < Attempts(k) THEN "backoff" ELSE "error"

Answered(a, k, answer) ==
    /\ leg[a][k] = "posting"
    /\ leg' = [leg EXCEPT ![a][k] = After(a, k, answer)]
    /\ UNCHANGED <<mode, rows, alive, posts>>

\* A delivery may look like a failure: the connection times out, or the tunnel
\* answers 502 for the relay.
Delivered(a, k) ==
    /\ k \in alive
    /\ \E answer \in {"ok", "failed"} : Answered(a, k, answer)
    /\ UNCHANGED refused

Undelivered(a, k, answer) ==
    /\ answer = "dead" => k \notin alive
    /\ Answered(a, k, answer)
    /\ refused' = IF answer = "dead" THEN [refused EXCEPT ![a] = @ \cup {k}] ELSE refused

Retry(a, k) ==
    /\ leg[a][k] = "backoff"
    /\ leg' = [leg EXCEPT ![a][k] = "posting"]
    /\ posts' = [posts EXCEPT ![a][k] = @ + 1]
    /\ UNCHANGED <<mode, rows, alive, refused>>

\* _prune: the row goes by its key, whoever wrote it.
Prune(a, k) ==
    /\ leg[a][k] = "pruning"
    /\ leg' = [leg EXCEPT ![a][k] = "pruned"]
    /\ rows' = rows \ {k}
    /\ UNCHANGED <<mode, alive, posts, refused>>

Leg(a, k) ==
    \/ Delivered(a, k)
    \/ \E answer \in {"dead", "refused", "failed"} : Undelivered(a, k, answer)
    \/ Retry(a, k) \/ Prune(a, k)

PushNext ==
    \/ SetMode
    \/ \E k \in Addresses : Register(k) \/ Unregister(k) \/ Expire(k)
    \/ \E a \in Alerts : Begin(a) \/ \E k \in Addresses : Leg(a, k)

-----------------------------------------------------------------------------
(* Properties.                                                             *)

\* _post_with_retry and _prune: an overloaded relay, a lost answer or a failed
\* network never costs a phone its registration: a key is only deleted by a
\* send that was told it is dead.
PrunedForCause ==
    \A a \in Alerts, k \in Addresses : leg[a][k] \in {"pruning", "pruned"} => k \in refused[a]

=============================================================================
