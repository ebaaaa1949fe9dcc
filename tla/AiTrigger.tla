----------------------------- MODULE AiTrigger -----------------------------
(***************************************************************************)
(* One camera in camera_ai mode (amcrest/ai_events.py): the ONVIF watcher, *)
(* the window its notifications open (AiCameraState), and the gate that    *)
(* asks it whether a frame is worth an inference (ingest._should_infer).   *)
(*                                                                         *)
(* Time is a clock that ticks; each await of the watcher has a time it     *)
(* ends by, but for a call to a camera that went away in the middle of it: *)
(* no call has a time-out of its own, and such a call may return late, with*)
(* a fault, or never.  The camera may drop a subscription without a word:  *)
(* pulling on it then brings nothing, renewing it fails.  Left out: the    *)
(* topics' and items' spelling.                                            *)
(***************************************************************************)
EXTENDS Naturals, FiniteSets

CONSTANTS
    Topics,        \* topics the camera sends, "" among them: some firmware sends no text
    FireTopics,    \* those of them that match a hint
    Pull,          \* PULL_TIMEOUT_S, in ticks
    Renew,         \* SUBSCRIPTION_RENEW_S
    Cooldown,      \* AI_ACTIVE_COOLDOWN_S
    MaxActive,     \* AI_ACTIVE_MAX_S
    Grace,         \* AI_FAILSAFE_GRACE_S
    BackoffMin,    \* _BACKOFF_MIN_S
    BackoffMax,    \* _BACKOFF_MAX_S
    Stable         \* _STREAM_STABLE_S

VARIABLES
    reachable,     \* the camera answers
    alive,         \* the camera still serves the subscription
    pc,            \* where the watcher is
    left,          \* ticks its await may still take
    hung,          \* the call to the camera that it awaits goes on regardless
    backoff,       \* its next pause
    tried,         \* ticks since this attempt at a connection began
    connected,     \* AiCameraState.connected
    ever,          \* AiCameraState.ever_connected
    since,         \* ticks since last_connected_monotonic
    renewed,       \* ticks since last_renew
    started,       \* AiCameraState.started
    fired,         \* ticks since last_fire_monotonic
    cooling,       \* ticks until active_until
    dead,          \* ticks for which no notification could have come through
    down           \* ticks since the watcher last was connected

watchVars == <<pc, left, hung, backoff, tried, connected, ever, renewed>>
windowVars == <<started, fired, cooling>>
vars == <<reachable, alive, watchVars, since, windowVars, dead, down>>

\* A watcher takes the longest to notice when the subscription dies just after a
\* renewal: it pulls until the next one is due, and that one fails.
Notice == Renew + Pull + 1

\* Ages count up to one past what anything compares them with.
Capped(n, cap) == IF n > cap THEN cap + 1 ELSE n

AgeCap == Notice + Grace

TypeOK ==
    /\ {reachable, alive, hung, connected, ever} \subseteq BOOLEAN
    /\ pc \in {"connecting", "pulling", "renewing", "leaving", "backoff"}
    /\ left \in 0..(Pull + BackoffMax)
    /\ backoff \in BackoffMin..BackoffMax
    /\ tried \in 0..(Stable + 1)
    /\ {since, dead, down} \subseteq 0..(AgeCap + 1)
    /\ renewed \in 0..(Renew + Pull + 1)
    /\ started \subseteq Topics
    /\ fired \in 0..(MaxActive + 1)
    /\ cooling \in 0..Cooldown

Init ==
    /\ reachable \in BOOLEAN
    /\ alive = FALSE
    /\ pc = "connecting"
    /\ left = 1
    /\ hung = FALSE
    /\ backoff = BackoffMin
    /\ tried = 0
    /\ connected = FALSE
    /\ ever = FALSE
    /\ since = AgeCap + 1
    /\ renewed = 0
    /\ started = {}
    /\ fired = MaxActive + 1
    /\ cooling = 0
    /\ dead = 0
    /\ down = AgeCap + 1

-----------------------------------------------------------------------------
(* AiCameraState.                                                          *)

Active == (started # {} /\ fired <= MaxActive) \/ cooling > 0

\* failsafe_needed.  A brief reconnect is told by the age of the connection.
Failsafe == ~connected /\ (~ever \/ since > Grace)

\* ingest._should_infer, camera_ai.
ShouldInfer == Active \/ Failsafe

\* What parse_notification gets out of a notification: the topic, whether there is
\* an IsMotion item, and the first boolean item.  IsMotion is itself one.
Notifications ==
    {n \in [topic : Topics, motion : BOOLEAN, state : {"true", "false", "none"}] :
        n.motion => n.state # "none"}

\* classify_notification.  A boolean alone, of a topic that is no fire topic, is a
\* fault light or a switch.
Classify(n) ==
    IF n.topic \notin FireTopics /\ ~n.motion THEN "none"
    ELSE CASE n.state = "true" -> "start"
           [] n.state = "false" -> "stop"
           [] OTHER -> "pulse"

\* on_fire and on_stop.
Fired(topic, momentary) ==
    /\ started' = IF momentary THEN started ELSE started \cup {topic}
    /\ cooling' = Cooldown
    /\ fired' = 0

Stopped(topic) ==
    /\ started' = started \ {topic}
    /\ cooling' = IF started' = {} THEN Cooldown ELSE cooling
    /\ UNCHANGED fired

\* _handle_notification.
Notified(n) ==
    CASE Classify(n) = "none" -> UNCHANGED windowVars
      [] Classify(n) = "stop" -> Stopped(n.topic)
      [] OTHER -> Fired(n.topic, Classify(n) = "pulse")

-----------------------------------------------------------------------------
(* OnvifAiWatcher._run and _connect_and_pull.                              *)

Go(where, ticks) == pc' = where /\ left' = ticks /\ hung' = FALSE

\* The camera goes away in the middle of a call, and leaves the connection open.
Hang ==
    /\ pc \in {"connecting", "pulling", "renewing", "leaving"}
    /\ ~reachable
    /\ hung' = TRUE
    /\ UNCHANGED <<reachable, alive, pc, left, backoff, tried, connected, ever, renewed, since,
                   windowVars, dead, down>>

\* The camera answers the call.
Answers == reachable /\ alive /\ ~hung
Faults == ~reachable \/ ~alive \/ hung

\* The exception handler: not connected, and a pause that doubles unless the
\* attempt had lasted.
BackOff ==
    LET pause == IF tried > Stable THEN BackoffMin ELSE backoff
    IN  /\ Go("backoff", pause)
        /\ connected' = FALSE
        /\ backoff' = IF 2 * pause < BackoffMax THEN 2 * pause ELSE BackoffMax
        /\ UNCHANGED tried

Connect ==
    /\ pc = "connecting"
    /\ \/ /\ reachable /\ ~hung
          /\ Go("pulling", Pull)
          /\ alive' = TRUE
          /\ connected' = TRUE /\ ever' = TRUE
          /\ since' = 0 /\ down' = 0 /\ dead' = 0 /\ renewed' = 0
          /\ UNCHANGED <<backoff, tried>>
       \/ /\ BackOff
          /\ UNCHANGED <<alive, ever, since, down, dead, renewed>>
    /\ UNCHANGED <<reachable, windowVars>>

\* PullMessages returns: with a notification, with nothing at its timeout, or with
\* a fault.  Then the subscription is renewed if that is due.
AfterPull ==
    IF renewed >= Renew
    THEN Go("renewing", 1)
    ELSE Go("pulling", Pull)

Pulled ==
    /\ pc = "pulling"
    /\ \/ /\ Answers
          /\ \E n \in Notifications : Notified(n)
          /\ AfterPull
       \/ /\ left = 0
          /\ reachable /\ ~hung
          /\ AfterPull
          /\ UNCHANGED windowVars
       \/ /\ Faults
          /\ Go("leaving", 1)
          /\ UNCHANGED windowVars
    /\ connected' = (pc' # "leaving")
    /\ UNCHANGED <<reachable, alive, backoff, tried, ever, since, renewed, dead, down>>

\* A failed renewal ends the loop.
\* Fault: it is swallowed.
FaultRenewFailed == UNCHANGED connected /\ Go("pulling", Pull)
RenewFailed == connected' = FALSE /\ Go("leaving", 1)

Renewed ==
    /\ pc = "renewing"
    /\ \/ /\ Answers
          /\ Go("pulling", Pull)
          /\ renewed' = 0
          /\ UNCHANGED connected
       \/ /\ Faults
          /\ RenewFailed
          /\ renewed' = 0
    /\ UNCHANGED <<reachable, alive, backoff, tried, ever, since, windowVars, dead, down>>

\* The finally clause has unsubscribed, or failed to.
Left ==
    /\ pc = "leaving"
    /\ alive' = FALSE
    /\ BackOff
    /\ UNCHANGED <<reachable, ever, since, renewed, windowVars, dead, down>>

Retry ==
    /\ pc = "backoff"
    /\ left = 0
    /\ Go("connecting", 1)
    /\ tried' = 0
    /\ UNCHANGED <<reachable, alive, backoff, connected, ever, renewed, since, windowVars, dead, down>>

Watcher == Hang \/ Connect \/ Pulled \/ Renewed \/ Left \/ Retry

-----------------------------------------------------------------------------
(* The camera and the clock.                                               *)

\* A notification would come through.
Hears == connected /\ Answers

CameraFails ==
    /\ \/ reachable' = ~reachable /\ UNCHANGED alive
       \/ alive /\ alive' = FALSE /\ UNCHANGED reachable
    /\ UNCHANGED <<watchVars, since, windowVars, down>>
    /\ dead' = IF Hears' THEN 0 ELSE dead

Tick ==
    /\ left > 0 \/ hung
    /\ left' = IF left = 0 THEN 0 ELSE left - 1
    /\ since' = Capped(since + 1, AgeCap)
    /\ renewed' = Capped(renewed + 1, Renew + Pull)
    /\ tried' = Capped(tried + 1, Stable)
    /\ fired' = Capped(fired + 1, MaxActive)
    /\ cooling' = IF cooling = 0 THEN 0 ELSE cooling - 1
    /\ dead' = IF Hears THEN 0 ELSE Capped(dead + 1, AgeCap)
    /\ down' = IF connected THEN 0 ELSE Capped(down + 1, AgeCap)
    /\ UNCHANGED <<reachable, alive, pc, hung, backoff, connected, ever, started>>

Next == Watcher \/ CameraFails \/ Tick

-----------------------------------------------------------------------------
(* Properties.                                                             *)

\* _renew: "Blind is the one outcome this system must never reach."  Whatever the
\* camera does: when no notification could have come through for as long as the watcher
\* may take to notice, and that is past the grace window, every frame is looked at,
\* unless a pull or a renewal hangs.  A hung connection or Unsubscribe is no excuse.
BlindOnlyHung == dead > Notice /\ ~ShouldInfer => hung /\ connected

-----------------------------------------------------------------------------
(* What the source's comments say and TLC finds violated (see the README). *)

\* failsafe_needed: "one whose subscription dropped only BRIEFLY (a normal
\* reconnect) - is trusted, so the gate stays closed".
BriefDropTrusted == ever /\ down <= Grace => ~Failsafe

=============================================================================
