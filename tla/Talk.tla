-------------------------------- MODULE Talk --------------------------------
(***************************************************************************)
(* Two-way talk with one camera (routers/talk.py): the WebSocket handler   *)
(* of the one talker that has the camera's lock, the queue it fills, and   *)
(* the sender task that plays the queue at the camera, over RTSP           *)
(* (amcrest/backchannel.py) or a postAudio request (AmcrestClient).        *)
(*                                                                         *)
(* Time is counted in the seconds a quiet turn of the handler's loop       *)
(* takes.  Left out: tokens and capabilities, the audio's encoding, and    *)
(* the codes that a WebSocket is closed with.                              *)
(***************************************************************************)
EXTENDS Integers

CONSTANTS
    QueueMax,     \* _QUEUE_MAX
    TalkMax,      \* TALK_MAX_S
    Drain,        \* _DRAIN_TIMEOUT_S
    Teardown      \* what closing the transport may take

VARIABLES
    hush,         \* the camera is in Privacy Mode
    hushed,       \* ticks since it is
    phase,        \* of the handler that has the lock, or "free"
    age,          \* ticks since the session began
    waited,       \* the turn's asyncio.wait has taken its second
    queued, ended,    \* chunks in the queue, and whether the end is in it
    sender,       \* the sender task
    left          \* ticks until the drain, or the teardown, is over

talkVars == <<hush, hushed, phase, age, waited, queued, ended, sender, left>>

TalkTypeOK ==
    /\ {hush, waited, ended} \subseteq BOOLEAN
    /\ hushed \in 0..(Drain + Teardown + 3)
    /\ phase \in {"free", "accepting", "talking", "draining", "closing"}
    /\ age \in 0..(TalkMax + Drain + Teardown + 1)
    /\ queued \in 0..QueueMax
    /\ sender \in {"none", "opening", "streaming", "closing", "done"}
    /\ left \in 0..(Drain + Teardown)

TalkInit ==
    /\ hush = FALSE /\ hushed = 0
    /\ phase = "free" /\ age = 0 /\ waited = FALSE
    /\ queued = 0 /\ ended = FALSE
    /\ sender = "none" /\ left = 0

-----------------------------------------------------------------------------
(* The handler.                                                            *)

\* talk_ws: the privacy check, the locked() check and the acquire are one slice.
Dial ==
    /\ phase = "free" /\ ~hush
    /\ phase' = "accepting"
    /\ UNCHANGED <<hush, hushed, age, waited, queued, ended, sender, left>>

\* signal_end: a full queue loses its oldest chunk to the end.
WithEnd(n) ==
    /\ queued' = IF n = QueueMax THEN n - 1 ELSE n
    /\ ended' = TRUE

Finish(n) ==
    /\ phase' = "draining"
    /\ left' = Drain
    /\ waited' = FALSE
    /\ WithEnd(n)

\* The checks at the top of the loop.  Fault: Privacy Mode is not looked at again.
FaultStops == sender = "done" \/ age >= TalkMax
Stops == sender = "done" \/ hush \/ age >= TalkMax

Turn(n) ==
    IF Stops
    THEN Finish(n)
    ELSE /\ queued' = n
         /\ waited' = FALSE
         /\ UNCHANGED <<phase, ended, left>>

\* The sender is created, and the loop's first checks run before it does.
Accepted ==
    /\ phase = "accepting"
    /\ age' = 0 /\ sender' = "opening"
    /\ IF hush
       THEN Finish(0)
       ELSE /\ phase' = "talking" /\ queued' = 0 /\ ended' = FALSE /\ waited' = FALSE
            /\ UNCHANGED left
    /\ UNCHANGED <<hush, hushed>>

NotAccepted ==
    /\ phase = "accepting"
    /\ phase' = "free"
    /\ UNCHANGED <<hush, hushed, age, waited, queued, ended, sender, left>>

\* The second is over, or the sender ended.
Quiet ==
    /\ phase = "talking"
    /\ waited \/ sender = "done" \/ age >= TalkMax
    /\ Turn(queued)
    /\ UNCHANGED <<hush, hushed, age, sender>>

\* A chunk arrives: one that finds the queue full is dropped.
Chunk ==
    /\ phase = "talking"
    /\ Turn(IF queued < QueueMax THEN queued + 1 ELSE queued)
    /\ UNCHANGED <<hush, hushed, age, sender>>

\* A stop message, or the client is gone.
Hangup ==
    /\ phase = "talking"
    /\ Finish(queued)
    /\ UNCHANGED <<hush, hushed, age, sender>>

\* wait_for(sender) is over: a sender that is still at it is cancelled, and the
\* handler waits until it has closed its transport.
Drained ==
    /\ phase = "draining"
    /\ sender = "done" \/ left = 0
    /\ phase' = "closing"
    /\ sender' = IF sender = "done" THEN "done" ELSE "closing"
    /\ left' = IF sender = "closing" THEN left ELSE Teardown
    /\ UNCHANGED <<hush, hushed, age, waited, queued, ended>>

HungUp ==
    /\ phase = "closing" /\ sender = "done"
    /\ phase' = "free" /\ sender' = "none"
    /\ age' = 0 /\ queued' = 0 /\ ended' = FALSE /\ left' = 0
    /\ UNCHANGED <<hush, hushed, waited>>

-----------------------------------------------------------------------------
(* The sender: talk_stream_backchannel or talk_stream.                     *)

Opened ==
    /\ sender = "opening"
    /\ sender' = "streaming"
    /\ UNCHANGED <<hush, hushed, phase, age, waited, queued, ended, left>>

\* A chunk is written to the camera.
Play ==
    /\ sender = "streaming" /\ queued > 0
    /\ queued' = queued - 1
    /\ UNCHANGED <<hush, hushed, phase, age, waited, ended, sender, left>>

\* The end of the queue, or an error of the transport: it is torn down.
SenderEnds ==
    /\ \/ sender = "streaming" /\ queued = 0 /\ ended
       \/ sender \in {"opening", "streaming"}
    /\ sender' = "closing"
    /\ UNCHANGED <<hush, hushed, phase, age, waited, queued, ended, left>>

Closed ==
    /\ sender = "closing"
    /\ sender' = "done"
    /\ UNCHANGED <<hush, hushed, phase, age, waited, queued, ended, left>>

-----------------------------------------------------------------------------

Privacy ==
    /\ hush' = ~hush /\ hushed' = 0
    /\ UNCHANGED <<phase, age, waited, queued, ended, sender, left>>

\* The event loop runs what is due first.
Second ==
    /\ phase = "talking" => ~waited /\ age < TalkMax
    /\ phase \in {"draining", "closing"} => left > 0
    /\ waited' = (phase = "talking")
    /\ age' = IF phase \in {"free", "accepting"} THEN 0 ELSE age + 1
    /\ left' = IF phase \in {"draining", "closing"} THEN left - 1 ELSE left
    /\ hushed' = IF hush /\ hushed < Drain + Teardown + 3 THEN hushed + 1 ELSE hushed
    /\ UNCHANGED <<hush, phase, queued, ended, sender>>

TalkNext ==
    \/ Dial \/ Accepted \/ NotAccepted \/ Quiet \/ Chunk \/ Hangup \/ Drained \/ HungUp
    \/ Opened \/ Play \/ SenderEnds \/ Closed
    \/ Privacy \/ Second

-----------------------------------------------------------------------------
(* Properties.                                                             *)

\* "a talker keeps speaking out of a camera in a room an admin just marked private":
\* whatever backs up in the queue and however slow the camera, it hears nothing later
\* than a turn of the loop and the drain after that; and no session holds the
\* camera's lock past its limit.
TalkEnds ==
    /\ sender \in {"opening", "streaming"} /\ queued > 0 /\ hush => hushed <= 1 + Drain
    /\ age <= TalkMax + Drain + Teardown

=============================================================================
