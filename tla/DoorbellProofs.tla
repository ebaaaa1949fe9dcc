--------------------------- MODULE DoorbellProofs ---------------------------
(***************************************************************************)
(* What holds of Doorbell for every set of cameras, every bound, and every *)
(* length of cooldown, absence and hold that keeps their order.            *)
(***************************************************************************)
EXTENDS Doorbell, TLAPS

USE ConstantsAssumption

-----------------------------------------------------------------------------
(* The inductive invariant.                                                *)

\* A handler that is at work has its press counted.
Counted == \A c \in Cameras : handler[c] # "idle" => count[c] > 0

\* A supervisor has its camera in _doorbell_recording_cams; a press whose row
\* waits for its supervisor found the camera out of it.
Reserved ==
    /\ \A e \in Presses : Supervising(sup[e]) => CameraOf(e) \in recording
    /\ \A c \in Cameras : handler[c] = "inserting" /\ row[Current(c)] = "open"
                            => c \notin recording

\* The watchers end before anything else does; nothing outlives the process.
Ended ==
    /\ phase # "up" => \A c \in Cameras : handler[c] = "idle"
    /\ phase = "down" => \A e \in Presses : ~Supervising(sup[e])

\* A row whose supervisor has let it stay open in this tick is not at the cap yet.
Young == \A e \in polled : age[e] < MaxHold

VisitInv ==
    /\ TypeOK
    /\ Counted /\ Reserved /\ Ended
    /\ OneVisit
    /\ Young

-----------------------------------------------------------------------------
(* Steps.                                                                  *)

\* The parts of a press.
LEMMA PressParts ==
    /\ \A e \in Presses : CameraOf(e) \in Cameras
    /\ \A c \in Cameras, n \in 1 .. MaxPresses : <<c, n>> \in Presses /\ CameraOf(<<c, n>>) = c
BY DEF Presses, CameraOf

LEMMA VisitInit == Init => VisitInv
<1> SUFFICES ASSUME Init PROVE VisitInv
  OBVIOUS
<1>1. TypeOK
  BY DEF Init, TypeOK, HandlerPcs, SupPcs, SenderPcs
<1> QED
  BY <1>1 DEF Init, VisitInv, Counted, Reserved, Ended, OneVisit, Young, Supervising

\* The press a watcher is at work on is one.
LEMMA CurrentPress ==
    ASSUME VisitInv, NEW c \in Cameras, handler[c] # "idle"
    PROVE  Current(c) \in Presses /\ CameraOf(Current(c)) = c
<1>1. count[c] \in 1 .. MaxPresses
  BY DEF VisitInv, TypeOK, Counted
<1> QED
  BY <1>1, PressParts DEF Current

\* The press handler, up to its senders.
LEMMA VisitHandler ==
    ASSUME VisitInv, NEW c \in Cameras,
           Press(c) \/ Handle(c) \/ HandlerFails(c) \/ WatcherRestart(c)
    PROVE  VisitInv'
<1> USE DEF VisitInv, TypeOK, HandlerPcs, SupPcs, SenderPcs, Goto
<1>1. CASE Press(c)
  <2>1. TypeOK'
    BY <1>1 DEF Press, visitVars, senderVars, outVars, hostVars
  <2>2. Counted' /\ Ended'
    BY <1>1 DEF Press, visitVars, hostVars, Counted, Ended
  <2>3. Reserved'
    <3>1. UNCHANGED <<recording, sup, row>>
      BY <1>1 DEF Press, visitVars
    <3>2. ASSUME NEW d \in Cameras, handler'[d] = "inserting" PROVE handler[d] = "inserting" /\ d # c
      BY <1>1, <3>2 DEF Press
    <3>3. ASSUME NEW d \in Cameras, d # c PROVE count'[d] = count[d]
      BY <1>1, <3>3 DEF Press
    <3> QED
      BY <3>1, <3>2, <3>3 DEF Reserved, Current, Supervising
  <2> QED
    BY <1>1, <2>1, <2>2, <2>3 DEF Press, visitVars, hostVars, OneVisit, Young, Supervising
<1>2. CASE Insert(c)
  <2>0. Current(c) \in Presses /\ CameraOf(Current(c)) = c
    BY <1>2, CurrentPress DEF Insert
  <2>1. TypeOK'
    BY <1>2 DEF Insert, visitVars, senderVars, outVars, hostVars
  <2>2. Reserved'
    <3>1. UNCHANGED <<recording, sup, count>>
      BY <1>2 DEF Insert, visitVars
    <3>2. row'[Current(c)] = "open" => c \notin recording
      BY <1>2, <2>0 DEF Insert, WillRecord
    <3>3. ASSUME NEW d \in Cameras, d # c
          PROVE  handler'[d] = handler[d] /\ row'[Current(d)] = row[Current(d)]
      BY <1>2, <3>3 DEF Insert, Current
    <3> QED
      BY <3>1, <3>2, <3>3 DEF Reserved, Current, Supervising
  <2> QED
    BY <1>2, <2>1, <2>2 DEF Insert, visitVars, senderVars, outVars, hostVars, Counted, Ended,
                 OneVisit, Young, Current, Supervising
<1>3. CASE Spawn(c)
  <2>0. Current(c) \in Presses /\ CameraOf(Current(c)) = c
    BY <1>3, CurrentPress DEF Spawn
  <2>1. TypeOK'
    BY <1>3 DEF Spawn, senderVars, outVars, hostVars
  <2>2. phase = "up"
    BY <1>3 DEF Spawn, Ended
  <2>3. CASE row[Current(c)] = "open"
    <3>1. c \notin recording /\ \A e \in Presses : CameraOf(e) = c => ~Supervising(sup[e])
      BY <1>3, <2>3 DEF Spawn, Reserved
    <3>2. /\ recording' = recording \cup {c}
          /\ sup' = [sup EXCEPT ![Current(c)] = "spawned"]
      BY <1>3, <2>3 DEF Spawn
    <3>3. Reserved'
      BY <1>3, <2>0, <3>1, <3>2, PressParts DEF Spawn, Reserved, Current, Supervising
    <3>4. OneVisit'
      BY <2>0, <3>1, <3>2 DEF OneVisit, Supervising
    <3> QED
      BY <1>3, <2>1, <2>2, <3>3, <3>4 DEF Spawn, Counted, Ended, Young, hostVars
  <2>4. CASE row[Current(c)] # "open"
    <3>1. UNCHANGED <<recording, sup>>
      BY <1>3, <2>4 DEF Spawn
    <3> QED
      BY <1>3, <2>1, <2>2, <3>1 DEF Spawn, Counted, Ended, Reserved, OneVisit, Young, Current, hostVars
  <2> QED
    BY <2>3, <2>4
<1>4. CASE Grab(c) \/ Ring(c) \/ Send(c) \/ Alert(c)
  <2>0. Current(c) \in Presses
    BY <1>4, CurrentPress DEF Grab, Ring, Send, Alert
  <2>1. TypeOK'
    BY <1>4, <2>0 DEF Grab, Ring, Send, Alert, SpawnVoip, visitVars, senderVars, outVars, hostVars
  <2> QED
    BY <1>4, <2>1 DEF Grab, Ring, Send, Alert, visitVars, hostVars, Counted, Reserved, Ended,
                 OneVisit, Young, Current, Supervising
<1>5. CASE HandlerFails(c) \/ WatcherRestart(c)
  BY <1>5 DEF HandlerFails, WatcherRestart, visitVars, senderVars, outVars, hostVars, Counted,
              Reserved, Ended, OneVisit, Young, Current, Supervising
<1> QED
  BY <1>1, <1>2, <1>3, <1>4, <1>5 DEF Handle

\* The end of a supervisor that ran gives its camera back.
LEMMA VisitEnds ==
    ASSUME VisitInv, NEW e \in Presses, Supervising(sup[e]),
           NEW end \in {"marker", "visit"}, NEW pc \in {"leaving", "capped", "closing"},
           Finally(e, end, pc),
           UNCHANGED <<hot, count, handler, age, present, senderVars, outVars, hostVars>>
    PROVE  VisitInv'
<1> USE DEF VisitInv, TypeOK, HandlerPcs, SupPcs, SenderPcs
<1>1. TypeOK'
  BY DEF Finally, senderVars, outVars, hostVars
<1>2. \A d \in Presses : Supervising(sup'[d])
         => Supervising(sup[d]) /\ CameraOf(d) # CameraOf(e)
  BY DEF Finally, OneVisit, Supervising
<1>3. \A d \in Presses : row'[d] = "open" => row[d] = "open"
  BY DEF Finally
<1>4. Reserved'
  <2>1. \A d \in Presses : Supervising(sup'[d]) => CameraOf(d) \in recording'
    BY <1>2 DEF Finally, Reserved
  <2>2. ASSUME NEW c \in Cameras, handler[c] = "inserting", row'[Current(c)] = "open"
        PROVE  c \notin recording'
    BY <1>3, <2>2, CurrentPress DEF Finally, Reserved
  <2> QED
    BY <2>1, <2>2 DEF Reserved, Current
<1> QED
  BY <1>1, <1>2, <1>4 DEF Finally, Counted, Ended, OneVisit, Young, hostVars, Supervising

LEMMA VisitSupervise ==
    ASSUME VisitInv, NEW e \in Presses, Supervise(e) \/ Voip(e) \/ Phone(e)
    PROVE  VisitInv'
<1> USE DEF VisitInv, TypeOK, HandlerPcs, SupPcs, SenderPcs
<1>1. CASE Poll(e) /\ \E end \in {"marker", "visit"}, pc \in {"leaving", "capped", "closing"} :
              Finally(e, end, pc)
  BY <1>1, VisitEnds DEF Poll
<1>2. CASE Poll(e) /\ sup' = [sup EXCEPT ![e] = "watching"] /\ UNCHANGED <<recording, row>>
            /\ seen' = [seen EXCEPT ![e] = LastSeen(e)] /\ polled' = polled \cup {e}
  <2>1. TypeOK'
    BY <1>2 DEF Poll, LastSeen, senderVars, outVars, hostVars
  <2>2. \A d \in Presses : Supervising(sup'[d]) => Supervising(sup[d])
    BY <1>2 DEF Poll, Supervising
  <2>3. age[e] < MaxHold
    BY <1>2 DEF Poll, Capped, Finally
  <2>4. Young'
    BY <1>2, <2>3 DEF Poll, Young
  <2> QED
    BY <1>2, <2>1, <2>2, <2>4 DEF Poll, Counted, Reserved, Ended, OneVisit, Current, hostVars
<1>3. CASE SupDone(e) \/ Voip(e) \/ Phone(e)
  <2>1. TypeOK'
    BY <1>3 DEF SupDone, Voip, Phone, visitVars, senderVars, outVars, hostVars
  <2>2. \A d \in Presses : Supervising(sup'[d]) => Supervising(sup[d])
    BY <1>3 DEF SupDone, Voip, Phone, visitVars, Supervising
  <2> QED
    BY <1>3, <2>1, <2>2 DEF SupDone, Voip, Phone, Counted, Reserved, Ended, OneVisit, Young, Current,
                            visitVars, hostVars
<1> QED
  BY <1>1, <1>2, <1>3 DEF Supervise, Poll

\* Cancelled tasks supervise no more.
LEMMA VisitCancelled ==
    ASSUME VisitInv, TasksEnd
    PROVE  /\ sup' \in [Presses -> SupPcs]
           /\ age' \in [Presses -> 0 .. MaxHold] /\ seen' \in [Presses -> 0 .. MaxHold]
           /\ polled' \subseteq Presses
           /\ voip' \in [Presses -> SenderPcs] /\ phone' \in [Presses -> SenderPcs]
           /\ \A e \in Presses : ~Supervising(sup'[e])
           /\ Young'
BY DEF VisitInv, Young, TypeOK, TasksEnd, SupPcs, SenderPcs, Supervising

LEMMA VisitAdmin ==
    ASSUME VisitInv,
           \/ \E c \in Cameras : PrivacySet(c) \/ Person(c)
           \/ Tick \/ PrivacyShutdown \/ Stop
    PROVE  VisitInv'
<1> USE DEF VisitInv, TypeOK, HandlerPcs, SupPcs, SenderPcs
<1>1. CASE \E c \in Cameras : PrivacySet(c) \/ Person(c)
  BY <1>1 DEF PrivacySet, Person, visitVars, senderVars, outVars, hostVars, Counted, Reserved,
              Ended, OneVisit, Young, Current, Supervising
<1>2. CASE Stop
  BY <1>2 DEF Stop, visitVars, senderVars, outVars, hostVars, Counted, Reserved,
              Ended, OneVisit, Young, Current, Supervising
<1>3. CASE Tick
  <2>1. \A e \in Presses : Supervising(sup[e]) => age[e] < MaxHold
    BY <1>3 DEF Tick, Young
  <2>2. age' \in [Presses -> 0 .. MaxHold]
    BY <1>3, <2>1 DEF Tick
  <2>3. TypeOK'
    BY <1>3, <2>2 DEF Tick, RunDown, senderVars, outVars, hostVars
  <2> QED
    BY <1>3, <2>3 DEF Tick, Counted, Reserved, Ended, OneVisit, Young, Current, Supervising, hostVars
<1>4. CASE PrivacyShutdown
  <2>1. row' \in [Presses -> {"none", "open", "marker", "visit", "swept"}]
    BY <1>4 DEF PrivacyShutdown, CancelTasks
  <2>2. TasksEnd /\ recording' \subseteq recording
    BY <1>4 DEF PrivacyShutdown, CancelTasks
  <2>3. TypeOK'
    BY <1>4, <2>1, <2>2, VisitCancelled DEF PrivacyShutdown, outVars
  <2>4. Reserved'
    <3>1. ASSUME NEW c \in Cameras, handler[c] = "inserting", row'[Current(c)] = "open"
          PROVE  row[Current(c)] = "open"
      BY <1>4, <3>1, CurrentPress DEF PrivacyShutdown, CancelTasks
    <3> QED
      BY <1>4, <2>2, <3>1, VisitCancelled DEF PrivacyShutdown, Reserved, Current
  <2> QED
    BY <1>4, <2>2, <2>3, <2>4, VisitCancelled DEF PrivacyShutdown, Counted, Ended, OneVisit
<1> QED
  BY <1>1, <1>2, <1>3, <1>4

LEMMA VisitHost ==
    ASSUME VisitInv, Down \/ Crash \/ Boot
    PROVE  VisitInv'
<1> USE DEF VisitInv, TypeOK, HandlerPcs, SupPcs, SenderPcs
<1>1. CASE Down \/ Crash
  <2>1. TasksEnd /\ Forget /\ recording' \subseteq recording
    BY <1>1 DEF Down, Crash, CancelTasks
  <2>2. row' \in [Presses -> {"none", "open", "marker", "visit", "swept"}]
    BY <1>1 DEF Down, Crash, CancelTasks
  <2>3. TypeOK'
    BY <2>1, <2>2, VisitCancelled DEF Forget, outVars
  <2> QED
    BY <2>1, <2>3, VisitCancelled DEF Forget, Counted, Reserved, Ended, OneVisit
<1>2. CASE Boot
  <2>1. TypeOK'
    BY <1>2 DEF Boot, Sweep, senderVars, outVars
  <2> QED
    BY <1>2, <2>1 DEF Boot, Counted, Reserved, Ended, OneVisit, Young, Supervising
<1> QED
  BY <1>1, <1>2

LEMMA VisitInvariant == Spec => []VisitInv
<1>1. VisitInv /\ [Next]_vars => VisitInv'
  <2> SUFFICES ASSUME VisitInv, [Next]_vars PROVE VisitInv'
    OBVIOUS
  <2>1. CASE UNCHANGED vars
    BY <2>1 DEF vars, visitVars, senderVars, outVars, hostVars, VisitInv, TypeOK, Counted,
                Reserved, Ended, OneVisit, Young, Current, Supervising
  <2> QED
    BY <2>1, VisitHandler, VisitSupervise, VisitAdmin, VisitHost DEF Next
<1> QED
  BY <1>1, VisitInit, PTL DEF Spec

-----------------------------------------------------------------------------
(* The theorems.                                                           *)

\* Every action keeps the types, cooldowns and ages inside their bounds.
THEOREM TypeCorrect == Spec => []TypeOK
BY VisitInvariant, PTL DEF VisitInv

\* However presses, failures, edits, toggles and crashes interleave, a camera has
\* one recording supervisor at a time: _doorbell_recording_cams is read before the
\* insert is awaited, and written after it.
THEOREM OneVisitAtATime == Spec => []OneVisit
BY VisitInvariant, PTL DEF VisitInv

\* The visit that is still in front of the camera is only closed by its cap.
THEOREM LeavesWhenGone == Spec => NoEarlyLeave
<1>1. ASSUME VisitInv, [Next]_vars, NEW e \in Presses, row[e] = "open", row'[e] = "visit",
             CameraOf(e) \in present
      PROVE  age[e] = MaxHold
  <2>1. PICK d \in Presses : Poll(d) /\ \E pc \in SupPcs : Finally(d, "visit", pc)
    BY <1>1 DEF Next, Handle, Supervise, vars, Press, Insert, Spawn, Grab, Ring, Send, Alert, Voip,
                Phone, HandlerFails, SupDone, Person, Tick, PrivacySet, PrivacyShutdown, CancelTasks,
                WatcherRestart, Stop, Down, Crash, Boot, Sweep, Poll, Finally,
                VisitInv, TypeOK, SupPcs
  <2>2. d = e
    BY <1>1, <2>1 DEF Finally, VisitInv, TypeOK
  <2>3. LastSeen(e) = age[e] /\ age[e] \in 0 .. MaxHold
    BY <1>1 DEF LastSeen, VisitInv, TypeOK
  <2>4. Capped(e) \/ Left(e, age[e])
    BY <1>1, <2>1, <2>2, <2>3 DEF Poll, Finally, VisitInv, TypeOK
  <2> QED
    BY <2>3, <2>4 DEF Capped, Left
<1>2. VisitInv /\ [Next]_vars =>
        [\A e \in Presses : row[e] = "open" /\ row'[e] = "visit" /\ CameraOf(e) \in present
             => age[e] = MaxHold]_vars
  BY <1>1
<1> QED
  BY <1>2, VisitInvariant, PTL DEF Spec, NoEarlyLeave

\* Whatever is toggled, edited, cancelled or fails, the supervisor that ends lets its
\* camera be filmed again, but for one that is cancelled before its first step.
THEOREM FreedWithTheVisit == Spec => CameraFreed
<1>1. ASSUME VisitInv, [Next]_vars, NEW e \in Presses, Supervising(sup[e]), ~Supervising(sup'[e]),
             CameraOf(e) \in recording'
      PROVE  (sup[e] = "spawned" /\ admin = "applying") \/ phase' = "down"
  <2>1. CASE \E d \in Presses : Poll(d)
    <3>1. PICK d \in Presses : Poll(d)
      BY <2>1
    <3>2. d = e /\ CameraOf(d) \notin recording'
      BY <1>1, <3>1 DEF Poll, Finally, Supervising, VisitInv, TypeOK, SupPcs
    <3> QED
      BY <1>1, <3>2
  <2>2. CASE \E d \in Presses : SupDone(d)
    BY <1>1, <2>2 DEF SupDone, Supervising, VisitInv, TypeOK
  <2>3. CASE PrivacyShutdown
    BY <1>1, <2>3 DEF PrivacyShutdown, CancelTasks, Supervising
  <2>4. CASE Down \/ Crash
    BY <2>4 DEF Down, Crash, Forget
  <2>5. CASE \E c \in Cameras : Spawn(c)
    BY <1>1, <2>5 DEF Spawn, Supervising, VisitInv, TypeOK
  <2>6. CASE UNCHANGED sup
    BY <1>1, <2>6
  <2> QED
    BY <1>1, <2>1, <2>2, <2>3, <2>4, <2>5, <2>6 DEF Next, Handle, Supervise, vars, visitVars, Press,
       Insert, Grab, Ring, Send, Alert, Voip, Phone, HandlerFails, Person, Tick, PrivacySet,
       WatcherRestart, Stop, Boot
<1>2. VisitInv /\ [Next]_vars =>
        [\A e \in Presses :
            Supervising(sup[e]) /\ ~Supervising(sup'[e]) /\ CameraOf(e) \in recording' =>
                \/ sup[e] = "spawned" /\ admin = "applying"
                \/ phase' = "down"]_vars
  BY <1>1
<1> QED
  BY <1>2, VisitInvariant, PTL DEF Spec, CameraFreed

\* As long as closing a row does not fail, and neither a toggle nor a camera edit
\* comes between the insert and the supervisor's first step, every open row has
\* its supervisor, through exits, crashes and restarts.
THEOREM OpenRowsSupervised ==
    ~MayToggle /\ ~MayResync /\ ~MayFail /\ Spec => []OpenRowSupervised
<1> SUFFICES ASSUME ~MayToggle, ~MayResync, ~MayFail PROVE Spec => []OpenRowSupervised
  OBVIOUS
<1> DEFINE Inv == OpenRowSupervised /\ admin = "idle"
<1>1. Init => Inv
  BY DEF Init, OpenRowSupervised
<1>2. VisitInv /\ Inv /\ [Next]_vars => Inv'
  <2> SUFFICES ASSUME VisitInv, Inv, [Next]_vars PROVE Inv'
    OBVIOUS
  <2> USE DEF OpenRowSupervised
  <2>1. ASSUME NEW c \in Cameras, handler[c] # "inserting",
               \A d \in Cameras : d # c => handler'[d] = handler[d] /\ count'[d] = count[d],
               UNCHANGED <<sup, row, phase>>
        PROVE  OpenRowSupervised'
    BY <2>1, PressParts DEF Current
  <2>2. CASE \E c \in Cameras : Press(c) \/ HandlerFails(c) \/ Grab(c) \/ Ring(c) \/ Send(c) \/ Alert(c)
    <3>1. PICK c \in Cameras : Press(c) \/ HandlerFails(c) \/ Grab(c) \/ Ring(c) \/ Send(c) \/ Alert(c)
      BY <2>2
    <3>2. handler[c] # "inserting" /\ UNCHANGED <<sup, row, phase, admin>>
      BY <3>1 DEF Press, HandlerFails, Grab, Ring, Send, Alert, visitVars, hostVars
    <3>3. \A d \in Cameras : d # c => handler'[d] = handler[d] /\ count'[d] = count[d]
      BY <3>1 DEF Press, HandlerFails, Grab, Ring, Send, Alert, Goto, VisitInv, TypeOK
    <3> QED
      BY <2>1, <3>2, <3>3
  <2>7. CASE \E c \in Cameras : Person(c) \/ PrivacySet(c) \/ WatcherRestart(c)
    BY <2>7 DEF Person, PrivacySet, WatcherRestart, hostVars, Current
  <2>8. CASE \E c \in Cameras : Insert(c) \/ Spawn(c)
    <3>1. PICK c \in Cameras : Insert(c) \/ Spawn(c)
      BY <2>8
    <3>2. Current(c) \in Presses /\ CameraOf(Current(c)) = c
      BY <3>1, CurrentPress DEF Insert, Spawn
    <3>3. UNCHANGED <<count, phase, admin>> /\ \A d \in Cameras : d # c => handler'[d] = handler[d]
      BY <3>1 DEF Insert, Spawn, Goto, hostVars, VisitInv, TypeOK
    <3>4. \A e \in Presses : e # Current(c) => row'[e] = row[e] /\ sup'[e] = sup[e]
      BY <3>1 DEF Insert, Spawn, visitVars, VisitInv, TypeOK
    <3>5. row'[Current(c)] = "open" =>
             Supervising(sup'[Current(c)]) \/ handler'[c] = "inserting"
      BY <3>1, <3>2 DEF Insert, Spawn, Goto, VisitInv, TypeOK, Supervising
    <3>6. ASSUME NEW e \in Presses, phase = "up", row'[e] = "open"
          PROVE  \/ Supervising(sup'[e])
                 \/ handler'[CameraOf(e)] = "inserting" /\ Current(CameraOf(e)) = e
      BY <3>2, <3>3, <3>4, <3>5, <3>6, PressParts
    <3> QED
      BY <3>3, <3>6 DEF Current
  <2>3. CASE \E e \in Presses : Supervise(e) \/ Voip(e) \/ Phone(e)
    BY <2>3 DEF Supervise, Poll, Finally, SupDone, Voip, Phone, visitVars, hostVars, Current,
                VisitInv, TypeOK, Supervising, SupPcs
  <2>4. CASE Tick \/ PrivacyShutdown \/ Stop \/ Down \/ Crash
    BY <2>4 DEF Tick, PrivacyShutdown, Stop, Down, Crash, Forget, visitVars, hostVars,
                Current
  <2>5. CASE Boot
    BY <2>5 DEF Boot, Sweep, VisitInv, TypeOK
  <2>6. CASE UNCHANGED vars
    BY <2>6 DEF vars, visitVars, hostVars, Current
  <2> QED
    BY <2>2, <2>3, <2>4, <2>5, <2>6, <2>7, <2>8 DEF Next, Handle
<1> QED
  BY <1>1, <1>2, VisitInvariant, PTL DEF Spec

-----------------------------------------------------------------------------
(* A press by itself: how far its handler is, and what that leaves it with. *)

\* The await the handler of a press is at; a press that is yet to come, and one
\* the camera's handler has left.
Stage(e) ==
    IF count[e[1]] = e[2] THEN handler[e[1]]
    ELSE IF count[e[1]] < e[2] THEN "unborn" ELSE "idle"

\* The handler works forwards: what it has still to do for a press is undone.
Forwards(e) ==
    /\ Stage(e) \in {"unborn", "reading"} => row[e] = "none"
    /\ Stage(e) \notin {"unborn", "reading", "idle"} => row[e] # "none"
    /\ Stage(e) \in {"unborn", "reading", "inserting"} => sup[e] = "none"
    /\ Stage(e) \in {"unborn", "reading", "inserting", "grabbing"} => e \notin files
    /\ Stage(e) \in {"unborn", "reading", "inserting", "grabbing", "telling"} => voip[e] = "none"
    /\ Stage(e) \in {"unborn", "reading", "inserting", "grabbing", "telling", "listing"}
          => e \notin pushed
    /\ Stage(e) # "idle" => phone[e] = "none"
    /\ Stage(e) = "pushing" => e \in pushed

\* A press is supervised while its row is open, and its visit ends with the row;
\* a ring is of a row, an alert of a push; nothing is supervised in a dead process.
Backed(e) ==
    /\ Supervising(sup[e]) => row[e] = "open"
    /\ sup[e] \in {"leaving", "capped"} => row[e] \in {"visit", "open"}
    /\ voip[e] # "none" => row[e] # "none"
    /\ phone[e] # "none" => e \in pushed
    /\ phase = "down" => sup[e] \in {"none", "over"}

PressInv == \A e \in Presses : Forwards(e) /\ Backed(e)

LEMMA PressInit == Init => PressInv
BY DEF Init, PressInv, Forwards, Backed, Stage, Presses, Supervising

\* What leaves the counts and the handlers alone leaves every press at its stage.
LEMMA StageKept ==
    ASSUME UNCHANGED <<count, handler>>, NEW e \in Presses
    PROVE  Stage(e)' = Stage(e)
BY DEF Stage

\* A step of a handler moves its camera's current press, and no other.
LEMMA StageMoves ==
    ASSUME VisitInv, NEW c \in Cameras, NEW pc, Goto(c, pc), UNCHANGED count, NEW e \in Presses
    PROVE  /\ e = Current(c) => Stage(e) = handler[c] /\ Stage(e)' = pc
           /\ e # Current(c) => Stage(e)' = Stage(e)
<1>1. ASSUME e = Current(c) PROVE Stage(e) = handler[c] /\ Stage(e)' = pc
  <2>1. e[1] = c /\ e[2] = count[c]
    BY <1>1 DEF Current
  <2> QED
    BY <2>1 DEF Stage, Goto, VisitInv, TypeOK
<1>2. ASSUME e # Current(c) PROVE Stage(e)' = Stage(e)
  <2>1. e[1] # c \/ e[2] # count[c]
    BY <1>2 DEF Presses, Current
  <2> QED
    BY <2>1 DEF Stage, Goto, VisitInv, TypeOK
<1> QED
  BY <1>1, <1>2

\* The handler, from a fresh press to its senders.
LEMMA PressHandler ==
    ASSUME VisitInv, PressInv, NEW c \in Cameras,
           Press(c) \/ Handle(c) \/ HandlerFails(c) \/ WatcherRestart(c)
    PROVE  PressInv'
<1> SUFFICES ASSUME NEW e \in Presses PROVE (Forwards(e) /\ Backed(e))'
  BY DEF PressInv
<1>0. Forwards(e) /\ Backed(e)
  BY DEF PressInv
<1> USE DEF VisitInv, TypeOK
<1>1. CASE Press(c)
  <2>1. UNCHANGED <<sup, voip, phone, row, files, pushed, phase>>
    BY <1>1 DEF Press, visitVars, senderVars, outVars, hostVars
  <2>2. \/ Stage(e)' \in {Stage(e), "idle"}
        \/ Stage(e) = "unborn" /\ Stage(e)' = "reading"
    BY <1>1 DEF Press, Stage, Goto, Presses
  <2> QED
    BY <1>0, <2>1, <2>2 DEF Forwards, Backed, Supervising
<1>2. CASE Handle(c) \/ HandlerFails(c) \/ WatcherRestart(c)
  <2>1. handler[c] # "idle" /\ count' = count /\ phase' = phase
    BY <1>2 DEF Handle, Insert, Spawn, Grab, Ring, Send, Alert, HandlerFails, WatcherRestart, hostVars
  <2>2. Current(c) \in Presses
    BY <2>1, CurrentPress
  <2>3. PICK pc : Goto(c, pc)
    BY <1>2 DEF Handle, Insert, Spawn, Grab, Ring, Send, Alert, HandlerFails, WatcherRestart
  <2>4. /\ e = Current(c) => Stage(e) = handler[c] /\ Stage(e)' = handler'[c]
        /\ e # Current(c) => Stage(e)' = Stage(e)
    BY <2>1, <2>3, StageMoves DEF Goto
  <2>5. CASE e # Current(c)
    <3>1. /\ sup'[e] = sup[e] /\ voip'[e] = voip[e] /\ phone'[e] = phone[e] /\ row'[e] = row[e]
          /\ (e \in files' <=> e \in files) /\ (e \in pushed' <=> e \in pushed)
      BY <1>2, <2>2, <2>5 DEF Handle, Insert, Spawn, Grab, Ring, Send, SpawnVoip, Alert, HandlerFails,
           WatcherRestart, visitVars, senderVars, outVars
    <3> QED
      BY <1>0, <2>1, <2>4, <2>5, <3>1 DEF Forwards, Backed
  <2>6. CASE e = Current(c) /\ (HandlerFails(c) \/ WatcherRestart(c))
    <3>1. UNCHANGED <<sup, voip, phone, row, files, pushed, phase>> /\ handler'[c] = "idle"
      BY <2>6 DEF HandlerFails, WatcherRestart, Goto, visitVars, senderVars, outVars, hostVars
    <3> QED
      BY <1>0, <2>4, <2>6, <3>1 DEF Forwards, Backed
  <2>7. CASE e = Current(c) /\ Insert(c)
    BY <1>0, <2>2, <2>4, <2>7 DEF Insert, Goto, visitVars, senderVars, outVars, hostVars,
         Forwards, Backed, Supervising
  <2>8. CASE e = Current(c) /\ Spawn(c)
    BY <1>0, <2>2, <2>4, <2>8 DEF Spawn, Goto, senderVars, outVars, hostVars, Forwards, Backed,
         Supervising, Ended
  <2>9. CASE e = Current(c) /\ (Grab(c) \/ Ring(c) \/ Send(c) \/ Alert(c))
    BY <1>0, <2>2, <2>4, <2>9 DEF Grab, Ring, Send, SpawnVoip, Alert, Goto, visitVars, senderVars,
         outVars, hostVars, Forwards, Backed, Supervising
  <2> QED
    BY <1>2, <2>5, <2>6, <2>7, <2>8, <2>9 DEF Handle
<1> QED
  BY <1>1, <1>2

\* Supervisors and senders.
LEMMA PressTasks ==
    ASSUME VisitInv, PressInv, NEW x \in Presses, Supervise(x) \/ Voip(x) \/ Phone(x)
    PROVE  PressInv'
<1> SUFFICES ASSUME NEW e \in Presses PROVE (Forwards(e) /\ Backed(e))'
  BY DEF PressInv
<1>0. Forwards(e) /\ Backed(e)
  BY DEF PressInv
<1> USE DEF VisitInv, TypeOK
<1>1. Stage(e)' = Stage(e) /\ UNCHANGED <<files, pushed, phase>>
  BY StageKept DEF Supervise, Poll, Finally, SupDone, Voip, Phone, outVars, hostVars
<1>2. CASE Poll(x)
  <2>1. UNCHANGED <<voip, phone>>
    BY <1>2 DEF Poll, senderVars
  <2>2. CASE e # x
    <3>1. sup'[e] = sup[e] /\ row'[e] = row[e]
      BY <1>2, <2>2 DEF Poll, Finally
    <3> QED
      BY <1>0, <1>1, <2>1, <3>1 DEF Forwards, Backed
  <2>3. CASE e = x
    <3>1. row[e] = "open" /\ sup[e] # "none" /\ phase # "down"
      BY <1>0, <1>2, <2>3 DEF Poll, Supervising, Backed
    <3>2. \/ row'[e] \in {"open", "visit"} /\ sup'[e] \in {"leaving", "capped"}
          \/ row'[e] \in {"open", "marker"} /\ sup'[e] = "closing"
          \/ row'[e] = "open" /\ sup'[e] = "watching"
      BY <1>2, <2>3, <3>1 DEF Poll, Finally
    <3> QED
      BY <1>0, <1>1, <2>1, <3>1, <3>2 DEF Forwards, Backed, Supervising
  <2> QED
    BY <2>2, <2>3
<1>3. CASE SupDone(x) \/ Voip(x) \/ Phone(x)
  <2>1. row' = row
    BY <1>3 DEF SupDone, Voip, Phone
  <2>2. /\ sup'[e] = sup[e] \/ (sup[e] # "none" /\ sup'[e] = "over")
        /\ (voip'[e] = "none" <=> voip[e] = "none")
        /\ (phone'[e] = "none" <=> phone[e] = "none")
    BY <1>3 DEF SupDone, Voip, Phone, visitVars, senderVars
  <2> QED
    BY <1>0, <1>1, <2>1, <2>2 DEF Forwards, Backed, Supervising
<1> QED
  BY <1>2, <1>3 DEF Supervise

\* Of the rows that are held open, a cancellation closes some.
Cut == \E closed \in SUBSET {d \in Presses : sup[d] = "watching"} :
          row' = [d \in Presses |-> IF d \in closed THEN "marker" ELSE row[d]]

LEMMA CancelCuts == CancelTasks => TasksEnd /\ Cut
BY DEF CancelTasks, Cut

LEMMA CrashCuts == ASSUME VisitInv, UNCHANGED row PROVE Cut
<1>1. PICK closed \in SUBSET {d \in Presses : sup[d] = "watching"} : closed = {}
  OBVIOUS
<1>2. row' = [d \in Presses |-> IF d \in closed THEN "marker" ELSE row[d]]
  BY <1>1 DEF VisitInv, TypeOK
<1> QED
  BY <1>2 DEF Cut

\* Cancelled tasks leave their rows and their senders in order.
LEMMA PressCancelled ==
    ASSUME VisitInv, NEW e \in Presses, TasksEnd, Cut
    PROVE  /\ sup'[e] = (IF sup[e] = "none" THEN "none" ELSE "over")
           /\ (voip'[e] = "none" <=> voip[e] = "none")
           /\ (phone'[e] = "none" <=> phone[e] = "none")
           /\ row'[e] = row[e] \/ (sup[e] = "watching" /\ row'[e] = "marker")
BY DEF TasksEnd, Cut

LEMMA PressHost ==
    ASSUME VisitInv, PressInv,
           \/ \E c \in Cameras : PrivacySet(c) \/ Person(c)
           \/ Tick \/ PrivacyShutdown \/ Stop \/ Down \/ Crash \/ Boot
    PROVE  PressInv'
<1> SUFFICES ASSUME NEW e \in Presses PROVE (Forwards(e) /\ Backed(e))'
  BY DEF PressInv
<1>0. Forwards(e) /\ Backed(e)
  BY DEF PressInv
<1> USE DEF VisitInv, TypeOK
<1>1. CASE (\E c \in Cameras : PrivacySet(c) \/ Person(c)) \/ Tick
  <2>1. UNCHANGED <<count, handler, sup, voip, phone, row, files, pushed, phase>>
    BY <1>1 DEF PrivacySet, Person, Tick, visitVars, senderVars, outVars, hostVars
  <2> QED
    BY <1>0, <2>1 DEF Forwards, Backed, Stage
<1>2. CASE Stop
  <2>1. UNCHANGED <<count, sup, voip, phone, row, files, pushed>> /\ phase' # "down"
    BY <1>2 DEF Stop, visitVars, senderVars, outVars
  <2>2. Stage(e)' \in {Stage(e), "idle"}
    BY <1>2, <2>1 DEF Stop, Stage, Presses
  <2> QED
    BY <1>0, <2>1, <2>2 DEF Forwards, Backed
<1>3. CASE PrivacyShutdown
  <2>1. UNCHANGED <<files, pushed, phase>> /\ Stage(e)' = Stage(e)
    BY <1>3, StageKept DEF PrivacyShutdown, outVars
  <2>2. TasksEnd /\ Cut
    BY <1>3, CancelCuts DEF PrivacyShutdown
  <2> QED
    BY <1>0, <2>1, <2>2, PressCancelled DEF Forwards, Backed, Supervising
<1>4. CASE Down \/ Crash
  <2>1. UNCHANGED <<count, files, pushed>> /\ Stage(e)' \in {Stage(e), "idle"} /\ TasksEnd
    BY <1>4 DEF Down, Crash, CancelTasks, Forget, outVars, Stage, Presses
  <2>2. Cut
    BY <1>4, CancelCuts, CrashCuts DEF Down, Crash
  <2> QED
    BY <1>0, <2>1, <2>2, PressCancelled DEF Forwards, Backed, Supervising
<1>5. CASE Boot
  <2>1. /\ UNCHANGED <<sup, voip, phone, files, pushed>> /\ Stage(e)' = Stage(e)
        /\ sup[e] \in {"none", "over"} /\ row'[e] \in {row[e], "swept"}
        /\ (row'[e] = "none" <=> row[e] = "none")
    BY <1>0, <1>5, StageKept DEF Boot, Sweep, senderVars, outVars, Backed
  <2> QED
    BY <1>0, <2>1 DEF Forwards, Backed, Supervising
<1> QED
  BY <1>1, <1>2, <1>3, <1>4, <1>5

LEMMA PressInvariant == Spec => [](VisitInv /\ PressInv)
<1>1. VisitInv /\ PressInv /\ [Next]_vars => PressInv'
  <2> SUFFICES ASSUME VisitInv, PressInv, [Next]_vars PROVE PressInv'
    OBVIOUS
  <2>1. CASE UNCHANGED vars
    BY <2>1 DEF vars, visitVars, senderVars, outVars, hostVars, PressInv, Forwards, Backed, Stage
  <2> QED
    BY <2>1, PressHandler, PressTasks, PressHost DEF Next
<1> QED
  BY <1>1, PressInit, VisitInvariant, PTL DEF Spec

-----------------------------------------------------------------------------
(* The refinement of VisitRecord.                                          *)

\* What the refinement maps to the abstract variables film, rung and alerted.
film == [e \in Presses |-> Filming[sup[e]]]
rung == {e \in Presses : voip[e] = "sent"}
alerted == {e \in Presses : phone[e] = "sent"}

LEMMA FilmingOf ==
    /\ Filming["none"] = "none"
    /\ Filming["spawned"] = "on" /\ Filming["watching"] = "on"
    /\ Filming["leaving"] = "done" /\ Filming["capped"] = "done"
    /\ Filming["closing"] = "over" /\ Filming["over"] = "over"
    /\ \A pc \in SupPcs : /\ (Filming[pc] = "on" <=> Supervising(pc))
                          /\ (Filming[pc] = "done" <=> pc \in {"leaving", "capped"})
BY DEF Filming, Supervising, SupPcs

\* A supervisor that moves moves the film of its press.
LEMMA FilmMoves ==
    ASSUME VisitInv, NEW x \in Presses, NEW pc, sup' = [sup EXCEPT ![x] = pc]
    PROVE  film' = [film EXCEPT ![x] = Filming[pc]]
BY DEF VisitInv, TypeOK, film

LEMMA RecordInit == Init => Visit!Init
BY FilmingOf DEF Init, Visit!Init

\* A handler's step enters the row, films, takes the picture, or pushes.
LEMMA RecordHandler ==
    ASSUME VisitInv, PressInv, NEW c \in Cameras,
           Press(c) \/ Handle(c) \/ HandlerFails(c) \/ WatcherRestart(c)
    PROVE  [Visit!Next]_Visit!visitVars
<1> USE DEF VisitInv, TypeOK
<1>1. CASE Press(c) \/ HandlerFails(c) \/ WatcherRestart(c)
  BY <1>1 DEF Press, HandlerFails, WatcherRestart, visitVars, senderVars, outVars,
              Visit!visitVars, Visit!outVars
<1>2. CASE Handle(c)
  <2>1. handler[c] # "idle" /\ count' = count /\ \E pc : Goto(c, pc)
    BY <1>2 DEF Handle, Insert, Spawn, Grab, Ring, Send, Alert
  <2>2. PICK e \in Presses : e = Current(c) /\ CameraOf(e) = c /\ Stage(e) = handler[c]
    BY <2>1, CurrentPress, StageMoves
  <2>3. Forwards(e)
    BY DEF PressInv
  <2>4. CASE Insert(c)
    <3>1. \E end \in {"open", "marker"} : Visit!Enter(e, end)
      BY <2>2, <2>3, <2>4 DEF Insert, Forwards, visitVars, senderVars, outVars, Visit!Enter,
                              Visit!outVars
    <3> QED
      BY <3>1 DEF Visit!Next
  <2>5. CASE Spawn(c)
    <3>1. UNCHANGED <<row, rung, alerted, files, pushed, clips>>
      BY <2>5 DEF Spawn, senderVars, outVars, rung, alerted
    <3>2. CASE row[e] = "open"
      <4>1. sup' = [sup EXCEPT ![e] = "spawned"] /\ c \notin recording
        BY <2>2, <2>5, <3>2 DEF Spawn, Reserved
      <4>2. film' = [film EXCEPT ![e] = "on"] /\ film[e] = "none"
        BY <2>2, <2>3, <2>5, <4>1, FilmMoves, FilmingOf DEF Spawn, Forwards, Supervising, film
      <4>3. \A d \in Presses : film[d] = "on" => CameraOf(d) # c
        BY <4>1, FilmingOf DEF Reserved, film
      <4>4. Visit!Film(e)
        BY <2>2, <3>1, <3>2, <4>2, <4>3 DEF Visit!Film, Visit!Open, Visit!Filmed, Visit!outVars,
                                            film, rung, alerted
      <4> QED
        BY <4>4 DEF Visit!Next
    <3>3. CASE row[e] # "open"
      <4>1. sup' = sup
        BY <2>2, <2>5, <3>3 DEF Spawn
      <4> QED
        BY <3>1, <4>1 DEF Visit!visitVars, Visit!outVars, rung, alerted
    <3> QED
      BY <3>2, <3>3
  <2>6. CASE Grab(c)
    <3>1. UNCHANGED <<row, sup, voip, phone, pushed, clips>>
      BY <2>6 DEF Grab, visitVars, senderVars
    <3>2. CASE files' = files
      BY <3>1, <3>2 DEF Visit!visitVars, Visit!outVars
    <3>3. CASE files' = files \cup {e}
      <4>1. Visit!Picture(e)
        BY <2>2, <2>3, <2>6, <3>1, <3>3 DEF Grab, Forwards, Visit!Picture
      <4> QED
        BY <4>1 DEF Visit!Next
    <3> QED
      BY <2>2, <2>6, <3>2, <3>3 DEF Grab
  <2>7. CASE Ring(c)
    <3>1. UNCHANGED <<row, sup, phone, files, pushed, clips>>
      BY <2>7 DEF Ring, visitVars, outVars
    <3>2. rung' = rung
      BY <2>2, <2>3, <2>7 DEF Ring, SpawnVoip, Forwards, rung
    <3> QED
      BY <3>1, <3>2 DEF Visit!visitVars, Visit!outVars, rung
  <2>9. CASE Send(c)
    <3>1. UNCHANGED <<row, sup, voip, phone, files, clips>> /\ pushed' = pushed \cup {e}
      BY <2>2, <2>9 DEF Send, visitVars, senderVars
    <3>2. Visit!Push(e)
      BY <2>2, <2>3, <2>9, <3>1 DEF Send, Forwards, Visit!Push
    <3> QED
      BY <3>2 DEF Visit!Next
  <2>8. CASE Alert(c)
    <3>1. UNCHANGED <<row, sup, voip, files, pushed, clips>>
      BY <2>8 DEF Alert, visitVars, outVars
    <3>2. alerted' = alerted
      BY <2>2, <2>3, <2>8 DEF Alert, Forwards, alerted
    <3> QED
      BY <3>1, <3>2 DEF Visit!visitVars, Visit!outVars, alerted
  <2> QED
    BY <1>2, <2>4, <2>5, <2>6, <2>7, <2>8, <2>9 DEF Handle
<1> QED
  BY <1>1, <1>2

\* A supervisor finishes the visit and has its clip cut; senders ring and alert.
LEMMA RecordTasks ==
    ASSUME VisitInv, PressInv, NEW e \in Presses, Supervise(e) \/ Voip(e) \/ Phone(e)
    PROVE  [Visit!Next]_Visit!visitVars
<1> USE DEF VisitInv, TypeOK
<1>0. Backed(e)
  BY DEF PressInv
<1>1. CASE Poll(e)
  <2>1. UNCHANGED <<rung, alerted, files, pushed, clips>>
    BY <1>1 DEF Poll, senderVars, outVars, rung, alerted
  <2>2. row[e] = "open" /\ film[e] = "on"
    BY <1>0, <1>1, FilmingOf DEF Poll, Backed, film
  <2>3. CASE \E end \in {"marker", "visit"}, pc \in {"leaving", "capped", "closing"} :
                Finally(e, end, pc) /\ (end = "visit" <=> pc # "closing")
    <3>1. PICK end \in {"marker", "visit"}, pc \in {"leaving", "capped", "closing"} :
             Finally(e, end, pc) /\ (end = "visit" <=> pc # "closing")
      BY <2>3
    <3>2. film' = [film EXCEPT ![e] = Filming[pc]] /\ row' \in {row, [row EXCEPT ![e] = end]}
      BY <3>1, FilmMoves DEF Finally
    <3>3. Visit!Finish(e, end, Filming[pc])
      BY <2>1, <2>2, <3>2 DEF Visit!Finish, Visit!Open, Visit!outVars, film, rung, alerted
    <3>4. Filming[pc] = (IF end = "visit" THEN "done" ELSE "over")
      BY <3>1, FilmingOf
    <3> QED
      BY <3>3, <3>4 DEF Visit!Next
  <2>4. CASE sup' = [sup EXCEPT ![e] = "watching"] /\ row' = row
    <3>1. film' = film
      BY <2>2, <2>4, FilmMoves, FilmingOf DEF Supervising, film
    <3> QED
      BY <2>1, <2>4, <3>1 DEF Visit!visitVars, Visit!outVars, film, rung, alerted
  <2> QED
    BY <1>1, <2>3, <2>4 DEF Poll
<1>2. CASE SupDone(e)
  <2>1. UNCHANGED <<row, rung, alerted, files, pushed>>
    BY <1>2 DEF SupDone, senderVars, rung, alerted
  <2>2. film' = [film EXCEPT ![e] = "over"]
    <3>1. sup' = [sup EXCEPT ![e] = "over"]
      BY <1>2 DEF SupDone
    <3>2. film' = [film EXCEPT ![e] = Filming["over"]]
      BY <3>1, FilmMoves
    <3> QED
      BY <3>2, FilmingOf
  <2>3. CASE sup[e] = "closing"
    <3>1. film' = film /\ clips' = clips
      BY <1>2, <2>2, <2>3, FilmingOf DEF SupDone, Clippable, film
    <3> QED
      BY <2>1, <3>1 DEF Visit!visitVars, Visit!outVars, film, rung, alerted
  <2>4. CASE sup[e] \in {"leaving", "capped"} /\ clips' = clips \cup {e}
    <3>1. Visit!Clip(e)
      BY <1>0, <2>1, <2>2, <2>4, FilmingOf DEF Backed, Visit!Clip, film, rung, alerted
    <3> QED
      BY <3>1 DEF Visit!Next
  <2>5. CASE sup[e] \in {"leaving", "capped"} /\ clips' = clips
    <3>1. e \in Visit!Unfinished
      BY <2>5, FilmingOf DEF Visit!Unfinished
    <3>2. Visit!Interrupt({e}, {})
      BY <2>1, <2>2, <2>5 DEF Visit!Interrupt, Visit!outVars, film, rung, alerted
    <3>3. {e} \in (SUBSET Visit!Unfinished) \ {{}}
      BY <3>1
    <3>4. \E cut \in (SUBSET Visit!Unfinished) \ {{}} :
             \E closed \in SUBSET {d \in cut \cap Visit!Filmed : Visit!Open(d)} :
                Visit!Interrupt(cut, closed)
      BY <3>2, <3>3
    <3> QED
      BY <3>4 DEF Visit!Next
  <2> QED
    BY <1>2, <2>3, <2>4, <2>5 DEF SupDone
<1>3. CASE Voip(e)
  <2>1. UNCHANGED <<row, sup, phone, files, pushed, clips>>
    BY <1>3 DEF Voip, visitVars, outVars
  <2>2. rung' = rung \cup {e} /\ e \notin rung
    BY <1>3 DEF Voip, rung
  <2>3. Visit!Ring(e)
    BY <1>0, <1>3, <2>1, <2>2 DEF Voip, Backed, Visit!Ring, rung
  <2> QED
    BY <2>3 DEF Visit!Next
<1>4. CASE Phone(e)
  <2>1. UNCHANGED <<row, sup, voip, files, pushed, clips>>
    BY <1>4 DEF Phone, visitVars, outVars
  <2>2. alerted' = alerted \cup {e} /\ e \notin alerted
    BY <1>4 DEF Phone, alerted
  <2>3. Visit!Alert(e)
    BY <1>0, <1>4, <2>1, <2>2 DEF Phone, Backed, Visit!Alert, alerted
  <2> QED
    BY <2>3 DEF Visit!Next
<1> QED
  BY <1>1, <1>2, <1>3, <1>4 DEF Supervise

\* Tasks that are cancelled, or die, are an interruption; a boot sweeps.
LEMMA RecordHost ==
    ASSUME VisitInv, PressInv,
           \/ \E c \in Cameras : PrivacySet(c) \/ Person(c)
           \/ Tick \/ PrivacyShutdown \/ Stop \/ Down \/ Crash \/ Boot
    PROVE  [Visit!Next]_Visit!visitVars
<1> USE DEF VisitInv, TypeOK
<1>1. CASE (\E c \in Cameras : PrivacySet(c) \/ Person(c)) \/ Tick \/ Stop
  BY <1>1 DEF PrivacySet, Person, Tick, Stop, visitVars, senderVars, outVars,
              Visit!visitVars, Visit!outVars
<1>2. CASE PrivacyShutdown \/ Down \/ Crash
  <2>1. TasksEnd /\ UNCHANGED <<files, pushed, clips>>
    BY <1>2 DEF PrivacyShutdown, Down, Crash, CancelTasks, Forget, outVars
  <2>2. Cut
    BY <1>2, CancelCuts, CrashCuts DEF PrivacyShutdown, Down, Crash
  <2>3. rung' = rung /\ alerted' = alerted
    BY <2>1 DEF TasksEnd, rung, alerted
  <2>a. PICK cut : cut = {d \in Presses : sup[d] \in {"spawned", "watching", "leaving", "capped"}}
    OBVIOUS
  <2>b. PICK closed \in SUBSET {d \in Presses : sup[d] = "watching"} :
           row' = [d \in Presses |-> IF d \in closed THEN "marker" ELSE row[d]]
    BY <2>2 DEF Cut
  <2>4. cut = Visit!Unfinished
    BY <2>a, FilmingOf DEF Visit!Unfinished, Visit!Filmed, Supervising
  <2>5. film' = [d \in Presses |-> IF d \in cut THEN "over" ELSE film[d]]
    <3>1. \A d \in Presses : film'[d] = IF d \in cut THEN "over" ELSE film[d]
      BY <2>1, <2>a, FilmingOf DEF TasksEnd, SupPcs, film
    <3> QED
      BY <3>1 DEF film
  <2>6. row' = [d \in Presses |-> IF d \in closed THEN "marker" ELSE row[d]]
    BY <2>b
  <2>7. closed \in SUBSET {d \in cut \cap Visit!Filmed : Visit!Open(d)}
    BY <2>a, <2>b, FilmingOf DEF PressInv, Backed, Visit!Filmed, Visit!Open, Supervising
  <2>8. Visit!Interrupt(cut, closed)
    BY <2>1, <2>3, <2>5, <2>6 DEF Visit!Interrupt, Visit!outVars, film, rung, alerted
  <2>9. CASE cut # {}
    <3>1. cut \in (SUBSET Visit!Unfinished) \ {{}}
      BY <2>4, <2>9
    <3>2. \E ended \in SUBSET {d \in cut \cap Visit!Filmed : Visit!Open(d)} :
             Visit!Interrupt(cut, ended)
      BY <2>7, <2>8
    <3> QED
      BY <3>1, <3>2 DEF Visit!Next
  <2>10. CASE cut = {}
    <3>1. film' = film
      BY <2>5, <2>10 DEF film
    <3>2. row' = row
      BY <2>6, <2>7, <2>10
    <3> QED
      BY <2>1, <2>3, <3>1, <3>2 DEF Visit!visitVars, Visit!outVars, film, rung, alerted
  <2> QED
    BY <2>9, <2>10
<1>3. CASE Boot
  <2>1. UNCHANGED <<sup, voip, phone, files, pushed, clips>>
    BY <1>3 DEF Boot, senderVars, outVars
  <2>2. Visit!Unfinished = {}
    BY <1>3, FilmingOf DEF Boot, PressInv, Backed, Visit!Unfinished, Visit!Filmed
  <2>3. CASE \E e \in Presses : row[e] = "open"
    <3>1. Visit!Sweep
      BY <1>3, <2>1, <2>2, <2>3 DEF Boot, Sweep, Visit!Sweep, Visit!Open, Visit!outVars
    <3> QED
      BY <3>1 DEF Visit!Next
  <2>4. CASE ~\E e \in Presses : row[e] = "open"
    <3>1. row' = row
      BY <1>3, <2>4 DEF Boot, Sweep
    <3> QED
      BY <2>1, <3>1 DEF Visit!visitVars, Visit!outVars
  <2> QED
    BY <2>3, <2>4
<1> QED
  BY <1>1, <1>2, <1>3

\* However presses, supervisors, senders, toggles, camera edits, failures, exits and
\* crashes interleave, what becomes of a press is what VisitRecord allows.
THEOREM VisitImplemented == Spec => ImplementsVisit
<1>1. Init => Visit!Init
  BY RecordInit
<1>2. VisitInv /\ PressInv /\ [Next]_vars => [Visit!Next]_Visit!visitVars
  <2> SUFFICES ASSUME VisitInv, PressInv, [Next]_vars PROVE [Visit!Next]_Visit!visitVars
    OBVIOUS
  <2>1. CASE UNCHANGED vars
    BY <2>1 DEF vars, visitVars, senderVars, outVars, Visit!visitVars, Visit!outVars
  <2> QED
    BY <2>1, RecordHandler, RecordTasks, RecordHost DEF Next
<1> QED
  BY <1>1, <1>2, PressInvariant, PTL DEF Spec, ImplementsVisit, Visit!Spec

=============================================================================
