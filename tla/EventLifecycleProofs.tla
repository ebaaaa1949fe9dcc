------------------------ MODULE EventLifecycleProofs ------------------------
(***************************************************************************)
(* What holds of EventLifecycle for every set of cameras, labels and       *)
(* slots, every bound, and every combination of the May... switches.       *)
(***************************************************************************)
EXTENDS EventLifecycle, TLAPS

USE ConstantsAssumption

-----------------------------------------------------------------------------
(* Type correctness.                                                       *)

Emission == [pc : EmitPcs, f : Fids, found : BOOLEAN]
Job == [pc : TaskPcs, f : Fids, final : BOOLEAN]
Entry == [notified : BOOLEAN, snapped : BOOLEAN, enriching : BOOLEAN]

\* There is an event id, so the placeholders of idle emitters and free slots
\* are well typed.
LEMMA Placeholders ==
    /\ NoEmit \in Emission /\ NoTask \in Job /\ FreshState \in Entry
    /\ NoScan \in [n : 0 .. MaxEvents, silent : BOOLEAN]
<1>1. PICK c \in Cameras, l \in Labels : TRUE
  OBVIOUS
<1>2. <<<<c, l>>, 1>> \in Fids
  BY <1>1 DEF Fids, Keys, Numbers
<1>3. (CHOOSE f \in Fids : TRUE) \in Fids
  BY <1>2
<1> QED
  BY <1>3 DEF NoEmit, NoTask, FreshState, NoScan, Emission, Job, Entry, EmitPcs, TaskPcs

\* The parts of an event id.
LEMMA FidParts ==
    ASSUME NEW f \in Fids
    PROVE  /\ KeyOf(f) \in Keys /\ CameraOf(f) \in Cameras
           /\ f[1] \in Keys /\ f[2] \in Numbers /\ f = <<f[1], f[2]>>
BY DEF Fids, Keys, KeyOf, CameraOf

LEMMA TypeInit == Init => TypeOK
BY Placeholders DEF Init, TypeOK, Emission, Job, Entry, Fids, Keys, Numbers, EmitPcs, TaskPcs

LEMMA TypeGoto ==
    ASSUME TypeOK, NEW p \in Emitters, NEW f \in Fids, NEW pc \in EmitPcs,
           NEW found \in BOOLEAN, Goto(p, pc, f, found)
    PROVE  emit' \in [Emitters -> Emission]
<1>1. [pc |-> pc, f |-> f, found |-> found] \in Emission
  BY DEF Emission
<1>2. emit \in [Emitters -> Emission]
  BY DEF TypeOK, Emission
<1> QED
  BY <1>1, <1>2 DEF Goto

\* HandleNew, HandleUpdate and HandleEnd keep the types of what they write.
LEMMA TypeHandleUpdate ==
    ASSUME TypeOK, NEW p \in Emitters, NEW f \in Fids,
           HandleUpdate(p, f) \/ HandleNew(p, f)
    PROVE  emit' \in [Emitters -> Emission]
<1>1. CASE UNCHANGED emit
  BY <1>1 DEF TypeOK, Emission
<1>2. CASE Goto(p, "new_read", f, row[f] # "none")
  BY <1>2, TypeGoto DEF EmitPcs
<1>3. CASE Goto(p, "updated", f, TRUE)
  BY <1>3, TypeGoto DEF EmitPcs
<1> QED
  BY <1>1, <1>2, <1>3 DEF HandleUpdate, HandleNew

LEMMA TypeHandleEnd ==
    ASSUME TypeOK, NEW p \in Emitters, NEW f \in Fids, HandleEnd(p, f)
    PROVE  /\ emit' \in [Emitters -> Emission]
           /\ active' \subseteq Fids /\ clips' \subseteq Fids
           /\ row' \in [Fids -> {"none", "open", "closed"}]
<1>c. CloseRow(f) => row' \in [Fids -> {"none", "open", "closed"}]
  BY DEF CloseRow, TypeOK
<1>1. CASE IsPrivate(f)
  BY <1>1 DEF HandleEnd, ScheduleClip, TypeOK, Emission
<1>2. CASE ~IsPrivate(f) /\ f \in active
  <2>1. Goto(p, "end_closed", f, TRUE)
    BY <1>2 DEF HandleEnd
  <2> QED
    BY <1>c, <1>2, <2>1, TypeGoto DEF HandleEnd, EmitPcs, TypeOK
<1>3. CASE ~IsPrivate(f) /\ f \notin active
  <2>1. Goto(p, "end_lookup", f, row[f] # "none")
    BY <1>3 DEF HandleEnd
  <2> QED
    BY <1>3, <2>1, TypeGoto DEF HandleEnd, EmitPcs, TypeOK
<1> QED
  BY <1>1, <1>2, <1>3

\* One action of the engine.
LEMMA TypeEngine ==
    ASSUME TypeOK, NEW k \in Keys,
           \/ Appear(k) \/ Sighting(k) \/ FallSilent(k) \/ WorkerEnd(k)
           \/ HousekeepingCycle(k) \/ HousekeepingVisit(k) \/ StopEnd(k)
    PROVE  TypeOK'
<1> DEFINE f == <<k, open[k]>>
<1> USE DEF engineVars, storeVars, outVars, notifyVars, hostVars
<1>e. open[k] # 0 => f \in Fids
  BY DEF TypeOK, Fids, Numbers
<1>w. "worker" \in Emitters /\ "housekeeping" \in Emitters
  BY DEF Emitters
<1>1. CASE Appear(k)
  <2>1. <<k, made[k] + 1>> \in Fids /\ made[k] + 1 \in 0 .. MaxEvents
    BY <1>1 DEF Appear, Fids, Numbers
  <2>2. emit' \in [Emitters -> Emission]
    BY <1>1, <1>w, <2>1, TypeHandleUpdate DEF Appear
  <2> QED
    BY <1>1, <2>1, <2>2 DEF Appear, TypeOK, Emission
<1>2. CASE Sighting(k)
  <2>1. emit' \in [Emitters -> Emission]
    BY <1>2, <1>e, <1>w, TypeHandleUpdate DEF Sighting, TypeOK, Emission
  <2> QED
    BY <1>2, <2>1 DEF Sighting, TypeOK, Emission
<1>3. CASE FallSilent(k)
  BY <1>3 DEF FallSilent, TypeOK
<1>4. ASSUME NEW p \in Emitters, open[k] # 0, EndEvent(p, k)
      PROVE  /\ emit' \in [Emitters -> Emission]
             /\ active' \subseteq Fids /\ clips' \subseteq Fids
             /\ row' \in [Fids -> {"none", "open", "closed"}]
             /\ open' \in [Keys -> 0 .. MaxEvents]
  BY <1>4, <1>e, TypeHandleEnd DEF EndEvent, TypeOK
<1>5. CASE WorkerEnd(k)
  BY <1>5, <1>w, <1>4 DEF WorkerEnd, TypeOK, Emission
<1>6. CASE HousekeepingCycle(k)
  <2>1. scan' \in [Keys -> [n : 0 .. MaxEvents, silent : BOOLEAN]]
    BY <1>6, Placeholders DEF HousekeepingCycle, TypeOK
  <2> QED
    BY <1>6, <1>w, <1>4, <2>1 DEF HousekeepingCycle, TypeOK, Emission
<1>7. CASE HousekeepingVisit(k)
  <2>1. scan' \in [Keys -> [n : 0 .. MaxEvents, silent : BOOLEAN]]
    BY <1>7, Placeholders DEF HousekeepingVisit, TypeOK
  <2>2. CASE Due(k) /\ open[k] # 0
    BY <1>7, <1>w, <1>4, <2>1, <2>2 DEF HousekeepingVisit, TypeOK, Emission
  <2>3. CASE ~(Due(k) /\ open[k] # 0)
    BY <1>7, <2>1, <2>3 DEF HousekeepingVisit, TypeOK
  <2> QED
    BY <2>2, <2>3
<1>8. CASE StopEnd(k)
  BY <1>8, <1>w, <1>4 DEF StopEnd, TypeOK, Emission
<1> QED
  BY <1>1, <1>2, <1>3, <1>5, <1>6, <1>7, <1>8

\* A new task is a task.
LEMMA TypeSpawn ==
    ASSUME TypeOK, NEW f \in Fids, NEW final \in BOOLEAN, Spawn(f, final)
    PROVE  task' \in [Slots -> Job]
BY DEF TypeOK, Spawn, Job, TaskPcs

\* One action of a handler.
LEMMA TypeHandler ==
    ASSUME TypeOK, NEW p \in Emitters, Handler(p)
    PROVE  TypeOK'
<1> DEFINE f == emit[p].f
<1> USE DEF engineVars, storeVars, outVars, notifyVars, hostVars
<1>f. f \in Fids /\ KeyOf(f) \in Keys
  BY FidParts DEF TypeOK
<1>r. Return(p) => emit' \in [Emitters -> Emission]
  BY Placeholders DEF Return, TypeOK, Emission
<1>m. \A pc \in EmitPcs : Resume(p, pc) => emit' \in [Emitters -> Emission]
  <2>1. emit \in [Emitters -> Emission]
    BY DEF TypeOK, Emission
  <2>2. \A pc \in EmitPcs : [emit[p] EXCEPT !.pc = pc] \in Emission
    BY <2>1 DEF Emission
  <2> QED
    BY <2>1, <2>2 DEF Resume
<1>c. CloseRow(f) => row' \in [Fids -> {"none", "open", "closed"}]
  BY <1>f DEF CloseRow, TypeOK
<1>1. CASE NewInsert(p)
  BY <1>1, <1>f, <1>m DEF NewInsert, TypeOK, EmitPcs, Emission
<1>2. CASE NewTrack(p)
  BY <1>2, <1>f, <1>m, Placeholders DEF NewTrack, TypeOK, EmitPcs, Emission, Entry
<1>3. CASE NewDone(p)
  BY <1>3, <1>f, <1>r, TypeSpawn DEF NewDone, TypeOK, Emission, Job
<1>4. CASE UpdateDone(p)
  <2>1. task' \in [Slots -> Job]
    BY <1>4, <1>f, TypeSpawn DEF UpdateDone, TypeOK, Job
  <2> QED
    BY <1>4, <1>f, <1>r, <2>1 DEF UpdateDone, TypeOK, Emission, Job
<1>5. CASE EndLookup(p)
  <2>1. CASE emit[p].found
    <3>1. emit \in [Emitters -> Emission]
      BY DEF TypeOK, Emission
    <3>2. [emit[p] EXCEPT !.pc = "end_closed", !.found = FALSE] \in Emission
      BY <3>1 DEF EmitPcs, Emission
    <3>3. emit' \in [Emitters -> Emission]
      BY <1>5, <2>1, <3>1, <3>2 DEF EndLookup
    <3> QED
      BY <1>5, <1>f, <1>c, <2>1, <3>3 DEF EndLookup, TypeOK, Emission
  <2>2. CASE ~emit[p].found
    BY <1>5, <1>f, <1>r, <2>2 DEF EndLookup, ScheduleClip, TypeOK, Emission
  <2> QED
    BY <2>1, <2>2
<1>6. CASE EndFinal(p)
  <2>1. task' \in [Slots -> Job] /\ active' \subseteq Fids
    BY <1>6, <1>f, TypeSpawn DEF EndFinal, TypeOK, Job
  <2> QED
    BY <1>6, <1>m, <2>1 DEF EndFinal, TypeOK, EmitPcs, Emission, Job
<1>7. CASE EndDone(p)
  BY <1>7, <1>f, <1>r DEF EndDone, ScheduleClip, TypeOK, Emission
<1>8. CASE Publish(p)
  <2>1. emit' \in [Emitters -> Emission]
    BY <1>8, <1>m DEF Publish, EmitPcs
  <2>2. sensor' \in [Keys -> BOOLEAN]
    BY <1>8, <1>f DEF Publish, SensorOff, TypeOK
  <2> QED
    BY <1>8, <2>1, <2>2 DEF Publish, TypeOK, Emission
<1> QED
  BY <1>1, <1>2, <1>3, <1>4, <1>5, <1>6, <1>7, <1>8 DEF Handler

\* One action of a task.
LEMMA TypeTask ==
    ASSUME TypeOK, NEW t \in Slots, Enrich(t) \/ EnrichFail(t)
    PROVE  TypeOK'
<1> DEFINE f == task[t].f
<1> USE DEF engineVars, storeVars, outVars, notifyVars, hostVars
<1>f. f \in Fids /\ KeyOf(f) \in Keys
  BY FidParts DEF TypeOK
<1>a. ASSUME NEW pc \in TaskPcs, Advance(t, pc) PROVE task' \in [Slots -> Job]
  BY <1>a DEF Advance, TypeOK, Job
<1>u. ASSUME NEW s \in Entry PROVE [state EXCEPT ![f] = s] \in [Fids -> Entry]
  BY <1>f DEF TypeOK, Entry
<1>v. ASSUME NEW b \in BOOLEAN
      PROVE  [state EXCEPT ![f].enriching = b] \in [Fids -> Entry]
  BY <1>f DEF TypeOK, Entry
<1>l. Leave(t) => task' \in [Slots -> Job] /\ active' \subseteq Fids
  BY Placeholders DEF Leave, TypeOK, Job
<1>d. ASSUME NEW s \in Entry, Decide(t, s)
      PROVE  /\ state' \in [Fids -> Entry] /\ hot' \subseteq Keys
             /\ task' \in [Slots -> Job] /\ active' \subseteq Fids
  <2>1. CASE /\ state' = [state EXCEPT ![f] = [s EXCEPT !.notified = TRUE]]
             /\ hot' = hot \cup {KeyOf(f)} /\ Advance(t, "naming") /\ UNCHANGED active
    <3>1. [s EXCEPT !.notified = TRUE] \in Entry /\ "naming" \in TaskPcs
      BY DEF Entry, TaskPcs
    <3> QED
      BY <1>f, <1>a, <1>u, <2>1, <3>1 DEF TypeOK
  <2>2. CASE /\ state' = [state EXCEPT ![f] = [s EXCEPT !.enriching = FALSE]]
             /\ Leave(t) /\ UNCHANGED hot
    <3>1. [s EXCEPT !.enriching = FALSE] \in Entry
      BY DEF Entry
    <3> QED
      BY <1>l, <1>u, <2>2, <3>1 DEF TypeOK
  <2> QED
    BY <1>d, <2>1, <2>2 DEF Decide, CooldownKey
<1>s. state[f] \in Entry /\ [state[f] EXCEPT !.enriching = TRUE] \in Entry
  <2>1. state[f] \in Entry
    BY <1>f DEF TypeOK, Entry
  <2>2. \A s \in Entry : [s EXCEPT !.enriching = TRUE] \in Entry
    BY DEF Entry
  <2> QED
    BY <2>1, <2>2
<1>1. CASE EnrichStart(t)
  <2>1. /\ state' \in [Fids -> Entry] /\ hot' \subseteq Keys
        /\ task' \in [Slots -> Job] /\ active' \subseteq Fids
    <3>1. CASE Busy(f)
      BY <1>1, <1>l, <3>1 DEF EnrichStart, TypeOK, Entry
    <3>2. CASE ~Busy(f) /\ IsPrivate(f)
      BY <1>1, <1>d, <1>s, <3>2 DEF EnrichStart
    <3>3. CASE ~Busy(f) /\ ~IsPrivate(f)
      <4>1. Advance(t, "snapshot") /\ "snapshot" \in TaskPcs
        BY <1>1, <3>3 DEF EnrichStart, TaskPcs
      <4> QED
        BY <1>1, <1>a, <1>v, <3>3, <4>1 DEF EnrichStart, TypeOK
    <3> QED
      BY <3>1, <3>2, <3>3
  <2> QED
    BY <1>1, <2>1 DEF EnrichStart, TypeOK, Entry, Job
<1>2. CASE EnrichSnapshot(t)
  <2>1. /\ state' \in [Fids -> Entry] /\ hot' \subseteq Keys
        /\ task' \in [Slots -> Job] /\ active' \subseteq Fids
    <3>1. CASE Advance(t, "annotate") /\ UNCHANGED <<active, state, hot>>
      <4>1. "annotate" \in TaskPcs
        BY DEF TaskPcs
      <4> QED
        BY <1>a, <3>1, <4>1 DEF TypeOK, Entry
    <3>2. CASE Decide(t, state[f])
      BY <1>d, <1>s, <3>2
    <3> QED
      BY <1>2, <3>1, <3>2 DEF EnrichSnapshot
  <2> QED
    BY <1>2, <2>1 DEF EnrichSnapshot, TypeOK, Entry, Job
<1>3. CASE EnrichWrite(t)
  BY <1>3, <1>a, <1>f DEF EnrichWrite, TypeOK, TaskPcs, Job
<1>4. CASE EnrichMark(t)
  BY <1>4, <1>a, <1>f DEF EnrichMark, TypeOK, TaskPcs, Job
<1>5. CASE EnrichDecide(t)
  BY <1>5, <1>d, <1>s DEF EnrichDecide, TypeOK, Entry, Job
<1>6. CASE EnrichPush(t)
  <2>1. Advance(t, "pushing") /\ "pushing" \in TaskPcs
    BY <1>6 DEF EnrichPush, TaskPcs
  <2>2. pushed' \in [Fids -> Nat]
    BY <1>6, <1>f DEF EnrichPush, TypeOK
  <2> QED
    BY <1>6, <1>a, <2>1, <2>2 DEF EnrichPush, TypeOK, Job
<1>10. CASE EnrichGate(t)
  <2>1. CASE Withheld(f)
    BY <1>10, <1>l, <1>v, <2>1 DEF EnrichGate, TypeOK, Entry, Job
  <2>2. CASE ~Withheld(f)
    BY <1>10, <1>a, <2>2 DEF EnrichGate, TypeOK, TaskPcs, Job
  <2> QED
    BY <2>1, <2>2
<1>7. CASE EnrichHandOver(t)
  BY <1>7, <1>f DEF EnrichHandOver, TypeOK, TaskPcs
<1>8. CASE SenderDone(t)
  BY <1>8, <1>f, Placeholders DEF SenderDone, TypeOK, Job
<1>9. CASE EnrichFail(t)
  BY <1>9, <1>f, <1>l DEF EnrichFail, TypeOK, Job
<1> QED
  BY <1>1, <1>2, <1>3, <1>4, <1>5, <1>6, <1>7, <1>8, <1>9, <1>10 DEF Enrich

\* One action of the administrator or of the process.
LEMMA TypeHost ==
    ASSUME TypeOK,
           \/ \E c \in Cameras : PrivacySet(c) \/ Disable(c)
           \/ PrivacyShutdown \/ PrivacyAck \/ Stop \/ Down \/ Crash \/ Boot
    PROVE  TypeOK'
<1> USE DEF engineVars, storeVars, outVars, notifyVars, hostVars
<1>1. ASSUME NEW c \in Cameras, PrivacySet(c) \/ Disable(c) PROVE TypeOK'
  BY <1>1 DEF PrivacySet, Disable, TypeOK
<1>2. CASE PrivacyShutdown
  BY <1>2, Placeholders DEF PrivacyShutdown, CancelTasks, TypeOK, Job
<1>3. CASE PrivacyAck
  BY <1>3 DEF PrivacyAck, TypeOK
<1>4. CASE Stop
  BY <1>4, Placeholders DEF Stop, TypeOK, Emission
<1>5. CASE Forget
  BY <1>5, Placeholders DEF Forget, TypeOK, Emission, Job, Entry
<1>6. CASE Boot
  BY <1>6 DEF Boot, TypeOK
<1> QED
  BY <1>1, <1>2, <1>3, <1>4, <1>5, <1>6 DEF Down, Crash

LEMMA TypeNext == TypeOK /\ [Next]_vars => TypeOK'
<1> SUFFICES ASSUME TypeOK, [Next]_vars PROVE TypeOK'
  OBVIOUS
<1>1. CASE UNCHANGED vars
  BY <1>1 DEF vars, engineVars, storeVars, outVars, notifyVars, hostVars, TypeOK
<1>2. ASSUME NEW k \in Keys, CoolDown(k) PROVE TypeOK'
  BY <1>2 DEF CoolDown, TypeOK, engineVars, storeVars, outVars, hostVars
<1> QED
  BY <1>1, <1>2, TypeEngine, TypeHandler, TypeTask, TypeHost DEF Next, Engine, Host

\* Every variable keeps its type, in every behaviour of the specification.
THEOREM TypeCorrect == Spec => []TypeOK
BY TypeInit, TypeNext, PTL DEF Spec

-----------------------------------------------------------------------------
(* How the tasks move.                                                     *)

\* Outside a task's own steps, a slot is kept, given up, or given to a task
\* that has not started.
LEMMA SlotMoves ==
    ASSUME TypeOK, [Next]_vars, NEW t \in Slots,
           ~\E u \in Slots : Enrich(u) \/ EnrichFail(u)
    PROVE  task'[t] = task[t] \/ task'[t] = NoTask \/ task'[t].pc = "spawned"
<1> USE DEF engineVars, storeVars, outVars, notifyVars, hostVars
<1>s. ASSUME NEW f, NEW final, Spawn(f, final)
      PROVE  task'[t] = task[t] \/ task'[t].pc = "spawned"
  BY <1>s DEF Spawn, TypeOK
<1>1. CASE UNCHANGED vars
  BY <1>1 DEF vars
<1>2. ASSUME NEW k \in Keys,
             \/ Appear(k) \/ Sighting(k) \/ FallSilent(k) \/ WorkerEnd(k)
             \/ HousekeepingCycle(k) \/ HousekeepingVisit(k) \/ StopEnd(k) \/ CoolDown(k)
      PROVE  UNCHANGED task
  BY <1>2 DEF Appear, Sighting, FallSilent, WorkerEnd, HousekeepingCycle,
              HousekeepingVisit, StopEnd, CoolDown
<1>3. ASSUME NEW p \in Emitters, Handler(p)
      PROVE  task'[t] = task[t] \/ task'[t].pc = "spawned"
  <2>1. CASE NewInsert(p) \/ NewTrack(p) \/ Publish(p) \/ EndLookup(p) \/ EndDone(p)
    BY <2>1 DEF NewInsert, NewTrack, Publish, EndLookup, EndDone
  <2>2. CASE NewDone(p) \/ UpdateDone(p) \/ EndFinal(p)
    BY <2>2, <1>s DEF NewDone, UpdateDone, EndFinal
  <2> QED
    BY <1>3, <2>1, <2>2 DEF Handler
<1>4. ASSUME NEW c \in Cameras, PrivacySet(c) \/ Disable(c) PROVE UNCHANGED task
  BY <1>4 DEF PrivacySet, Disable
<1>5. CASE PrivacyAck \/ Stop \/ Boot
  BY <1>5 DEF PrivacyAck, Stop, Boot
<1>6. CASE PrivacyShutdown \/ Down \/ Crash
  BY <1>6 DEF PrivacyShutdown, CancelTasks, Down, Crash, Forget
<1> QED
  BY <1>1, <1>2, <1>3, <1>4, <1>5, <1>6 DEF Next, Engine, Host

\* A task's own step moves its own slot only.
LEMMA OwnSlot ==
    ASSUME TypeOK, NEW u \in Slots, Enrich(u) \/ EnrichFail(u),
           NEW t \in Slots, t # u
    PROVE  task'[t] = task[t]
<1>1. task' = [task EXCEPT ![u] = NoTask] => task'[t] = task[t]
  BY DEF TypeOK
<1>2. ASSUME NEW pc, Advance(u, pc) PROVE task'[t] = task[t]
  BY <1>2 DEF Advance, TypeOK
<1>3. ASSUME NEW s, Decide(u, s) PROVE task'[t] = task[t]
  BY <1>1, <1>2, <1>3 DEF Decide, Leave
<1>4. CASE EnrichStart(u)
  BY <1>1, <1>2, <1>3, <1>4 DEF EnrichStart, Leave
<1>5. CASE EnrichSnapshot(u) \/ EnrichDecide(u)
  BY <1>2, <1>3, <1>5 DEF EnrichSnapshot, EnrichDecide
<1>6. CASE EnrichWrite(u) \/ EnrichMark(u) \/ EnrichGate(u) \/ EnrichPush(u)
  BY <1>1, <1>2, <1>6 DEF EnrichWrite, EnrichMark, EnrichGate, EnrichPush, Leave
<1>7. CASE EnrichHandOver(u)
  BY <1>7 DEF EnrichHandOver, TypeOK
<1>8. CASE SenderDone(u) \/ EnrichFail(u)
  BY <1>1, <1>8 DEF SenderDone, EnrichFail, Leave
<1> QED
  BY <1>4, <1>5, <1>6, <1>7, <1>8 DEF Enrich

\* Files, flags, pushes and phone alerts come from the tasks' own steps only.
LEMMA OnlyTasksWrite ==
    ASSUME [Next]_vars, ~\E u \in Slots : Enrich(u) \/ EnrichFail(u)
    PROVE  UNCHANGED <<files, flagged, pushed, phoned>>
<1> USE DEF engineVars, storeVars, outVars, notifyVars, hostVars
<1>1. CASE UNCHANGED vars
  BY <1>1 DEF vars
<1>2. ASSUME NEW k \in Keys,
             \/ Appear(k) \/ Sighting(k) \/ FallSilent(k) \/ WorkerEnd(k)
             \/ HousekeepingCycle(k) \/ HousekeepingVisit(k) \/ StopEnd(k) \/ CoolDown(k)
      PROVE  UNCHANGED <<files, flagged, pushed, phoned>>
  BY <1>2 DEF Appear, Sighting, FallSilent, WorkerEnd, HousekeepingCycle,
              HousekeepingVisit, StopEnd, CoolDown
<1>3. ASSUME NEW p \in Emitters, Handler(p)
      PROVE  UNCHANGED <<files, flagged, pushed, phoned>>
  BY <1>3 DEF Handler, NewInsert, NewTrack, Publish, NewDone, UpdateDone, EndLookup,
              EndFinal, EndDone
<1>4. ASSUME NEW c \in Cameras, PrivacySet(c) \/ Disable(c)
      PROVE  UNCHANGED <<files, flagged, pushed, phoned>>
  BY <1>4 DEF PrivacySet, Disable
<1>5. CASE PrivacyShutdown \/ PrivacyAck \/ Stop \/ Down \/ Crash \/ Boot
  BY <1>5 DEF PrivacyShutdown, PrivacyAck, Stop, Down, Crash, Forget, Boot
<1> QED
  BY <1>1, <1>2, <1>3, <1>4, <1>5 DEF Next, Engine, Host

-----------------------------------------------------------------------------
(* has_snapshot: the flag never outruns the file.                          *)

\* Inductive: a task that is past the write has written.
FileInv ==
    /\ flagged \subseteq files
    /\ \A t \in Slots : task[t].pc = "written" => task[t].f \in files

LEMMA FileStep == TypeOK /\ FileInv /\ [Next]_vars => FileInv'
<1> SUFFICES ASSUME TypeOK, FileInv, [Next]_vars PROVE FileInv'
  OBVIOUS
<1> USE DEF engineVars, storeVars, outVars, notifyVars, hostVars
<1>n. NoTask.pc = "free"
  BY DEF NoTask
<1>1. CASE ~\E u \in Slots : Enrich(u) \/ EnrichFail(u)
  BY <1>1, <1>n, SlotMoves, OnlyTasksWrite DEF FileInv
<1>2. ASSUME NEW u \in Slots, Enrich(u) \/ EnrichFail(u)
      PROVE  FileInv'
  <2> DEFINE f == task[u].f
  <2>a. ASSUME NEW pc, Advance(u, pc) PROVE task'[u].pc = pc /\ task'[u].f = f
    BY <2>a DEF Advance, TypeOK
  <2>b. Leave(u) => task'[u].pc = "free"
    BY <1>n DEF Leave, TypeOK
  <2>c. ASSUME NEW s, Decide(u, s) PROVE task'[u].pc # "written"
    BY <2>a, <2>b, <2>c DEF Decide
  <2>1. CASE EnrichWrite(u)
    BY <2>1, <2>a, <1>2, OwnSlot DEF EnrichWrite, FileInv
  <2>2. CASE EnrichMark(u)
    BY <2>2, <2>a, <1>2, OwnSlot DEF EnrichMark, FileInv
  <2>3. CASE ~EnrichWrite(u) /\ ~EnrichMark(u)
    <3>1. UNCHANGED <<files, flagged>> /\ task'[u].pc # "written"
      <4>1. CASE EnrichStart(u)
        BY <4>1, <2>a, <2>b, <2>c DEF EnrichStart
      <4>2. CASE EnrichSnapshot(u) \/ EnrichDecide(u)
        BY <4>2, <2>a, <2>c DEF EnrichSnapshot, EnrichDecide
      <4>3. CASE EnrichGate(u) \/ EnrichPush(u) \/ EnrichFail(u)
        BY <4>3, <2>a, <2>b DEF EnrichGate, EnrichPush, EnrichFail
      <4>4. CASE EnrichHandOver(u) \/ SenderDone(u)
        BY <4>4, <1>n DEF EnrichHandOver, SenderDone, TypeOK
      <4> QED
        BY <1>2, <2>3, <4>1, <4>2, <4>3, <4>4 DEF Enrich
    <3> QED
      BY <3>1, <1>2, OwnSlot DEF FileInv
  <2> QED
    BY <2>1, <2>2, <2>3
<1> QED
  BY <1>1, <1>2

\* A row that says it has a snapshot has its file, in every behaviour: also
\* after a crash between any two steps of any number of enrichments.
THEOREM FlaggedFiles == Spec => []FlaggedHasFile
<1>1. Init => FileInv
  BY DEF Init, FileInv, NoTask
<1>2. FileInv => FlaggedHasFile
  BY DEF FileInv, FlaggedHasFile
<1> QED
  BY <1>1, <1>2, FileStep, TypeCorrect, PTL DEF Spec

-----------------------------------------------------------------------------
(* Privacy Mode: once acknowledged, silent.                                *)

\* Program points from which a task of a private camera writes and sends
\* nothing: it is about to be gated.
Gated == {"free", "spawned", "naming"}

\* Inductive: what is acknowledged is private, and the drain before the
\* acknowledgement has left no task of a private camera past its gates.
SilentInv ==
    /\ acked \subseteq private
    /\ \A t \in Slots : CameraOf(task[t].f) \in acked => task[t].pc \in Gated
    /\ admin = "drained" =>
           \A t \in Slots : CameraOf(task[t].f) \in private => task[t].pc \in Gated

\* A gated task of a private camera stays gated, and its step shows nothing.
LEMMA GatedStep ==
    ASSUME TypeOK, NEW u \in Slots, Enrich(u) \/ EnrichFail(u),
           IsPrivate(task[u].f), task[u].pc \in Gated
    PROVE  /\ task'[u].pc \in Gated
           /\ UNCHANGED <<files, pushed, phoned>>
<1> DEFINE f == task[u].f
<1> USE DEF engineVars, storeVars, outVars, notifyVars, hostVars
<1>a. Advance(u, "naming") => task'[u].pc = "naming"
  BY DEF Advance, TypeOK
<1>b. Leave(u) => task'[u].pc = "free"
  BY DEF Leave, NoTask, TypeOK
<1>c. ASSUME NEW s, Decide(u, s) PROVE task'[u].pc \in Gated
  BY <1>a, <1>b, <1>c DEF Decide, Gated
<1>1. CASE EnrichStart(u)
  BY <1>1, <1>b, <1>c DEF EnrichStart, Gated
<1>2. CASE EnrichGate(u)
  BY <1>2, <1>b DEF EnrichGate, Withheld, Gated
<1>3. CASE EnrichFail(u)
  BY <1>3, <1>b DEF EnrichFail, Gated
<1>4. ~EnrichSnapshot(u) /\ ~EnrichWrite(u) /\ ~EnrichMark(u) /\ ~EnrichDecide(u)
      /\ ~EnrichPush(u) /\ ~EnrichHandOver(u) /\ ~SenderDone(u)
  BY DEF EnrichSnapshot, EnrichWrite, EnrichMark, EnrichDecide, EnrichPush,
         EnrichHandOver, SenderDone, Gated
<1> QED
  BY <1>1, <1>2, <1>3, <1>4 DEF Enrich

\* A task's step: the event of its slot, and nothing of the administrator.
LEMMA TaskFrame ==
    ASSUME TypeOK, NEW u \in Slots, Enrich(u) \/ EnrichFail(u)
    PROVE  /\ UNCHANGED <<private, admin, acked>>
           /\ task'[u] = NoTask \/ task'[u].f = task[u].f
<1> USE DEF engineVars, storeVars, outVars, notifyVars, hostVars
<1>a. ASSUME NEW pc, Advance(u, pc) PROVE task'[u].f = task[u].f
  BY <1>a DEF Advance, TypeOK
<1>b. Leave(u) => task'[u] = NoTask
  BY DEF Leave, TypeOK
<1>c. ASSUME NEW s, Decide(u, s) PROVE task'[u] = NoTask \/ task'[u].f = task[u].f
  BY <1>a, <1>b, <1>c DEF Decide
<1>1. CASE EnrichStart(u) \/ EnrichSnapshot(u) \/ EnrichDecide(u)
  BY <1>1, <1>a, <1>b, <1>c DEF EnrichStart, EnrichSnapshot, EnrichDecide
<1>2. CASE \/ EnrichWrite(u) \/ EnrichMark(u) \/ EnrichGate(u) \/ EnrichPush(u)
           \/ EnrichFail(u)
  BY <1>2, <1>a, <1>b DEF EnrichWrite, EnrichMark, EnrichGate, EnrichPush, EnrichFail
<1>3. CASE EnrichHandOver(u) \/ SenderDone(u)
  BY <1>3 DEF EnrichHandOver, SenderDone, TypeOK
<1> QED
  BY <1>1, <1>2, <1>3 DEF Enrich

\* The only steps that touch the set of private cameras or what was
\* acknowledged, and that start or finish a drain.
LEMMA AdminFrame ==
    ASSUME [Next]_vars, ~\E u \in Slots : Enrich(u) \/ EnrichFail(u),
           ~\E c \in Cameras : PrivacySet(c), ~PrivacyShutdown, ~PrivacyAck
    PROVE  UNCHANGED <<private, acked>> /\ admin' \in {admin, "idle"}
<1> USE DEF engineVars, storeVars, outVars, notifyVars, hostVars
<1>1. CASE UNCHANGED vars
  BY <1>1 DEF vars
<1>2. ASSUME NEW k \in Keys,
             \/ Appear(k) \/ Sighting(k) \/ FallSilent(k) \/ WorkerEnd(k)
             \/ HousekeepingCycle(k) \/ HousekeepingVisit(k) \/ StopEnd(k) \/ CoolDown(k)
      PROVE  UNCHANGED <<private, acked, admin>>
  BY <1>2 DEF Appear, Sighting, FallSilent, WorkerEnd, HousekeepingCycle,
              HousekeepingVisit, StopEnd, CoolDown
<1>3. ASSUME NEW p \in Emitters, Handler(p) PROVE UNCHANGED <<private, acked, admin>>
  BY <1>3 DEF Handler, NewInsert, NewTrack, Publish, NewDone, UpdateDone, EndLookup,
              EndFinal, EndDone
<1>4. ASSUME NEW c \in Cameras, Disable(c) PROVE UNCHANGED <<private, acked, admin>>
  BY <1>4 DEF Disable
<1>5. CASE Stop \/ Down \/ Crash \/ Boot
  BY <1>5 DEF Stop, Down, Crash, Forget, Boot
<1> QED
  BY <1>1, <1>2, <1>3, <1>4, <1>5 DEF Next, Engine, Host

LEMMA SilentStep == TypeOK /\ SilentInv /\ [Next]_vars => SilentInv'
<1> SUFFICES ASSUME TypeOK, SilentInv, [Next]_vars PROVE SilentInv'
  OBVIOUS
<1> USE DEF engineVars, storeVars, outVars, notifyVars, hostVars
<1>n. NoTask.pc \in Gated
  BY DEF NoTask, Gated
<1>1. ASSUME NEW u \in Slots, Enrich(u) \/ EnrichFail(u) PROVE SilentInv'
  <2>1. \A t \in Slots : t # u => task'[t] = task[t]
    BY <1>1, OwnSlot
  <2>2. CameraOf(task[u].f) \in private /\ task[u].pc \in Gated => task'[u].pc \in Gated
    BY <1>1, GatedStep DEF IsPrivate
  <2> QED
    BY <1>1, <1>n, <2>1, <2>2, TaskFrame DEF SilentInv
<1>2. CASE ~\E u \in Slots : Enrich(u) \/ EnrichFail(u)
  <2>m. \A t \in Slots : task'[t] = task[t] \/ task'[t].pc \in Gated
    BY <1>2, <1>n, SlotMoves DEF Gated
  <2>1. ASSUME NEW c \in Cameras, PrivacySet(c) PROVE SilentInv'
    BY <2>1, <2>m DEF PrivacySet, SilentInv
  <2>2. CASE PrivacyShutdown
    BY <2>2, <1>n DEF PrivacyShutdown, CancelTasks, SilentInv
  <2>3. CASE PrivacyAck
    BY <2>3 DEF PrivacyAck, SilentInv
  <2>4. CASE (~\E c \in Cameras : PrivacySet(c)) /\ ~PrivacyShutdown /\ ~PrivacyAck
    BY <1>2, <2>4, <2>m, AdminFrame DEF SilentInv
  <2> QED
    BY <2>1, <2>2, <2>3, <2>4
<1> QED
  BY <1>1, <1>2

\* In such a state no step writes or sends anything of an acknowledged camera.
LEMMA SilentAct ==
    ASSUME TypeOK, SilentInv, [Next]_vars, NEW f \in Fids, CameraOf(f) \in acked
    PROVE  /\ f \in files' => f \in files
           /\ pushed'[f] = pushed[f]
           /\ f \in phoned' => f \in phoned
<1> USE DEF engineVars, storeVars, outVars, notifyVars, hostVars
<1>1. CASE ~\E u \in Slots : Enrich(u) \/ EnrichFail(u)
  BY <1>1, OnlyTasksWrite
<1>2. ASSUME NEW u \in Slots, Enrich(u) \/ EnrichFail(u), task[u].f = f
      PROVE  UNCHANGED <<files, pushed, phoned>>
  BY <1>2, GatedStep DEF SilentInv, IsPrivate
<1>3. ASSUME NEW u \in Slots, Enrich(u) \/ EnrichFail(u), task[u].f # f
      PROVE  /\ f \in files' => f \in files
             /\ pushed'[f] = pushed[f]
             /\ f \in phoned' => f \in phoned
  BY <1>3 DEF Enrich, EnrichStart, EnrichSnapshot, EnrichWrite, EnrichMark, EnrichDecide,
              EnrichGate, EnrichPush, EnrichHandOver, SenderDone, EnrichFail, TypeOK
<1> QED
  BY <1>1, <1>2, <1>3

\* Stop, then acknowledge: after the POST is answered nothing of a private
\* camera is written, pushed or sent, whatever was in flight before it.
THEOREM AcknowledgedIsSilent == Spec => AckMeansSilent
<1>1. Init => SilentInv
  BY DEF Init, SilentInv, NoTask, Gated
<1>2. TypeOK /\ SilentInv /\ [Next]_vars =>
        [\A f \in Fids : CameraOf(f) \in acked =>
            /\ f \in files' => f \in files
            /\ pushed'[f] = pushed[f]
            /\ f \in phoned' => f \in phoned]_vars
  BY SilentAct
<1> QED
  BY <1>1, <1>2, SilentStep, TypeCorrect, PTL DEF Spec, AckMeansSilent

=============================================================================
