-------------------------- MODULE EventEndsProofs --------------------------
(***************************************************************************)
(* What an event leaves behind: a row without an end, an entry of _active  *)
(* or a binary_sensor that is ON lose whoever would have closed, popped or *)
(* switched it off in the ways Rows, Entries and Sensors name and in no    *)
(* other, for every value of the constants, with Privacy Mode, edits,      *)
(* stops, crashes and late frames at any moment.                           *)
(***************************************************************************)
EXTENDS EventRecordProofs

-----------------------------------------------------------------------------
(* How an event ends.                                                      *)

\* The step in which the engine ends the event of a key.
Ends(p, k) == Idle(p) /\ open[k] # 0 /\ EndEvent(p, k) /\ UNCHANGED <<task, sensor>>

LEMMA EngineStep ==
    ASSUME NEW k \in Keys,
           \/ Appear(k) \/ Sighting(k) \/ FallSilent(k) \/ WorkerEnd(k)
           \/ HousekeepingCycle(k) \/ HousekeepingVisit(k) \/ StopEnd(k)
    PROVE  \/ Appear(k) \/ Sighting(k)
           \/ UNCHANGED <<open, emit, active, task, row, sensor>>
           \/ \E p \in Emitters : Ends(p, k)
<1> USE DEF Ends, Emitters
<1>1. CASE FallSilent(k)
  BY <1>1 DEF FallSilent, storeVars, outVars
<1>2. CASE WorkerEnd(k)
  BY <1>2 DEF WorkerEnd
<1>3. CASE HousekeepingCycle(k) \/ StopEnd(k)
  BY <1>3 DEF HousekeepingCycle, StopEnd
<1>4. CASE HousekeepingVisit(k)
  BY <1>4 DEF HousekeepingVisit
<1> QED
  BY <1>1, <1>2, <1>3, <1>4

\* One event is ended: others stay open, with all that handlers do about them,
\* and what happens to this one depends on the gate, _active and its row.
LEMMA EndsOne ==
    ASSUME TypeOK, NEW p \in Emitters, NEW k \in Keys, Ends(p, k)
    PROVE  \E f \in Fids :
             /\ f = <<k, open[k]>> /\ IsOpen(f) /\ KeyOf(f) = k
             /\ \A g \in Fids : IsOpen(g) /\ g # f => IsOpen(g)'
             /\ \A j \in Keys : j # k => open'[j] = open[j]
             /\ \A g \in Fids : g # f => row'[g] = row[g]
             /\ active' \in {active, active \ {f}}
             /\ \A q \in Emitters : q # p => emit'[q] = emit[q]
             /\ \/ IsPrivate(f)
                \/ /\ f \notin active' /\ row'[f] # "open"
                   /\ emit'[p].pc = "end_closed" /\ emit'[p].f = f
                \/ /\ f \notin active' /\ row' = row
                   /\ emit'[p].pc = "end_lookup" /\ emit'[p].f = f
                   /\ emit'[p].found = (row[f] # "none")
<1>f. PICK f \in Fids : /\ f = <<k, open[k]>> /\ IsOpen(f) /\ KeyOf(f) = k
                        /\ HandleEnd(p, f)
  <2>1. <<k, open[k]>> \in Fids
    BY DEF Ends, TypeOK, Fids, Numbers
  <2>2. IsOpen(<<k, open[k]>>) /\ KeyOf(<<k, open[k]>>) = k
    BY DEF IsOpen, KeyOf
  <2> QED
    BY <2>1, <2>2 DEF Ends, EndEvent
<1>o. /\ \A g \in Fids : IsOpen(g) /\ g # f => IsOpen(g)'
      /\ \A j \in Keys : j # k => open'[j] = open[j]
  <2>1. \A j \in Keys : j # k => open'[j] = open[j]
    BY DEF Ends, EndEvent, TypeOK
  <2>2. ASSUME NEW g \in Fids, IsOpen(g), g # f PROVE IsOpen(g)'
    <3>1. KeyOf(g) \in Keys /\ KeyOf(g) # k
      BY <1>f, <2>2, FidParts DEF IsOpen, KeyOf
    <3> QED
      BY <2>1, <2>2, <3>1 DEF IsOpen, KeyOf
  <2> QED
    BY <2>1, <2>2
<1>1. CASE IsPrivate(f)
  <2>1. UNCHANGED <<emit, active, row>>
    BY <1>1, <1>f DEF HandleEnd
  <2> QED
    BY <1>1, <1>f, <1>o, <2>1
<1>2. CASE ~IsPrivate(f) /\ f \in active
  <2>1. active' = active \ {f} /\ CloseRow(f) /\ Goto(p, "end_closed", f, TRUE)
    BY <1>2, <1>f DEF HandleEnd
  <2>2. row'[f] # "open" /\ \A g \in Fids : g # f => row'[g] = row[g]
    BY <2>1 DEF CloseRow, TypeOK
  <2>3. /\ emit'[p].pc = "end_closed" /\ emit'[p].f = f
        /\ \A q \in Emitters : q # p => emit'[q] = emit[q]
    BY <2>1, Emitted DEF EmitPcs
  <2> QED
    BY <1>f, <1>o, <2>1, <2>2, <2>3
<1>3. CASE ~IsPrivate(f) /\ f \notin active
  <2>1. Goto(p, "end_lookup", f, row[f] # "none") /\ UNCHANGED <<active, row>>
    BY <1>3, <1>f DEF HandleEnd
  <2>2. (row[f] # "none") \in BOOLEAN /\ "end_lookup" \in EmitPcs
    BY DEF EmitPcs
  <2>3. /\ emit'[p].pc = "end_lookup" /\ emit'[p].f = f
        /\ emit'[p].found = (row[f] # "none")
        /\ \A q \in Emitters : q # p => emit'[q] = emit[q]
    BY <2>1, <2>2, Emitted
  <2> QED
    BY <1>3, <1>f, <1>o, <2>1, <2>3
<1> QED
  BY <1>1, <1>2, <1>3

\* A sighting, the first of an event or a further one, ends none and gives only
\* the idle worker something to do.
LEMMA SeenStep ==
    ASSUME TypeOK, NEW k \in Keys, Appear(k) \/ Sighting(k)
    PROVE  /\ \A g \in Fids : IsOpen(g) => IsOpen(g)'
           /\ \A j \in Keys : open[j] # 0 => open'[j] # 0
           /\ UNCHANGED <<active, task, row, sensor>>
           /\ \A q \in Emitters : emit'[q] = emit[q] \/ emit[q].pc = "idle"
<1> USE DEF storeVars, outVars
<1>e. ASSUME NEW f, HandleNew("worker", f) \/ HandleUpdate("worker", f), Idle("worker")
      PROVE  \A q \in Emitters : emit'[q] = emit[q] \/ emit[q].pc = "idle"
  BY <1>e DEF HandleNew, HandleUpdate, Goto, Idle, TypeOK
<1>1. CASE Appear(k)
  <2>1. /\ open' = [open EXCEPT ![k] = made[k] + 1] /\ open[k] = 0
        /\ made[k] \in Nat
    BY <1>1 DEF Appear, TypeOK
  <2>2. \A j \in Keys : open[j] # 0 => open'[j] = open[j]
    BY <2>1 DEF TypeOK
  <2>3. \A g \in Fids : IsOpen(g) => IsOpen(g)'
    <3> SUFFICES ASSUME NEW g \in Fids, IsOpen(g) PROVE IsOpen(g)'
      OBVIOUS
    <3>1. KeyOf(g) \in Keys /\ open[KeyOf(g)] # 0
      BY FidParts DEF IsOpen, Numbers
    <3> QED
      BY <2>2, <3>1 DEF IsOpen, KeyOf
  <2> QED
    BY <1>1, <1>e, <2>2, <2>3 DEF Appear
<1>2. CASE Sighting(k)
  <2>1. UNCHANGED <<open, active, task, row, sensor>>
    BY <1>2 DEF Sighting
  <2>2. \A q \in Emitters : emit'[q] = emit[q] \/ emit[q].pc = "idle"
    BY <1>2, <1>e DEF Sighting
  <2> QED
    BY <2>1, <2>2 DEF IsOpen
<1> QED
  BY <1>1, <1>2

\* Neither a task, a cooldown, an administrator nor a boot touches the engine's
\* events, an emission, the end of a row or a sensor.
LEMMA OthersStep ==
    ASSUME TypeOK, FlagHeld,
           \/ \E u \in Slots : Enrich(u) \/ EnrichFail(u)
           \/ \E k \in Keys : CoolDown(k)
           \/ \E c \in Cameras : PrivacySet(c) \/ Disable(c)
           \/ PrivacyShutdown \/ PrivacyAck \/ Boot \/ UNCHANGED vars
    PROVE  UNCHANGED <<open, emit, row, sensor>>
<1> USE DEF engineVars, storeVars, outVars, notifyVars, hostVars
<1>1. ASSUME NEW u \in Slots, Enrich(u) \/ EnrichFail(u)
      PROVE  UNCHANGED <<open, emit, row, sensor>>
  BY <1>1 DEF Enrich, EnrichStart, EnrichSnapshot, EnrichWrite, EnrichMark,
              EnrichDecide, EnrichGate, EnrichPush, EnrichHandOver, SenderDone,
              EnrichFail
<1>2. ASSUME NEW k \in Keys, CoolDown(k) PROVE UNCHANGED <<open, emit, row, sensor>>
  BY <1>2 DEF CoolDown
<1>3. ASSUME NEW c \in Cameras, PrivacySet(c) \/ Disable(c)
      PROVE  UNCHANGED <<open, emit, row, sensor>>
  BY <1>3 DEF PrivacySet, Disable
<1>4. CASE PrivacyShutdown \/ PrivacyAck \/ Boot \/ UNCHANGED vars
  BY <1>4 DEF PrivacyShutdown, PrivacyAck, Boot, vars
<1> QED
  BY <1>1, <1>2, <1>3, <1>4

\* A process that stops or dies changes its phase.
LEMMA PhaseStep ==
    ASSUME Stop \/ Down \/ Crash
    PROVE  phase' # phase
BY DEF Stop, Down, Crash, Forget

-----------------------------------------------------------------------------
(* Rows.                                                                   *)

\* A step that neither reopens the row, ends the event nor takes the emission
\* away that is about to close the row leaves nobody without a closer.
LEMMA RowFrame ==
    ASSUME NEW f \in Fids, row'[f] = row[f], IsOpen(f) => IsOpen(f)',
           \A q \in Emitters :
              emit'[q] = emit[q] \/ ~(/\ emit[q].f = f /\ emit[q].found
                                      /\ emit[q].pc = "end_lookup")
    PROVE  Orphaned(f)' => Orphaned(f)
BY DEF Orphaned

LEMMA RowStep ==
    ASSUME TypeOK, LifeInv, [Next]_vars, NEW f \in Fids, Orphaned(f)', ~Orphaned(f)
    PROVE  Dropped(f) \/ LateReport(f) \/ phase' # phase
<1>1. ASSUME NEW k \in Keys,
             \/ Appear(k) \/ Sighting(k) \/ FallSilent(k) \/ WorkerEnd(k)
             \/ HousekeepingCycle(k) \/ HousekeepingVisit(k) \/ StopEnd(k)
      PROVE  Dropped(f)
  <2>1. CASE Appear(k) \/ Sighting(k)
    <3>1. /\ row'[f] = row[f]
          /\ IsOpen(f) => IsOpen(f)'
          /\ \A q \in Emitters : emit'[q] = emit[q] \/ emit[q].pc = "idle"
      BY <2>1, SeenStep
    <3> QED
      BY <3>1, RowFrame
  <2>2. CASE UNCHANGED <<open, emit, active, task, row, sensor>>
    BY <2>2, RowFrame DEF IsOpen
  <2>3. ASSUME NEW p \in Emitters, Ends(p, k) PROVE Dropped(f)
    <3>1. PICK e \in Fids :
             /\ IsOpen(e)
             /\ \A g \in Fids : IsOpen(g) /\ g # e => IsOpen(g)'
             /\ \A g \in Fids : g # e => row'[g] = row[g]
             /\ \A q \in Emitters : q # p => emit'[q] = emit[q]
             /\ \/ IsPrivate(e)
                \/ row'[e] # "open"
                \/ /\ row' = row /\ emit'[p].pc = "end_lookup" /\ emit'[p].f = e
                   /\ emit'[p].found = (row[e] # "none")
      BY <2>3, EndsOne
    <3>2. CASE e # f
      <4>1. emit[p].pc = "idle"
        BY <2>3 DEF Ends, Idle
      <4> QED
        BY <3>1, <3>2, <4>1, RowFrame
    <3>3. CASE e = f
      BY <3>1, <3>3 DEF Orphaned, Dropped
    <3> QED
      BY <3>2, <3>3
  <2> QED
    BY <1>1, <2>1, <2>2, <2>3, EngineStep
<1>2. ASSUME NEW p \in Emitters, Handler(p) PROVE LateReport(f)
  <2> USE DEF engineVars, storeVars, outVars, notifyVars, hostVars
  <2>m. /\ \A pc : Resume(p, pc) => \A q \in Emitters : q # p => emit'[q] = emit[q]
        /\ Return(p) => \A q \in Emitters : q # p => emit'[q] = emit[q]
    BY HandlerMoves
  <2>1. CASE NewInsert(p)
    <3>1. p = "worker" /\ emit[p].pc = "new_read"
      BY <2>1 DEF NewInsert, LifeInv, HousekeepingEnds, Ending, Emitters
    <3>2. CASE emit[p].f = f
      <4>1. ~IsOpen(f)
        BY <2>1 DEF NewInsert, Orphaned, IsOpen
      <4> QED
        BY <3>1, <3>2, <4>1 DEF LateReport
    <3>3. CASE emit[p].f # f
      <4>1. row'[f] = row[f] /\ UNCHANGED open
        BY <2>1, <3>3 DEF NewInsert, TypeOK
      <4>2. \A q \in Emitters : q # p => emit'[q] = emit[q]
        BY <2>1, <2>m DEF NewInsert
      <4> QED
        BY <3>1, <4>1, <4>2, RowFrame DEF IsOpen
    <3> QED
      BY <3>2, <3>3
  <2>2. CASE EndLookup(p)
    <3>1. CASE emit[p].f = f /\ emit[p].found
      BY <2>2, <3>1 DEF EndLookup, CloseRow, Orphaned, TypeOK
    <3>2. CASE ~(emit[p].f = f /\ emit[p].found)
      <4>1. row'[f] = row[f] /\ \A q \in Emitters : q # p => emit'[q] = emit[q]
        BY <2>2, <2>m, <3>2 DEF EndLookup, CloseRow, TypeOK
      <4> QED
        BY <2>2, <3>2, <4>1, RowFrame DEF EndLookup, IsOpen
    <3> QED
      BY <3>1, <3>2
  <2>3. CASE \/ NewTrack(p) \/ Publish(p) \/ NewDone(p) \/ UpdateDone(p)
             \/ EndFinal(p) \/ EndDone(p)
    <3>1. UNCHANGED <<open, row>> /\ emit[p].pc # "end_lookup"
      BY <2>3 DEF NewTrack, Publish, NewDone, UpdateDone, EndFinal, EndDone
    <3>2. \A q \in Emitters : q # p => emit'[q] = emit[q]
      BY <2>3, <2>m DEF NewTrack, Publish, NewDone, UpdateDone, EndFinal, EndDone
    <3> QED
      BY <3>1, <3>2, RowFrame DEF IsOpen
  <2> QED
    BY <1>2, <2>1, <2>2, <2>3 DEF Handler
<1>3. CASE UNCHANGED <<open, emit, row, sensor>>
  BY <1>3, RowFrame DEF IsOpen
<1>4. FlagHeld
  BY DEF LifeInv
<1> QED
  BY <1>1, <1>2, <1>3, <1>4, OthersStep, PhaseStep DEF Next, Engine, Host

\* A row without an end time loses what would have closed it by a dropped
\* "end", a late report, or the process leaving "up" or dying, and in no other
\* way.
THEOREM RowsHaveClosers == Spec => Rows
<1>1. TypeOK /\ LifeInv /\ [Next]_vars =>
        [\A f \in Fids : Orphaned(f)' /\ ~Orphaned(f) =>
            Dropped(f) \/ LateReport(f) \/ phase' # phase]_vars
  BY RowStep
<1> QED
  BY <1>1, TypeCorrect, LifeHolds, PTL DEF Spec, Rows

-----------------------------------------------------------------------------
(* Entries of _active.                                                     *)

\* A final enrichment is at work: neither a free slot nor a sender is one.
FinalInv == \A t \in Slots : task[t].final => task[t].pc \notin {"free", "sender"}

\* A final task goes on, or takes its event out of _active.
LEMMA FinalStep ==
    ASSUME TypeOK, FinalInv, NEW u \in Slots, Enrich(u) \/ EnrichFail(u)
    PROVE  /\ active' \subseteq active
           /\ task'[u].final => task[u].final /\ task'[u].pc \notin {"free", "sender"}
           /\ task[u].final =>
                 \/ task'[u].final /\ task'[u].f = task[u].f
                 \/ task[u].f \notin active'
<1> USE DEF engineVars, storeVars, outVars, notifyVars, hostVars
<1>a. ASSUME NEW pc \in TaskPcs \ {"free", "sender"}, Advance(u, pc)
      PROVE  /\ task'[u].final = task[u].final /\ task'[u].f = task[u].f
             /\ task'[u].pc = pc
  BY <1>a DEF Advance, TypeOK
<1>b. ASSUME Leave(u)
      PROVE  /\ active' \subseteq active /\ ~task'[u].final
             /\ task[u].final => task[u].f \notin active'
  BY <1>b DEF Leave, NoTask, TypeOK
<1>d. ASSUME NEW s, Decide(u, s)
      PROVE  /\ active' \subseteq active
             /\ task'[u].final => task[u].final /\ task'[u].pc \notin {"free", "sender"}
             /\ task[u].final =>
                   \/ task'[u].final /\ task'[u].f = task[u].f
                 \/ task[u].f \notin active'
  <2>1. "naming" \in TaskPcs \ {"free", "sender"}
    BY DEF TaskPcs
  <2> QED
    BY <1>a, <1>b, <1>d, <2>1 DEF Decide
<1>p. /\ "snapshot" \in TaskPcs \ {"free", "sender"} /\ "annotate" \in TaskPcs \ {"free", "sender"}
      /\ "written" \in TaskPcs \ {"free", "sender"} /\ "marked" \in TaskPcs \ {"free", "sender"}
      /\ "listing" \in TaskPcs \ {"free", "sender"}
      /\ "pushing" \in TaskPcs \ {"free", "sender"}
  BY DEF TaskPcs
<1>1. CASE EnrichStart(u) \/ EnrichSnapshot(u) \/ EnrichDecide(u)
  BY <1>1, <1>a, <1>b, <1>d, <1>p DEF EnrichStart, EnrichSnapshot, EnrichDecide
<1>2. CASE EnrichWrite(u) \/ EnrichMark(u)
  BY <1>2, <1>a, <1>p DEF EnrichWrite, EnrichMark
<1>3. CASE EnrichGate(u) \/ EnrichPush(u) \/ EnrichFail(u)
  BY <1>3, <1>a, <1>b, <1>p DEF EnrichGate, EnrichPush, EnrichFail
<1>4. CASE EnrichHandOver(u)
  BY <1>4 DEF EnrichHandOver, TypeOK
<1>5. CASE SenderDone(u)
  BY <1>5 DEF SenderDone, NoTask, FinalInv, TypeOK
<1> QED
  BY <1>1, <1>2, <1>3, <1>4, <1>5 DEF Enrich

LEMMA FinalNext == TypeOK /\ FinalInv /\ [Next]_vars => FinalInv'
<1> SUFFICES ASSUME TypeOK, FinalInv, [Next]_vars PROVE FinalInv'
  OBVIOUS
<1>1. CASE ~\E u \in Slots : Enrich(u) \/ EnrichFail(u)
  <2>1. ~NoTask.final
    BY DEF NoTask
  <2>2. \A t \in Slots : \/ task'[t] = task[t]
                         \/ task'[t] = NoTask \/ task'[t].pc = "spawned"
    BY <1>1, SlotMoves
  <2> QED
    BY <2>1, <2>2 DEF FinalInv
<1>2. ASSUME NEW u \in Slots, Enrich(u) \/ EnrichFail(u) PROVE FinalInv'
  BY <1>2, FinalStep, OwnSlot DEF FinalInv
<1> QED
  BY <1>1, <1>2

LEMMA FinalHolds == Spec => []FinalInv
<1>1. Init => FinalInv
  BY DEF Init, FinalInv, NoTask
<1> QED
  BY <1>1, FinalNext, TypeCorrect, PTL DEF Spec

\* A step that neither adds the entry, ends the event nor takes its final
\* enrichment away leaves no entry to nobody.
LEMMA EntryFrame ==
    ASSUME NEW f \in Fids, f \in active' => f \in active, IsOpen(f) => IsOpen(f)',
           \A t \in Slots : task'[t] = task[t] \/ ~task[t].final
    PROVE  Kept(f)' => Kept(f)
BY DEF Kept

LEMMA EntryStep ==
    ASSUME TypeOK, LifeInv, FinalInv, [Next]_vars, NEW f \in Fids, Kept(f)', ~Kept(f)
    PROVE  \/ Dropped(f) \/ LateReport(f)
           \/ \E t \in Slots : task[t].pc = "spawned" /\ task[t].final /\ task[t].f = f
<1>h. FlagHeld
  BY DEF LifeInv
<1>s. ASSUME NEW g \in Fids, NEW final \in BOOLEAN, Spawn(g, final)
      PROVE  /\ \A t \in Slots : task'[t] = task[t] \/ ~task[t].final
             /\ \E t \in Slots : task'[t].f = g /\ task'[t].final = final
  BY <1>s DEF Spawn, NoTask, TypeOK
<1>1. ASSUME NEW k \in Keys,
             \/ Appear(k) \/ Sighting(k) \/ FallSilent(k) \/ WorkerEnd(k)
             \/ HousekeepingCycle(k) \/ HousekeepingVisit(k) \/ StopEnd(k)
      PROVE  Dropped(f)
  <2>1. CASE Appear(k) \/ Sighting(k)
    BY <2>1, SeenStep, EntryFrame
  <2>2. CASE UNCHANGED <<open, emit, active, task, row, sensor>>
    BY <2>2, EntryFrame DEF IsOpen
  <2>3. ASSUME NEW p \in Emitters, Ends(p, k) PROVE Dropped(f)
    <3>1. PICK e \in Fids :
             /\ IsOpen(e)
             /\ \A g \in Fids : IsOpen(g) /\ g # e => IsOpen(g)'
             /\ active' \in {active, active \ {e}}
             /\ IsPrivate(e) \/ e \notin active'
      BY <2>3, EndsOne
    <3>2. UNCHANGED task
      BY <2>3 DEF Ends
    <3>3. e = f
      BY <3>1, <3>2, EntryFrame
    <3> QED
      BY <3>1, <3>3 DEF Kept, Dropped
  <2> QED
    BY <1>1, <2>1, <2>2, <2>3, EngineStep
<1>2. ASSUME NEW p \in Emitters, Handler(p) PROVE LateReport(f)
  <2> USE DEF engineVars, storeVars, outVars, notifyVars, hostVars
  <2>e. emit[p].f \in Fids /\ UNCHANGED open
    BY <1>2 DEF Handler, NewInsert, NewTrack, Publish, NewDone, UpdateDone, EndLookup,
                EndFinal, EndDone, TypeOK
  <2>1. CASE NewTrack(p)
    <3>1. p = "worker" /\ emit[p].pc # "idle"
      BY <2>1 DEF NewTrack, LifeInv, HousekeepingEnds, Ending, Emitters
    <3>2. UNCHANGED task /\ active' = active \cup {emit[p].f}
      BY <2>1 DEF NewTrack
    <3>3. emit[p].f = f
      BY <2>e, <3>2, EntryFrame DEF IsOpen
    <3> QED
      BY <2>e, <3>1, <3>3 DEF LateReport, Kept, IsOpen
  <2>2. CASE UNCHANGED <<active, task>>
    BY <2>2, <2>e, EntryFrame DEF IsOpen
  <2>3. CASE EndFinal(p) /\ active' = active \cup {emit[p].f} /\ Spawn(emit[p].f, TRUE)
    <3>1. emit[p].f # f
      BY <1>s, <2>3, <2>e DEF Kept
    <3> QED
      BY <1>s, <2>3, <2>e, <3>1, EntryFrame DEF IsOpen
  <2>4. CASE NewDone(p) \/ UpdateDone(p)
    <3>1. UNCHANGED active /\ \A t \in Slots : task'[t] = task[t] \/ ~task[t].final
      BY <1>s, <2>4, <2>e DEF NewDone, UpdateDone
    <3> QED
      BY <2>e, <3>1, EntryFrame DEF IsOpen
  <2>5. CASE NewInsert(p) \/ Publish(p) \/ EndLookup(p) \/ EndDone(p)
    BY <2>5, <2>e, EntryFrame DEF NewInsert, Publish, EndLookup, EndDone, IsOpen
  <2> QED
    BY <1>2, <2>1, <2>2, <2>3, <2>4, <2>5 DEF Handler, EndFinal
<1>3. ASSUME NEW u \in Slots, Enrich(u) \/ EnrichFail(u) PROVE FALSE
  <2>1. UNCHANGED open
    BY <1>3, <1>h, OthersStep
  <2>2. /\ active' \subseteq active
        /\ task[u].final => \/ (task'[u].final /\ task'[u].f = task[u].f)
                             \/ task[u].f \notin active'
    BY <1>3, FinalStep
  <2>3. \A t \in Slots : t # u => task'[t] = task[t]
    BY <1>3, OwnSlot
  <2> QED
    BY <2>1, <2>2, <2>3 DEF Kept, IsOpen
<1>4. CASE PrivacyShutdown
  BY <1>4 DEF PrivacyShutdown, CancelTasks, Kept, IsOpen, FinalInv, Enriching, engineVars
<1>5. CASE \/ \E k \in Keys : CoolDown(k)
           \/ \E c \in Cameras : PrivacySet(c) \/ Disable(c)
           \/ PrivacyAck \/ Boot \/ UNCHANGED vars
  <2>1. UNCHANGED open
    BY <1>5, <1>h, OthersStep
  <2>2. UNCHANGED <<active, task>>
    BY <1>5 DEF CoolDown, PrivacySet, Disable, PrivacyAck, Boot, vars
  <2> QED
    BY <2>1, <2>2, EntryFrame DEF IsOpen
<1>6. CASE Stop
  BY <1>6, EntryFrame DEF Stop, IsOpen
<1>7. CASE Down \/ Crash
  BY <1>7 DEF Down, Crash, Forget, Kept
<1> QED
  BY <1>1, <1>2, <1>3, <1>4, <1>5, <1>6, <1>7 DEF Next, Engine, Host

\* An entry of _active is left to nobody by a dropped "end", a late report or
\* the cancellation of a final enrichment that has not started, and in no other
\* way.
THEOREM EntriesArePopped == Spec => Entries
<1>1. TypeOK /\ LifeInv /\ FinalInv /\ [Next]_vars =>
        [\A f \in Fids : Kept(f)' /\ ~Kept(f) =>
            \/ Dropped(f) \/ LateReport(f)
            \/ \E t \in Slots : /\ task[t].pc = "spawned" /\ task[t].final
                                /\ task[t].f = f]_vars
  BY EntryStep
<1> QED
  BY <1>1, TypeCorrect, LifeHolds, FinalHolds, PTL DEF Spec, Entries

-----------------------------------------------------------------------------
(* Binary sensors.                                                         *)

\* The emission that is going to switch the sensor of a key off.
WillTell(e, k) ==
    /\ KeyOf(e.f) = k
    /\ \/ e.pc \in {"end_closed", "end_told"}
       \/ e.pc = "end_lookup" /\ e.found

\* A step that neither switches a sensor on, ends the event of its key nor takes
\* away the emission that is to switch it off leaves none to nobody.
LEMMA SensorFrame ==
    ASSUME NEW k \in Keys, sensor'[k] => sensor[k], open[k] # 0 => open'[k] # 0,
           \A q \in Emitters : WillTell(emit[q], k) => WillTell(emit'[q], k)
    PROVE  Stuck(k)' => Stuck(k)
BY DEF Stuck, WillTell

LEMMA SensorStep ==
    ASSUME TypeOK, LifeInv, [Next]_vars, NEW k \in Keys, Stuck(k)', ~Stuck(k)
    PROVE  \/ \E n \in Numbers : LET f == <<k, n>> IN
                Dropped(f) \/ LateReport(f) \/ (IsOpen(f) /\ row[f] = "none")
           \/ phase' # phase
<1> DEFINE Lost(f) == Dropped(f) \/ LateReport(f) \/ (IsOpen(f) /\ row[f] = "none")
<1> DEFINE Blamed == \E n \in Numbers : Lost(<<k, n>>)
<1>w. ASSUME NEW f \in Fids, KeyOf(f) = k, Lost(f)
      PROVE  Blamed
  <2>1. f = <<k, f[2]>> /\ f[2] \in Numbers
    BY <1>w, FidParts DEF KeyOf
  <2>2. Lost(<<k, f[2]>>)
    BY <1>w, <2>1
  <2> QED
    BY <2>1, <2>2 DEF Blamed
<1>1. ASSUME NEW j \in Keys,
             \/ Appear(j) \/ Sighting(j) \/ FallSilent(j) \/ WorkerEnd(j)
             \/ HousekeepingCycle(j) \/ HousekeepingVisit(j) \/ StopEnd(j)
      PROVE  Blamed
  <2>1. CASE Appear(j) \/ Sighting(j)
    <3>1. /\ UNCHANGED sensor
          /\ open[k] # 0 => open'[k] # 0
          /\ \A q \in Emitters : emit'[q] = emit[q] \/ emit[q].pc = "idle"
      BY <2>1, SeenStep
    <3> QED
      BY <3>1, SensorFrame DEF WillTell
  <2>2. CASE UNCHANGED <<open, emit, active, task, row, sensor>>
    BY <2>2, SensorFrame
  <2>3. ASSUME NEW p \in Emitters, Ends(p, j) PROVE Blamed
    <3>0. emit[p].pc = "idle" /\ UNCHANGED sensor
      BY <2>3 DEF Ends, Idle
    <3>1. PICK e \in Fids :
             /\ IsOpen(e) /\ KeyOf(e) = j
             /\ \A i \in Keys : i # j => open'[i] = open[i]
             /\ \A q \in Emitters : q # p => emit'[q] = emit[q]
             /\ \/ IsPrivate(e)
                \/ emit'[p].pc = "end_closed" /\ emit'[p].f = e
                \/ /\ emit'[p].pc = "end_lookup" /\ emit'[p].f = e
                   /\ emit'[p].found = (row[e] # "none")
      BY <2>3, EndsOne
    <3>2. j = k
      <4>1. j # k => \A q \in Emitters : WillTell(emit[q], k) => WillTell(emit'[q], k)
        BY <3>0, <3>1 DEF WillTell
      <4> QED
        BY <3>0, <3>1, <4>1, SensorFrame
    <3>3. Lost(e)
      BY <3>1, <3>2 DEF Stuck, Dropped
    <3> QED
      BY <1>w, <3>1, <3>2, <3>3
  <2> QED
    BY <1>1, <2>1, <2>2, <2>3, EngineStep
<1>2. ASSUME NEW p \in Emitters, Handler(p) PROVE Blamed
  <2> USE DEF engineVars, storeVars, outVars, notifyVars, hostVars
  <2>o. UNCHANGED open /\ emit[p].f \in Fids
    BY <1>2 DEF Handler, NewInsert, NewTrack, Publish, NewDone, UpdateDone, EndLookup,
                EndFinal, EndDone, TypeOK
  <2>m. /\ \A pc : Resume(p, pc) => /\ \A q \in Emitters : q # p => emit'[q] = emit[q]
                                    /\ emit'[p].pc = pc /\ emit'[p].f = emit[p].f
        /\ Return(p) => \A q \in Emitters : q # p => emit'[q] = emit[q]
    BY HandlerMoves
  <2>1. CASE NewInsert(p) \/ NewTrack(p) \/ NewDone(p) \/ UpdateDone(p) \/ EndDone(p)
    <3>1. /\ UNCHANGED sensor /\ ~WillTell(emit[p], k)
          /\ \A q \in Emitters : q # p => emit'[q] = emit[q]
      BY <2>1, <2>m DEF NewInsert, NewTrack, NewDone, UpdateDone, EndDone, WillTell
    <3> QED
      BY <2>o, <3>1, SensorFrame
  <2>2. CASE EndLookup(p) \/ EndFinal(p)
    <3>1. /\ UNCHANGED sensor
          /\ \A q \in Emitters : q # p => emit'[q] = emit[q]
      BY <2>2, <2>m DEF EndLookup, EndFinal, TypeOK
    <3>2. WillTell(emit[p], k) => WillTell(emit'[p], k)
      <4>1. CASE EndLookup(p)
        BY <4>1 DEF EndLookup, WillTell, TypeOK
      <4>2. CASE EndFinal(p)
        BY <2>m, <4>2 DEF EndFinal, WillTell
      <4> QED
        BY <2>2, <4>1, <4>2
    <3> QED
      BY <2>o, <3>1, <3>2, SensorFrame
  <2>3. CASE Publish(p)
    <3>1. /\ \A q \in Emitters : q # p => emit'[q] = emit[q]
          /\ emit[p].pc \in {"new_told", "updated", "end_told"}
      BY <2>3, <2>m DEF Publish
    <3>2. KeyOf(emit[p].f) = k
      <4>1. KeyOf(emit[p].f) # k => sensor'[k] = sensor[k] /\ ~WillTell(emit[p], k)
        BY <2>3 DEF Publish, SensorOff, WillTell, TypeOK
      <4> QED
        BY <2>o, <3>1, <4>1, SensorFrame
    <3>3. emit[p].pc # "end_told"
      BY <2>3, <3>2 DEF Publish, SensorOff, Stuck, TypeOK
    <3>4. p = "worker" /\ emit[p].pc # "idle"
      BY <3>1, <3>3 DEF LifeInv, HousekeepingEnds, Ending, Emitters
    <3>5. ~IsOpen(emit[p].f)
      <4>1. open[k] = 0
        BY <2>o DEF Stuck
      <4> QED
        BY <2>o, <3>2, <4>1, FidParts DEF IsOpen, Numbers
    <3> QED
      BY <1>w, <2>o, <3>2, <3>4, <3>5 DEF LateReport
  <2> QED
    BY <1>2, <2>1, <2>2, <2>3 DEF Handler
<1>3. CASE UNCHANGED <<open, emit, row, sensor>>
  BY <1>3, SensorFrame
<1>4. FlagHeld
  BY DEF LifeInv
<1>5. CASE \/ \E u \in Slots : Enrich(u) \/ EnrichFail(u)
           \/ \E j \in Keys : CoolDown(j)
           \/ \E c \in Cameras : PrivacySet(c) \/ Disable(c)
           \/ PrivacyShutdown \/ PrivacyAck \/ Boot \/ UNCHANGED vars
  <2>1. UNCHANGED <<open, emit, row, sensor>>
    BY <1>4, <1>5, OthersStep
  <2> QED
    BY <1>3, <2>1
<1>6. CASE Stop \/ Down \/ Crash
  BY <1>6, PhaseStep
<1> QED
  BY <1>1, <1>2, <1>5, <1>6 DEF Next, Engine, Host

\* A binary_sensor that is ON is left to nobody by a dropped "end", a late
\* report, an event that ends without a row, or a stop, and in no other way.
THEOREM SensorsAreToldOff == Spec => Sensors
<1>1. TypeOK /\ LifeInv /\ [Next]_vars =>
        [\A k \in Keys : Stuck(k)' /\ ~Stuck(k) =>
            \/ \E n \in Numbers : LET f == <<k, n>> IN
                  Dropped(f) \/ LateReport(f) \/ (IsOpen(f) /\ row[f] = "none")
            \/ phase' # phase]_vars
  BY SensorStep
<1> QED
  BY <1>1, TypeCorrect, LifeHolds, PTL DEF Spec, Sensors

=============================================================================
