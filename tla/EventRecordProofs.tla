------------------------- MODULE EventRecordProofs -------------------------
(***************************************************************************)
(* EventLifecycle implements EventRecord: enrichments of an event do not   *)
(* overlap, it notifies at most once, and its row and picture are written  *)
(* in order, for every value of the constants, whatever Privacy Mode,      *)
(* edits, crashes and restarts come between.                               *)
(***************************************************************************)
EXTENDS EventLifecycleProofs

-----------------------------------------------------------------------------
(* The inductive invariant.                                                *)

Ending == {"end_lookup", "end_closed", "end_told", "end_off"}
\* Tracked, and still to be published or handed to a task.
Reporting == {"new_told", "new_on", "updated", "update_on"}

\* The event an emitter is at work on, at one of the program points pcs.
Doing(f, pcs) == \E p \in Emitters : emit[p].f = f /\ emit[p].pc \in pcs
\* Taken out of _active by its "end", which may give it a final attempt.
Parting(f) == \E p \in Emitters : emit[p].f = f /\ emit[p].pc = "end_closed" /\ emit[p].found
Tasked(f) == \E t \in Slots : task[t].f = f /\ task[t].pc # "free"

\* Not tracked yet: nothing has been done about the event but to look its row
\* up and insert it.
Unborn(f) ==
    /\ f \notin active /\ pushed[f] = 0
    /\ ~Tasked(f) /\ ~Parting(f) /\ ~Doing(f, Reporting)

\* Nothing in this process will do anything about the event any more.
Retired(f) ==
    /\ ~IsOpen(f) /\ f \notin active /\ f[2] <= made[f[1]]
    /\ ~Tasked(f) /\ ~Doing(f, EmitPcs \ {"idle"})

\* Housekeeping ends events and does nothing else.
HousekeepingEnds == emit["housekeeping"].pc \in Ending \cup {"idle"}

\* Numbers are given out in order; what has none yet has seen nothing.
Numbered ==
    /\ \A k \in Keys : open[k] <= made[k]
    /\ \A f \in Fids : f[2] > made[f[1]] => Unborn(f) /\ ~Doing(f, EmitPcs \ {"idle"})

\* An event that is open and not in _active has not been tracked yet, nor has
\* one whose row is being looked up or inserted.
TrackedOnce ==
    \A f \in Fids : \/ IsOpen(f) /\ f \notin active
                    \/ Doing(f, {"new_read", "new_inserted"})
                    => Unborn(f)

\* An event that ends is open no more, nor is one that has its final attempt.
EndedForGood ==
    /\ \A p \in Emitters : emit[p].pc \in Ending => ~IsOpen(emit[p].f)
    /\ \A t \in Slots : task[t].pc # "free" /\ task[t].final => ~IsOpen(task[t].f)

\* All that is done about an event is done about an event with a row.
HasRow ==
    /\ \A f \in active : row[f] # "none"
    /\ \A t \in Slots : task[t].pc # "free" => row[task[t].f] # "none"
    /\ \A p \in Emitters :
          /\ emit[p].pc \in {"new_inserted"} \cup Reporting
                => row[emit[p].f] # "none"
          /\ emit[p].pc \in {"new_read", "end_closed"} /\ emit[p].found
                => row[emit[p].f] # "none"
          /\ emit[p].pc = "new_read" /\ ~emit[p].found => row[emit[p].f] = "none"

\* A task past its start holds the flag of its event, alone.
FlagHeld ==
    /\ \A t \in Slots : Enriching(task[t].pc) => state[task[t].f].enriching
    /\ EnrichExclusive

ToPush == {"naming", "listing"}

\* Once an event has been pushed, it is marked, or past all marking; a task
\* about to push has marked an event that has not been pushed.
Marked ==
    /\ NotifiedOnce
    /\ \A f \in Fids : pushed[f] # 0 => state[f].notified \/ Retired(f)
    /\ \A t \in Slots : task[t].pc \in ToPush =>
          state[task[t].f].notified /\ pushed[task[t].f] = 0

LifeInv ==
    /\ HousekeepingEnds /\ Numbered /\ TrackedOnce /\ EndedForGood
    /\ HasRow /\ FlagHeld /\ Marked

-----------------------------------------------------------------------------
(* The engine and the emissions.                                           *)

LEMMA LifeInit == Init => LifeInv
<1> SUFFICES ASSUME Init PROVE LifeInv
  OBVIOUS
<1> USE DEF Init, NoEmit, NoTask, FreshState
<1>1. \A f \in Fids : ~Tasked(f) /\ ~Parting(f) /\ Unborn(f)
  BY DEF Tasked, Parting, Unborn, Doing, Reporting
<1>2. HousekeepingEnds /\ EndedForGood /\ HasRow
  BY DEF HousekeepingEnds, EndedForGood, HasRow, Emitters, Ending, Reporting
<1>3. Numbered
  <2>1. \A k \in Keys : open[k] <= made[k]
    OBVIOUS
  <2>2. \A f \in Fids : ~Doing(f, EmitPcs \ {"idle"})
    BY DEF Doing
  <2> QED
    BY <1>1, <2>1, <2>2 DEF Numbered
<1>5. TrackedOnce
  BY <1>1 DEF TrackedOnce
<1>4. FlagHeld /\ Marked
  BY DEF FlagHeld, EnrichExclusive, Enriching, Marked, NotifiedOnce, ToPush
<1> QED
  BY <1>2, <1>3, <1>4, <1>5 DEF LifeInv

\* Only these variables are spoken of.
LEMMA LifeStutter ==
    ASSUME LifeInv, UNCHANGED <<open, made, emit, active, state, task, row, pushed>>
    PROVE  LifeInv'
BY DEF LifeInv, HousekeepingEnds, Numbered, TrackedOnce, EndedForGood, HasRow,
       FlagHeld, Marked, Unborn, Retired, IsOpen, Doing, Parting, Tasked,
       EnrichExclusive, NotifiedOnce

\* What an emitter that was idle is doing afterwards.
LEMMA Emitted ==
    ASSUME TypeOK, NEW p \in Emitters, NEW f \in Fids, NEW pc \in EmitPcs,
           NEW found \in BOOLEAN, Goto(p, pc, f, found)
    PROVE  /\ emit'[p].pc = pc /\ emit'[p].f = f /\ emit'[p].found = found
           /\ \A q \in Emitters : q # p => emit'[q] = emit[q]
BY DEF Goto, TypeOK

\* The worker emits "new" of an event that has just got its number or is not
\* in _active, or "update" of one that is.
LEMMA TrackingStep ==
    ASSUME TypeOK, TypeOK', LifeInv, Idle("worker"), NEW f \in Fids,
           \/ UNCHANGED emit
           \/ f \notin active /\ Goto("worker", "new_read", f, row[f] # "none")
           \/ f \in active /\ Goto("worker", "updated", f, TRUE),
           UNCHANGED <<active, state, task, row, pushed>>,
           \A k \in Keys : made[k] <= made'[k] /\ open'[k] <= made'[k],
           IsOpen(f) \/ f[2] > made[f[1]],
           f[2] <= made'[f[1]],
           \A g \in Fids : IsOpen(g)' => IsOpen(g) \/ g = f
    PROVE  LifeInv'
<1>w. "worker" \in Emitters /\ "housekeeping" \in Emitters /\ "worker" # "housekeeping"
  BY DEF Emitters
<1>u. f \in active \/ Unborn(f)
  BY DEF LifeInv, TrackedOnce, Numbered
<1>r. ~Retired(f) \/ pushed[f] = 0
  BY DEF LifeInv, Numbered, Unborn, Retired
<1>e. \A q \in Emitters :
        \/ emit'[q] = emit[q]
        \/ /\ q = "worker" /\ emit'[q].f = f
           /\ \/ /\ emit'[q].pc = "new_read" /\ f \notin active
                 /\ emit'[q].found = (row[f] # "none")
              \/ emit'[q].pc = "updated" /\ f \in active
  BY <1>w, Emitted DEF EmitPcs
<1>1. HousekeepingEnds'
  BY <1>w, <1>e DEF LifeInv, HousekeepingEnds
<1>b. \A g \in Fids : Unborn(g) => Unborn(g)'
  <2> SUFFICES ASSUME NEW g \in Fids, Unborn(g) PROVE Unborn(g)'
    OBVIOUS
  <2>1. ~Parting(g)'
    BY <1>e DEF Unborn, Parting
  <2>2. ~Doing(g, Reporting)'
    BY <1>e DEF Unborn, Doing, Reporting
  <2> QED
    BY <2>1, <2>2 DEF Unborn, Tasked
<1>2. Numbered'
  <2> SUFFICES ASSUME NEW g \in Fids, g[2] > made'[g[1]]
               PROVE  Unborn(g)' /\ ~Doing(g, EmitPcs \ {"idle"})'
    BY DEF Numbered
  <2>1. g # f /\ g[2] > made[g[1]]
    BY FidParts DEF TypeOK, Numbers
  <2>2. Unborn(g) /\ ~Doing(g, EmitPcs \ {"idle"})
    BY <2>1 DEF LifeInv, Numbered
  <2> QED
    BY <1>b, <1>e, <2>1, <2>2 DEF Doing
<1>3. TrackedOnce'
  <2> SUFFICES ASSUME NEW g \in Fids,
                      \/ IsOpen(g)' /\ g \notin active
                      \/ Doing(g, {"new_read", "new_inserted"})'
               PROVE  Unborn(g)
    BY <1>b DEF TrackedOnce
  <2>1. CASE g = f /\ f \notin active
    BY <1>u, <2>1
  <2>2. CASE g # f
    BY <1>e, <2>2 DEF LifeInv, TrackedOnce, Doing
  <2>3. CASE g = f /\ f \in active
    <3>1. Doing(f, {"new_read", "new_inserted"})
      BY <1>e, <2>3 DEF Doing
    <3> QED
      BY <2>3, <3>1 DEF LifeInv, TrackedOnce
  <2> QED
    BY <2>1, <2>2, <2>3
<1>4. EndedForGood'
  <2>1. ASSUME NEW q \in Emitters, emit'[q].pc \in Ending PROVE ~IsOpen(emit[q].f)' /\ emit'[q] = emit[q]
    <3>1. emit'[q] = emit[q] /\ emit[q].f \in Fids /\ emit[q].pc \in EmitPcs \ {"idle"}
      BY <1>e, <2>1 DEF Ending, TypeOK, EmitPcs
    <3>2. ~IsOpen(emit[q].f)
      BY <2>1, <3>1 DEF LifeInv, EndedForGood
    <3>3. CASE emit[q].f = f
      BY <3>1, <3>2, <3>3 DEF LifeInv, Numbered, Doing
    <3> QED
      BY <3>1, <3>2, <3>3
  <2>2. ASSUME NEW t \in Slots, task[t].pc # "free", task[t].final
        PROVE  ~IsOpen(task[t].f)'
    <3>1. ~IsOpen(task[t].f) /\ task[t].f \in Fids
      BY <2>2 DEF LifeInv, EndedForGood, TypeOK
    <3>2. CASE task[t].f = f
      BY <2>2, <3>1, <3>2 DEF LifeInv, Numbered, Unborn, Tasked
    <3> QED
      BY <3>1, <3>2
  <2> QED
    BY <2>1, <2>2 DEF EndedForGood
<1>5. HasRow'
  BY <1>e DEF LifeInv, HasRow, Reporting
<1>6. FlagHeld'
  BY DEF LifeInv, FlagHeld, EnrichExclusive
<1>7. Marked'
  <2>1. ASSUME NEW g \in Fids, Retired(g), g # f PROVE Retired(g)'
    <3>1. ~IsOpen(g)' /\ g[2] <= made'[g[1]]
      BY <2>1, FidParts DEF Retired, TypeOK, Numbers
    <3>2. ~Doing(g, EmitPcs \ {"idle"})'
      BY <1>e, <2>1 DEF Retired, Doing
    <3> QED
      BY <2>1, <3>1, <3>2 DEF Retired, Tasked
  <2> QED
    BY <1>r, <2>1 DEF LifeInv, Marked, NotifiedOnce
<1> QED
  BY <1>1, <1>2, <1>3, <1>4, <1>5, <1>6, <1>7 DEF LifeInv

\* An emitter that was idle ends the event of a key.
LEMMA EndingStep ==
    ASSUME TypeOK, LifeInv, NEW p \in Emitters, Idle(p), NEW k \in Keys,
           open[k] # 0, EndEvent(p, k), UNCHANGED <<made, state, task, pushed>>
    PROVE  LifeInv'
<1>f. PICK f \in Fids : /\ f = <<k, open[k]>> /\ f[1] = k /\ f[2] = open[k]
                       /\ IsOpen(f) /\ HandleEnd(p, f)
  BY DEF TypeOK, Fids, Numbers, IsOpen, KeyOf, EndEvent
<1>o. /\ \A g \in Fids : IsOpen(g)' <=> IsOpen(g) /\ g[1] # k
      /\ \A j \in Keys : open'[j] <= open[j]
  BY FidParts DEF EndEvent, IsOpen, KeyOf, TypeOK, Numbers
<1>e. \A q \in Emitters :
        \/ emit'[q] = emit[q]
        \/ /\ q = p /\ emit'[q].f = f
           /\ \/ emit'[q].pc = "end_closed" /\ f \in active /\ f \notin active'
              \/ emit'[q].pc = "end_lookup"
  <2>1. CASE UNCHANGED emit
    BY <2>1
  <2>2. CASE f \in active /\ active' = active \ {f} /\ Goto(p, "end_closed", f, TRUE)
    BY <1>f, <2>2, Emitted DEF EmitPcs
  <2>3. CASE Goto(p, "end_lookup", f, row[f] # "none")
    <3>1. (row[f] # "none") \in BOOLEAN /\ "end_lookup" \in EmitPcs
      BY DEF EmitPcs
    <3>2. /\ emit'[p].pc = "end_lookup" /\ emit'[p].f = f
          /\ \A q \in Emitters : q # p => emit'[q] = emit[q]
      BY <1>f, <2>3, <3>1, Emitted
    <3> QED
      BY <3>2
  <2> QED
    BY <1>f, <2>1, <2>2, <2>3 DEF HandleEnd
<1>a. /\ active' \in {active, active \ {f}}
      /\ \A g \in Fids : row'[g] = "none" <=> row[g] = "none"
  BY <1>f DEF HandleEnd, CloseRow, TypeOK
<1>1. HousekeepingEnds'
  BY <1>e DEF LifeInv, HousekeepingEnds, Ending, Emitters
<1>b. \A g \in Fids : Unborn(g) => Unborn(g)'
  <2> SUFFICES ASSUME NEW g \in Fids, Unborn(g) PROVE Unborn(g)'
    OBVIOUS
  <2>1. ~Parting(g)'
    BY <1>e DEF Unborn, Parting
  <2>2. ~Doing(g, Reporting)'
    BY <1>e DEF Unborn, Doing, Reporting
  <2> QED
    BY <1>a, <2>1, <2>2 DEF Unborn, Tasked
<1>2. Numbered'
  <2>1. ASSUME NEW j \in Keys PROVE open'[j] <= made'[j]
    <3>1. open[j] \in Nat /\ open'[j] \in Nat /\ made[j] \in Nat
      BY DEF TypeOK, EndEvent
    <3> QED
      BY <1>o, <3>1 DEF LifeInv, Numbered
  <2>2. ASSUME NEW g \in Fids, g[2] > made'[g[1]]
        PROVE  Unborn(g)' /\ ~Doing(g, EmitPcs \ {"idle"})'
    <3>1. Unborn(g) /\ ~Doing(g, EmitPcs \ {"idle"})
      BY <2>2 DEF LifeInv, Numbered
    <3>2. g # f
      BY <1>f, <2>2 DEF LifeInv, Numbered, TypeOK
    <3> QED
      BY <1>b, <1>e, <3>1, <3>2 DEF Doing
  <2> QED
    BY <2>1, <2>2 DEF Numbered
<1>3. TrackedOnce'
  <2> SUFFICES ASSUME NEW g \in Fids,
                      \/ IsOpen(g)' /\ g \notin active'
                      \/ Doing(g, {"new_read", "new_inserted"})'
               PROVE  Unborn(g)
    BY <1>b DEF TrackedOnce
  <2>1. CASE IsOpen(g)' /\ g \notin active'
    BY <1>a, <1>f, <1>o, <2>1 DEF LifeInv, TrackedOnce
  <2>2. CASE Doing(g, {"new_read", "new_inserted"})'
    BY <1>e, <2>2 DEF LifeInv, TrackedOnce, Doing
  <2> QED
    BY <2>1, <2>2
<1>4. EndedForGood'
  <2>1. ASSUME NEW q \in Emitters, emit'[q].pc \in Ending PROVE ~IsOpen(emit[q].f)'
    <3>1. CASE emit'[q] = emit[q]
      <4>1. ~IsOpen(emit[q].f) /\ emit[q].f \in Fids
        BY <2>1, <3>1 DEF LifeInv, EndedForGood, TypeOK
      <4> QED
        BY <1>o, <3>1, <4>1 DEF IsOpen, KeyOf
    <3>2. CASE emit'[q].f = f
      BY <1>f, <1>o, <3>2 DEF IsOpen, KeyOf
    <3> QED
      BY <1>e, <3>1, <3>2
  <2>2. ASSUME NEW t \in Slots, task[t].pc # "free", task[t].final
        PROVE  ~IsOpen(task[t].f)'
    BY <1>o, <2>2 DEF LifeInv, EndedForGood, TypeOK
  <2> QED
    BY <2>1, <2>2 DEF EndedForGood
<1>5. HasRow'
  <2>1. \A g \in active' : row'[g] # "none"
    BY <1>a DEF LifeInv, HasRow, TypeOK
  <2>2. \A t \in Slots : task[t].pc # "free" => row'[task[t].f] # "none"
    BY <1>a DEF LifeInv, HasRow, TypeOK
  <2>3. f \in active => row'[f] # "none"
    BY <1>a, <1>f DEF LifeInv, HasRow
  <2>4. \A q \in Emitters : emit[q].f \in Fids
    BY DEF TypeOK
  <2> QED
    BY <1>a, <1>e, <2>1, <2>2, <2>3, <2>4 DEF LifeInv, HasRow, Reporting
<1>6. FlagHeld'
  BY DEF LifeInv, FlagHeld, EnrichExclusive
<1>7. Marked'
  <2>1. ASSUME NEW g \in Fids, Retired(g) PROVE Retired(g)'
    <3>1. g # f
      BY <1>f, <2>1 DEF Retired
    <3>2. ~Doing(g, EmitPcs \ {"idle"})'
      BY <1>e, <2>1, <3>1 DEF Retired, Doing
    <3> QED
      BY <1>a, <1>o, <2>1, <3>2 DEF Retired, Tasked
  <2> QED
    BY <2>1 DEF LifeInv, Marked, NotifiedOnce
<1> QED
  BY <1>1, <1>2, <1>3, <1>4, <1>5, <1>6, <1>7 DEF LifeInv

\* One action of the engine.
LEMMA LifeEngine ==
    ASSUME TypeOK, TypeOK', LifeInv, NEW k \in Keys,
           \/ Appear(k) \/ Sighting(k) \/ FallSilent(k) \/ WorkerEnd(k)
           \/ HousekeepingCycle(k) \/ HousekeepingVisit(k) \/ StopEnd(k)
    PROVE  LifeInv'
<1> USE DEF storeVars, outVars, notifyVars, hostVars
<1>w. "worker" \in Emitters /\ "housekeeping" \in Emitters
  BY DEF Emitters
<1>1. CASE Appear(k)
  <2> DEFINE f == <<k, made[k] + 1>>
  <2>1. f \in Fids /\ f[1] = k /\ f[2] = made[k] + 1 /\ made[k] \in Nat
    BY <1>1 DEF Appear, Fids, TypeOK
  <2>2. \/ UNCHANGED emit
        \/ f \notin active /\ Goto("worker", "new_read", f, row[f] # "none")
    BY <1>1 DEF Appear, HandleNew
  <2>3. /\ UNCHANGED <<active, state, task, row, pushed>> /\ Idle("worker")
        /\ open' = [open EXCEPT ![k] = made[k] + 1]
        /\ made' = [made EXCEPT ![k] = made[k] + 1]
    BY <1>1 DEF Appear
  <2>4. \A j \in Keys : made[j] <= made'[j] /\ open'[j] <= made'[j]
    BY <2>3 DEF LifeInv, Numbered, TypeOK
  <2>5. f[2] > made[f[1]] /\ f[2] <= made'[f[1]]
    BY <2>1, <2>3 DEF TypeOK
  <2>6. \A g \in Fids : IsOpen(g)' => IsOpen(g) \/ g = f
    BY <2>3, FidParts DEF IsOpen, KeyOf, TypeOK
  <2> QED
    BY <2>1, <2>2, <2>3, <2>4, <2>5, <2>6, TrackingStep
<1>2. CASE Sighting(k)
  <2> DEFINE f == <<k, open[k]>>
  <2>1. f \in Fids /\ IsOpen(f) /\ f[1] = k /\ f[2] = open[k]
    BY <1>2 DEF Sighting, Fids, Numbers, TypeOK, IsOpen, KeyOf
  <2>2. \/ UNCHANGED emit
        \/ f \notin active /\ Goto("worker", "new_read", f, row[f] # "none")
        \/ f \in active /\ Goto("worker", "updated", f, TRUE)
    BY <1>2 DEF Sighting, HandleUpdate, HandleNew
  <2>3. /\ UNCHANGED <<open, made, active, state, task, row, pushed>> /\ Idle("worker")
    BY <1>2 DEF Sighting
  <2>4. \A j \in Keys : made[j] <= made'[j] /\ open'[j] <= made'[j]
    BY <2>3 DEF LifeInv, Numbered, TypeOK
  <2>5. f[2] <= made'[f[1]] /\ \A g \in Fids : IsOpen(g)' => IsOpen(g)
    BY <2>1, <2>3, <2>4 DEF IsOpen
  <2> QED
    BY <2>1, <2>2, <2>3, <2>4, <2>5, TrackingStep
<1>3. CASE FallSilent(k)
  BY <1>3, LifeStutter DEF FallSilent
<1>4. CASE WorkerEnd(k)
  BY <1>4, <1>w, EndingStep DEF WorkerEnd
<1>5. CASE HousekeepingCycle(k) \/ StopEnd(k)
  BY <1>5, <1>w, EndingStep DEF HousekeepingCycle, StopEnd
<1>6. CASE HousekeepingVisit(k)
  <2>1. CASE Due(k) /\ open[k] # 0
    BY <1>6, <1>w, <2>1, EndingStep DEF HousekeepingVisit
  <2>2. CASE ~(Due(k) /\ open[k] # 0)
    BY <1>6, <2>2, LifeStutter DEF HousekeepingVisit
  <2> QED
    BY <2>1, <2>2
<1> QED
  BY <1>1, <1>2, <1>3, <1>4, <1>5, <1>6

-----------------------------------------------------------------------------
(* Steps of a handler or a task: about one event, which is under way.      *)

\* Such a step touches one event; all others stay as they are, and this one
\* has its number and is not retired.
LEMMA AboutOne ==
    ASSUME TypeOK, LifeInv, NEW f \in Fids,
           Doing(f, EmitPcs \ {"idle"}) \/ Tasked(f),
           UNCHANGED <<open, made>>,
           \A g \in Fids : g # f => /\ g \in active' <=> g \in active
                                    /\ pushed'[g] = pushed[g]
                                    /\ state'[g] = state[g],
           \A q \in Emitters : \/ emit'[q] = emit[q]
                               \/ emit'[q].pc = "idle" \/ emit'[q].f = f,
           \A t \in Slots : \/ task'[t] = task[t]
                            \/ task'[t].pc = "free" \/ task'[t].f = f
    PROVE  /\ Numbered' /\ ~Retired(f) /\ f[2] <= made[f[1]]
           /\ \A g \in Fids : Retired(g) => g # f /\ Retired(g)'
           /\ \A g \in Fids : g # f /\ Unborn(g) => Unborn(g)'
           /\ ((IsOpen(f) /\ f \notin active') \/ Doing(f, {"new_read", "new_inserted"})'
                   => Unborn(f)')
              => TrackedOnce'
<1>1. ASSUME NEW g \in Fids, g # f, NEW pcs, "idle" \notin pcs, Doing(g, pcs)'
      PROVE  Doing(g, pcs)
  BY <1>1 DEF Doing
<1>2. ASSUME NEW g \in Fids, g # f, Tasked(g)' PROVE Tasked(g)
  BY <1>2 DEF Tasked
<1>3. ASSUME NEW g \in Fids, g # f, Parting(g)' PROVE Parting(g)
  BY <1>3 DEF Parting
<1>4. ASSUME NEW g \in Fids, g # f, Unborn(g) PROVE Unborn(g)'
  <2>1. ~Doing(g, Reporting)'
    BY <1>1, <1>4 DEF Unborn, Reporting
  <2> QED
    BY <1>2, <1>3, <1>4, <2>1 DEF Unborn
<1>5. ~Retired(f)
  BY DEF Retired
<1>6. ~(f[2] > made[f[1]])
  BY DEF LifeInv, Numbered, Unborn
<1>7. f[2] <= made[f[1]]
  BY <1>6, FidParts DEF TypeOK, Numbers
<1>8. ASSUME NEW g \in Fids, Retired(g) PROVE g # f /\ Retired(g)'
  <2>1. g # f
    BY <1>5, <1>8
  <2>2. ~Doing(g, EmitPcs \ {"idle"})'
    BY <1>1, <1>8, <2>1 DEF Retired
  <2> QED
    BY <1>2, <1>8, <2>1, <2>2 DEF Retired, IsOpen
<1>9. Numbered'
  <2>1. ASSUME NEW g \in Fids, g[2] > made[g[1]]
        PROVE  Unborn(g)' /\ ~Doing(g, EmitPcs \ {"idle"})'
    <3>1. g # f /\ Unborn(g) /\ ~Doing(g, EmitPcs \ {"idle"})
      BY <1>6, <2>1 DEF LifeInv, Numbered
    <3> QED
      BY <1>1, <1>4, <3>1
  <2> QED
    BY <2>1 DEF LifeInv, Numbered
<1>10. ASSUME (IsOpen(f) /\ f \notin active') \/ Doing(f, {"new_read", "new_inserted"})'
                 => Unborn(f)'
       PROVE  TrackedOnce'
  <2>1. ASSUME NEW g \in Fids, g # f,
               \/ IsOpen(g)' /\ g \notin active'
               \/ Doing(g, {"new_read", "new_inserted"})'
        PROVE  Unborn(g)'
    <3>1. \/ IsOpen(g) /\ g \notin active
          \/ Doing(g, {"new_read", "new_inserted"})
      BY <1>1, <2>1 DEF IsOpen
    <3> QED
      BY <1>4, <2>1, <3>1 DEF LifeInv, TrackedOnce
  <2> QED
    BY <1>10, <2>1 DEF TrackedOnce, IsOpen
<1> QED
  BY <1>4, <1>5, <1>7, <1>8, <1>9, <1>10

\* How a handler goes on: its own emission only.
LEMMA HandlerMoves ==
    ASSUME TypeOK, NEW p \in Emitters
    PROVE  /\ \A pc : Resume(p, pc) =>
                 /\ emit'[p].pc = pc /\ emit'[p].f = emit[p].f
                 /\ emit'[p].found = emit[p].found
                 /\ \A q \in Emitters : q # p => emit'[q] = emit[q]
           /\ Return(p) => /\ emit'[p].pc = "idle"
                           /\ \A q \in Emitters : q # p => emit'[q] = emit[q]
BY DEF Resume, Return, NoEmit, TypeOK

\* A new task takes a free slot.
LEMMA Spawned ==
    ASSUME TypeOK, NEW f \in Fids, NEW final \in BOOLEAN, Spawn(f, final)
    PROVE  \A t \in Slots :
              \/ task'[t] = task[t]
              \/ /\ task[t].pc = "free"
                 /\ task'[t] = [pc |-> "spawned", f |-> f, final |-> final]
BY DEF Spawn, NoTask, TypeOK

\* "new" of an event, from its row to its first task.
LEMMA LifeNew ==
    ASSUME TypeOK, LifeInv, NEW p \in Emitters,
           NewInsert(p) \/ NewTrack(p) \/ NewDone(p) \/ UpdateDone(p)
    PROVE  LifeInv'
<1> USE DEF engineVars, storeVars, outVars, notifyVars, hostVars
<1>f. PICK f \in Fids : f = emit[p].f
  BY DEF TypeOK
<1>p. p = "worker" /\ emit[p].pc \in {"new_read", "new_inserted"} \cup Reporting
  BY DEF NewInsert, NewTrack, NewDone, UpdateDone, LifeInv, HousekeepingEnds,
         Ending, Emitters, Reporting
<1>d. Doing(f, EmitPcs \ {"idle"})
  BY <1>f, <1>p DEF Doing, EmitPcs, Reporting
<1>o. UNCHANGED <<open, made, pushed>>
  BY DEF NewInsert, NewTrack, NewDone, UpdateDone
<1>1. CASE NewInsert(p)
  <2>e. /\ emit'[p].pc = "new_inserted" /\ emit'[p].f = f
        /\ \A q \in Emitters : q # p => emit'[q] = emit[q]
    BY <1>1, <1>f, HandlerMoves DEF NewInsert
  <2>r. /\ \A g \in Fids : row[g] # "none" => row'[g] # "none"
        /\ \A g \in Fids : g # f => row'[g] = row[g]
        /\ row'[f] # "none"
    BY <1>1, <1>f DEF NewInsert, LifeInv, HasRow, TypeOK
  <2>u. Unborn(f) /\ UNCHANGED <<active, state, task>> /\ emit[p].pc = "new_read"
    BY <1>1, <1>f DEF NewInsert, LifeInv, TrackedOnce, Doing
  <2>b. Unborn(f)'
    <3>1. ~Parting(f)' /\ ~Doing(f, Reporting)'
      BY <2>e, <2>u DEF Unborn, Parting, Doing, Reporting
    <3> QED
      BY <1>o, <2>u, <3>1 DEF Unborn, Tasked
  <2>1. Numbered' /\ TrackedOnce' /\ \A g \in Fids : Retired(g) => Retired(g)'
    BY <1>d, <1>o, <2>b, <2>e, <2>u, AboutOne
  <2>2. HousekeepingEnds' /\ EndedForGood'
    BY <1>o, <1>p, <2>e, <2>u
       DEF LifeInv, HousekeepingEnds, EndedForGood, Ending, IsOpen, KeyOf, Emitters
  <2>3. HasRow'
    BY <1>f, <2>e, <2>r, <2>u, <1>p DEF LifeInv, HasRow, TypeOK, Emitters, HousekeepingEnds, Ending
  <2>4. FlagHeld' /\ Marked'
    BY <1>o, <2>1, <2>u DEF LifeInv, FlagHeld, EnrichExclusive, Marked, NotifiedOnce
  <2> QED
    BY <2>1, <2>2, <2>3, <2>4 DEF LifeInv
<1>2. CASE NewTrack(p)
  <2>e. /\ emit'[p].pc = "new_told" /\ emit'[p].f = f
        /\ \A q \in Emitters : q # p => emit'[q] = emit[q]
    BY <1>2, <1>f, HandlerMoves DEF NewTrack
  <2>u. Unborn(f) /\ UNCHANGED <<row, task>> /\ emit[p].pc = "new_inserted"
    BY <1>2, <1>f DEF NewTrack, LifeInv, TrackedOnce, Doing
  <2>s. /\ active' = active \cup {f}
        /\ \A g \in Fids : g # f => state'[g] = state[g]
    BY <1>2, <1>f DEF NewTrack, TypeOK
  <2>n. ~Doing(f, {"new_read", "new_inserted"})'
    BY <1>p, <2>e DEF Doing, LifeInv, HousekeepingEnds, Ending, Emitters
  <2>1. Numbered' /\ TrackedOnce' /\ \A g \in Fids : Retired(g) => Retired(g)'
    BY <1>d, <1>o, <2>e, <2>n, <2>s, <2>u, AboutOne
  <2>2. HousekeepingEnds' /\ EndedForGood'
    BY <1>o, <1>p, <2>e, <2>u
       DEF LifeInv, HousekeepingEnds, EndedForGood, Ending, IsOpen, KeyOf, Emitters
  <2>3. HasRow'
    BY <1>f, <2>e, <2>s, <2>u, <1>p DEF LifeInv, HasRow, TypeOK
  <2>4. FlagHeld'
    <3>1. \A t \in Slots : Enriching(task[t].pc) => task[t].f # f
      BY <2>u DEF Unborn, Tasked, Enriching
    <3> QED
      BY <2>s, <2>u, <3>1 DEF LifeInv, FlagHeld, EnrichExclusive, TypeOK
  <2>5. Marked'
    <3>1. \A t \in Slots : task[t].pc \in ToPush => task[t].f # f
      BY <2>u DEF Unborn, Tasked, ToPush
    <3>2. pushed[f] = 0
      BY <2>u DEF Unborn
    <3> QED
      BY <1>o, <2>1, <2>s, <2>u, <3>1, <3>2 DEF LifeInv, Marked, NotifiedOnce, TypeOK
  <2> QED
    BY <2>1, <2>2, <2>3, <2>4, <2>5 DEF LifeInv
<1>3. CASE NewDone(p) \/ UpdateDone(p)
  <2>e. /\ emit'[p].pc = "idle" /\ \A q \in Emitters : q # p => emit'[q] = emit[q]
    BY <1>3, HandlerMoves DEF NewDone, UpdateDone
  <2>u. UNCHANGED <<active, state, row>> /\ emit[p].pc \in Reporting
    BY <1>3 DEF NewDone, UpdateDone, Reporting
  <2>t. \A t \in Slots : \/ task'[t] = task[t]
                         \/ task'[t] = [pc |-> "spawned", f |-> f, final |-> FALSE]
    BY <1>3, <1>f, Spawned DEF NewDone, UpdateDone
  <2>b. /\ IsOpen(f) => f \in active
        /\ ~Doing(f, {"new_read", "new_inserted"})'
    <3>1. ~Unborn(f)
      BY <1>f, <2>u DEF Unborn, Doing
    <3>2. ~Doing(f, {"new_read", "new_inserted"})
      BY <3>1 DEF LifeInv, TrackedOnce
    <3> QED
      BY <2>e, <3>1, <3>2 DEF LifeInv, TrackedOnce, Doing
  <2>1. Numbered' /\ TrackedOnce' /\ \A g \in Fids : Retired(g) => Retired(g)'
    BY <1>d, <1>o, <2>b, <2>e, <2>t, <2>u, AboutOne
  <2>2. HousekeepingEnds' /\ EndedForGood'
    BY <1>o, <1>p, <2>e, <2>t, <2>u
       DEF LifeInv, HousekeepingEnds, EndedForGood, Ending, IsOpen, KeyOf, Emitters
  <2>3. HasRow'
    <3>1. row[f] # "none"
      BY <1>f, <2>u DEF LifeInv, HasRow
    <3>2. \A t \in Slots : task'[t].pc # "free" => row[task'[t].f] # "none"
      BY <2>t, <3>1 DEF LifeInv, HasRow
    <3> QED
      BY <2>e, <2>u, <3>2 DEF LifeInv, HasRow, Reporting
  <2>4. FlagHeld' /\ Marked'
    BY <1>o, <2>1, <2>t, <2>u DEF LifeInv, FlagHeld, EnrichExclusive, Enriching, Marked,
                                        NotifiedOnce, ToPush
  <2> QED
    BY <2>1, <2>2, <2>3, <2>4 DEF LifeInv
<1> QED
  BY <1>1, <1>2, <1>3

\* "end" of an event, from its row to the clip.
LEMMA LifeEnd ==
    ASSUME TypeOK, LifeInv, NEW p \in Emitters,
           EndLookup(p) \/ EndFinal(p) \/ EndDone(p)
    PROVE  LifeInv'
<1> USE DEF engineVars, storeVars, outVars, notifyVars, hostVars
<1>f. PICK f \in Fids : f = emit[p].f
  BY DEF TypeOK
<1>p. emit[p].pc \in Ending
  BY DEF EndLookup, EndFinal, EndDone, Ending
<1>d. Doing(f, EmitPcs \ {"idle"}) /\ ~IsOpen(f)
  BY <1>f, <1>p DEF Doing, EmitPcs, Ending, LifeInv, EndedForGood
<1>o. UNCHANGED <<open, made, pushed, state>>
  BY DEF EndLookup, EndFinal, EndDone
<1>r. \A g \in Fids : row'[g] = "none" <=> row[g] = "none"
  BY <1>f DEF EndLookup, EndFinal, EndDone, CloseRow, TypeOK
<1>e. /\ \A q \in Emitters : q # p => emit'[q] = emit[q]
      /\ \/ emit'[p].pc = "idle"
         \/ /\ emit'[p].f = f
            /\ \/ emit'[p].pc = "end_closed" /\ ~emit'[p].found
               \/ emit'[p].pc = "end_told"
  <2>1. CASE EndLookup(p)
    <3>1. CASE emit[p].found
      BY <1>f, <2>1, <3>1 DEF EndLookup, TypeOK
    <3>2. CASE ~emit[p].found
      BY <2>1, <3>2, HandlerMoves DEF EndLookup
    <3> QED
      BY <3>1, <3>2
  <2>2. CASE EndFinal(p)
    BY <1>f, <2>2, HandlerMoves DEF EndFinal
  <2>3. CASE EndDone(p)
    BY <2>3, HandlerMoves DEF EndDone
  <2> QED
    BY <2>1, <2>2, <2>3
<1>1. CASE UNCHANGED <<active, task>>
  <2>b. Doing(f, {"new_read", "new_inserted"})' => Unborn(f)'
    <3>1. ASSUME Doing(f, {"new_read", "new_inserted"})' PROVE Unborn(f)'
      <4>1. Unborn(f)
        BY <1>e, <3>1 DEF Doing, LifeInv, TrackedOnce
      <4>2. ~Parting(f)' /\ ~Doing(f, Reporting)'
        BY <1>e, <4>1 DEF Unborn, Parting, Doing, Reporting
      <4> QED
        BY <1>1, <1>o, <4>1, <4>2 DEF Unborn, Tasked
    <3> QED
      BY <3>1
  <2>1. Numbered' /\ TrackedOnce' /\ \A g \in Fids : Retired(g) => Retired(g)'
    BY <1>1, <1>d, <1>e, <1>o, <2>b, AboutOne
  <2>2. HousekeepingEnds' /\ EndedForGood'
    BY <1>1, <1>d, <1>e, <1>o
       DEF LifeInv, HousekeepingEnds, EndedForGood, Ending, IsOpen, KeyOf, Emitters
  <2>3. HasRow'
    <3>1. \A g \in active' : row'[g] # "none"
      BY <1>1, <1>r DEF LifeInv, HasRow, TypeOK
    <3>2. \A t \in Slots : task'[t].pc # "free" => row'[task'[t].f] # "none"
      BY <1>1, <1>r DEF LifeInv, HasRow, TypeOK
    <3>3. \A q \in Emitters : emit[q].f \in Fids
      BY DEF TypeOK
    <3> QED
      BY <1>e, <1>r, <3>1, <3>2, <3>3 DEF LifeInv, HasRow, Reporting
  <2>4. FlagHeld' /\ Marked'
    BY <1>1, <1>o, <2>1 DEF LifeInv, FlagHeld, EnrichExclusive, Marked, NotifiedOnce
  <2> QED
    BY <2>1, <2>2, <2>3, <2>4 DEF LifeInv
<1>2. CASE EndFinal(p) /\ emit[p].found /\ active' = active \cup {f} /\ Spawn(f, TRUE)
  <2>t. \A t \in Slots : \/ task'[t] = task[t]
                         \/ task'[t] = [pc |-> "spawned", f |-> f, final |-> TRUE]
    BY <1>2, Spawned
  <2>u. Parting(f) /\ row[f] # "none"
    BY <1>2, <1>f DEF EndFinal, Parting, LifeInv, HasRow
  <2>b. ~Doing(f, {"new_read", "new_inserted"})'
    <3>1. ~Doing(f, {"new_read", "new_inserted"})
      BY <2>u DEF Unborn, LifeInv, TrackedOnce
    <3> QED
      BY <1>e, <3>1 DEF Doing
  <2>1. Numbered' /\ TrackedOnce' /\ \A g \in Fids : Retired(g) => Retired(g)'
    BY <1>2, <1>d, <1>e, <1>o, <2>b, <2>t, AboutOne
  <2>2. HousekeepingEnds' /\ EndedForGood'
    BY <1>d, <1>e, <1>o, <2>t
       DEF LifeInv, HousekeepingEnds, EndedForGood, Ending, IsOpen, KeyOf, Emitters
  <2>3. HasRow'
    <3>1. \A t \in Slots : task'[t].pc # "free" => row[task'[t].f] # "none"
      BY <2>t, <2>u DEF LifeInv, HasRow
    <3>2. UNCHANGED row
      BY <1>2 DEF EndFinal
    <3> QED
      BY <1>2, <1>e, <2>u, <3>1, <3>2 DEF LifeInv, HasRow, Reporting
  <2>4. FlagHeld' /\ Marked'
    BY <1>o, <2>1, <2>t DEF LifeInv, FlagHeld, EnrichExclusive, Enriching, Marked,
                                        NotifiedOnce, ToPush
  <2> QED
    BY <2>1, <2>2, <2>3, <2>4 DEF LifeInv
<1> QED
  BY <1>1, <1>2, <1>f DEF EndLookup, EndFinal, EndDone

\* MQTT ON or OFF: the emission goes on, and nothing else of these.
LEMMA LifePublish ==
    ASSUME TypeOK, LifeInv, NEW p \in Emitters, Publish(p)
    PROVE  LifeInv'
<1> USE DEF engineVars, storeVars, notifyVars, hostVars
<1>f. PICK f \in Fids : f = emit[p].f
  BY DEF TypeOK
<1>o. UNCHANGED <<open, made, active, state, task, row, pushed>>
  BY DEF Publish
<1>e. /\ emit'[p].f = f /\ \A q \in Emitters : q # p => emit'[q] = emit[q]
      /\ \/ emit[p].pc \in Reporting /\ emit'[p].pc \in {"new_on", "update_on"}
         \/ emit[p].pc = "end_told" /\ emit'[p].pc = "end_off"
  BY <1>f, HandlerMoves DEF Publish, Reporting
<1>d. Doing(f, EmitPcs \ {"idle"})
  BY <1>e, <1>f DEF Doing, EmitPcs, Reporting
<1>1. Numbered' /\ TrackedOnce' /\ \A g \in Fids : Retired(g) => Retired(g)'
  <2>1. ASSUME (IsOpen(f) /\ f \notin active') \/ Doing(f, {"new_read", "new_inserted"})'
        PROVE  Unborn(f)'
    <3>1. (IsOpen(f) /\ f \notin active) \/ Doing(f, {"new_read", "new_inserted"})
      BY <1>e, <1>o, <2>1 DEF Doing
    <3>2. Unborn(f)
      BY <3>1 DEF LifeInv, TrackedOnce
    <3>3. emit[p].pc = "end_told" /\ emit'[p].pc = "end_off"
      BY <1>e, <1>f, <3>2 DEF Unborn, Doing
    <3>4. ~Parting(f)' /\ ~Doing(f, Reporting)'
      BY <1>e, <3>2, <3>3 DEF Unborn, Parting, Doing, Reporting
    <3> QED
      BY <1>o, <3>2, <3>4 DEF Unborn, Tasked
  <2> QED
    BY <1>d, <1>e, <1>o, <2>1, AboutOne
<1>2. HousekeepingEnds' /\ EndedForGood'
  BY <1>e, <1>f, <1>o
     DEF LifeInv, HousekeepingEnds, EndedForGood, Ending, Reporting, IsOpen, KeyOf, Emitters
<1>3. HasRow'
  BY <1>e, <1>f, <1>o DEF LifeInv, HasRow, Reporting
<1>4. FlagHeld' /\ Marked'
  BY <1>1, <1>o DEF LifeInv, FlagHeld, EnrichExclusive, Marked, NotifiedOnce
<1> QED
  BY <1>1, <1>2, <1>3, <1>4 DEF LifeInv

\* What a task's step does to its slot, its event's entry and its pushes.
LEMMA TaskEffect ==
    ASSUME TypeOK, FlagHeld, NEW u \in Slots, Enrich(u) \/ EnrichFail(u),
           NEW f \in Fids, f = task[u].f
    PROVE  /\ UNCHANGED <<open, made, emit, row>> /\ task[u].pc # "free"
           /\ \/ task'[u].pc = "free"
              \/ task'[u].f = f /\ (task'[u].final => task[u].final)
           /\ \/ active' = active
              \/ active' = active \ {f} /\ task[u].final
           /\ \A g \in Fids : g # f => state'[g] = state[g] /\ pushed'[g] = pushed[g]
           /\ \/ UNCHANGED state /\ ~Enriching(task'[u].pc)
              \/ /\ Enriching(task[u].pc) \/ ~state[f].enriching
                 /\ Enriching(task'[u].pc) => state'[f].enriching
           /\ state[f].notified => state'[f].notified
           /\ task'[u].pc \in ToPush =>
                 /\ UNCHANGED pushed
                 /\ \/ state'[f].notified /\ ~state[f].notified
                    \/ task[u].pc \in ToPush /\ UNCHANGED state
           /\ \/ UNCHANGED pushed
              \/ task[u].pc \in ToPush /\ pushed'[f] = pushed[f] + 1
<1> USE DEF engineVars, storeVars, outVars, notifyVars, hostVars, ToPush
<1>a. ASSUME NEW pc, Advance(u, pc)
      PROVE  task'[u].pc = pc /\ task'[u].f = f /\ task'[u].final = task[u].final
  BY <1>a DEF Advance, TypeOK
<1>b. Leave(u) => /\ task'[u].pc = "free"
                  /\ \/ active' = active
                     \/ active' = active \ {f} /\ task[u].final
  BY DEF Leave, NoTask, TypeOK
<1>e. ASSUME NEW s \in Entry, state' = [state EXCEPT ![f] = s]
      PROVE  state'[f] = s /\ \A g \in Fids : g # f => state'[g] = state[g]
  BY <1>e DEF TypeOK
<1>d. ASSUME NEW s \in Entry, Decide(u, s), s.enriching, s.notified = state[f].notified
      PROVE  /\ \/ task'[u].pc = "free"
                \/ task'[u].f = f /\ task'[u].final = task[u].final
             /\ \/ active' = active
                \/ active' = active \ {f} /\ task[u].final
             /\ \A g \in Fids : g # f => state'[g] = state[g]
             /\ Enriching(task'[u].pc) => state'[f].enriching
             /\ state[f].notified => state'[f].notified
             /\ task'[u].pc \in ToPush => state'[f].notified /\ ~state[f].notified
  <2>1. CASE /\ NotificationDue(f, s)
             /\ state' = [state EXCEPT ![f] = [s EXCEPT !.notified = TRUE]]
             /\ Advance(u, "naming") /\ UNCHANGED active
    <3>1. [s EXCEPT !.notified = TRUE] \in Entry
      BY DEF Entry
    <3>2. /\ state'[f] = [s EXCEPT !.notified = TRUE]
          /\ \A g \in Fids : g # f => state'[g] = state[g]
      BY <1>e, <2>1, <3>1
    <3>3. state'[f].notified /\ state'[f].enriching
      BY <1>d, <3>2 DEF Entry
    <3> QED
      BY <1>a, <1>d, <2>1, <3>2, <3>3 DEF NotificationDue
  <2>2. CASE /\ state' = [state EXCEPT ![f] = [s EXCEPT !.enriching = FALSE]] /\ Leave(u)
    <3>1. [s EXCEPT !.enriching = FALSE] \in Entry
      BY DEF Entry
    <3>2. /\ state'[f] = [s EXCEPT !.enriching = FALSE]
          /\ \A g \in Fids : g # f => state'[g] = state[g]
      BY <1>e, <2>2, <3>1
    <3>3. state'[f].notified = s.notified
      BY <3>2 DEF Entry
    <3> QED
      BY <1>b, <1>d, <2>2, <3>2, <3>3 DEF Enriching
  <2> QED
    BY <1>d, <2>1, <2>2 DEF Decide
<1>s. state[f] \in Entry
  BY DEF TypeOK, Entry
<1>1. CASE EnrichStart(u)
  <2>1. CASE Busy(f)
    BY <1>1, <1>b, <2>1 DEF EnrichStart, Enriching
  <2>2. CASE ~Busy(f) /\ IsPrivate(f)
    <3>1. /\ [state[f] EXCEPT !.enriching = TRUE] \in Entry
          /\ [state[f] EXCEPT !.enriching = TRUE].enriching
          /\ [state[f] EXCEPT !.enriching = TRUE].notified = state[f].notified
      BY <1>s DEF Entry
    <3>2. Decide(u, [state[f] EXCEPT !.enriching = TRUE])
      BY <1>1, <2>2 DEF EnrichStart
    <3> QED
      BY <1>1, <1>d, <2>2, <3>1, <3>2 DEF EnrichStart, Busy
  <2>3. CASE ~Busy(f) /\ ~IsPrivate(f)
    <3>1. state' = [state EXCEPT ![f].enriching = TRUE] /\ Advance(u, "snapshot")
      BY <1>1, <2>3 DEF EnrichStart
    <3>2. /\ \A g \in Fids : g # f => state'[g] = state[g]
          /\ state'[f].enriching /\ state'[f].notified = state[f].notified
      BY <3>1 DEF TypeOK
    <3> QED
      BY <1>1, <1>a, <2>3, <3>1, <3>2 DEF EnrichStart, Busy
  <2> QED
    BY <2>1, <2>2, <2>3
<1>h. Enriching(task[u].pc) => state[f].enriching
  BY DEF FlagHeld
<1>2. CASE EnrichSnapshot(u)
  <2>1. Enriching(task[u].pc)
    BY <1>2 DEF EnrichSnapshot, Enriching
  <2>2. CASE Advance(u, "annotate") /\ UNCHANGED <<active, state, hot>>
    BY <1>2, <1>a, <1>h, <2>1, <2>2 DEF EnrichSnapshot
  <2>3. CASE Decide(u, state[f])
    BY <1>2, <1>d, <1>h, <1>s, <2>1, <2>3 DEF EnrichSnapshot
  <2> QED
    BY <1>2, <2>2, <2>3 DEF EnrichSnapshot
<1>3. CASE EnrichDecide(u)
  <2>1. Enriching(task[u].pc) /\ Decide(u, state[f])
    BY <1>3 DEF EnrichDecide, Enriching
  <2> QED
    BY <1>3, <1>d, <1>h, <1>s, <2>1 DEF EnrichDecide
<1>4. CASE EnrichWrite(u)
  BY <1>4, <1>a, <1>h DEF EnrichWrite, Enriching
<1>5. CASE EnrichMark(u)
  <2>1. /\ \A g \in Fids : g # f => state'[g] = state[g]
        /\ state'[f].enriching = state[f].enriching
        /\ state'[f].notified = state[f].notified
    BY <1>5 DEF EnrichMark, TypeOK
  <2> QED
    BY <1>5, <1>a, <1>h, <2>1 DEF EnrichMark, Enriching
<1>6. ASSUME state' = [state EXCEPT ![f].enriching = FALSE]
      PROVE  /\ \A g \in Fids : g # f => state'[g] = state[g]
             /\ state'[f].notified = state[f].notified
  BY <1>6 DEF TypeOK
<1>7. CASE EnrichPush(u)
  <2>1. /\ \A g \in Fids : g # f => pushed'[g] = pushed[g]
        /\ pushed'[f] = pushed[f] + 1
    BY <1>7 DEF EnrichPush, TypeOK
  <2> QED
    BY <1>7, <1>a, <1>h, <2>1 DEF EnrichPush, Enriching
<1>11. CASE EnrichGate(u)
  <2>1. CASE Withheld(f)
    BY <1>6, <1>11, <1>b, <2>1 DEF EnrichGate, Enriching, ToPush
  <2>2. CASE ~Withheld(f)
    BY <1>11, <1>a, <1>h, <2>2 DEF EnrichGate, Enriching, ToPush
  <2> QED
    BY <2>1, <2>2
<1>8. CASE EnrichHandOver(u)
  <2>1. /\ task'[u].pc = "sender" /\ task'[u].f = f /\ ~task'[u].final
    BY <1>8 DEF EnrichHandOver, TypeOK
  <2> QED
    BY <1>6, <1>8, <2>1 DEF EnrichHandOver, Enriching
<1>9. CASE SenderDone(u)
  <2>1. task'[u].pc = "free"
    BY <1>9 DEF SenderDone, NoTask, TypeOK
  <2> QED
    BY <1>9, <2>1 DEF SenderDone, Enriching
<1>10. CASE EnrichFail(u)
  BY <1>6, <1>10, <1>b DEF EnrichFail, Enriching
<1> QED
  BY <1>1, <1>2, <1>3, <1>4, <1>5, <1>7, <1>8, <1>9, <1>10, <1>11 DEF Enrich

\* One action of a task.
LEMMA LifeTask ==
    ASSUME TypeOK, LifeInv, NEW u \in Slots, Enrich(u) \/ EnrichFail(u)
    PROVE  LifeInv'
<1>f. PICK f \in Fids : f = task[u].f
  BY DEF TypeOK
<1>h. FlagHeld
  BY DEF LifeInv
<1>s. \A t \in Slots : t # u => task'[t] = task[t]
  BY OwnSlot
<1>k. UNCHANGED <<open, made, emit, row>> /\ task[u].pc # "free"
  BY <1>f, <1>h, TaskEffect
<1>t. \/ task'[u].pc = "free"
      \/ task'[u].f = f /\ (task'[u].final => task[u].final)
  BY <1>f, <1>h, TaskEffect
<1>a. \/ active' = active
      \/ active' = active \ {f} /\ task[u].final
  BY <1>f, <1>h, TaskEffect
<1>g. \A g \in Fids : g # f => state'[g] = state[g] /\ pushed'[g] = pushed[g]
  BY <1>f, <1>h, TaskEffect
<1>b. /\ IsOpen(f) => f \in active'
      /\ ~Doing(f, {"new_read", "new_inserted"})
  <2>1. ~Unborn(f)
    BY <1>f, <1>k DEF Unborn, Tasked
  <2> QED
    BY <1>a, <1>f, <1>k, <2>1 DEF LifeInv, TrackedOnce, EndedForGood
<1>1. /\ Numbered' /\ TrackedOnce' /\ ~Retired(f)
      /\ \A g \in Fids : Retired(g) => Retired(g)'
  <2>1. Tasked(f)
    BY <1>f, <1>k DEF Tasked
  <2>2. ~Doing(f, {"new_read", "new_inserted"})'
    BY <1>b, <1>k DEF Doing
  <2> QED
    BY <1>a, <1>b, <1>g, <1>k, <1>s, <1>t, <2>1, <2>2, AboutOne
<1>2. HousekeepingEnds' /\ EndedForGood'
  BY <1>f, <1>k, <1>s, <1>t DEF LifeInv, HousekeepingEnds, EndedForGood, IsOpen, KeyOf
<1>3. HasRow'
  <2>1. \A t \in Slots : task'[t].pc # "free" => row[task'[t].f] # "none"
    BY <1>f, <1>k, <1>s, <1>t DEF LifeInv, HasRow
  <2> QED
    BY <1>a, <1>k, <2>1 DEF LifeInv, HasRow
<1>4. FlagHeld'
  <2>1. CASE UNCHANGED state /\ ~Enriching(task'[u].pc)
    BY <1>s, <2>1 DEF LifeInv, FlagHeld, EnrichExclusive
  <2>2. CASE /\ Enriching(task[u].pc) \/ ~state[f].enriching
             /\ Enriching(task'[u].pc) => state'[f].enriching
    <3>1. \A t \in Slots : t # u /\ Enriching(task[t].pc) => task[t].f # f
      BY <1>f, <2>2 DEF LifeInv, FlagHeld, EnrichExclusive
    <3>2. Enriching(task'[u].pc) => task'[u].f = f
      BY <1>t DEF Enriching
    <3>3. \A t \in Slots : task[t].f \in Fids
      BY DEF TypeOK
    <3> QED
      BY <1>g, <1>s, <2>2, <3>1, <3>2, <3>3 DEF LifeInv, FlagHeld, EnrichExclusive
  <2> QED
    BY <1>f, <1>h, <2>1, <2>2, TaskEffect
<1>5. Marked'
  <2>1. state[f].notified => state'[f].notified
    BY <1>f, <1>h, TaskEffect
  <2>2. task'[u].pc \in ToPush =>
           /\ UNCHANGED pushed
           /\ \/ state'[f].notified /\ ~state[f].notified
              \/ task[u].pc \in ToPush /\ UNCHANGED state
    BY <1>f, <1>h, TaskEffect
  <2>3. \/ UNCHANGED pushed
        \/ task[u].pc \in ToPush /\ pushed'[f] = pushed[f] + 1
    BY <1>f, <1>h, TaskEffect
  <2>4. \A g \in Fids : pushed[g] \in Nat
    BY DEF TypeOK
  <2>5. task[u].pc \in ToPush => pushed[f] = 0 /\ state[f].notified
    BY <1>f DEF LifeInv, Marked
  <2>6. NotifiedOnce'
    BY <1>g, <2>3, <2>4, <2>5 DEF LifeInv, Marked, NotifiedOnce
  <2>7. \A g \in Fids : pushed'[g] # 0 => state'[g].notified \/ Retired(g)'
    BY <1>1, <1>g, <2>1, <2>3, <2>5 DEF LifeInv, Marked
  <2>8. \A t \in Slots : t # u /\ task'[t].pc \in ToPush =>
           state'[task'[t].f].notified /\ pushed'[task'[t].f] = 0
    <3> SUFFICES ASSUME NEW t \in Slots, t # u, task[t].pc \in ToPush
                 PROVE  state'[task[t].f].notified /\ pushed'[task[t].f] = 0
      BY <1>s
    <3>1. task[t].f \in Fids /\ state[task[t].f].notified /\ pushed[task[t].f] = 0
      BY DEF LifeInv, Marked, TypeOK
    <3>2. CASE task[t].f # f
      BY <1>g, <3>1, <3>2
    <3>3. CASE task[t].f = f
      <4>1. task[u].pc \notin ToPush
        BY <1>f, <3>3 DEF LifeInv, FlagHeld, EnrichExclusive, Enriching, ToPush
      <4> QED
        BY <2>1, <2>3, <3>1, <3>3, <4>1
    <3> QED
      BY <3>2, <3>3
  <2>9. task'[u].pc \in ToPush => state'[task'[u].f].notified /\ pushed'[task'[u].f] = 0
    BY <1>1, <1>f, <1>t, <2>2, <2>5 DEF LifeInv, Marked, ToPush
  <2> QED
    BY <2>6, <2>7, <2>8, <2>9 DEF Marked
<1> QED
  BY <1>1, <1>2, <1>3, <1>4, <1>5 DEF LifeInv

\* One action of the administrator or of the process.
LEMMA LifeHost ==
    ASSUME TypeOK, LifeInv,
           \/ \E c \in Cameras : PrivacySet(c) \/ Disable(c)
           \/ PrivacyShutdown \/ PrivacyAck \/ Stop \/ Down \/ Crash \/ Boot
    PROVE  LifeInv'
<1> USE DEF engineVars, storeVars, outVars, notifyVars, hostVars
<1>n. NoTask.pc = "free" /\ NoEmit.pc = "idle" /\ ~FreshState.enriching
  BY DEF NoTask, NoEmit, FreshState
<1>1. ASSUME NEW c \in Cameras, PrivacySet(c) \/ Disable(c) PROVE LifeInv'
  BY <1>1, LifeStutter DEF PrivacySet, Disable
<1>2. CASE PrivacyAck \/ Boot
  BY <1>2, LifeStutter DEF PrivacyAck, Boot
\* The tasks are gone, or the emissions, or both with all that is open.
<1>3. ASSUME \A t \in Slots : task'[t] = task[t] \/ task'[t].pc = "free",
             \A q \in Emitters : emit'[q] = emit[q] \/ emit'[q].pc = "idle",
             UNCHANGED <<made, row, pushed>>, active' \subseteq active,
             \A j \in Keys : open'[j] = open[j] \/ open'[j] = 0,
             \A g \in Fids : IsOpen(g) /\ g \in active =>
                                 ~IsOpen(g)' \/ g \in active',
             \A t \in Slots : Enriching(task'[t].pc) => UNCHANGED state,
             \A g \in Fids : pushed[g] # 0 =>
                                 Retired(g)' \/ (state[g].notified => state'[g].notified),
             \A t \in Slots : task'[t].pc \in ToPush => UNCHANGED state
      PROVE  LifeInv'
  <2>d. ASSUME NEW g \in Fids, NEW pcs, "idle" \notin pcs, Doing(g, pcs)'
        PROVE  Doing(g, pcs)
    BY <1>3, <2>d DEF Doing
  <2>t. ASSUME NEW g \in Fids, Tasked(g)' PROVE Tasked(g)
    BY <1>3, <2>t DEF Tasked
  <2>p. ASSUME NEW g \in Fids, Parting(g)' PROVE Parting(g)
    BY <1>3, <2>p DEF Parting
  <2>o. ASSUME NEW g \in Fids, IsOpen(g)' PROVE IsOpen(g)
    BY <1>3, <2>o, FidParts DEF IsOpen, KeyOf, Numbers
  <2>u. ASSUME NEW g \in Fids, Unborn(g) PROVE Unborn(g)'
    <3>1. ~Doing(g, Reporting)'
      BY <2>d, <2>u DEF Unborn, Reporting
    <3> QED
      BY <1>3, <2>p, <2>t, <2>u, <3>1 DEF Unborn
  <2>r. ASSUME NEW g \in Fids, Retired(g) PROVE Retired(g)'
    <3>1. ~Doing(g, EmitPcs \ {"idle"})'
      BY <2>d, <2>r DEF Retired
    <3>2. ~IsOpen(g)' /\ ~Tasked(g)'
      BY <2>o, <2>r, <2>t DEF Retired
    <3> QED
      BY <1>3, <2>r, <3>1, <3>2 DEF Retired
  <2>1. HousekeepingEnds'
    BY <1>3 DEF LifeInv, HousekeepingEnds, Emitters
  <2>2. Numbered'
    <3>1. \A j \in Keys : open'[j] <= made'[j]
      BY <1>3 DEF LifeInv, Numbered, TypeOK
    <3>2. ASSUME NEW g \in Fids, g[2] > made'[g[1]]
          PROVE  Unborn(g)' /\ ~Doing(g, EmitPcs \ {"idle"})'
      <4>1. Unborn(g) /\ ~Doing(g, EmitPcs \ {"idle"})
        BY <1>3, <3>2 DEF LifeInv, Numbered
      <4> QED
        BY <2>d, <2>u, <4>1
    <3> QED
      BY <3>1, <3>2 DEF Numbered
  <2>3. TrackedOnce'
    <3>1. ASSUME NEW g \in Fids,
                 \/ IsOpen(g)' /\ g \notin active'
                 \/ Doing(g, {"new_read", "new_inserted"})'
          PROVE  Unborn(g)'
      <4>1. \/ IsOpen(g) /\ g \notin active
            \/ Doing(g, {"new_read", "new_inserted"})
        BY <1>3, <2>d, <2>o, <3>1
      <4> QED
        BY <2>u, <4>1 DEF LifeInv, TrackedOnce
    <3> QED
      BY <3>1 DEF TrackedOnce
  <2>4. EndedForGood'
    <3>1. ASSUME NEW q \in Emitters, emit'[q].pc \in Ending PROVE ~IsOpen(emit[q].f)'
      <4>1. emit'[q] = emit[q]
        BY <1>3, <3>1 DEF Ending
      <4>2. ~IsOpen(emit[q].f) /\ emit[q].f \in Fids
        BY <3>1, <4>1 DEF LifeInv, EndedForGood, TypeOK
      <4>3. PICK g \in Fids : g = emit[q].f
        BY <4>2
      <4>4. ~IsOpen(g)'
        BY <2>o, <4>2, <4>3
      <4> QED
        BY <4>1, <4>3, <4>4 DEF IsOpen, KeyOf
    <3>2. ASSUME NEW t \in Slots, task'[t].pc # "free", task'[t].final
          PROVE  ~IsOpen(task[t].f)'
      <4>1. task'[t] = task[t]
        BY <1>3, <3>2
      <4>2. ~IsOpen(task[t].f) /\ task[t].f \in Fids
        BY <3>2, <4>1 DEF LifeInv, EndedForGood, TypeOK
      <4>3. PICK g \in Fids : g = task[t].f
        BY <4>2
      <4>4. ~IsOpen(g)'
        BY <2>o, <4>2, <4>3
      <4> QED
        BY <4>1, <4>3, <4>4 DEF IsOpen, KeyOf
    <3> QED
      BY <3>1, <3>2 DEF EndedForGood
  <2>5. HasRow'
    BY <1>3 DEF LifeInv, HasRow, Reporting
  <2>6. FlagHeld'
    BY <1>3 DEF LifeInv, FlagHeld, EnrichExclusive, Enriching
  <2>7. Marked'
    <3>1. NotifiedOnce'
      BY <1>3 DEF LifeInv, Marked, NotifiedOnce
    <3>2. \A g \in Fids : pushed'[g] # 0 => state'[g].notified \/ Retired(g)'
      BY <1>3, <2>r DEF LifeInv, Marked
    <3>3. \A t \in Slots : task'[t].pc \in ToPush =>
              state'[task'[t].f].notified /\ pushed'[task'[t].f] = 0
      BY <1>3 DEF LifeInv, Marked, ToPush
    <3> QED
      BY <3>1, <3>2, <3>3 DEF Marked
  <2> QED
    BY <2>1, <2>2, <2>3, <2>4, <2>5, <2>6, <2>7 DEF LifeInv
<1>4. CASE PrivacyShutdown
  <2>1. /\ \A t \in Slots : task'[t].pc = "free"
        /\ UNCHANGED <<open, made, emit, row, pushed>>
    BY <1>4, <1>n DEF PrivacyShutdown, CancelTasks
  <2>2. active' \subseteq active /\ \A g \in Fids : IsOpen(g) /\ g \in active => g \in active'
    BY <1>4 DEF PrivacyShutdown, CancelTasks, LifeInv, EndedForGood, Enriching
  <2>3. \A g \in Fids : state[g].notified => state'[g].notified
    <3>1. \A g \in Fids : state[g] \in Entry
      BY DEF TypeOK, Entry
    <3> QED
      BY <1>4, <3>1 DEF PrivacyShutdown, CancelTasks, Entry
  <2> QED
    BY <1>3, <2>1, <2>2, <2>3 DEF Enriching, ToPush
<1>5. CASE Stop
  BY <1>3, <1>5, <1>n DEF Stop
<1>6. CASE Forget
  <2>1. /\ \A t \in Slots : task'[t].pc = "free"
        /\ \A q \in Emitters : emit'[q].pc = "idle"
        /\ UNCHANGED <<made, row, pushed>> /\ active' = {}
        /\ \A j \in Keys : open'[j] = 0
    BY <1>6, <1>n DEF Forget
  <2>2. \A g \in Fids : ~IsOpen(g)'
    BY <2>1, FidParts DEF IsOpen, Numbers
  <2>3. ASSUME NEW g \in Fids, pushed[g] # 0 PROVE Retired(g)'
    <3>1. ~(g[2] > made[g[1]])
      BY <2>3 DEF LifeInv, Numbered, Unborn
    <3>2. g[2] <= made'[g[1]]
      BY <2>1, <3>1, FidParts DEF TypeOK, Numbers
    <3>3. ~Tasked(g)' /\ ~Doing(g, EmitPcs \ {"idle"})'
      BY <2>1 DEF Tasked, Doing
    <3> QED
      BY <2>1, <2>2, <3>2, <3>3 DEF Retired
  <2> QED
    BY <1>3, <2>1, <2>2, <2>3 DEF Enriching, ToPush
<1> QED
  BY <1>1, <1>2, <1>4, <1>5, <1>6 DEF Down, Crash

LEMMA LifeNext == TypeOK /\ TypeOK' /\ LifeInv /\ [Next]_vars => LifeInv'
<1> SUFFICES ASSUME TypeOK, TypeOK', LifeInv, [Next]_vars PROVE LifeInv'
  OBVIOUS
<1> USE DEF engineVars, storeVars, outVars, notifyVars, hostVars
<1>1. CASE UNCHANGED vars
  BY <1>1, LifeStutter DEF vars
<1>2. ASSUME NEW k \in Keys, CoolDown(k) PROVE LifeInv'
  BY <1>2, LifeStutter DEF CoolDown
<1>3. ASSUME NEW p \in Emitters, Handler(p) PROVE LifeInv'
  BY <1>3, LifeNew, LifeEnd, LifePublish DEF Handler
<1> QED
  BY <1>1, <1>2, <1>3, LifeEngine, LifeTask, LifeHost DEF Next, Engine, Host

LEMMA LifeHolds == Spec => []LifeInv
BY LifeInit, LifeNext, TypeCorrect, PTL DEF Spec

\* No two tasks ever enrich one event at the same time, with any number of
\* tasks under way.
THEOREM EnrichesAlone == Spec => []EnrichExclusive
<1>1. LifeInv => EnrichExclusive
  BY DEF LifeInv, FlagHeld
<1> QED
  BY <1>1, LifeHolds, PTL

\* An event is pushed once at most, in every behaviour: however often it is
\* enriched, and through Privacy Mode, crashes and restarts.
THEOREM NotifiesOnce == Spec => []NotifiedOnce
<1>1. LifeInv => NotifiedOnce
  BY DEF LifeInv, Marked
<1> QED
  BY <1>1, LifeHolds, PTL

-----------------------------------------------------------------------------
(* The refinement: every step is one of EventRecord, or none.              *)

LEMMA RecordInit == Init => Record!Init
BY DEF Init, Record!Init

LEMMA RecordEngine ==
    ASSUME TypeOK, NEW k \in Keys,
           \/ Appear(k) \/ Sighting(k) \/ FallSilent(k) \/ WorkerEnd(k)
           \/ HousekeepingCycle(k) \/ HousekeepingVisit(k) \/ StopEnd(k)
    PROVE  Record!Next \/ UNCHANGED Record!recordVars
<1> USE DEF storeVars, outVars, notifyVars, hostVars, Record!recordVars
<1>1. ASSUME open[k] # 0, NEW p \in Emitters, EndEvent(p, k),
             UNCHANGED <<files, flagged, pushed>>
      PROVE  Record!Next \/ UNCHANGED Record!recordVars
  <2> DEFINE f == <<k, open[k]>>
  <2>1. f \in Fids
    BY <1>1 DEF TypeOK, Fids, Numbers
  <2>2. UNCHANGED row \/ CloseRow(f)
    BY <1>1 DEF EndEvent, HandleEnd
  <2>3. CASE row[f] = "open" /\ CloseRow(f)
    <3>1. Record!Close(f)
      BY <1>1, <2>3 DEF CloseRow, Record!Close
    <3> QED
      BY <2>1, <3>1 DEF Record!Next
  <2>4. CASE row[f] # "open" /\ CloseRow(f)
    BY <1>1, <2>1, <2>4 DEF CloseRow, TypeOK
  <2> QED
    BY <1>1, <2>2, <2>3, <2>4
<1>2. CASE Appear(k) \/ Sighting(k) \/ FallSilent(k)
  BY <1>2 DEF Appear, Sighting, FallSilent
<1>3. CASE WorkerEnd(k) \/ HousekeepingCycle(k) \/ StopEnd(k)
  BY <1>1, <1>3 DEF WorkerEnd, HousekeepingCycle, StopEnd, Emitters
<1>4. CASE HousekeepingVisit(k)
  BY <1>1, <1>4 DEF HousekeepingVisit, Emitters
<1> QED
  BY <1>2, <1>3, <1>4

LEMMA RecordHandler ==
    ASSUME TypeOK, LifeInv, NEW p \in Emitters, Handler(p)
    PROVE  Record!Next \/ UNCHANGED Record!recordVars
<1> DEFINE f == emit[p].f
<1> USE DEF engineVars, storeVars, outVars, notifyVars, hostVars, Record!recordVars
<1>f. f \in Fids
  BY DEF TypeOK
<1>1. CASE NewInsert(p)
  <2>1. CASE emit[p].found
    BY <1>1, <2>1 DEF NewInsert
  <2>2. CASE ~emit[p].found
    <3>1. row[f] = "none"
      BY <1>1, <2>2 DEF NewInsert, LifeInv, HasRow
    <3>2. Record!Open(f)
      BY <1>1, <2>2, <3>1 DEF NewInsert, Record!Open
    <3> QED
      BY <1>f, <3>2 DEF Record!Next
  <2> QED
    BY <2>1, <2>2
<1>2. CASE EndLookup(p)
  <2>1. CASE CloseRow(f) /\ row[f] = "open"
    <3>1. Record!Close(f)
      BY <1>2, <2>1 DEF EndLookup, CloseRow, Record!Close
    <3> QED
      BY <1>f, <3>1 DEF Record!Next
  <2>2. CASE CloseRow(f) /\ row[f] # "open"
    BY <1>2, <1>f, <2>2 DEF EndLookup, CloseRow, TypeOK
  <2>3. CASE UNCHANGED row
    BY <1>2, <2>3 DEF EndLookup
  <2> QED
    BY <1>2, <2>1, <2>2, <2>3 DEF EndLookup
<1>3. CASE \/ NewTrack(p) \/ Publish(p) \/ NewDone(p) \/ UpdateDone(p)
           \/ EndFinal(p) \/ EndDone(p)
  BY <1>3 DEF NewTrack, Publish, NewDone, UpdateDone, EndFinal, EndDone
<1> QED
  BY <1>1, <1>2, <1>3 DEF Handler

LEMMA RecordTask ==
    ASSUME TypeOK, LifeInv, FileInv, NEW u \in Slots, Enrich(u) \/ EnrichFail(u)
    PROVE  Record!Next \/ UNCHANGED Record!recordVars
<1> DEFINE f == task[u].f
<1> USE DEF engineVars, storeVars, outVars, notifyVars, hostVars, Record!recordVars
<1>f. f \in Fids
  BY DEF TypeOK
<1>r. task[u].pc # "free" => row[f] # "none"
  BY DEF LifeInv, HasRow
<1>1. CASE EnrichWrite(u)
  <2>1. Record!Picture(f)
    BY <1>1, <1>r DEF EnrichWrite, Record!Picture
  <2> QED
    BY <1>f, <2>1 DEF Record!Next
<1>2. CASE EnrichMark(u)
  <2>1. Record!Flag(f)
    BY <1>2 DEF EnrichMark, FileInv, Record!Flag
  <2> QED
    BY <1>f, <2>1 DEF Record!Next
<1>3. CASE EnrichPush(u)
  <2>1. pushed[f] = 0 /\ row[f] # "none"
    BY <1>3, <1>r DEF EnrichPush, LifeInv, Marked, ToPush
  <2>2. pushed' = [pushed EXCEPT ![f] = 1]
    BY <1>3, <2>1 DEF EnrichPush
  <2>3. Record!Push(f)
    BY <1>3, <2>1, <2>2 DEF EnrichPush, Record!Push
  <2> QED
    BY <1>f, <2>3 DEF Record!Next
<1>4. CASE EnrichGate(u)
  BY <1>4 DEF EnrichGate
<1>5. CASE EnrichStart(u) \/ EnrichSnapshot(u) \/ EnrichDecide(u)
           \/ EnrichHandOver(u) \/ SenderDone(u) \/ EnrichFail(u)
  BY <1>5 DEF EnrichStart, EnrichSnapshot, EnrichDecide, EnrichHandOver, SenderDone, EnrichFail
<1> QED
  BY <1>1, <1>2, <1>3, <1>4, <1>5 DEF Enrich

LEMMA RecordStep ==
    TypeOK /\ LifeInv /\ FileInv /\ [Next]_vars => [Record!Next]_Record!recordVars
<1> SUFFICES ASSUME TypeOK, LifeInv, FileInv, [Next]_vars
             PROVE  Record!Next \/ UNCHANGED Record!recordVars
  OBVIOUS
<1> USE DEF engineVars, storeVars, outVars, notifyVars, hostVars, Record!recordVars
<1>1. CASE UNCHANGED vars
  BY <1>1 DEF vars
<1>2. ASSUME NEW k \in Keys, CoolDown(k) PROVE UNCHANGED Record!recordVars
  BY <1>2 DEF CoolDown
<1>3. ASSUME NEW c \in Cameras, PrivacySet(c) \/ Disable(c)
      PROVE  UNCHANGED Record!recordVars
  BY <1>3 DEF PrivacySet, Disable
<1>4. CASE PrivacyShutdown \/ PrivacyAck \/ Stop \/ Down \/ Crash \/ Boot
  BY <1>4 DEF PrivacyShutdown, PrivacyAck, Stop, Down, Crash, Forget, Boot
<1> QED
  BY <1>1, <1>2, <1>3, <1>4, RecordEngine, RecordHandler, RecordTask DEF Next, Engine, Host

\* All that happens to rows, pictures, flags and pushes is what EventRecord
\* allows, in every behaviour of the pipeline.
THEOREM RecordImplemented == Spec => ImplementsRecord
<1>1. Init => FileInv
  BY DEF Init, FileInv, NoTask
<1>2. Spec => []FileInv
  BY <1>1, FileStep, TypeCorrect, PTL DEF Spec
<1> QED
  BY <1>2, RecordInit, RecordStep, TypeCorrect, LifeHolds, PTL
     DEF Spec, ImplementsRecord, Record!Spec

=============================================================================
