--------------------------- MODULE RecorderProofs ---------------------------
(***************************************************************************)
(* What holds of Recorder for every set of cameras, with or without        *)
(* hanging children and exits.                                             *)
(***************************************************************************)
EXTENDS Recorder, TLAPS

USE ConstantsAssumption

-----------------------------------------------------------------------------
(* The inductive invariant.                                                *)

Holding == {"listing", "halting", "emptying", "wiping"}

\* _purge_lock is exclusive: who is past it holds it, and only such a one does.
LockInv ==
    /\ \A o \in Callers : op[o].pc \in Holding => lock = o
    /\ lock # "free" => op[lock].pc \in Holding

\* A supervisor that is not over is in _cams, or about to be cancelled from it.
SupInv == \A c \in Cameras : sup[c] # "none" => c \in cams

\* While the process runs, a child that is being terminated has the holder of
\* the lock waiting for it.
LeaveInv ==
    running => \A c \in leaving :
        \E o \in Callers : op[o].pc \in {"halting", "emptying"} /\ c \in op[o].wait

\* The purge has on its list what it has yet to stop.
PurgeInv ==
    /\ op["purge"].pc = "emptying" => cams \subseteq op["purge"].todo
    /\ op["purge"].pc = "wiping" => cams = {}

\* A reload has on its list what it has to stop and does not want.
ReloadInv ==
    \A o \in Callers : op[o].pc = "halting" => cams \subseteq op[o].rows \cup op[o].todo

\* stop() clears _running first.
ExitInv == exit.pc # "idle" => ~running

\* No recorder and no list of wanted cameras has an acknowledged one.
AckInv ==
    /\ acked \subseteq private
    /\ running => acked \cap cams = {}
    /\ \A o \in Callers : op[o].pc = "halting" => op[o].rows \cap acked = {}
    /\ op["privacy"].pc = "halting" => op["privacy"].rows \cap private = {}

\* Whoever changes the rows or the private set after they were read is waiting.
Pending == \E o \in Callers : op[o].pc = "waiting"
FreshInv ==
    /\ \A o \in Callers :
        /\ op[o].pc = "listing" /\ running => Pending \/ op[o].rows = enabled
        /\ op[o].pc = "halting" /\ running => Pending \/ op[o].rows = enabled \ private
    /\ lock = "free" /\ running => Pending \/ cams = enabled \ private

\* What captures while stop() is at work is on its list.
StopInv ==
    /\ exit.pc = "halting" => \A c \in Cameras : Capturing(c) => c \in exit.todo
    /\ exit.pc = "stopped" => \A c \in Cameras : ~Capturing(c)

IInv ==
    /\ TypeOK /\ LockInv /\ SupInv /\ LeaveInv /\ PurgeInv
    /\ ReloadInv /\ ExitInv /\ AckInv /\ FreshInv /\ StopInv

-----------------------------------------------------------------------------
(* Every kind of step keeps it.                                            *)

USE DEF taskVars, adminVars, vars

Op == [pc : OpPcs, rows : SUBSET Cameras, todo : SUBSET Cameras, wait : SUBSET Cameras]

LEMMA InvInit == Init => IInv
BY DEF Init, IInv, TypeOK, LockInv, SupInv, LeaveInv, PurgeInv, ReloadInv, ExitInv,
       AckInv, FreshInv, StopInv, Holding, Pending, Capturing, NoOp, At, Callers, OpPcs, SupPcs

\* The steps of a supervisor, of its child, and of a child it has left.
LEMMA InvSupervisor ==
    ASSUME IInv, NEW c \in Cameras,
           Supervisor(c) \/ ChildExits(c) \/ Stall(c) \/ OrphanEnds(c)
    PROVE  IInv'
<1> USE DEF IInv
<1>1. ASSUME NEW from \in SupPcs \ {"none"}, NEW to \in SupPcs, Move(c, from, to),
             to \in {"spawning", "watching", "killing"} =>
                running \/ from \in {"spawning", "watching", "killing"}
      PROVE  IInv'
  <2>1. TypeOK'
    BY <1>1 DEF TypeOK, Move
  <2>2. SupInv'
    BY <1>1 DEF SupInv, Move, TypeOK
  <2>3. StopInv'
    BY <1>1 DEF StopInv, ExitInv, Move, TypeOK, Capturing
  <2> QED
    BY <1>1, <2>1, <2>2, <2>3
    DEF Move, LockInv, LeaveInv, PurgeInv, ReloadInv, ExitInv, AckInv, FreshInv, Pending
<1>2. CASE Terminated(c) \/ OrphanEnds(c)
  BY <1>2 DEF Terminated, OrphanEnds, TypeOK, LockInv, SupInv, LeaveInv, PurgeInv, ReloadInv,
              ExitInv, AckInv, FreshInv, Pending, StopInv, Capturing
<1>3. CASE Cycle(c) \/ Spawned(c) \/ Killed(c) \/ ChildExits(c) \/ Stall(c)
  BY <1>1, <1>3 DEF Cycle, GoesOn, Spawned, Killed, ChildExits, Stall, SupPcs
<1> QED
  BY <1>2, <1>3 DEF Supervisor

\* A request begins: its caller waits for the lock.
LEMMA InvRequest ==
    ASSUME IInv, Purge \/ \E c \in Cameras : Edit(c) \/ PrivacySet(c)
    PROVE  IInv'
<1> USE DEF IInv
<1>1. ASSUME NEW o \in Callers, Ask(o),
             UNCHANGED <<running, taskVars, lock, exit>>,
             enabled' \subseteq Cameras, private' \subseteq Cameras,
             acked' = acked \cap private',
             private' = private \/ o = "privacy"
      PROVE  IInv'
  <2>1. /\ op[o].pc = "idle" /\ op'[o] = At("waiting", {}, {})
        /\ \A q \in Callers : q # o => op'[q] = op[q]
    BY <1>1 DEF Ask, Set, TypeOK
  <2>2. TypeOK'
    BY <1>1, <2>1 DEF TypeOK, NoOp, At, OpPcs, Ask, Set
  <2>3. LockInv'
    BY <1>1, <2>1, <2>2 DEF LockInv, NoOp, At, Holding, TypeOK
  <2>4. LeaveInv'
    BY <1>1, <2>1 DEF LeaveInv
  <2>5. PurgeInv' /\ ReloadInv' /\ AckInv'
    BY <1>1, <2>1 DEF PurgeInv, ReloadInv, AckInv, NoOp, At, Callers
  <2>6. FreshInv'
    BY <1>1, <2>1 DEF FreshInv, Pending, NoOp, At
  <2> QED
    BY <1>1, <2>2, <2>3, <2>4, <2>5, <2>6 DEF SupInv, ExitInv, StopInv, Capturing
<1>2. CASE Purge
  BY <1>1, <1>2 DEF Purge, Callers, TypeOK, AckInv
<1>3. ASSUME NEW c \in Cameras, Edit(c) PROVE IInv'
  BY <1>1, <1>3 DEF Edit, Callers, TypeOK, AckInv
<1>4. ASSUME NEW c \in Cameras, PrivacySet(c) PROVE IInv'
  BY <1>1, <1>4 DEF PrivacySet, Resolved, Callers, TypeOK
<1> QED
  BY <1>2, <1>3, <1>4

\* What the two ways out of a request do to its caller's record and the lock.
LEMMA ReloadShape ==
    ASSUME TypeOK, NEW o \in Callers, Reload(o)
    PROVE  /\ \A q \in Callers : q # o => op'[q] = op[q]
           /\ op' \in [Callers -> Op]
           /\ running => /\ op'[o].pc = "listing" /\ op'[o].rows = enabled
                         /\ lock' = o /\ UNCHANGED adminVars
           /\ ~running => /\ op'[o].pc = "idle" /\ lock' = "free"
                          /\ acked' = (IF o = "privacy" THEN private ELSE acked)
                          /\ UNCHANGED <<enabled, private>>
<1>1. \A r \in Op : Set(o, r) =>
        /\ \A q \in Callers : q # o => op'[q] = op[q]
        /\ op' \in [Callers -> Op] /\ op'[o] = r
  BY DEF Set, TypeOK, Op
<1>2. CASE running
  <2>1. Set(o, [pc |-> "listing", rows |-> enabled, todo |-> {}, wait |-> {}])
    BY <1>2 DEF Reload, At
  <2>2. [pc |-> "listing", rows |-> enabled, todo |-> {}, wait |-> {}] \in Op
    BY DEF TypeOK, Op, OpPcs
  <2> QED
    BY <1>1, <1>2, <2>1, <2>2 DEF Reload
<1>3. CASE ~running
  <2>1. Set(o, NoOp) /\ NoOp \in Op
    BY <1>3 DEF Reload, Finish, NoOp, At, Op, OpPcs
  <2> QED
    BY <1>1, <1>3, <2>1 DEF Reload, Finish, NoOp, At
<1> QED
  BY <1>2, <1>3

\* The holder of the lock, or who takes it while it is free, reloads.
LEMMA InvReload ==
    ASSUME IInv, NEW o \in Callers, Reload(o),
           UNCHANGED <<running, taskVars, exit>>,
           op[o].pc = "wiping" \/ (op[o].pc = "waiting" /\ lock = "free")
    PROVE  IInv'
<1> USE DEF IInv
<1>1. \A q \in Callers : q # o => op[q].pc \notin Holding
  BY DEF LockInv, Holding, TypeOK, Callers
<1>2. TypeOK'
  BY ReloadShape DEF TypeOK, Op
<1>3. LockInv'
  BY <1>1, ReloadShape DEF LockInv, Holding, TypeOK, Callers
<1>4. LeaveInv'
  BY <1>1, ReloadShape DEF LeaveInv, Holding
<1>5. PurgeInv' /\ ReloadInv'
  BY <1>1, ReloadShape DEF PurgeInv, ReloadInv, Holding, Callers
<1>6. AckInv'
  BY <1>1, ReloadShape DEF AckInv, Holding, Callers
<1>7. FreshInv'
  BY <1>1, ReloadShape DEF FreshInv, Holding, Callers
<1> QED
  BY <1>2, <1>3, <1>4, <1>5, <1>6, <1>7 DEF SupInv, ExitInv, StopInv, Capturing

\* The lock is taken, by a reload or by the purge.
LEMMA InvAcquire ==
    ASSUME IInv, NEW o \in Callers, Acquire(o)
    PROVE  IInv'
<1> USE DEF IInv
<1>1. CASE o # "purge"
  BY <1>1, InvReload DEF Acquire
<1>2. CASE o = "purge"
  <2>1. /\ op[o].pc = "waiting" /\ lock = "free" /\ lock' = o
        /\ op' = [op EXCEPT ![o] = [pc |-> "emptying", rows |-> {}, todo |-> cams, wait |-> {}]]
        /\ UNCHANGED <<running, cams, sup, leaving, orphan, exit, enabled, private, acked>>
    BY <1>2 DEF Acquire, Set, NoOp, At
  <2>2. \A q \in Callers : op[q].pc \notin Holding
    BY <2>1 DEF LockInv, TypeOK, Callers
  <2>3. TypeOK'
    BY <2>1 DEF TypeOK, OpPcs
  <2>4. LockInv' /\ LeaveInv'
    BY <2>1, <2>2 DEF LockInv, LeaveInv, Holding, TypeOK, Callers
  <2>5. PurgeInv' /\ ReloadInv' /\ AckInv'
    BY <1>2, <2>1, <2>2 DEF PurgeInv, ReloadInv, AckInv, Holding, TypeOK, Callers
  <2>6. FreshInv'
    BY <1>2, <2>1, <2>2 DEF FreshInv, Holding, TypeOK, Callers
  <2> QED
    BY <2>1, <2>3, <2>4, <2>5, <2>6 DEF SupInv, ExitInv, StopInv, Capturing
<1> QED
  BY <1>1, <1>2

\* The rows are there.
LEMMA InvListed ==
    ASSUME IInv, NEW o \in Callers, Listed(o)
    PROVE  IInv'
<1> USE DEF IInv
<1> DEFINE w == op[o].rows \ private
<1>1. /\ op[o].pc = "listing"
      /\ op' = [op EXCEPT ![o] = At("halting", w, cams \ w)]
      /\ UNCHANGED <<running, cams, sup, leaving, orphan, lock, exit, enabled, private, acked>>
  BY DEF Listed, Wanted, Set
<1>2. /\ op'[o].pc = "halting" /\ op'[o].rows = w /\ op'[o].todo = cams \ w
      /\ op' \in [Callers -> Op]
      /\ \A q \in Callers : q # o => op'[q] = op[q]
  BY <1>1 DEF TypeOK, Op, OpPcs, At
<1>3. \A q \in Callers : q # o => op[q].pc \notin Holding
  BY <1>1 DEF LockInv, Holding, TypeOK, Callers
<1> HIDE DEF w
<1>4. TypeOK'
  BY <1>1, <1>2 DEF TypeOK, Op
<1>5. LockInv' /\ LeaveInv'
  BY <1>1, <1>2, <1>3 DEF LockInv, LeaveInv, Holding, TypeOK, Callers
<1>6. PurgeInv' /\ ReloadInv'
  BY <1>1, <1>2, <1>3 DEF PurgeInv, ReloadInv, Holding, Callers
<1>7. AckInv'
  BY <1>1, <1>2, <1>3 DEF AckInv, Holding, w, Callers
<1>8. FreshInv'
  BY <1>1, <1>2, <1>3 DEF FreshInv, Pending, Holding, w, Callers
<1> QED
  BY <1>1, <1>4, <1>5, <1>6, <1>7, <1>8 DEF SupInv, ExitInv, StopInv, Capturing

\* What a cancellation changes.
LEMMA CancelShape ==
    ASSUME TypeOK, SupInv, NEW c \in Cameras, Cancel(c)
    PROVE  /\ cams' = cams \ {c} /\ leaving' \subseteq Cameras /\ orphan' \subseteq Cameras
           /\ sup' \in [Cameras -> SupPcs] /\ sup'[c] = "none"
           /\ \A d \in Cameras : d # c => sup'[d] = sup[d]
           /\ leaving' \subseteq leaving \cup Awaited(c)
           /\ SupInv'
<1>1. /\ sup' \in [Cameras -> SupPcs] /\ sup'[c] = "none"
      /\ \A d \in Cameras : d # c => sup'[d] = sup[d]
  BY DEF Cancel, TypeOK, SupPcs
<1>2. /\ cams' = cams \ {c} /\ leaving' \subseteq Cameras /\ orphan' \subseteq Cameras
      /\ leaving' \subseteq leaving \cup Awaited(c)
  BY DEF Cancel, Awaited, TypeOK
<1> QED
  BY <1>1, <1>2 DEF SupInv

\* One camera is stopped by a reload or the purge.
LEMMA InvHalt ==
    ASSUME IInv, NEW o \in Callers, Halt(o)
    PROVE  IInv'
<1> USE DEF IInv
<1>1. PICK c \in op[o].todo :
        /\ op' = [op EXCEPT ![o] = [op[o] EXCEPT !.todo = @ \ {c}, !.wait = Awaited(c)]]
        /\ Cancel(c)
  BY DEF Halt, Set
<1>2. c \in Cameras /\ Awaited(c) \subseteq Cameras
  BY DEF TypeOK, Awaited
<1>3. /\ op'[o].pc = op[o].pc /\ op'[o].rows = op[o].rows
      /\ op'[o].todo = op[o].todo \ {c} /\ op'[o].wait = Awaited(c)
      /\ op' \in [Callers -> Op]
      /\ \A q \in Callers : q # o => op'[q] = op[q]
  BY <1>1, <1>2 DEF TypeOK, Op
<1>4. /\ op[o].pc \in {"halting", "emptying"} /\ op[o].wait \cap leaving = {}
      /\ UNCHANGED <<running, lock, exit, enabled, private, acked>>
  BY DEF Halt
<1>5. lock = o /\ \A q \in Callers : q # o => op[q].pc \notin Holding
  BY <1>4 DEF LockInv, Holding
<1>6. running => leaving = {}
  BY <1>4, <1>5 DEF LeaveInv, Holding, TypeOK
<1>7. TypeOK'
  BY <1>1, <1>2, <1>3, <1>4, CancelShape DEF TypeOK, Op
<1>8. LockInv'
  BY <1>3, <1>4, <1>5 DEF LockInv, Holding
<1>9. LeaveInv'
  BY <1>1, <1>2, <1>3, <1>4, <1>6, CancelShape DEF LeaveInv
<1>10. PurgeInv' /\ ReloadInv'
  BY <1>1, <1>2, <1>3, <1>4, <1>5, CancelShape DEF PurgeInv, ReloadInv, Holding, Callers
<1>11. AckInv' /\ ExitInv'
  BY <1>1, <1>2, <1>3, <1>4, CancelShape DEF AckInv, ExitInv, Callers
<1>12. FreshInv'
  BY <1>3, <1>4, <1>5 DEF FreshInv, Pending, Callers
<1>13. SupInv' /\ StopInv'
  BY <1>1, <1>2, <1>4, CancelShape DEF StopInv, Capturing
<1> QED
  BY <1>7, <1>8, <1>9, <1>10, <1>11, <1>12, <1>13

\* The wanted cameras get their supervisors, and the caller is through.
LEMMA InvStart ==
    ASSUME IInv, NEW o \in Callers, Start(o)
    PROVE  IInv'
<1> USE DEF IInv
<1> DEFINE fresh == op[o].rows \ cams
<1>1. /\ op[o].pc = "halting" /\ op[o].todo = {} /\ op[o].wait \cap leaving = {}
      /\ cams' = cams \cup fresh
      /\ sup' = [c \in Cameras |-> IF c \in fresh THEN "new" ELSE sup[c]]
      /\ op' = [op EXCEPT ![o] = NoOp] /\ lock' = "free"
      /\ acked' = (IF o = "privacy" THEN private ELSE acked)
      /\ UNCHANGED <<running, leaving, orphan, exit, enabled, private>>
  BY DEF Start, Halted, Finish, Set
<1>2. /\ op'[o] = NoOp /\ \A q \in Callers : q # o => op'[q] = op[q]
      /\ op' \in [Callers -> Op]
  BY <1>1 DEF TypeOK, Op, NoOp, At, OpPcs
<1>3. lock = o /\ \A q \in Callers : q # o => op[q].pc \notin Holding
  BY <1>1 DEF LockInv, Holding
<1>4. running => leaving = {}
  BY <1>1, <1>3 DEF LeaveInv, Holding, TypeOK
<1>5. cams' = op[o].rows
  BY <1>1 DEF ReloadInv
<1>6. TypeOK'
  BY <1>1, <1>2 DEF TypeOK, Op, SupPcs
<1>7. LockInv' /\ LeaveInv'
  BY <1>1, <1>2, <1>3, <1>4 DEF LockInv, LeaveInv, Holding, NoOp, At
<1>8. PurgeInv' /\ ReloadInv'
  BY <1>2, <1>3 DEF PurgeInv, ReloadInv, Holding, NoOp, At, Callers
<1>9. AckInv'
  BY <1>1, <1>2, <1>3, <1>5 DEF AckInv, Holding, NoOp, At, Callers
<1>10. FreshInv'
  <2>1. running => Pending \/ cams' = enabled \ private
    BY <1>1, <1>5 DEF FreshInv
  <2>2. Pending => Pending'
    BY <1>1, <1>2 DEF Pending
  <2> QED
    BY <1>1, <1>2, <1>3, <2>1, <2>2 DEF FreshInv, Holding, NoOp, At
<1>11. SupInv' /\ StopInv' /\ ExitInv'
  BY <1>1 DEF SupInv, StopInv, ExitInv, Capturing, TypeOK
<1> QED
  BY <1>6, <1>7, <1>8, <1>9, <1>10, <1>11

\* All recorders are stopped, and the tree is handed to the thread.
LEMMA InvWipe == IInv /\ Wipe => IInv'
<1> SUFFICES ASSUME IInv, Wipe PROVE IInv'
  OBVIOUS
<1> USE DEF IInv
<1>1. /\ op["purge"].pc = "emptying" /\ op["purge"].todo = {}
      /\ op["purge"].wait \cap leaving = {}
      /\ op' = [op EXCEPT !["purge"] = At("wiping", {}, {})]
      /\ UNCHANGED <<running, taskVars, lock, exit, adminVars>>
  BY DEF Wipe, Halted, Set
<1>2. /\ op'["purge"] = At("wiping", {}, {})
      /\ \A q \in Callers : q # "purge" => op'[q] = op[q]
      /\ op' \in [Callers -> Op] /\ "purge" \in Callers
  BY <1>1 DEF TypeOK, Op, At, OpPcs, Callers
<1>3. lock = "purge" /\ \A q \in Callers : q # "purge" => op[q].pc \notin Holding
  BY <1>1, <1>2 DEF LockInv, Holding
<1>4. running => leaving = {}
  BY <1>1, <1>2, <1>3 DEF LeaveInv, Holding, TypeOK
<1>5. TypeOK'
  BY <1>1, <1>2 DEF TypeOK, Op
<1>6. LockInv' /\ LeaveInv'
  BY <1>1, <1>2, <1>3, <1>4 DEF LockInv, LeaveInv, Holding, At
<1>7. PurgeInv' /\ ReloadInv' /\ AckInv'
  BY <1>1, <1>2, <1>3 DEF PurgeInv, ReloadInv, AckInv, At, Callers
<1>8. FreshInv'
  BY <1>1, <1>2, <1>3 DEF FreshInv, Holding, At, Callers
<1> QED
  BY <1>1, <1>5, <1>6, <1>7, <1>8 DEF SupInv, StopInv, ExitInv, Capturing

\* stop().
LEMMA InvStop == IInv /\ (Exit \/ Stopping) => IInv'
<1> SUFFICES ASSUME IInv, Exit \/ Stopping PROVE IInv'
  OBVIOUS
<1> USE DEF IInv
<1>1. CASE Exit
  BY <1>1 DEF Exit, TypeOK, LockInv, SupInv, LeaveInv, PurgeInv, ReloadInv, ExitInv,
              AckInv, FreshInv, StopInv, Capturing
<1>2. CASE Gathered \/ Stopped
  BY <1>2 DEF Gathered, Stopped, TypeOK, LockInv, SupInv, LeaveInv, PurgeInv, ReloadInv,
              ExitInv, AckInv, FreshInv, Pending, StopInv, Capturing
<1>3. CASE ExitHalt
  <2>1. PICK c \in exit.todo :
          /\ exit' = [exit EXCEPT !.todo = @ \ {c}, !.wait = Awaited(c)]
          /\ Cancel(c)
    BY <1>3 DEF ExitHalt
  <2>2. /\ c \in Cameras /\ Awaited(c) \subseteq Cameras /\ ~running /\ exit.pc = "halting"
        /\ UNCHANGED <<running, lock, op, enabled, private, acked>>
    BY <1>3 DEF ExitHalt, ExitInv, TypeOK, Awaited
  <2>3. exit'.pc = exit.pc /\ exit'.todo = exit.todo \ {c}
    BY <2>1 DEF TypeOK
  <2>4. TypeOK'
    BY <2>1, <2>2, CancelShape DEF TypeOK
  <2>5. LockInv' /\ LeaveInv' /\ FreshInv' /\ ExitInv'
    BY <2>2 DEF LockInv, LeaveInv, FreshInv, ExitInv
  <2>6. PurgeInv' /\ ReloadInv' /\ AckInv'
    BY <2>1, <2>2, CancelShape DEF PurgeInv, ReloadInv, AckInv
  <2>7. SupInv' /\ StopInv'
    BY <2>1, <2>2, <2>3, CancelShape DEF StopInv, Capturing
  <2> QED
    BY <2>4, <2>5, <2>6, <2>7
<1> QED
  BY <1>1, <1>2, <1>3 DEF Stopping

LEMMA InvNext == IInv /\ [Next]_vars => IInv'
<1> SUFFICES ASSUME IInv, [Next]_vars PROVE IInv'
  OBVIOUS
<1>1. CASE UNCHANGED vars
  BY <1>1 DEF IInv, TypeOK, LockInv, SupInv, LeaveInv, PurgeInv, ReloadInv, ExitInv,
              AckInv, FreshInv, Pending, StopInv, Capturing
<1>2. CASE \E c \in Cameras : \/ Supervisor(c) \/ ChildExits(c) \/ Stall(c)
                              \/ OrphanEnds(c) \/ Edit(c) \/ PrivacySet(c)
  BY <1>2, InvSupervisor, InvRequest
<1>3. CASE \E o \in Callers : Acquire(o) \/ Work(o)
  BY <1>3, InvAcquire, InvListed, InvHalt, InvStart DEF Work
<1>4. CASE Purge \/ Wipe
  BY <1>4, InvRequest, InvWipe
<1>5. CASE Wiped
  BY <1>5, InvReload DEF Wiped, Resume, Callers
<1>6. CASE Exit \/ Stopping
  BY <1>6, InvStop
<1> QED
  BY <1>1, <1>2, <1>3, <1>4, <1>5, <1>6 DEF Next

THEOREM Invariant == Spec => []IInv
BY InvInit, InvNext, PTL DEF Spec

-----------------------------------------------------------------------------
(* What follows from it.                                                   *)

\* Every variable of the recorder keeps its type.
THEOREM TypeCorrect == Spec => []TypeOK
<1>1. IInv => TypeOK
  BY DEF IInv
<1> QED
  BY <1>1, Invariant, PTL

\* The purge never unlinks a segment that a supervisor's child is writing: the
\* lock keeps every reload out, and _cams is empty.
THEOREM PurgeIsAlone == Spec => []WipeUndisturbed
<1>1. IInv => WipeUndisturbed
  <2> SUFFICES ASSUME IInv, op["purge"].pc = "wiping", running
               PROVE  leaving = {} /\ \A c \in Cameras : ~Capturing(c)
    BY DEF WipeUndisturbed
  <2>1. \A o \in Callers : op[o].pc \notin {"halting", "emptying"}
    BY DEF IInv, LockInv, Holding, Callers
  <2> QED
    BY <2>1 DEF IInv, LeaveInv, PurgeInv, SupInv, TypeOK, Capturing
<1> QED
  BY <1>1, Invariant, PTL

\* An acknowledged camera stays unrecorded through every later edit and purge.
THEOREM AcknowledgedStops == Spec => []AckMeansStopped
<1>1. IInv => AckMeansStopped
  BY DEF IInv, AckInv, SupInv, TypeOK, Capturing, AckMeansStopped
<1> QED
  BY <1>1, Invariant, PTL

\* When all requests are through, exactly the enabled and not private cameras
\* are recorded.
THEOREM NothingLost == Spec => []RecordsWhatItShould
<1>1. IInv => RecordsWhatItShould
  BY DEF IInv, LockInv, FreshInv, Pending, Holding, TypeOK, RecordsWhatItShould
<1> QED
  BY <1>1, Invariant, PTL

\* stop() leaves no supervisor with a child, though it takes no lock.
THEOREM StopEndsCapture == Spec => []StopIsFinal
<1>1. IInv => StopIsFinal
  BY DEF IInv, StopInv, StopIsFinal
<1> QED
  BY <1>1, Invariant, PTL

=============================================================================
