--------------------------- MODULE ServicesProofs ---------------------------
(***************************************************************************)
(* What the parts around the event pipeline keep, for every value of their *)
(* constants: each has an inductive invariant of its own, and the others   *)
(* stand still while it runs.                                              *)
(***************************************************************************)
EXTENDS MCServices, RelayProofs, TLAPS

allVars == <<component, vars, triggerVars, pushVars, modelVars, coralVars, spotVars, talkVars,
             nightVars, footageVars>>

\* What runs is said once and for all.
LEMMA SameComponent == [ServicesNext]_allVars => component' = component
BY DEF ServicesNext, allVars, Only

-----------------------------------------------------------------------------
(* Spotlight.                                                              *)

LightInv ==
    /\ clock \in Nat /\ due \in Int
    /\ until \in [Timers -> Int]
    /\ current \in Timers \cup {"none"}
    /\ Light!HoldKept

LEMMA LightInit == ServicesInit => LightInv
BY DEF ServicesInit, Light!SpotInit, LightInv, Light!HoldKept

LEMMA LightStep == LightInv /\ Light!SpotNext => LightInv'
<1> SUFFICES ASSUME LightInv, Light!SpotNext PROVE LightInv'
  OBVIOUS
<1>0. "none" \notin Timers /\ Holds \subseteq Nat
  BY PartsAssumption
<1> USE <1>0 DEF LightInv, Light!HoldKept
<1>1. ASSUME NEW t \in Timers, NEW hold \in Holds, Light!Person(t, hold) PROVE LightInv'
  <2>1. clock + hold \in Nat
    OBVIOUS
  <2>2. Light!Cancelled \in [Timers -> Int] /\ \A u \in Timers : Light!Cancelled[u] < 0
    BY DEF Light!Cancelled
  <2> QED
    BY <1>1, <2>1, <2>2 DEF Light!Person
<1>2. ASSUME NEW t \in Timers, Light!Expire(t) PROVE LightInv'
  BY <1>2 DEF Light!Expire
<1>3. ASSUME NEW t \in Timers, Light!Off(t) PROVE LightInv'
  BY <1>3 DEF Light!Off, Light!Switching
<1>4. CASE Light!Forget
  BY <1>4 DEF Light!Forget, Light!Cancelled
<1>5. CASE Light!On \/ Light!Arm \/ \E on \in BOOLEAN : Light!Operate(on)
  <2>1. UNCHANGED <<clock, lit, until, current, due>>
    BY <1>5, Zenon DEF Light!On, Light!Arm, Light!Operate
  <2> QED
    BY <2>1
<1>6. CASE Light!Wait
  BY <1>6 DEF Light!Wait
<1> QED
  BY <1>1, <1>2, <1>3, <1>4, <1>5, <1>6 DEF Light!SpotNext

\* _hold_then_off, _restart_timer: whatever persons, expiring holds and late answers
\* of the camera come between, the light goes off when the last person's hold is
\* over and not before, and a light that is _on has a hold running.
THEOREM HoldIsKept == ServicesSpec => []HoldKept
<1>1. LightInv /\ [ServicesNext]_allVars => LightInv'
  <2> SUFFICES ASSUME LightInv, [ServicesNext]_allVars PROVE LightInv'
    OBVIOUS
  <2>1. CASE Light!SpotNext
    BY <2>1, LightStep
  <2>2. CASE UNCHANGED spotVars
    BY <2>2 DEF spotVars, LightInv, Light!HoldKept
  <2> QED
    BY <2>1, <2>2 DEF ServicesNext, Only, allVars
<1>2. LightInv => HoldKept
  BY DEF LightInv, HoldKept
<1> QED
  BY <1>1, <1>2, LightInit, PTL DEF ServicesSpec, allVars

-----------------------------------------------------------------------------
(* Push.                                                                   *)

CauseInv ==
    /\ leg \in [Alerts -> [Phones \cup Browsers -> Pushes!Legs]]
    /\ refused \in [Alerts -> SUBSET (Phones \cup Browsers)]
    /\ Pushes!PrunedForCause

LEMMA CauseInit == ServicesInit => CauseInv
BY DEF ServicesInit, Pushes!PushInit, CauseInv, Pushes!PrunedForCause, Pushes!Addresses,
       Pushes!Legs

LEMMA CauseStep == CauseInv /\ Pushes!PushNext => CauseInv'
<1> SUFFICES ASSUME CauseInv, Pushes!PushNext PROVE CauseInv'
  OBVIOUS
<1> USE DEF CauseInv, Pushes!PrunedForCause, Pushes!Addresses, Pushes!Legs
<1>1. CASE UNCHANGED <<leg, refused>>
  BY <1>1
<1>2. ASSUME NEW a \in Alerts, Pushes!Begin(a) PROVE CauseInv'
  BY <1>2 DEF Pushes!Begin, Pushes!Listed
<1>3. ASSUME NEW a \in Alerts, NEW k \in Phones \cup Browsers, Pushes!Leg(a, k) PROVE CauseInv'
  <2>1. ASSUME NEW new \in Pushes!Legs, leg' = [leg EXCEPT ![a][k] = new],
               refused' \in [Alerts -> SUBSET (Phones \cup Browsers)],
               \A b \in Alerts : refused[b] \subseteq refused'[b],
               new \in {"pruning", "pruned"} => k \in refused'[a]
        PROVE  CauseInv'
    <3> DEFINE row == [leg[a] EXCEPT ![k] = new]
    <3>1. row \in [Phones \cup Browsers -> Pushes!Legs] /\ leg' = [leg EXCEPT ![a] = row]
      BY <2>1
    <3>2. row[k] = new /\ \A j \in Phones \cup Browsers : j # k => row[j] = leg[a][j]
      OBVIOUS
    <3> HIDE DEF row
    <3>3. /\ leg' \in [Alerts -> [Phones \cup Browsers -> Pushes!Legs]]
          /\ leg'[a] = row /\ \A b \in Alerts : b # a => leg'[b] = leg[b]
      BY <3>1
    <3>4. ASSUME NEW b \in Alerts, NEW j \in Phones \cup Browsers,
                 leg'[b][j] \in {"pruning", "pruned"}
          PROVE  j \in refused'[b]
      <4>1. CASE b = a /\ j = k
        BY <4>1, <3>2, <3>3, <3>4, <2>1
      <4>2. CASE ~(b = a /\ j = k)
        BY <4>2, <3>2, <3>3, <3>4, <2>1
      <4> QED
        BY <4>1, <4>2
    <3> QED
      BY <3>3, <3>4, <2>1
  <2>2. CASE Pushes!Retry(a, k)
    BY <2>1, <2>2 DEF Pushes!Retry
  <2>3. CASE Pushes!Prune(a, k)
    BY <2>1, <2>3 DEF Pushes!Prune
  <2>4. ASSUME NEW answer \in {"ok", "failed", "dead", "refused"}, Pushes!Answered(a, k, answer),
               IF answer = "dead" THEN refused' = [refused EXCEPT ![a] = @ \cup {k}]
                                  ELSE UNCHANGED refused
        PROVE  CauseInv'
    <3>1. /\ Pushes!After(a, k, answer) \in Pushes!Legs \ {"pruned"}
          /\ Pushes!After(a, k, answer) = "pruning" => answer = "dead"
      BY DEF Pushes!After, Pushes!Final, Pushes!Dead
    <3>2. /\ refused' \in [Alerts -> SUBSET (Phones \cup Browsers)]
          /\ \A b \in Alerts : refused[b] \subseteq refused'[b]
          /\ answer = "dead" => k \in refused'[a]
      <4>1. CASE answer = "dead"
        <5>1. refused' = [refused EXCEPT ![a] = refused[a] \cup {k}]
          BY <2>4, <4>1
        <5> QED
          BY <5>1
      <4>2. CASE answer # "dead"
        <5>1. refused' = refused
          BY <2>4, <4>2
        <5> QED
          BY <5>1, <4>2
      <4> QED
        BY <4>1, <4>2
    <3>3. leg' = [leg EXCEPT ![a][k] = Pushes!After(a, k, answer)]
      BY <2>4 DEF Pushes!Answered
    <3> QED
      BY <2>1, <3>1, <3>2, <3>3
  <2> QED
    BY <1>3, <2>2, <2>3, <2>4 DEF Pushes!Leg, Pushes!Delivered, Pushes!Undelivered
<1> QED
  BY <1>1, <1>2, <1>3 DEF Pushes!PushNext, Pushes!SetMode, Pushes!Register, Pushes!Unregister,
                          Pushes!Expire

\* _post_with_retry, _prune: no sequence of overloads, lost answers and retries, in
\* however many alerts at once, deletes a registration that nobody called dead.
THEOREM PrunesForCause == ServicesSpec => []PrunedForCause
<1>1. CauseInv /\ [ServicesNext]_allVars => CauseInv'
  <2> SUFFICES ASSUME CauseInv, [ServicesNext]_allVars PROVE CauseInv'
    OBVIOUS
  <2>1. CASE Pushes!PushNext
    BY <2>1, CauseStep
  <2>2. CASE UNCHANGED pushVars
    BY <2>2 DEF pushVars, CauseInv, Pushes!PrunedForCause
  <2> QED
    BY <2>1, <2>2 DEF ServicesNext, Only, allVars
<1>2. CauseInv => PrunedForCause
  BY DEF CauseInv, PrunedForCause
<1> QED
  BY <1>1, <1>2, CauseInit, PTL DEF ServicesSpec, allVars

-----------------------------------------------------------------------------
(* Coral.                                                                  *)

PoolTyped ==
    /\ plugged \subseteq Devices
    /\ gen \in Pool!Generations
    /\ pools \in [Pool!Generations -> SUBSET Pool!Tpus]
    /\ thread \in [Detects -> {"idle", "waiting", "invoking"}]
    /\ poolOf \in [Detects -> Pool!Generations]
    /\ taken \in [Detects -> SUBSET Pool!Tpus]

\* A pool has devices of its own generation, and no generation is ahead of its fleet.
OfTheirAge ==
    /\ fleet \subseteq Devices \X {gen}
    /\ \A g \in Pool!Generations : pools[g] \subseteq Devices \X {g} /\ (pools[g] # {} => g <= gen)
    /\ \A d \in Detects : poolOf[d] <= gen /\ \A t \in taken[d] : t[2] <= gen

\* A thread holds a device while it invokes; that one is in no pool and no other hands.
HeldOnce ==
    /\ \A d \in Detects : IF thread[d] = "invoking" THEN \E t \in Pool!Tpus : taken[d] = {t}
                                                    ELSE taken[d] = {}
    /\ \A d \in Detects : \A t \in taken[d] : \A g \in Pool!Generations : t \notin pools[g]
    /\ \A d, e \in Detects : d # e => taken[d] \cap taken[e] = {}

\* While a rebuild runs there is no fleet; else what no thread holds of it is pooled.
FleetPooled ==
    IF rebuild = "none"
    THEN \A t \in Pool!Tpus : t \in pools[gen] <=> t \in fleet /\ \A d \in Detects : t \notin taken[d]
    ELSE fleet = {} /\ gen < MaxRebuilds

PoolInv == PoolTyped /\ OfTheirAge /\ HeldOnce /\ FleetPooled

LEMMA PoolInit == ServicesInit => PoolInv
<1> SUFFICES ASSUME ServicesInit PROVE PoolInv
  OBVIOUS
<1>0. MaxRebuilds \in Nat
  BY PartsAssumption
<1> QED
  BY <1>0 DEF ServicesInit, Pool!CoralInit, PoolInv, PoolTyped, OfTheirAge, HeldOnce, FleetPooled,
              Pool!Generations, Pool!Tpus

\* One thread gives up what it holds, if anything, and it ends.
LEMMA PoolEnds ==
    ASSUME PoolInv, NEW d \in Detects, Pool!Ends(d), UNCHANGED <<gen, fleet, rebuild>>,
           plugged' = plugged,
           \/ pools' = pools /\ taken[d] = {}
           \/ \E t \in taken[d] : pools' = Pool!Released(t)
    PROVE  PoolInv'
<1>0. MaxRebuilds \in Nat /\ 0 \in Pool!Generations /\ gen \in Pool!Generations
  BY PartsAssumption DEF Pool!Generations, PoolInv, PoolTyped
<1> USE DEF PoolInv, PoolTyped, OfTheirAge, HeldOnce, FleetPooled
<1>1. /\ thread' \in [Detects -> {"idle", "waiting", "invoking"}]
      /\ poolOf' \in [Detects -> Pool!Generations]
      /\ taken' \in [Detects -> SUBSET Pool!Tpus]
      /\ thread'[d] = "idle" /\ poolOf'[d] = 0 /\ taken'[d] = {}
      /\ \A e \in Detects \ {d} : thread'[e] = thread[e] /\ poolOf'[e] = poolOf[e] /\ taken'[e] = taken[e]
  BY <1>0 DEF Pool!Ends
<1> DEFINE Aged == /\ fleet' \subseteq Devices \X {gen'}
                   /\ \A e \in Detects : poolOf'[e] <= gen' /\ \A t \in taken'[e] : t[2] <= gen'
           Apart == /\ \A e \in Detects : IF thread'[e] = "invoking" THEN \E t \in Pool!Tpus : taken'[e] = {t}
                                                                     ELSE taken'[e] = {}
                    /\ \A e, f \in Detects : e # f => taken'[e] \cap taken'[f] = {}
<1>a. 0 <= gen
  BY <1>0 DEF Pool!Generations
<1>b. Aged
  <2>1. ASSUME NEW e \in Detects PROVE poolOf'[e] <= gen /\ \A t \in taken'[e] : t[2] <= gen
    <3>1. CASE e = d
      BY <3>1, <1>1, <1>a
    <3>2. CASE e # d
      BY <3>2, <1>1
    <3> QED
      BY <3>1, <3>2
  <2> QED
    BY <2>1
<1>c. Apart
  <2>1. ASSUME NEW e \in Detects
        PROVE  IF thread'[e] = "invoking" THEN \E t \in Pool!Tpus : taken'[e] = {t} ELSE taken'[e] = {}
    <3>1. CASE e = d
      BY <3>1, <1>1
    <3>2. CASE e # d
      BY <3>2, <1>1
    <3> QED
      BY <3>1, <3>2
  <2>2. \A e \in Detects : taken'[e] \subseteq taken[e]
    BY <1>1
  <2> QED
    BY <2>1, <2>2
<1> HIDE DEF Aged, Apart
<1>2. CASE pools' = pools /\ taken[d] = {}
  <2>1. \A e \in Detects : taken'[e] = taken[e]
    BY <1>1, <1>2
  <2>2. \A g \in Pool!Generations : 0 <= g
    BY DEF Pool!Generations
  <2>3. PoolTyped' /\ OfTheirAge'
    BY <1>0, <1>1, <1>2, <2>1, <2>2
  <2>4. HeldOnce'
    BY <1>1, <1>2, <2>1
  <2>5. FleetPooled'
    BY <1>1, <1>2, <2>1
  <2> QED
    BY <2>3, <2>4, <2>5
<1>3. ASSUME NEW t \in taken[d], pools' = Pool!Released(t) PROVE PoolInv'
  <2>0. t \in Pool!Tpus /\ taken[d] = {t} /\ t \in Devices \X Pool!Generations
    BY DEF Pool!Tpus
  <2>1. CASE t \in fleet
    <3>1. pools' = [pools EXCEPT ![gen] = pools[gen] \cup {t}] /\ t \in Devices \X {gen}
      BY <1>3, <2>1 DEF Pool!Released
    <3>2. PoolTyped'
      BY <1>0, <1>1, <2>0, <3>1
    <3> HIDE DEF PoolTyped, HeldOnce, FleetPooled
    <3>3. OfTheirAge'
      <4>1. /\ pools'[gen] = pools[gen] \cup {t} /\ gen <= gen
            /\ \A g \in Pool!Generations : g # gen => pools'[g] = pools[g]
        BY <1>0, <3>1 DEF PoolTyped, Pool!Generations
      <4>2. ASSUME NEW g \in Pool!Generations
            PROVE  pools'[g] \subseteq Devices \X {g} /\ (pools'[g] # {} => g <= gen)
        <5>1. CASE g = gen
          BY <5>1, <4>1, <3>1
        <5>2. CASE g # gen
          BY <5>2, <4>1
        <5> QED
          BY <5>1, <5>2
      <4> QED
        BY <4>2, <1>b DEF Aged
    <3> USE DEF PoolTyped, HeldOnce, FleetPooled
    <3>4. ASSUME NEW e \in Detects, NEW u \in taken'[e], NEW g \in Pool!Generations
          PROVE  u \notin pools'[g]
      <4>1. e # d /\ u \in taken[e] /\ t \in taken[d]
        BY <1>1, <3>4
      <4>2. u # t /\ u \notin pools[g]
        BY <4>1
      <4>3. pools'[g] \subseteq pools[g] \cup {t}
        BY <1>0, <3>1
      <4> QED
        BY <4>2, <4>3
    <3>5. HeldOnce'
      BY <1>c, <3>4 DEF Apart
    <3>6. ASSUME rebuild = "none", NEW u \in Pool!Tpus
          PROVE  u \in pools'[gen] <=> u \in fleet /\ \A e \in Detects : u \notin taken'[e]
      <4>1. pools'[gen] = pools[gen] \cup {t}
        BY <1>0, <3>1
      <4>2. CASE u = t
        <5>1. \A e \in Detects : t \notin taken'[e]
          BY <1>1
        <5> QED
          BY <4>1, <4>2, <5>1, <2>1
      <4>3. CASE u # t
        <5>1. \A e \in Detects : u \in taken'[e] <=> u \in taken[e]
          BY <1>1, <2>0, <4>3
        <5> QED
          BY <4>1, <4>3, <5>1, <3>6
      <4> QED
        BY <4>2, <4>3
    <3>7. FleetPooled'
      BY <2>1, <3>6
    <3> QED
      BY <3>2, <3>3, <3>5, <3>7
  <2>2. CASE t \notin fleet
    <3>1. pools' = pools
      BY <1>3, <2>2 DEF Pool!Released
    <3>2. PoolTyped'
      BY <1>0, <1>1, <3>1
    <3>3. OfTheirAge'
      BY <1>b, <3>1 DEF Aged
    <3>4. HeldOnce'
      BY <1>1, <3>1
    <3>5. \A u \in fleet, e \in Detects : u \in taken'[e] <=> u \in taken[e]
      BY <1>1, <2>0, <2>2
    <3>6. FleetPooled'
      BY <3>1, <3>5
    <3> QED
      BY <3>2, <3>3, <3>4, <3>6
  <2> QED
    BY <2>1, <2>2
<1> QED
  BY <1>2, <1>3

LEMMA PoolStep == PoolInv /\ Pool!CoralNext => PoolInv'
<1> SUFFICES ASSUME PoolInv, Pool!CoralNext PROVE PoolInv'
  OBVIOUS
<1>0. MaxRebuilds \in Nat /\ gen \in Nat /\ gen \in Pool!Generations
  BY PartsAssumption DEF Pool!Generations, PoolInv, PoolTyped
<1> USE DEF PoolInv, PoolTyped, OfTheirAge, HeldOnce, FleetPooled
<1>1. ASSUME NEW d \in Detects, Pool!Detect(d) PROVE PoolInv'
  BY <1>0, <1>1 DEF Pool!Detect
<1>2. ASSUME NEW d \in Detects, NEW t \in Pool!Tpus, Pool!Checkout(d, t) PROVE PoolInv'
  <2>1. poolOf[d] \in Pool!Generations /\ t \in pools[poolOf[d]] /\ taken[d] = {}
    BY <1>2 DEF Pool!Checkout
  <2>2. /\ pools' \in [Pool!Generations -> SUBSET Pool!Tpus]
        /\ pools'[poolOf[d]] = pools[poolOf[d]] \ {t}
        /\ \A g \in Pool!Generations \ {poolOf[d]} : pools'[g] = pools[g]
    BY <1>2, <2>1 DEF Pool!Checkout
  <2>3. /\ taken' \in [Detects -> SUBSET Pool!Tpus] /\ taken'[d] = {t}
        /\ thread' \in [Detects -> {"idle", "waiting", "invoking"}] /\ thread'[d] = "invoking"
        /\ \A e \in Detects \ {d} : taken'[e] = taken[e] /\ thread'[e] = thread[e]
    BY <1>2 DEF Pool!Checkout
  <2>4. UNCHANGED <<plugged, gen, fleet, poolOf, rebuild>>
    BY <1>2 DEF Pool!Checkout
  <2>5. t \in Devices \X {poolOf[d]} /\ t[2] = poolOf[d]
    BY <2>1
  <2>6. PoolTyped' /\ OfTheirAge'
    BY <2>1, <2>2, <2>3, <2>4, <2>5
  <2>7. \A g \in Pool!Generations : t \notin pools'[g]
    BY <2>1, <2>2, <2>5
  <2>8. HeldOnce'
    BY <2>1, <2>2, <2>3, <2>7
  <2>9. ASSUME rebuild = "none", NEW u \in Pool!Tpus
        PROVE  u \in pools'[gen] <=> u \in fleet /\ \A e \in Detects : u \notin taken'[e]
    <3>1. CASE u = t
      BY <3>1, <2>3, <2>7, <1>0
    <3>2. CASE u # t
      <4>1. u \in pools'[gen] <=> u \in pools[gen]
        BY <3>2, <2>1, <2>2, <1>0
      <4>2. \A e \in Detects : u \in taken'[e] <=> u \in taken[e]
        BY <3>2, <2>1, <2>3
      <4> QED
        BY <4>1, <4>2, <2>9
    <3> QED
      BY <3>1, <3>2
  <2>10. FleetPooled'
    BY <2>4, <2>9
  <2> QED
    BY <2>6, <2>8, <2>10
<1>3. ASSUME NEW d \in Detects, Pool!WaitEnds(d) PROVE PoolInv'
  BY <1>3, PoolEnds DEF Pool!WaitEnds
<1>4. ASSUME NEW d \in Detects, NEW well \in BOOLEAN, Pool!Invoked(d, well) PROVE PoolInv'
  <2>1. Pool!Ends(d) /\ UNCHANGED <<plugged, gen, fleet, rebuild>> /\ \E t \in taken[d] : pools' = Pool!Released(t)
    BY <1>4, Zenon DEF Pool!Invoked
  <2> QED
    BY <2>1, PoolEnds
<1>5. ASSUME NEW why \in {"reinit", "switch"}, Pool!Rebuild(why) PROVE PoolInv'
  BY <1>0, <1>5 DEF Pool!Rebuild
<1>6. CASE Pool!Bound
  <2>1. /\ gen' = gen + 1 /\ gen + 1 \in Pool!Generations /\ gen < gen + 1
        /\ rebuild' = "none" /\ UNCHANGED <<plugged, thread, poolOf, taken>>
    BY <1>0, <1>6 DEF Pool!Bound, Pool!Generations
  <2> DEFINE new == Pool!Bindable \X {gen + 1}
  <2>2. /\ fleet' = new /\ new \subseteq Devices \X {gen + 1}
    BY <1>6 DEF Pool!Bound, Pool!Bindable
  <2>3. /\ pools' \in [Pool!Generations -> SUBSET Pool!Tpus] /\ pools'[gen + 1] = new
        /\ \A g \in Pool!Generations \ {gen + 1} : pools'[g] \subseteq pools[g]
    <3> DEFINE kept(g) == \E d \in Detects : thread[d] = "waiting" /\ poolOf[d] = g
               of(g) == CASE g = gen + 1 -> new [] kept(g) -> pools[g] [] OTHER -> {}
    <3>1. pools' = [g \in Pool!Generations |-> of(g)]
      BY <1>6 DEF Pool!Bound
    <3>2. new \subseteq Pool!Tpus
      BY <2>1, <2>2 DEF Pool!Tpus
    <3>a. of(gen + 1) = new
      <4>1. ~kept(gen + 1)
        <5>1. \A d \in Detects : poolOf[d] <= gen
          OBVIOUS
        <5>2. ~(gen + 1 <= gen)
          BY <1>0
        <5> QED
          BY <5>1, <5>2
      <4> HIDE DEF new
      <4> QED
        BY <4>1
    <3>b. ASSUME NEW g \in Pool!Generations, g # gen + 1 PROVE of(g) \subseteq pools[g]
      <4>1. CASE kept(g)
        <5>1. of(g) = pools[g]
          BY <3>b, <4>1
        <5> QED
          BY <5>1
      <4>2. CASE ~kept(g)
        <5>1. of(g) = {}
          BY <3>b, <4>2
        <5> QED
          BY <5>1
      <4> QED
        BY <4>1, <4>2
    <3> HIDE DEF new, kept, of
    <3>3. pools'[gen + 1] = new
      BY <3>1, <3>a, <2>1
    <3>4. \A g \in Pool!Generations \ {gen + 1} : pools'[g] \subseteq pools[g]
      BY <3>1, <3>b
    <3>5. pools' \in [Pool!Generations -> SUBSET Pool!Tpus]
      <4>1. \A g \in Pool!Generations : of(g) \subseteq Pool!Tpus
        BY <3>2, <3>a, <3>b
      <4> QED
        BY <3>1, <4>1
    <3> QED
      BY <3>3, <3>4, <3>5
  <2> HIDE DEF new
  <2>4. PoolTyped'
    BY <2>1, <2>3
  <2>5. OfTheirAge'
    <3>1. \A g \in Pool!Generations : g \in Nat
      BY <1>0 DEF Pool!Generations
    <3>2. ASSUME NEW g \in Pool!Generations
          PROVE  pools'[g] \subseteq Devices \X {g} /\ (pools'[g] # {} => g <= gen + 1)
      <4>1. CASE g = gen + 1
        BY <4>1, <2>2, <2>3, <1>0
      <4>2. CASE g # gen + 1
        <5>1. pools'[g] \subseteq pools[g]
          BY <4>2, <2>3
        <5>2. pools[g] \subseteq Devices \X {g} /\ (pools[g] # {} => g <= gen)
          OBVIOUS
        <5>3. g <= gen => g <= gen + 1
          BY <3>1, <1>0
        <5> QED
          BY <5>1, <5>2, <5>3
      <4> QED
        BY <4>1, <4>2
    <3>3. \A d \in Detects : poolOf[d] <= gen + 1 /\ \A t \in taken[d] : t[2] <= gen + 1
      <4>1. \A d \in Detects : poolOf[d] \in Nat /\ \A t \in taken[d] : t[2] \in Nat
        BY <3>1 DEF Pool!Tpus
      <4> QED
        BY <4>1, <1>0
    <3> QED
      BY <3>2, <3>3, <2>1, <2>2
  <2>6. ASSUME NEW d \in Detects, NEW t \in taken[d] PROVE t \notin new
    BY <1>0, <2>1, <2>2
  <2>7. HeldOnce'
    BY <2>1, <2>3, <2>6
  <2>8. FleetPooled'
    BY <2>1, <2>2, <2>3, <2>6
  <2> QED
    BY <2>4, <2>5, <2>7, <2>8
<1>7. CASE Pool!TimedOut \/ \E d \in Devices : Pool!Plug(d)
  <2>1. UNCHANGED <<gen, fleet, pools, thread, poolOf, taken, rebuild>>
    BY <1>7, Zenon DEF Pool!TimedOut, Pool!Plug
  <2>2. plugged' \subseteq Devices
    BY <1>7 DEF Pool!TimedOut, Pool!Plug
  <2> QED
    BY <2>1, <2>2
<1> QED
  BY <1>1, <1>2, <1>3, <1>4, <1>5, <1>6, <1>7 DEF Pool!CoralNext

\* detect, _release, _bootstrap_blocking: however many threads, devices and rebuilds,
\* every device of the fleet is in its pool or in the hands of one thread.
THEOREM PoolIsWhole == ServicesSpec => []PoolWhole
<1>1. PoolInv /\ [ServicesNext]_allVars => PoolInv'
  <2> SUFFICES ASSUME PoolInv, [ServicesNext]_allVars PROVE PoolInv'
    OBVIOUS
  <2>1. CASE Pool!CoralNext
    BY <2>1, PoolStep
  <2>2. CASE UNCHANGED coralVars
    BY <2>2 DEF coralVars, PoolInv, PoolTyped, OfTheirAge, HeldOnce, FleetPooled
  <2> QED
    BY <2>1, <2>2 DEF ServicesNext, Only, allVars
<1>2. PoolInv => PoolWhole
  <2> SUFFICES ASSUME PoolInv PROVE Pool!PoolWhole
    BY DEF PoolWhole
  <2> USE DEF PoolInv, PoolTyped, OfTheirAge, HeldOnce, FleetPooled
  <2>1. rebuild = "none" => pools[gen] = fleet \ UNION {taken[d] : d \in Detects}
    <3>1. fleet \subseteq Pool!Tpus /\ pools[gen] \subseteq Pool!Tpus
      BY DEF Pool!Tpus
    <3> QED
      BY <3>1
  <2> QED
    BY <2>1 DEF Pool!PoolWhole
<1> QED
  BY <1>1, <1>2, PoolInit, PTL DEF ServicesSpec, allVars

-----------------------------------------------------------------------------
(* Talk.                                                                   *)

\* What each phase leaves of the session's time and of the time it may still be
\* heard: a turn of the loop, then the drain, then the teardown.
TalkInv ==
    /\ {hushed, age, left} \subseteq Nat
    /\ queued \in 0..QueueMax
    /\ phase \in {"free", "accepting", "talking", "draining", "closing"}
    /\ phase \in {"free", "accepting"} => sender = "none" /\ age = 0
    /\ phase = "talking" =>
          /\ age <= TalkMax
          /\ hush => hushed <= 1 /\ (~waited => hushed = 0)
    /\ phase = "draining" =>
          /\ age + left <= TalkMax + Drain /\ left <= Drain
          /\ hush /\ queued > 0 => hushed + left <= 1 + Drain
    /\ phase = "closing" => sender \in {"closing", "done"} /\ age + left <= TalkMax + Drain + Teardown

LEMMA TalkStarts == ServicesInit => TalkInv
<1> SUFFICES ASSUME ServicesInit PROVE TalkInv
  OBVIOUS
<1>1. QueueMax \in Nat \ {0}
  BY PartsAssumption
<1> QED
  BY <1>1 DEF ServicesInit, Talking!TalkInit, TalkInv

LEMMA TalkStep == TalkInv /\ Talking!TalkNext => TalkInv'
<1> SUFFICES ASSUME TalkInv, Talking!TalkNext PROVE TalkInv'
  OBVIOUS
<1>0. QueueMax \in Nat /\ QueueMax > 0 /\ TalkMax \in Nat /\ Drain \in Nat /\ Teardown \in Nat
  BY PartsAssumption
<1> USE <1>0 DEF TalkInv
<1>1. CASE Talking!Dial \/ Talking!NotAccepted
  BY <1>1 DEF Talking!Dial, Talking!NotAccepted
<1>2. CASE Talking!Accepted
  <2>1. CASE hush
    BY <1>2, <2>1 DEF Talking!Accepted, Talking!Finish, Talking!WithEnd
  <2>2. CASE ~hush
    BY <1>2, <2>2 DEF Talking!Accepted
  <2> QED
    BY <2>1, <2>2
\* What a turn of the loop does, and a hang-up.
<1>3. ASSUME NEW n \in 0..QueueMax, phase = "talking", Talking!Finish(n) \/ Talking!Turn(n),
             UNCHANGED <<hush, hushed, age, sender>>
      PROVE  TalkInv'
  <2>1. CASE Talking!Finish(n)
    BY <1>3, <2>1 DEF Talking!Finish, Talking!WithEnd
  <2>2. CASE Talking!Turn(n) /\ ~Talking!Stops
    <3>1. ~hush'
      BY <1>3, <2>2 DEF Talking!Stops
    <3>2. phase' = "talking" /\ queued' = n /\ left' = left
      BY <1>3, <2>2 DEF Talking!Turn
    <3> QED
      BY <1>3, <3>1, <3>2
  <2> QED
    BY <1>3, <2>1, <2>2 DEF Talking!Turn
<1>4. CASE Talking!Quiet \/ Talking!Chunk \/ Talking!Hangup
  <2>1. CASE Talking!Quiet
    BY <1>3, <2>1 DEF Talking!Quiet
  <2>2. CASE Talking!Chunk
    <3>1. (IF queued < QueueMax THEN queued + 1 ELSE queued) \in 0..QueueMax
      OBVIOUS
    <3> QED
      BY <1>3, <2>2, <3>1 DEF Talking!Chunk
  <2>3. CASE Talking!Hangup
    BY <1>3, <2>3 DEF Talking!Hangup
  <2> QED
    BY <1>4, <2>1, <2>2, <2>3
<1>5. CASE Talking!Drained
  BY <1>5 DEF Talking!Drained
<1>6. CASE Talking!HungUp
  BY <1>6 DEF Talking!HungUp
<1>7. CASE Talking!Opened \/ Talking!Play \/ Talking!SenderEnds \/ Talking!Closed
  BY <1>7 DEF Talking!Opened, Talking!Play, Talking!SenderEnds, Talking!Closed
<1>8. CASE Talking!Privacy
  <2>1. hushed' = 0 /\ UNCHANGED <<phase, age, waited, queued, ended, sender, left>>
    BY <1>8 DEF Talking!Privacy
  <2> QED
    BY <2>1
<1>9. CASE Talking!Second
  <2>1. phase = "talking" => ~waited /\ waited'
    BY <1>9, Zenon DEF Talking!Second
  <2>2. /\ phase = "talking" => age < TalkMax
        /\ phase \in {"draining", "closing"} => left > 0
        /\ age' = IF phase \in {"free", "accepting"} THEN 0 ELSE age + 1
        /\ left' = IF phase \in {"draining", "closing"} THEN left - 1 ELSE left
        /\ hushed' \in {hushed, hushed + 1}
        /\ UNCHANGED <<phase, queued, sender>>
    BY <1>9 DEF Talking!Second
  <2>3. hush' = hush
    BY <1>9 DEF Talking!Second
  <2> QED
    BY <2>1, <2>2, <2>3
<1> QED
  BY <1>1, <1>2, <1>4, <1>5, <1>6, <1>7, <1>8, <1>9 DEF Talking!TalkNext

\* talk_ws: whatever the talker sends and however slow the camera, it hears nothing
\* later than a turn and the drain after Privacy Mode, and no session outlives its cap.
THEOREM TalkIsOver == ServicesSpec => []TalkEnds
<1>1. TalkInv /\ [ServicesNext]_allVars => TalkInv'
  <2> SUFFICES ASSUME TalkInv, [ServicesNext]_allVars PROVE TalkInv'
    OBVIOUS
  <2>1. CASE Talking!TalkNext
    BY <2>1, TalkStep
  <2>2. CASE UNCHANGED talkVars
    BY <2>2 DEF talkVars, TalkInv
  <2> QED
    BY <2>1, <2>2 DEF ServicesNext, Only, allVars
<1>2. TalkInv => TalkEnds
  <2> SUFFICES ASSUME TalkInv PROVE Talking!TalkEnds
    BY DEF TalkEnds
  <2>1. TalkMax \in Nat /\ Drain \in Nat /\ Teardown \in Nat
    BY PartsAssumption
  <2> QED
    BY <2>1 DEF TalkInv, Talking!TalkEnds
<1> QED
  BY <1>1, <1>2, TalkStarts, PTL DEF ServicesSpec, allVars

-----------------------------------------------------------------------------
(* NightVision.                                                            *)

NightTyped ==
    /\ pins \in Night!Pins
    /\ device \in [ir : Night!IrModes \cup {"none"}, nv : Night!NvModes \cup {"none"}]
    /\ doing \in [Night!Actors -> Night!Steps]
    /\ read \in [Night!Actors -> Night!Pins]
    /\ asked \in [Forms -> Night!Pins]
    /\ alone \subseteq Night!Hooks

\* A hook that nothing came between writes what is pinned, and the night mode before
\* it comes to the IR mode.
AloneKnows ==
    \A h \in alone :
        /\ doing[h] \in {"night", "couple", "ir"}
        /\ read[h] = pins /\ pins.ir # "none"
        /\ doing[h] \in {"night", "couple"} => pins.nv # "none"
        /\ doing[h] \in {"couple", "ir"} /\ pins.nv # "none" => device.nv = pins.nv

NightInv == NightTyped /\ AloneKnows /\ Night!Reasserted

LEMMA NightStarts == ServicesInit => NightInv
BY DEF ServicesInit, Night!NightInit, NightInv, NightTyped, AloneKnows, Night!Reasserted, Night!Pins,
       Night!NoPins, Night!IrModes, Night!NvModes, Night!Actors, Night!Hooks, Night!Steps

\* What disturbs every hook leaves nothing to be known of them.
LEMMA Disturbed ==
    ASSUME NightTyped', alone' = {}, ~settled'
    PROVE  NightInv'
BY DEF NightInv, AloneKnows, Night!Reasserted

\* What a write leaves the camera set to.
LEMMA WrittenIs ==
    ASSUME NightTyped, NEW p \in Night!Pins, NEW step \in {"night", "couple", "ir"}
    PROVE  /\ Night!Written(step, p) \in [ir : Night!IrModes \cup {"none"}, nv : Night!NvModes \cup {"none"}]
           /\ step = "night" => Night!Written(step, p).nv = p.nv
           /\ step # "night" => Night!Written(step, p).nv = device.nv
           /\ step = "ir" => Night!Written(step, p).ir = p.ir
<1> USE DEF NightTyped, Night!Pins, Night!IrModes, Night!NvModes
<1>1. CASE step = "night"
  <2>1. Night!Written(step, p) = [device EXCEPT !.nv = p.nv]
    BY <1>1 DEF Night!Written
  <2> QED
    BY <1>1, <2>1
<1>2. CASE step = "couple"
  <2>1. Night!Written(step, p) = [device EXCEPT !.ir = "auto"]
    BY <1>2 DEF Night!Written
  <2> QED
    BY <1>2, <2>1
<1>3. CASE step = "ir"
  <2>1. Night!Written(step, p) = [device EXCEPT !.ir = p.ir]
    BY <1>3 DEF Night!Written
  <2> QED
    BY <1>3, <2>1
<1> QED
  BY <1>1, <1>2, <1>3

LEMMA StepsAre ==
    ASSUME NEW p \in Night!Pins, NEW step
    PROVE  Night!FormStep(step, p) \in Night!Steps /\ Night!HookStep(step, p) \in Night!Steps
BY DEF Night!FormStep, Night!HookStep, Night!Steps

LEMMA NightStep == NightInv /\ Night!NightNext => NightInv'
<1> SUFFICES ASSUME NightInv, Night!NightNext PROVE NightInv'
  OBVIOUS
<1>0. Forms \cap Night!Hooks = {} /\ Night!NoPins \in Night!Pins /\ "idle" \in Night!Steps
  BY PartsAssumption DEF Night!Hooks, Night!NoPins, Night!Pins, Night!Steps
<1> USE DEF NightInv, NightTyped, Night!Actors
<1>1. ASSUME NEW f \in Forms, NEW p \in Night!Pins, Night!PutSettings(f, p) PROVE NightInv'
  <2>1. /\ UNCHANGED <<there, pins, device, alone, settled>>
        /\ asked' \in [Forms -> Night!Pins] /\ read' \in [Night!Actors -> Night!Pins]
    BY <1>1 DEF Night!PutSettings
  <2>2. doing' \in [Night!Actors -> Night!Steps]
    BY <1>1, StepsAre DEF Night!PutSettings, Night!Goto
  <2>3. \A h \in Night!Hooks : doing'[h] = doing[h] /\ read'[h] = read[h]
    BY <1>0, <1>1 DEF Night!PutSettings, Night!Goto
  <2> QED
    BY <2>1, <2>2, <2>3 DEF AloneKnows, Night!Reasserted
<1>2. ASSUME NEW f \in Forms, NEW well \in BOOLEAN, Night!FormWrites(f, well) PROVE NightInv'
  <2>1. alone' = {} /\ ~settled' /\ UNCHANGED <<pins, read>>
    BY <1>0, <1>2 DEF Night!FormWrites, Night!Disturbs
  <2>2. doing' \in [Night!Actors -> Night!Steps]
    <3>1. /\ Night!FormStep(doing[f], asked[f]) \in Night!Steps
          /\ "store" \in Night!Steps
      BY StepsAre DEF Night!Steps
    <3> QED
      BY <1>2, <3>1 DEF Night!FormWrites, Night!Goto
  <2>3. device' \in [ir : Night!IrModes \cup {"none"}, nv : Night!NvModes \cup {"none"}]
    <3>1. doing[f] \in {"night", "couple", "ir"} /\ asked[f] \in Night!Pins
      BY <1>2 DEF Night!FormWrites
    <3>2. device' = Night!Written(doing[f], asked[f]) \/ device' = device
      BY <1>2 DEF Night!FormWrites
    <3> QED
      BY <3>1, <3>2, WrittenIs
  <2>4. asked' \in [Forms -> Night!Pins]
    <3>1. \A field \in {"ir", "nv"} : [asked[f] EXCEPT ![field] = "none"] \in Night!Pins
      BY DEF Night!Pins
    <3>2. \/ asked' = asked
          \/ \E field \in {"ir", "nv"} : asked' = [asked EXCEPT ![f] = [asked[f] EXCEPT ![field] = "none"]]
      BY <1>2 DEF Night!FormWrites
    <3> QED
      BY <3>1, <3>2
  <2> QED
    BY <2>1, <2>2, <2>3, <2>4, Disturbed
<1>3. ASSUME NEW f \in Forms, Night!FormStores(f) PROVE NightInv'
  <2>1. alone' = {} /\ ~settled' /\ UNCHANGED device
    BY <1>0, <1>3 DEF Night!FormStores, Night!Disturbs
  <2>2. /\ doing' \in [Night!Actors -> Night!Steps] /\ read' \in [Night!Actors -> Night!Pins]
        /\ asked' \in [Forms -> Night!Pins]
    BY <1>0, <1>3 DEF Night!FormStores, Night!Ends, Night!Goto
  <2>3. pins' \in Night!Pins
    <3>1. asked[f] \in Night!Pins /\ read[f] \in Night!Pins
      OBVIOUS
    <3>2. [k \in {"ir", "nv"} |-> IF asked[f][k] # "none" THEN asked[f][k] ELSE read[f][k]] \in Night!Pins
      BY <3>1 DEF Night!Pins
    <3> QED
      BY <1>3, <3>2 DEF Night!FormStores
  <2> QED
    BY <2>1, <2>2, <2>3, Disturbed
<1>4. ASSUME NEW f \in Forms, Night!Edit(f) PROVE NightInv'
  <2>1. /\ UNCHANGED <<there, pins, device, asked, alone, settled>>
        /\ read' \in [Night!Actors -> Night!Pins] /\ doing' \in [Night!Actors -> Night!Steps]
    BY <1>4 DEF Night!Edit, Night!Goto, Night!Steps
  <2>2. \A h \in Night!Hooks : doing'[h] = doing[h] /\ read'[h] = read[h]
    BY <1>0, <1>4 DEF Night!Edit, Night!Goto
  <2> QED
    BY <2>1, <2>2 DEF AloneKnows, Night!Reasserted
<1>5. ASSUME NEW f \in Forms, Night!EditStores(f) PROVE NightInv'
  <2>1. alone' = {} /\ ~settled' /\ UNCHANGED <<device, asked>> /\ pins' = read[f]
    BY <1>0, <1>5 DEF Night!EditStores, Night!Disturbs
  <2>2. doing' \in [Night!Actors -> Night!Steps] /\ read' \in [Night!Actors -> Night!Pins]
    BY <1>0, <1>5 DEF Night!EditStores, Night!Ends, Night!Goto
  <2> QED
    BY <2>1, <2>2, Disturbed
<1>6. CASE Night!DeleteCamera
  <2>1. /\ alone' = {} /\ ~settled' /\ pins' = Night!NoPins
        /\ UNCHANGED <<device, doing, read, asked>>
    BY <1>6 DEF Night!DeleteCamera, Night!Disturbs, Night!Hooks
  <2> QED
    BY <1>0, <2>1, Disturbed
<1>7. CASE Night!Connect
  <2>1. alone' = {} /\ ~settled' /\ UNCHANGED <<pins, asked>>
    BY <1>7 DEF Night!Connect, Night!Disturbs, Night!Hooks
  <2>2. /\ device' \in [ir : Night!IrModes \cup {"none"}, nv : Night!NvModes \cup {"none"}]
        /\ doing' \in [Night!Actors -> Night!Steps]
    BY <1>7 DEF Night!Connect, Night!IrModes, Night!NvModes, Night!Goto, Night!Steps
  <2>3. read' \in [Night!Actors -> Night!Pins]
    BY <1>0, <1>7 DEF Night!Connect
  <2> QED
    BY <2>1, <2>2, <2>3, Disturbed
<1>8. ASSUME NEW h \in Night!Hooks, Night!Reassert(h) PROVE NightInv'
  <2> DEFINE runs == there /\ pins.ir # "none"
  <2>0. h \notin alone
    BY <1>8 DEF Night!Reassert, AloneKnows
  <2>1. UNCHANGED <<pins, device, asked>>
    BY <1>8 DEF Night!Reassert
  <2>2. read' \in [Night!Actors -> Night!Pins] /\ (runs => read'[h] = pins)
    BY <1>0, <1>8 DEF Night!Reassert
  <2>3. doing' \in [Night!Actors -> Night!Steps] /\ (runs => doing'[h] = Night!HookStep("begin", pins))
    BY <1>0, <1>8, StepsAre DEF Night!Reassert, Night!Goto
  <2>4. \A g \in Night!Hooks \ {h} : doing'[g] = doing[g] /\ read'[g] = read[g]
    BY <1>8 DEF Night!Reassert, Night!Goto
  <2>5. alone' = IF runs THEN alone \cup {h} ELSE alone
    BY <1>8 DEF Night!Reassert
  <2>6. settled' => settled \/ pins.ir = "none"
    BY <1>8 DEF Night!Reassert
  <2>7. pins.ir # "none" => /\ Night!HookStep("begin", pins) \in {"night", "ir"}
                            /\ Night!HookStep("begin", pins) = "night" <=> pins.nv # "none"
    BY DEF Night!HookStep
  <2>8. AloneKnows'
    <3>1. ASSUME runs
          PROVE  /\ doing'[h] \in {"night", "couple", "ir"} /\ read'[h] = pins /\ pins.ir # "none"
                 /\ doing'[h] \in {"night", "couple"} => pins.nv # "none"
                 /\ doing'[h] \in {"couple", "ir"} /\ pins.nv # "none" => device.nv = pins.nv
      BY <3>1, <2>2, <2>3, <2>7
    <3> HIDE DEF runs
    <3> QED
      BY <2>0, <2>1, <2>4, <2>5, <3>1 DEF AloneKnows
  <2>9. Night!Reasserted'
    BY <2>1, <2>6 DEF Night!Reasserted
  <2> QED
    BY <2>1, <2>2, <2>3, <2>5, <2>8, <2>9
<1>9. ASSUME NEW h \in Night!Hooks, NEW well \in BOOLEAN, Night!HookWrites(h, well) PROVE NightInv'
  <2> DEFINE step == doing[h]
             onward == IF well \/ step = "couple" THEN Night!HookStep(step, read[h]) ELSE "idle"
  <2>1. step \in {"night", "couple", "ir"} /\ read[h] \in Night!Pins /\ UNCHANGED <<pins, asked>>
    BY <1>9 DEF Night!HookWrites
  <2>2. device' = Night!Written(step, read[h]) \/ (~well /\ device' = device)
    BY <1>9 DEF Night!HookWrites
  <2>3. device' \in [ir : Night!IrModes \cup {"none"}, nv : Night!NvModes \cup {"none"}]
    BY <2>1, <2>2, WrittenIs
  <2>4. onward \in Night!Steps
    BY <1>0, <2>1, StepsAre
  <2>5. /\ doing' \in [Night!Actors -> Night!Steps] /\ doing'[h] = onward
        /\ read' \in [Night!Actors -> Night!Pins] /\ (onward # "idle" => read' = read)
    BY <1>0, <1>9, <2>4 DEF Night!HookWrites, Night!Ends, Night!Goto
  <2>6. alone' = IF well /\ onward # "idle" THEN alone \cap {h} ELSE {}
    BY <1>9 DEF Night!HookWrites
  <2>7. settled' => well /\ onward = "idle" /\ h \in alone
    BY <1>9, Zenon DEF Night!HookWrites
  <2>8. AloneKnows'
    <3> SUFFICES ASSUME well, onward # "idle", h \in alone
                 PROVE  /\ doing'[h] \in {"night", "couple", "ir"} /\ read'[h] = pins /\ pins.ir # "none"
                        /\ doing'[h] \in {"night", "couple"} => pins.nv # "none"
                        /\ doing'[h] \in {"couple", "ir"} /\ pins.nv # "none" => device'.nv = pins.nv
      BY <2>1, <2>6 DEF AloneKnows
    <3>1. onward = Night!HookStep(step, pins) /\ read[h] = pins /\ pins.ir # "none"
      BY DEF AloneKnows
    <3>2. \/ step = "night" /\ onward = "couple"
          \/ step = "couple" /\ onward = "ir"
      BY <2>1, <3>1 DEF Night!HookStep
    <3>3. /\ step = "night" => device'.nv = pins.nv
          /\ step = "couple" => device'.nv = device.nv
      BY <2>1, <2>2, <3>1, WrittenIs
    <3> QED
      BY <2>5, <3>1, <3>2, <3>3 DEF AloneKnows
  <2>9. Night!Reasserted'
    <3> SUFFICES ASSUME well, onward = "idle", h \in alone
                 PROVE  device'.ir = pins.ir /\ (pins.nv # "none" => device'.nv = pins.nv)
      BY <2>1, <2>7 DEF Night!Reasserted
    <3>1. onward = Night!HookStep(step, pins) /\ read[h] = pins /\ pins.ir # "none"
      BY DEF AloneKnows
    <3>2. step = "ir"
      BY <2>1, <3>1 DEF Night!HookStep
    <3> QED
      BY <2>1, <2>2, <3>1, <3>2, WrittenIs DEF AloneKnows
  <2> QED
    BY <2>1, <2>3, <2>5, <2>6, <2>8, <2>9
<1> QED
  BY <1>1, <1>2, <1>3, <1>4, <1>5, <1>6, <1>7, <1>8, <1>9 DEF Night!NightNext

\* apply_ir_state, _reassert_camera: whatever forms, edits and reconnects come in
\* between, a re-assert that ran undisturbed leaves the camera as it is pinned.
THEOREM ReassertTakes == ServicesSpec => []Reasserted
<1>1. NightInv /\ [ServicesNext]_allVars => NightInv'
  <2> SUFFICES ASSUME NightInv, [ServicesNext]_allVars PROVE NightInv'
    OBVIOUS
  <2>1. CASE Night!NightNext
    BY <2>1, NightStep
  <2>2. CASE UNCHANGED nightVars
    BY <2>2 DEF nightVars, NightInv, NightTyped, AloneKnows, Night!Reasserted
  <2> QED
    BY <2>1, <2>2 DEF ServicesNext, Only, allVars
<1>2. NightInv => Reasserted
  BY DEF NightInv, Reasserted
<1> QED
  BY <1>1, <1>2, NightStarts, PTL DEF ServicesSpec, allVars

-----------------------------------------------------------------------------
(* Models.                                                                 *)

ModelsTyped ==
    /\ file \in [Keys -> {"absent", "good", "bad"}]
    /\ active \in Keys /\ model \in Keys /\ key \in Keys \cup {"none"}
    /\ task \in [Store!Tasks -> {"idle", "lock", "ensuring", "building", "backoff", "over", "dead"}]

Bootstrapping(t) == task[t] \in {"ensuring", "building"}

\* _boot_lock.
OneBoots ==
    /\ \A t \in Store!Tasks : Bootstrapping(t) => key # "none"
    /\ \A t, u \in Store!Tasks : Bootstrapping(t) /\ Bootstrapping(u) => t = u

\* Who brings up a model that is no longer wanted has a reload behind it.
Behind ==
    \A t \in Store!Tasks : Bootstrapping(t) /\ key # model =>
        t # "reload" /\ task["reload"] \in {"lock", "backoff"}

BuildsVerified == \A t \in Store!Tasks : task[t] = "building" => file[key] # "bad"

OnItsWay ==
    \/ ready /\ session = model
    \/ active # model
    \/ \E t \in Store!Tasks : Store!UnderWay(t)
    \/ needsReinit /\ task["reinit"] # "dead"

ModelsInv == ModelsTyped /\ OneBoots /\ Behind /\ BuildsVerified /\ OnItsWay

LEMMA ModelsStart == ServicesInit => ModelsInv
<1> SUFFICES ASSUME ServicesInit PROVE ModelsInv
  OBVIOUS
<1>1. /\ file \in [Keys -> {"absent", "good", "bad"}]
      /\ active \in Keys /\ model = active /\ key = "none"
      /\ task = [t \in Store!Tasks |-> IF t = "start" THEN "lock" ELSE "idle"]
  BY DEF ServicesInit, Store!ModelsInit, Store!None
<1> QED
  BY <1>1 DEF ModelsInv, ModelsTyped, OneBoots, Behind, BuildsVerified, OnItsWay, Bootstrapping,
              Store!Tasks, Store!UnderWay

LEMMA ModelsStep == ModelsInv /\ Store!ModelsNext => ModelsInv'
<1> SUFFICES ASSUME ModelsInv, Store!ModelsNext PROVE ModelsInv'
  OBVIOUS
<1>0. "none" \notin Keys
  BY PartsAssumption
<1> USE <1>0 DEF ModelsInv, ModelsTyped, OneBoots, Behind, BuildsVerified, OnItsWay, Bootstrapping,
                 Store!UnderWay, Store!Tasks, Store!None, Store!Awaits
\* Nothing but the store's worker, or what is asked for, changes.
<1>1. CASE UNCHANGED <<file, active, model, session, ready, task, key, needsReinit>>
  BY <1>1
<1>2. ASSUME NEW k \in Keys, Store!Verified(k) PROVE ModelsInv'
  <2>1. UNCHANGED <<active, model, session, ready, key, needsReinit>>
    BY <1>2 DEF Store!Verified, Store!Detector, Store!Health
  <2>2. CASE file[k] = "good"
    <3>1. task' = Store!Woken(k, "building") /\ file' = file
      BY <1>2, <2>2 DEF Store!Verified, Store!Hashed
    <3> QED
      BY <2>1, <2>2, <3>1 DEF Store!Woken
  <2>3. CASE file[k] # "good"
    <3>1. file' = [file EXCEPT ![k] = "absent"] /\ task' = task
      BY <1>2, <2>3 DEF Store!Verified, Store!Hashed
    <3> QED
      BY <2>1, <3>1
  <2> QED
    BY <2>2, <2>3
<1>3. ASSUME NEW k \in Keys, NEW well \in BOOLEAN, Store!Fetched(k, well) PROVE ModelsInv'
  <2>1. UNCHANGED <<active, model, session, ready>>
    BY <1>3 DEF Store!Fetched, Store!Detector
  <2>2. CASE well
    <3>1. /\ task' = Store!Woken(k, "building") /\ file' = [file EXCEPT ![k] = "good"]
          /\ key' = key /\ (needsReinit => needsReinit')
      BY <1>3, <2>2 DEF Store!Fetched
    <3> QED
      BY <2>1, <3>1 DEF Store!Woken
  <2>3. CASE ~well
    <3>1. /\ file' = file
          /\ key' = IF \E t \in Store!Tasks : Store!Awaits(t, k) THEN "none" ELSE key
          /\ task' = [Store!Woken(k, "backoff") EXCEPT !["reinit"] =
                         IF Store!Awaits("reinit", k) THEN "idle" ELSE @]
      BY <1>3, <2>3 DEF Store!Fetched
    <3>2. (needsReinit => needsReinit') /\ (Store!Awaits("reinit", k) => needsReinit')
      BY <1>3, <2>3 DEF Store!Fetched
    <3>3. /\ task' \in [Store!Tasks -> {"idle", "lock", "ensuring", "building", "backoff", "over", "dead"}]
          /\ \A t \in Store!Tasks :
                task'[t] = IF Store!Awaits(t, k) THEN (IF t = "reinit" THEN "idle" ELSE "backoff") ELSE task[t]
      BY <3>1 DEF Store!Woken
    <3> QED
      BY <2>1, <3>1, <3>2, <3>3
  <2> QED
    BY <2>2, <2>3
<1>4. ASSUME NEW k \in Keys, Store!Delete(k) PROVE ModelsInv'
  <2>1. /\ k # active /\ file' = [file EXCEPT ![k] = "absent"]
        /\ key' = IF \E t \in Store!Tasks : Store!Awaits(t, k) THEN "none" ELSE key
        /\ UNCHANGED <<active, model, session, ready, needsReinit>>
    BY <1>4 DEF Store!Delete, Store!Detector, Store!Health
  <2>2. /\ task' \in [Store!Tasks -> {"idle", "lock", "ensuring", "building", "backoff", "over", "dead"}]
        /\ \A t \in Store!Tasks :
              task'[t] = IF Store!Awaits(t, k) THEN (IF t = "reinit" THEN "dead" ELSE "over") ELSE task[t]
    BY <1>4 DEF Store!Delete, Store!Killed
  <2> QED
    BY <2>1, <2>2
<1>5. ASSUME NEW k \in Keys, Store!Activate(k) PROVE ModelsInv'
  BY <1>5 DEF Store!Activate, Store!Store, Store!Detector, Store!Health
<1>6. ASSUME NEW t \in Store!Tasks, Store!Bootstrap(t) PROVE ModelsInv'
  BY <1>6 DEF Store!Bootstrap, Store!Health
<1>7. ASSUME NEW t \in Store!Tasks, Store!Built(t) PROVE ModelsInv'
  BY <1>7 DEF Store!Built, Store!Store
<1>8. ASSUME NEW t \in Store!Tasks, Store!BuildFails(t) PROVE ModelsInv'
  <2>1. /\ task[t] = "building"
        /\ task' = [task EXCEPT ![t] = IF t = "reinit" THEN "idle" ELSE "backoff"]
        /\ key' = "none" /\ UNCHANGED <<file, active, model, session, ready>>
    BY <1>8 DEF Store!BuildFails, Store!Store, Store!Detector
  <2>2. t = "reinit" => needsReinit'
    BY <1>8 DEF Store!BuildFails
  <2> QED
    BY <2>1, <2>2
<1>9. ASSUME NEW t \in Store!Tasks, Store!Retry(t) PROVE ModelsInv'
  BY <1>9 DEF Store!Retry, Store!Store, Store!Detector, Store!Health
<1>10. CASE Store!Reconfigure
  <2>1. /\ model' = active /\ UNCHANGED <<file, active>>
        /\ task' = [task EXCEPT !["reload"] = "lock"]
    BY <1>10 DEF Store!Reconfigure, Store!Replaced
  <2>2. key' = IF Bootstrapping("reload") THEN "none" ELSE key
    BY <1>10, <2>1 DEF Store!Reconfigure, Store!Replaced
  <2> QED
    BY <2>1, <2>2
<1>11. CASE Store!InferenceFails
  <2>1. UNCHANGED <<file, active, model, session, ready, task, key>>
    BY <1>11 DEF Store!InferenceFails, Store!Store, Store!Detector
  <2>2. needsReinit => needsReinit'
    BY <1>11, Zenon DEF Store!InferenceFails
  <2> QED
    BY <2>1, <2>2
<1>12. CASE Store!Supervise
  BY <1>12 DEF Store!Supervise, Store!Store, Store!Detector
<1>13. ASSUME \/ \E k \in Keys : Store!Download(k) \/ Store!WorkerStarts(k)
              \/ Store!Infer \/ Store!Inferred
       PROVE  UNCHANGED <<file, active, model, session, ready, task, key, needsReinit>>
  BY <1>13 DEF Store!Download, Store!WorkerStarts, Store!Infer, Store!Inferred, Store!Store,
               Store!Detector, Store!Health
<1> QED
  BY <1>1, <1>2, <1>3, <1>4, <1>5, <1>6, <1>7, <1>8, <1>9, <1>10, <1>11, <1>12, <1>13
     DEF Store!ModelsNext

\* reconfigure, ensure_model, _boot_lock: however swaps, deletions and failures
\* interleave, no session is built from a file that failed its hash, and a detector
\* with the wrong model is on its way to the right one.
THEOREM ModelIsRight == ServicesSpec => []RightModel
<1>1. ModelsInv /\ [ServicesNext]_allVars => ModelsInv'
  <2> SUFFICES ASSUME ModelsInv, [ServicesNext]_allVars PROVE ModelsInv'
    OBVIOUS
  <2>1. CASE Store!ModelsNext
    BY <2>1, ModelsStep
  <2>2. CASE UNCHANGED modelVars
    BY <2>2 DEF modelVars, ModelsInv, ModelsTyped, OneBoots, Behind, BuildsVerified, OnItsWay,
                Bootstrapping, Store!UnderWay
  <2> QED
    BY <2>1, <2>2 DEF ServicesNext, Only, allVars
<1>2. ModelsInv => RightModel
  BY DEF ModelsInv, BuildsVerified, OnItsWay, RightModel, Store!RightModel
<1> QED
  BY <1>1, <1>2, ModelsStart, PTL DEF ServicesSpec, allVars

-----------------------------------------------------------------------------
(* Footage.                                                                *)

\* What is purged is gone, what is being written comes last, and a purge finds
\* nothing being written.
SegmentsInv ==
    /\ seg \in [Files!Segments -> {"future", "writing", "whole", "gone"}]
    /\ purged \subseteq Files!Segments
    /\ \A s \in purged : seg[s] = "gone"
    /\ \A s, t \in Files!Segments : seg[s] \in {"future", "writing"} /\ s < t => seg[t] = "future"
    /\ purge # "idle" => \A s \in Files!Segments : seg[s] # "writing"

\* The caches that a purge has yet to empty once the tree is gone.
Unwiped == CASE purge = "tree" -> {"export", "segment"}
             [] purge = "export" -> {"segment"}
             [] OTHER -> {}

\* Neither a file of a cache that is not waiting to be wiped, nor one on its way
\* there, shows what is purged.
CachesInv ==
    /\ holds = [i \in Files!Items |-> holds[i]] /\ part = [i \in Files!Items |-> part[i]]
    /\ \A i \in Files!Items : Files!Kind(i) \notin Unwiped => (holds[i] \cup part[i]) \cap purged = {}

FilesInv == SegmentsInv /\ CachesInv

LEMMA FilesStart == ServicesInit => FilesInv
<1> SUFFICES ASSUME ServicesInit PROVE FilesInv
  OBVIOUS
<1>1. /\ seg = [s \in Files!Segments |-> IF s = 1 THEN "whole" ELSE IF s = 2 THEN "writing" ELSE "future"]
      /\ purged = {} /\ purge = "idle"
      /\ holds = [i \in Files!Items |-> {}] /\ part = [i \in Files!Items |-> {}]
  BY DEF ServicesInit, Files!FootageInit
<1>2. Newest \in Nat
  BY PartsAssumption
<1> QED
  BY <1>1, <1>2 DEF FilesInv, SegmentsInv, CachesInv, Files!Segments

\* What a build can open is not purged.
LEMMA ReadableIsNot ==
    ASSUME SegmentsInv, NEW i
    PROVE  Files!Readable(i) \cap purged = {}
BY DEF SegmentsInv, Files!Readable, Files!OnDisk, Files!Are

LEMMA FilesStep == FilesInv /\ Files!FootageNext => FilesInv'
<1> SUFFICES ASSUME FilesInv, Files!FootageNext PROVE FilesInv'
  OBVIOUS
<1>0. Newest \in Nat /\ Files!Segments \subseteq Nat
  BY PartsAssumption DEF Files!Segments
<1> USE DEF FilesInv, Files!Disk, Files!Cache, Files!Builds, Files!Request
\* The segments move on, and none comes back from where it is purged.
<1>1. ASSUME SegmentsInv', UNCHANGED <<purged, holds, part, purge>> PROVE FilesInv'
  BY <1>1 DEF CachesInv, Unwiped
<1>2. CASE Files!Rollover
  <2>1. PICK s \in Files!Segments : /\ seg[s] = "writing"
                                    /\ seg' = [t \in Files!Segments |-> CASE t = s -> "whole"
                                                                          [] t = s + 1 -> "writing"
                                                                          [] OTHER -> seg[t]]
    BY <1>2 DEF Files!Rollover, Files!Are
  <2>2. ASSUME NEW t \in Files!Segments
        PROVE  seg'[t] = IF t = s THEN "whole" ELSE IF t = s + 1 THEN "writing" ELSE seg[t]
    <3>1. s # s + 1
      BY <1>0
    <3> QED
      BY <2>1, <3>1
  <2>3. purge = "idle" /\ UNCHANGED <<purged, holds, part, purge>>
    BY <1>2 DEF Files!Rollover
  <2>4. seg' \in [Files!Segments -> {"future", "writing", "whole", "gone"}]
    <3>1. seg' = [t \in Files!Segments |-> seg'[t]]
      BY <2>1
    <3> QED
      BY <2>2, <3>1 DEF SegmentsInv
  <2>5. \A t \in purged : seg'[t] = "gone"
    <3>1. \A t \in Files!Segments : t = s + 1 => seg[t] = "future"
      BY <1>0, <2>1 DEF SegmentsInv
    <3> QED
      BY <2>1, <2>2, <3>1 DEF SegmentsInv
  <2>6. ASSUME NEW u \in Files!Segments, NEW t \in Files!Segments, seg'[u] \in {"future", "writing"}, u < t
        PROVE  seg'[t] = "future"
    <3>1. u # s
      BY <2>2, <2>6
    <3>2. u = s + 1 \/ seg[u] \in {"future", "writing"}
      BY <2>2, <2>6, <3>1
    <3>3. s < u
      BY <1>0, <2>1, <2>6, <3>1, <3>2 DEF SegmentsInv
    <3>4. t # s /\ t # s + 1 /\ s < t
      BY <1>0, <2>6, <3>3
    <3> QED
      BY <2>1, <2>2, <3>4 DEF SegmentsInv
  <2> QED
    BY <1>1, <2>3, <2>4, <2>5, <2>6 DEF SegmentsInv
<1>3. CASE Files!Retain
  <2>1. PICK s \in Files!Segments : seg[s] = "whole" /\ seg' = [seg EXCEPT ![s] = "gone"]
    BY <1>3 DEF Files!Retain, Files!Are
  <2>2. UNCHANGED <<purged, holds, part, purge>>
    BY <1>3 DEF Files!Retain
  <2>3. SegmentsInv'
    BY <2>1, <2>2 DEF SegmentsInv
  <2> QED
    BY <1>1, <2>2, <2>3
<1>4. CASE Files!Resume
  <2>1. PICK s \in Files!Segments : seg[s] = "future" /\ seg' = [seg EXCEPT ![s] = "writing"]
                                    /\ \A t \in 1..(s - 1) : seg[t] # "future"
    BY <1>4 DEF Files!Resume, Files!Are
  <2>2. purge = "idle" /\ (\A t \in Files!Segments : seg[t] # "writing") /\ UNCHANGED <<purged, holds, part, purge>>
    BY <1>4 DEF Files!Resume, Files!Are
  <2>3. \A t \in Files!Segments : t < s => seg[t] # "future"
    BY <1>0, <2>1 DEF Files!Segments
  <2>4. \A t \in Files!Segments : s < t => seg[t] = "future"
    BY <2>1 DEF SegmentsInv
  <2>5. ASSUME NEW u \in Files!Segments, NEW t \in Files!Segments, seg'[u] \in {"future", "writing"}, u < t
        PROVE  seg'[t] = "future"
    <3>1. ~(u < s)
      BY <1>0, <2>1, <2>2, <2>3, <2>5 DEF SegmentsInv
    <3>2. s < t /\ s # t
      BY <1>0, <2>5, <3>1
    <3> QED
      BY <2>1, <2>4, <3>2 DEF SegmentsInv
  <2>6. SegmentsInv'
    BY <2>1, <2>2, <2>5 DEF SegmentsInv
  <2> QED
    BY <1>1, <2>2, <2>6
<1>5. CASE Files!Purge
  <2>1. /\ purge = "idle" /\ purge' = "halted" /\ UNCHANGED <<purged, holds, part>>
        /\ seg' = [s \in Files!Segments |-> IF seg[s] = "writing" THEN "whole" ELSE seg[s]]
    BY <1>5 DEF Files!Purge
  <2>2. SegmentsInv'
    BY <2>1 DEF SegmentsInv
  <2>3. Unwiped' = {} /\ Unwiped = {}
    BY <2>1 DEF Unwiped
  <2> QED
    BY <2>1, <2>2, <2>3 DEF CachesInv
<1>6. CASE Files!Wipe
  <2>1. PICK n \in 1..3 :
          /\ purge = IF n = 1 THEN "halted" ELSE Files!Wipes[n - 1]
          /\ purge' = IF n = 3 THEN "idle" ELSE Files!Wipes[n]
          /\ IF Files!Wipes[n] = "tree"
             THEN /\ purged' = purged \cup Files!OnDisk(Files!Segments)
                  /\ seg' = [s \in Files!Segments |-> IF seg[s] = "whole" THEN "gone" ELSE seg[s]]
                  /\ UNCHANGED <<holds, part>>
             ELSE /\ holds' = [i \in Files!Items |-> IF Files!Kind(i) = Files!Wipes[n] THEN {} ELSE holds[i]]
                  /\ part' = Files!Swept(Files!Wipes[n])
                  /\ UNCHANGED <<seg, purged>>
    BY <1>6 DEF Files!Wipe
  <2>2. CASE n = 1
    <3>1. /\ purge = "halted" /\ purge' = "tree" /\ UNCHANGED <<holds, part>>
          /\ purged' = purged \cup Files!OnDisk(Files!Segments)
          /\ seg' = [s \in Files!Segments |-> IF seg[s] = "whole" THEN "gone" ELSE seg[s]]
      BY <2>1, <2>2 DEF Files!Wipes
    <3>2. SegmentsInv'
      BY <3>1 DEF SegmentsInv, Files!OnDisk, Files!Are
    <3>3. Unwiped' = {"export", "segment"} /\ \A i \in Files!Items : Files!Kind(i) \in {"export", "segment"}
      BY <3>1 DEF Unwiped, Files!Items, Files!Exports, Files!Playable, Files!Kind
    <3> QED
      BY <3>1, <3>2, <3>3 DEF CachesInv
  <2>3. ASSUME NEW kind \in {"export", "segment"}, Unwiped' = Unwiped \ {kind}, UNCHANGED <<seg, purged>>,
               purge # "idle",
               holds' = [i \in Files!Items |-> IF Files!Kind(i) = kind THEN {} ELSE holds[i]],
               part' = Files!Swept(kind)
        PROVE  FilesInv'
    BY <2>3 DEF SegmentsInv, CachesInv, Files!Swept
  <2>4. CASE n = 2
    <3>1. purge = "tree" /\ purge' = "export"
      BY <2>1, <2>4 DEF Files!Wipes
    <3>2. Unwiped' = Unwiped \ {"export"}
      BY <3>1 DEF Unwiped
    <3> QED
      BY <2>1, <2>3, <2>4, <3>1, <3>2 DEF Files!Wipes
  <2>5. CASE n = 3
    <3>1. purge = "export" /\ purge' = "idle"
      BY <2>1, <2>5 DEF Files!Wipes
    <3>2. Unwiped' = Unwiped \ {"segment"}
      BY <3>1 DEF Unwiped
    <3> QED
      BY <2>1, <2>3, <2>5, <3>1, <3>2 DEF Files!Wipes
  <2> QED
    BY <2>2, <2>4, <2>5
\* What the caches and the builds do: no file shows more than was there to be read.
<1>7. ASSUME UNCHANGED <<seg, purged, purge>>,
             holds' = [i \in Files!Items |-> holds'[i]], part' = [i \in Files!Items |-> part'[i]],
             \A i \in Files!Items : \/ holds'[i] \cup part'[i] \subseteq holds[i] \cup part[i]
                                    \/ (holds'[i] \cup part'[i]) \subseteq holds[i] \cup Files!Readable(i)
      PROVE  FilesInv'
  BY <1>7, ReadableIsNot DEF SegmentsInv, CachesInv, Unwiped
<1>8. ASSUME NEW i \in Files!Items, Files!Launch(i) PROVE FilesInv'
  <2>1. part' = [part EXCEPT ![i] = {}] \/ part' = [part EXCEPT ![i] = Files!Readable(i)]
    BY <1>8 DEF Files!Launch, Files!Over
  <2>2. UNCHANGED <<seg, purged, purge, holds>>
    BY <1>8 DEF Files!Launch
  <2> QED
    BY <1>7, <2>1, <2>2, ReadableIsNot DEF CachesInv
<1>9. ASSUME NEW i \in Files!Items, Files!Encoded(i) PROVE FilesInv'
  <2>1. part' = part \/ part' = [part EXCEPT ![i] = {}]
    BY <1>9 DEF Files!Encoded, Files!Over
  <2>2. UNCHANGED <<seg, purged, purge, holds>>
    BY <1>9 DEF Files!Encoded
  <2> QED
    BY <1>7, <2>1, <2>2 DEF CachesInv
<1>10. ASSUME NEW i \in Files!Items, Files!Rename(i) PROVE FilesInv'
  <2>1. part' = [part EXCEPT ![i] = {}] /\ UNCHANGED <<seg, purged, purge>>
    BY <1>10 DEF Files!Rename, Files!Over
  <2>2. /\ holds' = [j \in Files!Items |-> holds'[j]]
        /\ \A j \in Files!Items : holds'[j] \subseteq IF j = i THEN holds[i] \cup part[i] ELSE holds[j]
    <3>1. CASE holds' = holds
      BY <3>1 DEF CachesInv
    <3>2. CASE Files!Publish(i)
      BY <3>2 DEF Files!Publish, CachesInv
    <3> QED
      BY <1>10, <3>1, <3>2 DEF Files!Rename
  <2> QED
    BY <1>7, <2>1, <2>2 DEF CachesInv
<1>11. ASSUME \/ \E r \in Asks : Files!Hit(r) \/ Files!Miss(r) \/ \E i \in Files!Items : Files!Ask(r, i)
              \/ \E i \in Files!Items : Files!Begin(i) \/ Files!WriteList(i)
       PROVE  UNCHANGED <<seg, purged, purge, holds, part>>
  BY <1>11 DEF Files!Hit, Files!Miss, Files!Ask, Files!Begin, Files!WriteList
<1>12. CASE UNCHANGED <<seg, purged, purge, holds, part>>
  BY <1>7, <1>12 DEF CachesInv
<1> QED
  BY <1>2, <1>3, <1>4, <1>5, <1>6, <1>8, <1>9, <1>10, <1>11, <1>12 DEF Files!FootageNext, Files!Builder

\* _wipe_recordings_tree, purge_all_recordings: whatever is asked for and built
\* meanwhile, no file of a cache shows what a purge that is over deleted.
THEOREM PurgeIsWhole == ServicesSpec => []PurgeLeavesNone
<1>1. FilesInv /\ [ServicesNext]_allVars => FilesInv'
  <2> SUFFICES ASSUME FilesInv, [ServicesNext]_allVars PROVE FilesInv'
    OBVIOUS
  <2>1. CASE Files!FootageNext
    BY <2>1, FilesStep
  <2>2. CASE UNCHANGED footageVars
    BY <2>2 DEF footageVars, FilesInv, SegmentsInv, CachesInv, Unwiped
  <2> QED
    BY <2>1, <2>2 DEF ServicesNext, Only, allVars
<1>2. FilesInv => PurgeLeavesNone
  <2> SUFFICES ASSUME FilesInv PROVE Files!PurgeLeavesNone
    BY DEF PurgeLeavesNone
  <2>1. purge = "idle" => Unwiped = {}
    BY DEF Unwiped
  <2> QED
    BY <2>1 DEF FilesInv, CachesInv, Files!PurgeLeavesNone
<1> QED
  BY <1>1, <1>2, FilesStart, PTL DEF ServicesSpec, allVars

-----------------------------------------------------------------------------
(* AiTrigger.                                                              *)

\* A subscription that works has been heard of; one that does not, and no call of which
\* hangs, has been deaf for no longer than since its last renewal, which is due again in
\* time.
BlindInv ==
    /\ {dead, since, renewed, aiLeft, backoff} \subseteq Nat
    /\ connected => aiPc \in {"pulling", "renewing"}
    /\ aiPc \in {"pulling", "renewing"} => connected
    /\ AI!Hears => dead = 0
    /\ dead <= since
    /\ connected /\ ~hung => dead <= renewed
    /\ connected /\ ~hung /\ aiPc = "pulling" => renewed + aiLeft <= Renew + Pull
    /\ connected /\ ~hung /\ aiPc = "renewing" => renewed + aiLeft <= Renew + Pull + 1

LEMMA BlindInit == ServicesInit => BlindInv
<1> SUFFICES ASSUME ServicesInit PROVE BlindInv
  OBVIOUS
<1>1. Renew \in Nat /\ Pull \in Nat /\ Grace \in Nat
  BY PartsAssumption
<1>2. /\ aiPc = "connecting" /\ aiLeft = 1 /\ renewed = 0 /\ dead = 0
      /\ backoff = BackoffMin /\ BackoffMin \in Nat
      /\ since = AI!AgeCap + 1
  BY PartsAssumption DEF ServicesInit, AI!Init
<1>3. ~connected
  BY Zenon DEF ServicesInit, AI!Init
<1>4. AI!AgeCap + 1 \in Nat
  BY <1>1 DEF AI!AgeCap, AI!Notice
<1> QED
  BY <1>2, <1>3, <1>4 DEF BlindInv

LEMMA BlindStep == BlindInv /\ AI!Next => BlindInv'
<1> SUFFICES ASSUME BlindInv, AI!Next PROVE BlindInv'
  OBVIOUS
<1>0. {Pull, Renew, Grace, BackoffMin, BackoffMax} \subseteq Nat
  BY PartsAssumption
<1> USE <1>0 DEF BlindInv, AI!Go, AI!Hears, AI!Answers
<1>h. CASE AI!Hang
  BY <1>h DEF AI!Hang
<1>1. CASE AI!Connect
  <2>1. CASE aiPc' = "pulling"
    <3>1. /\ aiLeft' = Pull /\ renewed' = 0 /\ dead' = 0 /\ since' = 0 /\ backoff' = backoff
      BY <1>1, <2>1 DEF AI!Connect, AI!BackOff
    <3>2. connected'
      BY <1>1, <2>1, Zenon DEF AI!Connect, AI!BackOff, AI!Go
    <3> QED
      BY <2>1, <3>1, <3>2
  <2>2. CASE aiPc' = "backoff"
    <3>1. ~connected'
      BY <1>1, <2>2, Zenon DEF AI!Connect, AI!BackOff
    <3>2. UNCHANGED <<reachable, alive, dead, since, renewed>>
      BY <1>1, <2>2 DEF AI!Connect
    <3>3. aiLeft' \in Nat /\ backoff' \in Nat
      BY <1>1, <2>2 DEF AI!Connect, AI!BackOff
    <3> QED
      BY <2>2, <3>1, <3>2, <3>3
  <2> QED
    BY <1>1, <2>1, <2>2 DEF AI!Connect, AI!BackOff
<1>2. CASE AI!Pulled
  <2>1. UNCHANGED <<reachable, alive, backoff, since, renewed, dead>> /\ aiPc = "pulling"
    BY <1>2 DEF AI!Pulled
  <2>2. connected' => aiPc' # "leaving"
    BY <1>2 DEF AI!Pulled
  <2>4. aiPc' # "leaving" => connected'
    BY <1>2, Zenon DEF AI!Pulled
  <2>5. ~hung'
    BY <1>2, Zenon DEF AI!Pulled, AI!AfterPull, AI!Go
  <2>6. hung => aiPc' = "leaving"
    BY <1>2 DEF AI!Pulled
  <2>3. \/ aiPc' = "leaving" /\ aiLeft' = 1
        \/ AI!AfterPull
    BY <1>2 DEF AI!Pulled
  <2>7. CASE aiPc' = "leaving"
    BY <2>1, <2>2, <2>3, <2>7 DEF AI!AfterPull
  <2>8. CASE AI!AfterPull /\ aiPc' # "leaving"
    BY <2>1, <2>4, <2>5, <2>6, <2>8 DEF AI!AfterPull
  <2> QED
    BY <2>3, <2>7, <2>8
<1>3. CASE AI!Renewed
  <2>1. UNCHANGED <<reachable, alive, backoff, since, dead>> /\ aiPc = "renewing" /\ connected
    BY <1>3 DEF AI!Renewed
  <2>2. CASE AI!Answers /\ AI!Go("pulling", Pull) /\ renewed' = 0 /\ UNCHANGED connected
    BY <2>1, <2>2
  <2>3. CASE AI!RenewFailed /\ renewed' = 0
    BY <2>1, <2>3 DEF AI!RenewFailed
  <2> QED
    BY <1>3, <2>2, <2>3, Zenon DEF AI!Renewed
<1>4. CASE AI!Left
  <2>1. UNCHANGED <<reachable, dead, since, renewed>> /\ aiPc' = "backoff"
    BY <1>4 DEF AI!Left, AI!BackOff
  <2>2. ~alive' /\ ~connected'
    BY <1>4, Zenon DEF AI!Left, AI!BackOff
  <2>3. aiLeft' \in Nat /\ backoff' \in Nat
    BY <1>4 DEF AI!Left, AI!BackOff
  <2> QED
    BY <2>1, <2>2, <2>3
<1>5. CASE AI!Retry
  BY <1>5 DEF AI!Retry
<1>6. CASE AI!CameraFails
  BY <1>6 DEF AI!CameraFails, AI!watchVars
<1>7. CASE AI!Tick
  BY <1>7 DEF AI!Tick, AI!Capped, AI!AgeCap, AI!Notice
<1> QED
  BY <1>h, <1>1, <1>2, <1>3, <1>4, <1>5, <1>6, <1>7 DEF AI!Next, AI!Watcher

\* _renew, failsafe_needed: "Blind is the one outcome this system must never reach."
\* Whatever the camera drops and whenever, and whatever hangs: a frame is not looked at
\* though no notification could have come through for a renewal and a pull only while a
\* pull or a renewal hangs, for every length of these.
THEOREM NeverBlindOtherwise == ServicesSpec => []BlindOnlyHung
<1>1. BlindInv /\ [ServicesNext]_allVars => BlindInv'
  <2> SUFFICES ASSUME BlindInv, [ServicesNext]_allVars PROVE BlindInv'
    OBVIOUS
  <2>1. CASE AI!Next
    BY <2>1, BlindStep
  <2>2. CASE UNCHANGED triggerVars
    BY <2>2 DEF triggerVars, BlindInv, AI!Hears, AI!Answers
  <2> QED
    BY <2>1, <2>2 DEF ServicesNext, Only, allVars
<1>2. BlindInv => BlindOnlyHung
  <2> SUFFICES ASSUME BlindInv, dead > AI!Notice, ~(hung /\ connected) PROVE AI!Failsafe
    BY DEF BlindOnlyHung, AI!BlindOnlyHung, AI!ShouldInfer
  <2>0. Pull \in Nat /\ Renew \in Nat /\ Grace \in Nat /\ Grace <= Renew
    BY PartsAssumption
  <2>1. since > Grace
    BY <2>0 DEF BlindInv, AI!Notice
  <2>2. ~connected
    BY <2>0 DEF BlindInv, AI!Notice
  <2> QED
    BY <2>1, <2>2 DEF AI!Failsafe
<1> QED
  BY <1>1, <1>2, BlindInit, PTL DEF ServicesSpec, allVars

-----------------------------------------------------------------------------
(* Types and bounds of every part.                                         *)

LEMMA LightTyped == Light!SpotTypeOK /\ Light!SpotNext => Light!SpotTypeOK'
<1> SUFFICES ASSUME Light!SpotTypeOK, Light!SpotNext PROVE Light!SpotTypeOK'
  OBVIOUS
<1>0. Holds \subseteq Nat /\ Dusk \in Nat
  BY PartsAssumption
<1> USE <1>0 DEF Light!SpotTypeOK
<1>1. ASSUME NEW t \in Timers, NEW hold \in Holds, Light!Person(t, hold) PROVE Light!SpotTypeOK'
  <2>1. Light!Cancelled \in [Timers -> Int] /\ clock + hold \in Int
    BY DEF Light!Cancelled
  <2>2. until' \in [Timers -> Int] /\ due' \in Int /\ clock' \in 0..Dusk /\ current' \in Timers
    BY <1>1, <2>1 DEF Light!Person
  <2>3. turningOn' \in 0..2
    BY <1>1 DEF Light!Person
  <2>4. {armed', lit', lamp', byHand'} \subseteq BOOLEAN
    BY <1>1, Zenon DEF Light!Person
  <2> QED
    BY <2>2, <2>3, <2>4
<1>2. ASSUME NEW t \in Timers, Light!Expire(t) \/ Light!Off(t) PROVE Light!SpotTypeOK'
  <2>1. /\ until' \in [Timers -> Int] /\ current' \in Timers \cup {"none"}
        /\ UNCHANGED <<clock, due, turningOn>>
    BY <1>2 DEF Light!Expire, Light!Off
  <2>2. {armed', lit', lamp', byHand'} \subseteq BOOLEAN
    BY <1>2, Zenon DEF Light!Expire, Light!Off
  <2> QED
    BY <2>1, <2>2
<1>3. CASE Light!Forget
  <2>1. until' \in [Timers -> Int] /\ current' = "none" /\ UNCHANGED <<clock, due, turningOn>>
    BY <1>3 DEF Light!Forget, Light!Cancelled
  <2>2. {armed', lit', lamp', byHand'} \subseteq BOOLEAN
    BY <1>3, Zenon DEF Light!Forget
  <2> QED
    BY <2>1, <2>2
<1>4. CASE Light!On
  <2>1. UNCHANGED <<clock, until, current, due>> /\ turningOn' \in 0..2
    BY <1>4 DEF Light!On
  <2>2. {armed', lit', lamp', byHand'} \subseteq BOOLEAN
    BY <1>4, Zenon DEF Light!On
  <2> QED
    BY <2>1, <2>2
<1>5. CASE Light!Wait
  <2>1. UNCHANGED <<until, current, due, turningOn>> /\ clock' \in 0..Dusk
    BY <1>5 DEF Light!Wait
  <2>2. {armed', lit', lamp', byHand'} \subseteq BOOLEAN
    BY <1>5, Zenon DEF Light!Wait
  <2> QED
    BY <2>1, <2>2
<1>6. CASE Light!Arm \/ \E on \in BOOLEAN : Light!Operate(on)
  <2>1. UNCHANGED <<clock, until, current, due, turningOn>>
    BY <1>6, Zenon DEF Light!Arm, Light!Operate
  <2>2. {armed', lit', lamp', byHand'} \subseteq BOOLEAN
    BY <1>6, Zenon DEF Light!Arm, Light!Operate
  <2> QED
    BY <2>1, <2>2
<1> QED
  BY <1>1, <1>2, <1>3, <1>4, <1>5, <1>6 DEF Light!SpotNext

\* A phone that is tried again has not had its attempts yet.
PushTypes ==
    /\ Pushes!PushTypeOK
    /\ \A a \in Alerts, k \in Pushes!Addresses : leg[a][k] = "backoff" => posts[a][k] < 3

LEMMA PushTyped == PushTypes /\ Pushes!PushNext => PushTypes'
<1> SUFFICES ASSUME PushTypes, Pushes!PushNext PROVE PushTypes'
  OBVIOUS
<1> DEFINE Keyed == Pushes!Addresses
           Counts == [Keyed -> 0..3]
           Rows == [Keyed -> Pushes!Legs]
           Known == mode \in {"off", "relay"} /\ rows \subseteq Keyed /\ delivers \subseteq Keyed
                    /\ refused \in [Alerts -> SUBSET Keyed]
           Legged == /\ leg \in [Alerts -> Rows] /\ posts \in [Alerts -> Counts]
                     /\ \A a \in Alerts, k \in Keyed : leg[a][k] = "backoff" => posts[a][k] < 3
<1>0. Known /\ Legged
  BY DEF PushTypes, Pushes!PushTypeOK
<1>1. ASSUME Known', Legged' PROVE PushTypes'
  BY <1>1 DEF PushTypes, Pushes!PushTypeOK
<1> HIDE DEF Keyed
<1>2. CASE Pushes!SetMode
  <2>1. Known' /\ UNCHANGED <<leg, posts>>
    BY <1>0, <1>2 DEF Pushes!SetMode
  <2> QED
    BY <1>0, <1>1, <2>1
<1>3. ASSUME NEW k \in Keyed, Pushes!Register(k) \/ Pushes!Unregister(k) \/ Pushes!Expire(k)
      PROVE  PushTypes'
  <2>1. Known' /\ UNCHANGED <<leg, posts>>
    BY <1>0, <1>3 DEF Pushes!Register, Pushes!Unregister, Pushes!Expire
  <2> QED
    BY <1>0, <1>1, <2>1
<1>4. ASSUME NEW a \in Alerts, Pushes!Begin(a) PROVE PushTypes'
  <2> DEFINE row == [k \in Keyed |-> IF k \in Pushes!Listed THEN "posting" ELSE "none"]
             counts == [k \in Keyed |-> IF k \in Pushes!Listed THEN 1 ELSE 0]
  <2>1. /\ leg' = [leg EXCEPT ![a] = row] /\ posts' = [posts EXCEPT ![a] = counts]
        /\ UNCHANGED <<mode, rows, delivers, refused>>
    BY <1>4 DEF Pushes!Begin, Keyed
  <2>2. row \in Rows /\ counts \in Counts /\ \A k \in Keyed : row[k] # "backoff"
    BY DEF Pushes!Legs
  <2> HIDE DEF row, counts
  <2>3. Legged'
    BY <1>0, <2>1, <2>2
  <2> QED
    BY <1>0, <1>1, <2>1, <2>3
<1>5. ASSUME NEW a \in Alerts, NEW k \in Keyed, NEW new \in Pushes!Legs, NEW n \in 0..3,
             new = "backoff" => n < 3,
             leg' = [leg EXCEPT ![a][k] = new],
             posts' = [posts EXCEPT ![a][k] = n],
             UNCHANGED <<mode, delivers>>, rows' \subseteq rows,
             refused' \in [Alerts -> SUBSET Keyed]
      PROVE  PushTypes'
  <2> DEFINE row == [leg[a] EXCEPT ![k] = new]
             counts == [posts[a] EXCEPT ![k] = n]
  <2>1. leg' = [leg EXCEPT ![a] = row] /\ posts' = [posts EXCEPT ![a] = counts]
    BY <1>5
  <2>2. /\ row \in Rows /\ counts \in Counts
        /\ \A j \in Keyed : row[j] = "backoff" => counts[j] < 3
    BY <1>0, <1>5
  <2> HIDE DEF row, counts
  <2>3. Legged'
    BY <1>0, <2>1, <2>2
  <2>4. Known'
    BY <1>0, <1>5
  <2> QED
    BY <1>1, <2>3, <2>4
<1>6. ASSUME NEW a \in Alerts, NEW k \in Keyed, Pushes!Leg(a, k) PROVE PushTypes'
  <2>0. leg[a] \in Rows /\ posts[a] \in Counts /\ posts[a][k] \in 0..3
    BY <1>0
  <2>1. ASSUME UNCHANGED posts PROVE posts' = [posts EXCEPT ![a][k] = posts[a][k]]
    BY <1>0, <2>0, <2>1
  <2>2. CASE Pushes!Retry(a, k)
    <3>1. /\ leg' = [leg EXCEPT ![a][k] = "posting"] /\ posts' = [posts EXCEPT ![a][k] = @ + 1]
          /\ leg[a][k] = "backoff" /\ UNCHANGED <<mode, rows, delivers, refused>>
      BY <2>2 DEF Pushes!Retry
    <3>2. posts[a][k] + 1 \in 0..3 /\ posts' = [posts EXCEPT ![a][k] = posts[a][k] + 1]
      BY <1>0, <2>0, <3>1
    <3> QED
      BY <1>0, <1>5, <3>1, <3>2 DEF Pushes!Legs
  <2>3. CASE Pushes!Prune(a, k)
    <3>1. /\ leg' = [leg EXCEPT ![a][k] = "pruned"] /\ rows' = rows \ {k}
          /\ UNCHANGED <<mode, delivers, posts, refused>>
      BY <2>3 DEF Pushes!Prune
    <3> QED
      BY <1>0, <1>5, <2>0, <2>1, <3>1 DEF Pushes!Legs
  <2>4. ASSUME NEW answer \in {"ok", "failed", "dead", "refused"}, Pushes!Answered(a, k, answer),
               IF answer = "dead" THEN refused' = [refused EXCEPT ![a] = @ \cup {k}]
                                  ELSE UNCHANGED refused
        PROVE  PushTypes'
    <3>1. /\ Pushes!After(a, k, answer) \in Pushes!Legs
          /\ Pushes!After(a, k, answer) = "backoff" => posts[a][k] < Pushes!Attempts(k)
      BY DEF Pushes!After, Pushes!Final, Pushes!Dead, Pushes!Legs
    <3>2. Pushes!Attempts(k) \in {1, 3}
      BY DEF Pushes!Attempts
    <3>3. refused' \in [Alerts -> SUBSET Keyed]
      <4>1. CASE answer = "dead"
        BY <1>0, <2>4, <4>1
      <4>2. CASE answer # "dead"
        BY <1>0, <2>4, <4>2
      <4> QED
        BY <4>1, <4>2
    <3>4. leg' = [leg EXCEPT ![a][k] = Pushes!After(a, k, answer)] /\ UNCHANGED <<mode, rows, delivers, posts>>
      BY <2>4 DEF Pushes!Answered
    <3>5. Pushes!After(a, k, answer) = "backoff" => posts[a][k] < 3
      BY <2>0, <3>1, <3>2
    <3> QED
      BY <1>5, <2>0, <2>1, <3>1, <3>3, <3>4, <3>5
  <2> QED
    BY <1>6, <2>2, <2>3, <2>4 DEF Pushes!Leg, Pushes!Delivered, Pushes!Undelivered
<1> QED
  BY <1>2, <1>3, <1>4, <1>6 DEF Pushes!PushNext, Keyed

LEMMA AiTyped == AI!TypeOK /\ AI!Next => AI!TypeOK'
<1> SUFFICES ASSUME AI!TypeOK, AI!Next PROVE AI!TypeOK'
  OBVIOUS
<1>0. /\ {Pull, Renew, AiCooldown, MaxActive, Grace, BackoffMin, BackoffMax, Stable} \subseteq Nat
      /\ Pull > 0 /\ BackoffMin <= BackoffMax
  BY PartsAssumption
<1> DEFINE Flags == {reachable, alive, hung, connected, ever} \subseteq BOOLEAN
           Place == /\ aiPc \in {"connecting", "pulling", "renewing", "leaving", "backoff"}
                    /\ aiLeft \in 0..(Pull + BackoffMax)
           Pauses == backoff \in BackoffMin..BackoffMax /\ tried \in 0..(Stable + 1)
           Ages == /\ {since, dead, down} \subseteq 0..(AI!AgeCap + 1)
                   /\ renewed \in 0..(Renew + Pull + 1)
           Heard == started \subseteq Topics /\ fired \in 0..(MaxActive + 1) /\ cooling \in 0..AiCooldown
<1>1. Flags /\ Place /\ Pauses /\ Ages /\ Heard
  BY DEF AI!TypeOK
<1>2. ASSUME Flags', Place', Pauses', Ages', Heard' PROVE AI!TypeOK'
  BY <1>2 DEF AI!TypeOK
<1>3. AI!AgeCap \in Nat /\ AI!AgeCap' = AI!AgeCap
  BY <1>0 DEF AI!AgeCap, AI!Notice
<1>h. ASSUME NEW where, NEW ticks, AI!Go(where, ticks) PROVE hung' = FALSE
  BY <1>h DEF AI!Go
<1>f. ASSUME AI!BackOff PROVE hung' = FALSE
  BY <1>f, Zenon DEF AI!BackOff, AI!Go
<1>g. CASE AI!Hang
  <2>1. Flags'
    BY <1>1, <1>g, Zenon DEF AI!Hang
  <2>2. Place' /\ Pauses' /\ Ages' /\ Heard'
    BY <1>0, <1>1, <1>3, <1>g DEF AI!Hang, AI!windowVars
  <2> QED
    BY <1>2, <2>1, <2>2
<1>4. ASSUME AI!BackOff PROVE Place' /\ Pauses' /\ connected' = FALSE
  BY <1>0, <1>1, <1>4 DEF AI!BackOff, AI!Go
<1>5. CASE AI!Connect
  <2>1. Flags'
    BY <1>1, <1>f, <1>h, <1>5, Zenon DEF AI!Connect, AI!BackOff
  <2>2. ASSUME AI!Go("pulling", Pull), UNCHANGED <<backoff, tried>> PROVE Place' /\ Pauses'
    BY <1>0, <1>1, <2>2 DEF AI!Go
  <2>3. Place' /\ Pauses'
    BY <1>4, <1>5, <2>2 DEF AI!Connect
  <2>4. Ages' /\ Heard'
    BY <1>0, <1>1, <1>3, <1>5 DEF AI!Connect, AI!windowVars
  <2> QED
    BY <1>2, <2>1, <2>3, <2>4
<1>6. CASE AI!Pulled
  <2>1. connected' \in BOOLEAN
    BY <1>6, Zenon DEF AI!Pulled
  <2>7. hung' = FALSE
    BY <1>6, <1>h, Zenon DEF AI!Pulled, AI!AfterPull
  <2>2. Flags'
    BY <1>1, <1>6, <2>1, <2>7, Zenon DEF AI!Pulled
  <2>3. Place'
    BY <1>0, <1>1, <1>6 DEF AI!Pulled, AI!AfterPull, AI!Go
  <2>4. Pauses' /\ Ages'
    BY <1>1, <1>3, <1>6 DEF AI!Pulled
  <2>5. ASSUME NEW n \in AI!Notifications, AI!Notified(n) PROVE Heard'
    <3>1. n.topic \in Topics
      BY DEF AI!Notifications
    <3>2. /\ 0 \in 0..(MaxActive + 1)
          /\ AiCooldown \in 0..AiCooldown /\ cooling \in 0..AiCooldown
      BY <1>0, <1>1
    <3> QED
      BY <1>1, <2>5, <3>1, <3>2 DEF AI!Notified, AI!Stopped, AI!Fired, AI!windowVars
  <2>6. Heard'
    BY <1>1, <1>6, <2>5 DEF AI!Pulled, AI!windowVars
  <2> QED
    BY <1>2, <2>2, <2>3, <2>4, <2>6
<1>7. CASE AI!Renewed
  <2>1. Flags'
    BY <1>1, <1>h, <1>7, Zenon DEF AI!Renewed, AI!RenewFailed
  <2>2. Place'
    BY <1>0, <1>1, <1>7 DEF AI!Renewed, AI!RenewFailed, AI!Go
  <2>3. Pauses' /\ Ages' /\ Heard'
    BY <1>0, <1>1, <1>3, <1>7 DEF AI!Renewed, AI!windowVars
  <2> QED
    BY <1>2, <2>1, <2>2, <2>3
<1>8. CASE AI!Left
  <2>1. Flags'
    BY <1>1, <1>4, <1>f, <1>8, Zenon DEF AI!Left
  <2>2. Place' /\ Pauses'
    BY <1>4, <1>8 DEF AI!Left
  <2>3. Ages' /\ Heard'
    BY <1>1, <1>3, <1>8 DEF AI!Left, AI!windowVars
  <2> QED
    BY <1>2, <2>1, <2>2, <2>3
<1>9. CASE AI!Retry
  <2>1. Flags'
    BY <1>1, <1>h, <1>9, Zenon DEF AI!Retry
  <2>2. Place' /\ Pauses' /\ Ages' /\ Heard'
    BY <1>0, <1>1, <1>3, <1>9 DEF AI!Retry, AI!Go, AI!windowVars
  <2> QED
    BY <1>2, <2>1, <2>2
<1>10. CASE AI!CameraFails
  <2>1. Flags'
    BY <1>1, <1>10, Zenon DEF AI!CameraFails, AI!watchVars
  <2>2. Place' /\ Pauses' /\ Heard' /\ UNCHANGED <<since, down, renewed>>
    BY <1>1, <1>10, Zenon DEF AI!CameraFails, AI!watchVars, AI!windowVars
  <2>3. dead' = 0 \/ dead' = dead
    BY <1>10, Zenon DEF AI!CameraFails
  <2>4. Ages'
    BY <1>0, <1>1, <1>3, <2>2, <2>3
  <2> QED
    BY <1>2, <2>1, <2>2, <2>4
<1>11. CASE AI!Tick
  <2>1. Flags'
    BY <1>1, <1>11, Zenon DEF AI!Tick
  <2>2. Place' /\ Pauses' /\ Heard'
    BY <1>0, <1>1, <1>11 DEF AI!Tick, AI!Capped
  <2>3. Ages'
    BY <1>0, <1>1, <1>3, <1>11 DEF AI!Tick, AI!Capped
  <2> QED
    BY <1>2, <2>1, <2>2, <2>3
<1> QED
  BY <1>g, <1>5, <1>6, <1>7, <1>8, <1>9, <1>10, <1>11 DEF AI!Next, AI!Watcher

\* What PoolInv leaves open: the flags, the count of failures, and who rebuilds.
PoolTypes == PoolInv /\ Pool!CoralTypeOK

LEMMA PoolTypesKept == PoolTypes /\ Pool!CoralNext => PoolTypes'
<1> SUFFICES ASSUME PoolTypes, Pool!CoralNext PROVE PoolTypes'
  OBVIOUS
<1>0. RunLength \in Nat
  BY PartsAssumption
<1> DEFINE Flags == {serves, ailing} \subseteq BOOLEAN
           Rebuilds == run \in 0..RunLength /\ rebuild \in {"none", "reinit", "switch"}
<1>1. PoolInv /\ Flags /\ Rebuilds
  BY DEF PoolTypes, Pool!CoralTypeOK
<1>2. PoolInv'
  BY <1>1, PoolStep
<1>3. ASSUME Flags', Rebuilds' PROVE PoolTypes'
  <2>1. /\ fleet' \subseteq Pool!Tpus
    BY <1>2 DEF PoolInv, PoolTyped, OfTheirAge, Pool!Tpus
  <2> QED
    BY <1>2, <1>3, <2>1 DEF PoolTypes, PoolInv, PoolTyped, Pool!CoralTypeOK
<1>4. ASSUME UNCHANGED <<serves, ailing, run, rebuild>> PROVE PoolTypes'
  BY <1>1, <1>3, <1>4
<1>5. ASSUME Pool!Failing \/ Pool!Healthy, UNCHANGED <<serves, rebuild>> PROVE PoolTypes'
  <2>1. Rebuilds'
    BY <1>0, <1>1, <1>5 DEF Pool!Failing, Pool!Healthy
  <2>2. Flags'
    BY <1>1, <1>5, Zenon DEF Pool!Failing, Pool!Healthy
  <2> QED
    BY <1>3, <2>1, <2>2
<1>6. ASSUME NEW d \in Detects, Pool!Detect(d) \/ \E t \in Pool!Tpus : Pool!Checkout(d, t)
      PROVE  UNCHANGED <<serves, ailing, run, rebuild>>
  BY <1>6, Zenon DEF Pool!Detect, Pool!Checkout
<1>7. ASSUME \/ \E d \in Detects : Pool!WaitEnds(d) \/ \E well \in BOOLEAN : Pool!Invoked(d, well)
             \/ Pool!TimedOut
      PROVE  (Pool!Failing \/ Pool!Healthy) /\ UNCHANGED <<serves, rebuild>>
  BY <1>7, Zenon DEF Pool!WaitEnds, Pool!Invoked, Pool!TimedOut
<1>8. ASSUME NEW why \in {"reinit", "switch"}, Pool!Rebuild(why) PROVE PoolTypes'
  <2>1. serves' = FALSE /\ rebuild' = why /\ UNCHANGED <<ailing, run>>
    BY <1>8 DEF Pool!Rebuild
  <2> QED
    BY <1>1, <1>3, <2>1
<1>9. CASE Pool!Bound
  <2>1. rebuild' = "none" /\ (run' = 0 \/ run' = run) /\ serves' = (Pool!Bindable # {})
    BY <1>9, Zenon DEF Pool!Bound
  <2>2. ailing' = FALSE \/ ailing' = ailing
    BY <1>9, Zenon DEF Pool!Bound
  <2>3. Flags'
    BY <1>1, <2>1, <2>2, Zenon
  <2>4. Rebuilds'
    BY <1>0, <1>1, <2>1
  <2> QED
    BY <1>3, <2>3, <2>4
<1>10. ASSUME NEW d \in Devices, Pool!Plug(d) PROVE UNCHANGED <<serves, ailing, run, rebuild>>
  BY <1>10, Zenon DEF Pool!Plug
<1> QED
  BY <1>4, <1>5, <1>6, <1>7, <1>8, <1>9, <1>10 DEF Pool!CoralNext

\* TalkInv bounds the age of a session, whatever it is in.
TalkTypes == TalkInv /\ Talking!TalkTypeOK

LEMMA TalkTyped == TalkTypes /\ Talking!TalkNext => TalkTypes'
<1> SUFFICES ASSUME TalkTypes, Talking!TalkNext PROVE TalkTypes'
  OBVIOUS
<1>0. QueueMax \in Nat /\ TalkMax \in Nat /\ Drain \in Nat /\ Teardown \in Nat
  BY PartsAssumption
<1> DEFINE Flags == {hush, waited, ended} \subseteq BOOLEAN
           Hushed == hushed \in 0..(Drain + Teardown + 3)
           Send == sender \in {"none", "opening", "streaming", "closing", "done"}
           Leaves == left \in 0..(Drain + Teardown)
<1>1. TalkInv /\ Flags /\ Hushed /\ Send /\ Leaves
  BY DEF TalkTypes, Talking!TalkTypeOK
<1>2. TalkInv'
  BY <1>1, TalkStep
<1>3. ASSUME Flags', Hushed', Send', Leaves' PROVE TalkTypes'
  <2>1. age' \in 0..(TalkMax + Drain + Teardown + 1)
    BY <1>0, <1>2 DEF TalkInv
  <2> QED
    BY <1>2, <1>3, <2>1 DEF TalkTypes, TalkInv, Talking!TalkTypeOK
<1>4. Flags'
  BY <1>1, Zenon DEF Talking!TalkNext, Talking!Dial, Talking!Accepted, Talking!NotAccepted, Talking!Quiet,
     Talking!Chunk, Talking!Hangup, Talking!Drained, Talking!HungUp, Talking!Opened, Talking!Play,
     Talking!SenderEnds, Talking!Closed, Talking!Privacy, Talking!Second, Talking!Turn, Talking!Finish,
     Talking!WithEnd
<1>5. Hushed'
  <2>1. \/ hushed' = hushed \/ hushed' = 0
        \/ hushed' = IF hush /\ hushed < Drain + Teardown + 3 THEN hushed + 1 ELSE hushed
    BY Zenon DEF Talking!TalkNext, Talking!Dial, Talking!Accepted, Talking!NotAccepted, Talking!Quiet,
       Talking!Chunk, Talking!Hangup, Talking!Drained, Talking!HungUp, Talking!Opened, Talking!Play,
       Talking!SenderEnds, Talking!Closed, Talking!Privacy, Talking!Second
  <2> QED
    BY <1>0, <1>1, <2>1
<1>6. Send'
  BY <1>1 DEF Talking!TalkNext, Talking!Dial, Talking!Accepted, Talking!NotAccepted, Talking!Quiet,
     Talking!Chunk, Talking!Hangup, Talking!Drained, Talking!HungUp, Talking!Opened, Talking!Play,
     Talking!SenderEnds, Talking!Closed, Talking!Privacy, Talking!Second
<1>7. Leaves'
  <2>1. \/ left' \in {left, Drain, Teardown, 0}
        \/ left > 0 /\ left' = left - 1
    BY <1>1 DEF Talking!TalkNext, Talking!Dial, Talking!Accepted, Talking!NotAccepted, Talking!Quiet,
       Talking!Chunk, Talking!Hangup, Talking!Drained, Talking!HungUp, Talking!Opened, Talking!Play,
       Talking!SenderEnds, Talking!Closed, Talking!Privacy, Talking!Second, Talking!Turn, Talking!Finish
  <2> QED
    BY <1>0, <1>1, <2>1
<1> QED
  BY <1>3, <1>4, <1>5, <1>6, <1>7

LEMMA ModelsTypedKept == Store!ModelsTypeOK /\ Store!ModelsNext => Store!ModelsTypeOK'
<1> SUFFICES ASSUME Store!ModelsTypeOK, Store!ModelsNext PROVE Store!ModelsTypeOK'
  OBVIOUS
<1>0. FailureRun \in Nat
  BY PartsAssumption
<1> DEFINE Places == {"idle", "lock", "ensuring", "building", "backoff", "over", "dead"}
           Stored == /\ file \in [Keys -> {"absent", "good", "bad"}]
                     /\ shown \in [Keys -> {"absent", "downloading", "verifying", "ready", "error"}]
                     /\ worker \in [Keys -> {"none", "created", "hashing", "fetching"}]
           Loaded == /\ {active, model} \subseteq Keys
                     /\ {session, key, frame} \subseteq Keys \cup {"none"}
           Flags == ready \in BOOLEAN /\ needsReinit \in BOOLEAN
           Tasked == task \in [Store!Tasks -> Places]
           Tallied == failures \in 0..FailureRun
<1>1. Stored /\ Loaded /\ Flags /\ Tasked /\ Tallied
  BY DEF Store!ModelsTypeOK, Store!None
<1>2. ASSUME Stored', Loaded', Flags', Tasked', Tallied' PROVE Store!ModelsTypeOK'
  BY <1>2 DEF Store!ModelsTypeOK, Store!None
<1>3. ASSUME NEW k \in Keys
      PROVE  /\ Store!Spawned(k) \in [Keys -> {"none", "created", "hashing", "fetching"}]
             /\ Store!Killed(k) \in [Store!Tasks -> Places]
             /\ \A place \in Places : Store!Woken(k, place) \in [Store!Tasks -> Places]
  BY <1>1 DEF Store!Spawned, Store!Killed, Store!Woken, Store!None
<1> USE DEF Store!Detector, Store!Health, Store!Store
<1>4. ASSUME NEW k \in Keys, Store!Download(k) \/ Store!WorkerStarts(k) PROVE Store!ModelsTypeOK'
  <2>1. Store!Spawned(k) \in [Keys -> {"none", "created", "hashing", "fetching"}]
    BY <1>3
  <2>2. UNCHANGED <<active, model, session, ready, task, key, failures, needsReinit, frame>>
    BY <1>4, Zenon DEF Store!Download, Store!WorkerStarts
  <2>3. CASE Store!Download(k)
    BY <1>1, <1>2, <2>1, <2>2, <2>3 DEF Store!Download
  <2>4. CASE Store!WorkerStarts(k)
    BY <1>1, <1>2, <2>2, <2>4 DEF Store!WorkerStarts
  <2> QED
    BY <1>4, <2>3, <2>4
<1>5. ASSUME NEW k \in Keys, Store!Verified(k) PROVE Store!ModelsTypeOK'
  <2>1. UNCHANGED <<active, model, session, ready, key, failures, needsReinit, frame>>
    BY <1>5, Zenon DEF Store!Verified
  <2>2. task' = task \/ task' = Store!Woken(k, "building")
    BY <1>5 DEF Store!Verified
  <2>3. Tasked'
    BY <1>1, <1>3, <2>2
  <2>4. Stored'
    BY <1>1, <1>5 DEF Store!Verified, Store!None
  <2> QED
    BY <1>1, <1>2, <2>1, <2>3, <2>4
<1>6. ASSUME NEW k \in Keys, NEW well \in BOOLEAN, Store!Fetched(k, well) PROVE Store!ModelsTypeOK'
  <2>1. Stored'
    BY <1>1, <1>6 DEF Store!Fetched, Store!None
  <2>2. Tasked'
    <3>1. Store!Woken(k, "building") \in [Store!Tasks -> Places] /\ Store!Woken(k, "backoff") \in [Store!Tasks -> Places]
      BY <1>3
    <3> QED
      BY <1>6, <3>1 DEF Store!Fetched
  <2>3. Loaded' /\ Tallied'
    BY <1>1, <1>6 DEF Store!Fetched, Store!None
  <2>4. ready' = ready /\ needsReinit' \in BOOLEAN
    BY <1>1, <1>6, Zenon DEF Store!Fetched
  <2> QED
    BY <1>1, <1>2, <2>1, <2>2, <2>3, <2>4
<1>7. ASSUME NEW k \in Keys, Store!Delete(k) \/ Store!Activate(k) PROVE Store!ModelsTypeOK'
  <2>1. task' = task \/ task' = Store!Killed(k)
    BY <1>7 DEF Store!Delete, Store!Activate
  <2>2. Tasked'
    BY <1>1, <1>3, <2>1
  <2>3. Stored' /\ Loaded' /\ Tallied'
    BY <1>1, <1>7 DEF Store!Delete, Store!Activate, Store!None
  <2>4. Flags'
    BY <1>1, <1>7, Zenon DEF Store!Delete, Store!Activate
  <2> QED
    BY <1>2, <2>2, <2>3, <2>4
<1>8. ASSUME NEW t \in Store!Tasks,
             Store!Bootstrap(t) \/ Store!Built(t) \/ Store!BuildFails(t) \/ Store!Retry(t)
      PROVE  Store!ModelsTypeOK'
  <2>1. Store!Spawned(model) \in [Keys -> {"none", "created", "hashing", "fetching"}]
    BY <1>1, <1>3
  <2>2. Stored'
    BY <1>1, <1>8, <2>1 DEF Store!Bootstrap, Store!Built, Store!BuildFails, Store!Retry
  <2>3. Tasked'
    BY <1>1, <1>8 DEF Store!Bootstrap, Store!Built, Store!BuildFails, Store!Retry
  <2>4. Loaded' /\ Tallied'
    BY <1>0, <1>1, <1>8 DEF Store!Bootstrap, Store!Built, Store!BuildFails, Store!Retry, Store!None
  <2>5. Flags'
    BY <1>1, <1>8, Zenon DEF Store!Bootstrap, Store!Built, Store!BuildFails, Store!Retry
  <2> QED
    BY <1>2, <2>2, <2>3, <2>4, <2>5
<1>9. CASE Store!Reconfigure
  <2>1. Stored'
    BY <1>1, <1>9 DEF Store!Reconfigure, Store!None
  <2>2. Tasked' /\ Loaded' /\ Tallied'
    BY <1>1, <1>9 DEF Store!Reconfigure, Store!Replaced, Store!None
  <2>3. Flags'
    BY <1>1, <1>9, Zenon DEF Store!Reconfigure
  <2> QED
    BY <1>2, <2>1, <2>2, <2>3
<1>10. CASE Store!Infer \/ Store!Inferred \/ Store!InferenceFails \/ Store!Supervise
  <2>1. Stored' /\ Tasked' /\ Loaded' /\ Tallied'
    BY <1>0, <1>1, <1>10 DEF Store!Infer, Store!Inferred, Store!InferenceFails, Store!Supervise, Store!None
  <2>2. Flags'
    BY <1>1, <1>10, Zenon DEF Store!Infer, Store!Inferred, Store!InferenceFails, Store!Supervise
  <2> QED
    BY <1>2, <2>1, <2>2
<1> QED
  BY <1>4, <1>5, <1>6, <1>7, <1>8, <1>9, <1>10 DEF Store!ModelsNext

\* Who is at a write has something to write, so the camera is never set to nothing.
Wants(p, step) == (step = "night" => p.nv # "none") /\ (step = "ir" => p.ir # "none")
OnlyAsked ==
    /\ \A f \in Forms : Wants(asked[f], doing[f])
    /\ \A h \in Night!Hooks : Wants(read[h], doing[h])
NightTypes == NightInv /\ Night!NightTypeOK /\ OnlyAsked

LEMMA WrittenIsSet ==
    ASSUME Night!NightTypeOK, NEW p \in Night!Pins, NEW step \in {"night", "couple", "ir"},
           Wants(p, step)
    PROVE  Night!Written(step, p) \in [ir : Night!IrModes, nv : Night!NvModes]
<1> USE DEF Night!NightTypeOK, Night!Pins, Night!IrModes, Night!NvModes, Wants
<1>1. CASE step = "night"
  <2>1. Night!Written(step, p) = [device EXCEPT !.nv = p.nv]
    BY <1>1 DEF Night!Written
  <2> QED
    BY <1>1, <2>1
<1>2. CASE step = "couple"
  <2>1. Night!Written(step, p) = [device EXCEPT !.ir = "auto"]
    BY <1>2 DEF Night!Written
  <2> QED
    BY <1>2, <2>1
<1>3. CASE step = "ir"
  <2>1. Night!Written(step, p) = [device EXCEPT !.ir = p.ir]
    BY <1>3 DEF Night!Written
  <2> QED
    BY <1>3, <2>1
<1> QED
  BY <1>1, <1>2, <1>3

LEMMA StepsWant ==
    ASSUME NEW p \in Night!Pins, NEW step
    PROVE  Wants(p, Night!FormStep(step, p)) /\ Wants(p, Night!HookStep(step, p))
BY DEF Night!FormStep, Night!HookStep, Wants

LEMMA NightTypesKept == NightTypes /\ Night!NightNext => NightTypes'
<1> SUFFICES ASSUME NightTypes, Night!NightNext PROVE NightTypes'
  OBVIOUS
<1> DEFINE Flags == {there, settled} \subseteq BOOLEAN
           Set == device \in [ir : Night!IrModes, nv : Night!NvModes]
<1>0. /\ Forms \cap Night!Hooks = {}
      /\ Flags /\ Set /\ OnlyAsked /\ Night!NightTypeOK /\ NightInv
      /\ asked \in [Forms -> Night!Pins] /\ read \in [Night!Actors -> Night!Pins]
      /\ doing \in [Night!Actors -> Night!Steps]
  BY PartsAssumption DEF Night!Hooks, NightTypes, Night!NightTypeOK
<1>1. NightInv'
  BY <1>0, NightStep
<1>2. Flags'
  BY <1>0, Zenon DEF Night!NightNext, Night!PutSettings, Night!FormWrites, Night!FormStores, Night!Edit,
     Night!EditStores, Night!DeleteCamera, Night!Connect, Night!Reassert, Night!HookWrites, Night!Disturbs
<1>3. ASSUME Set', OnlyAsked' PROVE NightTypes'
  BY <1>1, <1>2, <1>3 DEF NightTypes, NightInv, NightTyped, Night!NightTypeOK
\* A form goes on to a step that it has something for, and the hooks do not move.
<1>4. ASSUME NEW f \in Forms, NEW step, NEW p, Wants(p, step), NEW q,
             doing' = [doing EXCEPT ![f] = step], asked' = [asked EXCEPT ![f] = p],
             read' = [read EXCEPT ![f] = q]
      PROVE  OnlyAsked'
  <2>1. \A h \in Night!Hooks : doing'[h] = doing[h] /\ read'[h] = read[h]
    BY <1>0, <1>4 DEF Night!Actors
  <2>2. \A g \in Forms : doing'[g] = (IF g = f THEN step ELSE doing[g])
                          /\ asked'[g] = (IF g = f THEN p ELSE asked[g])
    BY <1>0, <1>4 DEF Night!Actors
  <2> QED
    BY <1>0, <1>4, <2>1, <2>2 DEF OnlyAsked
<1>5. ASSUME NEW h \in Night!Hooks, NEW step, NEW q, Wants(q, step), UNCHANGED asked,
             doing' = [doing EXCEPT ![h] = step], read' = [read EXCEPT ![h] = q]
      PROVE  OnlyAsked'
  <2>1. \A f \in Forms : doing'[f] = doing[f]
    BY <1>0, <1>5 DEF Night!Actors
  <2>2. \A g \in Night!Hooks : doing'[g] = (IF g = h THEN step ELSE doing[g])
                                /\ read'[g] = (IF g = h THEN q ELSE read[g])
    BY <1>0, <1>5 DEF Night!Actors
  <2> QED
    BY <1>0, <1>5, <2>1, <2>2 DEF OnlyAsked
<1>6. ASSUME NEW a \in Night!Actors
      PROVE  read = [read EXCEPT ![a] = read[a]] /\ (a \in Forms => asked = [asked EXCEPT ![a] = asked[a]])
  BY <1>0
<1>7. Forms \subseteq Night!Actors /\ Night!Hooks \subseteq Night!Actors
  BY DEF Night!Actors
<1>8. \A p \in Night!Pins : Wants(p, "store") /\ Wants(p, "idle") /\ Wants(p, "probe") /\ Wants(p, "delay")
  BY DEF Wants
<1>9. Night!NoPins \in Night!Pins
  BY DEF Night!NoPins, Night!Pins
<1>10. ASSUME NEW f \in Forms, NEW p \in Night!Pins, Night!PutSettings(f, p) PROVE NightTypes'
  <2>1. /\ doing' = [doing EXCEPT ![f] = Night!FormStep("begin", p)]
        /\ asked' = [asked EXCEPT ![f] = p] /\ read' = [read EXCEPT ![f] = pins] /\ device' = device
    BY <1>10 DEF Night!PutSettings, Night!Goto
  <2> QED
    BY <1>0, <1>3, <1>4, <2>1, StepsWant
<1>11. ASSUME NEW f \in Forms, NEW well \in BOOLEAN, Night!FormWrites(f, well) PROVE NightTypes'
  <2>1. /\ doing[f] \in {"night", "couple", "ir"} /\ read' = read
        /\ device' = Night!Written(doing[f], asked[f]) \/ device' = device
    BY <1>11 DEF Night!FormWrites
  <2>2. asked[f] \in Night!Pins /\ Wants(asked[f], doing[f])
    BY <1>0 DEF OnlyAsked
  <2>3. Set'
    BY <1>0, <2>1, <2>2, WrittenIsSet
  <2>4. CASE asked' = asked /\ doing' = [doing EXCEPT ![f] = Night!FormStep(doing[f], asked[f])]
    BY <1>3, <1>4, <1>6, <1>7, <2>1, <2>2, <2>3, <2>4, StepsWant
  <2>5. CASE ~well /\ doing[f] = "night"
    <3>1. /\ asked' = [asked EXCEPT ![f] = [asked[f] EXCEPT !["nv"] = "none"]]
          /\ doing' = [doing EXCEPT ![f] = "store"]
      BY <1>11, <2>5 DEF Night!FormWrites, Night!Goto
    <3>2. Wants([asked[f] EXCEPT !["nv"] = "none"], "store")
      BY DEF Wants
    <3> QED
      BY <1>3, <1>4, <1>6, <1>7, <2>1, <2>3, <3>1, <3>2
  <2>6. CASE ~well /\ doing[f] = "ir"
    <3>1. /\ asked' = [asked EXCEPT ![f] = [asked[f] EXCEPT !["ir"] = "none"]]
          /\ doing' = [doing EXCEPT ![f] = Night!FormStep("ir", asked[f])]
      BY <1>11, <2>6 DEF Night!FormWrites, Night!Goto
    <3>2. Wants([asked[f] EXCEPT !["ir"] = "none"], Night!FormStep("ir", asked[f]))
      BY <2>2 DEF Wants, Night!FormStep, Night!Pins
    <3> QED
      BY <1>3, <1>4, <1>6, <1>7, <2>1, <2>3, <3>1, <3>2
  <2>7. ASSUME well \/ doing[f] = "couple"
        PROVE  asked' = asked /\ doing' = [doing EXCEPT ![f] = Night!FormStep(doing[f], asked[f])]
    BY <1>11, <2>7 DEF Night!FormWrites, Night!Goto
  <2> QED
    BY <2>1, <2>4, <2>5, <2>6, <2>7
<1>12. ASSUME NEW f \in Forms, Night!FormStores(f) PROVE NightTypes'
  <2>1. /\ doing' = [doing EXCEPT ![f] = "idle"] /\ read' = [read EXCEPT ![f] = Night!NoPins]
        /\ asked' = [asked EXCEPT ![f] = Night!NoPins] /\ device' = device
    BY <1>12 DEF Night!FormStores, Night!Ends, Night!Goto
  <2> QED
    BY <1>0, <1>3, <1>4, <1>8, <1>9, <2>1
<1>13. ASSUME NEW f \in Forms, Night!Edit(f) \/ Night!EditStores(f) PROVE NightTypes'
  <2>1. PICK step \in {"probe", "idle"}, q \in Night!Pins :
            doing' = [doing EXCEPT ![f] = step] /\ read' = [read EXCEPT ![f] = q]
    BY <1>0, <1>9, <1>13 DEF Night!NightTypeOK, Night!Edit, Night!EditStores, Night!Ends, Night!Goto
  <2>2. UNCHANGED <<asked, device>>
    BY <1>13 DEF Night!Edit, Night!EditStores
  <2>3. Wants(asked[f], step) /\ asked' = [asked EXCEPT ![f] = asked[f]]
    BY <1>0, <1>6, <1>7, <2>2 DEF Wants
  <2>4. OnlyAsked'
    BY <1>4, <2>1, <2>3
  <2> QED
    BY <1>0, <1>3, <2>2, <2>4
<1>14. CASE Night!DeleteCamera
  <2>1. UNCHANGED <<asked, device, doing, read>>
    BY <1>14 DEF Night!DeleteCamera
  <2> QED
    BY <1>0, <1>3, <2>1 DEF OnlyAsked
<1>15. CASE Night!Connect
  <2>1. /\ doing' = [doing EXCEPT !["connect"] = "delay"] /\ read' = [read EXCEPT !["connect"] = Night!NoPins]
        /\ "connect" \in Night!Hooks /\ UNCHANGED asked
        /\ device' = [ir |-> "auto", nv |-> "auto"]
    BY <1>15 DEF Night!Connect, Night!Goto, Night!Hooks
  <2>2. Set'
    BY <2>1 DEF Night!IrModes, Night!NvModes
  <2> QED
    BY <1>3, <1>5, <1>8, <1>9, <2>1, <2>2
<1>16. ASSUME NEW h \in Night!Hooks, Night!Reassert(h) PROVE NightTypes'
  <2>1. UNCHANGED <<asked, device>> /\ pins \in Night!Pins
    BY <1>0, <1>16 DEF Night!Reassert, Night!NightTypeOK
  <2>2. PICK step \in Night!Steps, q \in Night!Pins :
            /\ doing' = [doing EXCEPT ![h] = step] /\ read' = [read EXCEPT ![h] = q]
            /\ step = "idle" \/ (step = Night!HookStep("begin", q))
    <3>1. CASE there /\ pins.ir # "none"
      <4>1. /\ doing' = [doing EXCEPT ![h] = Night!HookStep("begin", pins)]
            /\ read' = [read EXCEPT ![h] = pins]
        BY <1>16, <3>1 DEF Night!Reassert, Night!Goto
      <4> QED
        BY <2>1, <4>1, StepsAre
    <3>2. CASE ~(there /\ pins.ir # "none")
      <4>1. doing' = [doing EXCEPT ![h] = "idle"] /\ read' = [read EXCEPT ![h] = Night!NoPins]
        BY <1>16, <3>2 DEF Night!Reassert, Night!Goto
      <4> QED
        BY <1>9, <4>1 DEF Night!Steps
    <3> QED
      BY <3>1, <3>2
  <2>3. Wants(q, step)
    BY <1>8, <2>2, StepsWant
  <2> QED
    BY <1>0, <1>3, <1>5, <2>1, <2>2, <2>3
<1>17. ASSUME NEW h \in Night!Hooks, NEW well \in BOOLEAN, Night!HookWrites(h, well) PROVE NightTypes'
  <2>1. /\ doing[h] \in {"night", "couple", "ir"} /\ asked' = asked
        /\ device' = Night!Written(doing[h], read[h]) \/ device' = device
    BY <1>17 DEF Night!HookWrites
  <2>2. read[h] \in Night!Pins /\ Wants(read[h], doing[h])
    BY <1>0, <1>7 DEF OnlyAsked
  <2>3. Set'
    BY <1>0, <2>1, <2>2, WrittenIsSet
  <2>4. PICK step \in Night!Steps, q \in Night!Pins :
            /\ doing' = [doing EXCEPT ![h] = step] /\ read' = [read EXCEPT ![h] = q]
            /\ step = "idle" \/ step = Night!HookStep(doing[h], q)
    <3>1. CASE doing' = [doing EXCEPT ![h] = "idle"] /\ read' = [read EXCEPT ![h] = Night!NoPins]
      BY <1>9, <3>1 DEF Night!Steps
    <3>2. CASE doing' = [doing EXCEPT ![h] = Night!HookStep(doing[h], read[h])] /\ read' = read
      BY <1>6, <1>7, <2>2, <3>2, StepsAre
    <3> QED
      BY <1>17, <3>1, <3>2 DEF Night!HookWrites, Night!Ends, Night!Goto
  <2>5. Wants(q, step)
    BY <1>8, <2>4, StepsWant
  <2> QED
    BY <1>3, <1>5, <2>1, <2>3, <2>4, <2>5
<1> QED
  BY <1>10, <1>11, <1>12, <1>13, <1>14, <1>15, <1>16, <1>17 DEF Night!NightNext

\* A request that has looked knows its item, and only an export writes a list.
FilesTypes ==
    /\ FilesInv /\ Files!FootageTypeOK
    /\ cached = [k \in Files!Kinds |-> cached[k]]
    /\ \A r \in Asks : ask[r] = "checking" => wanted[r] \in Files!Items
    /\ \A i \in Files!Items : build[i] = "writing" => i \in Files!Exports

\* A file that is in the cache does not make it longer.
LEMMA FileTouched ==
    ASSUME NEW files \in Seq(Files!Items), NEW i \in Files!Items
    PROVE  /\ Files!Touched(files, i) \in Seq(Files!Items)
           /\ Len(Files!Touched(files, i)) =
                 IF Files!Contains(files, i) THEN Len(files) ELSE Len(files) + 1
<1>0. Len(files) \in Nat
  BY LenProperties
<1>1. CASE Files!Contains(files, i)
  <2> DEFINE n == CHOOSE m \in 1..Len(files) : files[m] = i
             r == SubSeq(files, 1, n - 1) \o SubSeq(files, n + 1, Len(files))
  <2>1. n \in 1..Len(files)
    BY <1>1 DEF Files!Contains
  <2>2. Files!Touched(files, i) = Append(r, i)
    BY <1>1 DEF Files!Touched, Files!RemoveAt
  <2> HIDE DEF n
  <2>3. r \in Seq(Files!Items) /\ Len(r) = Len(files) - 1
    BY <2>1, WithoutOne
  <2> HIDE DEF r
  <2> QED
    BY <1>0, <1>1, <2>2, <2>3, WithLast
<1>2. CASE ~Files!Contains(files, i)
  <2>1. Files!Touched(files, i) = Append(files, i)
    BY <1>2 DEF Files!Touched
  <2> QED
    BY <1>2, <2>1, WithLast
<1> QED
  BY <1>1, <1>2

LEMMA FilesEvicted ==
    ASSUME NEW files \in Seq(Files!Items), Len(files) <= MaxCached + 1
    PROVE  Files!Evict(files) \in Seq(Files!Items) /\ Len(Files!Evict(files)) <= MaxCached
<1>0. Len(files) \in Nat /\ MaxCached \in Nat
  BY LenProperties, PartsAssumption
<1>1. CASE Len(files) > MaxCached
  <2>1. files # <<>>
    BY <1>0, <1>1
  <2>2. Tail(files) \in Seq(Files!Items) /\ Len(Tail(files)) = Len(files) - 1
    BY <2>1, HeadTailProperties
  <2> QED
    BY <1>0, <1>1, <2>2 DEF Files!Evict
<1>2. CASE ~(Len(files) > MaxCached)
  BY <1>0, <1>2 DEF Files!Evict
<1> QED
  BY <1>1, <1>2

LEMMA FilesTypesKept == FilesTypes /\ Files!FootageNext => FilesTypes'
<1> SUFFICES ASSUME FilesTypes, Files!FootageNext PROVE FilesTypes'
  OBVIOUS
<1> DEFINE Footages == SUBSET Files!Segments
           Listing == /\ cached = [k \in Files!Kinds |-> cached[k]]
                      /\ \A k \in Files!Kinds : cached[k] \in Seq(Files!Items) /\ Len(cached[k]) <= MaxCached
           Held == holds \in [Files!Items -> Footages]
           Building == /\ build \in [Files!Items -> {"none", "queued", "writing", "starting", "running", "renaming"}]
                       /\ \A i \in Files!Items : build[i] = "writing" => i \in Files!Exports
           Reading == /\ listed \in [Files!Items -> Footages] /\ part \in [Files!Items -> Footages]
                      /\ list \subseteq Files!Exports
           Asking == /\ ask \in [Asks -> {"new", "checking", "waiting", "answered"}]
                     /\ wanted \in [Asks -> Files!Items \cup {<<>>}]
                     /\ found \in [Asks -> Footages]
                     /\ \A r \in Asks : ask[r] = "checking" => wanted[r] \in Files!Items
           Purging == purge \in {"idle", "halted", "tree", "export", "segment"}
<1>0. FilesInv /\ Listing /\ Held /\ Building /\ Reading /\ Asking /\ Purging
  BY DEF FilesTypes, Files!FootageTypeOK
<1>1. FilesInv'
  BY <1>0, FilesStep
<1>2. ASSUME Listing', Held', Building', Reading', Asking', Purging' PROVE FilesTypes'
  BY <1>1, <1>2 DEF FilesTypes, FilesInv, SegmentsInv, Files!FootageTypeOK
<1> USE DEF Files!Disk, Files!Cache, Files!Builds, Files!Request
<1>3. \A i \in Files!Items : Files!Kind(i) \in Files!Kinds /\ i[2] \subseteq Files!Segments
  <2>1. \A w \in Windows : w \subseteq Files!Segments
    BY PartsAssumption DEF Files!Segments
  <2>2. ASSUME NEW i \in Files!Exports PROVE i[1] = "export" /\ i[2] \subseteq Files!Segments
    <3>1. PICK w \in Windows : i = <<"export", w>>
      BY DEF Files!Exports
    <3> QED
      BY <2>1, <3>1
  <2>3. ASSUME NEW i \in Files!Playable PROVE i[1] = "segment" /\ i[2] \subseteq Files!Segments
    <3>1. PICK t \in Files!Segments : i = <<"segment", {t}>>
      BY DEF Files!Playable
    <3> QED
      BY <3>1
  <2> QED
    BY <2>2, <2>3 DEF Files!Items, Files!Kind, Files!Kinds
<1>4. ASSUME UNCHANGED <<cached, holds>> PROVE Listing' /\ Held'
  BY <1>0, <1>4
<1>5. ASSUME UNCHANGED <<build, listed, part, list>> PROVE Building' /\ Reading'
  BY <1>0, <1>5
<1>6. ASSUME UNCHANGED <<ask, wanted, found>> PROVE Asking'
  BY <1>0, <1>6
<1>7. ASSUME UNCHANGED purge PROVE Purging'
  BY <1>0, <1>7
<1>8. CASE Files!Rollover \/ Files!Retain \/ Files!Resume \/ Files!Purge
  <2>1. UNCHANGED <<cached, holds, build, listed, part, list, ask, wanted, found>>
    BY <1>8 DEF Files!Rollover, Files!Retain, Files!Resume, Files!Purge
  <2>2. Purging'
    BY <1>0, <1>8 DEF Files!Rollover, Files!Retain, Files!Resume, Files!Purge
  <2> QED
    BY <1>2, <1>4, <1>5, <1>6, <2>1, <2>2
<1>9. CASE Files!Wipe
  <2>1. PICK n \in 1..3 :
          /\ purge' = IF n = 3 THEN "idle" ELSE Files!Wipes[n]
          /\ IF Files!Wipes[n] = "tree"
             THEN UNCHANGED <<cached, holds, part, list>>
             ELSE /\ cached' = [cached EXCEPT ![Files!Wipes[n]] = <<>>]
                  /\ holds' = [i \in Files!Items |-> IF Files!Kind(i) = Files!Wipes[n] THEN {} ELSE holds[i]]
                  /\ part' = Files!Swept(Files!Wipes[n])
                  /\ list' = {i \in list : Files!Kind(i) # Files!Wipes[n]}
          /\ UNCHANGED <<build, listed, ask, wanted, found>>
    BY <1>9 DEF Files!Wipe
  <2>2. Purging' /\ Files!Wipes[n] \in {"tree", "export", "segment"}
    BY <2>1 DEF Files!Wipes
  <2>3. Building' /\ Asking'
    BY <1>0, <2>1
  <2>4. Reading'
    <3>1. Files!Swept(Files!Wipes[n]) \in [Files!Items -> Footages]
      BY <1>0 DEF Files!Swept
    <3>2. part' \in [Files!Items -> Footages]
      BY <1>0, <2>1, <3>1
    <3>3. list' \subseteq Files!Exports
      BY <1>0, <2>1
    <3> QED
      BY <1>0, <2>1, <3>2, <3>3
  <2>5. Held'
    BY <1>0, <2>1
  <2>6. Listing'
    <3>1. <<>> \in Seq(Files!Items) /\ Len(<<>>) <= MaxCached
      BY PartsAssumption
    <3>2. cached' = cached \/ cached' = [cached EXCEPT ![Files!Wipes[n]] = <<>>]
      BY <2>1
    <3> QED
      BY <1>0, <3>1, <3>2
  <2> QED
    BY <1>2, <2>2, <2>3, <2>4, <2>5, <2>6
<1>10. ASSUME NEW r \in Asks, NEW i \in Files!Items, Files!Ask(r, i) PROVE FilesTypes'
  <2>1. Files!OnDisk(i[2]) \in Footages
    BY <1>3 DEF Files!OnDisk, Files!Are
  <2>2. Asking'
    BY <1>0, <1>10, <2>1 DEF Files!Ask
  <2> QED
    BY <1>2, <1>4, <1>5, <1>7, <1>10, <2>2 DEF Files!Ask
<1>11. ASSUME NEW r \in Asks, Files!Hit(r) PROVE FilesTypes'
  <2> DEFINE i == wanted[r]
             kind == Files!Kind(i)
             files == Files!Touched(cached[kind], i)
  <2>1. i \in Files!Items /\ kind \in Files!Kinds
    BY <1>0, <1>3, <1>11 DEF Files!Hit
  <2>2. Files!Contains(cached[kind], i) /\ cached' = [cached EXCEPT ![kind] = files]
    BY <1>11 DEF Files!Hit, Files!Has, Files!Touch
  <2>3. files \in Seq(Files!Items) /\ Len(files) = Len(cached[kind])
    BY <1>0, <2>1, <2>2, FileTouched
  <2>4. Asking' /\ UNCHANGED <<holds, build, listed, part, list, purge>>
    BY <1>0, <1>11 DEF Files!Hit
  <2> HIDE DEF i, kind, files
  <2>5. Listing'
    BY <1>0, <2>1, <2>2, <2>3
  <2> QED
    BY <1>0, <1>2, <1>5, <1>7, <2>4, <2>5
<1>12. ASSUME NEW r \in Asks, Files!Miss(r) PROVE FilesTypes'
  <2>1. UNCHANGED <<cached, holds, part, list, wanted, found, purge>>
    BY <1>12 DEF Files!Miss
  <2>2. Asking'
    BY <1>0, <1>12 DEF Files!Miss
  <2>3. Building' /\ Reading'
    <3>1. \/ UNCHANGED <<build, listed>>
          \/ /\ build' = [build EXCEPT ![wanted[r]] = "queued"]
             /\ listed' = [listed EXCEPT ![wanted[r]] = found[r]]
      BY <1>12 DEF Files!Miss
    <3>2. found[r] \in Footages
      BY <1>0
    <3> QED
      BY <1>0, <2>1, <3>1, <3>2
  <2> QED
    BY <1>2, <1>4, <1>7, <2>1, <2>2, <2>3
\* A step of a build, and its end.
<1>13. ASSUME NEW i \in Files!Items, NEW to \in {"starting", "running", "renaming"}, Files!Step(i, to)
       PROVE  Building'
  BY <1>0, <1>13 DEF Files!Step
<1>14. ASSUME NEW i \in Files!Items, Files!Over(i), UNCHANGED <<wanted, found>>
       PROVE  Building' /\ Reading' /\ Asking'
  <2>1. Building'
    BY <1>0, <1>14 DEF Files!Over, Files!Step
  <2>2. Reading'
    BY <1>0, <1>14 DEF Files!Over
  <2>3. Asking'
    BY <1>0, <1>14 DEF Files!Over
  <2> QED
    BY <2>1, <2>2, <2>3
<1>15. ASSUME NEW i \in Files!Items, Files!Begin(i) \/ Files!WriteList(i) PROVE FilesTypes'
  <2>1. UNCHANGED <<cached, holds, listed, part, ask, wanted, found, purge>>
    BY <1>15 DEF Files!Begin, Files!WriteList
  <2>2. CASE Files!Begin(i)
    <3>1. build' = [build EXCEPT ![i] = IF i \in Files!Exports THEN "writing" ELSE "starting"]
          /\ list' = list
      BY <2>2 DEF Files!Begin, Files!Step
    <3>2. Building' /\ Reading'
      BY <1>0, <2>1, <3>1
    <3> QED
      BY <1>2, <1>4, <1>6, <1>7, <2>1, <3>2
  <2>3. CASE Files!WriteList(i)
    <3>1. i \in Files!Exports /\ list' = list \cup {i} /\ Files!Step(i, "starting")
      BY <1>0, <2>3 DEF Files!WriteList
    <3>2. Building' /\ Reading'
      BY <1>0, <1>13, <2>1, <3>1
    <3> QED
      BY <1>2, <1>4, <1>6, <1>7, <2>1, <3>2
  <2> QED
    BY <1>15, <2>2, <2>3
<1>16. ASSUME NEW i \in Files!Items, Files!Launch(i) PROVE FilesTypes'
  <2>1. UNCHANGED <<cached, holds, wanted, found, purge>>
    BY <1>16 DEF Files!Launch
  <2>2. CASE Files!Over(i)
    BY <1>2, <1>4, <1>7, <1>14, <2>1, <2>2
  <2>3. CASE Files!Step(i, "running") /\ part' = [part EXCEPT ![i] = Files!Readable(i)]
             /\ UNCHANGED <<listed, list, ask>>
    <3>1. Files!Readable(i) \in Footages
      BY <1>0 DEF Files!Readable, Files!OnDisk, Files!Are
    <3>2. Reading' /\ Building'
      BY <1>0, <1>13, <2>3, <3>1
    <3> QED
      BY <1>2, <1>4, <1>6, <1>7, <2>1, <2>3, <3>2
  <2> QED
    BY <1>16, <2>2, <2>3 DEF Files!Launch
<1>17. ASSUME NEW i \in Files!Items, Files!Encoded(i) PROVE FilesTypes'
  <2>1. UNCHANGED <<cached, holds, wanted, found, purge>>
    BY <1>17 DEF Files!Encoded
  <2>2. CASE Files!Over(i)
    BY <1>2, <1>4, <1>7, <1>14, <2>1, <2>2
  <2>3. ASSUME Files!Step(i, "renaming") \/ Files!Step(i, "starting"), UNCHANGED <<listed, part, list, ask>>
        PROVE  FilesTypes'
    <3>1. Building' /\ Reading'
      BY <1>0, <1>13, <2>3
    <3> QED
      BY <1>2, <1>4, <1>6, <1>7, <2>1, <2>3, <3>1
  <2> QED
    BY <1>17, <2>2, <2>3 DEF Files!Encoded
<1>18. ASSUME NEW i \in Files!Items, Files!Rename(i) PROVE FilesTypes'
  <2>1. Files!Over(i) /\ UNCHANGED <<wanted, found, purge>>
    BY <1>18 DEF Files!Rename
  <2>2. CASE UNCHANGED <<cached, holds>>
    BY <1>2, <1>4, <1>7, <1>14, <2>1, <2>2
  <2>3. CASE Files!Publish(i)
    <3> DEFINE kind == Files!Kind(i)
               files == Files!Touched(cached[kind], i)
               kept == Files!Evict(files)
    <3>1. kind \in Files!Kinds /\ cached[kind] \in Seq(Files!Items) /\ Len(cached[kind]) <= MaxCached
      BY <1>0, <1>3
    <3>2. Len(cached[kind]) \in Nat /\ MaxCached \in Nat
      BY <3>1, LenProperties, PartsAssumption
    <3>3. files \in Seq(Files!Items) /\ (Len(files) = Len(cached[kind]) \/ Len(files) = Len(cached[kind]) + 1)
      BY <3>1, FileTouched
    <3>4. Len(files) <= MaxCached + 1
      BY <3>1, <3>2, <3>3
    <3>5. kept \in Seq(Files!Items) /\ Len(kept) <= MaxCached
      BY <3>3, <3>4, FilesEvicted
    <3>6. cached' = [cached EXCEPT ![kind] = kept]
      BY <1>0, <2>3, <3>1, Zenon DEF Files!Publish, Files!Touch
    <3> HIDE DEF kind, files, kept
    <3>7. Listing'
      BY <1>0, <3>1, <3>5, <3>6
    <3>8. Held'
      BY <1>0, <2>3 DEF Files!Publish
    <3> QED
      BY <1>2, <1>7, <1>14, <2>1, <3>7, <3>8
  <2> QED
    BY <1>18, <2>2, <2>3 DEF Files!Rename
<1> QED
  BY <1>8, <1>9, <1>10, <1>11, <1>12, <1>15, <1>16, <1>17, <1>18 DEF Files!FootageNext, Files!Builder

TypesInv ==
    /\ component \in Components
    /\ TableInv /\ AI!TypeOK /\ PushTypes /\ Store!ModelsTypeOK /\ PoolTypes
    /\ Light!SpotTypeOK /\ TalkTypes /\ NightTypes /\ FilesTypes

LEMMA TypesInit == ServicesInit => TypesInv
<1> SUFFICES ASSUME ServicesInit PROVE TypesInv
  OBVIOUS
<1> USE PartsAssumption DEF ServicesInit
<1>1. component \in Components /\ TableInv
  BY TableInit
<1>2. AI!TypeOK
  <2>1. {reachable, alive, hung, connected, ever} \subseteq BOOLEAN
    BY Zenon DEF AI!Init
  <2>2. AI!AgeCap \in Nat
    BY DEF AI!AgeCap, AI!Notice
  <2> QED
    BY <2>1, <2>2 DEF AI!Init, AI!TypeOK
<1>3. PushTypes
  BY DEF PushTypes, Pushes!PushInit, Pushes!PushTypeOK, Pushes!Legs
<1>4. Store!ModelsTypeOK
  <2>1. /\ file \in [Keys -> {"absent", "good", "bad"}] /\ active \in Keys /\ model = active
        /\ shown = [k \in Keys |-> IF file[k] = "absent" THEN "absent" ELSE "ready"]
        /\ worker = [k \in Keys |-> "none"]
        /\ task = [t \in Store!Tasks |-> IF t = "start" THEN "lock" ELSE "idle"]
        /\ session = "none" /\ key = "none" /\ frame = "none" /\ failures = 0
        /\ ready = FALSE /\ needsReinit = FALSE
    BY DEF Store!ModelsInit, Store!None
  <2>2. /\ shown \in [Keys -> {"absent", "downloading", "verifying", "ready", "error"}]
        /\ worker \in [Keys -> {"none", "created", "hashing", "fetching"}]
    BY <2>1
  <2>3. task \in [Store!Tasks -> {"idle", "lock", "ensuring", "building", "backoff", "over", "dead"}]
    BY <2>1
  <2>4. {active, model} \subseteq Keys /\ {session, key, frame} \subseteq Keys \cup {"none"}
        /\ failures \in 0..FailureRun
    BY <2>1
  <2>5. ready \in BOOLEAN /\ needsReinit \in BOOLEAN
    BY <2>1, Zenon
  <2> QED
    BY <2>1, <2>2, <2>3, <2>4, <2>5, Zenon DEF Store!ModelsTypeOK, Store!None
<1>5. PoolTypes
  <2>1. {serves, ailing} \subseteq BOOLEAN
    BY Zenon DEF Pool!CoralInit
  <2> QED
    BY <2>1, PoolInit DEF PoolTypes, PoolInv, PoolTyped, OfTheirAge, Pool!Tpus, Pool!CoralInit, Pool!CoralTypeOK
<1>6. Light!SpotTypeOK
  <2>1. {armed, lit, lamp, byHand} \subseteq BOOLEAN
    BY Zenon DEF Light!SpotInit
  <2> QED
    BY <2>1 DEF Light!SpotInit, Light!SpotTypeOK
<1>7. TalkTypes
  <2>1. {hush, waited, ended} \subseteq BOOLEAN
    BY Zenon DEF Talking!TalkInit
  <2> QED
    BY <2>1, TalkStarts DEF TalkTypes, Talking!TalkInit, Talking!TalkTypeOK
<1>8. NightTypes
  <2>1. {there, settled} \subseteq BOOLEAN
    BY Zenon DEF Night!NightInit
  <2>2. device \in [ir : Night!IrModes, nv : Night!NvModes]
    BY DEF Night!NightInit, Night!IrModes, Night!NvModes
  <2>3. OnlyAsked
    BY DEF OnlyAsked, Wants, Night!NightInit, Night!Actors
  <2> QED
    BY <2>1, <2>2, <2>3, NightStarts DEF NightTypes, NightInv, NightTyped, Night!NightTypeOK
<1>9. FilesTypes
  <2>1. <<>> \in Seq(Files!Items) /\ Len(<<>>) <= MaxCached
    OBVIOUS
  <2> QED
    BY <2>1, FilesStart DEF FilesTypes, FilesInv, SegmentsInv, Files!FootageInit, Files!FootageTypeOK
<1> QED
  BY <1>1, <1>2, <1>3, <1>4, <1>5, <1>6, <1>7, <1>8, <1>9 DEF TypesInv

LEMMA TypesStep == TypesInv /\ [ServicesNext]_allVars => TypesInv'
<1> SUFFICES ASSUME TypesInv, [ServicesNext]_allVars PROVE TypesInv'
  OBVIOUS
<1>0. /\ component' \in Components
      /\ TableInv /\ AI!TypeOK /\ PushTypes /\ Store!ModelsTypeOK /\ PoolTypes
      /\ Light!SpotTypeOK /\ TalkTypes /\ NightTypes /\ FilesTypes
  BY SameComponent DEF TypesInv
<1> USE DEF ServicesNext, Only, allVars
<1>1. TableInv'
  <2>1. Next \/ UNCHANGED vars
    OBVIOUS
  <2> QED
    BY <1>0, <2>1, TableStep
<1>2. AI!TypeOK'
  <2>1. CASE UNCHANGED triggerVars
    BY <1>0, <2>1 DEF triggerVars, AI!TypeOK, AI!AgeCap, AI!Notice
  <2> QED
    BY <1>0, <2>1, AiTyped
<1>3. PushTypes'
  <2>1. CASE UNCHANGED pushVars
    BY <1>0, <2>1 DEF pushVars, PushTypes, Pushes!PushTypeOK
  <2> QED
    BY <1>0, <2>1, PushTyped
<1>4. Store!ModelsTypeOK'
  <2>1. CASE UNCHANGED modelVars
    BY <1>0, <2>1 DEF modelVars, Store!ModelsTypeOK
  <2> QED
    BY <1>0, <2>1, ModelsTypedKept
<1>5. PoolTypes'
  <2>1. CASE UNCHANGED coralVars
    BY <1>0, <2>1 DEF coralVars, PoolTypes, Pool!CoralTypeOK, PoolInv, PoolTyped, OfTheirAge, HeldOnce,
                      FleetPooled
  <2> QED
    BY <1>0, <2>1, PoolTypesKept
<1>6. Light!SpotTypeOK'
  <2>1. CASE UNCHANGED spotVars
    BY <1>0, <2>1 DEF spotVars, Light!SpotTypeOK
  <2> QED
    BY <1>0, <2>1, LightTyped
<1>7. TalkTypes'
  <2>1. CASE UNCHANGED talkVars
    BY <1>0, <2>1 DEF talkVars, TalkTypes, TalkInv, Talking!TalkTypeOK
  <2> QED
    BY <1>0, <2>1, TalkTyped
<1>8. NightTypes'
  <2>1. CASE UNCHANGED nightVars
    BY <1>0, <2>1 DEF nightVars, NightTypes, NightInv, NightTyped, AloneKnows, Night!Reasserted, OnlyAsked,
                      Night!NightTypeOK
  <2> QED
    BY <1>0, <2>1, NightTypesKept
<1>9. FilesTypes'
  <2>1. CASE UNCHANGED footageVars
    BY <1>0, <2>1 DEF footageVars, FilesTypes, FilesInv, SegmentsInv, CachesInv, Unwiped, Files!FootageTypeOK
  <2> QED
    BY <1>0, <2>1, FilesTypesKept
<1> QED
  BY <1>0, <1>1, <1>2, <1>3, <1>4, <1>5, <1>6, <1>7, <1>8, <1>9 DEF TypesInv

\* Every variable of every part keeps its type and every table, queue, cache and count
\* its bound, whatever the settings: the relay's table of tokens, the pauses of a
\* watcher, the attempts at a push, the failures of a detector and of a TPU, the talk's
\* queue and age, what a camera is set to, and the files of the two caches.
THEOREM TypesAreKept == ServicesSpec => []ServicesTypeOK
<1>1. TypesInv => ServicesTypeOK
  BY Zenon DEF TypesInv, Components, TableInv, PushTypes, PoolTypes, TalkTypes, NightTypes, FilesTypes,
               ServicesTypeOK
<1> QED
  BY <1>1, TypesInit, TypesStep, PTL DEF ServicesSpec, allVars

=============================================================================
