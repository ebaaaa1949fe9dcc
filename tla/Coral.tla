------------------------------- MODULE Coral -------------------------------
(***************************************************************************)
(* The Edge TPU backend (native/coral.py): a fleet of devices, each        *)
(* claimed exclusively for as long as something refers to its interpreter, *)
(* a pool that detect() threads check them out of, and a rebuild of both   *)
(* that runs while those threads do.                                       *)
(*                                                                         *)
(* A rebuild starts a new generation of the fleet.  A thread keeps the     *)
(* pool it found, so it may still take a device of an old generation.      *)
(* Bound: rebuilds do not overlap (nothing in the code orders a settings   *)
(* change and a reinit), and a thread binds its pool as it starts.  Left   *)
(* out: models, speeds, what is detected.                                  *)
(***************************************************************************)
EXTENDS Integers, FiniteSets

CONSTANTS
    Devices,
    Detects,        \* the threads of asyncio.to_thread(detect)
    MaxRebuilds,    \* bound on reinits and model switches
    RunLength       \* _FAILURES_BEFORE_REINIT

Generations == 0..MaxRebuilds
Tpus == Devices \X Generations

VARIABLES
    plugged,     \* the devices that are there
    gen,         \* the generation of _tpus
    fleet,       \* _tpus
    pools,       \* [Generations -> what the pool of each still holds]
    thread,      \* [Detects -> "idle", "waiting" for a device, or "invoking"]
    poolOf,      \* [Detects -> the generation whose pool the thread bound]
    taken,       \* [Detects -> the device it holds: a set of at most one]
    serves,      \* _ready
    ailing,      \* _needs_reinit
    run,         \* _consecutive_failures
    rebuild      \* "none", "reinit" or "switch": who is in _bootstrap_blocking

coralVars == <<plugged, gen, fleet, pools, thread, poolOf, taken, serves, ailing, run, rebuild>>

CoralTypeOK ==
    /\ plugged \subseteq Devices
    /\ gen \in Generations
    /\ fleet \subseteq Tpus
    /\ pools \in [Generations -> SUBSET Tpus]
    /\ thread \in [Detects -> {"idle", "waiting", "invoking"}]
    /\ poolOf \in [Detects -> Generations]
    /\ taken \in [Detects -> SUBSET Tpus]
    /\ {serves, ailing} \subseteq BOOLEAN
    /\ run \in 0..RunLength
    /\ rebuild \in {"none", "reinit", "switch"}

\* start() has bound what there is.  With nothing there the automatic choice is
\* the ONNX backend.
CoralInit ==
    /\ plugged \in SUBSET Devices /\ plugged # {}
    /\ gen = 0
    /\ fleet = plugged \X {0}
    /\ pools = [g \in Generations |-> IF g = 0 THEN plugged \X {0} ELSE {}]
    /\ thread = [d \in Detects |-> "idle"]
    /\ poolOf = [d \in Detects |-> 0]
    /\ taken = [d \in Detects |-> {}]
    /\ serves = TRUE
    /\ ailing = FALSE /\ run = 0 /\ rebuild = "none"

-----------------------------------------------------------------------------
(* detect().                                                               *)

Detect(d) ==
    /\ thread[d] = "idle" /\ serves /\ fleet # {}
    /\ thread' = [thread EXCEPT ![d] = "waiting"]
    /\ poolOf' = [poolOf EXCEPT ![d] = gen]
    /\ UNCHANGED <<plugged, gen, fleet, pools, taken, serves, ailing, run, rebuild>>

\* Any device of the pool: the fastest, or one that has been idle too long.
Checkout(d, t) ==
    /\ thread[d] = "waiting" /\ t \in pools[poolOf[d]]
    /\ pools' = [pools EXCEPT ![poolOf[d]] = @ \ {t}]
    /\ taken' = [taken EXCEPT ![d] = {t}]
    /\ thread' = [thread EXCEPT ![d] = "invoking"]
    /\ UNCHANGED <<plugged, gen, fleet, poolOf, serves, ailing, run, rebuild>>

\* A thread that ends: the ingest worker hears how, unless it stopped waiting.
Ends(d) ==
    /\ thread' = [thread EXCEPT ![d] = "idle"]
    /\ poolOf' = [poolOf EXCEPT ![d] = 0]
    /\ taken' = [taken EXCEPT ![d] = {}]

Healthy == run' = 0 /\ UNCHANGED ailing
Failing ==
    /\ run' = IF run < RunLength THEN run + 1 ELSE run
    /\ ailing' = (ailing \/ run + 1 >= RunLength)

\* No device came free within _POOL_WAIT_S.
WaitEnds(d) ==
    /\ thread[d] = "waiting" /\ pools[poolOf[d]] = {}
    /\ Ends(d) /\ Failing
    /\ UNCHANGED <<plugged, gen, fleet, pools, serves, rebuild>>

\* _release, in the finally clause: a device of the fleet goes back to its pool.
\* Fault: it goes back whether or not it is of the fleet.
FaultReleased(t) == [pools EXCEPT ![gen] = @ \cup {t}]
Released(t) == IF t \in fleet THEN [pools EXCEPT ![gen] = @ \cup {t}] ELSE pools

Invoked(d, well) ==
    /\ thread[d] = "invoking"
    /\ \E t \in taken[d] :
          /\ well => t[1] \in plugged
          /\ pools' = Released(t)
    /\ Ends(d)
    /\ IF well THEN Healthy ELSE Failing
    /\ UNCHANGED <<plugged, gen, fleet, serves, rebuild>>

\* The worker's own timeout counts a failure; the thread goes on.
TimedOut ==
    /\ \E d \in Detects : thread[d] = "invoking"
    /\ Failing
    /\ UNCHANGED <<plugged, gen, fleet, pools, thread, poolOf, taken, serves, rebuild>>

-----------------------------------------------------------------------------
(* The rebuild.                                                            *)

\* reinit and reconfigure drop the fleet before they bind.
Rebuild(why) ==
    /\ rebuild = "none" /\ gen < MaxRebuilds
    /\ why = "reinit" => ailing
    /\ rebuild' = why
    /\ serves' = FALSE
    /\ fleet' = {}
    /\ UNCHANGED <<plugged, gen, pools, thread, poolOf, taken, ailing, run>>

\* What still refers to an interpreter: a thread that holds it, or a pool that a
\* thread waits at.
Claimed ==
    LET held == UNION {taken[d] : d \in Detects}
        waited == UNION {pools[poolOf[d]] : d \in {e \in Detects : thread[e] = "waiting"}}
    IN  {t[1] : t \in held \cup waited}

Bindable == plugged \ Claimed

\* _bootstrap_blocking; the caller then clears what asked for it.
Bound ==
    /\ rebuild # "none"
    /\ gen' = gen + 1
    /\ fleet' = Bindable \X {gen + 1}
    /\ pools' = [g \in Generations |->
          CASE g = gen + 1 -> Bindable \X {gen + 1}
            [] \E d \in Detects : thread[d] = "waiting" /\ poolOf[d] = g -> pools[g]
            [] OTHER -> {}]
    /\ serves' = (Bindable # {})
    /\ IF rebuild = "reinit" THEN ailing' = FALSE /\ run' = 0 ELSE UNCHANGED <<ailing, run>>
    /\ rebuild' = "none"
    /\ UNCHANGED <<plugged, thread, poolOf, taken>>

\* A device is pulled, hangs, or comes back.
Plug(d) ==
    /\ plugged' = (plugged \cup {d}) \ (plugged \cap {d})
    /\ UNCHANGED <<gen, fleet, pools, thread, poolOf, taken, serves, ailing, run, rebuild>>

CoralNext ==
    \/ \E d \in Detects :
          \/ Detect(d) \/ WaitEnds(d)
          \/ \E t \in Tpus : Checkout(d, t)
          \/ \E well \in BOOLEAN : Invoked(d, well)
    \/ TimedOut
    \/ \E why \in {"reinit", "switch"} : Rebuild(why)
    \/ Bound
    \/ \E d \in Devices : Plug(d)

-----------------------------------------------------------------------------
(* Properties.                                                             *)

\* detect() and _release: whatever threads and rebuilds do to each other, every
\* device of the fleet is in its pool or in the hands of one thread, the pool
\* has no device of an old generation, and no two threads drive one interpreter.
PoolWhole ==
    LET busy == {d \in Detects : taken[d] # {}}
        held == UNION {taken[d] : d \in Detects}
    IN  /\ rebuild = "none" => pools[gen] = fleet \ held
        /\ \A d, e \in busy : d # e => taken[d] \cap taken[e] = {}
        /\ \A d \in busy : taken[d] \cap pools[gen] = {}

-----------------------------------------------------------------------------
(* What the source's comments say and TLC finds violated (see the README). *)

\* "same semantics as OnnxDetector": a backend that cannot detect is flagged for
\* another try.
KeepsTrying == serves \/ ailing \/ rebuild # "none" \/ plugged = {}

=============================================================================
