------------------------------- MODULE Relay -------------------------------
(***************************************************************************)
(* The push relay (src/relay/main.py): every request that is well formed   *)
(* passes a global and a per-token sliding window, the bad-token breaker   *)
(* and the gate that bounds how many requests Apple is working on.         *)
(*                                                                         *)
(* From the body's last byte to the gate's await a handler runs without a  *)
(* break: one action.  A window's deque is the set of the requests whose   *)
(* hits it holds.  A slot that comes free is the first waiter's at once,   *)
(* but its handler may give up before it runs.  Those that came in one     *)
(* instant may wait in any order.  Left out: what a push says, the         *)
(* provider token, and which of Apple's hosts it is.                       *)
(***************************************************************************)
EXTENDS Integers, Sequences, FiniteSets

CONSTANTS
    Requests, Tokens,
    Window,           \* RELAY_RATE_WINDOW, also the breaker's
    GlobalLimit,      \* RELAY_GLOBAL_RATE_LIMIT
    TokenLimit,       \* RELAY_RATE_LIMIT
    MaxKeys,          \* RELAY_MAX_LIMITER_KEYS
    MaxConcurrency,   \* RELAY_MAX_CONCURRENCY
    AcquireTimeout,   \* RELAY_ACQUIRE_TIMEOUT_MS
    Threshold,        \* RELAY_BREAKER_THRESHOLD
    Cooldown,         \* RELAY_BREAKER_COOLDOWN
    Horizon           \* the last instant

ASSUME RelayAssumption ==
    /\ {Window, GlobalLimit, TokenLimit, MaxKeys, MaxConcurrency} \subseteq Nat \ {0}
    /\ {AcquireTimeout, Threshold, Cooldown, Horizon} \subseteq Nat

VARIABLES
    now,          \* time.monotonic()
    pc,           \* [Requests -> where its handler is]
    at,           \* [Requests -> when the global window let it pass, or -1]
    global,       \* the global window's deque
    hits,         \* [Tokens -> the deque of the token]
    order,        \* the tokens that have one, the least recently used first
    free,         \* the semaphore's value
    badAt,        \* the breaker's events: [requests that Apple called bad -> when]
    openUntil     \* the breaker's _open_until

vars == <<now, pc, at, global, hits, order, free, badAt, openUntil>>

Pcs == {"new", "waiting", "granted", "sending", "answered"}

TypeOK ==
    /\ now \in 0..Horizon
    /\ pc \in [Requests -> Pcs]
    /\ at \in [Requests -> {-1} \cup 0..Horizon]
    /\ global \in SUBSET Requests
    /\ hits \in [Tokens -> SUBSET Requests]
    /\ order \in Seq(Tokens) /\ Len(order) <= MaxKeys
    /\ free \in Int
    /\ badAt \in [Requests -> {-1} \cup 0..Horizon]
    /\ openUntil \in Nat

Init ==
    /\ now = 0
    /\ pc = [r \in Requests |-> "new"]
    /\ at = [r \in Requests |-> -1]
    /\ global = {}
    /\ hits = [t \in Tokens |-> {}]
    /\ order = <<>>
    /\ free = MaxConcurrency
    /\ badAt = [r \in Requests |-> -1]
    /\ openUntil = 0

-----------------------------------------------------------------------------
(* SlidingWindowLimiter.allow.                                             *)

\* The hits of a deque that are still in the window.
\* Fault: the one at the far edge of the window leaves a tick early.
FaultKept(dq) == {q \in dq : at[q] > now - Window + 1}
Kept(dq) == {q \in dq : at[q] > now - Window}

Globally == Cardinality(Kept(global)) < GlobalLimit
PerToken(t) == Cardinality(Kept(hits[t])) < TokenLimit

WithHit(dq, r) == Kept(dq) \cup {r}

Members(seq) == {seq[i] : i \in 1..Len(seq)}

\* move_to_end: a token that has a deque, or one that has just been given one.
Touched(t) ==
    LET i == CHOOSE j \in 1..Len(order) : order[j] = t
    IN  IF t \in Members(order)
        THEN SubSeq(order, 1, i - 1) \o SubSeq(order, i + 1, Len(order)) \o <<t>>
        ELSE Append(order, t)

\* popitem(last=False).
Evicted(seq) ==
    IF Len(seq) > MaxKeys THEN SubSeq(seq, Len(seq) - MaxKeys + 1, Len(seq)) ELSE seq

-----------------------------------------------------------------------------
(* The breaker and the gate.                                               *)

IsOpen == Threshold > 0 /\ now < openUntil

\* Fault: the breaker is not asked.
FaultRefuses == FALSE
Refuses == IsOpen

\* Whoever comes while one is in the waiting room has to go there too.
Locked == free = 0 \/ \E q \in Requests : pc[q] \in {"waiting", "granted"}

\* Of n free slots up to k go to those who wait the longest; p is where everyone is but
\* for that.
Serve(p, n, k) ==
    LET waiting == {q \in Requests : p[q] = "waiting"}
    IN  \E S \in SUBSET waiting :
           /\ \A q \in S, w \in waiting \ S : at[q] <= at[w]
           /\ Cardinality(S) <= k
           /\ S = waiting \/ Cardinality(S) = k
           /\ pc' = [q \in Requests |-> IF q \in S THEN "granted" ELSE p[q]]
           /\ free' = n - Cardinality(S)

-----------------------------------------------------------------------------
(* The handler.                                                            *)

\* A malformed body ends in a 400 before anything is counted.
Reject(r) ==
    /\ pc[r] = "new"
    /\ pc' = [pc EXCEPT ![r] = "answered"]
    /\ UNCHANGED <<now, at, global, hits, order, free, badAt, openUntil>>

\* The global window is asked first; a request the token's window then refuses
\* stays counted in it.
Limited(r) ==
    /\ pc[r] = "new"
    /\ ~Globally
    /\ global' = Kept(global)
    /\ pc' = [pc EXCEPT ![r] = "answered"]
    /\ UNCHANGED <<now, at, hits, order, free, badAt, openUntil>>

TokenLimited(r, t) ==
    /\ pc[r] = "new"
    /\ Globally /\ ~PerToken(t)
    /\ at' = [at EXCEPT ![r] = now]
    /\ global' = WithHit(global, r)
    /\ hits' = [hits EXCEPT ![t] = Kept(@)]
    /\ order' = Touched(t)
    /\ pc' = [pc EXCEPT ![r] = "answered"]
    /\ UNCHANGED <<now, free, badAt, openUntil>>

Arrive(r, t) ==
    /\ pc[r] = "new"
    /\ Globally /\ PerToken(t)
    /\ at' = [at EXCEPT ![r] = now]
    /\ global' = WithHit(global, r)
    /\ order' = Evicted(Touched(t))
    /\ hits' = [u \in Tokens |-> IF u \notin Members(order') THEN {}
                                ELSE IF u = t THEN WithHit(hits[t], r) ELSE hits[u]]
    /\ \/ Refuses /\ pc' = [pc EXCEPT ![r] = "answered"] /\ UNCHANGED free
       \/ ~Refuses /\ ~Locked /\ pc' = [pc EXCEPT ![r] = "sending"] /\ free' = free - 1
       \/ ~Refuses /\ Locked /\ pc' = [pc EXCEPT ![r] = "waiting"] /\ UNCHANGED free
    /\ UNCHANGED <<now, badAt, openUntil>>

\* acquire() returns, and passes on what else is free.
Enter(r) ==
    /\ pc[r] = "granted"
    /\ Serve([pc EXCEPT ![r] = "sending"], free, free)
    /\ UNCHANGED <<now, at, global, hits, order, badAt, openUntil>>

\* A slot that came free in the instant the wait was up is given back.
\* Fault: it is lost with the handler that was to have it.
FaultGivenBack(r) == free
GivenBack(r) == IF pc[r] = "granted" THEN free + 1 ELSE free

\* wait_for gives up: the caller gets a 429.
GiveUp(r) ==
    /\ pc[r] \in {"waiting", "granted"}
    /\ now >= at[r] + AcquireTimeout
    /\ Serve([pc EXCEPT ![r] = "answered"], GivenBack(r), GivenBack(r))
    /\ UNCHANGED <<now, at, global, hits, order, badAt, openUntil>>

\* record_bad_token.
Recent(events) == {q \in Requests : events[q] > now - Window /\ events[q] >= 0}
Recorded(r) ==
    LET events == [badAt EXCEPT ![r] = now]
        trips == Threshold > 0 /\ Cardinality(Recent(events)) >= Threshold /\ ~IsOpen
    IN  /\ openUntil' = IF trips THEN now + Cooldown ELSE openUntil
        /\ badAt' = [q \in Requests |->
              IF Threshold > 0 /\ ~trips /\ q \in Recent(events) THEN events[q] ELSE -1]

\* Apple has answered, or cannot be reached; the finally clause releases the slot.
Apple(r, result) ==
    /\ pc[r] = "sending"
    /\ Serve([pc EXCEPT ![r] = "answered"], free + 1, 1)
    /\ IF result = "bad" THEN Recorded(r) ELSE UNCHANGED <<badAt, openUntil>>
    /\ UNCHANGED <<now, at, global, hits, order>>

\* The event loop runs what is ready and a timeout that is due before the clock moves on.
Tick ==
    /\ now < Horizon
    /\ \A r \in Requests : /\ pc[r] # "granted"
                           /\ pc[r] = "waiting" => now < at[r] + AcquireTimeout
    /\ now' = now + 1
    /\ UNCHANGED <<pc, at, global, hits, order, free, badAt, openUntil>>

Handler(r) ==
    \/ Reject(r) \/ Limited(r)
    \/ \E t \in Tokens : TokenLimited(r, t) \/ Arrive(r, t)
    \/ Enter(r) \/ GiveUp(r)
    \/ \E result \in {"ok", "bad", "other", "unreachable"} : Apple(r, result)

Next == (\E r \in Requests : Handler(r)) \/ Tick

Spec == Init /\ [][Next]_vars

-----------------------------------------------------------------------------
(* Properties.                                                             *)

\* SlidingWindowLimiter: whichever instant a window ends in, the relay has let no
\* more than its global limit pass in it, whatever the tokens were.
GlobalBound ==
    \A r \in Requests : at[r] >= 0 =>
        Cardinality({q \in Requests : at[q] >= 0 /\ at[q] > at[r] - Window /\ at[q] <= at[r]})
            <= GlobalLimit

\* However a request ends, at Apple or at the gate in the instant a slot comes free for
\* it, it gives back its slot, and only once.
SlotsReturned ==
    /\ free >= 0
    /\ free + Cardinality({r \in Requests : pc[r] \in {"granted", "sending"}}) = MaxConcurrency

\* BadTokenBreaker: once it opens, only the requests that had passed it and stood at
\* the gate still reach Apple, and none of them for longer than the gate lets wait.
BreakerHolds ==
    [][\A r \in Requests :
          pc[r] # "sending" /\ pc'[r] = "sending" /\ IsOpen =>
              now <= openUntil - Cooldown + AcquireTimeout]_vars

=============================================================================
