---------------------------- MODULE RelayProofs ----------------------------
(***************************************************************************)
(* What holds of Relay for every set of requests, also an infinite one,    *)
(* and every setting of its limits.                                        *)
(***************************************************************************)
EXTENDS Relay, FiniteSetTheorems, SequenceTheorems, TLAPS

USE RelayAssumption

Counted(r) == at[r] >= 0
InWindowOf(r) == {q \in Requests : at[q] >= 0 /\ at[q] > at[r] - Window /\ at[q] <= at[r]}
Seen == {r \in Requests : pc[r] # "new"}
Holding == {r \in Requests : pc[r] \in {"granted", "sending"}}

\* The deque of the global window holds every hit that is still in it.
WindowInv ==
    /\ now \in Nat
    /\ at \in [Requests -> Int]
    /\ pc \in [Requests -> Pcs]
    /\ global \subseteq Requests
    /\ IsFiniteSet(global)
    /\ \A r \in global : Counted(r)
    /\ \A r \in Requests : at[r] <= now
    /\ \A r \in Requests : Counted(r) /\ at[r] > now - Window => r \in global
    /\ \A r \in Requests : pc[r] = "new" => at[r] = -1

IInv == WindowInv /\ GlobalBound

\* The gate's invariant needs that only finitely many requests have come.
SlotInv ==
    /\ pc \in [Requests -> Pcs]
    /\ free \in Int
    /\ IsFiniteSet(Seen)
    /\ SlotsReturned

\* Who stands at the gate came while the breaker let it pass, and has not waited
\* for longer than it may; so an open breaker has opened since.
GateInv ==
    /\ now \in Int /\ openUntil \in Int
    /\ pc \in [Requests -> Pcs] /\ at \in [Requests -> Int]
    /\ \A r \in Requests : pc[r] \in {"waiting", "granted"} =>
          /\ at[r] <= now /\ now <= at[r] + AcquireTimeout
          /\ IsOpen => at[r] <= openUntil - Cooldown

\* A token whose deque has a hit is in the table, and the free slots can be counted.
TableInv == SlotInv /\ TypeOK /\ \A t \in Tokens : hits[t] # {} => t \in Members(order)

-----------------------------------------------------------------------------
(* The gate.                                                               *)

\* Slots are handed to finitely many of those who wait, and no other moves.
LEMMA Served ==
    ASSUME NEW p \in [Requests -> Pcs], NEW n \in Int, NEW k \in Int, k <= n,
           IsFiniteSet({q \in Requests : p[q] # "new"}),
           Serve(p, n, k)
    PROVE  \E S \in SUBSET Requests :
              /\ IsFiniteSet(S) /\ Cardinality(S) \in Nat /\ Cardinality(S) <= n
              /\ \A q \in S : p[q] = "waiting"
              /\ pc' = [q \in Requests |-> IF q \in S THEN "granted" ELSE p[q]]
              /\ pc' \in [Requests -> Pcs]
              /\ free' = n - Cardinality(S) /\ free' \in Int
<1> DEFINE waiting == {q \in Requests : p[q] = "waiting"}
           seen == {q \in Requests : p[q] # "new"}
<1>1. PICK S \in SUBSET waiting :
         /\ Cardinality(S) <= k
         /\ pc' = [q \in Requests |-> IF q \in S THEN "granted" ELSE p[q]]
         /\ free' = n - Cardinality(S)
  BY DEF Serve
<1>2. S \subseteq seen
  OBVIOUS
<1>3. IsFiniteSet(S) /\ Cardinality(S) \in Nat
  BY <1>2, FS_Subset, FS_CardinalityType
<1>4. pc' \in [Requests -> Pcs]
  BY <1>1 DEF Pcs
<1> QED
  BY <1>1, <1>3, <1>4

\* Where the caller has brought its own slot into n, none is lost and none is made.
LEMMA ServedSlots ==
    ASSUME NEW p \in [Requests -> Pcs], NEW n \in Int, NEW k \in Int, k <= n,
           IsFiniteSet({q \in Requests : p[q] # "new"}),
           LET held == {q \in Requests : p[q] \in {"granted", "sending"}}
           IN  n >= 0 /\ n + Cardinality(held) = MaxConcurrency,
           Serve(p, n, k)
    PROVE  SlotInv'
<1> DEFINE held == {q \in Requests : p[q] \in {"granted", "sending"}}
           seen == {q \in Requests : p[q] # "new"}
<1>1. PICK S \in SUBSET Requests :
              /\ IsFiniteSet(S) /\ Cardinality(S) \in Nat /\ Cardinality(S) <= n
              /\ \A q \in S : p[q] = "waiting"
              /\ pc' = [q \in Requests |-> IF q \in S THEN "granted" ELSE p[q]]
              /\ pc' \in [Requests -> Pcs]
              /\ free' = n - Cardinality(S) /\ free' \in Int
  BY Served
<1>2. Holding' = held \cup S /\ held \cap S = {} /\ Seen' = seen /\ held \subseteq seen
  BY <1>1 DEF Holding, Seen
<1>3. IsFiniteSet(held) /\ Cardinality(held) \in Nat
  BY <1>2, FS_Subset, FS_CardinalityType
<1>4. Cardinality(held \cap S) = 0
  BY <1>2, FS_EmptySet
<1> HIDE DEF held
<1>5. Cardinality(Holding') = Cardinality(held) + Cardinality(S)
  <2>1. Cardinality(held \cup S) = Cardinality(held) + Cardinality(S) - Cardinality(held \cap S)
    BY <1>1, <1>3, FS_Union
  <2> QED
    BY <1>1, <1>2, <1>3, <1>4, <2>1
<1>6. n >= 0 /\ n + Cardinality(held) = MaxConcurrency
  BY DEF held
<1>7. SlotsReturned'
  BY <1>1, <1>3, <1>5, <1>6 DEF SlotsReturned, Holding
<1> QED
  BY <1>1, <1>2, <1>7 DEF SlotInv

LEMMA InitSlotInv == Init => SlotInv
<1> SUFFICES ASSUME Init PROVE SlotInv
  OBVIOUS
<1>1. Holding = {} /\ Seen = {}
  BY DEF Init, Holding, Seen
<1>2. MaxConcurrency \in Nat
  OBVIOUS
<1>3. IsFiniteSet(Seen) /\ Cardinality(Holding) = 0
  BY <1>1, FS_EmptySet
<1> QED
  BY <1>2, <1>3 DEF Init, SlotInv, SlotsReturned, Holding, Pcs

LEMMA NextSlotInv == SlotInv /\ [Next]_vars => SlotInv'
<1> SUFFICES ASSUME SlotInv, [Next]_vars PROVE SlotInv'
  OBVIOUS
<1> USE DEF Pcs
<1>0. /\ pc \in [Requests -> Pcs] /\ free \in Int /\ MaxConcurrency \in Nat
      /\ IsFiniteSet(Seen) /\ IsFiniteSet(Holding) /\ Cardinality(Holding) \in Nat
      /\ free >= 0 /\ free + Cardinality(Holding) = MaxConcurrency
  <2>1. Holding \subseteq Seen
    BY DEF Holding, Seen
  <2> QED
    BY <2>1, FS_Subset, FS_CardinalityType DEF SlotInv, SlotsReturned, Holding
\* One handler moves, and the set of those who came is finite still.
<1>1. ASSUME NEW r \in Requests, NEW s \in {"sending", "answered"}
      PROVE  /\ [pc EXCEPT ![r] = s] \in [Requests -> Pcs]
             /\ IsFiniteSet({q \in Requests : [pc EXCEPT ![r] = s][q] # "new"})
             /\ Cardinality({q \in Requests : [pc EXCEPT ![r] = s][q] \in {"granted", "sending"}}) =
                   IF s \in {"granted", "sending"}
                   THEN IF r \in Holding THEN Cardinality(Holding) ELSE Cardinality(Holding) + 1
                   ELSE IF r \in Holding THEN Cardinality(Holding) - 1 ELSE Cardinality(Holding)
  <2>1. {q \in Requests : [pc EXCEPT ![r] = s][q] # "new"} = Seen \cup {r}
    BY <1>0, <1>1 DEF Seen
  <2>2. IsFiniteSet(Seen \cup {r})
    BY <1>0, FS_AddElement
  <2>3. {q \in Requests : [pc EXCEPT ![r] = s][q] \in {"granted", "sending"}} =
           IF s \in {"granted", "sending"} THEN Holding \cup {r} ELSE Holding \ {r}
    BY <1>0, <1>1 DEF Holding
  <2>4. Cardinality(Holding \cup {r}) =
           IF r \in Holding THEN Cardinality(Holding) ELSE Cardinality(Holding) + 1
    BY <1>0, FS_AddElement
  <2>5. Cardinality(Holding \ {r}) =
           IF r \in Holding THEN Cardinality(Holding) - 1 ELSE Cardinality(Holding)
    BY <1>0, FS_RemoveElement
  <2> QED
    BY <1>0, <2>1, <2>2, <2>3, <2>4, <2>5
<1>2. ASSUME NEW r \in Requests, Enter(r) PROVE SlotInv'
  <2> DEFINE p == [pc EXCEPT ![r] = "sending"]
  <2>1. r \in Holding /\ Serve(p, free, free)
    BY <1>2 DEF Enter, Holding
  <2>2. /\ p \in [Requests -> Pcs] /\ IsFiniteSet({q \in Requests : p[q] # "new"})
        /\ free + Cardinality({q \in Requests : p[q] \in {"granted", "sending"}}) = MaxConcurrency
    BY <1>0, <1>1, <2>1
  <2> HIDE DEF p
  <2> QED
    BY <1>0, <2>1, <2>2, ServedSlots
<1>3. ASSUME NEW r \in Requests, GiveUp(r) PROVE SlotInv'
  <2> DEFINE p == [pc EXCEPT ![r] = "answered"]
             n == GivenBack(r)
  <2>1. Serve(p, n, n)
    BY <1>3, Zenon DEF GiveUp
  <2>2. n = IF r \in Holding THEN free + 1 ELSE free
    BY <1>3 DEF GiveUp, GivenBack, Holding
  <2>0. /\ p \in [Requests -> Pcs] /\ IsFiniteSet({q \in Requests : p[q] # "new"})
        /\ Cardinality({q \in Requests : p[q] \in {"granted", "sending"}}) =
              IF "answered" \in {"granted", "sending"}
              THEN IF r \in Holding THEN Cardinality(Holding) ELSE Cardinality(Holding) + 1
              ELSE IF r \in Holding THEN Cardinality(Holding) - 1 ELSE Cardinality(Holding)
    BY <1>1, Zenon
  <2>3. /\ p \in [Requests -> Pcs] /\ IsFiniteSet({q \in Requests : p[q] # "new"})
        /\ Cardinality({q \in Requests : p[q] \in {"granted", "sending"}}) =
              IF r \in Holding THEN Cardinality(Holding) - 1 ELSE Cardinality(Holding)
    BY <2>0
  <2> HIDE DEF p, n
  <2>4. /\ n \in Int /\ n >= 0 /\ n <= n
        /\ n + Cardinality({q \in Requests : p[q] \in {"granted", "sending"}}) = MaxConcurrency
    BY <1>0, <2>2, <2>3
  <2> QED
    BY <2>1, <2>3, <2>4, ServedSlots
<1>4. ASSUME NEW r \in Requests, NEW result \in {"ok", "bad", "other", "unreachable"},
             Apple(r, result)
      PROVE  SlotInv'
  <2> DEFINE p == [pc EXCEPT ![r] = "answered"]
  <2>1. r \in Holding /\ Serve(p, free + 1, 1)
    BY <1>4 DEF Apple, Holding
  <2>0. /\ p \in [Requests -> Pcs] /\ IsFiniteSet({q \in Requests : p[q] # "new"})
        /\ Cardinality({q \in Requests : p[q] \in {"granted", "sending"}}) =
              IF "answered" \in {"granted", "sending"}
              THEN IF r \in Holding THEN Cardinality(Holding) ELSE Cardinality(Holding) + 1
              ELSE IF r \in Holding THEN Cardinality(Holding) - 1 ELSE Cardinality(Holding)
    BY <1>1, Zenon
  <2>2. /\ p \in [Requests -> Pcs] /\ IsFiniteSet({q \in Requests : p[q] # "new"})
        /\ Cardinality({q \in Requests : p[q] \in {"granted", "sending"}}) = Cardinality(Holding) - 1
    BY <2>1, <2>0
  <2> HIDE DEF p
  <2>3. PICK n : n = free + 1
    OBVIOUS
  <2>4. /\ Serve(p, n, 1) /\ 1 \in Int /\ n \in Int /\ 1 <= n
        /\ n + Cardinality({q \in Requests : p[q] \in {"granted", "sending"}}) = MaxConcurrency
    BY <1>0, <2>1, <2>2, <2>3
  <2> QED
    BY <2>2, <2>4, ServedSlots
<1>5. ASSUME NEW r \in Requests, NEW s \in {"answered", "waiting"}, pc[r] = "new",
             pc' = [pc EXCEPT ![r] = s], free' = free
      PROVE  SlotInv'
  <2>1. r \notin Holding /\ Holding' = Holding /\ Seen' = Seen \cup {r}
    BY <1>0, <1>5 DEF Holding, Seen
  <2>2. IsFiniteSet(Seen') /\ pc' \in [Requests -> Pcs]
    BY <1>0, <1>5, <2>1, FS_AddElement
  <2> QED
    BY <1>0, <1>5, <2>1, <2>2 DEF SlotInv, SlotsReturned, Holding
<1>6. ASSUME NEW r \in Requests, pc[r] = "new", ~Locked,
             pc' = [pc EXCEPT ![r] = "sending"], free' = free - 1
      PROVE  SlotInv'
  <2>1. r \notin Holding /\ Holding' = Holding \cup {r} /\ Seen' = Seen \cup {r}
    BY <1>0, <1>6 DEF Holding, Seen
  <2>2. /\ IsFiniteSet(Seen') /\ pc' \in [Requests -> Pcs]
        /\ Cardinality(Holding') = Cardinality(Holding) + 1
    BY <1>0, <1>6, <2>1, FS_AddElement
  <2>3. free > 0
    BY <1>0, <1>6 DEF Locked
  <2> QED
    BY <1>0, <1>6, <2>2, <2>3 DEF SlotInv, SlotsReturned, Holding
<1>7. ASSUME NEW r \in Requests, Reject(r) \/ Limited(r) \/ \E t \in Tokens : TokenLimited(r, t)
      PROVE  SlotInv'
  BY <1>5, <1>7 DEF Reject, Limited, TokenLimited
<1>8. ASSUME NEW r \in Requests, NEW t \in Tokens, Arrive(r, t) PROVE SlotInv'
  BY <1>5, <1>6, <1>8 DEF Arrive
<1>9. CASE Tick \/ UNCHANGED vars
  BY <1>0, <1>9 DEF Tick, vars, SlotInv, SlotsReturned, Holding, Seen
<1> QED
  BY <1>2, <1>3, <1>4, <1>7, <1>8, <1>9 DEF Next, Handler

\* No request ends without giving its slot back, be it granted in the instant the request
\* gives up, and none gives it back twice: the relay never has more than
\* RELAY_MAX_CONCURRENCY requests at Apple, and never loses the capacity for them.
THEOREM SlotsReturnedHolds == Spec => []SlotsReturned
<1>1. SlotInv => SlotsReturned
  BY DEF SlotInv
<1> QED
  BY InitSlotInv, NextSlotInv, <1>1, PTL DEF Spec

\* What a step that serves leaves of the handlers: those who waited may be granted.
LEMMA ServedMoves ==
    ASSUME SlotInv, NEW r \in Requests, NEW s \in Pcs \ {"new"}, NEW n \in Int, NEW k \in Int,
           Serve([pc EXCEPT ![r] = s], n, k)
    PROVE  /\ pc' \in [Requests -> Pcs]
           /\ s # "waiting" => pc'[r] = s
           /\ \A q \in Requests \ {r} :
                 pc'[q] = pc[q] \/ (pc[q] = "waiting" /\ pc'[q] = "granted")
<1>1. PICK S \in SUBSET {q \in Requests : [pc EXCEPT ![r] = s][q] = "waiting"} :
         pc' = [q \in Requests |-> IF q \in S THEN "granted" ELSE [pc EXCEPT ![r] = s][q]]
  BY DEF Serve
<1> QED
  BY <1>1 DEF SlotInv, Pcs

-----------------------------------------------------------------------------
(* The table of the tokens.                                                *)

\* An element is taken out of the middle: the others stay.
LEMMA WithoutOne ==
    ASSUME NEW S, NEW s \in Seq(S), NEW i \in 1..Len(s)
    PROVE  LET r == SubSeq(s, 1, i - 1) \o SubSeq(s, i + 1, Len(s))
           IN  /\ r \in Seq(S) /\ Len(r) = Len(s) - 1
               /\ \A n \in 1..Len(s) : n # i => \E j \in 1..Len(r) : r[j] = s[n]
<1> DEFINE len == Len(s)
           head == SubSeq(s, 1, i - 1)
           tail == SubSeq(s, i + 1, len)
           r == head \o tail
<1>0. len \in Nat /\ (\A j \in 1..len : s[j] \in S) /\ i \in 1..len
  BY LenProperties, ElementOfSeq
<1> HIDE DEF len
<1>1. /\ head \in Seq(S) /\ Len(head) = i - 1
      /\ \A j \in 1..(i - 1) : head[j] = s[j]
  BY <1>0, SubSeqProperties
<1>2. /\ tail \in Seq(S) /\ Len(tail) = len - i
      /\ \A j \in 1..(len - i) : tail[j] = s[i + j]
  BY <1>0, SubSeqProperties
<1> HIDE DEF head, tail
<1>3. /\ r \in Seq(S) /\ Len(r) = Len(head) + Len(tail)
      /\ \A j \in 1..(Len(head) + Len(tail)) :
            r[j] = IF j <= Len(head) THEN head[j] ELSE tail[j - Len(head)]
  BY <1>1, <1>2, ConcatProperties, Zenon
<1> HIDE DEF r
<1>4. Len(r) = len - 1 /\ Len(head) + Len(tail) = len - 1
  BY <1>0, <1>1, <1>2, <1>3
<1>5. \A j \in 1..(len - 1) : r[j] = IF j <= i - 1 THEN head[j] ELSE tail[j - (i - 1)]
  BY <1>1, <1>3, <1>4
<1>6. ASSUME NEW n \in 1..len, n # i PROVE \E j \in 1..Len(r) : r[j] = s[n]
  <2>1. CASE n < i
    <3>1. n \in 1..(len - 1) /\ n <= i - 1 /\ n \in 1..(i - 1)
      BY <1>0, <2>1
    <3>2. r[n] = s[n]
      BY <1>1, <1>5, <3>1
    <3> QED
      BY <1>4, <3>1, <3>2
  <2>2. CASE n > i
    <3>1. /\ n - 1 \in 1..(len - 1) /\ ~(n - 1 <= i - 1)
          /\ (n - 1) - (i - 1) = n - i /\ n - i \in 1..(len - i) /\ i + (n - i) = n
      BY <1>0, <2>2
    <3>2. r[n - 1] = s[n]
      BY <1>2, <1>5, <3>1
    <3> QED
      BY <1>4, <3>1, <3>2
  <2> QED
    BY <1>0, <1>6, <2>1, <2>2
<1> QED
  BY <1>3, <1>4, <1>6 DEF r, head, tail, len

\* An element is put at the end.
LEMMA WithLast ==
    ASSUME NEW S, NEW s \in Seq(S), NEW e \in S
    PROVE  /\ Append(s, e) \in Seq(S) /\ Len(Append(s, e)) = Len(s) + 1
           /\ Append(s, e)[Len(s) + 1] = e
           /\ \A j \in 1..Len(s) : Append(s, e)[j] = s[j]
           /\ s \o <<e>> = Append(s, e)
OBVIOUS

\* move_to_end: a token that is in the table does not make it longer, none leaves it.
LEMMA TouchedIs ==
    ASSUME order \in Seq(Tokens), NEW t \in Tokens
    PROVE  /\ Touched(t) \in Seq(Tokens)
           /\ t \in Members(order) => Len(Touched(t)) = Len(order)
           /\ t \notin Members(order) => Len(Touched(t)) = Len(order) + 1
           /\ Members(order) \subseteq Members(Touched(t))
<1>0. Len(order) \in Nat /\ \A i \in 1..Len(order) : order[i] \in Tokens
  BY LenProperties, ElementOfSeq
<1>1. CASE t \in Members(order)
  <2> DEFINE i == CHOOSE j \in 1..Len(order) : order[j] = t
             r == SubSeq(order, 1, i - 1) \o SubSeq(order, i + 1, Len(order))
  <2>1. i \in 1..Len(order) /\ order[i] = t
    BY <1>1 DEF Members
  <2>2. Touched(t) = r \o <<t>>
    BY <1>1 DEF Touched
  <2> HIDE DEF i
  <2>3. /\ r \in Seq(Tokens) /\ Len(r) = Len(order) - 1
        /\ \A n \in 1..Len(order) : n # i => \E j \in 1..Len(r) : r[j] = order[n]
    BY <2>1, WithoutOne DEF r
  <2> HIDE DEF r
  <2>4. Touched(t) = Append(r, t)
    BY <2>2, <2>3, WithLast
  <2>5. /\ Touched(t) \in Seq(Tokens) /\ Len(Touched(t)) = Len(r) + 1
        /\ Touched(t)[Len(r) + 1] = t
        /\ \A j \in 1..Len(r) : Touched(t)[j] = r[j]
    BY <2>3, <2>4, WithLast
  <2>6. /\ Len(Touched(t)) = Len(order) /\ Len(r) + 1 \in 1..Len(Touched(t))
        /\ \A j \in 1..Len(r) : j \in 1..Len(Touched(t))
    BY <1>0, <2>1, <2>3, <2>5
  <2>7. ASSUME NEW n \in 1..Len(order) PROVE \E j \in 1..Len(Touched(t)) : Touched(t)[j] = order[n]
    <3>1. CASE n = i
      BY <2>1, <2>5, <2>6, <3>1
    <3>2. CASE n # i
      <4>1. PICK j \in 1..Len(r) : r[j] = order[n]
        BY <2>3, <3>2
      <4> QED
        BY <2>5, <2>6, <4>1
    <3> QED
      BY <3>1, <3>2
  <2>8. Members(order) \subseteq Members(Touched(t))
    BY <2>7, Zenon DEF Members
  <2> QED
    BY <1>1, <2>5, <2>6, <2>8
<1>2. CASE t \notin Members(order)
  <2>1. Touched(t) = Append(order, t)
    BY <1>2 DEF Touched
  <2>2. /\ Touched(t) \in Seq(Tokens) /\ Len(Touched(t)) = Len(order) + 1
        /\ \A j \in 1..Len(order) : Touched(t)[j] = order[j]
    BY <2>1, WithLast
  <2>3. \A j \in 1..Len(order) : j \in 1..Len(Touched(t))
    BY <1>0, <2>2
  <2>4. Members(order) \subseteq Members(Touched(t))
    BY <2>2, <2>3, Zenon DEF Members
  <2> QED
    BY <1>2, <2>2, <2>4
<1> QED
  BY <1>1, <1>2

\* popitem: what stays of a table that is one too long is within the bound.
LEMMA EvictedIs ==
    ASSUME NEW s \in Seq(Tokens), Len(s) <= MaxKeys + 1
    PROVE  Evicted(s) \in Seq(Tokens) /\ Len(Evicted(s)) <= MaxKeys
<1>0. Len(s) \in Nat /\ MaxKeys \in Nat /\ MaxKeys > 0 /\ \A i \in 1..Len(s) : s[i] \in Tokens
  BY LenProperties, ElementOfSeq
<1>1. CASE Len(s) > MaxKeys
  <2> DEFINE m == Len(s) - MaxKeys + 1
  <2>1. m \in Int /\ m >= 1 /\ Len(s) \in Int /\ m <= Len(s)
    BY <1>0, <1>1
  <2>2. \A i \in m..Len(s) : s[i] \in Tokens
    BY <1>0, <2>1
  <2>3. SubSeq(s, m, Len(s)) \in Seq(Tokens) /\ Len(SubSeq(s, m, Len(s))) = Len(s) - m + 1
    BY <2>1, <2>2, SubSeqProperties
  <2>4. Evicted(s) = SubSeq(s, m, Len(s))
    BY <1>1 DEF Evicted
  <2> HIDE DEF m
  <2>5. Len(s) - m + 1 = MaxKeys
    BY <1>0 DEF m
  <2> QED
    BY <1>0, <2>3, <2>4, <2>5
<1>2. CASE ~(Len(s) > MaxKeys)
  BY <1>0, <1>2 DEF Evicted
<1> QED
  BY <1>1, <1>2

LEMMA TableInit == Init => TableInv
<1> SUFFICES ASSUME Init PROVE TableInv
  OBVIOUS
<1>0. SlotInv
  BY InitSlotInv
<1>1. order \in Seq(Tokens) /\ Len(order) <= MaxKeys
  <2>1. order = <<>>
    BY DEF Init
  <2> QED
    BY <2>1
<1>2. hits \in [Tokens -> SUBSET Requests] /\ \A t \in Tokens : hits[t] = {}
  BY DEF Init
<1>3. /\ now \in 0..Horizon /\ pc \in [Requests -> Pcs] /\ at \in [Requests -> {-1} \cup 0..Horizon]
      /\ global \in SUBSET Requests /\ free \in Int /\ badAt \in [Requests -> {-1} \cup 0..Horizon]
      /\ openUntil \in Nat
  BY DEF Init, Pcs
<1> QED
  BY <1>0, <1>1, <1>2, <1>3 DEF TableInv, TypeOK

LEMMA TableStep == TableInv /\ [Next]_vars => TableInv'
<1> SUFFICES ASSUME TableInv, [Next]_vars PROVE TableInv'
  OBVIOUS
<1> DEFINE Instants == {-1} \cup 0..Horizon
           Rest == /\ now \in 0..Horizon /\ pc \in [Requests -> Pcs] /\ at \in [Requests -> Instants]
                   /\ global \in SUBSET Requests /\ free \in Int
                   /\ badAt \in [Requests -> Instants] /\ openUntil \in Nat
           Table == /\ hits \in [Tokens -> SUBSET Requests]
                    /\ order \in Seq(Tokens) /\ Len(order) <= MaxKeys
                    /\ \A t \in Tokens : hits[t] # {} => t \in Members(order)
<1>0. Rest /\ Table
  BY DEF TableInv, TypeOK
<1>a. SlotInv' /\ pc' \in [Requests -> Pcs] /\ free' \in Int
  BY NextSlotInv DEF TableInv, SlotInv
<1>1. ASSUME Rest', Table' PROVE TableInv'
  BY <1>a, <1>1 DEF TableInv, TypeOK
<1>2. ASSUME UNCHANGED <<hits, order>> PROVE Table'
  BY <1>0, <1>2 DEF Members
<1> HIDE DEF Table
<1>3. ASSUME NEW r \in Requests, Handler(r) PROVE TableInv'
  <2>1. Rest'
    <3>1. now \in Instants /\ now' \in 0..Horizon
      BY <1>0, <1>3 DEF Handler, Reject, Limited, TokenLimited, Arrive, Enter, GiveUp, Apple
    <3>3. at' \in [Requests -> Instants] /\ global' \subseteq Requests
      BY <1>0, <1>3, <3>1 DEF Handler, Reject, Limited, TokenLimited, Arrive, Enter, GiveUp, Apple,
                        WithHit, Kept
    <3>5. badAt' \in [Requests -> Instants] /\ openUntil' \in Nat
      <4>1. CASE UNCHANGED <<badAt, openUntil>>
        BY <1>0, <4>1
      <4>2. CASE Recorded(r)
        <5> DEFINE events == [badAt EXCEPT ![r] = now]
        <5>1. events \in [Requests -> Instants]
          BY <1>0, <3>1
        <5>2. now + Cooldown \in Nat
          BY <1>0
        <5> QED
          BY <1>0, <4>2, <5>1, <5>2 DEF Recorded
      <4> QED
        BY <1>3, <4>1, <4>2 DEF Handler, Reject, Limited, TokenLimited, Arrive, Enter, GiveUp, Apple
    <3> QED
      BY <1>a, <3>1, <3>3, <3>5
  <2>2. Table'
    <3>1. CASE UNCHANGED <<hits, order>>
      BY <1>2, <3>1
    <3>2. ASSUME NEW t \in Tokens, TokenLimited(r, t) PROVE Table'
      <4>1. order \in Seq(Tokens) /\ Len(order) <= MaxKeys /\ hits \in [Tokens -> SUBSET Requests]
        BY <1>0 DEF Table
      \* A deque without hits limits nobody.
      <4>2. t \in Members(order)
        <5>1. Cardinality({}) = 0 /\ TokenLimit > 0
          BY FS_EmptySet
        <5>2. hits[t] # {}
          <6>1. ASSUME hits[t] = {} PROVE FALSE
            <7>1. Kept(hits[t]) = {}
              BY <6>1 DEF Kept
            <7> QED
              BY <3>2, <5>1, <7>1 DEF TokenLimited, PerToken
          <6> QED
            BY <6>1
        <5> QED
          BY <1>0, <5>2 DEF Table
      <4>3. order' \in Seq(Tokens) /\ Len(order') <= MaxKeys /\ Members(order) \subseteq Members(order')
        <5>1. order' = Touched(t)
          BY <3>2 DEF TokenLimited
        <5>2. /\ Touched(t) \in Seq(Tokens) /\ Len(Touched(t)) = Len(order)
              /\ Members(order) \subseteq Members(Touched(t))
          BY <4>1, <4>2, TouchedIs
        <5> QED
          BY <4>1, <5>1, <5>2 DEF Members
      <4>4. hits' \in [Tokens -> SUBSET Requests] /\ \A u \in Tokens : hits'[u] \subseteq hits[u]
        BY <3>2, <4>1 DEF TokenLimited, Kept
      <4> QED
        BY <1>0, <4>3, <4>4 DEF Table
    <3>3. ASSUME NEW t \in Tokens, Arrive(r, t) PROVE Table'
      <4>1. order \in Seq(Tokens) /\ Len(order) <= MaxKeys /\ hits \in [Tokens -> SUBSET Requests]
        BY <1>0 DEF Table
      <4>2. Touched(t) \in Seq(Tokens) /\ Len(Touched(t)) <= MaxKeys + 1
        <5>1. Len(order) \in Nat /\ MaxKeys \in Nat
          BY <4>1, LenProperties
        <5>2. /\ Touched(t) \in Seq(Tokens)
              /\ Len(Touched(t)) = Len(order) \/ Len(Touched(t)) = Len(order) + 1
          BY <4>1, TouchedIs
        <5> QED
          BY <4>1, <5>1, <5>2
      <4>3. order' \in Seq(Tokens) /\ Len(order') <= MaxKeys
        BY <3>3, <4>2, EvictedIs DEF Arrive
      <4>4. /\ hits' \in [Tokens -> SUBSET Requests]
            /\ \A u \in Tokens : hits'[u] # {} => u \in Members(order')
        BY <3>3, <4>1 DEF Arrive, WithHit, Kept
      <4> QED
        BY <4>3, <4>4 DEF Table, Members
    <3> QED
      BY <1>3, <3>1, <3>2, <3>3 DEF Handler, Reject, Limited, Enter, GiveUp, Apple
  <2> QED
    BY <1>1, <2>1, <2>2
<1>4. CASE Tick
  <2>1. Rest'
    BY <1>0, <1>4 DEF Tick
  <2> QED
    BY <1>1, <1>2, <1>4, <2>1 DEF Tick
<1>5. CASE UNCHANGED vars
  <2>1. Rest'
    BY <1>0, <1>5 DEF vars
  <2> QED
    BY <1>1, <1>2, <1>5, <2>1 DEF vars
<1> QED
  BY <1>3, <1>4, <1>5 DEF Next

\* SlidingWindowLimiter: whatever tokens callers make up, the table of their deques,
\* and with it the memory of the relay, stays within RELAY_MAX_LIMITER_KEYS; also where
\* a refusal touches the table and evicts nothing.
THEOREM TypeCorrect == Spec => []TypeOK
<1>1. TableInv => TypeOK
  BY DEF TableInv
<1> QED
  BY <1>1, TableInit, TableStep, PTL DEF Spec

-----------------------------------------------------------------------------
(* The sliding window.                                                     *)

\* What allow() keeps of a deque is a finite part of it.
LEMMA KeptIsFinite ==
    ASSUME WindowInv
    PROVE  /\ Kept(global) \subseteq global
           /\ IsFiniteSet(Kept(global))
           /\ Cardinality(Kept(global)) \in Nat
BY FS_Subset, FS_CardinalityType DEF WindowInv, Kept

\* One more hit, where there was room for it, keeps the bound.
LEMMA HitKeepsInvariant ==
    ASSUME IInv, NEW r \in Requests, pc[r] = "new", Globally,
           now' = now, at' = [at EXCEPT ![r] = now], global' = WithHit(global, r),
           pc' \in [Requests -> Pcs], \A q \in Requests : pc'[q] = "new" => pc[q] = "new" /\ q # r
    PROVE  IInv'
<1> USE DEF IInv, WindowInv, Counted
<1>1. at[r] = -1 /\ now \in Int /\ now >= 0
  OBVIOUS
<1>2. global' = Kept(global) \cup {r}
  BY DEF WithHit
<1>3. /\ IsFiniteSet(Kept(global)) /\ Cardinality(Kept(global)) \in Nat
      /\ IsFiniteSet(global')
      /\ Cardinality(global') <= Cardinality(Kept(global)) + 1
      /\ Cardinality(global') \in Nat
  <2>1. IsFiniteSet(Kept(global)) /\ Cardinality(Kept(global)) \in Nat
    BY KeptIsFinite
  <2>2. /\ IsFiniteSet(global')
        /\ \/ Cardinality(global') = Cardinality(Kept(global))
           \/ Cardinality(global') = Cardinality(Kept(global)) + 1
    BY <1>2, <2>1, FS_AddElement
  <2> QED
    BY <2>1, <2>2
<1>4. Cardinality(global') <= GlobalLimit
  <2>1. Cardinality(Kept(global)) < GlobalLimit
    BY DEF Globally
  <2>2. GlobalLimit \in Nat
    OBVIOUS
  <2> QED
    BY <2>1, <2>2, <1>3
<1>5. WindowInv'
  <2>1. \A q \in Requests : at'[q] = IF q = r THEN now ELSE at[q]
    OBVIOUS
  <2>2. Window \in Int
    OBVIOUS
  <2>3. \A q \in Requests : Counted(q)' /\ at'[q] > now' - Window => q \in global'
    BY <2>1, <2>2, <1>2 DEF Kept
  <2>4. /\ \A q \in global' : Counted(q)'
        /\ global' \subseteq Requests
    BY <2>1, <1>1, <1>2 DEF Kept
  <2>5. /\ \A q \in Requests : at'[q] <= now'
        /\ at' \in [Requests -> Int]
    BY <2>1, <1>1
  <2>6. \A q \in Requests : pc'[q] = "new" => at'[q] = -1
    BY <2>1
  <2> QED
    BY <1>1, <1>3, <2>3, <2>4, <2>5, <2>6
<1>6. GlobalBound'
  <2> SUFFICES ASSUME NEW q \in Requests, at'[q] >= 0
               PROVE  Cardinality(InWindowOf(q)') <= GlobalLimit
    BY DEF GlobalBound, InWindowOf
  <2>0. Window \in Int /\ GlobalLimit \in Nat
    OBVIOUS
  <2>1. CASE at'[q] = now
    <3>1. InWindowOf(q)' \subseteq global'
      BY <2>1, <1>2, <2>0 DEF InWindowOf, Kept
    <3>2. Cardinality(InWindowOf(q)') <= Cardinality(global')
      BY <3>1, <1>3, FS_Subset
    <3>3. Cardinality(InWindowOf(q)') \in Nat
      BY <3>1, <1>3, FS_Subset, FS_CardinalityType
    <3> QED
      BY <3>2, <3>3, <1>3, <1>4, <2>0
  <2>2. CASE at'[q] # now
    <3>1. q # r /\ at'[q] = at[q] /\ at[q] < now
      BY <2>2
    <3>2. InWindowOf(q)' = InWindowOf(q)
      BY <3>1, <1>1 DEF InWindowOf
    <3> QED
      BY <3>1, <3>2 DEF GlobalBound, InWindowOf
  <2> QED
    BY <2>1, <2>2
<1> QED
  BY <1>5, <1>6

-----------------------------------------------------------------------------
(* The steps.                                                              *)

LEMMA InitIInv == Init => IInv
<1> SUFFICES ASSUME Init PROVE IInv
  OBVIOUS
<1>1. WindowInv
  BY FS_EmptySet DEF Init, WindowInv, Counted, Pcs
<1>2. GlobalBound
  BY DEF Init, GlobalBound
<1> QED
  BY <1>1, <1>2 DEF IInv

\* A step that leaves the windows alone keeps the invariant.
LEMMA QuietKeepsInvariant ==
    ASSUME IInv, UNCHANGED <<now, at, global>>, pc' \in [Requests -> Pcs],
           \A q \in Requests : pc'[q] = "new" => pc[q] = "new"
    PROVE  IInv'
BY DEF IInv, WindowInv, GlobalBound, Counted

LEMMA NextIInv == SlotInv /\ IInv /\ [Next]_vars => IInv'
<1> SUFFICES ASSUME SlotInv, IInv, [Next]_vars PROVE IInv'
  OBVIOUS
<1> USE DEF Pcs
<1>0. /\ pc \in [Requests -> Pcs] /\ at \in [Requests -> Int] /\ now \in Nat
      /\ Window \in Nat
  BY DEF IInv, WindowInv
<1>1. ASSUME NEW r \in Requests, NEW t \in Tokens, TokenLimited(r, t) PROVE IInv'
  BY <1>0, <1>1, HitKeepsInvariant DEF TokenLimited
<1>2. ASSUME NEW r \in Requests, NEW t \in Tokens, Arrive(r, t) PROVE IInv'
  BY <1>0, <1>2, HitKeepsInvariant DEF Arrive
<1>3. ASSUME NEW r \in Requests, Limited(r) PROVE IInv'
  <2>1. Kept(global) \subseteq global /\ IsFiniteSet(Kept(global))
    BY KeptIsFinite DEF IInv
  <2>2. WindowInv'
    BY <1>0, <1>3, <2>1 DEF Limited, IInv, WindowInv, Counted, Kept
  <2>3. GlobalBound'
    BY <1>3 DEF Limited, IInv, GlobalBound
  <2> QED
    BY <2>2, <2>3 DEF IInv
<1>4. ASSUME NEW r \in Requests, Reject(r) PROVE IInv'
  BY <1>0, <1>4, QuietKeepsInvariant DEF Reject
<1>a. free \in Int
  BY DEF SlotInv
<1>5. ASSUME NEW r \in Requests,
             \/ Enter(r) \/ GiveUp(r)
             \/ \E result \in {"ok", "bad", "other", "unreachable"} : Apple(r, result)
      PROVE  IInv'
  <2>1. \E s \in {"sending", "answered"}, n \in Int, k \in Int : Serve([pc EXCEPT ![r] = s], n, k)
    BY <1>a, <1>5 DEF Enter, GiveUp, Apple, GivenBack
  <2>2. PICK s \in {"sending", "answered"}, n \in Int, k \in Int : Serve([pc EXCEPT ![r] = s], n, k)
    BY <2>1
  <2>3. /\ pc' \in [Requests -> Pcs] /\ pc'[r] = s
        /\ \A q \in Requests \ {r} : pc'[q] = pc[q] \/ (pc[q] = "waiting" /\ pc'[q] = "granted")
    BY <2>2, ServedMoves
  <2>4. UNCHANGED <<now, at, global>>
    BY <1>5 DEF Enter, GiveUp, Apple
  <2> QED
    BY <2>3, <2>4, QuietKeepsInvariant
<1>6. CASE Tick
  <2>1. WindowInv'
    BY <1>0, <1>6 DEF Tick, IInv, WindowInv, Counted
  <2>2. GlobalBound'
    BY <1>6 DEF Tick, IInv, GlobalBound
  <2> QED
    BY <2>1, <2>2 DEF IInv
<1>7. CASE UNCHANGED vars
  BY <1>0, <1>7, QuietKeepsInvariant DEF vars
<1> QED
  BY <1>1, <1>2, <1>3, <1>4, <1>5, <1>6, <1>7 DEF Next, Handler

\* Whatever the requests are and however they interleave, no window of the relay
\* lets more of them pass than RELAY_GLOBAL_RATE_LIMIT.
THEOREM GlobalBoundHolds == Spec => []GlobalBound
<1>1. IInv => GlobalBound
  BY DEF IInv
<1> QED
  BY InitSlotInv, NextSlotInv, InitIInv, NextIInv, <1>1, PTL DEF Spec

-----------------------------------------------------------------------------
(* The breaker.                                                            *)

LEMMA InitGateInv == Init => GateInv
BY DEF Init, GateInv, Pcs

LEMMA NextGateInv == SlotInv /\ GateInv /\ [Next]_vars => GateInv'
<1> SUFFICES ASSUME SlotInv, GateInv, [Next]_vars PROVE GateInv'
  OBVIOUS
<1> USE DEF GateInv, Pcs, IsOpen
<1>1. ASSUME NEW r \in Requests, NEW t \in Tokens, Arrive(r, t) PROVE GateInv'
  BY <1>1 DEF Arrive, Refuses
<1>2. ASSUME NEW r \in Requests, Reject(r) \/ Limited(r) \/ \E t \in Tokens : TokenLimited(r, t)
      PROVE  GateInv'
  BY <1>2 DEF Reject, Limited, TokenLimited
<1>a. free \in Int
  BY DEF SlotInv
<1>3. ASSUME NEW r \in Requests,
             \/ Enter(r) \/ GiveUp(r)
             \/ \E result \in {"ok", "bad", "other", "unreachable"} : Apple(r, result)
      PROVE  GateInv'
  <2>1. /\ openUntil' \in Int
        /\ openUntil' = openUntil \/ openUntil' = now + Cooldown
    BY <1>3 DEF Enter, GiveUp, Apple, Recorded
  <2>2. UNCHANGED <<now, at>>
    BY <1>3 DEF Enter, GiveUp, Apple
  <2>3. \E s \in {"sending", "answered"}, n \in Int, k \in Int : Serve([pc EXCEPT ![r] = s], n, k)
    BY <1>a, <1>3 DEF Enter, GiveUp, Apple, GivenBack
  <2>4. PICK s \in {"sending", "answered"}, n \in Int, k \in Int : Serve([pc EXCEPT ![r] = s], n, k)
    BY <2>3
  <2>5. /\ pc' \in [Requests -> Pcs] /\ pc'[r] = s
        /\ \A q \in Requests \ {r} : pc'[q] = pc[q] \/ (pc[q] = "waiting" /\ pc'[q] = "granted")
    BY <2>4, ServedMoves
  <2>6. \A q \in Requests : pc'[q] \in {"waiting", "granted"} => pc[q] \in {"waiting", "granted"}
    BY <2>5
  <2> QED
    BY <2>1, <2>2, <2>5, <2>6
<1>4. CASE Tick
  BY <1>4 DEF Tick
<1>5. CASE UNCHANGED vars
  BY <1>5 DEF vars
<1> QED
  BY <1>1, <1>2, <1>3, <1>4, <1>5 DEF Next, Handler

\* Who enters has passed the breaker now, or has stood at the gate.
LEMMA EntersFrom ==
    ASSUME SlotInv, [Next]_vars, NEW q \in Requests, pc[q] # "sending", pc'[q] = "sending"
    PROVE  pc[q] = "granted" \/ ~IsOpen
<1> USE DEF SlotInv, Pcs
<1>1. ASSUME NEW r \in Requests, NEW t \in Tokens, Arrive(r, t) PROVE pc[q] = "granted" \/ ~IsOpen
  BY <1>1 DEF Arrive, Refuses
<1>2. ASSUME NEW r \in Requests, Reject(r) \/ Limited(r) \/ \E t \in Tokens : TokenLimited(r, t)
      PROVE  FALSE
  BY <1>2 DEF Reject, Limited, TokenLimited
<1>3. ASSUME NEW r \in Requests, Enter(r) PROVE pc[q] = "granted" \/ ~IsOpen
  <2>1. pc[r] = "granted" /\ Serve([pc EXCEPT ![r] = "sending"], free, free)
    BY <1>3 DEF Enter
  <2>2. \A p \in Requests \ {r} : pc'[p] = pc[p] \/ (pc[p] = "waiting" /\ pc'[p] = "granted")
    BY <2>1, ServedMoves
  <2> QED
    BY <2>1, <2>2
<1>4. ASSUME NEW r \in Requests,
             GiveUp(r) \/ \E result \in {"ok", "bad", "other", "unreachable"} : Apple(r, result)
      PROVE  FALSE
  <2>1. PICK n \in Int, k \in Int : Serve([pc EXCEPT ![r] = "answered"], n, k)
    BY <1>4 DEF GiveUp, Apple, GivenBack
  <2>2. /\ pc'[r] = "answered"
        /\ \A p \in Requests \ {r} : pc'[p] = pc[p] \/ (pc[p] = "waiting" /\ pc'[p] = "granted")
    BY <2>1, ServedMoves
  <2> QED
    BY <2>2
<1>5. CASE Tick \/ UNCHANGED vars
  BY <1>5 DEF Tick, vars
<1> QED
  BY <1>1, <1>2, <1>3, <1>4, <1>5 DEF Next, Handler

\* Once Apple has called enough tokens bad, a flood of them reaches it no more: what
\* still passes stood at the gate when the breaker opened, and for no longer than the
\* gate lets wait.
THEOREM BreakerHoldsFast == Spec => BreakerHolds
<1>1. ASSUME SlotInv, GateInv, [Next]_vars, NEW r \in Requests,
             pc[r] # "sending", pc'[r] = "sending", IsOpen
      PROVE  now <= openUntil - Cooldown + AcquireTimeout
  <2>1. pc[r] = "granted"
    BY <1>1, EntersFrom
  <2> QED
    BY <1>1, <2>1 DEF GateInv
<1>2. SlotInv /\ GateInv /\ [Next]_vars =>
        [\A r \in Requests : pc[r] # "sending" /\ pc'[r] = "sending" /\ IsOpen =>
            now <= openUntil - Cooldown + AcquireTimeout]_vars
  BY <1>1
<1> QED
  BY <1>2, InitSlotInv, NextSlotInv, InitGateInv, NextGateInv, PTL DEF Spec, BreakerHolds

=============================================================================
