---------------------------- MODULE EventBusProofs ----------------------------
(***************************************************************************)
(* Events reach a subscriber once, in their publisher's order, and none is *)
(* missed without an excuse: for any number of publishers, runs, events,   *)
(* subscriptions and faults, and every window.                             *)
(***************************************************************************)
EXTENDS EventBus, FiniteSetTheorems, FunctionTheorems, SequenceTheorems, TLAPS

-----------------------------------------------------------------------------
(* The ids of a set in order.                                              *)

\* How many members of S lie at or below i.
Rank(S, i) == Cardinality({k \in S : k <= i})

\* Ranks are positions, and higher ids have higher ranks.
LEMMA RankOrder ==
  ASSUME NEW S \in SUBSET Nat, IsFiniteSet(S)
  PROVE  /\ \A i \in S : Rank(S, i) \in 1 .. Cardinality(S)
         /\ \A i, k \in S : i < k => Rank(S, i) < Rank(S, k)
<1>1. \A i \in S : /\ {k \in S : k <= i} \in SUBSET S /\ IsFiniteSet({k \in S : k <= i})
                   /\ Rank(S, i) \in Nat /\ Rank(S, i) <= Cardinality(S)
  BY FS_Subset, FS_CardinalityType DEF Rank
<1>2. \A i \in S : Rank(S, i) # 0
  <2> SUFFICES ASSUME NEW i \in S PROVE Rank(S, i) # 0
    OBVIOUS
  <2>1. i \in {k \in S : k <= i}
    OBVIOUS
  <2> QED BY <1>1, <2>1, FS_EmptySet DEF Rank
<1>3. \A i \in S : Rank(S, i) \in 1 .. Cardinality(S)
  <2>1. Cardinality(S) \in Nat
    BY FS_CardinalityType
  <2> SUFFICES ASSUME NEW i \in S PROVE Rank(S, i) \in 1 .. Cardinality(S)
    OBVIOUS
  <2>2. Rank(S, i) \in Nat /\ Rank(S, i) <= Cardinality(S) /\ Rank(S, i) # 0
    BY <1>1, <1>2
  <2> QED BY <2>1, <2>2
<1>4. ASSUME NEW i \in S, NEW k \in S, i < k PROVE Rank(S, i) < Rank(S, k)
  <2> DEFINE A == {x \in S : x <= i}
             B == {x \in S : x <= k}
  <2>0. i \in Nat /\ k \in Nat /\ \A x \in S : x \in Nat
    OBVIOUS
  <2>1. k <= k /\ ~(k <= i) /\ \A x \in S : x <= i => x <= k
    BY <1>4, <2>0
  <2>2. A \in SUBSET B /\ k \in B /\ k \notin A
    BY <2>1, Zenon
  <2>3. IsFiniteSet(B) /\ Cardinality(A) \in Nat /\ Cardinality(B) \in Nat
    BY <1>1 DEF Rank
  <2>4. Cardinality(A) <= Cardinality(B) /\ (Cardinality(B) = Cardinality(A) => B = A)
    BY <2>2, <2>3, FS_Subset
  <2> QED BY <2>2, <2>3, <2>4 DEF Rank
<1> QED BY <1>3, <1>4

\* Every position is the rank of a member.
LEMMA RankOnto ==
  ASSUME NEW S \in SUBSET Nat, IsFiniteSet(S)
  PROVE  \A n \in 1 .. Cardinality(S) : \E i \in S : Rank(S, i) = n
<1> DEFINE N == 1 .. Cardinality(S)
           f == [i \in S |-> Rank(S, i)]
<1>1. Cardinality(S) \in Nat
  BY FS_CardinalityType
<1>2. IsFiniteSet(N) /\ Cardinality(N) = Cardinality(S)
  <2>1. Cardinality(S) \in Int /\ 1 \in Int
    BY <1>1
  <2>2. IsFiniteSet(1 .. Cardinality(S)) /\ Cardinality(1 .. Cardinality(S)) =
          IF 1 > Cardinality(S) THEN 0 ELSE Cardinality(S) - 1 + 1
    BY <2>1, FS_Interval
  <2> QED BY <1>1, <2>2
<1>3. f \in [S -> N]
  BY RankOrder
<1>4. \A i, k \in S : f[i] = f[k] => i = k
  <2> SUFFICES ASSUME NEW i \in S, NEW k \in S, i # k PROVE f[i] # f[k]
    OBVIOUS
  <2>1. i < k \/ k < i
    OBVIOUS
  <2>2. Rank(S, i) \in Nat /\ Rank(S, k) \in Nat
    BY RankOrder
  <2>3. Rank(S, i) < Rank(S, k) \/ Rank(S, k) < Rank(S, i)
    BY <2>1, RankOrder
  <2> QED BY <2>2, <2>3
<1>5. f \in Injection(S, N)
  BY <1>3, <1>4, Fun_IsInj
<1>6. f \in Surjection(S, N)
  BY <1>2, <1>5, FS_Injection
<1>7. \A n \in N : \E i \in S : f[i] = n
  <2> HIDE DEF f, N
  <2> QED BY <1>6, Fun_SurjectionProperties
<1> QED BY <1>7

\* InIdOrder lists each id of a finite set once, lowest first.
LEMMA InIdOrderSorts ==
  ASSUME NEW S \in SUBSET Nat, IsFiniteSet(S)
  PROVE  /\ InIdOrder(S) \in Seq(S) /\ Len(InIdOrder(S)) = Cardinality(S)
         /\ Cardinality(S) \in Nat
         /\ \A n \in 1 .. Cardinality(S) : InIdOrder(S)[n] \in S
         /\ \A m, n \in 1 .. Cardinality(S) : m < n => InIdOrder(S)[m] < InIdOrder(S)[n]
         /\ \A i \in S : \E n \in 1 .. Cardinality(S) : InIdOrder(S)[n] = i
<1> DEFINE s == InIdOrder(S)
           N == 1 .. Cardinality(S)
<1>1. Cardinality(S) \in Nat
  BY FS_CardinalityType
<1>2. s = [n \in N |-> CHOOSE i \in S : Rank(S, i) = n]
  BY DEF InIdOrder, Rank
<1>3. \A n \in N : s[n] \in S /\ Rank(S, s[n]) = n
  <2> SUFFICES ASSUME NEW n \in N PROVE s[n] \in S /\ Rank(S, s[n]) = n
    OBVIOUS
  <2>1. \E i \in S : Rank(S, i) = n
    BY RankOnto
  <2>2. s[n] = CHOOSE i \in S : Rank(S, i) = n
    BY <1>2
  <2> HIDE DEF s
  <2> QED BY <2>1, <2>2
<1> HIDE DEF s
<1>4. s \in [N -> S]
  BY <1>2, <1>3
<1>5. s \in Seq(S) /\ Len(s) = Cardinality(S)
  BY <1>1, <1>4
<1>6. \A m, n \in N : m < n => s[m] < s[n]
  <2> SUFFICES ASSUME NEW m \in N, NEW n \in N, m < n, ~(s[m] < s[n]) PROVE FALSE
    OBVIOUS
  <2>0. s[m] \in Nat /\ s[n] \in Nat
    BY <1>3
  <2>1. s[n] < s[m] \/ s[n] = s[m]
    BY <2>0
  <2>2. n < m \/ n = m
    BY <1>3, <2>1, RankOrder
  <2> QED BY <1>1, <2>2
<1>7. \A i \in S : \E n \in N : s[n] = i
  <2> SUFFICES ASSUME NEW i \in S PROVE s[Rank(S, i)] = i /\ Rank(S, i) \in N
    OBVIOUS
  <2>1. Rank(S, i) \in N
    BY RankOrder
  <2>2. s[Rank(S, i)] \in S /\ Rank(S, s[Rank(S, i)]) = Rank(S, i)
    BY <1>3, <2>1
  <2> DEFINE k == s[Rank(S, i)]
  <2>3. k \in S /\ Rank(S, k) = Rank(S, i)
    BY <2>2
  <2> HIDE DEF k
  <2>4. k \in Nat /\ i \in Nat /\ Rank(S, i) \in Nat
    BY <1>1, <2>1, <2>3
  <2>5. ~(k < i) /\ ~(i < k)
    BY <2>3, <2>4, RankOrder
  <2>6. k = i
    BY <2>4, <2>5
  <2> QED BY <2>1, <2>6 DEF k
<1> QED BY <1>1, <1>3, <1>5, <1>6, <1>7 DEF s

\* Two ids are finitely many.
LEMMA PairFinite == ASSUME NEW a, NEW b PROVE IsFiniteSet({a, b})
<1>1. IsFiniteSet({a})
  BY FS_Singleton
<1>2. IsFiniteSet({a} \cup {b})
  BY <1>1, FS_AddElement
<1>3. {a, b} = {a} \cup {b}
  OBVIOUS
<1> QED BY <1>2, <1>3

\* A finite set of numbers has a greatest.
LEMMA MaxIs ==
  ASSUME NEW S \in SUBSET Nat, IsFiniteSet(S), S # {}
  PROVE  Max(S) \in S /\ \A i \in S : i <= Max(S)
<1>1. Cardinality(S) \in Nat /\ Cardinality(S) # 0
  BY FS_CardinalityType, FS_EmptySet
<1>2. PICK x \in S : Rank(S, x) = Cardinality(S)
  BY <1>1, RankOnto
<1>3. {k \in S : k <= x} = S
  <2>1. {k \in S : k <= x} \in SUBSET S /\ Cardinality(S) = Cardinality({k \in S : k <= x})
    BY <1>2 DEF Rank
  <2> QED BY <2>1, FS_Subset
<1>4. \A k \in S : x >= k
  BY <1>3
<1> QED BY <1>4 DEF Max

\* A sequence whose members lie in a set is a sequence over that set.
LEMMA SeqOfWithin ==
  ASSUME NEW S, NEW T, NEW s \in Seq(S), \A n \in 1 .. Len(s) : s[n] \in T
  PROVE  s \in Seq(T)
<1>1. Len(s) \in Nat /\ s \in [1 .. Len(s) -> T]
  OBVIOUS
<1> QED BY <1>1

\* The lesser of two numbers.
LEMMA MinIs ==
  ASSUME NEW a \in Int, NEW b \in Int
  PROVE  Min({a, b}) \in {a, b} /\ Min({a, b}) <= a /\ Min({a, b}) <= b
<1>1. \E x \in {a, b} : \A y \in {a, b} : x =< y
  <2>1. CASE a <= b
    BY <2>1
  <2>2. CASE b <= a
    BY <2>2
  <2> QED BY <2>1, <2>2
<1> QED BY <1>1 DEF Min
-----------------------------------------------------------------------------
(* The publishers' side: buffers, transactions and rows.                   *)

Event == [job : Jobs, pub : Pubs]
PubOf(i) == events[row[i]].pub

QueueShape ==
    /\ events \in Seq(Event) /\ Len(events) <= MaxEvents
    /\ pending \in [Pubs -> Seq(Nat)] /\ \A p \in Pubs : Len(pending[p]) <= MaxPending
    /\ row \in Seq(Nat) /\ flight \in [Pubs -> SUBSET Nat]

\* A buffer holds its publisher's events in order, all of them newer than the
\* ones that were given an id.
Buffered(p) ==
    \A m \in 1 .. Len(pending[p]) :
        /\ pending[p][m] \in 1 .. Len(events) /\ events[pending[p][m]].pub = p
        /\ \A n \in 1 .. Len(pending[p]) : m < n => pending[p][m] < pending[p][n]
        /\ \A i \in 1 .. Len(row) : PubOf(i) = p => row[i] < pending[p][m]

\* Ids follow the order of each publisher.
Numbered ==
    /\ \A i \in 1 .. Len(row) : row[i] \in 1 .. Len(events)
    /\ \A i, k \in 1 .. Len(row) : i < k /\ PubOf(i) = PubOf(k) => row[i] < row[k]

\* An open transaction holds ids above all that its publisher committed.
Flying(p) ==
    \A i \in flight[p] : /\ i \in 1 .. Len(row) /\ i \notin visible /\ PubOf(i) = p
                         /\ \A k \in visible : PubOf(k) = p => k < i

Queued == /\ QueueShape /\ Numbered /\ visible \subseteq 1 .. Len(row)
          /\ \A p \in Pubs : Buffered(p) /\ Flying(p)

\* Nothing is queued at first.
LEMMA QueuedInit == Init => Queued
<1> SUFFICES ASSUME Init PROVE Queued
  OBVIOUS
<1>1. QueueShape
  BY BusAssumption DEF Init, QueueShape
<1>2. Len(row) = 0 /\ \A p \in Pubs : Len(pending[p]) = 0 /\ flight[p] = {}
  BY DEF Init
<1> QED BY <1>1, <1>2 DEF Init, Queued, Numbered, Buffered, Flying

\* What Publish makes of the buffer: it may lose its first event.
LEMMA PublishEffect ==
  ASSUME Queued, NEW p \in Pubs, NEW j \in Jobs, Publish(p, j)
  PROVE  /\ events' \in Seq(Event) /\ Len(events') = Len(events) + 1 /\ Len(events) < MaxEvents
         /\ \A e \in 1 .. Len(events) : events'[e] = events[e]
         /\ events'[Len(events) + 1].pub = p
         /\ pending' \in [Pubs -> Seq(Nat)]
         /\ \A q \in Pubs \ {p} : pending'[q] = pending[q]
         /\ \E d \in {0, 1} :
              /\ Len(pending'[p]) = Len(pending[p]) - d + 1
              /\ Len(pending'[p]) <= MaxPending
              /\ \A m \in 1 .. Len(pending[p]) - d : pending'[p][m] = pending[p][m + d]
              /\ pending'[p][Len(pending[p]) - d + 1] = Len(events) + 1
              /\ d = 1 => pending[p] # <<>>
              /\ dropped' = IF d = 1 THEN dropped \cup {pending[p][1]} ELSE dropped
         /\ UNCHANGED <<flight, row, visible, notices, listener, sub, subs, excused, faults>>
<1>0. /\ events \in Seq(Event) /\ pending[p] \in Seq(Nat) /\ Len(pending[p]) \in Nat
      /\ Len(pending[p]) <= MaxPending /\ MaxPending \in Nat \ {0} /\ Len(events) \in Nat
  BY BusAssumption DEF Queued, QueueShape
<1>1. events' = Append(events, [job |-> j, pub |-> p]) /\ [job |-> j, pub |-> p] \in Event
  BY DEF Publish, Event
<1>2. /\ events' \in Seq(Event) /\ Len(events') = Len(events) + 1
      /\ \A e \in 1 .. Len(events) : events'[e] = events[e]
      /\ events'[Len(events) + 1].pub = p
  BY <1>0, <1>1
<1>3. CASE Len(pending[p]) >= MaxPending
  <2>1. pending' = [pending EXCEPT ![p] = Append(Tail(pending[p]), Len(events) + 1)]
        /\ dropped' = dropped \cup {Head(pending[p])}
    BY <1>2, <1>3 DEF Publish
  <2>2. /\ pending[p] # <<>> /\ Tail(pending[p]) \in Seq(Nat)
        /\ Len(Tail(pending[p])) = Len(pending[p]) - 1 /\ Head(pending[p]) = pending[p][1]
        /\ \A m \in 1 .. Len(pending[p]) - 1 : Tail(pending[p])[m] = pending[p][m + 1]
    BY <1>0, <1>3
  <2>3. pending'[p] = Append(Tail(pending[p]), Len(events) + 1)
    BY <2>1 DEF Queued, QueueShape
  <2>4. /\ pending'[p] \in Seq(Nat) /\ Len(pending'[p]) = Len(pending[p])
        /\ \A m \in 1 .. Len(pending[p]) - 1 : pending'[p][m] = pending[p][m + 1]
        /\ pending'[p][Len(pending[p])] = Len(events) + 1
    BY <1>0, <2>2, <2>3
  <2>5. pending' \in [Pubs -> Seq(Nat)] /\ \A q \in Pubs \ {p} : pending'[q] = pending[q]
    BY <2>1, <2>3, <2>4 DEF Queued, QueueShape
  <2>6. /\ Len(pending'[p]) = Len(pending[p]) - 1 + 1
        /\ Len(pending'[p]) <= MaxPending
        /\ pending'[p][Len(pending[p]) - 1 + 1] = Len(events) + 1
    BY <1>0, <2>4
  <2>7. \E d \in {0, 1} :
          /\ Len(pending'[p]) = Len(pending[p]) - d + 1
          /\ Len(pending'[p]) <= MaxPending
          /\ \A m \in 1 .. Len(pending[p]) - d : pending'[p][m] = pending[p][m + d]
          /\ pending'[p][Len(pending[p]) - d + 1] = Len(events) + 1
          /\ d = 1 => pending[p] # <<>>
          /\ dropped' = IF d = 1 THEN dropped \cup {pending[p][1]} ELSE dropped
    <3> WITNESS 1 \in {0, 1}
    <3> QED BY <2>1, <2>2, <2>4, <2>6
  <2> QED BY <1>2, <2>5, <2>7 DEF Publish
<1>4. CASE ~(Len(pending[p]) >= MaxPending)
  <2>1. pending' = [pending EXCEPT ![p] = Append(pending[p], Len(events) + 1)] /\ dropped' = dropped
    BY <1>2, <1>4 DEF Publish
  <2>2. pending'[p] = Append(pending[p], Len(events) + 1)
    BY <2>1 DEF Queued, QueueShape
  <2>3. /\ pending'[p] \in Seq(Nat) /\ Len(pending'[p]) = Len(pending[p]) + 1
        /\ \A m \in 1 .. Len(pending[p]) : pending'[p][m] = pending[p][m]
        /\ pending'[p][Len(pending[p]) + 1] = Len(events) + 1
    BY <1>0, <2>2
  <2>4. pending' \in [Pubs -> Seq(Nat)] /\ \A q \in Pubs \ {p} : pending'[q] = pending[q]
    BY <2>1, <2>3 DEF Queued, QueueShape
  <2>5. /\ Len(pending'[p]) = Len(pending[p]) - 0 + 1
        /\ Len(pending'[p]) <= MaxPending
        /\ \A m \in 1 .. Len(pending[p]) - 0 : pending'[p][m] = pending[p][m + 0]
        /\ pending'[p][Len(pending[p]) - 0 + 1] = Len(events) + 1
    BY <1>0, <1>4, <2>3
  <2>6. \E d \in {0, 1} :
          /\ Len(pending'[p]) = Len(pending[p]) - d + 1
          /\ Len(pending'[p]) <= MaxPending
          /\ \A m \in 1 .. Len(pending[p]) - d : pending'[p][m] = pending[p][m + d]
          /\ pending'[p][Len(pending[p]) - d + 1] = Len(events) + 1
          /\ d = 1 => pending[p] # <<>>
          /\ dropped' = IF d = 1 THEN dropped \cup {pending[p][1]} ELSE dropped
    <3> WITNESS 0 \in {0, 1}
    <3> QED BY <2>1, <2>5
  <2> QED BY <1>2, <2>4, <2>6 DEF Publish
<1> QED BY <1>3, <1>4

\* What Flush makes of the buffer and the rows: the first n events get the next ids.
LEMMA FlushEffect ==
  ASSUME Queued, NEW p \in Pubs, Flush(p)
  PROVE  \E n \in 1 .. Len(pending[p]) :
           /\ row' \in Seq(Nat) /\ Len(row') = Len(row) + n
           /\ \A i \in 1 .. Len(row) : row'[i] = row[i]
           /\ \A m \in 1 .. n : row'[Len(row) + m] = pending[p][m]
           /\ pending' \in [Pubs -> Seq(Nat)]
           /\ \A q \in Pubs \ {p} : pending'[q] = pending[q]
           /\ Len(pending'[p]) = Len(pending[p]) - n
           /\ \A m \in 1 .. Len(pending[p]) - n : pending'[p][m] = pending[p][m + n]
           /\ flight[p] = {} /\ flight' = [flight EXCEPT ![p] = Len(row) + 1 .. Len(row) + n]
           /\ UNCHANGED <<events, visible, notices, listener, sub, subs, excused, dropped, faults>>
<1>0. /\ row \in Seq(Nat) /\ pending[p] \in Seq(Nat) /\ Len(pending[p]) \in Nat /\ Len(row) \in Nat
      /\ pending[p] # <<>> /\ MaxBatch \in Nat \ {0}
  BY BusAssumption DEF Queued, QueueShape, Flush
<1>1. Len(pending[p]) # 0
  BY <1>0
<1> DEFINE s == pending[p]
           n == Min({Len(pending[p]), MaxBatch})
<1>2. n \in 1 .. Len(s)
  <2>1. Len(pending[p]) \in Int /\ MaxBatch \in Int
    BY <1>0
  <2>2. n \in {Len(pending[p]), MaxBatch} /\ n <= Len(pending[p])
    BY <2>1, MinIs
  <2> HIDE DEF n
  <2> QED BY <1>0, <1>1, <2>2
<1>3. /\ row' = row \o SubSeq(s, 1, n)
      /\ flight' = [flight EXCEPT ![p] = Len(row) + 1 .. Len(row) + n]
      /\ pending' = [pending EXCEPT ![p] = SubSeq(s, n + 1, Len(s))]
      /\ flight[p] = {}
      /\ UNCHANGED <<events, visible, notices, listener, sub, subs, excused, dropped, faults>>
  BY DEF Flush
<1> HIDE DEF n
<1>4. /\ SubSeq(s, 1, n) \in Seq(Nat) /\ Len(SubSeq(s, 1, n)) = n
      /\ \A m \in 1 .. n : SubSeq(s, 1, n)[m] = s[m]
  BY <1>0, <1>2
<1>5. /\ SubSeq(s, n + 1, Len(s)) \in Seq(Nat) /\ Len(SubSeq(s, n + 1, Len(s))) = Len(s) - n
      /\ \A m \in 1 .. Len(s) - n : SubSeq(s, n + 1, Len(s))[m] = s[m + n]
  BY <1>0, <1>2
<1>6. /\ row' \in Seq(Nat) /\ Len(row') = Len(row) + n
      /\ \A i \in 1 .. Len(row) : row'[i] = row[i]
      /\ \A m \in 1 .. n : row'[Len(row) + m] = s[m]
  BY <1>0, <1>2, <1>3, <1>4, ConcatProperties
<1>7. pending'[p] = SubSeq(s, n + 1, Len(s)) /\ \A q \in Pubs \ {p} : pending'[q] = pending[q]
  BY <1>3 DEF Queued, QueueShape
<1>8. pending' \in [Pubs -> Seq(Nat)]
  BY <1>3, <1>5 DEF Queued, QueueShape
<1> QED BY <1>2, <1>3, <1>5, <1>6, <1>7, <1>8

\* A published event goes to the end of the queue.
LEMMA QueuedPublish ==
  ASSUME Queued, NEW p \in Pubs, NEW j \in Jobs, Publish(p, j)
  PROVE  Queued'
<1>0. /\ Len(events) \in Nat /\ Len(row) \in Nat /\ Len(pending[p]) \in Nat
      /\ MaxEvents \in Nat
  BY BusAssumption DEF Queued, QueueShape
<1>1. /\ events' \in Seq(Event) /\ Len(events') = Len(events) + 1 /\ Len(events) < MaxEvents
      /\ \A e \in 1 .. Len(events) : events'[e] = events[e]
      /\ events'[Len(events) + 1].pub = p
      /\ pending' \in [Pubs -> Seq(Nat)]
      /\ \A q \in Pubs \ {p} : pending'[q] = pending[q]
      /\ UNCHANGED <<flight, row, visible>>
  BY PublishEffect
<1>2. PICK d \in {0, 1} :
              /\ Len(pending'[p]) = Len(pending[p]) - d + 1
              /\ Len(pending'[p]) <= MaxPending
              /\ \A m \in 1 .. Len(pending[p]) - d : pending'[p][m] = pending[p][m + d]
              /\ pending'[p][Len(pending[p]) - d + 1] = Len(events) + 1
  BY PublishEffect
<1>3. QueueShape'
  <2>1. \A q \in Pubs : Len(pending'[q]) <= MaxPending
    BY <1>1, <1>2 DEF Queued, QueueShape
  <2>2. Len(events') <= MaxEvents
    BY <1>0, <1>1
  <2> QED BY <1>1, <2>1, <2>2 DEF Queued, QueueShape
<1>4. \A i \in 1 .. Len(row) : row[i] \in 1 .. Len(events) /\ PubOf(i)' = PubOf(i)
  BY <1>1 DEF Queued, Numbered, PubOf
<1>5. Numbered'
  BY <1>0, <1>1, <1>4 DEF Queued, Numbered
<1>6. \A q \in Pubs : Flying(q)'
  BY <1>1, <1>4 DEF Queued, Flying
<1>7. ASSUME NEW q \in Pubs \ {p} PROVE Buffered(q)'
  <2>1. pending'[q] = pending[q] /\ Buffered(q)
    BY <1>1 DEF Queued
  <2>2. \A e \in 1 .. Len(events) : e \in 1 .. Len(events') /\ events'[e] = events[e]
    BY <1>0, <1>1
  <2>3. row' = row
    BY <1>1
  <2> QED BY <1>4, <2>1, <2>2, <2>3 DEF Buffered
<1>8. Buffered(p)'
  <2> DEFINE L == Len(pending[p]) - d
  <2>1. L \in Int /\ L + 1 = Len(pending'[p]) /\ Buffered(p)
    BY <1>0, <1>2 DEF Queued
  <2>2. ASSUME NEW m \in 1 .. L
        PROVE  /\ m + d \in 1 .. Len(pending[p]) /\ pending'[p][m] = pending[p][m + d]
               /\ pending'[p][m] \in 1 .. Len(events)
               /\ events[pending'[p][m]].pub = p
               /\ \A i \in 1 .. Len(row) : PubOf(i) = p => row[i] < pending'[p][m]
    <3>1. m + d \in 1 .. Len(pending[p])
      <4>1. m \in Int /\ 1 <= m /\ m <= Len(pending[p]) - d
        BY <1>0, <1>2
      <4> QED BY <1>0, <1>2, <4>1
    <3>2. pending'[p][m] = pending[p][m + d]
      BY <1>2
    <3>3. /\ pending[p][m + d] \in 1 .. Len(events) /\ events[pending[p][m + d]].pub = p
          /\ \A i \in 1 .. Len(row) : PubOf(i) = p => row[i] < pending[p][m + d]
      BY <2>1, <3>1 DEF Buffered
    <3> QED BY <3>1, <3>2, <3>3
  <2>3. \A m, n \in 1 .. L : m < n => pending'[p][m] < pending'[p][n]
    <3> SUFFICES ASSUME NEW m \in 1 .. L, NEW n \in 1 .. L, m < n
                 PROVE  pending'[p][m] < pending'[p][n]
      OBVIOUS
    <3>1. m + d < n + d
      BY <1>2
    <3> QED BY <2>1, <2>2, <3>1 DEF Buffered
  <2>4. pending'[p][L + 1] = Len(events) + 1
    BY <1>2
  <2>5. ASSUME NEW m \in 1 .. L + 1
        PROVE  /\ pending'[p][m] \in 1 .. Len(events') /\ events'[pending'[p][m]].pub = p
               /\ \A n \in 1 .. L + 1 : m < n => pending'[p][m] < pending'[p][n]
               /\ \A i \in 1 .. Len(row') : PubOf(i)' = p => row'[i] < pending'[p][m]
    <3>1. CASE m = L + 1
      <4>1. pending'[p][m] = Len(events) + 1
        BY <2>4, <3>1
      <4>2. pending'[p][m] \in 1 .. Len(events') /\ events'[pending'[p][m]].pub = p
        BY <1>0, <1>1, <4>1
      <4>3. \A n \in 1 .. L + 1 : ~(m < n)
        BY <2>1, <3>1
      <4>4. \A i \in 1 .. Len(row') : row'[i] < pending'[p][m]
        BY <1>0, <1>1, <1>4, <4>1
      <4> QED BY <4>2, <4>3, <4>4
    <3>2. CASE m \in 1 .. L
      <4>1. pending'[p][m] \in 1 .. Len(events) /\ events[pending'[p][m]].pub = p
        BY <2>2, <3>2
      <4>2. pending'[p][m] \in 1 .. Len(events') /\ events'[pending'[p][m]].pub = p
        BY <1>0, <1>1, <4>1
      <4>3. ASSUME NEW n \in 1 .. L + 1, m < n PROVE pending'[p][m] < pending'[p][n]
        <5>1. CASE n = L + 1
          BY <1>0, <2>4, <4>1, <5>1
        <5>2. CASE n \in 1 .. L
          BY <2>3, <3>2, <4>3, <5>2
        <5> QED BY <2>1, <5>1, <5>2
      <4>4. \A i \in 1 .. Len(row') : PubOf(i)' = p => row'[i] < pending'[p][m]
        BY <1>1, <1>4, <2>2, <3>2
      <4> QED BY <4>2, <4>3, <4>4
    <3> QED BY <2>1, <3>1, <3>2
  <2> QED BY <2>1, <2>5 DEF Buffered
<1> QED BY <1>1, <1>3, <1>5, <1>6, <1>7, <1>8 DEF Queued

\* A flush takes the front of the buffer, whose rows draw the next ids.
LEMMA QueuedFlush ==
  ASSUME Queued, NEW p \in Pubs, Flush(p)
  PROVE  Queued'
<1>0. /\ Len(events) \in Nat /\ Len(row) \in Nat /\ Len(pending[p]) \in Nat
      /\ flight \in [Pubs -> SUBSET Nat] /\ visible \subseteq 1 .. Len(row) /\ Buffered(p)
      /\ MaxPending \in Nat /\ Len(pending[p]) <= MaxPending
      /\ \A i \in 1 .. Len(row) : row[i] \in 1 .. Len(events)
  BY BusAssumption DEF Queued, QueueShape, Numbered
<1>1. PICK n \in 1 .. Len(pending[p]) :
           /\ row' \in Seq(Nat) /\ Len(row') = Len(row) + n
           /\ \A i \in 1 .. Len(row) : row'[i] = row[i]
           /\ \A m \in 1 .. n : row'[Len(row) + m] = pending[p][m]
           /\ pending' \in [Pubs -> Seq(Nat)]
           /\ \A q \in Pubs \ {p} : pending'[q] = pending[q]
           /\ Len(pending'[p]) = Len(pending[p]) - n
           /\ \A m \in 1 .. Len(pending[p]) - n : pending'[p][m] = pending[p][m + n]
           /\ flight[p] = {} /\ flight' = [flight EXCEPT ![p] = Len(row) + 1 .. Len(row) + n]
           /\ UNCHANGED <<events, visible>>
  BY FlushEffect
<1>2. \A i \in 1 .. Len(row) : row'[i] = row[i] /\ PubOf(i)' = PubOf(i)
  BY <1>1 DEF PubOf
<1>3. ASSUME NEW i \in Len(row) + 1 .. Len(row')
      PROVE  /\ i - Len(row) \in 1 .. n /\ i - Len(row) \in 1 .. Len(pending[p])
             /\ row'[i] = pending[p][i - Len(row)]
             /\ row'[i] \in 1 .. Len(events) /\ PubOf(i)' = p
  <2>1. i - Len(row) \in 1 .. n /\ i - Len(row) \in 1 .. Len(pending[p]) /\ Len(row) + (i - Len(row)) = i
    BY <1>0, <1>1
  <2>2. row'[i] = pending[p][i - Len(row)]
    BY <1>1, <2>1
  <2> QED BY <1>0, <1>1, <2>1, <2>2 DEF Buffered, PubOf
<1>4. QueueShape'
  <2>1. \A q \in Pubs : Len(pending'[q]) <= MaxPending
    <3>1. Len(pending'[p]) <= MaxPending
      BY <1>0, <1>1
    <3> QED BY <1>1, <3>1 DEF Queued, QueueShape
  <2>2. flight' \in [Pubs -> SUBSET Nat]
    BY <1>0, <1>1
  <2> QED BY <1>1, <2>1, <2>2 DEF Queued, QueueShape
<1>5. \A i \in 1 .. Len(row') : i \in 1 .. Len(row) \/ i \in Len(row) + 1 .. Len(row')
  BY <1>0, <1>1
<1>6. Numbered'
  <2>1. \A i \in 1 .. Len(row') : row'[i] \in 1 .. Len(events')
    BY <1>0, <1>1, <1>2, <1>3, <1>5
  <2>2. ASSUME NEW i \in 1 .. Len(row'), NEW k \in 1 .. Len(row'), i < k, PubOf(i)' = PubOf(k)'
        PROVE  row'[i] < row'[k]
    <3>1. CASE k \in 1 .. Len(row)
      <4>1. i \in 1 .. Len(row)
        BY <1>0, <2>2, <3>1
      <4> QED BY <1>2, <2>2, <3>1, <4>1 DEF Queued, Numbered
    <3>2. CASE k \in Len(row) + 1 .. Len(row') /\ i \in 1 .. Len(row)
      <4>1. PubOf(i) = p /\ row'[i] = row[i]
        BY <1>2, <1>3, <2>2, <3>2
      <4> QED BY <1>0, <1>3, <3>2, <4>1 DEF Buffered
    <3>3. CASE k \in Len(row) + 1 .. Len(row') /\ i \in Len(row) + 1 .. Len(row')
      <4>1. i - Len(row) < k - Len(row)
        BY <1>0, <2>2, <3>3
      <4> QED BY <1>0, <1>3, <3>3, <4>1 DEF Buffered
    <3> QED BY <1>5, <3>1, <3>2, <3>3
  <2> QED BY <2>1, <2>2 DEF Numbered
<1>7. visible' \subseteq 1 .. Len(row')
  BY <1>0, <1>1
<1>8. \A k \in visible : PubOf(k)' = PubOf(k) /\ k \in Nat /\ k <= Len(row)
  BY <1>0, <1>2
<1>9. ASSUME NEW q \in Pubs PROVE Flying(q)'
  <2>1. CASE q = p
    <3>1. flight'[p] = Len(row) + 1 .. Len(row')
      BY <1>0, <1>1
    <3> SUFFICES ASSUME NEW i \in Len(row) + 1 .. Len(row')
                 PROVE  /\ i \in 1 .. Len(row') /\ i \notin visible /\ PubOf(i)' = p
                        /\ \A k \in visible : k < i
      BY <1>1, <2>1, <3>1 DEF Flying
    <3>2. i \in 1 .. Len(row') /\ i > Len(row)
      BY <1>0, <1>1
    <3>3. \A k \in visible : k < i /\ k # i
      BY <1>0, <1>8, <3>2
    <3> QED BY <1>3, <3>2, <3>3
  <2>2. CASE q # p
    <3>1. flight'[q] = flight[q] /\ Flying(q)
      BY <1>0, <1>1, <2>2 DEF Queued
    <3>2. \A i \in flight[q] : i \in 1 .. Len(row) /\ i \in 1 .. Len(row') /\ PubOf(i)' = q
      BY <1>0, <1>1, <1>2, <3>1 DEF Flying
    <3> QED BY <1>1, <1>8, <3>1, <3>2 DEF Flying
  <2> QED BY <2>1, <2>2
<1>10. ASSUME NEW q \in Pubs PROVE Buffered(q)'
  <2>1. CASE q # p
    <3>1. pending'[q] = pending[q] /\ Buffered(q)
      BY <1>1, <2>1 DEF Queued
    <3>2. \A i \in 1 .. Len(row') : PubOf(i)' = q => i \in 1 .. Len(row) /\ row'[i] = row[i] /\ PubOf(i) = q
      BY <1>2, <1>3, <1>5, <2>1
    <3> QED BY <1>1, <3>1, <3>2 DEF Buffered
  <2>2. CASE q = p
    <3> SUFFICES ASSUME NEW m \in 1 .. Len(pending'[p])
                 PROVE  /\ pending'[p][m] \in 1 .. Len(events) /\ events[pending'[p][m]].pub = p
                        /\ \A k \in 1 .. Len(pending'[p]) : m < k => pending'[p][m] < pending'[p][k]
                        /\ \A i \in 1 .. Len(row') : PubOf(i)' = p => row'[i] < pending'[p][m]
      BY <1>1, <2>2 DEF Buffered
    <3>1. \A k \in 1 .. Len(pending'[p]) : k + n \in 1 .. Len(pending[p]) /\ pending'[p][k] = pending[p][k + n]
      <4>1. Len(pending'[p]) = Len(pending[p]) - n
        BY <1>1
      <4>2. \A k \in 1 .. Len(pending'[p]) : k + n \in 1 .. Len(pending[p])
        BY <1>0, <4>1
      <4> QED BY <1>1, <4>1, <4>2
    <3>2. pending'[p][m] \in 1 .. Len(events) /\ events[pending'[p][m]].pub = p
      BY <1>0, <3>1 DEF Buffered
    <3>3. \A k \in 1 .. Len(pending'[p]) : m < k => m + n < k + n
      BY <1>1
    <3>4. \A k \in 1 .. Len(pending'[p]) : m < k => pending'[p][m] < pending'[p][k]
      BY <1>0, <3>1, <3>3 DEF Buffered
    <3>5. ASSUME NEW i \in 1 .. Len(row'), PubOf(i)' = p PROVE row'[i] < pending'[p][m]
      <4>1. CASE i \in 1 .. Len(row)
        BY <1>0, <1>2, <3>1, <3>5, <4>1 DEF Buffered
      <4>2. CASE i \in Len(row) + 1 .. Len(row')
        <5>1. i - Len(row) < m + n
          BY <1>0, <1>1, <1>3, <4>2
        <5> QED BY <1>0, <1>3, <3>1, <4>2, <5>1 DEF Buffered
      <4> QED BY <1>5, <4>1, <4>2
    <3> QED BY <3>2, <3>4, <3>5
  <2> QED BY <2>1, <2>2
<1> QED BY <1>4, <1>6, <1>7, <1>9, <1>10 DEF Queued

\* A commit shows rows that come after those of its publisher seen before.
LEMMA QueuedCommit ==
  ASSUME Queued, NEW p \in Pubs, Commit(p)
  PROVE  Queued'
<1>1. /\ UNCHANGED <<events, pending, row>> /\ visible' = visible \cup flight[p]
      /\ flight' = [flight EXCEPT ![p] = {}]
  BY DEF Commit
<1>2. /\ QueueShape /\ Numbered /\ flight \in [Pubs -> SUBSET Nat] /\ visible \subseteq 1 .. Len(row)
      /\ \A q \in Pubs : Buffered(q) /\ Flying(q)
  BY DEF Queued, QueueShape
<1>3. QueueShape' /\ Numbered' /\ \A q \in Pubs : Buffered(q)'
  BY <1>1, <1>2 DEF QueueShape, Numbered, Buffered, PubOf
<1>4. visible' \subseteq 1 .. Len(row')
  BY <1>1, <1>2 DEF Flying
<1>5. ASSUME NEW q \in Pubs PROVE Flying(q)'
  <2>1. CASE q = p
    <3>1. flight'[q] = {}
      BY <1>1, <1>2, <2>1
    <3> QED BY <3>1 DEF Flying
  <2>2. CASE q # p
    <3>1. flight'[q] = flight[q]
      BY <1>1, <1>2, <2>2
    <3>2. \A i \in flight[p] : PubOf(i) = p
      BY <1>2 DEF Flying
    <3> SUFFICES ASSUME NEW i \in flight[q]
                 PROVE  /\ i \in 1 .. Len(row) /\ i \notin visible' /\ PubOf(i) = q
                        /\ \A k \in visible' : PubOf(k) = q => k < i
      BY <1>1, <3>1 DEF Flying, PubOf
    <3>3. /\ i \in 1 .. Len(row) /\ i \notin visible /\ PubOf(i) = q
          /\ \A k \in visible : PubOf(k) = q => k < i
      BY <1>2 DEF Flying
    <3>4. i \notin flight[p]
      BY <2>2, <3>2, <3>3
    <3>5. \A k \in visible' : PubOf(k) = q => k \in visible
      BY <1>1, <2>2, <3>2
    <3> QED BY <1>1, <3>3, <3>4, <3>5
  <2> QED BY <2>1, <2>2
<1> QED BY <1>3, <1>4, <1>5 DEF Queued

\* A failed write loses the batch and reorders nothing.
LEMMA QueuedWriteFails ==
  ASSUME Queued, NEW p \in Pubs, WriteFails(p)
  PROVE  Queued'
<1>1. /\ UNCHANGED <<events, pending, row, visible>>
      /\ flight' = [flight EXCEPT ![p] = {}]
  BY DEF WriteFails
<1>2. /\ QueueShape /\ Numbered /\ flight \in [Pubs -> SUBSET Nat] /\ visible \subseteq 1 .. Len(row)
      /\ \A q \in Pubs : Buffered(q) /\ Flying(q)
  BY DEF Queued, QueueShape
<1>3. QueueShape' /\ Numbered' /\ visible' \subseteq 1 .. Len(row') /\ \A q \in Pubs : Buffered(q)'
  BY <1>1, <1>2 DEF QueueShape, Numbered, Buffered, PubOf
<1>4. \A q \in Pubs : flight'[q] \subseteq flight[q]
  BY <1>1, <1>2
<1>5. \A q \in Pubs : Flying(q)'
  BY <1>1, <1>2, <1>4 DEF Flying, PubOf
<1> QED BY <1>3, <1>5 DEF Queued

\* The readers' steps leave the publishers' side alone.
LEMMA QueuedStep == Queued /\ [Next]_vars => Queued'
<1> SUFFICES ASSUME Queued, [Next]_vars PROVE Queued'
  OBVIOUS
<1>1. ASSUME UNCHANGED <<events, pending, flight, row, visible>> PROVE Queued'
  BY <1>1 DEF Queued, QueueShape, Numbered, Buffered, Flying, PubOf
<1>2. ASSUME NEW j \in Jobs, Subscribe(j) \/ Unsubscribe(j) \/ Read(j) PROVE Queued'
  BY <1>1, <1>2 DEF Subscribe, Unsubscribe, Read
<1>3. CASE Listen \/ Disconnect \/ Skip \/ Notice \/ DrainNew \/ DrainFails
  BY <1>1, <1>3 DEF Listen, Disconnect, Skip, Notice, DrainNew, DrainFails
<1>4. CASE UNCHANGED vars
  BY <1>1, <1>4 DEF vars
<1> QED BY <1>2, <1>3, <1>4, QueuedPublish, QueuedFlush, QueuedCommit, QueuedWriteFails DEF Next

\* No event is given two ids, so there are no more ids than events.
LEMMA RowFits == ASSUME Queued PROVE Len(row) \in Nat /\ Len(row) <= Len(events)
<1> DEFINE R == 1 .. Len(row)
           E == 1 .. Len(events)
           f == [i \in R |-> row[i]]
<1>1. Len(row) \in Nat /\ Len(events) \in Nat
  BY DEF Queued, QueueShape
<1>2. f \in [R -> E] /\ \A i \in R : f[i] = row[i]
  BY DEF Queued, Numbered
<1>3. \A i, k \in R : f[i] = f[k] => i = k
  <2> SUFFICES ASSUME NEW i \in R, NEW k \in R, i < k PROVE row[i] # row[k]
    BY <1>1, <1>2
  <2>1. row[i] \in Nat /\ row[k] \in Nat
    BY DEF Queued, Numbered
  <2>2. PubOf(i) = PubOf(k) => row[i] < row[k]
    BY DEF Queued, Numbered
  <2>3. row[i] = row[k] => PubOf(i) = PubOf(k)
    BY DEF PubOf
  <2> QED BY <2>1, <2>2, <2>3
<1>4. f \in Injection(R, E)
  BY <1>2, <1>3, Fun_IsInj
<1>5. /\ IsFiniteSet(R) /\ Cardinality(R) = Len(row) /\ IsFiniteSet(E) /\ Cardinality(E) = Len(events)
  <2>1. 1 \in Int /\ Len(row) \in Int /\ Len(events) \in Int
    BY <1>1
  <2>2. /\ IsFiniteSet(1 .. Len(row))
        /\ Cardinality(1 .. Len(row)) = IF 1 > Len(row) THEN 0 ELSE Len(row) - 1 + 1
    BY <2>1, FS_Interval
  <2>3. /\ IsFiniteSet(1 .. Len(events))
        /\ Cardinality(1 .. Len(events)) = IF 1 > Len(events) THEN 0 ELSE Len(events) - 1 + 1
    BY <2>1, FS_Interval
  <2> QED BY <1>1, <2>2, <2>3
<1>6. Cardinality(R) <= Cardinality(E)
  <2> HIDE DEF f, R, E
  <2> QED BY <1>4, <1>5, FS_Injection
<1> QED BY <1>1, <1>5, <1>6

-----------------------------------------------------------------------------
(* The reader's side: the listener and its subscribers.                    *)

Subscriber == [on : BOOLEAN, since : Nat, unread : 0 .. ChanCap, got : Seq(Nat)]

ReadShape ==
    /\ notices \in Seq(Nat) /\ \A a \in 1 .. Len(notices) : notices[a] \in visible
    /\ listener \in [pc : {"off", "drain", "wait"}, lastSeen : Nat, seen : SUBSET Nat]
    /\ listener.seen \subseteq visible /\ listener.lastSeen \in visible \cup {0}
    /\ sub \in [Jobs -> Subscriber] /\ \A j \in Jobs : sub[j].since <= Len(events)
    /\ subs \in 0 .. MaxSubs /\ faults \in 0 .. MaxFaults
    /\ excused \subseteq visible /\ dropped \subseteq 1 .. Len(events)

\* The listener has no reason to hand out the id again.
Done(i) == i \in listener.seen \/ i + Window <= listener.lastSeen

\* Nobody has read anything at first.
LEMMA ReadShapeInit == Init => ReadShape
<1> SUFFICES ASSUME Init PROVE ReadShape
  OBVIOUS
<1>1. NoSub \in Subscriber /\ NoSub.since = 0
  BY BusAssumption DEF NoSub, Subscriber
<1> QED BY <1>1, BusAssumption DEF Init, ReadShape

\* What is visible is an id, and so finite.
LEMMA VisibleIds ==
  ASSUME Queued
  PROVE  /\ visible \in SUBSET Nat /\ IsFiniteSet(visible)
         /\ \A i \in visible : i \in 1 .. Len(row) /\ row[i] \in 1 .. Len(events) /\ row[i] \in Nat
<1>1. visible \in SUBSET (1 .. Len(row)) /\ Len(row) \in Int /\ 1 \in Int
  BY DEF Queued, QueueShape
<1>2. IsFiniteSet(1 .. Len(row))
  BY <1>1, FS_Interval
<1>3. IsFiniteSet(visible)
  BY <1>1, <1>2, FS_Subset
<1>4. visible \in SUBSET Nat
  BY <1>1
<1>5. \A i \in visible : i \in 1 .. Len(row)
  BY <1>1
<1>6. \A i \in 1 .. Len(row) : row[i] \in 1 .. Len(events)
  BY DEF Queued, Numbered
<1>7. \A x \in 1 .. Len(events) : x \in Nat
  BY DEF Queued, QueueShape
<1> QED BY <1>3, <1>4, <1>5, <1>6, <1>7

\* A notice about a run nobody watches moves lastSeen up to its id at most.
LEMMA SkipEffect ==
  ASSUME Queued, ReadShape, Skip
  PROVE  /\ notices # <<>> /\ Head(notices) \in visible /\ notices' = Tail(notices)
         /\ ~sub[JobOf(Head(notices))].on
         /\ listener' \in [pc : {"off", "drain", "wait"}, lastSeen : Nat, seen : SUBSET Nat]
         /\ listener.pc = "wait" /\ listener'.pc = "wait"
         /\ listener'.lastSeen \in {Head(notices), listener.lastSeen}
         /\ listener'.seen \subseteq listener.seen \cup {Head(notices)}
         /\ \A i \in visible : Done(i) => Done(i)'
         /\ \A i \in visible : ~Done(i) /\ i # Head(notices) /\ Head(notices) < i + Window => ~Done(i)'
         /\ UNCHANGED <<events, pending, flight, row, visible, sub, subs, excused, dropped, faults>>
<1> DEFINE h == Head(notices)
           last == Max({h, listener.lastSeen})
           seen == listener.seen \cup {h}
<1>1. /\ listener.pc = "wait" /\ notices # <<>> /\ notices' = Tail(notices)
      /\ ~sub[JobOf(h)].on
      /\ listener' = [listener EXCEPT !.lastSeen = last,
                          !.seen = IF h <= listener.lastSeen THEN seen ELSE Pruned(seen, last)]
      /\ UNCHANGED <<events, pending, flight, row, visible, sub, subs, excused, dropped, faults>>
  BY DEF Skip
<1>2. /\ listener \in [pc : {"off", "drain", "wait"}, lastSeen : Nat, seen : SUBSET Nat]
      /\ h \in visible /\ Window \in Nat \ {0} /\ listener.lastSeen \in Nat
      /\ listener.seen \subseteq Nat
  <2>1. /\ listener \in [pc : {"off", "drain", "wait"}, lastSeen : Nat, seen : SUBSET Nat]
        /\ notices \in Seq(Nat) /\ \A a \in 1 .. Len(notices) : notices[a] \in visible
    BY DEF ReadShape
  <2>2. h = notices[1] /\ 1 \in 1 .. Len(notices)
    BY <1>1, <2>1
  <2>3. h \in visible
    BY <2>1, <2>2
  <2> QED BY <2>1, <2>3, BusAssumption
<1>3. h \in Nat /\ \A i \in visible : i \in Nat
  BY <1>2, VisibleIds
<1>4. last \in {h, listener.lastSeen} /\ h <= last /\ listener.lastSeen <= last
  <2>1. {h, listener.lastSeen} \in SUBSET Nat /\ {h, listener.lastSeen} # {}
    BY <1>2, <1>3
  <2>2. IsFiniteSet({h, listener.lastSeen})
    BY PairFinite
  <2> QED BY <2>1, <2>2, MaxIs
<1> HIDE DEF h, last
<1>5. \E new : /\ listener' = [listener EXCEPT !.lastSeen = last, !.seen = new]
               /\ new \subseteq seen
               /\ \A i \in Nat : i \in seen => i \in new \/ i + Window <= last
  <2>1. CASE h <= listener.lastSeen
    BY <1>1, <2>1
  <2>2. CASE ~(h <= listener.lastSeen)
    <3>1. listener' = [listener EXCEPT !.lastSeen = last, !.seen = Pruned(seen, last)]
      BY <1>1, <2>2
    <3>2. Pruned(seen, last) \subseteq seen
      BY DEF Pruned
    <3>3. last \in Nat
      BY <1>2, <1>3, <1>4
    <3>4. \A i \in Nat : i \in seen => i \in Pruned(seen, last) \/ i + Window <= last
      BY <1>2, <3>3 DEF Pruned
    <3> QED BY <3>1, <3>2, <3>4
  <2> QED BY <2>1, <2>2
<1>6. PICK new : /\ listener' = [listener EXCEPT !.lastSeen = last, !.seen = new]
                 /\ new \subseteq seen
                 /\ \A i \in Nat : i \in seen => i \in new \/ i + Window <= last
  BY <1>5
<1>7. /\ listener'.pc = "wait" /\ listener'.lastSeen = last /\ listener'.seen = new
      /\ last \in Nat /\ new \subseteq Nat
      /\ listener' \in [pc : {"off", "drain", "wait"}, lastSeen : Nat, seen : SUBSET Nat]
  <2>1. last \in Nat
    BY <1>2, <1>3, <1>4
  <2>2. seen \subseteq Nat
    BY <1>2, <1>3
  <2>3. new \subseteq Nat
    BY <1>6, <2>2
  <2>4. listener'.pc = "wait" /\ listener'.lastSeen = last /\ listener'.seen = new
    BY <1>1, <1>2, <1>6
  <2>5. listener' \in [pc : {"off", "drain", "wait"}, lastSeen : Nat, seen : SUBSET Nat]
    BY <1>2, <1>6, <2>1, <2>3
  <2> QED BY <2>1, <2>3, <2>4, <2>5
<1>8. \A i \in visible : Done(i) => Done(i)'
  <2> SUFFICES ASSUME NEW i \in visible, Done(i) PROVE i \in new \/ i + Window <= last
    BY <1>7 DEF Done
  <2>1. i \in Nat /\ (i \in seen \/ i + Window <= listener.lastSeen)
    BY <1>3 DEF Done
  <2> QED BY <1>2, <1>4, <1>6, <1>7, <2>1
<1>9. \A i \in visible : ~Done(i) /\ i # h /\ h < i + Window => ~Done(i)'
  <2> SUFFICES ASSUME NEW i \in visible, ~Done(i), i # h, h < i + Window
               PROVE  i \notin new /\ ~(i + Window <= last)
    BY <1>7 DEF Done
  <2>1. i \in Nat /\ i \notin listener.seen /\ ~(i + Window <= listener.lastSeen)
    BY <1>3 DEF Done
  <2>2. i \notin new
    BY <1>6, <2>1
  <2>3. ~(i + Window <= last)
    BY <1>2, <1>3, <1>4, <2>1
  <2> QED BY <2>2, <2>3
<1> QED BY <1>1, <1>2, <1>4, <1>6, <1>7, <1>8, <1>9 DEF h

\* The query returns the rows of watched runs that the listener is not done with.
LEMMA UnseenIs ==
  ASSUME Queued, ReadShape
  PROVE  /\ Unseen \in SUBSET Nat /\ IsFiniteSet(Unseen) /\ Unseen \subseteq visible
         /\ \A i \in visible : JobOf(i) \in Jobs
         /\ \A i \in visible : i \in Unseen <=> ~Done(i) /\ sub[JobOf(i)].on
<1>1. /\ visible \in SUBSET Nat /\ IsFiniteSet(visible)
      /\ \A i \in visible : i \in 1 .. Len(row) /\ row[i] \in 1 .. Len(events)
  BY VisibleIds
<1>2. Unseen \in SUBSET visible
  BY DEF Unseen
<1>3. IsFiniteSet(Unseen)
  BY <1>1, <1>2, FS_Subset
<1>4. ASSUME NEW i \in visible PROVE JobOf(i) \in Jobs
  <2>1. events \in Seq(Event) /\ row[i] \in 1 .. Len(events)
    BY <1>1 DEF Queued, QueueShape
  <2>2. events[row[i]] \in Event
    BY <2>1
  <2> QED BY <2>2 DEF JobOf, Event
<1>5. ASSUME NEW i \in visible PROVE i \in Unseen <=> ~Done(i) /\ sub[JobOf(i)].on
  <2>1. i \in Nat /\ listener.lastSeen \in Nat /\ Window \in Nat
    BY <1>1, BusAssumption DEF ReadShape
  <2>2. i + Window > listener.lastSeen <=> ~(i + Window <= listener.lastSeen)
    BY <2>1
  <2>3. JobOf(i) \in Watching <=> sub[JobOf(i)].on
    BY <1>4 DEF Watching
  <2> QED BY <2>2, <2>3 DEF Unseen, Done
<1> QED BY <1>1, <1>2, <1>3, <1>4, <1>5

\* The new rows of a run, each once and lowest first, and how many the channel takes.
LEMMA NewsIs ==
  ASSUME Queued, ReadShape, NEW j \in Jobs
  PROVE  /\ Len(News(j)) \in Nat /\ Room(j) \in 0 .. Len(News(j))
         /\ sub[j].unread + Room(j) \in 0 .. ChanCap
         /\ \A n \in 1 .. Len(News(j)) : News(j)[n] \in Unseen /\ JobOf(News(j)[n]) = j
         /\ \A m, n \in 1 .. Len(News(j)) : m < n => News(j)[m] < News(j)[n]
         /\ \A i \in Unseen : JobOf(i) = j => \E n \in 1 .. Len(News(j)) : News(j)[n] = i
<1> DEFINE S == {i \in Unseen : JobOf(i) = j}
<1>1. S \in SUBSET Nat /\ IsFiniteSet(S) /\ S \in SUBSET Unseen
  BY UnseenIs, FS_Subset
<1>2. News(j) = InIdOrder(S)
  BY DEF News
<1> HIDE DEF S
<1>3. /\ InIdOrder(S) \in Seq(S) /\ Len(InIdOrder(S)) = Cardinality(S)
      /\ Cardinality(S) \in Nat
      /\ \A n \in 1 .. Cardinality(S) : InIdOrder(S)[n] \in S
      /\ \A m, n \in 1 .. Cardinality(S) : m < n => InIdOrder(S)[m] < InIdOrder(S)[n]
      /\ \A i \in S : \E n \in 1 .. Cardinality(S) : InIdOrder(S)[n] = i
  BY <1>1, InIdOrderSorts
<1>4. /\ Len(News(j)) \in Nat
      /\ \A n \in 1 .. Len(News(j)) : News(j)[n] \in S
      /\ \A m, n \in 1 .. Len(News(j)) : m < n => News(j)[m] < News(j)[n]
      /\ \A i \in S : \E n \in 1 .. Len(News(j)) : News(j)[n] = i
  BY <1>2, <1>3
<1>5. sub[j].unread \in 0 .. ChanCap /\ ChanCap \in Nat
  BY BusAssumption DEF ReadShape, Subscriber
<1>6. Room(j) \in 0 .. Len(News(j)) /\ sub[j].unread + Room(j) \in 0 .. ChanCap
  <2> DEFINE a == Len(News(j))
             b == ChanCap - sub[j].unread
  <2>1. a \in Nat /\ b \in Nat
    BY <1>4, <1>5
  <2>2. Room(j) = Min({a, b})
    BY DEF Room
  <2>3. Min({a, b}) \in {a, b} /\ Min({a, b}) <= a /\ Min({a, b}) <= b
    <3> HIDE DEF a, b
    <3>1. a \in Int /\ b \in Int
      BY <2>1
    <3> QED BY <3>1, MinIs
  <2>4. Room(j) \in Nat /\ Room(j) <= a /\ Room(j) <= b
    BY <2>1, <2>2, <2>3
  <2> QED BY <1>4, <1>5, <2>4
<1> QED BY <1>4, <1>6 DEF S

\* What drainNew does: each new row goes to its subscriber or is dropped, and the
\* listener is done with all of them.
LEMMA DrainNewEffect ==
  ASSUME Queued, ReadShape, DrainNew
  PROVE  /\ listener' \in [pc : {"off", "drain", "wait"}, lastSeen : Nat, seen : SUBSET Nat]
         /\ listener'.pc = "wait" /\ listener'.lastSeen \in visible \cup {0}
         /\ listener'.seen \subseteq visible
         /\ \A i \in visible : Done(i) \/ i \in Unseen => Done(i)'
         /\ sub' \in [Jobs -> Subscriber]
         /\ \A j \in Jobs :
              /\ sub'[j].on = sub[j].on /\ sub'[j].since = sub[j].since
              /\ Len(sub[j].got) \in Nat /\ Len(sub'[j].got) = Len(sub[j].got) + Room(j)
              /\ \A n \in 1 .. Len(sub[j].got) : sub'[j].got[n] = sub[j].got[n]
              /\ \A n \in 1 .. Room(j) : sub'[j].got[Len(sub[j].got) + n] = row[News(j)[n]]
              /\ \A n \in Room(j) + 1 .. Len(News(j)) : row[News(j)[n]] \in dropped'
         /\ dropped \subseteq dropped' /\ dropped' \subseteq 1 .. Len(events)
         /\ UNCHANGED <<events, pending, flight, row, visible, notices, subs, excused, faults>>
<1> DEFINE last == Max(Unseen \cup {listener.lastSeen})
           new == IF Watching = {} THEN listener.seen ELSE Pruned(listener.seen \cup Unseen, last)
           G(j) == [n \in 1 .. Room(j) |-> row[News(j)[n]]]
           D == UNION {{row[News(j)[n]] : n \in Room(j) + 1 .. Len(News(j))} : j \in Jobs}
<1>1. /\ listener' = [pc |-> "wait", lastSeen |-> last, seen |-> new]
      /\ sub' = [j \in Jobs |-> [sub[j] EXCEPT !.unread = @ + Room(j), !.got = @ \o G(j)]]
      /\ dropped' = dropped \cup D
      /\ UNCHANGED <<events, pending, flight, row, visible, notices, subs, excused, faults>>
  BY DEF DrainNew
<1>2. /\ listener.lastSeen \in Nat /\ listener.lastSeen \in visible \cup {0}
      /\ listener.seen \subseteq visible /\ Window \in Nat
      /\ visible \in SUBSET Nat /\ Unseen \in SUBSET Nat /\ IsFiniteSet(Unseen) /\ Unseen \subseteq visible
  BY VisibleIds, UnseenIs, BusAssumption DEF ReadShape
<1>3. last \in Unseen \cup {listener.lastSeen} /\ listener.lastSeen <= last
  <2>1. Unseen \cup {listener.lastSeen} \in SUBSET Nat
    BY <1>2
  <2>2. IsFiniteSet(Unseen \cup {listener.lastSeen})
    BY <1>2, FS_AddElement
  <2> QED BY <2>1, <2>2, MaxIs
<1> HIDE DEF last
<1>4. last \in Nat /\ last \in visible \cup {0}
  BY <1>2, <1>3
<1>5. /\ new \subseteq listener.seen \cup Unseen
      /\ \A i \in listener.seen \cup Unseen : i \in new \/ i + Window <= last
  <2>1. CASE Watching = {}
    <3>1. Unseen = {}
      BY <2>1 DEF Unseen
    <3> QED BY <2>1, <3>1
  <2>2. CASE Watching # {}
    <3>1. \A i \in listener.seen \cup Unseen : i \in Nat
      BY <1>2
    <3>2. new = Pruned(listener.seen \cup Unseen, last)
      BY <2>2
    <3> QED BY <1>2, <1>4, <3>1, <3>2 DEF Pruned
  <2> QED BY <2>1, <2>2
<1> HIDE DEF new
<1>6. /\ listener' \in [pc : {"off", "drain", "wait"}, lastSeen : Nat, seen : SUBSET Nat]
      /\ listener'.pc = "wait" /\ listener'.lastSeen = last /\ listener'.seen = new
      /\ new \subseteq visible
  <2>1. new \subseteq visible /\ new \subseteq Nat
    BY <1>2, <1>5
  <2> QED BY <1>1, <1>4, <2>1
<1>7. \A i \in visible : Done(i) \/ i \in Unseen => Done(i)'
  <2> SUFFICES ASSUME NEW i \in visible, Done(i) \/ i \in Unseen
               PROVE  i \in new \/ i + Window <= last
    BY <1>6 DEF Done
  <2>1. i \in listener.seen \cup Unseen \/ i + Window <= listener.lastSeen
    BY DEF Done
  <2>2. i \in Nat
    BY <1>2
  <2> QED BY <1>2, <1>3, <1>4, <1>5, <2>1, <2>2
<1>8. ASSUME NEW j \in Jobs
      PROVE  /\ sub'[j] \in Subscriber
             /\ sub'[j].on = sub[j].on /\ sub'[j].since = sub[j].since
             /\ Len(sub[j].got) \in Nat /\ Len(sub'[j].got) = Len(sub[j].got) + Room(j)
             /\ \A n \in 1 .. Len(sub[j].got) : sub'[j].got[n] = sub[j].got[n]
             /\ \A n \in 1 .. Room(j) : sub'[j].got[Len(sub[j].got) + n] = row[News(j)[n]]
  <2> DEFINE r == Room(j)
             g == G(j)
             s == sub[j].got
  <2>1. sub[j] \in Subscriber /\ s \in Seq(Nat) /\ Len(s) \in Nat
    BY DEF ReadShape, Subscriber
  <2>2. /\ Len(News(j)) \in Nat /\ r \in 0 .. Len(News(j)) /\ sub[j].unread + r \in 0 .. ChanCap
        /\ \A n \in 1 .. Len(News(j)) : News(j)[n] \in Unseen
    BY NewsIs
  <2>3. r \in Nat /\ \A n \in 1 .. r : n \in 1 .. Len(News(j))
    BY <2>2
  <2>4. \A n \in 1 .. r : row[News(j)[n]] \in Nat
    BY <1>2, <2>2, <2>3, VisibleIds
  <2>5. g \in Seq(Nat) /\ Len(g) = r /\ \A n \in 1 .. r : g[n] = row[News(j)[n]]
    <3>1. g = [n \in 1 .. r |-> row[News(j)[n]]]
      OBVIOUS
    <3> HIDE DEF g
    <3>2. g \in [1 .. r -> Nat]
      BY <2>4, <3>1
    <3> QED BY <2>3, <3>1, <3>2
  <2>6. sub'[j] = [sub[j] EXCEPT !.unread = sub[j].unread + r, !.got = s \o g]
    BY <1>1
  <2> HIDE DEF g, r
  <2>7. /\ s \o g \in Seq(Nat) /\ Len(s \o g) = Len(s) + r
        /\ \A n \in 1 .. Len(s) : (s \o g)[n] = s[n]
        /\ \A n \in 1 .. r : (s \o g)[Len(s) + n] = g[n]
    <3> HIDE DEF s
    <3>1. s \in Seq(Nat) /\ g \in Seq(Nat) /\ Len(s) \in Nat /\ Len(g) = r /\ r \in Nat
      BY <2>1, <2>3, <2>5
    <3>2. s \o g \in Seq(Nat) /\ Len(s \o g) = Len(s) + r
      BY <3>1
    <3>3. \A n \in 1 .. Len(s) : (s \o g)[n] = s[n]
      BY <3>1
    <3>4. \A n \in 1 .. r : (s \o g)[Len(s) + n] = g[n]
      BY <3>1
    <3> QED BY <3>2, <3>3, <3>4
  <2>8. sub'[j] \in Subscriber
    BY <2>1, <2>2, <2>6, <2>7 DEF Subscriber
  <2>9. sub'[j].on = sub[j].on /\ sub'[j].since = sub[j].since /\ sub'[j].got = s \o g
    BY <2>1, <2>6 DEF Subscriber
  <2> QED BY <2>1, <2>5, <2>7, <2>8, <2>9 DEF r
<1>9. sub' \in [Jobs -> Subscriber]
  BY <1>1, <1>8
<1>10. \A j \in Jobs : \A n \in Room(j) + 1 .. Len(News(j)) : row[News(j)[n]] \in dropped'
  <2> SUFFICES ASSUME NEW j \in Jobs, NEW n \in Room(j) + 1 .. Len(News(j))
               PROVE  row[News(j)[n]] \in D
    BY <1>1
  <2>1. row[News(j)[n]] \in {row[News(j)[k]] : k \in Room(j) + 1 .. Len(News(j))}
    OBVIOUS
  <2> QED BY <2>1, Zenon
<1>11. dropped \subseteq dropped' /\ dropped' \subseteq 1 .. Len(events)
  <2>1. dropped \subseteq 1 .. Len(events)
    BY DEF ReadShape
  <2>2. ASSUME NEW j \in Jobs, NEW n \in Room(j) + 1 .. Len(News(j))
        PROVE  row[News(j)[n]] \in 1 .. Len(events)
    <3>1. n \in 1 .. Len(News(j))
      BY <2>2, NewsIs
    <3>2. News(j)[n] \in visible
      BY <1>2, <3>1, NewsIs
    <3> QED BY <3>2, VisibleIds
  <2>3. D \subseteq 1 .. Len(events)
    BY <2>2
  <2> HIDE DEF D
  <2> QED BY <1>1, <2>1, <2>3
<1> QED BY <1>1, <1>4, <1>6, <1>7, <1>8, <1>9, <1>10, <1>11

\* What a commit announces: its ids, lowest first, behind the notices waiting.
LEMMA CommitEffect ==
  ASSUME Queued, ReadShape, NEW p \in Pubs, Commit(p)
  PROVE  /\ \A i \in flight[p] : /\ i \in 1 .. Len(row) /\ i \in Nat /\ i \notin visible /\ PubOf(i) = p
                                 /\ \A k \in visible : PubOf(k) = p => k < i
         /\ Len(notices) \in Nat /\ notices' \in Seq(Nat) /\ Len(notices') >= Len(notices)
         /\ \A a \in 1 .. Len(notices) : notices'[a] = notices[a]
         /\ \A a \in Len(notices) + 1 .. Len(notices') : notices'[a] \in flight[p]
         /\ \A a, b \in Len(notices) + 1 .. Len(notices') : a < b => notices'[a] < notices'[b]
         /\ listener.pc # "off" => \A i \in flight[p] : \E a \in 1 .. Len(notices') : notices'[a] = i
         /\ visible' = visible \cup flight[p]
         /\ excused' = excused \cup {i \in flight[p] : \E k \in visible : k >= i + Window}
         /\ UNCHANGED <<events, pending, row, listener, sub, subs, dropped, faults>>
<1> DEFINE F == flight[p]
           s == InIdOrder(flight[p])
<1>1. ASSUME NEW i \in F
      PROVE  /\ i \in 1 .. Len(row) /\ i \in Nat /\ i \notin visible /\ PubOf(i) = p
             /\ \A k \in visible : PubOf(k) = p => k < i
  <2>1. Flying(p) /\ flight[p] \in SUBSET Nat
    BY DEF Queued, QueueShape
  <2> QED BY <2>1 DEF Flying
<1>2. F \in SUBSET Nat /\ IsFiniteSet(F)
  <2>1. F \in SUBSET (1 .. Len(row)) /\ 1 \in Int /\ Len(row) \in Int
    BY <1>1 DEF Queued, QueueShape
  <2>2. IsFiniteSet(1 .. Len(row))
    BY <2>1, FS_Interval
  <2> QED BY <1>1, <2>1, <2>2, FS_Subset
<1> HIDE DEF F
<1>3. /\ InIdOrder(F) \in Seq(F) /\ Len(InIdOrder(F)) = Cardinality(F)
      /\ Cardinality(F) \in Nat
      /\ \A n \in 1 .. Cardinality(F) : InIdOrder(F)[n] \in F
      /\ \A m, n \in 1 .. Cardinality(F) : m < n => InIdOrder(F)[m] < InIdOrder(F)[n]
      /\ \A i \in F : \E n \in 1 .. Cardinality(F) : InIdOrder(F)[n] = i
  BY <1>2, InIdOrderSorts
<1>4. s = InIdOrder(F)
  BY DEF F
<1> HIDE DEF s
<1>5. /\ s \in Seq(Nat) /\ Len(s) \in Nat
      /\ \A n \in 1 .. Len(s) : s[n] \in F
      /\ \A m, n \in 1 .. Len(s) : m < n => s[m] < s[n]
      /\ \A i \in F : \E n \in 1 .. Len(s) : s[n] = i
  <2>1. s \in Seq(F) /\ Len(s) = Cardinality(F)
    BY <1>3, <1>4
  <2>2. s \in Seq(Nat)
    BY <1>2, <2>1, SeqMonotonic
  <2> QED BY <1>3, <1>4, <2>1, <2>2
<1>6. notices \in Seq(Nat) /\ Len(notices) \in Nat
  BY DEF ReadShape
<1>7. /\ notices' = IF listener.pc = "off" THEN notices ELSE notices \o s
      /\ visible' = visible \cup flight[p]
      /\ excused' = excused \cup {i \in flight[p] : \E k \in visible : k >= i + Window}
      /\ UNCHANGED <<events, pending, row, listener, sub, subs, dropped, faults>>
  BY DEF Commit, s
<1>8. /\ notices' \in Seq(Nat) /\ Len(notices') >= Len(notices)
      /\ \A a \in 1 .. Len(notices) : notices'[a] = notices[a]
      /\ \A a \in Len(notices) + 1 .. Len(notices') : notices'[a] \in F
      /\ \A a, b \in Len(notices) + 1 .. Len(notices') : a < b => notices'[a] < notices'[b]
      /\ listener.pc # "off" => \A i \in F : \E a \in 1 .. Len(notices') : notices'[a] = i
  <2>1. CASE listener.pc = "off"
    <3>1. notices' = notices
      BY <1>7, <2>1
    <3>2. Len(notices) + 1 .. Len(notices) = {}
      BY <1>6
    <3> QED BY <1>6, <2>1, <3>1, <3>2
  <2>2. CASE listener.pc # "off"
    <3>1. notices' = notices \o s
      BY <1>7, <2>2
    <3>2. notices' \in Seq(Nat) /\ Len(notices') = Len(notices) + Len(s)
      BY <1>5, <1>6, <3>1
    <3>3. \A a \in 1 .. Len(notices) : notices'[a] = notices[a]
      BY <1>5, <1>6, <3>1
    <3>4. \A a \in Len(notices) + 1 .. Len(notices') :
             a - Len(notices) \in 1 .. Len(s) /\ notices'[a] = s[a - Len(notices)]
      BY <1>5, <1>6, <3>1, <3>2
    <3>5. \A a, b \in Len(notices) + 1 .. Len(notices') : a < b => notices'[a] < notices'[b]
      <4> SUFFICES ASSUME NEW a \in Len(notices) + 1 .. Len(notices'),
                          NEW b \in Len(notices) + 1 .. Len(notices'), a < b
                   PROVE  notices'[a] < notices'[b]
        OBVIOUS
      <4>1. a - Len(notices) < b - Len(notices)
        BY <1>6, <3>2
      <4> QED BY <1>5, <3>4, <4>1
    <3>6. ASSUME NEW i \in F PROVE \E a \in 1 .. Len(notices') : notices'[a] = i
      <4>1. PICK n \in 1 .. Len(s) : s[n] = i
        BY <1>5
      <4>2. Len(notices) + n \in 1 .. Len(notices')
        BY <1>5, <1>6, <3>2
      <4>3. notices'[Len(notices) + n] = s[n]
        BY <1>5, <1>6, <3>1
      <4> QED BY <4>1, <4>2, <4>3
    <3>7. Len(notices') >= Len(notices)
      BY <1>5, <1>6, <3>2
    <3>8. \A a \in Len(notices) + 1 .. Len(notices') : notices'[a] \in F
      BY <1>5, <3>4
    <3> QED BY <3>2, <3>3, <3>5, <3>6, <3>7, <3>8
  <2> QED BY <2>1, <2>2
<1> QED BY <1>1, <1>6, <1>7, <1>8 DEF F

\* A notice taken: the others move up by one.
LEMMA TakeNotice ==
  ASSUME ReadShape, notices # <<>>, notices' = Tail(notices)
  PROVE  /\ notices' \in Seq(Nat) /\ Len(notices) \in Nat /\ Len(notices') = Len(notices) - 1
         /\ Head(notices) = notices[1] /\ 1 \in 1 .. Len(notices)
         /\ \A a \in 1 .. Len(notices') : a + 1 \in 1 .. Len(notices) /\ notices'[a] = notices[a + 1]
<1>1. notices \in Seq(Nat) /\ notices # <<>>
  BY DEF ReadShape
<1>2. Tail(notices) \in Seq(Nat) /\ Len(Tail(notices)) = Len(notices) - 1 /\ Len(notices) \in Nat
  BY <1>1
<1>3. Head(notices) = notices[1] /\ 1 \in 1 .. Len(notices)
  BY <1>1
<1>4. \A a \in 1 .. Len(notices) - 1 : a + 1 \in 1 .. Len(notices) /\ Tail(notices)[a] = notices[a + 1]
  BY <1>1, <1>2
<1> QED BY <1>2, <1>3, <1>4

\* A subscriber's own steps: it starts afresh from now, leaves, or reads.
LEMMA SubscriberEffect ==
  ASSUME Queued, ReadShape, NEW j \in Jobs, Subscribe(j) \/ Unsubscribe(j) \/ Read(j)
  PROVE  /\ sub' \in [Jobs -> Subscriber] /\ subs' \in 0 .. MaxSubs
         /\ \A k \in Jobs :
              \/ /\ sub'[k].on = sub[k].on /\ sub'[k].since = sub[k].since /\ sub'[k].got = sub[k].got
              \/ /\ sub'[k].got = <<>> /\ sub'[k].since <= Len(events)
                 /\ sub'[k].on => sub'[k].since = Len(events)
         /\ UNCHANGED <<events, pending, flight, row, visible, notices, listener, excused, dropped, faults>>
<1>0. /\ sub \in [Jobs -> Subscriber] /\ subs \in 0 .. MaxSubs /\ Len(events) \in Nat
      /\ MaxSubs \in Nat /\ ChanCap \in Nat
  BY BusAssumption DEF ReadShape, Queued, QueueShape
<1>1. NoSub \in Subscriber /\ NoSub.since = 0 /\ NoSub.got = <<>> /\ ~NoSub.on
  BY <1>0 DEF NoSub, Subscriber
<1>2. CASE Subscribe(j)
  <2> DEFINE fresh == [NoSub EXCEPT !.on = TRUE, !.since = Len(events)]
  <2>1. fresh \in Subscriber /\ fresh.got = <<>> /\ fresh.since = Len(events)
    BY <1>0, <1>1 DEF Subscriber
  <2>2. sub' = [sub EXCEPT ![j] = fresh] /\ subs' = subs + 1 /\ subs < MaxSubs
    BY <1>2 DEF Subscribe
  <2> HIDE DEF fresh
  <2>3. subs' \in 0 .. MaxSubs
    BY <1>0, <2>2
  <2>4. sub' \in [Jobs -> Subscriber] /\ sub'[j] = fresh /\ \A k \in Jobs \ {j} : sub'[k] = sub[k]
    BY <1>0, <2>1, <2>2
  <2>5. fresh.since <= Len(events)
    BY <1>0, <2>1
  <2> QED BY <1>2, <2>1, <2>3, <2>4, <2>5 DEF Subscribe
<1>3. CASE Unsubscribe(j)
  <2>1. sub' = [sub EXCEPT ![j] = NoSub] /\ subs' = subs
    BY <1>3 DEF Unsubscribe
  <2>2. sub' \in [Jobs -> Subscriber] /\ sub'[j] = NoSub /\ \A k \in Jobs \ {j} : sub'[k] = sub[k]
    BY <1>0, <1>1, <2>1
  <2>3. NoSub.since <= Len(events)
    BY <1>0, <1>1
  <2> QED BY <1>0, <1>1, <1>3, <2>1, <2>2, <2>3 DEF Unsubscribe
<1>4. CASE Read(j)
  <2>1. sub' = [sub EXCEPT ![j].unread = sub[j].unread - 1] /\ sub[j].unread > 0 /\ subs' = subs
    BY <1>4 DEF Read
  <2>2. sub[j].unread \in 0 .. ChanCap
    BY <1>0 DEF Subscriber
  <2>3. sub[j].unread - 1 \in 0 .. ChanCap
    BY <1>0, <2>1, <2>2
  <2>4. sub'[j] = [sub[j] EXCEPT !.unread = sub[j].unread - 1] /\ \A k \in Jobs \ {j} : sub'[k] = sub[k]
    BY <1>0, <2>1
  <2>5. /\ sub'[j] \in Subscriber /\ sub'[j].on = sub[j].on /\ sub'[j].since = sub[j].since
        /\ sub'[j].got = sub[j].got
    BY <1>0, <2>3, <2>4 DEF Subscriber
  <2>6. sub' \in [Jobs -> Subscriber]
    BY <1>0, <2>1, <2>4, <2>5
  <2> QED BY <1>0, <1>4, <2>1, <2>4, <2>5, <2>6 DEF Read
<1> QED BY <1>2, <1>3, <1>4

\* The reader's side keeps its shape.
LEMMA ReadShapeStep == Queued /\ ReadShape /\ [Next]_vars => ReadShape'
<1> SUFFICES ASSUME Queued, ReadShape, [Next]_vars PROVE ReadShape'
  OBVIOUS
<1>0. /\ Queued' /\ Len(events) \in Nat /\ Len(row) \in Nat /\ MaxFaults \in Nat
      /\ \A p \in Pubs : pending[p] \in Seq(Nat) /\ Buffered(p) /\ Flying(p)
      /\ faults \in 0 .. MaxFaults /\ dropped \subseteq 1 .. Len(events)
      /\ listener \in [pc : {"off", "drain", "wait"}, lastSeen : Nat, seen : SUBSET Nat]
  BY QueuedStep, BusAssumption DEF Queued, QueueShape, ReadShape
<1>1. ASSUME NEW p \in Pubs, NEW j \in Jobs, Publish(p, j) PROVE ReadShape'
  <2>1. /\ UNCHANGED <<row, visible, notices, listener, sub, subs, excused, faults>>
        /\ Len(events') = Len(events) + 1
    BY <1>1, PublishEffect
  <2>2. \A x : x \in 1 .. Len(events) => x \in 1 .. Len(events')
    BY <1>0, <2>1
  <2>3. dropped' \subseteq 1 .. Len(events')
    <3>1. PICK d \in {0, 1} : /\ d = 1 => pending[p] # <<>>
                              /\ dropped' = IF d = 1 THEN dropped \cup {pending[p][1]} ELSE dropped
      BY <1>1, PublishEffect
    <3>2. d = 1 => 1 \in 1 .. Len(pending[p])
      BY <1>0, <3>1
    <3>3. d = 1 => pending[p][1] \in 1 .. Len(events)
      BY <1>0, <3>2 DEF Buffered
    <3> QED BY <1>0, <2>2, <3>1, <3>3
  <2>4. \A k \in Jobs : sub[k].since <= Len(events')
    BY <1>0, <2>1 DEF ReadShape, Subscriber
  <2> QED BY <2>1, <2>3, <2>4 DEF ReadShape
<1>2. ASSUME NEW p \in Pubs, Flush(p) PROVE ReadShape'
  <2>1. UNCHANGED <<events, visible, notices, listener, sub, subs, excused, dropped, faults>>
    BY <1>2 DEF Flush
  <2> QED BY <2>1 DEF ReadShape
<1>3. ASSUME NEW p \in Pubs, Commit(p) PROVE ReadShape'
  <2>1. /\ Len(notices) \in Nat /\ notices' \in Seq(Nat) /\ Len(notices') >= Len(notices)
        /\ \A a \in 1 .. Len(notices) : notices'[a] = notices[a]
        /\ \A a \in Len(notices) + 1 .. Len(notices') : notices'[a] \in flight[p]
        /\ visible' = visible \cup flight[p]
        /\ excused' = excused \cup {i \in flight[p] : \E k \in visible : k >= i + Window}
        /\ UNCHANGED <<events, pending, row, listener, sub, subs, dropped, faults>>
    BY <1>3, CommitEffect
  <2>2. \A a \in 1 .. Len(notices') : a \in 1 .. Len(notices) \/ a \in Len(notices) + 1 .. Len(notices')
    BY <2>1
  <2>3. \A a \in 1 .. Len(notices') : notices'[a] \in visible'
    BY <2>1, <2>2 DEF ReadShape
  <2>4. excused' \subseteq visible'
    BY <2>1 DEF ReadShape
  <2>5. listener.seen \subseteq visible' /\ listener.lastSeen \in visible' \cup {0}
    BY <2>1 DEF ReadShape
  <2> QED BY <2>1, <2>3, <2>4, <2>5 DEF ReadShape
<1>4. ASSUME NEW p \in Pubs, WriteFails(p) PROVE ReadShape'
  <2>1. /\ faults' = faults + 1 /\ faults < MaxFaults /\ dropped' = dropped \cup {row[i] : i \in flight[p]}
        /\ UNCHANGED <<events, pending, row, visible, notices, listener, sub, subs, excused>>
    BY <1>4 DEF WriteFails
  <2>2. \A i \in flight[p] : row[i] \in 1 .. Len(events)
    BY <1>0 DEF Flying, Queued, Numbered
  <2>3. dropped' \subseteq 1 .. Len(events)
    BY <1>0, <2>1, <2>2
  <2>4. faults' \in 0 .. MaxFaults
    BY <1>0, <2>1
  <2> QED BY <2>1, <2>3, <2>4 DEF ReadShape
<1>5. ASSUME NEW j \in Jobs, Subscribe(j) \/ Unsubscribe(j) \/ Read(j) PROVE ReadShape'
  <2>1. /\ sub' \in [Jobs -> Subscriber] /\ subs' \in 0 .. MaxSubs
        /\ \A k \in Jobs : sub'[k].since = sub[k].since \/ sub'[k].since <= Len(events)
        /\ UNCHANGED <<events, pending, flight, row, visible, notices, listener, excused, dropped, faults>>
    BY <1>5, SubscriberEffect
  <2> QED BY <2>1 DEF ReadShape
<1>6. ASSUME NEW s \in {"off", "drain", "wait"}, listener' = [listener EXCEPT !.pc = s],
             UNCHANGED <<events, visible, sub, subs, dropped>>, excused' \subseteq visible,
             faults' \in 0 .. MaxFaults, notices' \in Seq(Nat),
             \A a \in 1 .. Len(notices') : notices'[a] \in visible
      PROVE  ReadShape'
  <2>1. /\ listener' \in [pc : {"off", "drain", "wait"}, lastSeen : Nat, seen : SUBSET Nat]
        /\ listener'.seen = listener.seen /\ listener'.lastSeen = listener.lastSeen
    BY <1>0, <1>6
  <2> QED BY <1>6, <2>1 DEF ReadShape
<1>7. CASE Listen
  <2>1. <<>> \in Seq(Nat) /\ 1 .. Len(<<>>) = {}
    OBVIOUS
  <2> QED BY <1>0, <1>6, <1>7, <2>1 DEF Listen, ReadShape
<1>8. CASE Disconnect
  <2>1. <<>> \in Seq(Nat) /\ 1 .. Len(<<>>) = {}
    OBVIOUS
  <2>2. faults' \in 0 .. MaxFaults
    BY <1>0, <1>8 DEF Disconnect
  <2> QED BY <1>6, <1>8, <2>1, <2>2 DEF Disconnect, ReadShape
<1>9. ASSUME notices # <<>>, notices' = Tail(notices)
      PROVE  notices' \in Seq(Nat) /\ \A a \in 1 .. Len(notices') : notices'[a] \in visible
  BY <1>9, TakeNotice DEF ReadShape
<1>10. CASE Notice
  <2>1. /\ listener' = [listener EXCEPT !.pc = "drain"] /\ notices # <<>> /\ notices' = Tail(notices)
        /\ UNCHANGED <<events, visible, sub, subs, excused, dropped, faults>>
    BY <1>10 DEF Notice
  <2> QED BY <1>0, <1>6, <1>9, <2>1 DEF ReadShape
<1>11. CASE DrainFails
  <2>1. excused' \subseteq visible
    BY <1>11, UnseenIs DEF DrainFails, ReadShape
  <2>2. faults' \in 0 .. MaxFaults
    BY <1>0, <1>11 DEF DrainFails
  <2> QED BY <1>6, <1>11, <2>1, <2>2 DEF DrainFails, ReadShape
<1>12. CASE Skip
  <2>1. /\ notices # <<>> /\ Head(notices) \in visible /\ notices' = Tail(notices)
        /\ listener' \in [pc : {"off", "drain", "wait"}, lastSeen : Nat, seen : SUBSET Nat]
        /\ listener'.lastSeen \in {Head(notices), listener.lastSeen}
        /\ listener'.seen \subseteq listener.seen \cup {Head(notices)}
        /\ UNCHANGED <<events, pending, flight, row, visible, sub, subs, excused, dropped, faults>>
    BY <1>12, SkipEffect
  <2>2. listener'.seen \subseteq visible /\ listener'.lastSeen \in visible \cup {0}
    BY <2>1 DEF ReadShape
  <2>3. notices' \in Seq(Nat) /\ \A a \in 1 .. Len(notices') : notices'[a] \in visible
    BY <1>9, <2>1
  <2> QED BY <2>1, <2>2, <2>3 DEF ReadShape
<1>13. CASE DrainNew
  <2>1. /\ listener' \in [pc : {"off", "drain", "wait"}, lastSeen : Nat, seen : SUBSET Nat]
        /\ listener'.lastSeen \in visible \cup {0} /\ listener'.seen \subseteq visible
        /\ sub' \in [Jobs -> Subscriber] /\ \A j \in Jobs : sub'[j].since = sub[j].since
        /\ dropped' \subseteq 1 .. Len(events)
        /\ UNCHANGED <<events, pending, flight, row, visible, notices, subs, excused, faults>>
    BY <1>13, DrainNewEffect
  <2> QED BY <2>1 DEF ReadShape
<1>14. CASE UNCHANGED vars
  BY <1>14 DEF vars, ReadShape
<1> QED BY <1>1, <1>2, <1>3, <1>4, <1>5, <1>7, <1>8, <1>10, <1>11, <1>12, <1>13, <1>14 DEF Next

-----------------------------------------------------------------------------
(* What the listener is done with stays done, and nothing slips in below.  *)

\* How one step may change the table and what the listener is done with: a row
\* stays as it is, and a row that appears lies above its publisher's others.
Grows ==
    /\ visible \subseteq visible' /\ Len(events) <= Len(events')
    /\ \A e \in 1 .. Len(events) : events'[e] = events[e]
    /\ \A i \in visible : /\ row'[i] = row[i] /\ JobOf(i)' = JobOf(i) /\ PubOf(i)' = PubOf(i)
                          /\ Done(i) => Done(i)'
    /\ \A i \in visible' \ visible : \A k \in visible : PubOf(i)' = PubOf(k) => k < i

\* Every step of the bus only grows the table.
LEMMA TableGrows == Queued /\ ReadShape /\ [Next]_vars => Grows
<1> SUFFICES ASSUME Queued, ReadShape, [Next]_vars PROVE Grows
  OBVIOUS
<1>0. /\ Len(events) \in Nat
      /\ \A i \in visible : i \in 1 .. Len(row) /\ row[i] \in 1 .. Len(events)
  BY VisibleIds DEF Queued, QueueShape
<1>1. ASSUME UNCHANGED <<events, row, visible>>, \A i \in visible : Done(i) => Done(i)' PROVE Grows
  BY <1>0, <1>1 DEF Grows, JobOf, PubOf
<1>2. ASSUME UNCHANGED <<events, row, visible>>, listener'.seen = listener.seen,
             listener'.lastSeen = listener.lastSeen PROVE Grows
  BY <1>1, <1>2 DEF Done
<1>3. listener \in [pc : {"off", "drain", "wait"}, lastSeen : Nat, seen : SUBSET Nat]
  BY DEF ReadShape
<1>4. ASSUME NEW p \in Pubs, NEW j \in Jobs, Publish(p, j) PROVE Grows
  <2>1. /\ UNCHANGED <<row, visible, listener>> /\ Len(events') = Len(events) + 1
        /\ \A e \in 1 .. Len(events) : events'[e] = events[e]
    BY <1>4, PublishEffect
  <2>2. \A i \in visible : JobOf(i)' = JobOf(i) /\ PubOf(i)' = PubOf(i) /\ (Done(i) => Done(i)')
    BY <1>0, <2>1 DEF JobOf, PubOf, Done
  <2>3. Len(events) <= Len(events')
    BY <1>0, <2>1
  <2> QED BY <2>1, <2>2, <2>3 DEF Grows
<1>5. ASSUME NEW p \in Pubs, Flush(p) PROVE Grows
  <2>1. /\ UNCHANGED <<events, visible, listener>> /\ \A i \in 1 .. Len(row) : row'[i] = row[i]
    BY <1>5, FlushEffect
  <2>2. \A i \in visible : /\ row'[i] = row[i] /\ JobOf(i)' = JobOf(i) /\ PubOf(i)' = PubOf(i)
                           /\ Done(i) => Done(i)'
    BY <1>0, <2>1 DEF JobOf, PubOf, Done
  <2>3. Len(events) <= Len(events')
    BY <1>0, <2>1
  <2> QED BY <2>1, <2>2, <2>3 DEF Grows
<1>6. ASSUME NEW p \in Pubs, Commit(p) PROVE Grows
  <2>1. /\ UNCHANGED <<events, row, listener>> /\ visible' = visible \cup flight[p]
        /\ \A i \in flight[p] : PubOf(i) = p /\ \A k \in visible : PubOf(k) = p => k < i
    BY <1>6, CommitEffect
  <2>2. \A i : JobOf(i)' = JobOf(i) /\ PubOf(i)' = PubOf(i) /\ (Done(i) => Done(i)')
    BY <2>1 DEF JobOf, PubOf, Done
  <2>3. Len(events) <= Len(events')
    BY <1>0, <2>1
  <2>4. \A i \in visible' \ visible : \A k \in visible : PubOf(i)' = PubOf(k) => k < i
    BY <2>1, <2>2
  <2> QED BY <2>1, <2>2, <2>3, <2>4 DEF Grows
<1>7. ASSUME NEW p \in Pubs, WriteFails(p) PROVE Grows
  BY <1>2, <1>7 DEF WriteFails
<1>8. ASSUME NEW j \in Jobs, Subscribe(j) \/ Unsubscribe(j) \/ Read(j) PROVE Grows
  BY <1>2, <1>8 DEF Subscribe, Unsubscribe, Read
<1>9. CASE Listen \/ Disconnect \/ Notice \/ DrainFails
  <2>1. \E s : listener' = [listener EXCEPT !.pc = s]
    BY <1>9 DEF Listen, Disconnect, Notice, DrainFails
  <2>2. listener'.seen = listener.seen /\ listener'.lastSeen = listener.lastSeen
    BY <1>3, <2>1
  <2> QED BY <1>2, <1>9, <2>2 DEF Listen, Disconnect, Notice, DrainFails
<1>10. CASE Skip
  BY <1>1, <1>10, SkipEffect
<1>11. CASE DrainNew
  BY <1>1, <1>11, DrainNewEffect
<1>12. CASE UNCHANGED vars
  BY <1>2, <1>12 DEF vars
<1> QED BY <1>4, <1>5, <1>6, <1>7, <1>8, <1>9, <1>10, <1>11, <1>12 DEF Next

-----------------------------------------------------------------------------
(* Order: what a subscriber was sent lies below what it may still be sent. *)

\* The event was sent under an id, and the listener is done with that id and with
\* every lower one of the same run and publisher.
Passed(j, e) ==
    \E k \in visible :
        /\ row[k] = e /\ JobOf(k) = j
        /\ \A i \in visible : i <= k /\ JobOf(i) = j /\ PubOf(i) = PubOf(k) => Done(i)

Ordered == \A j \in Jobs : \A n \in 1 .. Len(sub[j].got) : Passed(j, sub[j].got[n])

\* A step that only grows the table keeps what was passed.
LEMMA PassedKept ==
  ASSUME Queued, Queued', Grows, NEW j, NEW e, Passed(j, e)
  PROVE  Passed(j, e)'
<1>1. PICK k \in visible :
        /\ row[k] = e /\ JobOf(k) = j
        /\ \A i \in visible : i <= k /\ JobOf(i) = j /\ PubOf(i) = PubOf(k) => Done(i)
  BY DEF Passed
<1>2. k \in visible' /\ row'[k] = e /\ JobOf(k)' = j /\ PubOf(k)' = PubOf(k)
  BY <1>1 DEF Grows
<1>3. ASSUME NEW i \in visible', i <= k, JobOf(i)' = j, PubOf(i)' = PubOf(k)'
      PROVE  Done(i)'
  <2>1. i \in Nat /\ k \in Nat
    BY DEF Queued, QueueShape
  <2>2. CASE i \in visible
    BY <1>1, <1>2, <1>3, <2>2 DEF Grows
  <2>3. CASE i \notin visible
    <3>1. k < i
      BY <1>2, <1>3, <2>3 DEF Grows
    <3> QED BY <1>3, <2>1, <3>1
  <2> QED BY <2>2, <2>3
<1> QED BY <1>2, <1>3 DEF Passed

\* What a step adds to what a subscriber was sent: nothing, unless the step is
\* drainNew's or the subscriber starts afresh.
LEMMA GotStep ==
  ASSUME Queued, ReadShape, [Next]_vars, ~DrainNew, NEW j \in Jobs
  PROVE  sub'[j].got = sub[j].got \/ sub'[j].got = <<>>
<1>1. ASSUME NEW k \in Jobs, Subscribe(k) \/ Unsubscribe(k) \/ Read(k)
      PROVE  sub'[j].got = sub[j].got \/ sub'[j].got = <<>>
  BY <1>1, SubscriberEffect
<1>2. ASSUME UNCHANGED sub PROVE sub'[j].got = sub[j].got
  BY <1>2
<1>3. ASSUME NEW p \in Pubs, Flush(p) \/ Commit(p) \/ WriteFails(p) \/ \E k \in Jobs : Publish(p, k)
      PROVE  UNCHANGED sub
  BY <1>3 DEF Flush, Commit, WriteFails, Publish
<1>4. CASE Listen \/ Disconnect \/ Skip \/ Notice \/ DrainFails \/ UNCHANGED vars
  BY <1>2, <1>4 DEF Listen, Disconnect, Skip, Notice, DrainFails, vars
<1> QED BY <1>1, <1>2, <1>3, <1>4 DEF Next

\* Ordered is kept: drainNew takes the unseen ids of a run all at once.
LEMMA OrderedStep == Queued /\ ReadShape /\ Ordered /\ [Next]_vars => Ordered'
<1> SUFFICES ASSUME Queued, ReadShape, Ordered, [Next]_vars PROVE Ordered'
  OBVIOUS
<1>1. Queued' /\ Grows
  BY QueuedStep, TableGrows
<1>2. \A j, e : Passed(j, e) => Passed(j, e)'
  BY <1>1, PassedKept
<1>3. ASSUME \A j \in Jobs : \A n \in 1 .. Len(sub'[j].got) :
               \A e : e = sub'[j].got[n] => Passed(j, e)'
      PROVE  Ordered'
  <2> SUFFICES ASSUME NEW j \in Jobs, NEW n \in 1 .. Len(sub'[j].got)
               PROVE  \E k \in visible' :
                        /\ row'[k] = sub'[j].got[n] /\ JobOf(k)' = j
                        /\ \A i \in visible' : i <= k /\ JobOf(i)' = j /\ PubOf(i)' = PubOf(k)' => Done(i)'
    BY DEF Ordered, Passed
  <2>1. PICK e : e = sub'[j].got[n]
    OBVIOUS
  <2>2. Passed(j, e)'
    BY <1>3, <2>1
  <2> QED BY <2>1, <2>2 DEF Passed
<1>4. CASE ~DrainNew
  <2> SUFFICES ASSUME NEW j \in Jobs, NEW n \in 1 .. Len(sub'[j].got), NEW e, e = sub'[j].got[n]
               PROVE  Passed(j, e)'
    BY <1>3
  <2>1. sub'[j].got = sub[j].got \/ sub'[j].got = <<>>
    BY <1>4, GotStep
  <2>2. sub'[j].got # <<>>
    OBVIOUS
  <2> QED BY <1>2, <2>1, <2>2 DEF Ordered
<1>5. CASE DrainNew
  <2> SUFFICES ASSUME NEW j \in Jobs, NEW n \in 1 .. Len(sub'[j].got), NEW e, e = sub'[j].got[n]
               PROVE  Passed(j, e)'
    BY <1>3
  <2> DEFINE L == Len(sub[j].got)
  <2>1. /\ L \in Nat /\ Len(sub'[j].got) = L + Room(j)
        /\ \A m \in 1 .. L : sub'[j].got[m] = sub[j].got[m]
        /\ \A m \in 1 .. Room(j) : sub'[j].got[L + m] = row[News(j)[m]]
        /\ \A i \in visible : Done(i) \/ i \in Unseen => Done(i)'
        /\ UNCHANGED <<events, row, visible>>
    BY <1>5, DrainNewEffect
  <2>2. /\ Len(News(j)) \in Nat /\ Room(j) \in 0 .. Len(News(j))
        /\ \A m \in 1 .. Len(News(j)) : News(j)[m] \in Unseen /\ JobOf(News(j)[m]) = j
    BY NewsIs
  <2> HIDE DEF L
  <2>3. CASE n \in 1 .. L
    <3>1. Passed(j, sub[j].got[n])
      BY <2>3 DEF Ordered, L
    <3> QED BY <1>2, <2>1, <2>3, <3>1
  <2>4. CASE n \notin 1 .. L
    <3>1. n - L \in 1 .. Room(j) /\ n - L \in 1 .. Len(News(j)) /\ L + (n - L) = n
      BY <2>1, <2>2, <2>4
    <3> DEFINE k == News(j)[n - L]
    <3>2. k \in Unseen /\ JobOf(k) = j /\ sub'[j].got[n] = row[k]
      BY <2>1, <2>2, <3>1
    <3> HIDE DEF k
    <3>3. k \in visible /\ sub[j].on
      BY <3>2, UnseenIs
    <3>4. \A i \in visible : JobOf(i) = j => Done(i)'
      BY <2>1, <3>3, UnseenIs
    <3>5. \A i : JobOf(i)' = JobOf(i)
      BY <2>1 DEF JobOf
    <3> QED BY <2>1, <3>2, <3>3, <3>4, <3>5 DEF Passed
  <2> QED BY <2>3, <2>4
<1> QED BY <1>4, <1>5

\* What a subscriber was sent is an event.
LEMMA GotIsEvent ==
  ASSUME Queued, ReadShape, Ordered, NEW j \in Jobs, NEW n \in 1 .. Len(sub[j].got)
  PROVE  sub[j].got[n] \in 1 .. Len(events)
<1>1. PICK k \in visible : row[k] = sub[j].got[n]
  BY DEF Ordered, Passed
<1> QED BY <1>1, VisibleIds

\* PublisherOrder with the sequences' indices.
InOrder ==
    \A j \in Jobs : \A m, n \in 1 .. Len(sub[j].got) :
        m < n /\ events[sub[j].got[m]].pub = events[sub[j].got[n]].pub
            => sub[j].got[m] < sub[j].got[n]

\* An event sent later was published later, if one publisher published both: its
\* id was not done, so it is above the ids of what was sent before.
LEMMA InOrderStep == Queued /\ ReadShape /\ Ordered /\ InOrder /\ [Next]_vars => InOrder'
<1> SUFFICES ASSUME Queued, ReadShape, Ordered, InOrder, [Next]_vars PROVE InOrder'
  OBVIOUS
<1>1. Grows
  BY TableGrows
<1> SUFFICES ASSUME NEW j \in Jobs, NEW m \in 1 .. Len(sub'[j].got), NEW n \in 1 .. Len(sub'[j].got),
                    m < n, events'[sub'[j].got[m]].pub = events'[sub'[j].got[n]].pub
             PROVE  sub'[j].got[m] < sub'[j].got[n]
  BY DEF InOrder
<1>2. ASSUME m \in 1 .. Len(sub[j].got), n \in 1 .. Len(sub[j].got),
             sub'[j].got[m] = sub[j].got[m], sub'[j].got[n] = sub[j].got[n]
      PROVE  sub'[j].got[m] < sub'[j].got[n]
  <2>1. sub[j].got[m] \in 1 .. Len(events) /\ sub[j].got[n] \in 1 .. Len(events)
    BY <1>2, GotIsEvent
  <2>2. events[sub[j].got[m]].pub = events[sub[j].got[n]].pub
    BY <1>1, <1>2, <2>1 DEF Grows
  <2> QED BY <1>2, <2>2 DEF InOrder
<1>3. CASE ~DrainNew
  <2>1. sub'[j].got = sub[j].got
    BY <1>3, GotStep
  <2> QED BY <1>2, <2>1
<1>4. CASE DrainNew
  <2> DEFINE L == Len(sub[j].got)
  <2>1. /\ L \in Nat /\ Len(sub'[j].got) = L + Room(j)
        /\ \A x \in 1 .. L : sub'[j].got[x] = sub[j].got[x]
        /\ \A x \in 1 .. Room(j) : sub'[j].got[L + x] = row[News(j)[x]]
        /\ UNCHANGED <<events, row, visible>>
    BY <1>4, DrainNewEffect
  <2>2. /\ Len(News(j)) \in Nat /\ Room(j) \in 0 .. Len(News(j))
        /\ \A x \in 1 .. Len(News(j)) : News(j)[x] \in Unseen /\ JobOf(News(j)[x]) = j
        /\ \A x, y \in 1 .. Len(News(j)) : x < y => News(j)[x] < News(j)[y]
    BY NewsIs
  <2> HIDE DEF L
  <2>3. \A i, k \in visible : i < k /\ PubOf(i) = PubOf(k) => row[i] < row[k]
    BY VisibleIds DEF Queued, Numbered
  <2>4. ASSUME NEW x \in 1 .. Len(sub'[j].got), x \notin 1 .. L
        PROVE  /\ x - L \in 1 .. Len(News(j)) /\ sub'[j].got[x] = row[News(j)[x - L]]
               /\ News(j)[x - L] \in Unseen /\ JobOf(News(j)[x - L]) = j
    <3>1. x - L \in 1 .. Room(j) /\ x - L \in 1 .. Len(News(j)) /\ L + (x - L) = x
      BY <2>1, <2>2, <2>4
    <3> QED BY <2>1, <2>2, <3>1
  <2>5. CASE n \in 1 .. L
    <3>1. m \in 1 .. L
      BY <2>1, <2>5
    <3> QED BY <1>2, <2>1, <2>5, <3>1 DEF L
  <2>6. CASE n \notin 1 .. L /\ m \notin 1 .. L
    <3> DEFINE i == News(j)[m - L]
               k == News(j)[n - L]
    <3>1. m - L < n - L
      BY <2>1
    <3>2. i < k /\ i \in Unseen /\ k \in Unseen /\ sub'[j].got[m] = row[i] /\ sub'[j].got[n] = row[k]
      BY <2>2, <2>4, <2>6, <3>1
    <3> HIDE DEF i, k
    <3>3. i \in visible /\ k \in visible
      BY <3>2, UnseenIs
    <3>4. PubOf(i) = PubOf(k)
      BY <2>1, <3>2 DEF PubOf
    <3> QED BY <2>3, <3>2, <3>3, <3>4
  <2>7. CASE n \notin 1 .. L /\ m \in 1 .. L
    <3> DEFINE x == News(j)[n - L]
    <3>1. x \in Unseen /\ JobOf(x) = j /\ sub'[j].got[n] = row[x]
      BY <2>4, <2>7
    <3> HIDE DEF x
    <3>2. x \in visible /\ ~Done(x) /\ x \in Nat
      BY <3>1, UnseenIs
    <3>3. PICK k \in visible :
            /\ row[k] = sub[j].got[m] /\ JobOf(k) = j
            /\ \A i \in visible : i <= k /\ JobOf(i) = j /\ PubOf(i) = PubOf(k) => Done(i)
      BY <2>7 DEF Ordered, Passed, L
    <3>4. PubOf(k) = PubOf(x) /\ sub'[j].got[m] = row[k]
      BY <2>1, <2>7, <3>1, <3>3 DEF PubOf
    <3>5. k \in Nat /\ ~(x <= k)
      BY <3>1, <3>2, <3>3, <3>4, VisibleIds
    <3>6. k < x
      BY <3>2, <3>5
    <3> QED BY <2>3, <3>1, <3>2, <3>4, <3>6
  <2> QED BY <2>5, <2>6, <2>7
<1> QED BY <1>3, <1>4

-----------------------------------------------------------------------------
(* Completeness: a row that is owed and not excused is still on its way.   *)

\* No notice is a window behind one that was announced before it, unless it is
\* of a row that the bus may lose.
Announced ==
    \A a, b \in 1 .. Len(notices) :
        a < b => notices[b] \in excused \/ notices[a] < notices[b] + Window

Owed(i, j) == sub[j].on /\ JobOf(i) = j /\ row[i] > sub[j].since
Settled(i, j) == row[i] \in dropped \/ \E n \in 1 .. Len(sub[j].got) : sub[j].got[n] = row[i]
Coming(i) == ~Done(i) /\ (listener.pc # "wait" \/ \E a \in 1 .. Len(notices) : notices[a] = i)

Awaited == \A i \in visible \ excused : \A j \in Jobs : Owed(i, j) => Settled(i, j) \/ Coming(i)

\* A commit excuses the rows a visible id is a window above of, and announces its
\* own in order.
LEMMA AnnouncedStep == Queued /\ ReadShape /\ Announced /\ [Next]_vars => Announced'
<1> SUFFICES ASSUME Queued, ReadShape, Announced, [Next]_vars PROVE Announced'
  OBVIOUS
<1>1. ASSUME notices' = notices \/ notices' = <<>>, excused \subseteq excused' PROVE Announced'
  BY <1>1 DEF Announced
<1>2. ASSUME notices # <<>>, notices' = Tail(notices), excused' = excused PROVE Announced'
  <2>1. /\ Len(notices) \in Nat /\ Len(notices') = Len(notices) - 1
        /\ \A a \in 1 .. Len(notices') : a + 1 \in 1 .. Len(notices) /\ notices'[a] = notices[a + 1]
    BY <1>2, TakeNotice
  <2> SUFFICES ASSUME NEW a \in 1 .. Len(notices'), NEW b \in 1 .. Len(notices'), a < b
               PROVE  notices'[b] \in excused \/ notices'[a] < notices'[b] + Window
    BY <1>2 DEF Announced
  <2>2. a + 1 < b + 1
    BY <2>1
  <2> QED BY <2>1, <2>2 DEF Announced
<1>3. ASSUME NEW p \in Pubs, Commit(p) PROVE Announced'
  <2>1. /\ \A i \in flight[p] : i \in Nat
        /\ Len(notices) \in Nat /\ notices' \in Seq(Nat) /\ Len(notices') >= Len(notices)
        /\ \A a \in 1 .. Len(notices) : notices'[a] = notices[a]
        /\ \A a \in Len(notices) + 1 .. Len(notices') : notices'[a] \in flight[p]
        /\ \A a, b \in Len(notices) + 1 .. Len(notices') : a < b => notices'[a] < notices'[b]
        /\ excused' = excused \cup {i \in flight[p] : \E k \in visible : k >= i + Window}
    BY <1>3, CommitEffect
  <2>2. Window \in Nat \ {0}
    BY BusAssumption
  <2> SUFFICES ASSUME NEW a \in 1 .. Len(notices'), NEW b \in 1 .. Len(notices'), a < b,
                      ~(notices'[a] < notices'[b] + Window)
               PROVE  notices'[b] \in excused'
    BY DEF Announced
  <2>3. notices'[a] \in Nat /\ notices'[b] \in Nat /\ Len(notices') \in Nat
    BY <2>1
  <2>4. CASE b \in 1 .. Len(notices)
    <3>1. a \in 1 .. Len(notices)
      BY <2>1, <2>4
    <3>2. notices'[a] = notices[a] /\ notices'[b] = notices[b]
      BY <2>1, <2>4, <3>1
    <3>3. notices[b] \in excused
      BY <2>4, <3>1, <3>2 DEF Announced
    <3> QED BY <2>1, <3>2, <3>3
  <2>5. CASE b \notin 1 .. Len(notices)
    <3>1. b \in Len(notices) + 1 .. Len(notices')
      BY <2>1, <2>3, <2>5
    <3>2. CASE a \in 1 .. Len(notices)
      <4>1. notices'[a] \in visible
        BY <2>1, <3>2 DEF ReadShape
      <4>2. notices'[a] >= notices'[b] + Window
        BY <2>2, <2>3
      <4> QED BY <2>1, <3>1, <4>1, <4>2
    <3>3. CASE a \notin 1 .. Len(notices)
      <4>1. a \in Len(notices) + 1 .. Len(notices')
        BY <2>1, <2>3, <3>3
      <4>2. notices'[a] < notices'[b]
        BY <2>1, <3>1, <4>1
      <4> QED BY <2>2, <2>3, <4>2
    <3> QED BY <3>2, <3>3
  <2> QED BY <2>4, <2>5
<1>4. ASSUME NEW p \in Pubs, Flush(p) \/ WriteFails(p) \/ \E j \in Jobs : Publish(p, j) PROVE Announced'
  BY <1>1, <1>4 DEF Flush, WriteFails, Publish
<1>5. ASSUME NEW j \in Jobs, Subscribe(j) \/ Unsubscribe(j) \/ Read(j) PROVE Announced'
  BY <1>1, <1>5 DEF Subscribe, Unsubscribe, Read
<1>6. CASE Listen \/ Disconnect \/ DrainNew \/ DrainFails \/ UNCHANGED vars
  BY <1>1, <1>6 DEF Listen, Disconnect, DrainNew, DrainFails, vars
<1>7. CASE Skip \/ Notice
  BY <1>2, <1>7 DEF Skip, Notice
<1> QED BY <1>3, <1>4, <1>5, <1>6, <1>7 DEF Next

\* What is owed and neither sent nor dropped is not done, and a read or a notice
\* of it is still to come.
LEMMA AwaitedStep == Queued /\ ReadShape /\ Announced /\ Awaited /\ [Next]_vars => Awaited'
<1> SUFFICES ASSUME Queued, ReadShape, Announced, Awaited, [Next]_vars,
                    NEW i \in visible' \ excused', NEW j \in Jobs, Owed(i, j)', ~Settled(i, j)'
             PROVE  Coming(i)'
  BY DEF Awaited
<1>0. /\ Window \in Nat \ {0} /\ Len(events) \in Nat
      /\ listener \in [pc : {"off", "drain", "wait"}, lastSeen : Nat, seen : SUBSET Nat]
      /\ listener.lastSeen \in visible \cup {0} /\ listener.seen \subseteq visible
      /\ \A k \in visible : k \in 1 .. Len(row) /\ row[k] \in 1 .. Len(events) /\ k \in Nat
  BY VisibleIds, BusAssumption DEF ReadShape, Queued, QueueShape
<1>1. Grows
  BY TableGrows
\* The step leaves the subscriber alone: the row was owed already.
<1>2. ASSUME i \in visible, i \notin excused, sub'[j] = sub[j], dropped \subseteq dropped'
      PROVE  Owed(i, j) /\ Coming(i)
  <2>1. row'[i] = row[i] /\ JobOf(i)' = JobOf(i)
    BY <1>1, <1>2 DEF Grows
  <2>2. Owed(i, j)
    BY <1>2, <2>1 DEF Owed
  <2>3. ~Settled(i, j)
    BY <1>2, <2>1 DEF Settled
  <2> QED BY <1>2, <2>2, <2>3 DEF Awaited
<1>3. ASSUME i \in visible, i \notin excused, sub'[j] = sub[j], dropped \subseteq dropped',
             listener' = listener, notices' = notices
      PROVE  Coming(i)'
  BY <1>2, <1>3 DEF Coming, Done
<1>4. ASSUME i \in visible, i \notin excused, sub'[j] = sub[j], dropped \subseteq dropped',
             NEW s \in {"off", "drain"}, listener' = [listener EXCEPT !.pc = s]
      PROVE  Coming(i)'
  <2>1. listener'.pc # "wait" /\ listener'.seen = listener.seen /\ listener'.lastSeen = listener.lastSeen
    BY <1>0, <1>4
  <2> QED BY <1>2, <1>4, <2>1 DEF Coming, Done
<1>5. ASSUME NEW p \in Pubs, Flush(p) \/ WriteFails(p) \/ \E k \in Jobs : Publish(p, k)
      PROVE  Coming(i)'
  <2>1. UNCHANGED <<visible, notices, listener, sub, excused>> /\ dropped \subseteq dropped'
    BY <1>5 DEF Flush, WriteFails, Publish
  <2> QED BY <1>3, <2>1
<1>6. ASSUME NEW p \in Pubs, Commit(p) PROVE Coming(i)'
  <2>1. /\ \A k \in flight[p] : k \in Nat /\ k \notin visible
        /\ Len(notices) \in Nat /\ notices' \in Seq(Nat) /\ Len(notices') >= Len(notices)
        /\ \A a \in 1 .. Len(notices) : notices'[a] = notices[a]
        /\ listener.pc # "off" => \A k \in flight[p] : \E a \in 1 .. Len(notices') : notices'[a] = k
        /\ visible' = visible \cup flight[p]
        /\ excused' = excused \cup {k \in flight[p] : \E x \in visible : x >= k + Window}
        /\ UNCHANGED <<events, pending, row, listener, sub, subs, dropped, faults>>
    BY <1>6, CommitEffect
  <2>2. CASE i \in visible
    <3>1. Coming(i)
      BY <1>2, <2>1, <2>2
    <3>2. \A a \in 1 .. Len(notices) : a \in 1 .. Len(notices')
      BY <2>1
    <3>3. (\E a \in 1 .. Len(notices) : notices[a] = i) => \E a \in 1 .. Len(notices') : notices'[a] = i
      BY <2>1, <3>2
    <3> QED BY <2>1, <3>1, <3>3 DEF Coming, Done
  <2>3. CASE i \in flight[p]
    <3>1. i \in Nat /\ i \notin listener.seen
      BY <1>0, <2>1, <2>3
    <3>2. ~(i + Window <= listener.lastSeen)
      <4>1. CASE listener.lastSeen = 0
        BY <1>0, <3>1, <4>1
      <4>2. CASE listener.lastSeen \in visible
        <5>1. ~(listener.lastSeen >= i + Window)
          BY <2>1, <2>3, <4>2
        <5> QED BY <1>0, <3>1, <5>1
      <4> QED BY <1>0, <4>1, <4>2
    <3>3. ~Done(i)'
      BY <2>1, <3>1, <3>2 DEF Done
    <3>4. listener'.pc # "wait" \/ \E a \in 1 .. Len(notices') : notices'[a] = i
      BY <2>1, <2>3
    <3> QED BY <3>3, <3>4 DEF Coming
  <2> QED BY <2>1, <2>2, <2>3
<1>7. ASSUME NEW k \in Jobs, Subscribe(k) \/ Unsubscribe(k) \/ Read(k) PROVE Coming(i)'
  <2>1. /\ \/ /\ sub'[j].on = sub[j].on /\ sub'[j].since = sub[j].since /\ sub'[j].got = sub[j].got
           \/ /\ sub'[j].got = <<>> /\ sub'[j].since <= Len(events)
              /\ sub'[j].on => sub'[j].since = Len(events)
        /\ UNCHANGED <<events, pending, flight, row, visible, notices, listener, excused, dropped, faults>>
    BY <1>7, SubscriberEffect
  <2>2. sub'[j].on /\ JobOf(i)' = j /\ row[i] > sub'[j].since
    BY <2>1 DEF Owed
  <2>3. i \in visible /\ i \notin excused /\ ~(sub'[j].since = Len(events))
    <3>1. i \in visible /\ i \notin excused
      BY <2>1
    <3> QED BY <1>0, <2>2, <3>1
  <2>4. sub'[j].on = sub[j].on /\ sub'[j].since = sub[j].since /\ sub'[j].got = sub[j].got
    BY <2>1, <2>2, <2>3
  <2>5. JobOf(i) = j
    BY <2>1, <2>2 DEF JobOf
  <2>6. Owed(i, j)
    BY <2>2, <2>4, <2>5 DEF Owed
  <2>7. ~Settled(i, j)
    BY <2>1, <2>4 DEF Settled
  <2>8. Coming(i)
    BY <2>3, <2>6, <2>7 DEF Awaited
  <2> QED BY <2>1, <2>8 DEF Coming, Done
<1>8. CASE Listen \/ Disconnect \/ Notice
  <2>1. UNCHANGED <<visible, excused, sub, dropped>>
    BY <1>8 DEF Listen, Disconnect, Notice
  <2>2. \E s \in {"off", "drain"} : listener' = [listener EXCEPT !.pc = s]
    BY <1>8 DEF Listen, Disconnect, Notice
  <2> QED BY <1>4, <2>1, <2>2
<1>9. CASE Skip
  <2> DEFINE h == Head(notices)
  <2>1. /\ notices # <<>> /\ h \in visible /\ notices' = Tail(notices)
        /\ ~sub[JobOf(h)].on /\ listener.pc = "wait"
        /\ \A k \in visible : ~Done(k) /\ k # h /\ h < k + Window => ~Done(k)'
        /\ UNCHANGED <<events, pending, flight, row, visible, sub, subs, excused, dropped, faults>>
    BY <1>9, SkipEffect
  <2>2. /\ Len(notices) \in Nat /\ Len(notices') = Len(notices) - 1
        /\ h = notices[1] /\ 1 \in 1 .. Len(notices)
        /\ \A a \in 1 .. Len(notices') : a + 1 \in 1 .. Len(notices) /\ notices'[a] = notices[a + 1]
    BY <2>1, TakeNotice
  <2> HIDE DEF h
  <2>3. i \in visible /\ i \notin excused /\ Owed(i, j) /\ Coming(i)
    BY <1>2, <2>1
  <2>4. i # h
    BY <2>1, <2>3 DEF Owed
  <2>5. PICK a \in 1 .. Len(notices) : notices[a] = i
    BY <2>1, <2>3 DEF Coming
  <2>6. 1 < a
    BY <2>2, <2>4, <2>5
  <2>7. h < i + Window
    BY <2>2, <2>3, <2>5, <2>6 DEF Announced
  <2>8. ~Done(i)'
    BY <2>1, <2>3, <2>4, <2>7 DEF Coming
  <2>9. a - 1 \in 1 .. Len(notices') /\ (a - 1) + 1 = a
    BY <2>2, <2>6
  <2>10. notices'[a - 1] = i
    BY <2>2, <2>5, <2>9
  <2> QED BY <2>8, <2>9, <2>10 DEF Coming
<1>10. CASE DrainNew
  <2>1. /\ \A k \in Jobs :
              /\ sub'[k].on = sub[k].on /\ sub'[k].since = sub[k].since
              /\ Len(sub[k].got) \in Nat /\ Len(sub'[k].got) = Len(sub[k].got) + Room(k)
              /\ \A n \in 1 .. Len(sub[k].got) : sub'[k].got[n] = sub[k].got[n]
              /\ \A n \in 1 .. Room(k) : sub'[k].got[Len(sub[k].got) + n] = row[News(k)[n]]
              /\ \A n \in Room(k) + 1 .. Len(News(k)) : row[News(k)[n]] \in dropped'
        /\ dropped \subseteq dropped'
        /\ UNCHANGED <<events, pending, flight, row, visible, notices, subs, excused, faults>>
    BY <1>10, DrainNewEffect
  <2>2. /\ Len(News(j)) \in Nat /\ Room(j) \in 0 .. Len(News(j))
        /\ \A k \in Unseen : JobOf(k) = j => \E n \in 1 .. Len(News(j)) : News(j)[n] = k
    BY NewsIs
  <2>3. i \in visible /\ i \notin excused /\ JobOf(i)' = JobOf(i)
    BY <2>1 DEF JobOf
  <2>4. Owed(i, j)
    BY <2>1, <2>3 DEF Owed
  <2>5. ~Settled(i, j)
    <3>1. row[i] \notin dropped' /\ \A n \in 1 .. Len(sub'[j].got) : sub'[j].got[n] # row[i]
      BY <2>1 DEF Settled
    <3>2. \A n \in 1 .. Len(sub[j].got) : n \in 1 .. Len(sub'[j].got)
      BY <2>1, <2>2
    <3> QED BY <2>1, <3>1, <3>2 DEF Settled
  <2>6. ~Done(i)
    BY <2>3, <2>4, <2>5 DEF Awaited, Coming
  <2>7. i \in Unseen
    BY <2>3, <2>4, <2>6, UnseenIs DEF Owed
  <2>8. PICK n \in 1 .. Len(News(j)) : News(j)[n] = i
    BY <2>2, <2>4, <2>7 DEF Owed
  <2>9. CASE n \in 1 .. Room(j)
    <3>1. Len(sub[j].got) + n \in 1 .. Len(sub'[j].got)
      BY <2>1, <2>2, <2>9
    <3>2. sub'[j].got[Len(sub[j].got) + n] = row'[i]
      BY <2>1, <2>8, <2>9
    <3> QED BY <3>1, <3>2 DEF Settled
  <2>10. CASE n \notin 1 .. Room(j)
    <3>1. n \in Room(j) + 1 .. Len(News(j))
      BY <2>2, <2>10
    <3>2. row'[i] \in dropped'
      BY <2>1, <2>8, <3>1
    <3> QED BY <3>2 DEF Settled
  <2> QED BY <2>9, <2>10
<1>11. CASE DrainFails
  <2>1. UNCHANGED <<events, row, visible, sub, dropped>> /\ excused' = excused \cup Unseen
    BY <1>11 DEF DrainFails
  <2>2. i \in visible /\ i \notin excused /\ i \notin Unseen /\ Owed(i, j) /\ Coming(i)
    BY <1>2, <2>1
  <2>3. i \in Unseen
    BY <2>2, UnseenIs DEF Owed, Coming
  <2> QED BY <2>2, <2>3
<1>12. CASE UNCHANGED vars
  BY <1>3, <1>12 DEF vars
<1> QED BY <1>5, <1>6, <1>7, <1>8, <1>9, <1>10, <1>11, <1>12 DEF Next

-----------------------------------------------------------------------------
(* The theorems.                                                           *)

BusInv == Queued /\ ReadShape /\ Ordered /\ InOrder /\ Announced /\ Awaited

\* The invariant holds of every state the bus reaches.
LEMMA BusInvariance == Spec => []BusInv
<1>1. Init => BusInv
  <2> SUFFICES ASSUME Init PROVE BusInv
    OBVIOUS
  <2>1. Queued /\ ReadShape
    BY QueuedInit, ReadShapeInit
  <2>2. \A j \in Jobs : sub[j].got = <<>>
    BY DEF Init, NoSub
  <2>3. Ordered /\ InOrder
    BY <2>2 DEF Ordered, InOrder
  <2>4. Announced /\ Awaited
    BY DEF Init, Announced, Awaited
  <2> QED BY <2>1, <2>3, <2>4 DEF BusInv
<1>2. BusInv /\ [Next]_vars => BusInv'
  BY QueuedStep, ReadShapeStep, OrderedStep, InOrderStep, AnnouncedStep, AwaitedStep DEF BusInv
<1> QED BY <1>1, <1>2, PTL DEF Spec

\* A subscriber hears of a publisher's events about its run in the order in which
\* they were published, although rows become visible in another order than their
\* ids (flush and commit of eventbus_pg.go, drainNew's re-scan).
THEOREM OrderKept == Spec => []PublisherOrder
<1>1. BusInv => PublisherOrder
  <2> SUFFICES ASSUME BusInv, NEW j \in Jobs PROVE DOMAIN sub[j].got = 1 .. Len(sub[j].got)
    BY DEF BusInv, InOrder, PublisherOrder
  <2> QED BY DEF BusInv, ReadShape, Subscriber
<1> QED BY <1>1, BusInvariance, PTL

\* However often the listener re-reads the window, a subscriber is sent no event
\* twice (the seen set of eventbus_pg.go and its pruning).
THEOREM HeardOnce == Spec => []NoDuplicate
<1>1. BusInv => NoDuplicate
  <2> SUFFICES ASSUME BusInv, NEW j \in Jobs, NEW m \in DOMAIN sub[j].got, NEW n \in DOMAIN sub[j].got,
                      sub[j].got[m] = sub[j].got[n]
               PROVE  m = n
    BY DEF NoDuplicate
  <2>1. DOMAIN sub[j].got = 1 .. Len(sub[j].got) /\ sub[j].got[m] \in Nat /\ Len(sub[j].got) \in Nat
    BY DEF BusInv, ReadShape, Subscriber
  <2>2. m \in 1 .. Len(sub[j].got) /\ n \in 1 .. Len(sub[j].got)
    BY <2>1
  <2>3. ~(m < n) /\ ~(n < m)
    BY <2>1, <2>2 DEF BusInv, InOrder
  <2> QED BY <2>1, <2>2, <2>3
<1> QED BY <1>1, BusInvariance, PTL

\* When the listener has read its notices, every visible event of a watched run
\* published since the subscription was sent or lost for one of the named reasons
\* (pgBusReScanWindow, skipTo and drainNew of eventbus_pg.go).
THEOREM NoneMissed == Spec => []NothingMissed
<1>1. BusInv => NothingMissed
  <2> SUFFICES ASSUME BusInv, listener.pc = "wait", notices = <<>>, NEW i \in visible \ excused,
                      NEW j \in Watching, JobOf(i) = j, row[i] > sub[j].since
               PROVE  row[i] \in dropped \/ row[i] \in Range(sub[j].got)
    BY DEF NothingMissed
  <2>1. j \in Jobs /\ sub[j].on
    BY DEF Watching
  <2>2. ~Coming(i)
    BY DEF Coming
  <2>3. Owed(i, j)
    BY <2>1 DEF Owed
  <2>4. Settled(i, j)
    BY <2>1, <2>2, <2>3 DEF BusInv, Awaited
  <2>5. sub[j].got \in Seq(Nat)
    BY <2>1 DEF BusInv, ReadShape, Subscriber
  <2>6. \A n \in 1 .. Len(sub[j].got) : sub[j].got[n] \in Range(sub[j].got)
    BY <2>5 DEF Range
  <2> QED BY <2>4, <2>6 DEF Settled
<1> QED BY <1>1, BusInvariance, PTL

\* The buffers and channels keep to their bounds and ids to the events they number
\* (pgBusMaxPending and the channel buffer of eventbus.go).
THEOREM BusTypeCorrect == Spec => []TypeOK
<1>1. BusInv => TypeOK
  <2> SUFFICES ASSUME BusInv PROVE TypeOK
    OBVIOUS
  <2>0. /\ Queued /\ ReadShape /\ QueueShape /\ Ordered /\ MaxEvents \in Nat /\ Len(events) \in Nat
        /\ Len(row) \in Nat /\ Len(row) <= Len(events) /\ Len(events) <= MaxEvents
    BY RowFits, BusAssumption DEF BusInv, Queued, QueueShape
  <2>1. \A x : x \in 1 .. Len(events) => x \in Ids
    BY <2>0 DEF Ids
  <2>2. \A x : x \in 1 .. Len(row) => x \in Ids
    BY <2>0 DEF Ids
  <2>3. events \in Seq([job : Jobs, pub : Pubs])
    BY <2>0 DEF QueueShape, Event
  <2>4. pending \in [Pubs -> Seq(Ids)] /\ \A p \in Pubs : Len(pending[p]) <= MaxPending
    <3>1. ASSUME NEW p \in Pubs PROVE pending[p] \in Seq(Ids)
      <4>1. pending[p] \in Seq(Nat) /\ \A m \in 1 .. Len(pending[p]) : pending[p][m] \in Ids
        BY <2>0, <2>1 DEF Queued, QueueShape, Buffered
      <4> QED BY <4>1, SeqOfWithin
    <3> QED BY <2>0, <3>1 DEF QueueShape
  <2>5. row \in Seq(Ids)
    <3>1. row \in Seq(Nat) /\ \A i \in 1 .. Len(row) : row[i] \in Ids
      BY <2>0, <2>1 DEF Queued, QueueShape, Numbered
    <3> QED BY <3>1, SeqOfWithin
  <2>6. visible \subseteq Ids
    BY <2>0, <2>2 DEF Queued
  <2>7. flight \in [Pubs -> SUBSET Ids]
    <3>1. ASSUME NEW p \in Pubs PROVE flight[p] \subseteq Ids
      BY <2>0, <2>2 DEF Queued, Flying
    <3> QED BY <2>0, <3>1 DEF QueueShape
  <2>8. notices \in Seq(Ids)
    <3>1. notices \in Seq(Nat) /\ \A a \in 1 .. Len(notices) : notices[a] \in Ids
      BY <2>0, <2>6 DEF ReadShape
    <3> QED BY <3>1, SeqOfWithin
  <2>9. listener \in [pc : {"off", "drain", "wait"}, lastSeen : 0 .. MaxEvents, seen : SUBSET Ids]
    <3>1. listener.seen \subseteq Ids
      BY <2>0, <2>6 DEF ReadShape
    <3>2. listener.lastSeen \in 0 .. MaxEvents
      BY <2>0, <2>6 DEF ReadShape, Ids
    <3>3. listener \in [pc : {"off", "drain", "wait"}, lastSeen : Nat, seen : SUBSET Nat]
      BY <2>0 DEF ReadShape
    <3> QED BY <3>1, <3>2, <3>3
  <2>10. sub \in [Jobs -> [on : BOOLEAN, since : 0 .. MaxEvents, unread : 0 .. ChanCap, got : Seq(Ids)]]
    <3>1. ASSUME NEW j \in Jobs
          PROVE  sub[j] \in [on : BOOLEAN, since : 0 .. MaxEvents, unread : 0 .. ChanCap, got : Seq(Ids)]
      <4>1. sub[j] \in Subscriber /\ sub[j].since <= Len(events)
        BY <2>0 DEF ReadShape
      <4>2. \A n \in 1 .. Len(sub[j].got) : sub[j].got[n] \in Ids
        BY <2>0, <2>1, GotIsEvent
      <4>3. sub[j].got \in Seq(Nat) /\ sub[j].since \in Nat
        BY <4>1 DEF Subscriber
      <4>4. sub[j].got \in Seq(Ids)
        BY <4>2, <4>3, SeqOfWithin
      <4>5. sub[j].since \in 0 .. MaxEvents
        BY <2>0, <4>1, <4>3
      <4> QED BY <4>1, <4>4, <4>5 DEF Subscriber
    <3> QED BY <2>0, <3>1 DEF ReadShape
  <2>11. excused \subseteq Ids /\ dropped \subseteq Ids
    BY <2>0, <2>1, <2>6 DEF ReadShape
  <2>12. subs \in 0 .. MaxSubs /\ faults \in 0 .. MaxFaults
    BY <2>0 DEF ReadShape
  <2> QED BY <2>0, <2>3, <2>4, <2>5, <2>6, <2>7, <2>8, <2>9, <2>10, <2>11, <2>12 DEF TypeOK
<1> QED BY <1>1, BusInvariance, PTL
===============================================================================
