--------------------------- MODULE SchedulerProofs ---------------------------
(***************************************************************************)
(* The schedule of a cluster, for any number of replicas and flows, any    *)
(* periods and backoffs, and without a bound on faults other than the      *)
(* constant's: the leader's lock is never left behind, no entry lies past  *)
(* its horizon, no instant is fired twice and no alarm is false.  Every    *)
(* step is reduced to the state it leaves its replica in (Becomes).        *)
(***************************************************************************)
EXTENDS Scheduler, TLAPS

\* Every replica has the two fields the lock depends on.
Shape == /\ DOMAIN rep = Replicas
         /\ \A r \in Replicas : "up" \in DOMAIN rep[r] /\ "lead" \in DOMAIN rep[r]

LockInv == Shape /\ lock \in Replicas \cup {Nobody} /\ LockIsNotOrphaned

\* The state Init leaves behind satisfies the invariant.
LEMMA LockInvInit == Init => LockInv
  BY ScheduleAssumption DEF Init, LockInv, Shape, LockIsNotOrphaned, Down

(***************************************************************************)
(* What a step of replica r may do to the lock: Keeps leaves it and the    *)
(* flags it depends on alone.                                              *)
(***************************************************************************)
Keeps == /\ Shape' /\ lock' = lock
         /\ \A r \in Replicas : rep'[r].up = rep[r].up /\ rep'[r].lead = rep[r].lead

\* A step that leaves lock and flags alone preserves the invariant.
LEMMA KeepsLockInv == LockInv /\ Keeps => LockInv'
  BY ScheduleAssumption DEF LockInv, Keeps, LockIsNotOrphaned

\* The steps of the scheduler loop leave lock and flags alone.
LEMMA LoopKeeps == ASSUME Shape, NEW r \in Replicas, LoopStep(r) PROVE Keeps
<1>1. CASE Start(r)
  BY <1>1 DEF Start, Keeps, Shape
<1>2. CASE Rescan(r)
  BY <1>2 DEF Rescan, Keeps, Shape
<1>3. CASE TickTakeover(r)
  <2>1. PICK at, told : /\ lock' = lock
                        /\ rep' = [rep EXCEPT ![r].was = TRUE, ![r].at = at, ![r].told = told,
                                              ![r].pc = "anchored"]
    BY <1>3 DEF TickTakeover
  <2> QED BY <2>1 DEF Keeps, Shape
<1>4. CASE TickFollower(r)
  BY <1>4 DEF TickFollower, Keeps, Shape
<1>5. CASE FireDue(r)
  BY <1>5 DEF FireDue, Keeps, Shape
<1>6. ASSUME NEW f \in Flows, FireEntry(r, f) PROVE Keeps
  <2> DEFINE missed == MissedAfter(f, rep[r].streak[f], rep[r].at[f]) /\ f \notin rep[r].told
             After(end, streak) == Moved(r, f, nextFireFrom(f, streak, rep[r].clock), streak, missed, end)
  <2>1. lock' = lock /\ \E end, streak : rep' = [rep EXCEPT ![r] = After(end, streak)]
    BY <1>6 DEF FireEntry
  <2>2. PICK end, streak : rep' = [rep EXCEPT ![r] = After(end, streak)]
    BY <2>1
  <2>3. /\ DOMAIN After(end, streak) = DOMAIN rep[r]
        /\ After(end, streak).up = rep[r].up
        /\ After(end, streak).lead = rep[r].lead
    BY DEF Moved, Shape
  <2> HIDE DEF After
  <2> QED BY <2>1, <2>2, <2>3 DEF Keeps, Shape
<1> QED BY <1>1, <1>2, <1>3, <1>4, <1>5, <1>6 DEF LoopStep

\* The steps of the leader loop, restarts and crashes preserve the invariant.
LEMMA LeaderSteps ==
  ASSUME LockInv, NEW r \in Replicas,
         TryLock(r) \/ LoseSession(r) \/ PingFails(r) \/ Demote(r) \/ Boot(r) \/ Crash(r)
  PROVE  LockInv'
<1> USE ScheduleAssumption DEF LockInv, Shape, LockIsNotOrphaned
<1>1. CASE TryLock(r)
  BY <1>1 DEF TryLock
<1>2. CASE LoseSession(r)
  BY <1>2 DEF LoseSession
<1>3. CASE PingFails(r)
  BY <1>3 DEF PingFails
<1>4. CASE Demote(r)
  BY <1>4 DEF Demote
<1>5. CASE Boot(r)
  BY <1>5 DEF Boot
<1>6. CASE Crash(r)
  BY <1>6 DEF Crash, Down
<1> QED BY <1>1, <1>2, <1>3, <1>4, <1>5, <1>6

\* Every step preserves the invariant.
LEMMA LockInvStep == LockInv /\ [Next]_vars => LockInv'
<1> SUFFICES ASSUME LockInv, [Next]_vars PROVE LockInv'
  OBVIOUS
<1>1. ASSUME NEW r \in Replicas,
             TryLock(r) \/ LoseSession(r) \/ PingFails(r) \/ Demote(r) \/ Boot(r) \/ Crash(r)
      PROVE  LockInv'
  BY <1>1, LeaderSteps
<1>2. ASSUME NEW r \in Replicas, LoopStep(r) PROVE LockInv'
  BY <1>2, LoopKeeps, KeepsLockInv DEF LockInv
<1>3. CASE Tick
  BY <1>3 DEF Tick, LockInv, Shape, LockIsNotOrphaned
<1>4. ASSUME NEW f \in Flows, Edit(f) PROVE LockInv'
  BY <1>4 DEF Edit, LockInv, Shape, LockIsNotOrphaned
<1>5. CASE UNCHANGED vars
  BY <1>5 DEF vars, LockInv, Shape, LockIsNotOrphaned
<1> QED BY <1>1, <1>2, <1>3, <1>4, <1>5 DEF Next

\* leader.go: "the lock would then outlive our leadership on an idle pooled
\* connection, and no peer could take over".  It does not: for any number of
\* replicas and whatever sessions, pings and processes fail, the lock is held by
\* a live replica that acts on it, or is free.
THEOREM LockReleased == Spec => []LockIsNotOrphaned
<1>1. LockInv => LockIsNotOrphaned
  BY DEF LockInv
<1> QED BY <1>1, LockInvInit, LockInvStep, PTL DEF Spec

-----------------------------------------------------------------------------
(* When a flow fires next, in numbers.                                     *)

\* The lesser of two.
LEMMA MinOfTwo ==
  ASSUME NEW a \in Int, NEW b \in Int
  PROVE  Min({a, b}) = IF a <= b THEN a ELSE b
<1> DEFINE S == {a, b}
           m == IF a <= b THEN a ELSE b
<1>1. m \in S /\ \A y \in S : m <= y
  OBVIOUS
<1>2. \A x \in S : (\A y \in S : x <= y) => x = m
  OBVIOUS
<1> QED BY <1>1, <1>2 DEF Min

\* The doublings of an interval that the code can shift to.
LEMMA Doublings == \A k \in 1 .. 16 : 2 ^ k \in Nat /\ 2 ^ k >= 2 /\ 2 ^ k >= k /\ 2 ^ k <= 2 ^ 16
<1> SUFFICES ASSUME NEW k \in 1 .. 16 PROVE 2 ^ k \in Nat /\ 2 ^ k >= 2 /\ 2 ^ k >= k /\ 2 ^ k <= 2 ^ 16
  OBVIOUS
<1>1. CASE k = 1
  BY <1>1
<1>2. CASE k = 2
  BY <1>2
<1>3. CASE k = 3
  BY <1>3
<1>4. CASE k = 4
  BY <1>4
<1>5. CASE k = 5
  BY <1>5
<1>6. CASE k = 6
  BY <1>6
<1>7. CASE k = 7
  BY <1>7
<1>8. CASE k = 8
  BY <1>8
<1>9. CASE k = 9
  BY <1>9
<1>10. CASE k = 10
  BY <1>10
<1>11. CASE k = 11
  BY <1>11
<1>12. CASE k = 12
  BY <1>12
<1>13. CASE k = 13
  BY <1>13
<1>14. CASE k = 14
  BY <1>14
<1>15. CASE k = 15
  BY <1>15
<1>16. CASE k = 16
  BY <1>16
<1> QED BY <1>1, <1>2, <1>3, <1>4, <1>5, <1>6, <1>7, <1>8, <1>9, <1>10, <1>11, <1>12, <1>13, <1>14, <1>15, <1>16

\* A backed-off poller waits at least its period and at most the ceiling.
LEMMA IntervalIs ==
  ASSUME NEW f \in Polls, NEW streak \in Nat
  PROVE  effectiveInterval(f, streak) \in Nat /\ effectiveInterval(f, streak) \in Every[f] .. Ceiling
<1> DEFINE shift == Min({streak - Grace + 1, 16})
           mult == IF streak >= Grace THEN Min({2 ^ shift, MaxMult}) ELSE 1
<1>1. /\ Grace \in Nat /\ MaxMult \in Nat \ {0} /\ Ceiling \in Nat
      /\ Every[f] \in Nat \ {0} /\ Every[f] <= Ceiling
  BY ScheduleAssumption
<1>2. ASSUME streak >= Grace PROVE shift \in 1 .. 16
  <2>1. streak - Grace + 1 \in Int /\ streak - Grace + 1 >= 1
    BY <1>1, <1>2
  <2>2. shift = IF streak - Grace + 1 <= 16 THEN streak - Grace + 1 ELSE 16
    BY <2>1, MinOfTwo
  <2> HIDE DEF shift
  <2> QED BY <2>1, <2>2
<1> HIDE DEF shift
<1>3. mult \in Nat \ {0}
  <2>1. CASE streak >= Grace
    <3>1. 2 ^ shift \in Nat /\ 2 ^ shift >= 2
      BY <1>2, <2>1, Doublings
    <3> DEFINE d == 2 ^ shift
    <3>2. d \in Nat /\ d >= 2
      BY <3>1
    <3> HIDE DEF d
    <3>3. Min({d, MaxMult}) = IF d <= MaxMult THEN d ELSE MaxMult
      BY <1>1, <3>2, MinOfTwo
    <3>4. Min({d, MaxMult}) \in Nat \ {0}
      BY <1>1, <3>2, <3>3
    <3> QED BY <2>1, <3>4 DEF d
  <2>2. CASE ~(streak >= Grace)
    BY <2>2
  <2> QED BY <2>1, <2>2
<1>4. effectiveInterval(f, streak) = Min({Every[f] * mult, Ceiling})
  BY DEF effectiveInterval, shift
<1> HIDE DEF mult
<1> DEFINE w == Every[f] * mult
<1>5. w \in Nat /\ w >= Every[f]
  <2>1. ASSUME NEW a \in Nat, NEW b \in Nat \ {0} PROVE a * b \in Nat /\ a * b >= a
    <3>1. a * b = a * (b - 1) + a /\ b - 1 \in Nat
      OBVIOUS
    <3>2. a * (b - 1) \in Nat
      BY <3>1
    <3> QED BY <3>1, <3>2
  <2> QED BY <1>1, <1>3, <2>1
<1>6. effectiveInterval(f, streak) = Min({w, Ceiling})
  BY <1>4
<1> HIDE DEF w
<1>7. Min({w, Ceiling}) = IF w <= Ceiling THEN w ELSE Ceiling
  BY <1>1, <1>5, MinOfTwo
<1> QED BY <1>1, <1>5, <1>6, <1>7

\* Rounding down to a period keeps the order.
LEMMA RoundsInOrder ==
  ASSUME NEW E \in Nat \ {0}, NEW a \in Nat, NEW b \in Nat, a <= b
  PROVE  a - (a % E) <= b - (b % E)
<1>1. a = E * (a \div E) + (a % E) /\ a \div E \in Nat /\ a % E \in 0 .. E - 1
  OBVIOUS
<1>2. b = E * (b \div E) + (b % E) /\ b \div E \in Nat /\ b % E \in 0 .. E - 1
  OBVIOUS
<1> DEFINE x == a \div E
           y == b \div E
<1>3. x <= y
  <2> SUFFICES ASSUME x > y PROVE FALSE
    BY <1>1, <1>2
  <2>1. x \in Nat /\ y \in Nat /\ x >= y + 1
    BY <1>1, <1>2
  <2> HIDE DEF x, y
  <2>2. E * x >= E * (y + 1)
    BY <2>1
  <2>3. E * (y + 1) = E * y + E
    BY <2>1
  <2> QED BY <1>1, <1>2, <2>1, <2>2, <2>3 DEF x, y
<1>4. E * x <= E * y
  BY <1>1, <1>2, <1>3
<1> QED BY <1>1, <1>2, <1>4

\* A fire lies ahead of the clock and within the flow's horizon.
LEMMA FireIs ==
  ASSUME NEW f \in Flows, NEW streak \in Nat, NEW t \in 0 .. MaxTime
  PROVE  /\ nextFireFrom(f, streak, t) \in Nat /\ t < nextFireFrom(f, streak, t)
         /\ nextFireFrom(f, streak, t) <= Horizon(f)
         /\ staggeredNextFire(f, streak, t) \in Nat /\ t < staggeredNextFire(f, streak, t)
         /\ staggeredNextFire(f, streak, t) <= Horizon(f)
<1> DEFINE E == Every[f]
           J == Jitter[f]
<1>1. /\ MaxTime \in Nat /\ E \in Nat \ {0} /\ J \in Nat /\ 4 * J < E /\ Ceiling \in Nat
      /\ f \notin Polls => J = 0
  BY ScheduleAssumption
<1> HIDE DEF E, J
<1>2. CASE f \in Polls
  <2> DEFINE e == effectiveInterval(f, streak)
  <2>1. e \in Nat /\ e \in E .. Ceiling
    BY <1>2, IntervalIs DEF E
  <2>2. nextFireFrom(f, streak, t) = t + e /\ Horizon(f) = MaxTime + Ceiling
    BY <1>2 DEF nextFireFrom, Horizon
  <2>3. staggeredNextFire(f, streak, t) = nextFireFrom(f, streak, t) - J
    BY DEF staggeredNextFire, J
  <2> HIDE DEF e
  <2>4. E <= e /\ e <= Ceiling /\ J < E
    BY <1>1, <2>1
  <2> QED BY <1>1, <2>1, <2>2, <2>4, <2>3
<1>3. CASE f \notin Polls
  <2>1. nextFireFrom(f, streak, t) = t - (t % E) + E /\ Horizon(f) = MaxTime + E
    BY <1>3, Zenon DEF nextFireFrom, Horizon, E
  <2>2. staggeredNextFire(f, streak, t) = nextFireFrom(f, streak, t) - J
    BY DEF staggeredNextFire, J
  <2>3. t % E \in 0 .. E - 1 /\ t % E <= t
    <3>1. t = E * (t \div E) + (t % E) /\ t \div E \in Nat /\ t % E \in 0 .. E - 1
      BY <1>1
    <3>2. E * (t \div E) \in Nat
      BY <1>1, <3>1
    <3> QED BY <3>1, <3>2
  <2> QED BY <1>1, <1>3, <2>1, <2>3, <2>2
<1> QED BY <1>2, <1>3

\* A cron schedule's next instant moves with the clock, whatever the streaks.
LEMMA CronInOrder ==
  ASSUME NEW f \in Flows \ Polls, NEW a \in Nat, NEW b \in Nat, a <= b, NEW s1, NEW s2
  PROVE  nextFireFrom(f, s1, a) <= nextFireFrom(f, s2, b) /\ staggeredNextFire(f, s2, b) = nextFireFrom(f, s2, b)
<1> DEFINE E == Every[f]
<1>1. E \in Nat \ {0} /\ Jitter[f] = 0
  BY ScheduleAssumption
<1>2. nextFireFrom(f, s1, a) = a - (a % E) + E /\ nextFireFrom(f, s2, b) = b - (b % E) + E
  BY DEF nextFireFrom
<1> HIDE DEF E
<1>3. a - (a % E) <= b - (b % E) /\ a % E \in Int /\ b % E \in Int
  BY <1>1, RoundsInOrder
<1> QED BY <1>1, <1>2, <1>3 DEF staggeredNextFire

-----------------------------------------------------------------------------
(* What the steps of a replica do to it.                                   *)

\* Replica r takes the state v, the others keep theirs.
Becomes(r, v) ==
    /\ rep' \in [Replicas -> Reps] /\ rep'[r] = v
    /\ \A q \in Replicas \ {r} : rep'[q] = rep[q]

\* An update of one replica.
LEMMA BecomesIs ==
  ASSUME TypeOK, NEW r \in Replicas, NEW v \in Reps, rep' = [rep EXCEPT ![r] = v]
  PROVE  Becomes(r, v)
  BY DEF TypeOK, Becomes

\* The leader loop changes the flag.
LEMMA LeadEffect ==
  ASSUME TypeOK, NEW r \in Replicas, NEW x \in {"follow", "hold", "leave"}, rep' = [rep EXCEPT ![r].lead = x]
  PROVE  \E v \in Reps : /\ Becomes(r, v) /\ v.lead = x /\ v.up = rep[r].up /\ v.was = rep[r].was
                         /\ v.pc = rep[r].pc /\ v.clock = rep[r].clock /\ v.left = rep[r].left
                         /\ v.at = rep[r].at
<1> DEFINE v == [rep[r] EXCEPT !.lead = x]
<1>1. rep[r] \in Reps /\ rep' = [rep EXCEPT ![r] = v]
  BY DEF TypeOK
<1>2. /\ v \in Reps /\ v.lead = x /\ v.up = rep[r].up /\ v.was = rep[r].was
      /\ v.pc = rep[r].pc /\ v.clock = rep[r].clock /\ v.left = rep[r].left
      /\ v.at = rep[r].at
  BY <1>1 DEF Reps
<1> HIDE DEF v
<1> QED BY <1>1, <1>2, BecomesIs

\* The process comes up.
LEMMA BootEffect ==
  ASSUME TypeOK, NEW r \in Replicas, Boot(r)
  PROVE  \E v \in Reps : /\ Becomes(r, v) /\ v.lead = rep[r].lead /\ v.was = rep[r].was
                         /\ v.pc = rep[r].pc /\ v.clock = rep[r].clock /\ v.left = rep[r].left
                         /\ v.at = rep[r].at
<1> DEFINE v == [rep[r] EXCEPT !.up = TRUE]
<1>1. rep[r] \in Reps /\ rep' = [rep EXCEPT ![r] = v]
  BY DEF TypeOK, Boot
<1>2. /\ v \in Reps /\ v.lead = rep[r].lead /\ v.was = rep[r].was
      /\ v.pc = rep[r].pc /\ v.clock = rep[r].clock /\ v.left = rep[r].left
      /\ v.at = rep[r].at
  BY <1>1 DEF Reps
<1> HIDE DEF v
<1> QED BY <1>1, <1>2, BecomesIs

\* A stopped process is a state a replica can be in.
LEMMA DownIs == /\ Down \in Reps /\ Down.lead = "follow" /\ Down.pc = "boot" /\ Down.was = FALSE /\ Down.left = {}
                /\ Down.clock = 0 /\ \A f \in Flows : Down.at[f] = 0
  BY ScheduleAssumption DEF Down, Reps, Widest

\* The entries a rescan leaves behind.
LEMMA AppliedIs ==
  ASSUME TypeOK, NEW r \in Replicas
  PROVE  /\ Applied(r) \in [Flows -> Nat]
         /\ \A f \in Flows : /\ Applied(r)[f] <= Horizon(f)
                             /\ \/ Applied(r)[f] = 0 \/ Applied(r)[f] = rep[r].at[f]
                                \/ Applied(r)[f] = staggeredNextFire(f, 0, now)
<1>1. rep[r].at \in [Flows -> Nat] /\ now \in 0 .. MaxTime /\ \A f \in Flows : rep[r].at[f] <= Horizon(f)
  BY DEF TypeOK, Reps
<1>2. ASSUME NEW f \in Flows PROVE Horizon(f) \in Nat
  BY ScheduleAssumption DEF Horizon
<1>3. ASSUME NEW f \in Flows PROVE staggeredNextFire(f, 0, now) \in Nat /\ staggeredNextFire(f, 0, now) <= Horizon(f)
  BY <1>1, FireIs
<1> QED BY <1>1, <1>2, <1>3 DEF Applied

\* Start and Rescan.
LEMMA ScanEffect ==
  ASSUME TypeOK, NEW r \in Replicas, Start(r) \/ Rescan(r)
  PROVE  \E v \in Reps : /\ Becomes(r, v) /\ v.at = Applied(r) /\ v.pc = "idle" /\ v.lead = rep[r].lead
                         /\ v.was = (IF rep[r].pc = "boot" THEN IsLeader(r) ELSE rep[r].was)
                         /\ v.clock = rep[r].clock /\ v.left = rep[r].left
                         /\ rep[r].pc \in {"boot", "idle"}
<1>1. rep[r] \in Reps /\ Applied(r) \in [Flows -> Nat] /\ IsLeader(r) \in BOOLEAN
  BY AppliedIs DEF TypeOK, IsLeader
<1>2. CASE Start(r)
  <2> DEFINE v == [rep[r] EXCEPT !.pc = "idle", !.at = Applied(r), !.was = IsLeader(r)]
  <2>1. rep' = [rep EXCEPT ![r] = v] /\ rep[r].pc = "boot"
    BY <1>2 DEF TypeOK, Start
  <2>2. /\ v \in Reps /\ v.at = Applied(r) /\ v.pc = "idle" /\ v.lead = rep[r].lead
        /\ v.was = IsLeader(r) /\ v.clock = rep[r].clock /\ v.left = rep[r].left
    BY <1>1 DEF Reps
  <2> HIDE DEF v
  <2> QED BY <2>1, <2>2, BecomesIs
<1>3. CASE Rescan(r)
  <2> DEFINE str == [f \in Flows |-> IF rep[r].at[f] = 0 THEN 0 ELSE rep[r].streak[f]]
             v == [rep[r] EXCEPT !.at = Applied(r), !.streak = str]
  <2>1. rep' = [rep EXCEPT ![r] = v] /\ rep[r].pc = "idle"
    BY <1>3 DEF TypeOK, Rescan
  <2>2. str \in [Flows -> 0 .. Widest]
    BY <1>1, ScheduleAssumption DEF Reps, Widest
  <2> HIDE DEF str
  <2>3. /\ v \in Reps /\ v.at = Applied(r) /\ v.pc = rep[r].pc /\ v.lead = rep[r].lead
        /\ v.was = rep[r].was /\ v.clock = rep[r].clock /\ v.left = rep[r].left
    BY <1>1, <2>2 DEF Reps
  <2> HIDE DEF v
  <2> QED BY <2>1, <2>3, BecomesIs
<1> QED BY <1>2, <1>3

\* The takeover.
LEMMA TakeoverEffect ==
  ASSUME TypeOK, NEW r \in Replicas, TickTakeover(r)
  PROVE  \E v \in Reps, report \in SUBSET Flows :
            /\ Becomes(r, v) /\ v.pc = "anchored" /\ v.was = TRUE /\ v.lead = rep[r].lead
            /\ v.clock = rep[r].clock /\ v.left = rep[r].left /\ IsLeader(r) /\ rep[r].pc = "idle"
            /\ \A f \in Flows : /\ v.at[f] <= Horizon(f)
                                /\ v.at[f] = 0 \/ v.at[f] = staggeredNextFire(f, rep[r].streak[f], now)
            /\ last' = [f \in Flows |-> IF f \in report THEN now ELSE last[f]]
            /\ due' = Owes(r, v.at, report)
            /\ report \subseteq Missed(r) /\ v.told = rep[r].told \cup report
            /\ \A f \in report : v.at[f] = staggeredNextFire(f, rep[r].streak[f], now)
<1> DEFINE at == [f \in Flows |-> IF f \in Tracked(r) THEN staggeredNextFire(f, rep[r].streak[f], now) ELSE 0]
<1>1. /\ IsLeader(r) /\ rep[r].pc = "idle"
      /\ \E report \in SUBSET (Missed(r) \ rep[r].told) :
           /\ rep' = [rep EXCEPT ![r].was = TRUE, ![r].at = at, ![r].told = @ \cup report, ![r].pc = "anchored"]
           /\ last' = [f \in Flows |-> IF f \in report THEN now ELSE last[f]]
           /\ due' = Owes(r, at, report)
  BY DEF TickTakeover
<1>2. PICK report \in SUBSET (Missed(r) \ rep[r].told) :
           /\ rep' = [rep EXCEPT ![r].was = TRUE, ![r].at = at, ![r].told = @ \cup report, ![r].pc = "anchored"]
           /\ last' = [f \in Flows |-> IF f \in report THEN now ELSE last[f]]
           /\ due' = Owes(r, at, report)
  BY <1>1
<1>3. report \in SUBSET Flows /\ rep[r] \in Reps
  BY DEF Missed, Tracked, TypeOK
<1>4. ASSUME NEW f \in Flows
      PROVE  /\ staggeredNextFire(f, rep[r].streak[f], now) \in Nat
             /\ staggeredNextFire(f, rep[r].streak[f], now) <= Horizon(f)
             /\ Horizon(f) \in Nat
  <2>1. rep[r].streak[f] \in Nat /\ now \in 0 .. MaxTime /\ Horizon(f) \in Nat
    BY <1>3, ScheduleAssumption DEF TypeOK, Reps, Horizon
  <2> QED BY <2>1, FireIs
<1>5. /\ at \in [Flows -> Nat]
      /\ \A f \in Flows : /\ at[f] <= Horizon(f)
                          /\ at[f] = 0 \/ at[f] = staggeredNextFire(f, rep[r].streak[f], now)
  BY <1>4
<1>6. report \subseteq Missed(r) /\ \A f \in report : at[f] = staggeredNextFire(f, rep[r].streak[f], now)
  <2>1. report \subseteq Missed(r) /\ Missed(r) \subseteq Tracked(r) /\ Tracked(r) \subseteq Flows
    BY DEF Missed, Tracked
  <2> QED BY <2>1
<1> HIDE DEF at
<1> DEFINE v == [rep[r] EXCEPT !.was = TRUE, !.at = at, !.told = @ \cup report, !.pc = "anchored"]
<1>7. rep' = [rep EXCEPT ![r] = v]
  BY <1>2 DEF TypeOK
<1>8. /\ v \in Reps /\ v.pc = "anchored" /\ v.was = TRUE /\ v.lead = rep[r].lead /\ v.at = at
      /\ v.clock = rep[r].clock /\ v.left = rep[r].left /\ v.told = rep[r].told \cup report
  BY <1>3, <1>5 DEF Reps
<1> HIDE DEF v
<1>9. Becomes(r, v)
  BY <1>7, <1>8, BecomesIs
<1> v \in Reps /\ report \in SUBSET Flows
  BY <1>3, <1>8
<1> WITNESS v \in Reps, report \in SUBSET Flows
<1>10. \A f \in Flows : /\ v.at[f] <= Horizon(f)
                        /\ v.at[f] = 0 \/ v.at[f] = staggeredNextFire(f, rep[r].streak[f], now)
  BY <1>5, <1>8
<1>11. due' = Owes(r, v.at, report) /\ \A f \in report : v.at[f] = staggeredNextFire(f, rep[r].streak[f], now)
  BY <1>2, <1>8, <1>6
<1>12. last' = [f \in Flows |-> IF f \in report THEN now ELSE last[f]]
  BY <1>2
<1> QED BY <1>1, <1>8, <1>9, <1>6, <1>10, <1>11, <1>12, Zenon

\* The list of due entries, and the tick of a replica that leads no longer.
LEMMA ListEffect ==
  ASSUME TypeOK, NEW r \in Replicas, FireDue(r)
  PROVE  \E v \in Reps : /\ Becomes(r, v) /\ v.at = rep[r].at /\ v.lead = rep[r].lead /\ v.was = rep[r].was
                         /\ v.pc = (IF Due(r) = {} THEN "idle" ELSE "firing") /\ v.left = Due(r)
                         /\ v.clock = (IF Due(r) = {} THEN 0 ELSE now)
<1>1. rep[r] \in Reps /\ Due(r) \in SUBSET Flows /\ now \in 0 .. MaxTime /\ MaxTime \in Nat
  BY ScheduleAssumption DEF TypeOK, Due, Tracked
<1> DEFINE pc == IF Due(r) = {} THEN "idle" ELSE "firing"
           clock == IF Due(r) = {} THEN 0 ELSE now
           v == [rep[r] EXCEPT !.pc = pc, !.clock = clock, !.left = Due(r)]
<1>2. rep' = [rep EXCEPT ![r] = v]
  BY DEF TypeOK, FireDue
<1>3. pc \in {"idle", "firing"} /\ clock \in 0 .. MaxTime
  BY <1>1
<1> HIDE DEF pc, clock
<1>4. /\ v \in Reps /\ v.at = rep[r].at /\ v.lead = rep[r].lead /\ v.was = rep[r].was
      /\ v.pc = pc /\ v.left = Due(r) /\ v.clock = clock
  BY <1>1, <1>3 DEF Reps
<1> HIDE DEF v
<1>5. Becomes(r, v)
  BY <1>2, <1>4, BecomesIs
<1> QED BY <1>4, <1>5 DEF pc, clock

\* The tick of a replica that leads no longer.
LEMMA FollowEffect ==
  ASSUME TypeOK, NEW r \in Replicas, TickFollower(r)
  PROVE  \E v \in Reps : /\ Becomes(r, v) /\ v.at = rep[r].at /\ v.lead = rep[r].lead /\ v.was = FALSE
                         /\ v.pc = rep[r].pc /\ v.left = rep[r].left /\ v.clock = rep[r].clock
<1> DEFINE v == [rep[r] EXCEPT !.was = FALSE]
<1>1. rep[r] \in Reps /\ rep' = [rep EXCEPT ![r] = v]
  BY DEF TypeOK, TickFollower
<1>2. /\ v \in Reps /\ v.at = rep[r].at /\ v.lead = rep[r].lead /\ v.was = FALSE
      /\ v.pc = rep[r].pc /\ v.left = rep[r].left /\ v.clock = rep[r].clock
  BY <1>1 DEF Reps
<1> HIDE DEF v
<1> QED BY <1>1, <1>2, BecomesIs

\* The fire of one entry.
LEMMA FireEffect ==
  ASSUME TypeOK, NEW r \in Replicas, NEW f \in Flows, FireEntry(r, f)
  PROVE  /\ rep[r].pc = "firing" /\ f \in rep[r].left /\ UNCHANGED <<now, lock, published, split>>
         /\ \E v \in Reps, streak \in Nat :
            /\ Becomes(r, v) /\ v.lead = rep[r].lead /\ v.was = rep[r].was
            /\ v.left = rep[r].left \ {f}
            /\ v.pc = (IF rep[r].left \ {f} = {} THEN "idle" ELSE "firing")
            /\ v.clock = (IF rep[r].left \ {f} = {} THEN 0 ELSE rep[r].clock)
            /\ v.at = [rep[r].at EXCEPT ![f] = nextFireFrom(f, streak, rep[r].clock)]
            /\ due' = [due EXCEPT ![f] = nextFireFrom(f, streak, rep[r].clock)]
            /\ streak <= Widest /\ v.told \subseteq rep[r].told \cup {f}
         /\ \A g \in Flows \ {f} : last'[g] = last[g] /\ (g \in silent' <=> g \in silent)
         /\ f \in silent' \/ last'[f] = now
         /\ last' \in [Flows -> 0 .. MaxTime] /\ silent' \in SUBSET Flows /\ faults' \in 0 .. MaxFaults
         /\ \/ fired' = fired
            \/ f \notin Polls /\ fired' = [fired EXCEPT ![f] = rep[r].clock]
<1> DEFINE missed == MissedAfter(f, rep[r].streak[f], rep[r].at[f]) /\ f \notin rep[r].told
           clock == rep[r].clock
           Ends == IF f \notin published THEN {"passed over"}
                   ELSE {"run"} \cup {e \in {"refused"} : faults < MaxFaults}
           Streaks == IF f \in Polls THEN {rep[r].streak[f], 0, Min({rep[r].streak[f] + 1, Widest})} ELSE {0}
           noted(end) == missed \/ end = "run" \/ (end = "refused" /\ f \notin rep[r].skipped)
<1>1. /\ rep[r].pc = "firing" /\ f \in rep[r].left /\ UNCHANGED <<now, lock, published, split>>
      /\ \E end \in Ends, streak \in Streaks :
           /\ rep' = [rep EXCEPT ![r] = Moved(r, f, nextFireFrom(f, streak, clock), streak, missed, end)]
           /\ due' = [due EXCEPT ![f] = nextFireFrom(f, streak, clock)]
           /\ last' = [last EXCEPT ![f] = IF noted(end) THEN now ELSE @]
           /\ fired' = IF end = "run" /\ f \notin Polls THEN [fired EXCEPT ![f] = clock] ELSE fired
           /\ silent' = IF noted(end) THEN silent \ {f} ELSE silent \cup {f}
           /\ faults' = IF end = "refused" THEN faults + 1 ELSE faults
  BY DEF FireEntry
<1>2. PICK end \in Ends, streak \in Streaks :
           /\ rep' = [rep EXCEPT ![r] = Moved(r, f, nextFireFrom(f, streak, clock), streak, missed, end)]
           /\ due' = [due EXCEPT ![f] = nextFireFrom(f, streak, clock)]
           /\ last' = [last EXCEPT ![f] = IF noted(end) THEN now ELSE @]
           /\ fired' = IF end = "run" /\ f \notin Polls THEN [fired EXCEPT ![f] = clock] ELSE fired
           /\ silent' = IF noted(end) THEN silent \ {f} ELSE silent \cup {f}
           /\ faults' = IF end = "refused" THEN faults + 1 ELSE faults
  BY <1>1
<1> HIDE DEF missed, Ends, Streaks
<1>3. /\ rep[r] \in Reps /\ clock \in 0 .. MaxTime /\ rep[r].streak \in [Flows -> 0 .. Widest] /\ Widest \in Nat
      /\ rep[r].left \in SUBSET Flows /\ rep[r].at \in [Flows -> Nat] /\ MaxTime \in Nat
      /\ rep[r].told \in SUBSET Flows /\ rep[r].skipped \in SUBSET Flows
  <2>1. rep[r] \in Reps
    BY DEF TypeOK
  <2>2. MaxTime \in Nat /\ Widest \in Nat
    BY ScheduleAssumption DEF Widest
  <2> QED BY <2>1, <2>2 DEF Reps
<1>4. streak \in 0 .. Widest
  <2> DEFINE s == rep[r].streak[f]
  <2>1. s \in 0 .. Widest
    BY <1>3
  <2> HIDE DEF s
  <2>2. Min({s + 1, Widest}) = IF s + 1 <= Widest THEN s + 1 ELSE Widest
    BY <1>3, <2>1, MinOfTwo
  <2>3. Min({s + 1, Widest}) \in 0 .. Widest
    BY <1>3, <2>1, <2>2
  <2>4. streak \in {s, 0, Min({s + 1, Widest})}
    BY DEF s, Streaks
  <2> QED BY <1>3, <2>1, <2>3, <2>4
<1> DEFINE at == nextFireFrom(f, streak, clock)
<1>5. at \in Nat
  <2>1. streak \in Nat
    BY <1>3, <1>4
  <2> QED BY <1>3, <2>1, FireIs
<1>6. last' \in [Flows -> 0 .. MaxTime] /\ silent' \in SUBSET Flows
  <2>1. last \in [Flows -> 0 .. MaxTime] /\ silent \in SUBSET Flows /\ now \in 0 .. MaxTime
    BY DEF TypeOK
  <2>2. last' = last \/ last' = [last EXCEPT ![f] = now]
    BY <1>2, <2>1
  <2>3. silent' = silent \ {f} \/ silent' = silent \cup {f}
    BY <1>2
  <2> QED BY <2>1, <2>2, <2>3
<1>7. /\ \A g \in Flows \ {f} : last'[g] = last[g] /\ (g \in silent' <=> g \in silent)
      /\ f \in silent' \/ last'[f] = now
  <2>1. last \in [Flows -> 0 .. MaxTime]
    BY DEF TypeOK
  <2>2. CASE noted(end)
    BY <1>2, <2>1, <2>2
  <2>3. CASE ~noted(end)
    BY <1>2, <2>1, <2>3
  <2> QED BY <2>2, <2>3
<1>8. faults' \in 0 .. MaxFaults
  <2>1. faults \in 0 .. MaxFaults /\ MaxFaults \in Nat
    BY ScheduleAssumption DEF TypeOK
  <2>2. end = "refused" => faults < MaxFaults
    BY DEF Ends
  <2> QED BY <1>2, <2>1, <2>2
<1>9. fired' = fired \/ (f \notin Polls /\ fired' = [fired EXCEPT ![f] = clock])
  BY <1>2
<1> HIDE DEF at
<1> DEFINE v == Moved(r, f, at, streak, missed, end)
<1>10. /\ v \in Reps /\ v.lead = rep[r].lead /\ v.was = rep[r].was
       /\ v.left = rep[r].left \ {f}
       /\ v.pc = (IF rep[r].left \ {f} = {} THEN "idle" ELSE "firing")
       /\ v.clock = (IF rep[r].left \ {f} = {} THEN 0 ELSE clock)
       /\ v.at = [rep[r].at EXCEPT ![f] = at] /\ v.told \subseteq rep[r].told \cup {f}
  <2> DEFINE rest == rep[r].left \ {f}
             pc == IF rest = {} THEN "idle" ELSE "firing"
             cl == IF rest = {} THEN 0 ELSE clock
             ats == [rep[r].at EXCEPT ![f] = at]
             strs == [rep[r].streak EXCEPT ![f] = streak]
             told == IF missed THEN rep[r].told \cup {f} ELSE rep[r].told
             skip == IF end = "refused" THEN rep[r].skipped \cup {f} ELSE rep[r].skipped
             u == [rep[r] EXCEPT !.left = rest, !.pc = pc, !.clock = cl, !.at = ats, !.streak = strs,
                                 !.told = told, !.skipped = skip]
  <2>1. v = u
    BY <1>3 DEF Moved, Reps
  <2>2. /\ rest \in SUBSET Flows /\ pc \in {"idle", "firing"} /\ cl \in 0 .. MaxTime /\ ats \in [Flows -> Nat]
        /\ strs \in [Flows -> 0 .. Widest] /\ told \in SUBSET Flows /\ skip \in SUBSET Flows
    BY <1>3, <1>4, <1>5
  <2>3. told \subseteq rep[r].told \cup {f}
    OBVIOUS
  <2> HIDE DEF v, rest, pc, cl, ats, strs, told, skip
  <2>4. /\ u \in Reps /\ u.lead = rep[r].lead /\ u.was = rep[r].was
        /\ u.left = rest /\ u.pc = pc /\ u.clock = cl /\ u.at = ats /\ u.told = told
    BY <1>3, <2>2 DEF Reps
  <2> HIDE DEF u
  <2> QED BY <2>1, <2>4, <2>3 DEF rest, pc, cl, ats
<1>11. rep' = [rep EXCEPT ![r] = v]
  BY <1>2 DEF at
<1> HIDE DEF v
<1>12. Becomes(r, v)
  BY <1>10, <1>11, BecomesIs
<1>13. due' = [due EXCEPT ![f] = at] /\ streak \in Nat /\ streak <= Widest
  BY <1>2, <1>3, <1>4 DEF at
<1> QED BY <1>1, <1>6, <1>8, <1>9, <1>10, <1>12, <1>13, <1>7 DEF at

-----------------------------------------------------------------------------
(* Types.                                                                  *)

\* What the other steps do to the types: nothing.
Plain == /\ now' \in 0 .. MaxTime /\ lock' \in Replicas \cup {Nobody} /\ published' \in SUBSET Flows
         /\ last' \in [Flows -> 0 .. MaxTime] /\ fired' \in [Flows \ Polls -> 0 .. MaxTime]
         /\ split' \in BOOLEAN /\ silent' \in SUBSET Flows /\ faults' \in 0 .. MaxFaults

\* The parts of the state no replica's entry is in.
LEMMA PlainIs ==
  ASSUME TypeOK, now' = now, UNCHANGED <<published, last, fired, split, silent>>,
         lock' \in {lock, Nobody} \cup Replicas, faults' \in {faults} \/ (faults < MaxFaults /\ faults' = faults + 1)
  PROVE  Plain
<1>1. faults' \in 0 .. MaxFaults
  BY ScheduleAssumption DEF TypeOK
<1> QED BY <1>1 DEF TypeOK, Plain

\* A step of one replica is well typed if its entries are within their horizons.
LEMMA TypeOne ==
  ASSUME TypeOK, Plain, NEW r \in Replicas, NEW v \in Reps, Becomes(r, v), due' \in [Flows -> Nat],
         \A f \in Flows : v.at[f] <= Horizon(f) /\ due'[f] <= Horizon(f)
  PROVE  TypeOK'
<1>1. \A f \in Flows : \A q \in Replicas : rep'[q].at[f] <= Horizon(f)
  BY DEF TypeOK, Becomes
<1>2. rep' \in [Replicas -> Reps]
  BY DEF Becomes
<1> QED BY <1>1, <1>2 DEF TypeOK, Plain

\* The same when the entries and what is owed stay.
LEMMA TypeSame ==
  ASSUME TypeOK, Plain, NEW r \in Replicas, NEW v \in Reps, Becomes(r, v), UNCHANGED due, v.at = rep[r].at
  PROVE  TypeOK'
<1>1. due' \in [Flows -> Nat] /\ \A f \in Flows : v.at[f] <= Horizon(f) /\ due'[f] <= Horizon(f)
  BY DEF TypeOK
<1> QED BY <1>1, TypeOne

\* What is owed follows the entries of the leader, and only comes nearer.
LEMMA OwesAre ==
  ASSUME TypeOK, NEW r \in Replicas, NEW at \in [Flows -> Nat], NEW report, NEW f \in Flows
  PROVE  /\ Owes(r, at, report)[f] \in {due[f], at[f]}
         /\ ~IsLeader(r) \/ at[f] = 0 => Owes(r, at, report)[f] = due[f]
         /\ IsLeader(r) /\ at[f] # 0 => Owes(r, at, report)[f] # 0 /\ Owes(r, at, report)[f] <= at[f]
         /\ f \notin report /\ due[f] # 0 => Owes(r, at, report)[f] # 0 /\ Owes(r, at, report)[f] <= due[f]
<1>1. due[f] \in Nat /\ at[f] \in Nat
  BY DEF TypeOK
<1>2. Min({due[f], at[f]}) = IF due[f] <= at[f] THEN due[f] ELSE at[f]
  BY <1>1, MinOfTwo
<1>3. Owes(r, at, report)[f] = IF ~IsLeader(r) \/ at[f] = 0 THEN due[f]
                               ELSE IF due[f] = 0 \/ f \in report THEN at[f]
                               ELSE IF due[f] <= at[f] THEN due[f] ELSE at[f]
  BY <1>2 DEF Owes
<1> QED BY <1>1, <1>3

\* It stays within the horizon.
LEMMA OwesIs ==
  ASSUME TypeOK, NEW r \in Replicas, NEW at \in [Flows -> Nat], \A f \in Flows : at[f] <= Horizon(f), NEW report
  PROVE  Owes(r, at, report) \in [Flows -> Nat] /\ \A f \in Flows : Owes(r, at, report)[f] <= Horizon(f)
<1> DEFINE o == Owes(r, at, report)
<1>1. \A f \in Flows : o[f] \in {due[f], at[f]}
  BY OwesAre
<1>2. DOMAIN o = Flows /\ o = [f \in Flows |-> o[f]]
  BY DEF Owes
<1> HIDE DEF o
<1>3. \A f \in Flows : o[f] \in Nat /\ o[f] <= Horizon(f)
  BY <1>1 DEF TypeOK
<1> QED BY <1>2, <1>3 DEF o

\* The state stays well formed.
LEMMA TypeStep == TypeOK /\ [Next]_vars => TypeOK'
<1> SUFFICES ASSUME TypeOK, [Next]_vars PROVE TypeOK'
  OBVIOUS
<1>1. ASSUME NEW r \in Replicas, TryLock(r) PROVE TypeOK'
  <2>1. /\ rep' = [rep EXCEPT ![r].lead = "hold"] /\ UNCHANGED <<now, published, last, fired, due, silent, faults>>
        /\ lock' = r /\ split' \in BOOLEAN
    BY <1>1 DEF TryLock
  <2>2. Plain
    BY <2>1 DEF TypeOK, Plain
  <2>3. PICK v \in Reps : Becomes(r, v) /\ v.at = rep[r].at
    BY <2>1, LeadEffect
  <2> QED BY <2>1, <2>2, <2>3, TypeSame
<1>2. ASSUME NEW r \in Replicas, LoseSession(r) PROVE TypeOK'
  <2>1. Plain /\ UNCHANGED <<rep, due>>
    BY <1>2, PlainIs DEF LoseSession
  <2> QED BY <2>1 DEF TypeOK, Plain
<1>3. ASSUME NEW r \in Replicas, PingFails(r) PROVE TypeOK'
  <2>1. Plain /\ UNCHANGED due /\ rep' = [rep EXCEPT ![r].lead = "leave"]
    BY <1>3, PlainIs DEF PingFails
  <2>2. PICK v \in Reps : Becomes(r, v) /\ v.at = rep[r].at
    BY <2>1, LeadEffect
  <2> QED BY <2>1, <2>2, TypeSame
<1>4. ASSUME NEW r \in Replicas, Demote(r) PROVE TypeOK'
  <2>1. Plain /\ UNCHANGED due /\ rep' = [rep EXCEPT ![r].lead = "follow"]
    BY <1>4, PlainIs DEF Demote
  <2>2. PICK v \in Reps : Becomes(r, v) /\ v.at = rep[r].at
    BY <2>1, LeadEffect
  <2> QED BY <2>1, <2>2, TypeSame
<1>5. ASSUME NEW r \in Replicas, Boot(r) PROVE TypeOK'
  <2>1. Plain /\ UNCHANGED due
    BY <1>5, PlainIs DEF Boot
  <2> QED BY <1>5, <2>1, BootEffect, TypeSame
<1>6. ASSUME NEW r \in Replicas, Crash(r) PROVE TypeOK'
  <2>1. Plain /\ UNCHANGED due /\ rep' = [rep EXCEPT ![r] = Down]
    BY <1>6, PlainIs DEF Crash
  <2>2. Becomes(r, Down)
    BY <2>1, DownIs, BecomesIs
  <2>3. due' \in [Flows -> Nat] /\ \A f \in Flows : due'[f] <= Horizon(f) /\ Horizon(f) \in Nat
    BY <2>1, ScheduleAssumption DEF TypeOK, Horizon
  <2>4. \A f \in Flows : Down.at[f] <= Horizon(f)
    BY <2>3, DownIs
  <2> QED BY <2>1, <2>2, <2>3, <2>4, DownIs, TypeOne
<1>7. ASSUME NEW r \in Replicas, Start(r) \/ Rescan(r) PROVE TypeOK'
  <2>1. Plain /\ due' = Owes(r, Applied(r), {})
    BY <1>7, PlainIs DEF Start, Rescan
  <2>2. PICK v \in Reps : Becomes(r, v) /\ v.at = Applied(r)
    BY <1>7, ScanEffect
  <2>3. Applied(r) \in [Flows -> Nat] /\ \A f \in Flows : Applied(r)[f] <= Horizon(f)
    BY AppliedIs
  <2>4. due' \in [Flows -> Nat] /\ \A f \in Flows : due'[f] <= Horizon(f)
    BY <2>1, <2>3, OwesIs
  <2> QED BY <2>1, <2>2, <2>3, <2>4, TypeOne
<1>8. ASSUME NEW r \in Replicas, TickTakeover(r) PROVE TypeOK'
  <2>1. PICK v \in Reps, report \in SUBSET Flows :
            /\ Becomes(r, v) /\ v.pc = "anchored" /\ v.was = TRUE /\ v.lead = rep[r].lead
            /\ v.clock = rep[r].clock /\ v.left = rep[r].left /\ IsLeader(r) /\ rep[r].pc = "idle"
            /\ \A f \in Flows : /\ v.at[f] <= Horizon(f)
                                /\ v.at[f] = 0 \/ v.at[f] = staggeredNextFire(f, rep[r].streak[f], now)
            /\ last' = [f \in Flows |-> IF f \in report THEN now ELSE last[f]]
            /\ due' = Owes(r, v.at, report)
            /\ report \subseteq Missed(r) /\ v.told = rep[r].told \cup report
            /\ \A f \in report : v.at[f] = staggeredNextFire(f, rep[r].streak[f], now)
    BY <1>8, TakeoverEffect
  <2>2. UNCHANGED <<now, lock, published, fired, split, silent, faults>>
    BY <1>8 DEF TickTakeover
  <2>3. Plain
    BY <2>1, <2>2 DEF TypeOK, Plain
  <2>4. v.at \in [Flows -> Nat]
    BY DEF Reps
  <2>5. due' \in [Flows -> Nat] /\ \A f \in Flows : due'[f] <= Horizon(f)
    BY <2>1, <2>4, OwesIs
  <2> QED BY <2>1, <2>3, <2>5, TypeOne
<1>9. ASSUME NEW r \in Replicas, FireDue(r) PROVE TypeOK'
  <2>1. Plain /\ UNCHANGED due
    BY <1>9, PlainIs DEF FireDue
  <2> QED BY <1>9, <2>1, ListEffect, TypeSame
<1>10. ASSUME NEW r \in Replicas, TickFollower(r) PROVE TypeOK'
  <2>1. Plain /\ UNCHANGED due
    BY <1>10, PlainIs DEF TickFollower
  <2> QED BY <1>10, <2>1, FollowEffect, TypeSame
<1>11. ASSUME NEW r \in Replicas, NEW f \in Flows, FireEntry(r, f) PROVE TypeOK'
  <2>1. PICK v \in Reps, streak \in Nat :
            /\ Becomes(r, v) /\ v.lead = rep[r].lead /\ v.was = rep[r].was
            /\ v.left = rep[r].left \ {f}
            /\ v.pc = (IF rep[r].left \ {f} = {} THEN "idle" ELSE "firing")
            /\ v.clock = (IF rep[r].left \ {f} = {} THEN 0 ELSE rep[r].clock)
            /\ v.at = [rep[r].at EXCEPT ![f] = nextFireFrom(f, streak, rep[r].clock)]
            /\ due' = [due EXCEPT ![f] = nextFireFrom(f, streak, rep[r].clock)]
            /\ streak <= Widest /\ v.told \subseteq rep[r].told \cup {f}
    BY <1>11, FireEffect
  <2>2. /\ UNCHANGED <<now, lock, published, split>>
        /\ last' \in [Flows -> 0 .. MaxTime] /\ silent' \in SUBSET Flows /\ faults' \in 0 .. MaxFaults
        /\ fired' = fired \/ (f \notin Polls /\ fired' = [fired EXCEPT ![f] = rep[r].clock])
    BY <1>11, FireEffect
  <2>3. rep[r].clock \in 0 .. MaxTime /\ rep[r].at \in [Flows -> Nat]
    BY DEF TypeOK, Reps
  <2>4. Plain
    <3>1. fired' \in [Flows \ Polls -> 0 .. MaxTime]
      BY <2>2, <2>3 DEF TypeOK
    <3> QED BY <2>2, <3>1 DEF TypeOK, Plain
  <2> DEFINE at == nextFireFrom(f, streak, rep[r].clock)
  <2>5. at \in Nat /\ at <= Horizon(f)
    BY <2>3, FireIs
  <2> HIDE DEF at
  <2>6. v.at = [rep[r].at EXCEPT ![f] = at] /\ due' = [due EXCEPT ![f] = at]
    BY <2>1 DEF at
  <2>7. due' \in [Flows -> Nat] /\ \A g \in Flows : due'[g] <= Horizon(g)
    BY <2>5, <2>6 DEF TypeOK
  <2>8. \A g \in Flows : v.at[g] <= Horizon(g)
    BY <2>3, <2>5, <2>6 DEF TypeOK
  <2> QED BY <2>1, <2>4, <2>7, <2>8, TypeOne
<1>12. CASE Tick
  BY <1>12, ScheduleAssumption DEF Tick, TypeOK
<1>13. ASSUME NEW f \in Flows, Edit(f) PROVE TypeOK'
  <2>1. /\ published' \in SUBSET Flows /\ faults' \in 0 .. MaxFaults
        /\ UNCHANGED <<now, lock, rep, last, fired, split>> /\ silent' \in SUBSET Flows
    BY <1>13, ScheduleAssumption DEF Edit, TypeOK
  <2>2. due' \in [Flows -> Nat] /\ \A g \in Flows : due'[g] <= Horizon(g)
    <3>1. \A g \in Flows : Horizon(g) \in Nat
      BY ScheduleAssumption DEF Horizon
    <3> QED BY <1>13, <3>1 DEF Edit, TypeOK
  <2> QED BY <2>1, <2>2 DEF TypeOK
<1>14. CASE UNCHANGED vars
  BY <1>14 DEF vars, TypeOK
<1> QED BY <1>1, <1>2, <1>3, <1>4, <1>5, <1>6, <1>7, <1>8, <1>9, <1>10, <1>11, <1>12, <1>13, <1>14
        DEF Next, LoopStep

\* The state Init leaves behind is well formed.
LEMMA TypeInit == Init => TypeOK
<1> SUFFICES ASSUME Init PROVE TypeOK
  OBVIOUS
<1>1. \A f \in Flows : Horizon(f) \in Nat
  BY ScheduleAssumption DEF Horizon
<1>2. MaxTime \in Nat /\ MaxFaults \in Nat /\ 1 \in 0 .. MaxTime
  BY ScheduleAssumption
<1>3. rep \in [Replicas -> Reps] /\ \A r \in Replicas : \A f \in Flows : rep[r].at[f] = 0
  BY DownIs DEF Init
<1>4. due \in [Flows -> Nat] /\ \A f \in Flows : due[f] = 0
  BY DEF Init
<1>5. \A f \in Flows : due[f] <= Horizon(f) /\ \A r \in Replicas : rep[r].at[f] <= Horizon(f)
  BY <1>1, <1>3, <1>4
<1>6. /\ now \in 0 .. MaxTime /\ last \in [Flows -> 0 .. MaxTime] /\ faults \in 0 .. MaxFaults
      /\ fired \in [Flows \ Polls -> 0 .. MaxTime]
  BY <1>2 DEF Init
<1> QED BY <1>3, <1>4, <1>5, <1>6 DEF Init, TypeOK

(***************************************************************************)
(* The state stays well formed; above all no entry of a flow lies further  *)
(* ahead than one period of a cron flow or the longest interval a poller   *)
(* may be widened to (scheduler.go, effectiveInterval), whatever the       *)
(* backoff and the handovers.                                              *)
(***************************************************************************)
THEOREM ScheduleTypeCorrect == Spec => []TypeOK
  BY TypeInit, TypeStep, PTL DEF Spec

-----------------------------------------------------------------------------
(* No instant is fired twice.                                              *)

\* A replica in state v acts as leader.
Acts(v) == v.lead # "follow" \/ v.pc \in {"anchored", "firing"}

\* It does so with entries it has anchored since it took over.
Fronts(v) == v.pc \in {"anchored", "firing"} \/ (v.lead # "follow" /\ v.was)

\* The entries of a replica: none before its first scan, and those on fireDue's
\* list were due at the clock it read.
Listed(v) ==
    /\ v.pc = "boot" => \A f \in Flows : v.at[f] = 0
    /\ \A f \in v.left : v.pc = "firing" /\ v.at[f] # 0 /\ v.at[f] <= v.clock

\* The entries of v lie after the instants that were fired.
Ahead(v, done) ==
    \A f \in Flows \ Polls : v.at[f] # 0 /\ done[f] # 0 => nextFireFrom(f, 0, done[f]) <= v.at[f]

OnceInv ==
    /\ TypeOK
    /\ \A r \in Replicas : Listed(rep[r]) /\ rep[r].clock <= now
    /\ \A f \in Flows \ Polls : fired[f] <= now
    /\ ~split => \A r, q \in Replicas : Acts(rep[r]) /\ Acts(rep[q]) => r = q
    /\ ~split => \A r \in Replicas : Fronts(rep[r]) => Ahead(rep[r], fired)

\* Nothing has fired at first, and nobody leads.
LEMMA OnceInit == Init /\ TypeOK => OnceInv
<1> SUFFICES ASSUME Init, TypeOK PROVE OnceInv
  OBVIOUS
<1>1. \A r \in Replicas : rep[r] = Down
  BY DEF Init
<1>2. Listed(Down) /\ ~Acts(Down) /\ ~Fronts(Down) /\ Down.clock = 0
  BY DownIs DEF Listed, Acts, Fronts
<1>3. now = 1 /\ \A f \in Flows \ Polls : fired[f] = 0
  BY DEF Init
<1> QED BY <1>1, <1>2, <1>3 DEF OnceInv

\* A step of one replica preserves the invariant if its new state does, no other
\* replica leads where it begins to, and only a leader fires.
LEMMA OnceStepOf ==
  ASSUME OnceInv, TypeOK', NEW r \in Replicas, NEW v \in Reps, Becomes(r, v), now' = now,
         Listed(v), v.clock <= now, split => split',
         Acts(v) => Acts(rep[r]) \/ split' \/ \A q \in Replicas \ {r} : ~Acts(rep[q]),
         fired' = fired \/ Fronts(rep[r]),
         \A f \in Flows \ Polls : fired'[f] <= now,
         ~split' /\ Fronts(v) => Ahead(v, fired')
  PROVE  OnceInv'
<1>1. rep'[r] = v /\ \A q \in Replicas \ {r} : rep'[q] = rep[q]
  BY DEF Becomes
<1>2. \A q \in Replicas : Listed(rep'[q]) /\ rep'[q].clock <= now'
  BY <1>1 DEF OnceInv
<1>3. \A f \in Flows \ Polls : fired'[f] <= now'
  OBVIOUS
<1>4. ASSUME ~split', NEW p \in Replicas, NEW q \in Replicas, Acts(rep'[p]), Acts(rep'[q]) PROVE p = q
  <2>1. ~split
    BY <1>4
  <2>2. \A a, b \in Replicas : Acts(rep[a]) /\ Acts(rep[b]) => a = b
    BY <2>1 DEF OnceInv
  <2> QED BY <1>1, <1>4, <2>2
<1>5. ASSUME ~split', NEW q \in Replicas, Fronts(rep'[q]) PROVE Ahead(rep'[q], fired')
  <2>1. CASE q = r
    BY <1>1, <1>5, <2>1
  <2>2. CASE q # r
    <3>1. rep'[q] = rep[q] /\ Ahead(rep[q], fired) /\ ~split
      BY <1>1, <1>5, <2>2 DEF OnceInv
    <3>2. fired' = fired
      <4> SUFFICES ASSUME Fronts(rep[r]) PROVE FALSE
        OBVIOUS
      <4>1. Acts(rep[r]) /\ Acts(rep[q])
        BY <1>5, <3>1 DEF Acts, Fronts
      <4> QED BY <2>2, <3>1, <4>1 DEF OnceInv
    <3> QED BY <3>1, <3>2
  <2> QED BY <2>1, <2>2
<1> QED BY <1>2, <1>3, <1>4, <1>5 DEF OnceInv

\* The same for a step that leaves what was fired and the entries alone.
LEMMA OnceCalm ==
  ASSUME OnceInv, TypeOK', NEW r \in Replicas, NEW v \in Reps, Becomes(r, v), UNCHANGED <<now, fired>>,
         Listed(v), v.clock <= now, split => split',
         Acts(v) => Acts(rep[r]) \/ split' \/ \A q \in Replicas \ {r} : ~Acts(rep[q]),
         v.at = rep[r].at, Fronts(v) => Fronts(rep[r])
  PROVE  OnceInv'
<1>1. ~split' /\ Fronts(v) => Ahead(v, fired')
  BY DEF OnceInv, Ahead
<1>2. \A f \in Flows \ Polls : fired'[f] <= now
  BY DEF OnceInv
<1> QED BY <1>1, <1>2, OnceStepOf

\* An entry computed from the clock now lies after every instant fired so far.
LEMMA NewEntryAhead ==
  ASSUME OnceInv, NEW f \in Flows \ Polls, NEW s
  PROVE  nextFireFrom(f, 0, fired[f]) <= staggeredNextFire(f, s, now)
<1>1. fired[f] \in Nat /\ now \in Nat /\ fired[f] <= now
  BY ScheduleAssumption DEF OnceInv, TypeOK
<1>2. nextFireFrom(f, 0, fired[f]) <= nextFireFrom(f, s, now) /\ staggeredNextFire(f, s, now) = nextFireFrom(f, s, now)
  BY <1>1, CronInOrder
<1> QED BY <1>2

\* The steps of the leader loop, a start of the process and a crash.
LEMMA OnceLeader ==
  ASSUME PromptLoops, OnceInv, TypeOK', NEW r \in Replicas,
         TryLock(r) \/ PingFails(r) \/ Demote(r) \/ Boot(r) \/ Crash(r)
  PROVE  OnceInv'
<1>0. TypeOK /\ Listed(rep[r]) /\ rep[r].clock <= now
  BY DEF OnceInv
<1>1. CASE TryLock(r)
  <2>1. /\ rep' = [rep EXCEPT ![r].lead = "hold"] /\ ~rep[r].was /\ UNCHANGED <<now, fired>>
        /\ split' = (split \/ \E q \in Replicas \ {r} : Acting(q))
    BY <1>1 DEF TryLock
  <2>2. PICK v \in Reps : /\ Becomes(r, v) /\ v.was = rep[r].was /\ v.pc = rep[r].pc
                          /\ v.clock = rep[r].clock /\ v.left = rep[r].left /\ v.at = rep[r].at
    BY <1>0, <2>1, LeadEffect
  <2>3. Listed(v) /\ v.clock <= now /\ (Fronts(v) => Fronts(rep[r]))
    BY <1>0, <2>1, <2>2 DEF Listed, Fronts
  <2>4. split' \/ \A q \in Replicas \ {r} : ~Acts(rep[q])
    BY <2>1, Zenon DEF Acting, IsLeader, Acts
  <2>5. split => split'
    BY <2>1, Zenon
  <2> QED BY <2>1, <2>2, <2>3, <2>4, <2>5, OnceCalm
<1>2. CASE PingFails(r)
  <2>1. rep' = [rep EXCEPT ![r].lead = "leave"] /\ rep[r].lead = "hold" /\ UNCHANGED <<now, fired, split>>
    BY <1>2 DEF PingFails
  <2>2. PICK v \in Reps : /\ Becomes(r, v) /\ v.was = rep[r].was /\ v.pc = rep[r].pc
                          /\ v.clock = rep[r].clock /\ v.left = rep[r].left /\ v.at = rep[r].at
    BY <1>0, <2>1, LeadEffect
  <2>3. Listed(v) /\ v.clock <= now /\ (Fronts(v) => Fronts(rep[r])) /\ Acts(rep[r])
    BY <1>0, <2>1, <2>2 DEF Listed, Fronts, Acts
  <2> QED BY <2>1, <2>2, <2>3, OnceCalm
<1>3. CASE Demote(r)
  <2>1. rep' = [rep EXCEPT ![r].lead = "follow"] /\ UNCHANGED <<now, fired, split>>
    BY <1>3 DEF Demote
  <2>2. PICK v \in Reps : /\ Becomes(r, v) /\ v.lead = "follow" /\ v.was = rep[r].was /\ v.pc = rep[r].pc
                          /\ v.clock = rep[r].clock /\ v.left = rep[r].left /\ v.at = rep[r].at
    BY <1>0, <2>1, LeadEffect
  <2>3. Listed(v) /\ v.clock <= now /\ (Fronts(v) => Fronts(rep[r])) /\ (Acts(v) => Acts(rep[r]))
    BY <1>0, <2>2 DEF Listed, Fronts, Acts
  <2> QED BY <2>1, <2>2, <2>3, OnceCalm
<1>4. CASE Boot(r)
  <2>1. UNCHANGED <<now, fired, split>>
    BY <1>4 DEF Boot
  <2>2. PICK v \in Reps : /\ Becomes(r, v) /\ v.lead = rep[r].lead /\ v.was = rep[r].was /\ v.pc = rep[r].pc
                          /\ v.clock = rep[r].clock /\ v.left = rep[r].left /\ v.at = rep[r].at
    BY <1>0, <1>4, BootEffect
  <2>3. Listed(v) /\ v.clock <= now /\ (Fronts(v) => Fronts(rep[r])) /\ (Acts(v) => Acts(rep[r]))
    BY <1>0, <2>2 DEF Listed, Fronts, Acts
  <2> QED BY <2>1, <2>2, <2>3, OnceCalm
<1>5. CASE Crash(r)
  <2>1. rep' = [rep EXCEPT ![r] = Down] /\ UNCHANGED <<now, fired, split>>
    BY <1>5 DEF Crash
  <2>2. Becomes(r, Down)
    BY <1>0, <2>1, DownIs, BecomesIs
  <2>3. Listed(Down) /\ ~Fronts(Down) /\ ~Acts(Down)
    BY DownIs DEF Listed, Fronts, Acts
  <2>4. Down.clock <= now
    BY <1>0, DownIs DEF TypeOK
  <2>5. \A f \in Flows \ Polls : fired'[f] <= now
    BY <2>1 DEF OnceInv
  <2> QED BY <2>1, <2>2, <2>3, <2>4, <2>5, DownIs, OnceStepOf
<1> QED BY <1>1, <1>2, <1>3, <1>4, <1>5

\* A scan keeps an entry or computes it from the clock.
LEMMA OnceScan ==
  ASSUME OnceInv, TypeOK', NEW r \in Replicas, Start(r) \/ Rescan(r)
  PROVE  OnceInv'
<1>0. TypeOK /\ Listed(rep[r]) /\ rep[r].clock <= now /\ rep[r] \in Reps
  BY DEF OnceInv, TypeOK
<1>1. UNCHANGED <<now, fired, split>>
  BY DEF Start, Rescan
<1>2. PICK v \in Reps : /\ Becomes(r, v) /\ v.at = Applied(r) /\ v.pc = "idle" /\ v.lead = rep[r].lead
                        /\ v.was = (IF rep[r].pc = "boot" THEN IsLeader(r) ELSE rep[r].was)
                        /\ v.clock = rep[r].clock /\ v.left = rep[r].left
                        /\ rep[r].pc \in {"boot", "idle"}
  BY <1>0, ScanEffect
<1>3. Listed(v) /\ v.clock <= now
  BY <1>0, <1>2 DEF Listed
<1>4. Acts(v) => Acts(rep[r])
  BY <1>2 DEF Acts
<1>5. ASSUME ~split, Fronts(v) PROVE Ahead(v, fired)
  <2> SUFFICES ASSUME NEW f \in Flows \ Polls, v.at[f] # 0, fired[f] # 0
               PROVE  nextFireFrom(f, 0, fired[f]) <= v.at[f]
    BY DEF Ahead
  <2>1. CASE v.at[f] = staggeredNextFire(f, 0, now)
    BY <2>1, NewEntryAhead
  <2>2. CASE v.at[f] = rep[r].at[f]
    <3>1. rep[r].pc # "boot"
      BY <1>0, <2>2 DEF Listed
    <3>2. Fronts(rep[r])
      BY <1>2, <1>5, <3>1 DEF Fronts
    <3>3. Ahead(rep[r], fired)
      BY <1>5, <3>2 DEF OnceInv
    <3> QED BY <2>2, <3>3 DEF Ahead
  <2>3. v.at[f] = rep[r].at[f] \/ v.at[f] = staggeredNextFire(f, 0, now)
    BY <1>0, <1>2, AppliedIs
  <2> QED BY <2>1, <2>2, <2>3
<1>6. \A f \in Flows \ Polls : fired'[f] <= now
  BY <1>1 DEF OnceInv
<1> QED BY <1>1, <1>2, <1>3, <1>4, <1>5, <1>6, OnceStepOf

\* A takeover computes every entry from the clock.
LEMMA OnceTakeover ==
  ASSUME OnceInv, TypeOK', NEW r \in Replicas, TickTakeover(r)
  PROVE  OnceInv'
<1>0. TypeOK /\ Listed(rep[r]) /\ rep[r].clock <= now
  BY DEF OnceInv
<1>1. UNCHANGED <<now, fired, split>>
  BY DEF TickTakeover
<1>2. PICK v \in Reps, report \in SUBSET Flows :
         /\ Becomes(r, v) /\ v.pc = "anchored" /\ v.was = TRUE /\ v.lead = rep[r].lead
         /\ v.clock = rep[r].clock /\ v.left = rep[r].left /\ IsLeader(r) /\ rep[r].pc = "idle"
         /\ \A f \in Flows : /\ v.at[f] <= Horizon(f)
                             /\ v.at[f] = 0 \/ v.at[f] = staggeredNextFire(f, rep[r].streak[f], now)
         /\ last' = [f \in Flows |-> IF f \in report THEN now ELSE last[f]]
         /\ due' = Owes(r, v.at, report)
         /\ report \subseteq Missed(r) /\ v.told = rep[r].told \cup report
         /\ \A f \in report : v.at[f] = staggeredNextFire(f, rep[r].streak[f], now)
  BY <1>0, TakeoverEffect
<1>3. Listed(v) /\ v.clock <= now
  BY <1>0, <1>2 DEF Listed
<1>4. Acts(rep[r])
  BY <1>2 DEF Acts, IsLeader
<1>5. Ahead(v, fired)
  BY <1>2, NewEntryAhead DEF Ahead
<1>6. \A f \in Flows \ Polls : fired'[f] <= now
  BY <1>1 DEF OnceInv
<1> QED BY <1>1, <1>2, <1>3, <1>4, <1>5, <1>6, OnceStepOf

\* The list fireDue takes holds entries due at the clock it read.
LEMMA OnceList ==
  ASSUME OnceInv, TypeOK', NEW r \in Replicas, FireDue(r) \/ TickFollower(r)
  PROVE  OnceInv'
<1>0. TypeOK /\ Listed(rep[r]) /\ rep[r].clock <= now /\ now \in Nat
  BY ScheduleAssumption DEF OnceInv, TypeOK
<1>1. CASE FireDue(r)
  <2>1. UNCHANGED <<now, fired, split>> /\ Fronts(rep[r])
    BY <1>1 DEF FireDue, Fronts, IsLeader
  <2>2. PICK v \in Reps : /\ Becomes(r, v) /\ v.at = rep[r].at /\ v.lead = rep[r].lead /\ v.was = rep[r].was
                          /\ v.pc = (IF Due(r) = {} THEN "idle" ELSE "firing") /\ v.left = Due(r)
                          /\ v.clock = (IF Due(r) = {} THEN 0 ELSE now)
    BY <1>0, <1>1, ListEffect
  <2>3. v.clock <= now /\ v.pc # "boot"
    BY <1>0, <2>2
  <2>4. \A f \in v.left : v.pc = "firing" /\ v.at[f] # 0 /\ v.at[f] <= v.clock
    BY <2>2 DEF Due, Tracked
  <2>5. Listed(v)
    BY <2>3, <2>4 DEF Listed
  <2>6. Acts(rep[r])
    BY <2>1 DEF Acts, Fronts
  <2> QED BY <2>1, <2>2, <2>3, <2>5, <2>6, OnceCalm
<1>2. CASE TickFollower(r)
  <2>1. UNCHANGED <<now, fired, split>>
    BY <1>2 DEF TickFollower
  <2>2. PICK v \in Reps : /\ Becomes(r, v) /\ v.at = rep[r].at /\ v.lead = rep[r].lead /\ v.was = FALSE
                          /\ v.pc = rep[r].pc /\ v.left = rep[r].left /\ v.clock = rep[r].clock
    BY <1>0, <1>2, FollowEffect
  <2>3. Listed(v) /\ v.clock <= now /\ (Fronts(v) => Fronts(rep[r])) /\ (Acts(v) => Acts(rep[r]))
    BY <1>0, <2>2 DEF Listed, Fronts, Acts
  <2> QED BY <2>1, <2>2, <2>3, OnceCalm
<1> QED BY <1>1, <1>2

\* An entry that has fired moves past the clock of its pass.
LEMMA OnceFire ==
  ASSUME OnceInv, TypeOK', NEW r \in Replicas, NEW f \in Flows, FireEntry(r, f)
  PROVE  OnceInv'
<1>0. TypeOK /\ Listed(rep[r]) /\ rep[r].clock <= now /\ rep[r] \in Reps
  BY DEF OnceInv, TypeOK
<1>1. /\ rep[r].pc = "firing" /\ f \in rep[r].left /\ UNCHANGED <<now, split>>
      /\ fired' = fired \/ (f \notin Polls /\ fired' = [fired EXCEPT ![f] = rep[r].clock])
  BY <1>0, FireEffect
<1>2. PICK v \in Reps, streak \in Nat :
         /\ Becomes(r, v) /\ v.left = rep[r].left \ {f}
         /\ v.pc = (IF rep[r].left \ {f} = {} THEN "idle" ELSE "firing")
         /\ v.clock = (IF rep[r].left \ {f} = {} THEN 0 ELSE rep[r].clock)
         /\ v.at = [rep[r].at EXCEPT ![f] = nextFireFrom(f, streak, rep[r].clock)]
  BY <1>0, FireEffect
<1>3. /\ rep[r].at \in [Flows -> Nat] /\ rep[r].clock \in 0 .. MaxTime /\ rep[r].clock \in Nat
      /\ rep[r].left \subseteq Flows /\ fired \in [Flows \ Polls -> 0 .. MaxTime] /\ now \in Nat
  BY <1>0, ScheduleAssumption DEF Reps, TypeOK
<1>4. v.clock <= now
  BY <1>0, <1>2, <1>3
<1>5. Listed(v)
  <2>1. ASSUME NEW g \in v.left PROVE v.pc = "firing" /\ v.at[g] # 0 /\ v.at[g] <= v.clock
    <3>1. g # f /\ g \in rep[r].left /\ v.at[g] = rep[r].at[g] /\ v.pc = "firing" /\ v.clock = rep[r].clock
      BY <1>2, <1>3
    <3> QED BY <1>0, <3>1 DEF Listed
  <2>2. v.pc # "boot"
    BY <1>2
  <2> QED BY <2>1, <2>2 DEF Listed
<1>6. Fronts(rep[r]) /\ Acts(rep[r])
  BY <1>1 DEF Fronts, Acts
<1>7. \A g \in Flows \ Polls : fired'[g] <= now
  BY <1>0, <1>1, <1>3 DEF OnceInv
<1>8. ASSUME ~split PROVE Ahead(v, fired')
  <2>1. Ahead(rep[r], fired)
    BY <1>6, <1>8 DEF OnceInv
  <2> SUFFICES ASSUME NEW g \in Flows \ Polls, v.at[g] # 0, fired'[g] # 0
               PROVE  nextFireFrom(g, 0, fired'[g]) <= v.at[g]
    BY DEF Ahead
  <2>2. CASE g # f
    <3>1. v.at[g] = rep[r].at[g] /\ fired'[g] = fired[g]
      BY <1>1, <1>2, <1>3, <2>2
    <3> QED BY <2>1, <3>1 DEF Ahead
  <2>3. CASE g = f
    <3>1. v.at[f] = nextFireFrom(f, streak, rep[r].clock)
      BY <1>2, <1>3
    <3>2. fired'[f] \in Nat /\ fired'[f] <= rep[r].clock
      <4>1. CASE fired'[f] = rep[r].clock
        BY <1>3, <4>1
      <4>2. CASE fired' = fired
        <5>1. rep[r].at[f] # 0 /\ rep[r].at[f] <= rep[r].clock
          BY <1>0, <1>1 DEF Listed
        <5>2. fired[f] \in 0 .. MaxTime /\ fired[f] # 0 /\ MaxTime \in Nat
          BY <1>3, <2>3, <4>2, ScheduleAssumption
        <5>3. nextFireFrom(f, 0, fired[f]) <= rep[r].at[f]
          BY <2>1, <2>3, <5>1, <5>2 DEF Ahead
        <5>4. fired[f] < nextFireFrom(f, 0, fired[f]) /\ nextFireFrom(f, 0, fired[f]) \in Nat
          BY <5>2, FireIs
        <5> QED BY <1>3, <4>2, <5>1, <5>2, <5>3, <5>4
      <4> QED BY <1>1, <1>3, <2>3, <4>1, <4>2
    <3>3. nextFireFrom(f, 0, fired'[f]) <= nextFireFrom(f, streak, rep[r].clock)
      BY <1>3, <2>3, <3>2, CronInOrder
    <3> QED BY <2>3, <3>1, <3>3
  <2> QED BY <2>2, <2>3
<1> QED BY <1>1, <1>2, <1>4, <1>5, <1>6, <1>7, <1>8, OnceStepOf

\* Every step preserves the invariant.
LEMMA OnceStep == ASSUME PromptLoops, OnceInv, [Next]_vars PROVE OnceInv'
<1>0. TypeOK'
  BY TypeStep DEF OnceInv
<1>1. ASSUME NEW r \in Replicas,
             TryLock(r) \/ PingFails(r) \/ Demote(r) \/ Boot(r) \/ Crash(r) PROVE OnceInv'
  BY <1>0, <1>1, OnceLeader
<1>2. ASSUME NEW r \in Replicas, LoseSession(r) PROVE OnceInv'
  BY <1>0, <1>2 DEF LoseSession, OnceInv
<1>3. ASSUME NEW r \in Replicas, LoopStep(r) PROVE OnceInv'
  BY <1>0, <1>3, OnceScan, OnceTakeover, OnceList, OnceFire DEF LoopStep
<1>4. CASE Tick
  <2>1. UNCHANGED <<rep, fired, split>> /\ now' = now + 1 /\ now \in Nat
    BY <1>4, ScheduleAssumption DEF Tick, OnceInv, TypeOK
  <2>2. \A r \in Replicas : rep[r].clock \in Nat /\ rep[r].clock <= now
    BY ScheduleAssumption DEF OnceInv, TypeOK, Reps
  <2>3. \A f \in Flows \ Polls : fired[f] \in Nat /\ fired[f] <= now
    BY ScheduleAssumption DEF OnceInv, TypeOK
  <2>4. (\A r \in Replicas : rep[r].clock <= now + 1) /\ (\A f \in Flows \ Polls : fired[f] <= now + 1)
    BY <2>1, <2>2, <2>3
  <2> QED BY <1>0, <2>1, <2>4 DEF OnceInv
<1>5. ASSUME NEW f \in Flows, Edit(f) PROVE OnceInv'
  BY <1>0, <1>5 DEF Edit, OnceInv
<1>6. CASE UNCHANGED vars
  BY <1>0, <1>6 DEF vars, OnceInv
<1> QED BY <1>1, <1>2, <1>3, <1>4, <1>5, <1>6 DEF Next

\* scheduler_internal_test.go: "would fire a tick the old leader already handled".
\* It does not: for any number of replicas and flows, periods and clock readings,
\* and across lost sessions, slow pings, crashes, handovers, edits and late loops,
\* no instant of a cron schedule is fired twice as long as two replicas have not
\* acted as leader at once.  The hypothesis is the one the timing constants give:
\* a scheduler loop looks at its flag between losing the lock and trying again.
THEOREM FiredOncePerInstant == ASSUME PromptLoops PROVE Spec => OncePerInstant
<1>1. Init => OnceInv
  BY OnceInit, TypeInit
<1>2. OnceInv /\ [Next]_vars => OnceInv'
  BY OnceStep
<1>3. OnceInv => [\A r \in Replicas : \A f \in published \ Polls :
                     FireEntry(r, f) /\ ~split =>
                         fired[f] = 0 \/ nextFireFrom(f, 0, fired[f]) <= rep[r].clock]_vars
  <2> SUFFICES ASSUME OnceInv, NEW r \in Replicas, NEW f \in published \ Polls, FireEntry(r, f), ~split, fired[f] # 0
               PROVE  nextFireFrom(f, 0, fired[f]) <= rep[r].clock
    OBVIOUS
  <2>1. TypeOK /\ f \in Flows \ Polls /\ rep[r] \in Reps /\ Listed(rep[r])
    BY DEF OnceInv, TypeOK
  <2>2. rep[r].pc = "firing" /\ f \in rep[r].left
    BY DEF FireEntry
  <2>3. rep[r].at[f] # 0 /\ rep[r].at[f] <= rep[r].clock /\ rep[r].at[f] \in Nat /\ rep[r].clock \in Nat
    BY <2>1, <2>2, ScheduleAssumption DEF Listed, Reps
  <2>4. Fronts(rep[r])
    BY <2>2 DEF Fronts
  <2>5. Ahead(rep[r], fired)
    BY <2>4 DEF OnceInv
  <2>6. nextFireFrom(f, 0, fired[f]) <= rep[r].at[f]
    BY <2>1, <2>3, <2>5 DEF Ahead
  <2>7. fired[f] \in 0 .. MaxTime
    BY <2>1 DEF TypeOK
  <2>8. nextFireFrom(f, 0, fired[f]) \in Nat
    BY <2>1, <2>7, FireIs
  <2> QED BY <2>3, <2>6, <2>8
<1> QED BY <1>1, <1>2, <1>3, PTL DEF Spec, OncePerInstant

-----------------------------------------------------------------------------
(* A missed-fires marker tells the truth.                                  *)

\* A poller is measured at its widest interval: no streak waits longer.
LEMMA IntervalGrows ==
  ASSUME NEW f \in Polls, NEW s \in 0 .. Widest
  PROVE  effectiveInterval(f, s) <= effectiveInterval(f, Widest)
<1> DEFINE shift(k) == Min({k - Grace + 1, 16})
           mult(k) == IF k >= Grace THEN Min({2 ^ shift(k), MaxMult}) ELSE 1
<1>1. /\ Grace \in Nat /\ MaxMult \in Nat \ {0} /\ Ceiling \in Nat /\ Every[f] \in Nat
      /\ Widest = Grace + MaxMult /\ s \in Nat /\ Widest \in Nat
  BY ScheduleAssumption DEF Widest
<1>2. ASSUME NEW k \in Nat, k >= Grace
      PROVE  shift(k) = (IF k - Grace + 1 <= 16 THEN k - Grace + 1 ELSE 16) /\ shift(k) \in 1 .. 16
  <2>1. k - Grace + 1 \in Int /\ k - Grace + 1 >= 1
    BY <1>1, <1>2
  <2>2. shift(k) = IF k - Grace + 1 <= 16 THEN k - Grace + 1 ELSE 16
    BY <2>1, MinOfTwo
  <2> HIDE DEF shift
  <2> QED BY <2>1, <2>2
<1> HIDE DEF shift
<1>3. ASSUME NEW k \in Nat, k >= Grace
      PROVE  /\ mult(k) = IF 2 ^ shift(k) <= MaxMult THEN 2 ^ shift(k) ELSE MaxMult
             /\ mult(k) \in Nat \ {0}
  <2> DEFINE d == 2 ^ shift(k)
  <2>1. d \in Nat /\ d >= 2
    BY <1>2, <1>3, Doublings
  <2>2. mult(k) = Min({d, MaxMult})
    BY <1>3
  <2> HIDE DEF d
  <2>3. mult(k) = IF d <= MaxMult THEN d ELSE MaxMult
    BY <1>1, <2>1, <2>2, MinOfTwo
  <2> HIDE DEF mult
  <2>4. mult(k) \in Nat \ {0}
    BY <1>1, <2>1, <2>3
  <2> QED BY <2>3, <2>4 DEF d
<1>4. Widest >= Grace /\ Widest - Grace + 1 = MaxMult + 1
  BY <1>1
<1>5. mult(s) \in Nat /\ mult(Widest) \in Nat \ {0} /\ mult(s) <= mult(Widest)
  <2>1. CASE s >= Grace
    <3> DEFINE a == 2 ^ shift(s)
               b == 2 ^ shift(Widest)
    <3>1. /\ mult(s) = (IF a <= MaxMult THEN a ELSE MaxMult) /\ mult(s) \in Nat \ {0}
          /\ mult(Widest) = (IF b <= MaxMult THEN b ELSE MaxMult) /\ mult(Widest) \in Nat \ {0}
      BY <1>1, <1>3, <1>4, <2>1
    <3>2. a \in Nat /\ b \in Nat /\ (a <= b \/ b >= MaxMult)
      <4>1. /\ shift(s) \in 1 .. 16 /\ shift(Widest) \in 1 .. 16
            /\ shift(Widest) = IF MaxMult + 1 <= 16 THEN MaxMult + 1 ELSE 16
        BY <1>1, <1>2, <1>4, <2>1
      <4>2. a \in Nat /\ a <= 2 ^ 16 /\ b \in Nat /\ b >= shift(Widest)
        BY <4>1, Doublings
      <4>3. CASE MaxMult + 1 <= 16
        <5>1. shift(Widest) = MaxMult + 1
          BY <4>1, <4>3
        <5> HIDE DEF a, b
        <5> QED BY <1>1, <4>2, <5>1
      <4>4. CASE ~(MaxMult + 1 <= 16)
        <5>1. b = 2 ^ 16
          BY <4>1, <4>4
        <5> HIDE DEF a, b
        <5> QED BY <4>2, <5>1
      <4> QED BY <4>3, <4>4
    <3> HIDE DEF a, b, mult
    <3> QED BY <1>1, <3>1, <3>2
  <2>2. CASE ~(s >= Grace)
    <3>1. mult(s) = 1
      BY <2>2
    <3>2. mult(Widest) \in Nat \ {0}
      BY <1>1, <1>3, <1>4
    <3> HIDE DEF mult
    <3> QED BY <3>1, <3>2
  <2> QED BY <2>1, <2>2
<1>6. /\ effectiveInterval(f, s) = Min({Every[f] * mult(s), Ceiling})
      /\ effectiveInterval(f, Widest) = Min({Every[f] * mult(Widest), Ceiling})
  BY DEF effectiveInterval, shift
<1> HIDE DEF mult
<1> DEFINE x == Every[f] * mult(s)
           y == Every[f] * mult(Widest)
<1>7. x \in Nat /\ y \in Nat /\ x <= y
  <2>1. ASSUME NEW e \in Nat, NEW a \in Nat, NEW b \in Nat, a <= b
        PROVE  e * a \in Nat /\ e * b \in Nat /\ e * a <= e * b
    <3>1. b - a \in Nat /\ e * b = e * a + e * (b - a)
      BY <2>1
    <3>2. e * (b - a) \in Nat /\ e * a \in Nat
      BY <3>1
    <3> QED BY <3>1, <3>2
  <2> QED BY <1>1, <1>5, <2>1
<1>8. effectiveInterval(f, s) = Min({x, Ceiling}) /\ effectiveInterval(f, Widest) = Min({y, Ceiling})
  BY <1>6
<1> HIDE DEF x, y
<1>9. Min({x, Ceiling}) = (IF x <= Ceiling THEN x ELSE Ceiling) /\ Min({y, Ceiling}) = IF y <= Ceiling THEN y ELSE Ceiling
  BY <1>1, <1>7, MinOfTwo
<1> QED BY <1>1, <1>7, <1>8, <1>9

\* A fire computed at a no wider interval from an earlier clock comes no later.
LEMMA FireGrows ==
  ASSUME NEW f \in Flows, NEW s \in 0 .. Widest, NEW a \in 0 .. MaxTime, NEW b \in 0 .. MaxTime, a <= b
  PROVE  /\ nextFireFrom(f, s, a) <= nextFireFrom(f, Widest, b)
         /\ staggeredNextFire(f, s, a) <= nextFireFrom(f, Widest, b)
<1>1. a \in Nat /\ b \in Nat /\ s \in Nat /\ Widest \in Nat /\ Jitter[f] \in Nat
  BY ScheduleAssumption DEF Widest
<1>2. nextFireFrom(f, s, a) \in Nat /\ nextFireFrom(f, Widest, b) \in Nat
  BY <1>1, FireIs
<1>3. nextFireFrom(f, s, a) <= nextFireFrom(f, Widest, b)
  <2>1. CASE f \in Polls
    <3>1. /\ effectiveInterval(f, s) <= effectiveInterval(f, Widest)
          /\ effectiveInterval(f, s) \in Nat /\ effectiveInterval(f, Widest) \in Nat
      BY <1>1, <2>1, IntervalGrows, IntervalIs
    <3>2. nextFireFrom(f, s, a) = a + effectiveInterval(f, s) /\ nextFireFrom(f, Widest, b) = b + effectiveInterval(f, Widest)
      BY <2>1 DEF nextFireFrom
    <3> QED BY <1>1, <3>1, <3>2
  <2>2. CASE f \notin Polls
    BY <1>1, <2>2, CronInOrder
  <2> QED BY <2>1, <2>2
<1>4. staggeredNextFire(f, s, a) = nextFireFrom(f, s, a) - Jitter[f]
  BY DEF staggeredNextFire
<1> QED BY <1>1, <1>2, <1>3, <1>4

\* What v would fire was announced: the first announcement still owed comes no
\* later than its entry.
Announced(v, owed, on) == \A f \in on : v.at[f] # 0 => owed[f] # 0 /\ owed[f] <= v.at[f]

\* The record a takeover reads tells what is owed: the first announcement comes
\* no later than the fire it finds due after the newest run.
Recorded(owed, runs, quiet, on) ==
    \A f \in on \ quiet : runs[f] # 0 => owed[f] # 0 /\ owed[f] <= nextFireFrom(f, Widest, runs[f])

AlarmInv ==
    /\ OnceInv
    /\ \A r \in Replicas : rep[r].pc # "boot" => rep[r].up
    /\ ~split => \A r \in Replicas : Fronts(rep[r]) => Announced(rep[r], due, published)
    /\ Recorded(due, last, silent, published)

\* Nothing has run at first, and nobody leads.
LEMMA AlarmInit == Init /\ OnceInv => AlarmInv
<1> SUFFICES ASSUME Init, OnceInv PROVE AlarmInv
  OBVIOUS
<1>1. \A r \in Replicas : rep[r] = Down
  BY DEF Init
<1>2. Down.pc = "boot" /\ ~Fronts(Down)
  BY DownIs DEF Fronts
<1>3. \A f \in published : last[f] = 0
  BY DEF Init
<1> QED BY <1>1, <1>2, <1>3 DEF AlarmInv, Recorded

\* Only a process that is up runs the scheduler loop.
LEMMA UpStep ==
  ASSUME TypeOK, \A q \in Replicas : rep[q].pc # "boot" => rep[q].up, [Next]_vars, NEW p \in Replicas
  PROVE  rep'[p].pc # "boot" => rep'[p].up
<1>0. rep[p].pc # "boot" => rep[p].up
  OBVIOUS
<1>1. ASSUME NEW r \in Replicas, LoopStep(r) PROVE rep'[p].pc # "boot" => rep'[p].up
  <2>1. Shape
    BY DEF TypeOK, Reps, Shape
  <2>2. rep'[p].up = rep[p].up
    BY <1>1, <2>1, LoopKeeps DEF Keeps
  <2>3. CASE p = r
    <3>1. CASE Start(r) \/ Rescan(r) \/ TickTakeover(r) \/ TickFollower(r)
      BY <2>2, <2>3, <3>1 DEF Start, Rescan, TickTakeover, TickFollower
    <3>2. CASE FireDue(r) \/ \E f \in Flows : FireEntry(r, f)
      <4>1. rep[r].pc # "boot"
        BY <3>2 DEF FireDue, FireEntry
      <4> QED BY <1>0, <2>2, <2>3, <4>1
    <3> QED BY <1>1, <3>1, <3>2 DEF LoopStep
  <2>4. CASE p # r
    <3>1. \E v \in Reps : Becomes(r, v)
      <4>1. CASE Start(r) \/ Rescan(r)
        BY <4>1, ScanEffect
      <4>2. CASE TickTakeover(r)
        BY <4>2, TakeoverEffect
      <4>3. CASE FireDue(r)
        BY <4>3, ListEffect
      <4>4. CASE TickFollower(r)
        BY <4>4, FollowEffect
      <4>5. ASSUME NEW f \in Flows, FireEntry(r, f) PROVE \E v \in Reps : Becomes(r, v)
        BY <4>5, FireEffect
      <4> QED BY <1>1, <4>1, <4>2, <4>3, <4>4, <4>5 DEF LoopStep
    <3>2. rep'[p] = rep[p]
      BY <2>4, <3>1 DEF Becomes
    <3> QED BY <1>0, <3>2
  <2> QED BY <2>3, <2>4
<1>2. ASSUME NEW r \in Replicas, TryLock(r) \/ PingFails(r) \/ Demote(r)
      PROVE rep'[p].pc # "boot" => rep'[p].up
  <2>1. PICK x \in {"follow", "hold", "leave"} : rep' = [rep EXCEPT ![r].lead = x]
    BY <1>2 DEF TryLock, PingFails, Demote
  <2> QED BY <1>0, <2>1 DEF TypeOK, Reps
<1>3. ASSUME NEW r \in Replicas, Boot(r) PROVE rep'[p].pc # "boot" => rep'[p].up
  BY <1>0, <1>3 DEF Boot, TypeOK, Reps
<1>4. ASSUME NEW r \in Replicas, Crash(r) PROVE rep'[p].pc # "boot" => rep'[p].up
  BY <1>0, <1>4, DownIs DEF Crash, TypeOK
<1>5. ASSUME UNCHANGED rep PROVE rep'[p].pc # "boot" => rep'[p].up
  BY <1>0, <1>5
<1>6. ASSUME NEW r \in Replicas, LoseSession(r) PROVE rep'[p].pc # "boot" => rep'[p].up
  BY <1>5, <1>6 DEF LoseSession
<1>7. ASSUME NEW f \in Flows, Edit(f) PROVE rep'[p].pc # "boot" => rep'[p].up
  BY <1>5, <1>7 DEF Edit
<1>8. CASE Tick \/ UNCHANGED vars
  BY <1>5, <1>8 DEF Tick, vars
<1> QED BY <1>1, <1>2, <1>3, <1>4, <1>6, <1>7, <1>8 DEF Next

\* The parts of AlarmInv about what was announced.
Truthful ==
    /\ ~split => \A r \in Replicas : Fronts(rep[r]) => Announced(rep[r], due, published)
    /\ Recorded(due, last, silent, published)

\* A step that announces nothing and makes nobody a leader.
LEMMA TruthCalm ==
  ASSUME AlarmInv, NEW r \in Replicas, NEW v \in Reps, Becomes(r, v), UNCHANGED <<published, last, due, silent>>,
         split => split', Fronts(v) => v.at = rep[r].at /\ Fronts(rep[r])
  PROVE  Truthful'
<1>1. Recorded(due', last', silent', published')
  BY DEF AlarmInv
<1>2. ASSUME ~split', NEW q \in Replicas, Fronts(rep'[q]) PROVE Announced(rep'[q], due', published')
  <2>1. ~split /\ rep'[r] = v /\ (q # r => rep'[q] = rep[q])
    BY <1>2 DEF Becomes
  <2>2. Fronts(rep[q]) /\ rep'[q].at = rep[q].at
    BY <1>2, <2>1
  <2>3. Announced(rep[q], due, published)
    BY <2>1, <2>2 DEF AlarmInv
  <2> QED BY <2>2, <2>3 DEF Announced
<1> QED BY <1>1, <1>2 DEF Truthful

\* A step of a leader: no other replica's entries matter.
LEMMA TruthLeads ==
  ASSUME AlarmInv, NEW r \in Replicas, NEW v \in Reps, Becomes(r, v), UNCHANGED <<published, split>>,
         Acts(rep[r]), ~split /\ Fronts(v) => Announced(v, due', published),
         Recorded(due', last', silent', published)
  PROVE  Truthful'
<1>1. ASSUME ~split', NEW q \in Replicas, Fronts(rep'[q]) PROVE Announced(rep'[q], due', published')
  <2>1. ~split /\ rep'[r] = v /\ (q # r => rep'[q] = rep[q])
    BY <1>1 DEF Becomes
  <2>2. CASE q = r
    BY <1>1, <2>1, <2>2
  <2>3. CASE q # r
    <3>1. Acts(rep[q])
      BY <1>1, <2>1, <2>3 DEF Acts, Fronts
    <3> QED BY <2>1, <2>3, <3>1 DEF AlarmInv, OnceInv
  <2> QED BY <2>2, <2>3
<1> QED BY <1>1 DEF Truthful

\* What a leader announces keeps the record truthful.
LEMMA OwesRecorded ==
  ASSUME AlarmInv, NEW r \in Replicas, NEW at \in [Flows -> Nat], NEW report \in SUBSET Flows,
         last' = [f \in Flows |-> IF f \in report THEN now ELSE last[f]], silent' = silent,
         due' = Owes(r, at, report), IsLeader(r),
         \A f \in report : at[f] # 0 /\ at[f] <= nextFireFrom(f, Widest, now)
  PROVE  Recorded(due', last', silent', published)
<1>0. TypeOK /\ published \subseteq Flows /\ Recorded(due, last, silent, published)
  BY DEF AlarmInv, OnceInv, TypeOK
<1> SUFFICES ASSUME NEW f \in published \ silent, last'[f] # 0
             PROVE  due'[f] # 0 /\ due'[f] <= nextFireFrom(f, Widest, last'[f])
  BY DEF Recorded
<1> DEFINE o == Owes(r, at, report)[f]
<1>1. /\ due'[f] = o /\ o \in {due[f], at[f]}
      /\ at[f] # 0 => o # 0 /\ o <= at[f]
      /\ f \notin report /\ due[f] # 0 => o # 0 /\ o <= due[f]
  BY <1>0, OwesAre
<1>2. due[f] \in Nat /\ at[f] \in Nat /\ last[f] \in 0 .. MaxTime /\ now \in 0 .. MaxTime /\ Widest \in Nat
  BY <1>0, ScheduleAssumption DEF TypeOK, Widest
<1>3. o \in Nat
  BY <1>1, <1>2
<1> HIDE DEF o
<1>4. /\ nextFireFrom(f, Widest, now) \in Nat /\ nextFireFrom(f, Widest, last[f]) \in Nat
  BY <1>0, <1>2, FireIs
<1>5. CASE f \in report
  <2>1. last'[f] = now
    BY <1>0, <1>5
  <2> QED BY <1>1, <1>2, <1>3, <1>4, <1>5, <2>1
<1>6. CASE f \notin report
  <2>1. last'[f] = last[f]
    BY <1>0, <1>6
  <2>2. due[f] # 0 /\ due[f] <= nextFireFrom(f, Widest, last[f])
    BY <1>0, <2>1 DEF Recorded
  <2> QED BY <1>1, <1>2, <1>3, <1>4, <1>6, <2>1, <2>2
<1> QED BY <1>5, <1>6

\* What a leader announces covers its own entries.
LEMMA OwesAnnounced ==
  ASSUME TypeOK, NEW r \in Replicas, NEW v \in Reps, NEW report, due' = Owes(r, v.at, report), IsLeader(r)
  PROVE  Announced(v, due', published)
<1>1. v.at \in [Flows -> Nat] /\ published \subseteq Flows
  BY DEF TypeOK, Reps
<1> QED BY <1>1, OwesAre DEF Announced

\* A scan.
LEMMA TruthScan ==
  ASSUME AlarmInv, NEW r \in Replicas, Start(r) \/ Rescan(r)
  PROVE  Truthful'
<1>0. TypeOK /\ Listed(rep[r]) /\ Applied(r) \in [Flows -> Nat]
  BY AppliedIs DEF AlarmInv, OnceInv
<1>1. UNCHANGED <<now, published, last, split, silent>> /\ due' = Owes(r, Applied(r), {})
  BY DEF Start, Rescan
<1>2. PICK v \in Reps : /\ Becomes(r, v) /\ v.at = Applied(r) /\ v.pc = "idle" /\ v.lead = rep[r].lead
                        /\ v.was = (IF rep[r].pc = "boot" THEN IsLeader(r) ELSE rep[r].was)
                        /\ v.clock = rep[r].clock /\ v.left = rep[r].left
                        /\ rep[r].pc \in {"boot", "idle"}
  BY <1>0, ScanEffect
<1>3. CASE IsLeader(r)
  <2>1. last \in [Flows -> 0 .. MaxTime] /\ last' = [f \in Flows |-> IF f \in {} THEN now ELSE last[f]]
    BY <1>0, <1>1 DEF TypeOK
  <2>2. Recorded(due', last', silent', published)
    BY <1>0, <1>1, <1>3, <2>1, OwesRecorded
  <2>3. Announced(v, due', published)
    BY <1>0, <1>1, <1>2, <1>3, OwesAnnounced
  <2>4. Acts(rep[r])
    BY <1>3 DEF Acts, IsLeader
  <2> QED BY <1>1, <1>2, <2>2, <2>3, <2>4, TruthLeads
<1>4. CASE ~IsLeader(r)
  <2>1. \A f \in Flows : due'[f] = due[f]
    BY <1>0, <1>1, <1>4, OwesAre
  <2>2. due' = [f \in Flows |-> due'[f]] /\ due = [f \in Flows |-> due[f]]
    BY <1>0, <1>1 DEF TypeOK, Owes
  <2>3. due' = due
    BY <2>1, <2>2
  <2>4. ~Fronts(v)
    BY <1>2, <1>4 DEF Fronts, IsLeader
  <2> QED BY <1>1, <1>2, <2>3, <2>4, TruthCalm
<1> QED BY <1>3, <1>4

\* A takeover announces anew, and reports only what was announced before.
LEMMA TruthTakeover ==
  ASSUME AlarmInv, NEW r \in Replicas, TickTakeover(r)
  PROVE  Truthful'
<1>0. TypeOK /\ rep[r] \in Reps
  BY DEF AlarmInv, OnceInv, TypeOK
<1>1. UNCHANGED <<now, published, split, silent>>
  BY DEF TickTakeover
<1>2. PICK v \in Reps, report \in SUBSET Flows :
         /\ Becomes(r, v) /\ v.pc = "anchored" /\ v.was = TRUE /\ v.lead = rep[r].lead
         /\ v.clock = rep[r].clock /\ v.left = rep[r].left /\ IsLeader(r) /\ rep[r].pc = "idle"
         /\ \A f \in Flows : /\ v.at[f] <= Horizon(f)
                             /\ v.at[f] = 0 \/ v.at[f] = staggeredNextFire(f, rep[r].streak[f], now)
         /\ last' = [f \in Flows |-> IF f \in report THEN now ELSE last[f]]
         /\ due' = Owes(r, v.at, report)
         /\ report \subseteq Missed(r) /\ v.told = rep[r].told \cup report
         /\ \A f \in report : v.at[f] = staggeredNextFire(f, rep[r].streak[f], now)
  BY <1>0, TakeoverEffect
<1>3. ASSUME NEW f \in report PROVE v.at[f] # 0 /\ v.at[f] <= nextFireFrom(f, Widest, now)
  <2>1. /\ f \in Flows /\ v.at[f] = staggeredNextFire(f, rep[r].streak[f], now)
        /\ rep[r].streak[f] \in 0 .. Widest /\ now \in 0 .. MaxTime /\ now \in Nat /\ rep[r].streak[f] \in Nat
    BY <1>0, <1>2, ScheduleAssumption DEF TypeOK, Reps, Widest
  <2>2. now < staggeredNextFire(f, rep[r].streak[f], now) /\ staggeredNextFire(f, rep[r].streak[f], now) \in Nat
    BY <2>1, FireIs
  <2>3. staggeredNextFire(f, rep[r].streak[f], now) <= nextFireFrom(f, Widest, now)
    BY <2>1, FireGrows
  <2> QED BY <2>1, <2>2, <2>3
<1>4. v.at \in [Flows -> Nat]
  BY DEF Reps
<1>5. Recorded(due', last', silent', published)
  BY <1>1, <1>2, <1>3, <1>4, OwesRecorded
<1>6. Announced(v, due', published)
  BY <1>0, <1>2, OwesAnnounced
<1>7. Acts(rep[r])
  BY <1>2 DEF Acts, IsLeader
<1> QED BY <1>1, <1>2, <1>5, <1>6, <1>7, TruthLeads

\* A fire is made, recorded and followed by the next announcement in one step; one
\* that leaves no record makes the flow silent.
LEMMA TruthFire ==
  ASSUME AlarmInv, NEW r \in Replicas, NEW f \in Flows, FireEntry(r, f)
  PROVE  Truthful'
<1>0. /\ TypeOK /\ rep[r] \in Reps /\ rep[r].clock <= now /\ published \subseteq Flows
      /\ Recorded(due, last, silent, published)
  BY DEF AlarmInv, OnceInv, TypeOK
<1>1. /\ rep[r].pc = "firing" /\ UNCHANGED <<now, published, split>>
      /\ \A g \in Flows \ {f} : last'[g] = last[g] /\ (g \in silent' <=> g \in silent)
      /\ f \in silent' \/ last'[f] = now
  BY <1>0, FireEffect
<1>2. PICK v \in Reps, streak \in Nat :
            /\ Becomes(r, v) /\ v.lead = rep[r].lead /\ v.was = rep[r].was
            /\ v.left = rep[r].left \ {f}
            /\ v.pc = (IF rep[r].left \ {f} = {} THEN "idle" ELSE "firing")
            /\ v.clock = (IF rep[r].left \ {f} = {} THEN 0 ELSE rep[r].clock)
            /\ v.at = [rep[r].at EXCEPT ![f] = nextFireFrom(f, streak, rep[r].clock)]
            /\ due' = [due EXCEPT ![f] = nextFireFrom(f, streak, rep[r].clock)]
            /\ streak <= Widest /\ v.told \subseteq rep[r].told \cup {f}
  BY <1>0, FireEffect
<1>3. /\ rep[r].at \in [Flows -> Nat] /\ due \in [Flows -> Nat] /\ rep[r].clock \in 0 .. MaxTime
      /\ now \in 0 .. MaxTime /\ streak \in 0 .. Widest /\ rep[r].clock \in Nat
  BY <1>0, <1>2, ScheduleAssumption DEF TypeOK, Reps, Widest
<1> DEFINE at == nextFireFrom(f, streak, rep[r].clock)
<1>4. at \in Nat /\ at # 0
  BY <1>3, FireIs
<1>5. at <= nextFireFrom(f, Widest, now)
  BY <1>0, <1>3, FireGrows
<1> HIDE DEF at
<1>6. /\ v.at[f] = at /\ due'[f] = at
      /\ \A g \in Flows \ {f} : v.at[g] = rep[r].at[g] /\ due'[g] = due[g]
  BY <1>2, <1>3 DEF at
<1>7. Fronts(rep[r]) /\ Acts(rep[r])
  BY <1>1 DEF Fronts, Acts
<1>8. ASSUME ~split PROVE Announced(v, due', published)
  <2>1. Announced(rep[r], due, published)
    BY <1>7, <1>8 DEF AlarmInv
  <2> SUFFICES ASSUME NEW g \in published, v.at[g] # 0 PROVE due'[g] # 0 /\ due'[g] <= v.at[g]
    BY DEF Announced
  <2>2. CASE g = f
    BY <1>4, <1>6, <2>2
  <2>3. CASE g # f
    BY <1>0, <1>6, <2>1, <2>3 DEF Announced
  <2> QED BY <2>2, <2>3
<1>9. Recorded(due', last', silent', published)
  <2> SUFFICES ASSUME NEW g \in published \ silent', last'[g] # 0
               PROVE  due'[g] # 0 /\ due'[g] <= nextFireFrom(g, Widest, last'[g])
    BY DEF Recorded
  <2>1. CASE g = f
    BY <1>1, <1>4, <1>5, <1>6, <2>1
  <2>2. CASE g # f
    <3>1. due'[g] = due[g] /\ last'[g] = last[g] /\ g \in published \ silent
      BY <1>0, <1>1, <1>6, <2>2
    <3> QED BY <1>0, <3>1 DEF Recorded
  <2> QED BY <2>1, <2>2
<1> QED BY <1>1, <1>2, <1>7, <1>8, <1>9, TruthLeads

\* A flow that is put on its schedule is tracked by nobody yet.
LEMMA TruthEdit ==
  ASSUME AlarmInv, NEW f \in Flows, Edit(f)
  PROVE  Truthful'
<1>0. TypeOK /\ due \in [Flows -> Nat] /\ published \subseteq Flows /\ Recorded(due, last, silent, published)
  BY DEF AlarmInv, OnceInv, TypeOK
<1>1. /\ UNCHANGED <<rep, last, split>> /\ due' = [due EXCEPT ![f] = 0] /\ silent' = silent \cup {f}
      /\ published' = (IF f \in published THEN published \ {f} ELSE published \cup {f})
      /\ \A r \in Replicas : rep[r].up => Tracked(r) = published
  BY DEF Edit
<1>2. \A g \in Flows \ {f} : due'[g] = due[g] /\ (g \in published' => g \in published)
  BY <1>0, <1>1
<1>3. Recorded(due', last', silent', published')
  <2> SUFFICES ASSUME NEW g \in published' \ silent', last'[g] # 0
               PROVE  due'[g] # 0 /\ due'[g] <= nextFireFrom(g, Widest, last'[g])
    BY DEF Recorded
  <2>1. g # f /\ g \in Flows /\ g \in published \ silent /\ due'[g] = due[g] /\ last'[g] = last[g]
    BY <1>0, <1>1, <1>2
  <2> QED BY <1>0, <2>1 DEF Recorded
<1>4. ASSUME ~split', NEW r \in Replicas, Fronts(rep'[r]), NEW g \in published', rep'[r].at[g] # 0
      PROVE  due'[g] # 0 /\ due'[g] <= rep'[r].at[g]
  <2>1. ~split /\ rep'[r] = rep[r] /\ g \in Flows
    BY <1>0, <1>1, <1>4
  <2>2. rep[r].up
    BY <1>4, <2>1 DEF AlarmInv, OnceInv, Listed
  <2>3. g \in published
    BY <1>1, <1>4, <2>1, <2>2 DEF Tracked
  <2>4. g # f
    BY <1>1, <1>4, <2>3
  <2>5. Announced(rep[r], due, published)
    BY <1>4, <2>1 DEF AlarmInv
  <2> QED BY <1>2, <1>4, <2>1, <2>3, <2>4, <2>5 DEF Announced
<1> QED BY <1>3, <1>4 DEF Truthful, Announced

\* The steps that announce nothing.
LEMMA TruthOthers ==
  ASSUME PromptLoops, AlarmInv, NEW r \in Replicas,
         \/ TryLock(r) \/ PingFails(r) \/ Demote(r) \/ Boot(r) \/ Crash(r) \/ FireDue(r) \/ TickFollower(r)
  PROVE  Truthful'
<1>0. TypeOK
  BY DEF AlarmInv, OnceInv
<1>1. CASE TryLock(r)
  <2>1. /\ rep' = [rep EXCEPT ![r].lead = "hold"] /\ ~rep[r].was /\ UNCHANGED <<published, last, due, silent>>
        /\ split' = (split \/ \E q \in Replicas \ {r} : Acting(q))
    BY <1>1 DEF TryLock
  <2>2. PICK v \in Reps : Becomes(r, v) /\ v.was = rep[r].was /\ v.pc = rep[r].pc /\ v.at = rep[r].at
    BY <1>0, <2>1, LeadEffect
  <2>3. Fronts(v) => v.at = rep[r].at /\ Fronts(rep[r])
    BY <2>1, <2>2 DEF Fronts
  <2>4. split => split'
    BY <2>1, Zenon
  <2> QED BY <2>1, <2>2, <2>3, <2>4, TruthCalm
<1>2. CASE PingFails(r)
  <2>1. rep' = [rep EXCEPT ![r].lead = "leave"] /\ rep[r].lead = "hold" /\ UNCHANGED <<published, last, due, silent, split>>
    BY <1>2 DEF PingFails
  <2>2. PICK v \in Reps : Becomes(r, v) /\ v.was = rep[r].was /\ v.pc = rep[r].pc /\ v.at = rep[r].at
    BY <1>0, <2>1, LeadEffect
  <2>3. Fronts(v) => v.at = rep[r].at /\ Fronts(rep[r])
    BY <2>1, <2>2 DEF Fronts
  <2> QED BY <2>1, <2>2, <2>3, TruthCalm
<1>3. CASE Demote(r)
  <2>1. rep' = [rep EXCEPT ![r].lead = "follow"] /\ UNCHANGED <<published, last, due, silent, split>>
    BY <1>3 DEF Demote
  <2>2. PICK v \in Reps : /\ Becomes(r, v) /\ v.lead = "follow" /\ v.was = rep[r].was /\ v.pc = rep[r].pc
                          /\ v.at = rep[r].at
    BY <1>0, <2>1, LeadEffect
  <2>3. Fronts(v) => v.at = rep[r].at /\ Fronts(rep[r])
    BY <2>2 DEF Fronts
  <2> QED BY <2>1, <2>2, <2>3, TruthCalm
<1>4. CASE Boot(r)
  <2>1. UNCHANGED <<published, last, due, silent, split>>
    BY <1>4 DEF Boot
  <2>2. PICK v \in Reps : /\ Becomes(r, v) /\ v.lead = rep[r].lead /\ v.was = rep[r].was /\ v.pc = rep[r].pc
                          /\ v.at = rep[r].at
    BY <1>0, <1>4, BootEffect
  <2>3. Fronts(v) => v.at = rep[r].at /\ Fronts(rep[r])
    BY <2>2 DEF Fronts
  <2> QED BY <2>1, <2>2, <2>3, TruthCalm
<1>5. CASE Crash(r)
  <2>1. rep' = [rep EXCEPT ![r] = Down] /\ UNCHANGED <<published, last, due, silent, split>>
    BY <1>5 DEF Crash
  <2>2. Down \in Reps /\ Becomes(r, Down) /\ ~Fronts(Down)
    BY <1>0, <2>1, DownIs, BecomesIs DEF Fronts
  <2> QED BY <2>1, <2>2, TruthCalm
<1>6. CASE FireDue(r)
  <2>1. UNCHANGED <<published, last, due, silent, split>> /\ Fronts(rep[r])
    BY <1>6 DEF FireDue, Fronts, IsLeader
  <2>2. PICK v \in Reps : Becomes(r, v) /\ v.at = rep[r].at
    BY <1>0, <1>6, ListEffect
  <2> QED BY <2>1, <2>2, TruthCalm
<1>7. CASE TickFollower(r)
  <2>1. UNCHANGED <<published, last, due, silent, split>>
    BY <1>7 DEF TickFollower
  <2>2. PICK v \in Reps : /\ Becomes(r, v) /\ v.at = rep[r].at /\ v.lead = rep[r].lead /\ v.was = FALSE
                          /\ v.pc = rep[r].pc
    BY <1>0, <1>7, FollowEffect
  <2>3. Fronts(v) => v.at = rep[r].at /\ Fronts(rep[r])
    BY <2>2 DEF Fronts
  <2> QED BY <2>1, <2>2, <2>3, TruthCalm
<1> QED BY <1>1, <1>2, <1>3, <1>4, <1>5, <1>6, <1>7

\* Every step preserves the invariant.
LEMMA AlarmStep == ASSUME PromptLoops, AlarmInv, [Next]_vars PROVE AlarmInv'
<1>1. OnceInv'
  BY OnceStep DEF AlarmInv
<1>2. \A r \in Replicas : rep'[r].pc # "boot" => rep'[r].up
  BY UpStep DEF AlarmInv, OnceInv
<1>3. Truthful'
  <2>1. ASSUME NEW r \in Replicas, LoopStep(r) PROVE Truthful'
    BY <2>1, TruthScan, TruthTakeover, TruthFire, TruthOthers DEF LoopStep
  <2>2. ASSUME NEW r \in Replicas, TryLock(r) \/ PingFails(r) \/ Demote(r) \/ Boot(r) \/ Crash(r) PROVE Truthful'
    BY <2>2, TruthOthers
  <2>3. ASSUME UNCHANGED <<rep, published, last, due, split, silent>> PROVE Truthful'
    BY <2>3 DEF AlarmInv, Truthful
  <2>4. ASSUME NEW r \in Replicas, LoseSession(r) PROVE Truthful'
    BY <2>3, <2>4 DEF LoseSession
  <2>5. ASSUME NEW f \in Flows, Edit(f) PROVE Truthful'
    BY <2>5, TruthEdit
  <2>6. CASE Tick \/ UNCHANGED vars
    BY <2>3, <2>6 DEF Tick, vars
  <2> QED BY <2>1, <2>2, <2>4, <2>5, <2>6 DEF Next
<1> QED BY <1>1, <1>2, <1>3 DEF AlarmInv, Truthful

\* Only a takeover and a late fire write a marker.
LEMMA ToldBy ==
  ASSUME TypeOK, [Next]_vars, NEW p \in Replicas, NEW f \in Flows, f \in rep'[p].told, f \notin rep[p].told
  PROVE  f \in Missed(p) \/ FireEntry(p, f)
<1>1. ASSUME NEW r \in Replicas, TickTakeover(r) PROVE f \in Missed(p)
  <2>1. PICK v \in Reps, report \in SUBSET Flows :
         /\ Becomes(r, v) /\ v.pc = "anchored" /\ v.was = TRUE /\ v.lead = rep[r].lead
         /\ v.clock = rep[r].clock /\ v.left = rep[r].left /\ IsLeader(r) /\ rep[r].pc = "idle"
         /\ \A g \in Flows : /\ v.at[g] <= Horizon(g)
                             /\ v.at[g] = 0 \/ v.at[g] = staggeredNextFire(g, rep[r].streak[g], now)
         /\ last' = [g \in Flows |-> IF g \in report THEN now ELSE last[g]]
         /\ due' = Owes(r, v.at, report)
         /\ report \subseteq Missed(r) /\ v.told = rep[r].told \cup report
         /\ \A g \in report : v.at[g] = staggeredNextFire(g, rep[r].streak[g], now)
    BY <1>1, TakeoverEffect
  <2>2. p = r
    BY <2>1 DEF Becomes
  <2> QED BY <2>1, <2>2 DEF Becomes
<1>2. ASSUME NEW r \in Replicas, NEW g \in Flows, FireEntry(r, g) PROVE FireEntry(p, f)
  <2>1. PICK v \in Reps, streak \in Nat :
            /\ Becomes(r, v) /\ v.lead = rep[r].lead /\ v.was = rep[r].was
            /\ v.left = rep[r].left \ {g}
            /\ v.pc = (IF rep[r].left \ {g} = {} THEN "idle" ELSE "firing")
            /\ v.clock = (IF rep[r].left \ {g} = {} THEN 0 ELSE rep[r].clock)
            /\ v.at = [rep[r].at EXCEPT ![g] = nextFireFrom(g, streak, rep[r].clock)]
            /\ due' = [due EXCEPT ![g] = nextFireFrom(g, streak, rep[r].clock)]
            /\ streak <= Widest /\ v.told \subseteq rep[r].told \cup {g}
    BY <1>2, FireEffect
  <2>2. p = r /\ f = g
    BY <2>1 DEF Becomes
  <2> QED BY <1>2, <2>2
<1>3. ASSUME rep'[p].told = rep[p].told PROVE FALSE
  BY <1>3
<1>4. ASSUME NEW r \in Replicas, Start(r) PROVE FALSE
  BY <1>3, <1>4 DEF Start, TypeOK, Reps
<1>5. ASSUME NEW r \in Replicas, Rescan(r) PROVE FALSE
  BY <1>3, <1>5 DEF Rescan, TypeOK, Reps
<1>6. ASSUME NEW r \in Replicas, FireDue(r) PROVE FALSE
  BY <1>3, <1>6 DEF FireDue, TypeOK, Reps
<1>7. ASSUME NEW r \in Replicas, TickFollower(r) PROVE FALSE
  BY <1>3, <1>7 DEF TickFollower, TypeOK, Reps
<1>8. ASSUME NEW r \in Replicas, TryLock(r) \/ PingFails(r) \/ Demote(r) PROVE FALSE
  <2>1. PICK x \in {"follow", "hold", "leave"} : rep' = [rep EXCEPT ![r].lead = x]
    BY <1>8 DEF TryLock, PingFails, Demote
  <2> QED BY <1>3, <2>1 DEF TypeOK, Reps
<1>9. ASSUME NEW r \in Replicas, Boot(r) PROVE FALSE
  BY <1>3, <1>9 DEF Boot, TypeOK, Reps
<1>10. ASSUME NEW r \in Replicas, Crash(r) PROVE FALSE
  <2>1. rep' = [rep EXCEPT ![r] = Down] /\ Down.told = {}
    BY <1>10 DEF Crash, Down
  <2> QED BY <1>3, <2>1 DEF TypeOK
<1>11. ASSUME UNCHANGED rep PROVE FALSE
  BY <1>3, <1>11
<1>12. ASSUME NEW r \in Replicas, LoseSession(r) PROVE FALSE
  BY <1>11, <1>12 DEF LoseSession
<1>13. ASSUME NEW g \in Flows, Edit(g) PROVE FALSE
  BY <1>11, <1>13 DEF Edit
<1>14. CASE Tick \/ UNCHANGED vars
  BY <1>11, <1>14 DEF Tick, vars
<1> QED BY <1>1, <1>2, <1>4, <1>5, <1>6, <1>7, <1>8, <1>9, <1>10, <1>12, <1>13, <1>14 DEF Next, LoopStep

\* scheduler.go, reanchor: "Reporting from it wrote a failed 'missed fires' run - and
\* so a failure email - for every schedule on every handover".  No such alarm is left:
\* for any replicas, flows, periods and backoffs, a marker is written for a published
\* flow only when a fire that some leader announced, and nobody made or reported, has
\* passed.  The exceptions are the property's own: two leaders at once, and a flow
\* whose newest record cannot tell (a coalesced refusal, a flow put back on its
\* schedule).
THEOREM AlarmsAreTrue == ASSUME PromptLoops PROVE Spec => NoFalseAlarm
<1>1. Init => AlarmInv
  BY OnceInit, TypeInit, AlarmInit
<1>2. AlarmInv /\ [Next]_vars => AlarmInv'
  BY AlarmStep
<1>3. AlarmInv /\ [Next]_vars =>
        [\A r \in Replicas : \A f \in published \cap (rep'[r].told \ rep[r].told) :
            split \/ f \in silent \/ (due[f] # 0 /\ due[f] <= now)]_vars
  <2> SUFFICES ASSUME AlarmInv, [Next]_vars, NEW r \in Replicas,
                      NEW f \in published \cap (rep'[r].told \ rep[r].told), ~split, f \notin silent
               PROVE  due[f] # 0 /\ due[f] <= now
    OBVIOUS
  <2>1. TypeOK /\ f \in Flows /\ rep[r] \in Reps /\ Listed(rep[r]) /\ rep[r].clock <= now
    BY DEF AlarmInv, OnceInv, TypeOK
  <2>2. due[f] \in Nat /\ now \in Nat /\ last[f] \in 0 .. MaxTime /\ Widest \in Nat
    BY <2>1, ScheduleAssumption DEF TypeOK, Widest
  <2>3. CASE f \in Missed(r)
    <3>1. last[f] # 0 /\ nextFireFrom(f, Widest, last[f]) <= now
      BY <2>3 DEF Missed, FirstOwedFire
    <3>2. due[f] # 0 /\ due[f] <= nextFireFrom(f, Widest, last[f])
      BY <3>1 DEF AlarmInv, Recorded
    <3>3. nextFireFrom(f, Widest, last[f]) \in Nat
      BY <2>1, <2>2, FireIs
    <3> QED BY <2>2, <3>1, <3>2, <3>3
  <2>4. CASE FireEntry(r, f)
    <3>1. rep[r].pc = "firing" /\ f \in rep[r].left
      BY <2>4 DEF FireEntry
    <3>2. rep[r].at[f] # 0 /\ rep[r].at[f] <= rep[r].clock /\ rep[r].at[f] \in Nat /\ rep[r].clock \in Nat
      BY <2>1, <3>1, ScheduleAssumption DEF Listed, Reps
    <3>3. Announced(rep[r], due, published)
      BY <3>1 DEF AlarmInv, Fronts
    <3>4. due[f] # 0 /\ due[f] <= rep[r].at[f]
      BY <3>2, <3>3 DEF Announced
    <3> QED BY <2>1, <2>2, <3>2, <3>4
  <2> QED BY <2>1, <2>3, <2>4, ToldBy
<1> QED BY <1>1, <1>2, <1>3, PTL DEF Spec, NoFalseAlarm
==============================================================================
