---------------------------- MODULE JobStoreProofs ----------------------------
(***************************************************************************)
(* Proofs about JobStore for every set of records, workers and tenants and *)
(* every lease length: types, the fence on outcomes, the finality of       *)
(* terminal records, recoverability of running ones, exclusive execution   *)
(* among the workers that are on time, the tenant cap, and the refinement  *)
(* of the abstract queue of tokens.                                        *)
(***************************************************************************)
EXTENDS JobStore, FiniteSetTheorems, TLAPS

\* The facts about the string constants the provers need to tell sets apart.
LEMMA StatusFacts ==
    /\ "queued" \notin TerminalStatuses /\ "running" \notin TerminalStatuses
    /\ "awaiting" \notin TerminalStatuses
    /\ "absent" \notin TerminalStatuses /\ "gone" \notin TerminalStatuses
    /\ "absent" \notin JobStatuses /\ "gone" \notin JobStatuses
    /\ TerminalStatuses \subseteq JobStatuses
    /\ "queued" \in JobStatuses /\ "running" \in JobStatuses /\ "awaiting" \in JobStatuses
  BY DEF TerminalStatuses, JobStatuses, OpenStatuses

\* A worker in stage exec or commit holds a record of Jobs; its fields are typed.
LEMMA HeldTyped ==
    ASSUME TypeOK, NEW w \in Workers, held[w].stage # "idle"
    PROVE  /\ held[w] \in Claimed
           /\ held[w].job \in Jobs /\ held[w].attempt \in Nat
           /\ held[w].until \in Nat /\ held[w].nextTick \in Nat
           /\ held[w].stage \in {"exec", "commit"}
  BY DEF TypeOK, Claimed, Idle

\* A requeue writes one record and leaves it queued without a lease.
LEMMA RequeueEffect ==
    ASSUME TypeOK, NEW w \in Workers, NEW d \in Delays, RequeueOwned(w, d), NEW i \in Jobs
    PROVE  \/ recs'[i] = recs[i]
           \/ recs'[i].status = "queued" /\ recs'[i].lease = 0
  <1> DEFINE r == recs[held[w].job]
  <1>1. recs' = [recs EXCEPT ![held[w].job] =
                   [r EXCEPT !.status = "queued", !.lease = 0, !.worker = Nobody,
                             !.author = 0, !.availableAt = now + d]]
    BY DEF RequeueOwned
  <1>2. recs[i] \in JobRec /\ recs \in [Jobs -> JobRec]
    BY DEF TypeOK
  <1>3. QED BY <1>1, <1>2 DEF JobRec

\* A renewed record is a record; only its lease and its freshness change.
LEMMA RenewedTyped ==
    ASSUME NEW r \in JobRec, now \in Nat
    PROVE  /\ Renewed(r) \in JobRec
           /\ Renewed(r).status = r.status /\ Renewed(r).worker = r.worker
           /\ Renewed(r).attempt = r.attempt /\ Renewed(r).author = r.author
           /\ Renewed(r).lease = now + LeaseDuration
           /\ Renewed(r).fresh => r.fresh /\ r.lease > now
  <1> DEFINE b == r.fresh /\ r.lease > now
             q == [r EXCEPT !.lease = now + LeaseDuration, !.fresh = b]
  <1>1. b \in BOOLEAN /\ (b => r.fresh /\ r.lease > now)
    OBVIOUS
  <1>2. now + LeaseDuration \in Nat
    BY TimingAssumption
  <1>3. Renewed(r) = q
    BY DEF Renewed
  <1> HIDE DEF b
  <1>4. q \in JobRec
    BY <1>1, <1>2 DEF JobRec
  <1>5. /\ q.status = r.status /\ q.worker = r.worker /\ q.attempt = r.attempt
        /\ q.author = r.author /\ q.lease = now + LeaseDuration
    BY DEF JobRec
  <1>6. q.fresh = b
    BY DEF JobRec
  <1>7. QED BY <1>1, <1>3, <1>4, <1>5, <1>6

-----------------------------------------------------------------------------
\* Every step keeps the clock, the records and the workers well typed.
LEMMA TypeStep == TypeOK /\ [Next]_vars => TypeOK'
  <1> SUFFICES ASSUME TypeOK, [Next]_vars PROVE TypeOK'
    OBVIOUS
  <1> USE TimingAssumption, WorkersAssumption
  <1>1. ASSUME NEW j \in Jobs, NEW st \in {"queued"} \cup Finals, Enqueue(j, st)
        PROVE  TypeOK'
    BY <1>1, StatusFacts DEF Enqueue, TypeOK, JobRec
  <1>2. ASSUME NEW S \in SUBSET Jobs, EnqueueNodes(S)
        PROVE  TypeOK'
    BY <1>2, StatusFacts DEF EnqueueNodes, TypeOK, JobRec
  <1>3. ASSUME NEW j \in Jobs, NEW st \in Finals, Complete(j, st)
        PROVE  TypeOK'
    <2>1. st \in JobStatuses
      BY StatusFacts
    <2>2. recs' = [recs EXCEPT ![j] = [recs[j] EXCEPT !.status = st, !.lease = 0, !.author = 0]]
      BY <1>3 DEF Complete, TypeOK, JobRec
    <2>3. QED BY <1>3, <2>1, <2>2 DEF Complete, TypeOK, JobRec
  <1>4. ASSUME NEW t \in Tenants, DeleteByTenant(t)
        PROVE  TypeOK'
    BY <1>4 DEF DeleteByTenant, TypeOK, JobRec, NoRec
  <1>5. ASSUME NEW w \in Workers, NEW j \in Jobs, Claim(w, j)
        PROVE  TypeOK'
    <2>1. recs' \in [Jobs -> JobRec]
      BY <1>5, StatusFacts DEF Claim, TypeOK, JobRec
    <2>2. held' \in [Workers -> Claimed \cup {Idle}]
      BY <1>5 DEF Claim, TypeOK, Claimed, JobRec
    <2>3. QED BY <1>5, <2>1, <2>2 DEF Claim, TypeOK
  <1>6. ASSUME NEW w \in Workers, Renew(w)
        PROVE  TypeOK'
    <2>1. held[w].stage = "exec" /\ held[w] \in Claimed /\ held[w].job \in Jobs
      BY <1>6, HeldTyped DEF Renew, TickerDue
    <2>2. recs' \in [Jobs -> JobRec]
      BY <1>6, <2>1, RenewedTyped DEF Renew, TypeOK
    <2>3. held' \in [Workers -> Claimed \cup {Idle}]
      <3>1. held' = [held EXCEPT ![w] = [held[w] EXCEPT !.until = now + LeaseDuration,
                                                        !.nextTick = now + RenewEvery]]
        BY <1>6 DEF Renew, TypeOK
      <3>2. now + LeaseDuration \in Nat /\ now + RenewEvery \in Nat
        BY DEF TypeOK
      <3>3. QED BY <2>1, <3>1, <3>2 DEF TypeOK, Claimed
    <2>4. QED BY <1>6, <2>2, <2>3 DEF Renew, TypeOK
  <1>7. ASSUME NEW w \in Workers, LoseLease(w)
        PROVE  TypeOK'
    BY <1>7 DEF LoseLease, TypeOK
  <1>8. ASSUME NEW w \in Workers, NEW applied \in BOOLEAN, RenewFails(w, applied)
        PROVE  TypeOK'
    <2>1. held[w].stage = "exec" /\ held[w] \in Claimed /\ held[w].job \in Jobs
      BY <1>8, HeldTyped DEF RenewFails, TickerDue
    <2>2. recs' \in [Jobs -> JobRec]
      BY <1>8, <2>1, RenewedTyped DEF RenewFails, TypeOK
    <2>3. held' \in [Workers -> Claimed \cup {Idle}]
      BY <1>8, <2>1 DEF RenewFails, TypeOK, Claimed
    <2>4. QED BY <1>8, <2>2, <2>3 DEF RenewFails, TypeOK
  <1>9. ASSUME NEW w \in Workers, StopLease(w)
        PROVE  TypeOK'
    BY <1>9, HeldTyped DEF StopLease, TypeOK, Claimed
  <1>10. ASSUME NEW w \in Workers, NEW st \in Finals \cup {"awaiting"}, CompleteOwned(w, st)
         PROVE  TypeOK'
    <2>1. held[w].job \in Jobs /\ held[w].attempt \in Nat
      BY <1>10, HeldTyped DEF CompleteOwned
    <2>2. recs' \in [Jobs -> JobRec]
      BY <1>10, <2>1, StatusFacts DEF CompleteOwned, TypeOK, JobRec
    <2>3. held' \in [Workers -> Claimed \cup {Idle}]
      BY <1>10 DEF CompleteOwned, TypeOK
    <2>4. QED BY <1>10, <2>2, <2>3 DEF CompleteOwned, TypeOK
  <1>11. ASSUME NEW w \in Workers, NEW d \in Delays, RequeueOwned(w, d)
         PROVE  TypeOK'
    <2>1. held[w].job \in Jobs
      BY <1>11, HeldTyped DEF RequeueOwned
    <2>2. recs' \in [Jobs -> JobRec]
      BY <1>11, <2>1, StatusFacts DEF RequeueOwned, TypeOK, JobRec
    <2>3. held' \in [Workers -> Claimed \cup {Idle}]
      BY <1>11 DEF RequeueOwned, TypeOK
    <2>4. QED BY <1>11, <2>2, <2>3 DEF RequeueOwned, TypeOK
  <1>12. ASSUME NEW w \in Workers, Abandon(w) \/ Crash(w)
         PROVE  TypeOK'
    BY <1>12 DEF Abandon, Crash, TypeOK
  <1>13. CASE Tick
    BY <1>13 DEF Tick, TypeOK
  <1>14. CASE UNCHANGED vars
    BY <1>14 DEF vars, TypeOK
  <1>15. QED
    BY <1>1, <1>2, <1>3, <1>4, <1>5, <1>6, <1>7, <1>8, <1>9, <1>10, <1>11,
       <1>12, <1>13, <1>14 DEF Next

\* The job table, the clock and the workers' leases are well typed in every
\* reachable state of the queue.
THEOREM TypeCorrect == Spec => []TypeOK
  <1>1. Init => TypeOK
    BY DEF Init, TypeOK, JobRec, NoRec
  <1>2. QED BY <1>1, TypeStep, PTL DEF Spec

-----------------------------------------------------------------------------
(* The fence.                                                              *)

\* If a record still names the worker that holds it, it has not been claimed
\* since: the worker id alone identifies the claim, because a worker
\* goroutine takes its records one at a time.
HolderIsCurrent ==
    \A w \in Workers :
        held[w].stage # "idle" /\ recs[held[w].job].worker = w
            => held[w].attempt = recs[held[w].job].attempt

\* Only a parked or a terminal record carries an outcome, the newest claim's.
OutcomeIsCurrent ==
    \A j \in Jobs : recs[j].author # 0 =>
        /\ recs[j].author = recs[j].attempt
        /\ recs[j].status = "awaiting" \/ IsTerminalStatus(recs[j].status)

FenceInv == TypeOK /\ HolderIsCurrent /\ OutcomeIsCurrent

\* Every step preserves the fence, one case per action that moves a record.
LEMMA FenceStep == FenceInv /\ [Next]_vars => FenceInv'
  <1> SUFFICES ASSUME FenceInv, [Next]_vars PROVE HolderIsCurrent' /\ OutcomeIsCurrent'
    BY TypeStep DEF FenceInv
  <1> USE DEF FenceInv
  <1>0. TypeOK /\ TypeOK'
    BY TypeStep
  <1>1. ASSUME NEW j \in Jobs, NEW st \in {"queued"} \cup Finals, Enqueue(j, st)
        PROVE  HolderIsCurrent' /\ OutcomeIsCurrent'
    <2>1. \A i \in Jobs : /\ recs'[i].worker = recs[i].worker
                          /\ recs'[i].attempt = recs[i].attempt
                          /\ recs'[i].author = recs[i].author
                          /\ i # j => recs'[i] = recs[i]
      BY <1>0, <1>1 DEF Enqueue, TypeOK, JobRec
    <2>2. recs[j].author = 0
      BY <1>0, <1>1, StatusFacts DEF Enqueue, OutcomeIsCurrent, IsTerminalStatus
    <2>3. HolderIsCurrent'
      BY <1>0, <1>1, <2>1, HeldTyped DEF Enqueue, HolderIsCurrent
    <2>4. OutcomeIsCurrent'
      BY <2>1, <2>2 DEF OutcomeIsCurrent
    <2>5. QED BY <2>3, <2>4
  <1>2. ASSUME NEW S \in SUBSET Jobs, EnqueueNodes(S)
        PROVE  HolderIsCurrent' /\ OutcomeIsCurrent'
    <2>1. \A i \in Jobs : /\ recs'[i].worker = recs[i].worker
                          /\ recs'[i].attempt = recs[i].attempt
                          /\ recs'[i].author = recs[i].author
                          /\ i \notin S => recs'[i] = recs[i]
      BY <1>0, <1>2 DEF EnqueueNodes, TypeOK, JobRec
    <2>2. \A i \in S : recs[i].author = 0
      BY <1>0, <1>2, StatusFacts DEF EnqueueNodes, OutcomeIsCurrent, IsTerminalStatus
    <2>3. HolderIsCurrent'
      BY <1>0, <1>2, <2>1, HeldTyped DEF EnqueueNodes, HolderIsCurrent
    <2>4. OutcomeIsCurrent'
      BY <2>1, <2>2 DEF OutcomeIsCurrent
    <2>5. QED BY <2>3, <2>4
  <1>3. ASSUME NEW j \in Jobs, NEW st \in Finals, Complete(j, st)
        PROVE  HolderIsCurrent' /\ OutcomeIsCurrent'
    <2>1. \A i \in Jobs : /\ recs'[i].worker = recs[i].worker
                          /\ recs'[i].attempt = recs[i].attempt
                          /\ i # j => recs'[i] = recs[i]
      BY <1>0, <1>3 DEF Complete, TypeOK, JobRec
    <2>2. recs'[j].author = 0
      BY <1>0, <1>3 DEF Complete, TypeOK, JobRec
    <2>3. HolderIsCurrent'
      BY <1>0, <1>3, <2>1, HeldTyped DEF Complete, HolderIsCurrent
    <2>4. OutcomeIsCurrent'
      BY <2>1, <2>2 DEF OutcomeIsCurrent
    <2>5. QED BY <2>3, <2>4
  <1>4. ASSUME NEW t \in Tenants, DeleteByTenant(t)
        PROVE  HolderIsCurrent' /\ OutcomeIsCurrent'
    <2>1. \A i \in Jobs : \/ recs'[i] = recs[i]
                          \/ recs'[i].worker = Nobody /\ recs'[i].author = 0
      BY <1>4 DEF DeleteByTenant, NoRec
    <2>2. HolderIsCurrent'
      BY <1>0, <1>4, <2>1, HeldTyped, WorkersAssumption DEF DeleteByTenant, HolderIsCurrent
    <2>3. OutcomeIsCurrent'
      BY <2>1 DEF OutcomeIsCurrent
    <2>4. QED BY <2>2, <2>3
  <1>5. ASSUME NEW w \in Workers, NEW j \in Jobs, Claim(w, j)
        PROVE  HolderIsCurrent' /\ OutcomeIsCurrent'
    <2>1. /\ recs'[j].worker = w /\ recs'[j].attempt = recs[j].attempt + 1
          /\ recs'[j].author = recs[j].author
          /\ \A i \in Jobs : i # j => recs'[i] = recs[i]
      BY <1>0, <1>5 DEF Claim, TypeOK, JobRec
    <2>2. /\ held'[w].job = j /\ held'[w].attempt = recs[j].attempt + 1
          /\ \A v \in Workers : v # w => held'[v] = held[v]
      BY <1>0, <1>5 DEF Claim, TypeOK
    <2>3. recs[j].author = 0
      BY <1>0, <1>5, StatusFacts
      DEF Claim, Claimable, Reclaimable, OutcomeIsCurrent, IsTerminalStatus
    <2>4. HolderIsCurrent'
      <3> SUFFICES ASSUME NEW v \in Workers, held'[v].stage # "idle",
                          recs'[held'[v].job].worker = v
                   PROVE  held'[v].attempt = recs'[held'[v].job].attempt
        BY DEF HolderIsCurrent
      <3>1. CASE v = w
        BY <2>1, <2>2, <3>1
      <3>2. CASE v # w
        <4>1. held'[v] = held[v] /\ held[v].job \in Jobs
          BY <1>0, <2>2, <3>2, HeldTyped
        <4>2. held[v].job # j
          BY <2>1, <3>2, <4>1
        <4>3. QED BY <2>1, <4>1, <4>2 DEF HolderIsCurrent
      <3>3. QED BY <3>1, <3>2
    <2>5. OutcomeIsCurrent'
      BY <2>1, <2>3 DEF OutcomeIsCurrent
    <2>6. QED BY <2>4, <2>5
  <1>6. ASSUME NEW w \in Workers, NEW applied \in BOOLEAN, Renew(w) \/ RenewFails(w, applied)
        PROVE  HolderIsCurrent' /\ OutcomeIsCurrent'
    <2>0. held[w].stage = "exec" /\ held[w] \in Claimed /\ held[w].job \in Jobs
      BY <1>0, <1>6, HeldTyped DEF Renew, RenewFails, TickerDue
    <2>1. \A i \in Jobs : /\ recs'[i].worker = recs[i].worker
                          /\ recs'[i].attempt = recs[i].attempt
                          /\ recs'[i].author = recs[i].author
                          /\ recs'[i].status = recs[i].status
      BY <1>0, <1>6, <2>0, RenewedTyped DEF Renew, RenewFails, TypeOK
    <2>2. \A v \in Workers : \/ held'[v] = Idle
                             \/ /\ held'[v].stage = held[v].stage
                                /\ held'[v].job = held[v].job
                                /\ held'[v].attempt = held[v].attempt
      BY <1>0, <1>6, <2>0 DEF Renew, RenewFails, TypeOK, Claimed
    <2>3. HolderIsCurrent'
      BY <1>0, <2>1, <2>2, HeldTyped DEF HolderIsCurrent, Idle
    <2>4. OutcomeIsCurrent'
      BY <2>1 DEF OutcomeIsCurrent
    <2>5. QED BY <2>3, <2>4
  <1>7. ASSUME NEW w \in Workers, LoseLease(w) \/ Abandon(w) \/ Crash(w) \/ StopLease(w)
        PROVE  HolderIsCurrent' /\ OutcomeIsCurrent'
    <2>1. recs' = recs
      BY <1>7 DEF LoseLease, Abandon, Crash, StopLease
    <2>2. \A v \in Workers : \/ held'[v] = Idle
                             \/ /\ held[v].stage # "idle"
                                /\ held'[v].job = held[v].job
                                /\ held'[v].attempt = held[v].attempt
                             \/ held'[v] = held[v]
      BY <1>0, <1>7 DEF LoseLease, Abandon, Crash, StopLease, TypeOK, Claimed
    <2>3. QED
      BY <2>1, <2>2 DEF HolderIsCurrent, OutcomeIsCurrent, Idle
  <1>8. ASSUME NEW w \in Workers, NEW st \in Finals \cup {"awaiting"}, CompleteOwned(w, st)
        PROVE  HolderIsCurrent' /\ OutcomeIsCurrent'
    <2>0. held[w].stage = "commit" /\ held[w].job \in Jobs /\ held[w].attempt \in Nat
      BY <1>0, <1>8, HeldTyped DEF CompleteOwned
    <2> DEFINE j == held[w].job
    <2>1. \A i \in Jobs : /\ recs'[i].worker = recs[i].worker
                          /\ recs'[i].attempt = recs[i].attempt
                          /\ i # j => recs'[i] = recs[i]
      BY <1>0, <1>8, <2>0 DEF CompleteOwned, TypeOK, JobRec
    <2>2. recs[j].worker = w
      BY <1>8 DEF CompleteOwned, CompleteAllowed
    <2>3. recs'[j].author = held[w].attempt /\ recs'[j].status = st
      BY <1>0, <1>8, <2>0 DEF CompleteOwned, TypeOK, JobRec
    <2>4. held[w].attempt = recs[j].attempt
      BY <2>0, <2>2 DEF HolderIsCurrent
    <2>5. held' = [held EXCEPT ![w] = Idle]
      BY <1>8 DEF CompleteOwned
    <2>6. HolderIsCurrent'
      BY <1>0, <2>1, <2>5, HeldTyped DEF HolderIsCurrent, Idle, TypeOK
    <2>7. st = "awaiting" \/ IsTerminalStatus(st)
      BY TimingAssumption DEF IsTerminalStatus
    <2>8. OutcomeIsCurrent'
      BY <2>0, <2>1, <2>3, <2>4, <2>7 DEF OutcomeIsCurrent
    <2>9. QED BY <2>6, <2>8
  <1>9. ASSUME NEW w \in Workers, NEW d \in Delays, RequeueOwned(w, d)
        PROVE  HolderIsCurrent' /\ OutcomeIsCurrent'
    <2>0. held[w].stage = "commit" /\ held[w].job \in Jobs
      BY <1>0, <1>9, HeldTyped DEF RequeueOwned
    <2> DEFINE j == held[w].job
    <2>1. /\ recs'[j].worker = Nobody /\ recs'[j].author = 0
          /\ \A i \in Jobs : i # j => recs'[i] = recs[i]
      BY <1>0, <1>9, <2>0 DEF RequeueOwned, TypeOK, JobRec
    <2>2. held' = [held EXCEPT ![w] = Idle]
      BY <1>9 DEF RequeueOwned
    <2>3. HolderIsCurrent'
      BY <1>0, <2>0, <2>1, <2>2, HeldTyped, WorkersAssumption DEF HolderIsCurrent, Idle, TypeOK
    <2>4. OutcomeIsCurrent'
      BY <2>0, <2>1 DEF OutcomeIsCurrent
    <2>5. QED BY <2>3, <2>4
  <1>10. CASE Tick \/ UNCHANGED vars
    BY <1>10 DEF Tick, vars, HolderIsCurrent, OutcomeIsCurrent
  <1>11. QED
    BY <1>1, <1>2, <1>3, <1>4, <1>5, <1>6, <1>7, <1>8, <1>9, <1>10 DEF Next

\* Fencing: in every reachable state an outcome written by a worker is the
\* newest claim's, whatever stalls, lost leases and take-overs came before.
THEOREM Fencing == Spec => []OutcomeFromNewestClaim
  <1>1. Init => FenceInv
    BY DEF Init, FenceInv, TypeOK, JobRec, NoRec, HolderIsCurrent, OutcomeIsCurrent, Idle
  <1>2. FenceInv => OutcomeFromNewestClaim
    BY DEF FenceInv, OutcomeIsCurrent, OutcomeFromNewestClaim
  <1>3. QED BY <1>1, <1>2, FenceStep, PTL DEF Spec

-----------------------------------------------------------------------------
(* Finality and recoverability.                                            *)

\* No step of the queue changes a terminal record except its erasure.
LEMMA FinalStep ==
    ASSUME TypeOK, [Next]_vars, NEW j \in Jobs, IsTerminalStatus(recs[j].status)
    PROVE  recs'[j] = recs[j] \/ recs'[j].status = "gone"
  <1> USE StatusFacts DEF IsTerminalStatus
  <1>1. ASSUME NEW i \in Jobs, NEW st, Enqueue(i, st) \/ Complete(i, st)
        PROVE  recs'[j] = recs[j]
    BY <1>1 DEF Enqueue, Complete, CompleteAllowed, TypeOK
  <1>2. ASSUME NEW S \in SUBSET Jobs, EnqueueNodes(S)
        PROVE  recs'[j] = recs[j]
    BY <1>2 DEF EnqueueNodes
  <1>3. ASSUME NEW t \in Tenants, DeleteByTenant(t)
        PROVE  recs'[j] = recs[j] \/ recs'[j].status = "gone"
    BY <1>3 DEF DeleteByTenant, NoRec
  <1>4. ASSUME NEW w \in Workers, NEW i \in Jobs, Claim(w, i)
        PROVE  recs'[j] = recs[j]
    BY <1>4 DEF Claim, Claimable, Reclaimable, TypeOK
  <1>5. ASSUME NEW w \in Workers, NEW applied \in BOOLEAN, Renew(w) \/ RenewFails(w, applied)
        PROVE  recs'[j] = recs[j]
    BY <1>5 DEF Renew, RenewFails, RenewAllowed, TypeOK
  <1>6. ASSUME NEW w \in Workers, LoseLease(w) \/ Abandon(w) \/ Crash(w) \/ StopLease(w)
        PROVE  recs'[j] = recs[j]
    BY <1>6 DEF LoseLease, Abandon, Crash, StopLease
  <1>7. ASSUME NEW w \in Workers, NEW st, CompleteOwned(w, st)
        PROVE  recs'[j] = recs[j]
    BY <1>7 DEF CompleteOwned, CompleteAllowed, TypeOK
  <1>8. ASSUME NEW w \in Workers, NEW d \in Delays, RequeueOwned(w, d)
        PROVE  recs'[j] = recs[j]
    BY <1>8 DEF RequeueOwned, RequeueAllowed, TypeOK
  <1>9. CASE Tick \/ UNCHANGED vars
    BY <1>9 DEF Tick, vars
  <1>10. QED
    BY <1>1, <1>2, <1>3, <1>4, <1>5, <1>6, <1>7, <1>8, <1>9 DEF Next

\* Terminal records are final under every operation of the store.
THEOREM Finality == Spec => TerminalIsFinal
  <1>1. TypeOK /\ [Next]_vars =>
          [\A j \in Jobs : IsTerminalStatus(recs[j].status) =>
              \/ recs'[j] = recs[j]
              \/ recs'[j].status = "gone"]_vars
    BY FinalStep
  <1>2. QED BY <1>1, TypeCorrect, PTL DEF Spec, TerminalIsFinal

LeaseInv == TypeOK /\ RunningIffLeased

\* Every step keeps lease and running status together.
LEMMA LeaseStep == LeaseInv /\ [Next]_vars => LeaseInv'
  <1> SUFFICES ASSUME LeaseInv, [Next]_vars, NEW j \in Jobs
               PROVE  (recs'[j].status = "running") <=> (recs'[j].lease # 0)
    BY TypeStep DEF LeaseInv, RunningIffLeased
  <1> USE TimingAssumption, StatusFacts DEF LeaseInv, RunningIffLeased
  <1>0. now \in Nat /\ now + LeaseDuration # 0 /\ recs \in [Jobs -> JobRec]
    BY DEF TypeOK
  <1> DEFINE Goal == (recs'[j].status = "running") <=> (recs'[j].lease # 0)
  <1>1. ASSUME NEW i \in Jobs, NEW st \in {"queued"} \cup Finals, Enqueue(i, st)
        PROVE  Goal
    BY <1>0, <1>1 DEF Enqueue, JobRec
  <1>2. ASSUME NEW S \in SUBSET Jobs, EnqueueNodes(S)
        PROVE  Goal
    BY <1>0, <1>2 DEF EnqueueNodes, JobRec
  <1>3. ASSUME NEW i \in Jobs, NEW st \in Finals, Complete(i, st)
        PROVE  Goal
    BY <1>0, <1>3 DEF Complete, JobRec
  <1>4. ASSUME NEW t \in Tenants, DeleteByTenant(t)
        PROVE  Goal
    BY <1>4 DEF DeleteByTenant, NoRec
  <1>5. ASSUME NEW w \in Workers, NEW i \in Jobs, Claim(w, i)
        PROVE  Goal
    BY <1>0, <1>5 DEF Claim, JobRec
  <1>6. ASSUME NEW w \in Workers, NEW applied \in BOOLEAN, Renew(w) \/ RenewFails(w, applied)
        PROVE  Goal
    <2>1. \/ recs' = recs
          \/ /\ recs[held[w].job].status = "running"
             /\ recs' = [recs EXCEPT ![held[w].job] = Renewed(@)]
      BY <1>6 DEF Renew, RenewFails, RenewAllowed
    <2>2. QED BY <1>0, <2>1, RenewedTyped
  <1>7. ASSUME NEW w \in Workers, LoseLease(w) \/ Abandon(w) \/ Crash(w) \/ StopLease(w)
        PROVE  Goal
    BY <1>7 DEF LoseLease, Abandon, Crash, StopLease
  <1>8. ASSUME NEW w \in Workers, NEW st \in Finals \cup {"awaiting"}, CompleteOwned(w, st)
        PROVE  Goal
    <2>1. held[w].job \in Jobs
      BY <1>8, HeldTyped DEF CompleteOwned
    <2>2. \/ recs'[j] = recs[j]
          \/ recs'[j].status = st /\ recs'[j].lease = 0
      BY <1>0, <1>8, <2>1 DEF CompleteOwned, JobRec
    <2>3. QED BY <2>2
  <1>9. ASSUME NEW w \in Workers, NEW d \in Delays, RequeueOwned(w, d)
        PROVE  Goal
    <2>1. \/ recs'[j] = recs[j]
          \/ recs'[j].status = "queued" /\ recs'[j].lease = 0
      BY <1>9, RequeueEffect
    <2>2. QED BY <2>1
  <1>10. CASE Tick \/ UNCHANGED vars
    BY <1>10 DEF Tick, vars
  <1>11. QED
    BY <1>1, <1>2, <1>3, <1>4, <1>5, <1>6, <1>7, <1>8, <1>9, <1>10 DEF Next

\* A record is leased exactly while it runs, so nothing that runs can be
\* stranded without a lease to expire.
THEOREM Recoverable == Spec => []RunningIffLeased
  <1>1. Init => LeaseInv
    BY DEF Init, LeaseInv, RunningIffLeased, TypeOK, JobRec, NoRec
  <1>2. LeaseInv => RunningIffLeased
    BY DEF LeaseInv
  <1>3. QED BY <1>1, <1>2, LeaseStep, PTL DEF Spec

-----------------------------------------------------------------------------
(* Exclusive execution.                                                    *)

\* Until the lease the worker believes in has ended, its record is either out
\* of the queue for good or still its own, under a lease at least that long.
StillOwn(w) ==
    LET r == recs[held[w].job] IN
      \/ IsTerminalStatus(r.status) \/ r.status = "gone"
      \/ r.status = "running" /\ r.worker = w /\ held[w].until <= r.lease

\* The renewal discipline: the next tick lies before the end of that lease.
LeaseCovers(w) ==
    /\ held[w].nextTick < held[w].until
    /\ held[w].until <= now + LeaseDuration
    /\ now <= held[w].until => StillOwn(w)

ExecutorCovered == \A w \in Workers : held[w].stage = "exec" => LeaseCovers(w)

\* Executing under a lease that has not ended, as far as the worker knows.
Believes(w) == held[w].stage = "exec" /\ now <= held[w].until

OneExecutor ==
    \A v, w \in Workers :
        Believes(v) /\ Believes(w) /\ held[v].job = held[w].job => v = w

ExclusiveInv == TypeOK /\ ExecutorCovered /\ OneExecutor

\* Claim never offers a record that a worker still executes under its lease.
LEMMA ExecutedNotClaimable ==
    ASSUME ExclusiveInv, NEW w \in Workers, Believes(w)
    PROVE  ~Claimable(held[w].job)
  <1>1. StillOwn(w) /\ held[w].job \in Jobs /\ held[w].until \in Nat /\ now <= held[w].until
    BY HeldTyped DEF ExclusiveInv, ExecutorCovered, Believes, LeaseCovers
  <1>2. recs[held[w].job].lease \in Nat /\ now \in Nat
    BY <1>1 DEF ExclusiveInv, TypeOK, JobRec
  <1>3. QED
    BY <1>1, <1>2, StatusFacts DEF StillOwn, Claimable, Reclaimable, IsTerminalStatus

\* Every step keeps the executions under a believed lease exclusive.
LEMMA ExclusiveStep == ExclusiveInv /\ [Next]_vars => ExclusiveInv'
  <1> SUFFICES ASSUME ExclusiveInv, [Next]_vars
               PROVE  ExecutorCovered' /\ OneExecutor'
    BY TypeStep DEF ExclusiveInv
  <1>0. TypeOK /\ TypeOK' /\ now \in Nat /\ now' \in Nat
        /\ recs \in [Jobs -> JobRec] /\ held \in [Workers -> Claimed \cup {Idle}]
    BY TypeStep DEF ExclusiveInv, TypeOK
  <1> USE TimingAssumption, StatusFacts
  \* A step of the clients leaves every executed record covered.
  <1>a. ASSUME held' = held, now' = now,
               \A i \in Jobs : \/ recs'[i] = recs[i]
                               \/ IsTerminalStatus(recs'[i].status)
                               \/ recs'[i].status = "gone"
                               \/ recs[i].status = "absent"
        PROVE  ExecutorCovered' /\ OneExecutor'
    <2>1. OneExecutor'
      BY <1>a DEF ExclusiveInv, OneExecutor, Believes
    <2>2. ASSUME NEW w \in Workers, held[w].stage = "exec"
          PROVE  LeaseCovers(w)'
      <3>1. LeaseCovers(w) /\ held[w].job \in Jobs
        BY <1>0, <2>2, HeldTyped DEF ExclusiveInv, ExecutorCovered
      <3>2. now <= held[w].until => recs[held[w].job].status # "absent"
        BY <3>1 DEF LeaseCovers, StillOwn, IsTerminalStatus
      <3>3. QED
        BY <1>a, <3>1, <3>2 DEF LeaseCovers, StillOwn, IsTerminalStatus
    <2>3. QED
      BY <1>a, <2>1, <2>2 DEF ExecutorCovered
  \* A step of worker u that only ends its own execution.
  <1>b. ASSUME NEW u \in Workers, recs' = recs, now' = now,
               \A v \in Workers : v # u => held'[v] = held[v],
               held'[u].stage # "exec"
        PROVE  ExecutorCovered' /\ OneExecutor'
    <2>1. OneExecutor'
      BY <1>b DEF ExclusiveInv, OneExecutor, Believes
    <2>2. ExecutorCovered'
      BY <1>b DEF ExclusiveInv, ExecutorCovered, LeaseCovers, StillOwn
    <2>3. QED BY <2>1, <2>2
  <1>1. ASSUME NEW j \in Jobs, NEW st \in {"queued"} \cup Finals, Enqueue(j, st)
        PROVE  ExecutorCovered' /\ OneExecutor'
    BY <1>0, <1>1, <1>a DEF Enqueue
  <1>2. ASSUME NEW S \in SUBSET Jobs, EnqueueNodes(S)
        PROVE  ExecutorCovered' /\ OneExecutor'
    BY <1>0, <1>2, <1>a DEF EnqueueNodes
  <1>3. ASSUME NEW j \in Jobs, NEW st \in Finals, Complete(j, st)
        PROVE  ExecutorCovered' /\ OneExecutor'
    <2>1. \A i \in Jobs : recs'[i] = recs[i] \/ IsTerminalStatus(recs'[i].status)
      BY <1>0, <1>3 DEF Complete, JobRec, IsTerminalStatus
    <2>2. QED BY <1>3, <1>a, <2>1 DEF Complete
  <1>4. ASSUME NEW t \in Tenants, DeleteByTenant(t)
        PROVE  ExecutorCovered' /\ OneExecutor'
    <2>1. \A i \in Jobs : recs'[i] = recs[i] \/ recs'[i].status = "gone"
      BY <1>4 DEF DeleteByTenant, NoRec
    <2>2. QED BY <1>4, <1>a, <2>1 DEF DeleteByTenant
  <1>5. ASSUME NEW w \in Workers, NEW j \in Jobs, Claim(w, j)
        PROVE  ExecutorCovered' /\ OneExecutor'
    <2>1. \A v \in Workers : Believes(v) => held[v].job # j
      BY <1>5, ExecutedNotClaimable DEF Claim
    <2>2. /\ held'[w].job = j /\ held'[w].nextTick = now + RenewEvery
          /\ held'[w].until = now + LeaseDuration
          /\ \A v \in Workers : v # w => held'[v] = held[v]
      BY <1>0, <1>5 DEF Claim
    <2>3. /\ recs'[j].status = "running" /\ recs'[j].worker = w
          /\ recs'[j].lease = now + LeaseDuration
          /\ \A i \in Jobs : i # j => recs'[i] = recs[i]
      BY <1>0, <1>5 DEF Claim, JobRec
    <2>4. now' = now
      BY <1>5 DEF Claim
    <2>5. LeaseCovers(w)'
      BY <1>0, <2>2, <2>3, <2>4 DEF LeaseCovers, StillOwn
    <2>6. ASSUME NEW v \in Workers, v # w, held'[v].stage = "exec"
          PROVE  LeaseCovers(v)'
      <3>1. LeaseCovers(v) /\ held[v].job \in Jobs /\ held'[v] = held[v]
        BY <1>0, <2>2, <2>6, HeldTyped DEF ExclusiveInv, ExecutorCovered
      <3>2. now <= held[v].until => recs'[held[v].job] = recs[held[v].job]
        BY <2>1, <2>3, <2>6, <3>1 DEF Believes
      <3>3. QED BY <2>4, <3>1, <3>2 DEF LeaseCovers, StillOwn
    <2>7. ExecutorCovered'
      BY <2>5, <2>6 DEF ExecutorCovered
    <2>8. OneExecutor'
      BY <2>1, <2>2, <2>4 DEF ExclusiveInv, OneExecutor, Believes
    <2>9. QED BY <2>7, <2>8
  <1>6. ASSUME NEW w \in Workers, NEW applied \in BOOLEAN, Renew(w) \/ RenewFails(w, applied)
        PROVE  ExecutorCovered' /\ OneExecutor'
    <2> DEFINE j == held[w].job
    <2>0. /\ held[w].stage = "exec" /\ held[w] \in Claimed /\ j \in Jobs
          /\ held[w].nextTick \in Nat /\ held[w].until \in Nat
          /\ held[w].nextTick <= now /\ now' = now
      BY <1>0, <1>6, HeldTyped DEF Renew, RenewFails, TickerDue
    <2>1. LeaseCovers(w)
      BY <2>0 DEF ExclusiveInv, ExecutorCovered
    <2>2. \A v \in Workers : v # w => held'[v] = held[v]
      BY <1>0, <1>6, <2>0 DEF Renew, RenewFails
    \* Either nothing was written, or the record was its own and is renewed.
    <2>3. \/ recs' = recs
          \/ /\ recs[j].status = "running" /\ recs[j].worker = w
             /\ \A i \in Jobs : i # j => recs'[i] = recs[i]
             /\ recs'[j].status = "running" /\ recs'[j].worker = w
             /\ recs'[j].lease = now + LeaseDuration
      BY <1>0, <1>6, <2>0, RenewedTyped DEF Renew, RenewFails, RenewAllowed
    <2>4. held'[w].stage = "exec" =>
               /\ held'[w].job = j
               /\ held'[w].nextTick = now + RenewEvery
               /\ \/ /\ held'[w].until = now + LeaseDuration
                     /\ recs[j].status = "running" /\ recs[j].worker = w
                     /\ recs'[j].status = "running" /\ recs'[j].worker = w
                     /\ recs'[j].lease = now + LeaseDuration
                  \/ /\ held'[w].until = held[w].until
                     /\ now + RenewEvery < held[w].until
      BY <1>0, <1>6, <2>0, RenewedTyped DEF Renew, RenewFails, RenewAllowed, Idle, Claimed
    \* Whoever else believes in a lease on this record is not w's match.
    <2>5. ASSUME NEW v \in Workers, v # w, Believes(v), held[v].job = j
          PROVE  recs[j].status = "running" => recs[j].worker # w
      <3>1. StillOwn(v)
        BY <2>5 DEF ExclusiveInv, ExecutorCovered, LeaseCovers, Believes
      <3>2. QED BY <2>5, <3>1 DEF StillOwn, IsTerminalStatus
    <2>6. held'[w].stage = "exec" => LeaseCovers(w)'
      <3>1. recs[j].lease \in Nat
        BY <1>0, <2>0 DEF JobRec
      <3>2. SUFFICES ASSUME held'[w].stage = "exec" PROVE LeaseCovers(w)'
        OBVIOUS
      <3>3. held[w].until <= now + LeaseDuration
        BY <2>1 DEF LeaseCovers
      <3>4. /\ held'[w].nextTick < held'[w].until
            /\ held'[w].until <= now' + LeaseDuration
        BY <1>0, <2>0, <2>4, <3>2, <3>3
      <3>5. StillOwn(w)'
        <4>1. CASE /\ held'[w].until = now + LeaseDuration
                   /\ recs'[j].status = "running" /\ recs'[j].worker = w
                   /\ recs'[j].lease = now + LeaseDuration
          BY <1>0, <2>4, <3>2, <4>1 DEF StillOwn
        <4>2. CASE held'[w].until = held[w].until /\ now + RenewEvery < held[w].until
          <5>1. StillOwn(w)
            BY <1>0, <2>0, <2>1, <4>2 DEF LeaseCovers
          <5>2. CASE recs' = recs
            BY <2>4, <3>2, <4>2, <5>1, <5>2 DEF StillOwn
          <5>3. CASE /\ recs'[j].status = "running" /\ recs'[j].worker = w
                     /\ recs'[j].lease = now + LeaseDuration
            BY <1>0, <2>0, <2>4, <3>2, <3>3, <4>2, <5>3 DEF StillOwn
          <5>4. QED BY <2>3, <5>2, <5>3
        <4>3. QED BY <2>4, <3>2, <4>1, <4>2
      <3>6. QED BY <3>4, <3>5 DEF LeaseCovers
    <2>7. ASSUME NEW v \in Workers, v # w, held'[v].stage = "exec"
          PROVE  LeaseCovers(v)'
      <3>1. LeaseCovers(v) /\ held[v].job \in Jobs /\ held'[v] = held[v]
        BY <1>0, <2>2, <2>7, HeldTyped DEF ExclusiveInv, ExecutorCovered
      <3>2. now <= held[v].until => recs'[held[v].job] = recs[held[v].job]
        BY <2>3, <2>5, <2>7, <3>1 DEF Believes
      <3>3. QED BY <2>0, <3>1, <3>2 DEF LeaseCovers, StillOwn
    <2>8. OneExecutor'
      <3>1. \A v \in Workers : Believes(v)' =>
               /\ v # w => Believes(v) /\ held'[v].job = held[v].job
               /\ v = w => held'[w].job = j
        BY <2>0, <2>2, <2>4 DEF Believes
      <3>2. Believes(w)' =>
               \A v \in Workers : v # w /\ Believes(v) => held[v].job # j
        <4>1. SUFFICES ASSUME Believes(w)', NEW v \in Workers, v # w, Believes(v), held[v].job = j
                       PROVE  FALSE
          OBVIOUS
        <4>2. CASE recs[j].status = "running" /\ recs[j].worker = w
          BY <2>5, <4>1, <4>2
        <4>3. CASE held'[w].until = held[w].until /\ now + RenewEvery < held[w].until
          <5>1. Believes(w)
            BY <1>0, <2>0, <4>3 DEF Believes
          <5>2. QED BY <4>1, <5>1 DEF ExclusiveInv, OneExecutor
        <4>4. QED BY <2>4, <4>1, <4>2, <4>3 DEF Believes
      <3>3. QED BY <3>1, <3>2 DEF ExclusiveInv, OneExecutor
    <2>9. QED BY <2>6, <2>7, <2>8 DEF ExecutorCovered
  <1>7. ASSUME NEW w \in Workers, LoseLease(w) \/ Abandon(w) \/ Crash(w) \/ StopLease(w)
        PROVE  ExecutorCovered' /\ OneExecutor'
    <2>1. held'[w].stage # "exec"
      BY <1>0, <1>7, HeldTyped DEF LoseLease, Abandon, Crash, StopLease, Idle, Claimed
    <2>2. QED
      BY <1>0, <1>7, <1>b, <2>1 DEF LoseLease, Abandon, Crash, StopLease
  \* A fenced write by u: nobody executes the record it writes under a lease.
  <1>8. ASSUME NEW u \in Workers, NEW st, NEW d, CompleteOwned(u, st) \/ RequeueOwned(u, d)
        PROVE  ExecutorCovered' /\ OneExecutor'
    <2>0. /\ held[u].stage = "commit" /\ held[u].job \in Jobs /\ now' = now
          /\ held' = [held EXCEPT ![u] = Idle]
      BY <1>0, <1>8, HeldTyped DEF CompleteOwned, RequeueOwned
    <2>1. /\ recs[held[u].job].worker = u
          /\ ~IsTerminalStatus(recs[held[u].job].status)
          /\ recs[held[u].job].status # "gone"
      BY <1>8 DEF CompleteOwned, RequeueOwned, CompleteAllowed, RequeueAllowed
    <2>2. \A i \in Jobs : i # held[u].job => recs'[i] = recs[i]
      BY <1>0, <1>8, <2>0 DEF CompleteOwned, RequeueOwned
    <2>3. OneExecutor'
      BY <1>0, <2>0 DEF ExclusiveInv, OneExecutor, Believes, Idle
    <2>4. ASSUME NEW v \in Workers, held'[v].stage = "exec"
          PROVE  LeaseCovers(v)'
      <3>1. v # u /\ held'[v] = held[v]
        BY <1>0, <2>0, <2>4 DEF Idle
      <3>2. LeaseCovers(v) /\ held[v].job \in Jobs
        BY <1>0, <2>4, <3>1, HeldTyped DEF ExclusiveInv, ExecutorCovered
      <3>3. now <= held[v].until => held[v].job # held[u].job
        BY <2>1, <3>1, <3>2 DEF LeaseCovers, StillOwn
      <3>4. QED BY <2>0, <2>2, <3>1, <3>2, <3>3 DEF LeaseCovers, StillOwn
    <2>5. QED BY <2>3, <2>4 DEF ExecutorCovered
  <1>9. CASE Tick
    <2>1. recs' = recs /\ held' = held /\ now' = now + 1
      BY <1>9 DEF Tick
    <2>2. \A w \in Workers : held[w].stage = "exec" =>
             held[w].until \in Nat /\ (now' <= held[w].until => now <= held[w].until)
      BY <1>0, <2>1, HeldTyped
    <2>3. ASSUME NEW w \in Workers, held[w].stage = "exec"
          PROVE  LeaseCovers(w)'
      <3>1. LeaseCovers(w)
        BY <2>3 DEF ExclusiveInv, ExecutorCovered
      <3>2. QED BY <1>0, <2>1, <2>2, <2>3, <3>1 DEF LeaseCovers, StillOwn
    <2>4. OneExecutor'
      BY <2>1, <2>2 DEF ExclusiveInv, OneExecutor, Believes
    <2>5. QED BY <2>1, <2>3, <2>4 DEF ExecutorCovered
  <1>10. CASE UNCHANGED vars
    BY <1>10 DEF vars, ExclusiveInv, ExecutorCovered, LeaseCovers, StillOwn, OneExecutor, Believes
  <1>11. QED
    BY <1>1, <1>2, <1>3, <1>4, <1>5, <1>6, <1>7, <1>8, <1>9, <1>10 DEF Next

\* Of the workers that execute a record at most one is on time with its
\* renewals, for every lease length and renewal period with
\* RenewEvery < LeaseDuration, whatever the others do.
THEOREM ExclusiveExecution == Spec => []NoDoubleExecution
  <1>1. Init => ExclusiveInv
    BY DEF Init, ExclusiveInv, TypeOK, JobRec, NoRec, ExecutorCovered, OneExecutor, Believes, Idle
  <1>2. ExclusiveInv => NoDoubleExecution
    <2> SUFFICES ASSUME ExclusiveInv, NEW v \in Workers, NEW w \in Workers, NEW j \in Jobs,
                        Executing(v, j), OnTime(v), Executing(w, j), OnTime(w)
                 PROVE  v = w
      BY DEF NoDoubleExecution
    <2>1. \A u \in Workers : held[u].stage = "exec" =>
             held[u].nextTick \in Nat /\ held[u].until \in Nat /\ now \in Nat
      BY HeldTyped DEF ExclusiveInv, TypeOK
    <2>2. Believes(v) /\ Believes(w)
      BY <2>1 DEF ExclusiveInv, ExecutorCovered, LeaseCovers, Executing, OnTime, Believes
    <2>3. QED BY <2>2 DEF ExclusiveInv, OneExecutor, Executing
  <1>3. QED BY <1>1, <1>2, ExclusiveStep, PTL DEF Spec

-----------------------------------------------------------------------------
(* The tenant cap.                                                         *)

\* The claims of a tenant the cap speaks of.
FreshLive(t) == {j \in LiveRunning(t) : recs[j].fresh}

CapInv == TypeOK /\ FreshClaimsWithinCap

\* A step that adds no claim to the fresh and live ones keeps the cap.
LEMMA CapShrinks ==
    ASSUME CapInv, NEW t \in Tenants, MaxConcurrent > 0, FreshLive(t)' \subseteq FreshLive(t)
    PROVE  Cardinality(FreshLive(t)') <= MaxConcurrent
  <1>1. FreshLive(t) \subseteq Jobs
    BY DEF FreshLive, LiveRunning
  <1>2. IsFiniteSet(FreshLive(t))
    BY <1>1, JobsAssumption, FS_Subset
  <1>3. /\ IsFiniteSet(FreshLive(t)') /\ Cardinality(FreshLive(t)') <= Cardinality(FreshLive(t))
    BY <1>2, FS_Subset
  <1>4. /\ Cardinality(FreshLive(t)') \in Nat /\ Cardinality(FreshLive(t)) \in Nat
    BY <1>2, <1>3, FS_CardinalityType
  <1>5. Cardinality(FreshLive(t)) <= MaxConcurrent
    BY DEF CapInv, FreshClaimsWithinCap, FreshLive
  <1>6. QED BY <1>3, <1>4, <1>5, TimingAssumption

\* Every step keeps the cap; only a claim from the queue adds to the count.
LEMMA CapStep == CapInv /\ [Next]_vars => CapInv'
  <1> SUFFICES ASSUME CapInv, [Next]_vars, MaxConcurrent > 0, NEW t \in Tenants
               PROVE  Cardinality(FreshLive(t)') <= MaxConcurrent
    BY TypeStep DEF CapInv, FreshClaimsWithinCap, FreshLive
  <1>0. /\ TypeOK /\ TypeOK' /\ now \in Nat /\ now' \in Nat
        /\ recs \in [Jobs -> JobRec] /\ recs' \in [Jobs -> JobRec]
        /\ held \in [Workers -> Claimed \cup {Idle}]
    BY TypeStep DEF CapInv, TypeOK
  <1> USE TimingAssumption, StatusFacts
  <1> DEFINE Goal == Cardinality(FreshLive(t)') <= MaxConcurrent
  \* Records that are as they were, or are not a fresh live claim.
  <1>a. ASSUME now <= now',
               \A i \in Jobs : \/ recs'[i] = recs[i]
                               \/ recs'[i].status # "running"
                               \/ ~recs'[i].fresh
                               \/ /\ recs[i].status = "running" /\ recs[i].fresh
                                  /\ recs[i].lease > now
        PROVE  Goal
    <2>1. \A i \in Jobs : recs[i].lease \in Nat
      BY <1>0 DEF JobRec
    <2>2. FreshLive(t)' \subseteq FreshLive(t)
      BY <1>0, <1>a, <2>1 DEF FreshLive, LiveRunning
    <2>3. QED BY <2>2, CapShrinks
  <1>1. ASSUME NEW j \in Jobs, NEW st \in {"queued"} \cup Finals, Enqueue(j, st)
        PROVE  Goal
    <2>1. \A i \in Jobs : recs'[i] = recs[i] \/ recs'[i].status # "running"
      BY <1>0, <1>1 DEF Enqueue, JobRec
    <2>2. now' = now
      BY <1>1 DEF Enqueue
    <2>3. QED BY <1>0, <1>a, <2>1, <2>2
  <1>2. ASSUME NEW S \in SUBSET Jobs, EnqueueNodes(S)
        PROVE  Goal
    <2>1. \A i \in Jobs : recs'[i] = recs[i] \/ recs'[i].status # "running"
      BY <1>0, <1>2 DEF EnqueueNodes, JobRec
    <2>2. now' = now
      BY <1>2 DEF EnqueueNodes
    <2>3. QED BY <1>0, <1>a, <2>1, <2>2
  <1>3. ASSUME NEW j \in Jobs, NEW st \in Finals, Complete(j, st)
        PROVE  Goal
    <2>1. \A i \in Jobs : recs'[i] = recs[i] \/ recs'[i].status # "running"
      BY <1>0, <1>3 DEF Complete, JobRec
    <2>2. now' = now
      BY <1>3 DEF Complete
    <2>3. QED BY <1>0, <1>a, <2>1, <2>2
  <1>4. ASSUME NEW u \in Tenants, DeleteByTenant(u)
        PROVE  Goal
    <2>1. \A i \in Jobs : recs'[i] = recs[i] \/ recs'[i].status # "running"
      BY <1>4 DEF DeleteByTenant, NoRec
    <2>2. now' = now
      BY <1>4 DEF DeleteByTenant
    <2>3. QED BY <1>0, <1>a, <2>1, <2>2
  <1>5. ASSUME NEW w \in Workers, NEW j \in Jobs, Claim(w, j)
        PROVE  Goal
    <2>1. /\ recs'[j].fresh = ~Reclaimable(j) /\ now' = now
          /\ \A i \in Jobs : i # j => recs'[i] = recs[i]
      BY <1>0, <1>5 DEF Claim, JobRec
    <2>2. CASE Reclaimable(j)
      <3>1. ~recs'[j].fresh
        BY <2>1, <2>2
      <3>2. QED BY <1>0, <1>a, <2>1, <3>1
    <2>3. CASE ~Reclaimable(j) /\ TenantOf[j] # t
      <3>1. FreshLive(t)' \subseteq FreshLive(t)
        BY <2>1, <2>3 DEF FreshLive, LiveRunning
      <3>2. QED BY <3>1, CapShrinks
    <2>4. CASE ~Reclaimable(j) /\ TenantOf[j] = t
      <3>1. Cardinality(LiveRunning(t)) < MaxConcurrent
        BY <1>5, <2>4 DEF Claim, Claimable, UnderCap
      <3>2. FreshLive(t)' \subseteq LiveRunning(t) \cup {j}
        BY <2>1 DEF FreshLive, LiveRunning
      <3>3. IsFiniteSet(LiveRunning(t))
        BY JobsAssumption, FS_Subset DEF LiveRunning
      <3>4. /\ IsFiniteSet(LiveRunning(t) \cup {j})
            /\ \/ Cardinality(LiveRunning(t) \cup {j}) = Cardinality(LiveRunning(t))
               \/ Cardinality(LiveRunning(t) \cup {j}) = Cardinality(LiveRunning(t)) + 1
        BY <3>3, FS_AddElement
      <3>5. /\ IsFiniteSet(FreshLive(t)')
            /\ Cardinality(FreshLive(t)') <= Cardinality(LiveRunning(t) \cup {j})
        BY <3>2, <3>4, FS_Subset
      <3>6. Cardinality(FreshLive(t)') \in Nat /\ Cardinality(LiveRunning(t)) \in Nat
        BY <3>3, <3>5, FS_CardinalityType
      <3>7. QED BY <3>1, <3>4, <3>5, <3>6
    <2>5. QED BY <2>2, <2>3, <2>4
  <1>6. ASSUME NEW w \in Workers, NEW applied \in BOOLEAN, Renew(w) \/ RenewFails(w, applied)
        PROVE  Goal
    <2>1. held[w].job \in Jobs /\ now' = now
      BY <1>0, <1>6, HeldTyped DEF Renew, RenewFails, TickerDue
    <2>2. \/ recs' = recs
          \/ /\ recs[held[w].job].status = "running"
             /\ recs' = [recs EXCEPT ![held[w].job] = Renewed(@)]
      BY <1>6 DEF Renew, RenewFails, RenewAllowed
    <2>3. \A i \in Jobs : recs[i].fresh \in BOOLEAN /\ recs'[i].fresh \in BOOLEAN
      BY <1>0 DEF JobRec
    <2>4. \A i \in Jobs : \/ recs'[i] = recs[i]
                          \/ ~recs'[i].fresh
                          \/ /\ recs[i].status = "running" /\ recs[i].fresh
                             /\ recs[i].lease > now
      BY <1>0, <2>1, <2>2, <2>3, RenewedTyped
    <2>5. QED BY <1>0, <1>a, <2>1, <2>4
  <1>7. ASSUME NEW w \in Workers, LoseLease(w) \/ Abandon(w) \/ Crash(w) \/ StopLease(w)
        PROVE  Goal
    BY <1>0, <1>7, <1>a DEF LoseLease, Abandon, Crash, StopLease
  <1>8. ASSUME NEW w \in Workers, NEW st \in Finals \cup {"awaiting"}, CompleteOwned(w, st)
        PROVE  Goal
    <2>1. held[w].job \in Jobs
      BY <1>0, <1>8, HeldTyped DEF CompleteOwned
    <2>2. \A i \in Jobs : recs'[i] = recs[i] \/ recs'[i].status # "running"
      BY <1>0, <1>8, <2>1 DEF CompleteOwned, JobRec
    <2>3. now' = now
      BY <1>8 DEF CompleteOwned
    <2>4. QED BY <1>0, <1>a, <2>2, <2>3
  <1>9. ASSUME NEW w \in Workers, NEW d \in Delays, RequeueOwned(w, d)
        PROVE  Goal
    <2>1. \A i \in Jobs : recs'[i] = recs[i] \/ recs'[i].status # "running"
      BY <1>0, <1>9, RequeueEffect
    <2>2. now' = now
      BY <1>9 DEF RequeueOwned
    <2>3. QED BY <1>0, <1>a, <2>1, <2>2
  <1>10. CASE Tick \/ UNCHANGED vars
    <2>1. recs' = recs /\ now <= now'
      BY <1>0, <1>10 DEF Tick, vars
    <2>2. QED BY <1>a, <2>1
  <1>11. QED
    BY <1>1, <1>2, <1>3, <1>4, <1>5, <1>6, <1>7, <1>8, <1>9, <1>10 DEF Next

\* The claims taken from the queue that are alive never exceed the tenant's
\* cap, for every finite set of records and every cap.
THEOREM CapHolds == Spec => []FreshClaimsWithinCap
  <1>1. Init => CapInv
    <2> SUFFICES ASSUME Init PROVE CapInv
      OBVIOUS
    <2>1. TypeOK
      BY DEF Init, TypeOK, JobRec, NoRec
    <2>2. \A t \in Tenants : {j \in LiveRunning(t) : recs[j].fresh} = {}
      BY DEF Init, LiveRunning, NoRec
    <2>3. QED BY <2>1, <2>2, FS_EmptySet, TimingAssumption DEF CapInv, FreshClaimsWithinCap
  <1>2. CapInv => FreshClaimsWithinCap
    BY DEF CapInv
  <1>3. QED BY <1>1, <1>2, CapStep, PTL DEF Spec
-----------------------------------------------------------------------------
(* The queue of tokens.  A write names its worker, not its claim; that the *)
(* worker's id stands for the newest claim is HolderIsCurrent, and that it *)
(* stands for a claim that is still open is HolderRuns.                    *)

\* A record that names a worker still busy with it runs, or has been decided
\* over the worker's head.
HolderRuns ==
    \A w \in Workers : Busy(w) /\ recs[held[w].job].worker = w =>
        recs[held[w].job].status = "running" \/ IsTerminalStatus(recs[held[w].job].status)

\* No worker holds a claim that was not handed out yet.
HeldBelow ==
    \A w \in Workers : Busy(w) =>
        recs[held[w].job].status = "gone" \/ held[w].attempt <= recs[held[w].job].attempt

\* No claim is held twice.
TokensDistinct ==
    \A v, w \in Workers :
        v # w /\ Busy(v) /\ Busy(w) /\ held[v].job = held[w].job => held[v].attempt # held[w].attempt

TokenInv == FenceInv /\ HolderRuns /\ HeldBelow /\ TokensDistinct

\* A worker goes on with its claim or stops: no step other than a claim gives it one.
GoesOn(v) ==
    \/ held'[v].stage = "idle"
    \/ Busy(v) /\ held'[v].job = held[v].job /\ held'[v].attempt = held[v].attempt

\* A record that is not claimed anew: erased, or with the attempts it had; and its
\* holder is gone, stops, or finds it as it was or decided.
NotTaken(i) ==
    /\ recs'[i].status = "gone" \/ (recs'[i].attempt = recs[i].attempt /\ recs[i].status # "gone")
    /\ \/ recs'[i].worker = Nobody
       \/ /\ recs'[i].worker = recs[i].worker
          /\ \/ recs'[i].status = recs[i].status \/ IsTerminalStatus(recs'[i].status)
             \/ recs[i].status = "absent"
             \/ \A v \in Workers : recs'[i].worker = v => held'[v].stage = "idle"

\* Steps that take no record keep the tokens in order.
LEMMA NothingTaken ==
    ASSUME TokenInv, TypeOK', \A v \in Workers : GoesOn(v), \A i \in Jobs : NotTaken(i)
    PROVE  HolderRuns' /\ HeldBelow' /\ TokensDistinct'
  <1>1. ASSUME NEW v \in Workers, Busy(v)'
        PROVE  /\ Busy(v) /\ held'[v].job = held[v].job /\ held'[v].attempt = held[v].attempt
               /\ held[v].job \in Jobs /\ held'[v].job \in Jobs
    BY <1>1, HeldTyped DEF Busy, GoesOn, TokenInv, FenceInv
  <1>2. HolderRuns'
    <2> SUFFICES ASSUME NEW v \in Workers, Busy(v)', recs'[held'[v].job].worker = v
                 PROVE  \/ recs'[held'[v].job].status = "running"
                        \/ IsTerminalStatus(recs'[held'[v].job].status)
      BY DEF HolderRuns
    <2> DEFINE i == held[v].job
    <2>1. Busy(v) /\ held'[v].job = i /\ i \in Jobs /\ held'[v].stage # "idle"
      BY <1>1 DEF Busy
    <2>2. recs'[i].worker = v /\ v # Nobody
      BY <2>1, WorkersAssumption
    <2>3. recs[i].worker = v
      BY <2>1, <2>2 DEF NotTaken
    <2>4. recs[i].status = "running" \/ IsTerminalStatus(recs[i].status)
      BY <2>1, <2>3 DEF TokenInv, HolderRuns
    <2>5. recs[i].status # "absent"
      BY <2>4, StatusFacts DEF IsTerminalStatus
    <2>6. recs'[i].status = recs[i].status \/ IsTerminalStatus(recs'[i].status)
      BY <2>1, <2>2, <2>5 DEF NotTaken
    <2> QED BY <2>1, <2>4, <2>6
  <1>3. HeldBelow'
    BY <1>1 DEF HeldBelow, NotTaken, TokenInv
  <1>4. TokensDistinct'
    BY <1>1 DEF TokensDistinct, TokenInv
  <1> QED BY <1>2, <1>3, <1>4

\* A claim hands out a number nobody holds.
LEMMA ClaimTakes ==
    ASSUME TokenInv, TypeOK', NEW w \in Workers, NEW j \in Jobs, Claim(w, j)
    PROVE  HolderRuns' /\ HeldBelow' /\ TokensDistinct'
  <1>0. TypeOK
    BY DEF TokenInv, FenceInv
  <1>1. /\ recs'[j].worker = w /\ recs'[j].status = "running"
        /\ recs'[j].attempt = recs[j].attempt + 1 /\ recs[j].attempt \in Nat
        /\ \A i \in Jobs : i # j => recs'[i] = recs[i]
    BY <1>0 DEF Claim, TypeOK, JobRec
  <1>2. /\ held'[w].job = j /\ held'[w].attempt = recs[j].attempt + 1
        /\ \A v \in Workers : v # w => held'[v] = held[v]
    BY <1>0 DEF Claim, TypeOK
  <1>3. recs[j].status # "gone"
    BY DEF Claim, Claimable, Reclaimable
  <1>4. ASSUME NEW v \in Workers, v # w, Busy(v)
        PROVE  /\ held'[v] = held[v] /\ held[v].job \in Jobs /\ held[v].attempt \in Nat
               /\ held[v].job = j => held[v].attempt <= recs[j].attempt
    BY <1>0, <1>2, <1>3, <1>4, HeldTyped DEF Busy, HeldBelow, TokenInv
  <1>5. ASSUME NEW v \in Workers, v # w, Busy(v)' PROVE Busy(v)
    BY <1>2, <1>5 DEF Busy
  <1>6. HolderRuns'
    <2> SUFFICES ASSUME NEW v \in Workers, Busy(v)', recs'[held'[v].job].worker = v
                 PROVE  \/ recs'[held'[v].job].status = "running"
                        \/ IsTerminalStatus(recs'[held'[v].job].status)
      BY DEF HolderRuns
    <2>1. CASE v = w
      BY <1>1, <1>2, <2>1
    <2>2. CASE v # w
      <3>1. Busy(v) /\ held'[v] = held[v] /\ held[v].job \in Jobs
        BY <1>4, <1>5, <2>2
      <3>2. held[v].job # j
        BY <1>1, <2>2, <3>1
      <3> QED BY <1>1, <3>1, <3>2 DEF TokenInv, HolderRuns
    <2> QED BY <2>1, <2>2
  <1>7. HeldBelow'
    <2> SUFFICES ASSUME NEW v \in Workers, Busy(v)'
                 PROVE  \/ recs'[held'[v].job].status = "gone"
                        \/ held'[v].attempt <= recs'[held'[v].job].attempt
      BY DEF HeldBelow
    <2>1. CASE v = w
      BY <1>1, <1>2, <2>1
    <2>2. CASE v # w
      <3>1. Busy(v)
        BY <1>5, <2>2
      <3> QED BY <1>1, <1>4, <2>2, <3>1 DEF TokenInv, HeldBelow
    <2> QED BY <2>1, <2>2
  <1>8. TokensDistinct'
    <2> SUFFICES ASSUME NEW u \in Workers, NEW v \in Workers, u # v, Busy(u)', Busy(v)',
                        held'[u].job = held'[v].job, held'[u].attempt = held'[v].attempt
                 PROVE  FALSE
      BY DEF TokensDistinct
    <2>1. CASE u # w /\ v # w
      BY <1>4, <1>5, <2>1 DEF TokenInv, TokensDistinct
    <2>2. CASE u = w
      BY <1>1, <1>2, <1>4, <1>5, <2>2
    <2>3. CASE v = w
      BY <1>1, <1>2, <1>4, <1>5, <2>3
    <2> QED BY <2>1, <2>2, <2>3
  <1> QED BY <1>6, <1>7, <1>8

-----------------------------------------------------------------------------
(* What a step of the store is, of the queue of tokens.                    *)

\* A worker that stops hands in its one claim.
LEMMA HandsIn ==
    ASSUME TokenInv, NEW w \in Workers, Busy(w), held' = [held EXCEPT ![w] = Idle],
           NEW j \in Jobs, held[w].job = j
    PROVE  /\ held[w].attempt \in InHand(j)
           /\ [i \in Jobs |-> InHand(i)'] =
                 [[i \in Jobs |-> InHand(i)] EXCEPT ![j] = @ \ {held[w].attempt}]
           /\ \A v \in Workers : GoesOn(v)
  <1>2. held[w].attempt \in InHand(j)
    BY DEF InHand
  <1>3. held'[w] = Idle /\ ~Busy(w)' /\ \A v \in Workers : v # w => held'[v] = held[v] /\ (Busy(v)' <=> Busy(v))
    BY DEF TokenInv, FenceInv, TypeOK, Busy, Idle
  <1>4. ASSUME NEW i \in Jobs, i # j PROVE InHand(i)' = InHand(i)
    BY <1>3, <1>4 DEF InHand
  <1>5. InHand(j)' = InHand(j) \ {held[w].attempt}
    <2>1. ASSUME NEW k PROVE k \in InHand(j)' <=>
             \E v \in Workers : v # w /\ Busy(v) /\ held[v].job = j /\ held[v].attempt = k
      BY <1>3 DEF InHand
    <2>2. ASSUME NEW k PROVE k \in InHand(j) <=>
             \E v \in Workers : Busy(v) /\ held[v].job = j /\ held[v].attempt = k
      BY DEF InHand
    <2>3. ASSUME NEW k PROVE k \in InHand(j)' <=> k \in InHand(j) /\ k # held[w].attempt
      BY <2>1, <2>2 DEF TokenInv, TokensDistinct
    <2> QED BY <2>3
  <1>6. \A v \in Workers : GoesOn(v)
    BY <1>3 DEF GoesOn, Busy, Idle
  <1>7. [i \in Jobs |-> InHand(i)'] =
           [[i \in Jobs |-> InHand(i)] EXCEPT ![j] = @ \ {held[w].attempt}]
    BY <1>4, <1>5
  <1> QED BY <1>2, <1>6, <1>7

\* As long as no worker starts or stops, the claims in hand are the same.
LEMMA HandsStay ==
    ASSUME \A v \in Workers : Busy(v)' = Busy(v) /\ (Busy(v) => /\ held'[v].job = held[v].job
                                                             /\ held'[v].attempt = held[v].attempt)
    PROVE  \A j \in Jobs : InHand(j)' = InHand(j)
  BY DEF InHand

\* A record of which status, attempt and author stay is the same to the queue.
SameToQueue(i) ==
    recs'[i].status = recs[i].status /\ recs'[i].attempt = recs[i].attempt /\ recs'[i].author = recs[i].author

\* Where nothing the queue shows changes, its step is a stutter.
LEMMA QueueStutters ==
    ASSUME \A i \in Jobs : SameToQueue(i), \A i \in Jobs : InHand(i)' = InHand(i)
    PROVE  UNCHANGED Tokens!vars
  BY DEF Tokens!vars, SameToQueue

\* A worker that gives its record up without writing leaves the queue of tokens.
LEMMA WorkerLeaves ==
    ASSUME TokenInv, NEW w \in Workers, Busy(w), held' = [held EXCEPT ![w] = Idle],
           \A i \in Jobs : SameToQueue(i)
    PROVE  Tokens!Next
  <1>0. PICK j \in Jobs : held[w].job = j
    BY HeldTyped DEF TokenInv, FenceInv, Busy
  <1>1. Tokens!Leave(j, held[w].attempt)
    BY <1>0, HandsIn DEF Tokens!Leave, Tokens!Quit, SameToQueue
  <1>2. held[w].attempt \in [i \in Jobs |-> InHand(i)][j]
    BY <1>0, HandsIn
  <1> QED BY <1>1, <1>2 DEF Tokens!Next

\* The writes of a worker are made under the newest claim of a record that runs.
LEMMA WriteAccepted ==
    ASSUME TokenInv, NEW w \in Workers, Busy(w), held' = [held EXCEPT ![w] = Idle],
           NEW j \in Jobs, held[w].job = j, recs[j].worker = w, ~IsTerminalStatus(recs[j].status)
    PROVE  /\ Tokens!Accepted(j, held[w].attempt) /\ Tokens!Quit(j, held[w].attempt)
           /\ held[w].attempt \in [i \in Jobs |-> InHand(i)][j]
           /\ recs[j].status = "running" /\ recs[j].author = 0
  <1>1. recs[j].status = "running" /\ held[w].attempt = recs[j].attempt
    BY DEF TokenInv, FenceInv, HolderRuns, HolderIsCurrent, Busy
  <1>2. recs[j].author = 0
    BY <1>1, StatusFacts DEF TokenInv, FenceInv, OutcomeIsCurrent, IsTerminalStatus
  <1>3. held[w].attempt \in [i \in Jobs |-> InHand(i)][j]
    BY HandsIn
  <1>4. Tokens!Accepted(j, held[w].attempt)
    BY <1>1, <1>3 DEF Tokens!Accepted
  <1>5. Tokens!Quit(j, held[w].attempt)
    BY <1>3, HandsIn DEF Tokens!Quit
  <1> QED BY <1>1, <1>2, <1>3, <1>4, <1>5

\* Every step keeps the tokens in order and is a step of the queue, or a stutter.
LEMMA QueueStep ==
    TokenInv /\ [Next]_vars => TokenInv' /\ (Tokens!Next \/ UNCHANGED Tokens!vars)
  <1> SUFFICES ASSUME TokenInv, [Next]_vars
               PROVE  /\ HolderRuns' /\ HeldBelow' /\ TokensDistinct'
                      /\ Tokens!Next \/ UNCHANGED Tokens!vars
    BY FenceStep DEF TokenInv
  <1> DEFINE Good == /\ HolderRuns' /\ HeldBelow' /\ TokensDistinct'
                     /\ Tokens!Next \/ UNCHANGED Tokens!vars
  <1>0. TypeOK /\ TypeOK'
    BY TypeStep DEF TokenInv, FenceInv
  <1>a. ASSUME held' = held
        PROVE  (\A v \in Workers : GoesOn(v)) /\ \A i \in Jobs : InHand(i)' = InHand(i)
    BY <1>a DEF GoesOn, Busy, InHand
  <1>1. ASSUME NEW j \in Jobs, NEW st \in {"queued"} \cup Finals, Enqueue(j, st) PROVE Good
    <2>1. /\ recs[j].status = "absent" /\ held' = held
          /\ \A i \in Jobs : /\ recs'[i].status = IF i = j THEN st ELSE recs[i].status
                             /\ recs'[i].worker = recs[i].worker
                             /\ recs'[i].attempt = recs[i].attempt /\ recs'[i].author = recs[i].author
      BY <1>0, <1>1 DEF Enqueue, TypeOK, JobRec
    <2>2. \A i \in Jobs : NotTaken(i)
      BY <2>1 DEF NotTaken
    <2>3. Tokens!Enter({j}, st)
      BY <1>a, <2>1 DEF Tokens!Enter
    <2>4. Tokens!Next
      BY <2>3 DEF Tokens!Next
    <2> QED BY <1>0, <1>a, <2>1, <2>2, <2>4, NothingTaken
  <1>2. ASSUME NEW S \in SUBSET Jobs, EnqueueNodes(S) PROVE Good
    <2>1. /\ held' = held /\ \A i \in S : recs[i].status = "absent"
          /\ \A i \in Jobs : /\ recs'[i].status = IF i \in S THEN "queued" ELSE recs[i].status
                             /\ recs'[i].worker = recs[i].worker
                             /\ recs'[i].attempt = recs[i].attempt /\ recs'[i].author = recs[i].author
      BY <1>0, <1>2 DEF EnqueueNodes, TypeOK, JobRec
    <2>2. \A i \in Jobs : NotTaken(i)
      BY <2>1 DEF NotTaken
    <2>3. Tokens!Enter(S, "queued")
      BY <1>a, <2>1 DEF Tokens!Enter
    <2>4. Tokens!Next
      BY <2>3 DEF Tokens!Next
    <2> QED BY <1>0, <1>a, <2>1, <2>2, <2>4, NothingTaken
  <1>3. ASSUME NEW j \in Jobs, NEW st \in Finals, Complete(j, st) PROVE Good
    <2>1. /\ held' = held /\ recs[j].status \in {"queued", "running", "awaiting"}
          /\ recs'[j].status = st /\ recs'[j].author = 0
          /\ \A i \in Jobs : /\ recs'[i].worker = recs[i].worker
                             /\ recs'[i].attempt = recs[i].attempt
                             /\ i # j => recs'[i] = recs[i]
      BY <1>0, <1>3 DEF Complete, CompleteAllowed, IsTerminalStatus, TypeOK, JobRec, JobStatuses, OpenStatuses
    <2>2. \A i \in Jobs : NotTaken(i)
      BY <2>1, TimingAssumption DEF NotTaken, IsTerminalStatus
    <2>3. Tokens!Overrule(j, st)
      BY <1>a, <2>1 DEF Tokens!Overrule
    <2>4. Tokens!Next
      BY <2>3 DEF Tokens!Next
    <2> QED BY <1>0, <1>a, <2>1, <2>2, <2>4, NothingTaken
  <1>4. ASSUME NEW t \in Tenants, DeleteByTenant(t) PROVE Good
    <2>0. PICK S \in SUBSET Jobs : S = {i \in Jobs : TenantOf[i] = t /\ recs[i].status # "absent"}
      OBVIOUS
    <2>1. held' = held /\ \A i \in Jobs : recs'[i] = IF i \in S THEN NoRec("gone") ELSE recs[i]
      BY <1>4, <2>0 DEF DeleteByTenant
    <2>2. \A i \in Jobs : NotTaken(i)
      BY <2>1 DEF NotTaken, NoRec
    <2>3. Tokens!Erase(S)
      BY <1>a, <2>0, <2>1 DEF Tokens!Erase, NoRec
    <2>4. Tokens!Next
      BY <2>3 DEF Tokens!Next
    <2> QED BY <1>0, <1>a, <2>1, <2>2, <2>4, NothingTaken
  <1>5. ASSUME NEW w \in Workers, NEW j \in Jobs, Claim(w, j) PROVE Good
    <2>1. /\ recs[j].status \in {"queued", "running"} /\ recs'[j].status = "running"
          /\ recs'[j].attempt = recs[j].attempt + 1
          /\ \A i \in Jobs : recs'[i].author = recs[i].author /\ (i # j => recs'[i] = recs[i])
      BY <1>0, <1>5 DEF Claim, Claimable, Reclaimable, TypeOK, JobRec
    <2>2. /\ ~Busy(w) /\ Busy(w)' /\ held'[w].job = j /\ held'[w].attempt = recs[j].attempt + 1
          /\ \A v \in Workers : v # w => held'[v] = held[v] /\ (Busy(v)' <=> Busy(v))
      BY <1>0, <1>5 DEF Claim, TypeOK, Busy
    <2>3. ASSUME NEW i \in Jobs, i # j PROVE InHand(i)' = InHand(i)
      BY <2>2, <2>3 DEF InHand
    <2>4. InHand(j)' = InHand(j) \cup {recs[j].attempt + 1}
      <3>1. ASSUME NEW k PROVE k \in InHand(j)' <=> k \in InHand(j) \/ k = recs[j].attempt + 1
        BY <2>2 DEF InHand
      <3> QED BY <3>1
    <2>5. Tokens!Take(j)
      BY <2>1, <2>3, <2>4 DEF Tokens!Take
    <2>6. Tokens!Next
      BY <2>5 DEF Tokens!Next
    <2> QED BY <1>0, <1>5, <2>6, ClaimTakes
  <1>6. ASSUME NEW w \in Workers, NEW applied \in BOOLEAN, Renew(w) \/ RenewFails(w, applied) PROVE Good
    <2>0. held[w].stage = "exec" /\ held[w] \in Claimed /\ held[w].job \in Jobs
      BY <1>0, <1>6, HeldTyped DEF Renew, RenewFails, TickerDue
    <2>1. \A i \in Jobs : SameToQueue(i) /\ recs'[i].worker = recs[i].worker
      BY <1>0, <1>6, <2>0, RenewedTyped DEF Renew, RenewFails, TypeOK, SameToQueue
    <2>2. \A i \in Jobs : NotTaken(i)
      BY <2>1 DEF NotTaken, SameToQueue
    <2>3. \/ held' = [held EXCEPT ![w] = Idle]
          \/ \A v \in Workers : Busy(v)' = Busy(v) /\ (Busy(v) => /\ held'[v].job = held[v].job
                                                              /\ held'[v].attempt = held[v].attempt)
      BY <1>0, <1>6, <2>0 DEF Renew, RenewFails, TypeOK, Claimed, Busy
    <2>4. Busy(w)
      BY <2>0 DEF Busy
    <2>5. CASE held' = [held EXCEPT ![w] = Idle]
      <3>1. \A v \in Workers : GoesOn(v)
        BY <2>0, <2>4, <2>5, HandsIn
      <3> QED BY <1>0, <2>1, <2>2, <2>4, <2>5, <3>1, NothingTaken, WorkerLeaves
    <2>6. CASE \A v \in Workers : Busy(v)' = Busy(v) /\ (Busy(v) => /\ held'[v].job = held[v].job
                                                                   /\ held'[v].attempt = held[v].attempt)
      <3>1. \A v \in Workers : GoesOn(v)
        BY <2>6 DEF GoesOn, Busy
      <3>2. \A i \in Jobs : InHand(i)' = InHand(i)
        BY <2>6, HandsStay
      <3> QED BY <1>0, <2>1, <2>2, <3>1, <3>2, NothingTaken, QueueStutters
    <2> QED BY <2>3, <2>5, <2>6
  <1>7. ASSUME NEW w \in Workers, LoseLease(w) \/ Abandon(w) \/ Crash(w) PROVE Good
    <2>1. Busy(w) /\ recs' = recs /\ held' = [held EXCEPT ![w] = Idle]
      BY <1>7 DEF LoseLease, Abandon, Crash, Busy, TickerDue
    <2>2. PICK j \in Jobs : held[w].job = j
      BY <1>0, <2>1, HeldTyped DEF Busy
    <2>3. \A v \in Workers : GoesOn(v)
      BY <2>1, <2>2, HandsIn
    <2>4. \A i \in Jobs : NotTaken(i) /\ SameToQueue(i)
      BY <2>1 DEF NotTaken, SameToQueue
    <2> QED BY <1>0, <2>1, <2>3, <2>4, NothingTaken, WorkerLeaves
  <1>8. ASSUME NEW w \in Workers, StopLease(w) PROVE Good
    <2>1. /\ recs' = recs
          /\ \A v \in Workers : Busy(v)' = Busy(v) /\ (Busy(v) => /\ held'[v].job = held[v].job
                                                              /\ held'[v].attempt = held[v].attempt)
      BY <1>0, <1>8 DEF StopLease, TypeOK, Claimed, Busy, Idle
    <2>2. \A v \in Workers : GoesOn(v)
      BY <2>1 DEF GoesOn, Busy
    <2>3. \A i \in Jobs : NotTaken(i) /\ SameToQueue(i)
      BY <2>1 DEF NotTaken, SameToQueue
    <2> QED BY <1>0, <2>1, <2>2, <2>3, NothingTaken, HandsStay, QueueStutters
  <1>9. ASSUME NEW w \in Workers, NEW st \in Finals \cup {"awaiting"}, CompleteOwned(w, st) PROVE Good
    <2>0. PICK j \in Jobs : held[w].job = j /\ Busy(w)
      BY <1>0, <1>9, HeldTyped DEF CompleteOwned, Busy
    <2>1. /\ held' = [held EXCEPT ![w] = Idle]
          /\ recs[j].worker = w /\ ~IsTerminalStatus(recs[j].status) /\ recs[j].status # "gone"
      BY <1>9, <2>0 DEF CompleteOwned, CompleteAllowed
    <2>2. /\ recs'[j].status = st /\ recs'[j].author = held[w].attempt
          /\ \A i \in Jobs : /\ recs'[i].worker = recs[i].worker
                             /\ recs'[i].attempt = recs[i].attempt
                             /\ i # j => recs'[i] = recs[i]
      BY <1>0, <1>9, <2>0 DEF CompleteOwned, TypeOK, JobRec
    <2>3. held'[w].stage = "idle" /\ \A v \in Workers : GoesOn(v)
      BY <1>0, <2>0, <2>1, HandsIn DEF TypeOK, Idle
    <2>4. \A i \in Jobs : NotTaken(i)
      BY <2>1, <2>2, <2>3 DEF NotTaken
    <2>5. Tokens!Accepted(j, held[w].attempt) /\ Tokens!Quit(j, held[w].attempt)
             /\ held[w].attempt \in [i \in Jobs |-> InHand(i)][j]
      BY <2>0, <2>1, WriteAccepted
    <2>6. Tokens!Write(j, held[w].attempt, st)
      BY <2>2, <2>5 DEF Tokens!Write
    <2>7. Tokens!Next
      BY <2>5, <2>6 DEF Tokens!Next
    <2> QED BY <1>0, <2>3, <2>4, <2>7, NothingTaken
  <1>10. ASSUME NEW w \in Workers, NEW d \in Delays, RequeueOwned(w, d) PROVE Good
    <2>0. PICK j \in Jobs : held[w].job = j /\ Busy(w)
      BY <1>0, <1>10, HeldTyped DEF RequeueOwned, Busy
    <2>1. /\ held' = [held EXCEPT ![w] = Idle]
          /\ recs[j].worker = w /\ ~IsTerminalStatus(recs[j].status) /\ recs[j].status # "gone"
      BY <1>10, <2>0 DEF RequeueOwned, RequeueAllowed
    <2>2. /\ recs'[j].status = "queued" /\ recs'[j].author = 0 /\ recs'[j].worker = Nobody
          /\ recs'[j].attempt = recs[j].attempt
          /\ \A i \in Jobs : i # j => recs'[i] = recs[i]
      BY <1>0, <1>10, <2>0 DEF RequeueOwned, TypeOK, JobRec
    <2>3. \A v \in Workers : GoesOn(v)
      BY <2>0, <2>1, HandsIn
    <2>4. \A i \in Jobs : NotTaken(i)
      BY <2>1, <2>2 DEF NotTaken
    <2>k. PICK k : k = held[w].attempt
      OBVIOUS
    <2>5. /\ Tokens!Accepted(j, k) /\ Tokens!Quit(j, k)
          /\ k \in [i \in Jobs |-> InHand(i)][j]
          /\ recs[j].author = 0
      BY <2>0, <2>1, <2>k, WriteAccepted DEF Tokens!Accepted, Tokens!Quit
    <2>6. Tokens!GiveBack(j, k)
      BY <2>2, <2>5 DEF Tokens!GiveBack
    <2>7. Tokens!Next
      BY <2>5, <2>6 DEF Tokens!Next
    <2> QED BY <1>0, <2>3, <2>4, <2>7, NothingTaken
  <1>11. CASE Tick \/ UNCHANGED vars
    <2>1. recs' = recs /\ held' = held
      BY <1>11 DEF Tick, vars
    <2>2. \A i \in Jobs : NotTaken(i) /\ SameToQueue(i)
      BY <2>1 DEF NotTaken, SameToQueue
    <2> QED BY <1>0, <1>a, <2>1, <2>2, NothingTaken, QueueStutters
  <1> QED
    BY <1>1, <1>2, <1>3, <1>4, <1>5, <1>6, <1>7, <1>8, <1>9, <1>10, <1>11 DEF Next

\* The store implements the queue of tokens: although a write names only its worker,
\* it counts exactly if that worker's claim is the newest one of the record.
THEOREM TokenQueueImplemented == Spec => ImplementsTokenQueue
  <1>1. Init => TokenInv
    BY DEF Init, TokenInv, FenceInv, TypeOK, JobRec, NoRec, HolderIsCurrent, OutcomeIsCurrent,
           HolderRuns, HeldBelow, TokensDistinct, Busy, Idle
  <1>2. Init => Tokens!Init
    BY DEF Init, Tokens!Init, NoRec, InHand, Busy, Idle
  <1>3. TokenInv /\ [Next]_vars => TokenInv' /\ [Tokens!Next]_(Tokens!vars)
    BY QueueStep
  <1>4. QED BY <1>1, <1>2, <1>3, PTL DEF Spec, ImplementsTokenQueue, Tokens!Spec
==============================================================================
