------------------------------- MODULE JobStore -------------------------------
(***************************************************************************)
(* The node queue of the job store and the workers that lease from it.     *)
(*                                                                         *)
(* The store is engine/jobstore (Memory holds one mutex per operation and  *)
(* Postgres one statement, so every operation is one step here).  A worker *)
(* (daemon/worker.go) claims one record at a time, executes it while a     *)
(* second goroutine renews the lease, stops the renewals and then writes   *)
(* the outcome, fenced on its own worker id.                               *)
(*                                                                         *)
(* What is abstracted: the order in which Claim picks among its candidates *)
(* (slot, enqueued_at) is any order; results are represented by the number *)
(* of the claim that wrote them.                                           *)
(***************************************************************************)
EXTENDS Naturals, FiniteSets, JobRecord

CONSTANTS
    Jobs,           \* ids of node records; an id is used for one record only
    Workers,        \* worker ids, one per worker goroutine
    Nobody,         \* the empty worker_id
    Tenants,
    TenantOf,       \* tenant of each record
    LeaseDuration,  \* WorkerConfig.LeaseDuration (30s by default)
    RenewEvery,     \* WorkerConfig.LeaseRenewEvery (10s by default)
    MaxConcurrent,  \* per-tenant cap on claims; 0 = no cap
    Finals,         \* the terminal statuses an instance lets callers write
    Delays,         \* how far in the future a requeue may put available_at
    MaxTime,        \* bound on the clock
    MaxAttempts     \* bound on the claims of one record

ASSUME WorkersAssumption == Nobody \notin Workers
ASSUME JobsAssumption == IsFiniteSet(Jobs)
ASSUME TenantAssumption == TenantOf \in [Jobs -> Tenants]
ASSUME TimingAssumption ==
    /\ LeaseDuration \in Nat /\ RenewEvery \in Nat
    /\ 0 < RenewEvery /\ RenewEvery < LeaseDuration
    /\ MaxConcurrent \in Nat /\ Delays \subseteq Nat
    /\ Finals \subseteq TerminalStatuses
    /\ MaxTime \in Nat /\ MaxAttempts \in Nat

VARIABLES
    now,    \* the store's clock; 0 stands for a nil time below
    recs,   \* the job table
    held    \* what each worker goroutine is doing with its claimed record

vars == <<now, recs, held>>

(***************************************************************************)
(* status "absent": not enqueued yet; "gone": deleted by a tenant erasure. *)
(* lease = 0 is a nil LeaseUntil.  author is a history variable: the claim *)
(* whose worker wrote the record's present outcome, 0 if no worker did.    *)
(* fresh: the present claim took the record from the queue, not from an    *)
(* expired lease, and no late renewal has revived it since.                *)
(***************************************************************************)
JobRec == [status : JobStatuses \cup {"absent", "gone"},
           worker : Workers \cup {Nobody},
           attempt : Nat, lease : Nat, availableAt : Nat,
           author : Nat, fresh : BOOLEAN]

NoRec(st) == [status |-> st, worker |-> Nobody, attempt |-> 0, lease |-> 0,
              availableAt |-> 0, author |-> 0, fresh |-> TRUE]

(***************************************************************************)
(* stage "exec": the drop runs and the renewal goroutine ticks; "commit":  *)
(* stopLease returned, the outcome is about to be written.  until is the   *)
(* worker's own idea of its lease end, nextTick its next renewal.          *)
(***************************************************************************)
Idle == [stage |-> "idle"]
Claimed == [stage : {"exec", "commit"}, job : Jobs, attempt : Nat,
            until : Nat, nextTick : Nat]

TypeOK ==
    /\ now \in Nat
    /\ recs \in [Jobs -> JobRec]
    /\ held \in [Workers -> Claimed \cup {Idle}]

Init ==
    /\ now = 1
    /\ recs = [j \in Jobs |-> NoRec("absent")]
    /\ held = [w \in Workers |-> Idle]

Executing(w, j) == held[w].stage = "exec" /\ held[w].job = j
Busy(w) == held[w].stage # "idle"

-----------------------------------------------------------------------------
(* Callers other than the worker that holds the record.                    *)

\* enqueueLocked: a fresh id enters the queue, or is recorded terminal at
\* once (a skipped dependent, a seeded result).  An existing id is ErrConflict.
Enqueue(j, st) ==
    /\ recs[j].status = "absent"
    /\ recs' = [recs EXCEPT ![j].status = st]
    /\ UNCHANGED <<now, held>>

\* EnqueueNodes: every id is checked before any record is written.
EnqueueNodes(S) ==
    /\ \A j \in S : recs[j].status = "absent"
    /\ recs' = [j \in Jobs |-> IF j \in S THEN [recs[j] EXCEPT !.status = "queued"]
                                          ELSE recs[j]]
    /\ UNCHANGED <<now, held>>

\* Complete without a worker: cancel, approve, a finished child run.
Complete(j, st) ==
    /\ recs[j].status \notin {"absent", "gone"}
    /\ CompleteAllowed(recs[j].status, recs[j].worker, FALSE, Nobody, st)
    /\ recs' = [recs EXCEPT ![j].status = st, ![j].lease = 0, ![j].author = 0]
    /\ UNCHANGED <<now, held>>

\* DeleteByTenant: the erasure cascade takes in-flight records too.
DeleteByTenant(t) ==
    /\ recs' = [j \in Jobs |-> IF TenantOf[j] = t /\ recs[j].status # "absent"
                                 THEN NoRec("gone")
                                 ELSE recs[j]]
    /\ recs' # recs
    /\ UNCHANGED <<now, held>>

-----------------------------------------------------------------------------
(* The worker.                                                             *)

\* Records of a tenant that run under an unexpired lease: what the cap counts.
LiveRunning(t) ==
    {j \in Jobs : /\ TenantOf[j] = t
                  /\ recs[j].status = "running"
                  /\ recs[j].lease > now}

\* Mutant: the cap compared with <=.
UnderCapOffByOne(j) ==
    MaxConcurrent = 0 \/ Cardinality(LiveRunning(TenantOf[j])) <= MaxConcurrent

UnderCap(j) ==
    MaxConcurrent = 0 \/ Cardinality(LiveRunning(TenantOf[j])) < MaxConcurrent

Reclaimable(j) == recs[j].status = "running" /\ recs[j].lease < now

Claimable(j) ==
    /\ recs[j].availableAt <= now
    /\ (recs[j].status = "queued" /\ UnderCap(j)) \/ Reclaimable(j)

\* Claim, and the start of the renewal goroutine in processNodeJob.
Claim(w, j) ==
    /\ ~Busy(w)
    /\ Claimable(j)
    /\ recs[j].attempt < MaxAttempts
    /\ recs' = [recs EXCEPT ![j].status = "running", ![j].worker = w,
                            ![j].attempt = recs[j].attempt + 1,
                            ![j].lease = now + LeaseDuration,
                            ![j].fresh = ~Reclaimable(j)]
    /\ held' = [held EXCEPT ![w] =
                  [stage |-> "exec", job |-> j, attempt |-> recs[j].attempt + 1,
                   until |-> now + LeaseDuration, nextTick |-> now + RenewEvery]]
    /\ UNCHANGED now

\* Renew is refused unless the record is running and still names the worker.
RenewAllowed(w, j) == recs[j].status = "running" /\ recs[j].worker = w

\* What an accepted renewal does to the record; one that arrives after the
\* lease ended, before anybody reclaimed it, revives it.
Renewed(r) == [r EXCEPT !.lease = now + LeaseDuration,
                        !.fresh = r.fresh /\ r.lease > now]

TickerDue(w) == held[w].stage = "exec" /\ held[w].nextTick <= now

\* One turn of renewLease that reached the store and was accepted.
Renew(w) ==
    /\ TickerDue(w)
    /\ RenewAllowed(w, held[w].job)
    /\ recs' = [recs EXCEPT ![held[w].job] = Renewed(@)]
    /\ held' = [held EXCEPT ![w].until = now + LeaseDuration,
                            ![w].nextTick = now + RenewEvery]
    /\ UNCHANGED now

\* onLost: leaseLost is set and the execution cancelled; processNodeJob
\* abandons the record without writing.
LoseLease(w) ==
    /\ TickerDue(w)
    /\ ~RenewAllowed(w, held[w].job)
    /\ held' = [held EXCEPT ![w] = Idle]
    /\ UNCHANGED <<now, recs>>

\* Mutant: only a refusal ends the execution, an unreachable store never does.
RenewFailsKeepsGoing(w, applied) ==
    /\ TickerDue(w)
    /\ RenewAllowed(w, held[w].job) \/ ~applied
    /\ recs' = IF applied
                 THEN [recs EXCEPT ![held[w].job] = Renewed(@)]
                 ELSE recs
    /\ held' = [held EXCEPT ![w].nextTick = now + RenewEvery]
    /\ UNCHANGED now

\* The renewal ended in an error other than a refusal; the store may or may
\* not have applied it.  The worker gives up once the next tick would land at
\* or after the end of the last lease it knows to be good.
RenewFails(w, applied) ==
    /\ TickerDue(w)
    /\ RenewAllowed(w, held[w].job) \/ ~applied
    /\ recs' = IF applied
                 THEN [recs EXCEPT ![held[w].job] = Renewed(@)]
                 ELSE recs
    /\ held' = IF now + RenewEvery < held[w].until
                 THEN [held EXCEPT ![w].nextTick = now + RenewEvery]
                 ELSE [held EXCEPT ![w] = Idle]
    /\ UNCHANGED now

\* The drop returned and stopLease waited for the renewal goroutine.
StopLease(w) ==
    /\ held[w].stage = "exec"
    /\ held' = [held EXCEPT ![w].stage = "commit"]
    /\ UNCHANGED <<now, recs>>

\* completeNode / completeAndEnqueue: the fenced write of the outcome.
CompleteOwned(w, st) ==
    /\ held[w].stage = "commit"
    /\ LET j == held[w].job IN
         /\ recs[j].status # "gone"
         /\ CompleteAllowed(recs[j].status, recs[j].worker, TRUE, w, st)
         /\ recs' = [recs EXCEPT ![j].status = st, ![j].lease = 0,
                                 ![j].author = held[w].attempt]
    /\ held' = [held EXCEPT ![w] = Idle]
    /\ UNCHANGED now

\* requeueNode: a retry with backoff or a deferred step frees its slot.
RequeueOwned(w, delay) ==
    /\ held[w].stage = "commit"
    /\ LET j == held[w].job IN
         /\ recs[j].status # "gone"
         /\ RequeueAllowed(recs[j].status, recs[j].worker, TRUE, w)
         /\ recs' = [recs EXCEPT ![j].status = "queued", ![j].lease = 0,
                                 ![j].worker = Nobody, ![j].author = 0,
                                 ![j].availableAt = now + delay]
    /\ held' = [held EXCEPT ![w] = Idle]
    /\ UNCHANGED now

\* ErrConflict, ErrNotFound or a store error on the write: the worker
\* abandons the record; if it still ran there its lease will expire.
Abandon(w) ==
    /\ held[w].stage = "commit"
    /\ held' = [held EXCEPT ![w] = Idle]
    /\ UNCHANGED <<now, recs>>

\* The process dies; nothing of the goroutine survives.
Crash(w) ==
    /\ Busy(w)
    /\ held' = [held EXCEPT ![w] = Idle]
    /\ UNCHANGED <<now, recs>>

\* Time passes, past a renewal that is due as well: a process may stall.
Tick ==
    /\ now < MaxTime
    /\ now' = now + 1
    /\ UNCHANGED <<recs, held>>

Next ==
    \/ \E j \in Jobs : \E st \in {"queued"} \cup Finals : Enqueue(j, st)
    \/ \E S \in SUBSET Jobs : Cardinality(S) > 1 /\ EnqueueNodes(S)
    \/ \E j \in Jobs : \E st \in Finals : Complete(j, st)
    \/ \E t \in Tenants : DeleteByTenant(t)
    \/ \E w \in Workers : \E j \in Jobs : Claim(w, j)
    \/ \E w \in Workers : Renew(w)
    \/ \E w \in Workers : LoseLease(w)
    \/ \E w \in Workers : \E applied \in BOOLEAN : RenewFails(w, applied)
    \/ \E w \in Workers : StopLease(w)
    \/ \E w \in Workers : \E st \in Finals \cup {"awaiting"} : CompleteOwned(w, st)
    \/ \E w \in Workers : \E d \in Delays : RequeueOwned(w, d)
    \/ \E w \in Workers : Abandon(w)
    \/ \E w \in Workers : Crash(w)
    \/ Tick

Spec == Init /\ [][Next]_vars

-----------------------------------------------------------------------------
(* What the queue promises.                                                *)

\* Fencing (memory.go "A worker that lost its lease must not be able to write
\* a result"): whatever stalls, reclaims and requeues happen, an outcome that a
\* worker wrote comes from the newest claim of the record, never from an
\* earlier claim whose lease was taken over.
OutcomeFromNewestClaim ==
    \A j \in Jobs : recs[j].author # 0 => recs[j].author = recs[j].attempt

\* A terminal record is final: no completion, requeue, claim or renewal, fenced
\* or not, changes its status or its author; only an erasure removes it.
TerminalIsFinal ==
    [][\A j \in Jobs : IsTerminalStatus(recs[j].status) =>
          \/ recs'[j] = recs[j]
          \/ recs'[j].status = "gone"]_vars

\* No record is stranded: a running record always carries a lease, so once the
\* lease expires Claim will offer it again; only running records carry one,
\* so a parked or finished record is never reclaimed.
RunningIffLeased ==
    \A j \in Jobs : (recs[j].status = "running") <=> (recs[j].lease # 0)

\* A worker whose renewal goroutine is not late for its next tick.
OnTime(w) == now <= held[w].nextTick

\* Whatever other processes stall, crash or fail to renew: of the workers that
\* execute one record, at most one is on time with its renewals.  A worker cut
\* off from the store has stopped before the store would hand its record to
\* anybody else (renewLease); only a stalled process overlaps its successor.
NoDoubleExecution ==
    \A v, w \in Workers : \A j \in Jobs :
        Executing(v, j) /\ OnTime(v) /\ Executing(w, j) /\ OnTime(w) => v = w

\* The per-tenant cap, renewals and crashes included: the claims taken from the
\* queue that are still alive never exceed it; only the recovery of an
\* expired lease, by a reclaim or by a late renewal, may (memory.go
\* "Reclaiming an expired lease is exempt").
FreshClaimsWithinCap ==
    MaxConcurrent > 0 =>
        \A t \in Tenants :
            Cardinality({j \in LiveRunning(t) : recs[j].fresh}) <= MaxConcurrent

-----------------------------------------------------------------------------
(* The queue as its users see it.                                          *)

\* The claims of j that some worker still works with.
InHand(j) == {held[w].attempt : w \in {v \in Workers : Busy(v) /\ held[v].job = j}}

Tokens == INSTANCE TokenQueue WITH
              Records <- Jobs,
              Outcomes <- Finals,
              state <- [j \in Jobs |-> recs[j].status],
              claims <- [j \in Jobs |-> recs[j].attempt],
              inHand <- [j \in Jobs |-> InHand(j)],
              author <- [j \in Jobs |-> recs[j].author]

\* core/jobstore.go fences a write on the id of its worker, which it keeps from
\* claim to claim; the queue behaves as if each claim had a token of its own and
\* every write had to show the newest: a late worker, even one that claimed
\* the record again since, never writes for a claim that was taken over.
ImplementsTokenQueue == Tokens!Spec
==============================================================================
