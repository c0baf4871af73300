------------------------------ MODULE RunFamily ------------------------------
(***************************************************************************)
(* The runs of one tenant: submission under a monthly quota and a          *)
(* concurrency limit (daemon/seed.go, billing.go), promotion of the runs   *)
(* that had to wait (promote.go), child runs started by subgraph steps and *)
(* the way their end comes back to the parent (subgraph.go, dispatch.go),  *)
(* cancels that cascade (cancel.go), the reaper.                           *)
(*                                                                         *)
(* A run is a graph of one working step, preceded in the Seeded runs by a  *)
(* trigger step whose result comes with the submission.  The step of a run *)
(* in Calls is a subgraph step: it parks and starts the child ChildOf[r].  *)
(* What happens between the steps of a larger graph is FlowRun's subject.  *)
(***************************************************************************)
EXTENDS JobRecord, Integers, Sequences, FiniteSets

CONSTANTS
    Tops, Kids,          \* the runs: ids in the order of their creation
    Calls, ChildOf,      \* the runs with a subgraph step, and the child it starts
    Level,               \* how many runs are above each run
    Seeded,              \* the runs submitted with the result of their trigger
    Limit, Quota, MaxDepth,
    Submitters, Promoters, Workers, Cancellers, Reapers,
    MaxCrashes, MaxStoreErrors

Runs == Tops \cup Kids
ParentsOf(k) == {r \in Calls : ChildOf[r] = k}

ASSUME FamilyAssumption ==
    /\ Tops \cap Kids = {} /\ Runs \subseteq Nat /\ IsFiniteSet(Runs)
    /\ Calls \subseteq Runs /\ Seeded \subseteq Tops
    /\ \A r \in Calls : ChildOf[r] \in Kids /\ Level[ChildOf[r]] = Level[r] + 1
    /\ \A k \in Kids : Cardinality(ParentsOf(k)) = 1
    /\ Limit \in Nat \ {0} /\ Quota \in Nat /\ MaxDepth \in Nat
    /\ IsFiniteSet(Submitters) /\ MaxCrashes \in Nat /\ MaxStoreErrors \in Nat

VARIABLES
    runs,     \* the graph records, by status; "absent" before they exist
    work,     \* the node record of each run's working step
    trigger,  \* the node record of each run's trigger step
    used,     \* runs charged to the tenant's month
    thread,   \* where each goroutine is
    faults    \* faults injected so far

vars == <<runs, work, trigger, used, thread, faults>>

Procs == Submitters \cup Promoters \cup Workers \cup Cancellers \cup Reapers

(***************************************************************************)
(* on: the run the goroutine is busy with; yes: what it has read (the run  *)
(* is admitted, the seeds are there, the run succeeded); stack: the runs   *)
(* whose cancel waits for the cancel of a child.                           *)
(***************************************************************************)
Local(pc, r, yes) == [pc |-> pc, on |-> r, yes |-> yes, stack |-> <<>>]
Idle == Local("idle", 0, FALSE)
Pcs == {"idle", "reserve", "record", "seeds", "roots", "mark", "readSeeds", "exec",
        "submitChild", "enqueueChild", "childRoots", "refused", "advance", "resume", "sweep"}

Recorded == JobStatuses \cup {"absent"}

TypeOK ==
    /\ runs \in [Runs -> Recorded]
    /\ work \in [Runs -> Recorded]
    /\ trigger \in [Runs -> Recorded]
    /\ used \in 0 .. Quota
    /\ thread \in [Procs -> [pc : Pcs, on : Runs \cup {0}, yes : BOOLEAN, stack : Seq(Runs)]]
    /\ faults \in [crash : 0 .. MaxCrashes, store : 0 .. MaxStoreErrors]

Init ==
    /\ runs = [r \in Runs |-> "absent"]
    /\ work = [r \in Runs |-> "absent"]
    /\ trigger = [r \in Runs |-> "absent"]
    /\ used = 0
    /\ thread = [p \in Procs |-> Idle]
    /\ faults = [crash |-> 0, store |-> 0]

Me(p) == thread[p]
On(p) == thread[p].on
Become(p, l) == thread' = [thread EXCEPT ![p] = l]
Goto(p, pc) == thread' = [thread EXCEPT ![p].pc = pc]
Ended(r) == IsTerminalStatus(runs[r])
Open(st) == st \in OpenStatuses

\* Complete on a graph record: the first verdict stands.
Finished(r, st) == IF Ended(r) THEN runs ELSE [runs EXCEPT ![r] = st]

\* A goroutine is done with one run; a cancel goes back to the run above.
Return(p) ==
    Become(p, IF Me(p).stack = <<>> THEN Idle
              ELSE [Me(p) EXCEPT !.pc = "resume", !.yes = FALSE,
                                 !.on = Head(Me(p).stack), !.stack = Tail(Me(p).stack)])

-----------------------------------------------------------------------------
(* SubmitGraphOpts.                                                        *)

Running == {r \in Runs : runs[r] = "running"}
Unsubmitted == {r \in Tops : runs[r] = "absent"}

\* checkRunQuota, admitGraphRun: the running runs are counted, nothing is held.
Submit(s) ==
    /\ Me(s).pc = "idle"
    /\ Cardinality({t \in Submitters : Me(t).pc \in {"reserve", "record"}}) < Cardinality(Unsubmitted)
    /\ used < Quota
    /\ Become(s, Local("reserve", 0, Cardinality(Running) < Limit))
    /\ UNCHANGED <<runs, work, trigger, used, faults>>

\* Mutant of Reserve: the charge is not checked again.
ReserveUnchecked(s) ==
    /\ Me(s).pc = "reserve"
    /\ used' = used + 1
    /\ Goto(s, "record")
    /\ UNCHANGED <<runs, work, trigger, faults>>

\* reserveRun: check and increment in one, or the submission is refused.
Reserve(s) ==
    /\ Me(s).pc = "reserve"
    /\ \/ used < Quota /\ used' = used + 1 /\ Goto(s, "record")
       \/ used >= Quota /\ UNCHANGED used /\ Become(s, Idle)
    /\ UNCHANGED <<runs, work, trigger, faults>>

Record(s) ==
    /\ Me(s).pc = "record"
    /\ \E r \in Unsubmitted :
         /\ \A q \in Unsubmitted : r <= q
         /\ runs' = [runs EXCEPT ![r] = IF Me(s).yes THEN "running" ELSE "queued"]
         /\ Become(s, Local("seeds", r, Me(s).yes))
    /\ UNCHANGED <<work, trigger, used, faults>>

\* Mutant of RecordFails: the charge of a run that does not exist stays.
RecordFailsCharged(s) ==
    /\ Me(s).pc = "record"
    /\ faults.store < MaxStoreErrors
    /\ faults' = [faults EXCEPT !.store = @ + 1]
    /\ Become(s, Idle)
    /\ UNCHANGED <<runs, work, trigger, used>>

\* Enqueue fails: releaseRun gives the charge back.
RecordFails(s) ==
    /\ Me(s).pc = "record"
    /\ faults.store < MaxStoreErrors
    /\ faults' = [faults EXCEPT !.store = @ + 1]
    /\ used' = used - 1
    /\ Become(s, Idle)
    /\ UNCHANGED <<runs, work, trigger>>

\* persistSeedsOnly: a seed that finds a record in its place fails the
\* submission (failSubmission); an admitted run goes on to its roots.
PersistSeeds(s) ==
    /\ Me(s).pc = "seeds"
    /\ LET r == On(s)
           clash == r \in Seeded /\ trigger[r] # "absent"
       IN  /\ trigger' = IF r \in Seeded /\ ~clash THEN [trigger EXCEPT ![r] = "succeeded"]
                                                   ELSE trigger
           /\ runs' = IF clash THEN Finished(r, "failed") ELSE runs
           /\ Become(s, IF Me(s).yes THEN Local("roots", r, TRUE) ELSE Idle)
    /\ UNCHANGED <<work, used, faults>>

(***************************************************************************)
(* dispatchRoots, for whoever starts the run; yes: the seeds were seen.    *)
(* Without them the trigger is taken for a root to execute; if its record  *)
(* exists by now the start fails and so does the run.                      *)
(***************************************************************************)
RootsOf(r, seeded) == IF r \in Seeded /\ ~seeded THEN "trigger" ELSE "work"

DispatchRoots(p) ==
    /\ Me(p).pc = "roots"
    /\ LET r == On(p) IN
       CASE RootsOf(r, Me(p).yes) = "work" ->
              work' = [work EXCEPT ![r] = "queued"] /\ UNCHANGED <<runs, trigger>>
         [] trigger[r] = "absent" ->
              trigger' = [trigger EXCEPT ![r] = "queued"] /\ UNCHANGED <<runs, work>>
         [] OTHER -> runs' = Finished(r, "failed") /\ UNCHANGED <<work, trigger>>
    /\ Become(p, Idle)
    /\ UNCHANGED <<used, faults>>

\* The enqueue fails: failSubmission, or startPendingRun's own Complete.
RootsFail(p) ==
    /\ Me(p).pc = "roots"
    /\ faults.store < MaxStoreErrors
    /\ faults' = [faults EXCEPT !.store = @ + 1]
    /\ runs' = Finished(On(p), "failed")
    /\ Become(p, Idle)
    /\ UNCHANGED <<work, trigger, used>>

-----------------------------------------------------------------------------
(* promotePendingRuns.                                                     *)

\* oldestPendingRun.
FindPending(p) ==
    /\ Me(p).pc = "idle"
    /\ \E r \in Tops : /\ runs[r] = "queued"
                       /\ \A q \in Tops : runs[q] = "queued" => r <= q
                       /\ Become(p, Local("mark", r, FALSE))
    /\ UNCHANGED <<runs, work, trigger, used, faults>>

\* Mutant of MarkGraphRunningCapped: the cap is not part of the step.
MarkGraphRunning(p) ==
    /\ Me(p).pc = "mark"
    /\ IF runs[On(p)] = "queued"
         THEN runs' = [runs EXCEPT ![On(p)] = "running"] /\ Goto(p, "readSeeds")
         ELSE UNCHANGED runs /\ Become(p, Idle)
    /\ UNCHANGED <<work, trigger, used, faults>>

\* Mutant of MarkGraphRunningCapped: the status is not part of the condition.
MarkAnyRunning(p) ==
    /\ Me(p).pc = "mark"
    /\ IF Cardinality(Running) < Limit
         THEN runs' = [runs EXCEPT ![On(p)] = "running"] /\ Goto(p, "readSeeds")
         ELSE UNCHANGED runs /\ Become(p, Idle)
    /\ UNCHANGED <<work, trigger, used, faults>>

\* Cap and status in one transaction: at the cap, or when another promoter won
\* the run, this one starts nothing.
MarkGraphRunningCapped(p) ==
    /\ Me(p).pc = "mark"
    /\ IF Cardinality(Running) < Limit /\ runs[On(p)] = "queued"
         THEN runs' = [runs EXCEPT ![On(p)] = "running"] /\ Goto(p, "readSeeds")
         ELSE UNCHANGED runs /\ Become(p, Idle)
    /\ UNCHANGED <<work, trigger, used, faults>>

\* startPendingRun, seededNodes.
StartPendingRun(p) ==
    /\ Me(p).pc = "readSeeds"
    /\ Become(p, Local("roots", On(p), trigger[On(p)] = "succeeded"))
    /\ UNCHANGED <<runs, work, trigger, used, faults>>

-----------------------------------------------------------------------------
(* A worker executes a step.                                               *)

\* A claim also takes over the step of a worker that died.
Claim(w, r) ==
    /\ Me(w).pc = "idle"
    /\ \/ work[r] = "queued"
       \/ work[r] = "running" /\ ~\E v \in Workers : Me(v).pc = "exec" /\ On(v) = r
    /\ work' = [work EXCEPT ![r] = "running"]
    /\ Become(w, Local("exec", r, FALSE))
    /\ UNCHANGED <<runs, trigger, used, faults>>

\* An ended run refuses its step, a subgraph step parks, another answers; a
\* record that was closed meanwhile keeps its outcome.
Execute(w) ==
    /\ Me(w).pc = "exec"
    /\ LET r == On(w) IN
       \/ /\ work[r] # "running"
          /\ Become(w, Idle)
          /\ UNCHANGED work
       \/ /\ work[r] = "running" /\ Ended(r)
          /\ work' = [work EXCEPT ![r] = "cancelled"]
          /\ Become(w, Idle)
       \/ /\ work[r] = "running" /\ ~Ended(r) /\ r \in Calls
          /\ work' = [work EXCEPT ![r] = "awaiting"]
          /\ Become(w, Local("submitChild", r, FALSE))
       \/ /\ work[r] = "running" /\ ~Ended(r) /\ r \notin Calls
          /\ \E st \in {"succeeded", "failed"} : work' = [work EXCEPT ![r] = st]
          /\ Become(w, Local("advance", r, FALSE))
    /\ UNCHANGED <<runs, trigger, used, faults>>

\* A trigger that reaches a worker was not the way in: it is skipped, and the
\* step behind it, where another trigger could have been (triggerDidNotFire);
\* otherwise it executes and fails for want of data.
RunTrigger(w, r) ==
    /\ Me(w).pc = "idle" /\ trigger[r] = "queued"
    /\ IF Ended(r)
         THEN /\ trigger' = [trigger EXCEPT ![r] = "cancelled"]
              /\ UNCHANGED <<work, thread>>
         ELSE /\ \/ /\ trigger' = [trigger EXCEPT ![r] = "skipped"]
                    /\ work' = IF work[r] = "absent" THEN [work EXCEPT ![r] = "skipped"] ELSE work
                 \/ /\ trigger' = [trigger EXCEPT ![r] = "failed"]
                    /\ UNCHANGED work
              /\ Become(w, Local("advance", r, FALSE))
    /\ UNCHANGED <<runs, used, faults>>

-----------------------------------------------------------------------------
(* maybeSubmitChild and SubmitChild: the parent is parked by now.          *)

\* The parent has not ended, the nesting is not too deep.
SubmitChild(w) ==
    /\ Me(w).pc = "submitChild"
    /\ Goto(w, IF Ended(On(w)) \/ Level[On(w)] + 1 >= MaxDepth THEN "refused" ELSE "enqueueChild")
    /\ UNCHANGED <<runs, work, trigger, used, faults>>

\* submitGraphWithParent: a child needs no slot and no charge.
EnqueueChild(w) ==
    /\ Me(w).pc = "enqueueChild"
    /\ runs' = [runs EXCEPT ![ChildOf[On(w)]] = "running"]
    /\ Goto(w, "childRoots")
    /\ UNCHANGED <<work, trigger, used, faults>>

ChildRoots(w) ==
    /\ Me(w).pc = "childRoots"
    /\ work' = [work EXCEPT ![ChildOf[On(w)]] = "queued"]
    /\ Become(w, Idle)
    /\ UNCHANGED <<runs, trigger, used, faults>>

\* The child's record or its root cannot be written.
SubmitChildFails(w) ==
    /\ Me(w).pc \in {"enqueueChild", "childRoots"}
    /\ faults.store < MaxStoreErrors
    /\ faults' = [faults EXCEPT !.store = @ + 1]
    /\ Goto(w, "refused")
    /\ UNCHANGED <<runs, work, trigger, used>>

\* No child: the parked step fails, and the parent advances.
FailParked(w) ==
    /\ Me(w).pc = "refused"
    /\ work' = IF Open(work[On(w)]) THEN [work EXCEPT ![On(w)] = "failed"] ELSE work
    /\ Goto(w, "advance")
    /\ UNCHANGED <<runs, trigger, used, faults>>

-----------------------------------------------------------------------------
(* The end of a run and what it means for its parent.                      *)

\* Nothing is left to run: the steps are closed, or one that was not handled failed.
Closed(r) ==
    \/ trigger[r] = "failed"
    \/ IsTerminalStatus(work[r]) /\ (r \in Seeded => IsTerminalStatus(trigger[r]))
Verdict(r) == IF "failed" \in {work[r], trigger[r]} THEN "failed" ELSE "succeeded"

\* AdvanceAfterCompletion of the last step; the winner of finalizeGraph's
\* Complete goes on to the parent.
Advance(p) ==
    /\ Me(p).pc = "advance"
    /\ IF ~Ended(On(p)) /\ Closed(On(p))
         THEN /\ runs' = [runs EXCEPT ![On(p)] = Verdict(On(p))]
              /\ Become(p, [Me(p) EXCEPT !.pc = "resume", !.yes = Verdict(On(p)) = "succeeded"])
         ELSE UNCHANGED runs /\ Return(p)
    /\ UNCHANGED <<work, trigger, used, faults>>

\* Mutant of MaybeResumeParent: the child's failure is not passed on.
ResumeIgnoresFailure(p) ==
    /\ Me(p).pc = "resume"
    /\ \/ \E r \in ParentsOf(On(p)) :
            /\ work[r] = "awaiting"
            /\ work' = [work EXCEPT ![r] = "succeeded"]
            /\ Become(p, [Me(p) EXCEPT !.pc = "advance", !.on = r])
       \/ /\ \A r \in ParentsOf(On(p)) : work[r] # "awaiting"
          /\ Return(p)
          /\ UNCHANGED work
    /\ UNCHANGED <<runs, trigger, used, faults>>

\* The parked step gets the child's outcome (a success whose outputs cannot be
\* mapped fails) and the parent advances.
MaybeResumeParent(p) ==
    /\ Me(p).pc = "resume"
    /\ \/ \E r \in ParentsOf(On(p)) :
            /\ work[r] = "awaiting"
            /\ \E st \in {"succeeded", "failed"} :
                 /\ st = "succeeded" => Me(p).yes
                 /\ work' = [work EXCEPT ![r] = st]
            /\ Become(p, [Me(p) EXCEPT !.pc = "advance", !.on = r])
       \/ /\ \A r \in ParentsOf(On(p)) : work[r] # "awaiting"
          /\ Return(p)
          /\ UNCHANGED work
    /\ UNCHANGED <<runs, trigger, used, faults>>

-----------------------------------------------------------------------------
(* cancelGraphRun, by a person or by the timeout watchdog.                 *)

Cancel(c, r) ==
    /\ Me(c).pc = "idle"
    /\ runs[r] # "absent" /\ ~Ended(r)
    /\ runs' = [runs EXCEPT ![r] = "cancelled"]
    /\ Become(c, Local("sweep", r, FALSE))
    /\ UNCHANGED <<work, trigger, used, faults>>

Swept(recs, r) == IF Open(recs[r]) THEN [recs EXCEPT ![r] = "cancelled"] ELSE recs
OpenChild(r) == r \in Calls /\ runs[ChildOf[r]] \in OpenStatuses

\* Mutant of SweepCancelled: a child cancelled on its own leaves its parent parked.
SweepForgetsParent(c) ==
    /\ Me(c).pc = "sweep"
    /\ LET r == On(c) IN
       /\ work' = Swept(work, r) /\ trigger' = Swept(trigger, r)
       /\ IF work[r] = "awaiting" /\ OpenChild(r)
            THEN /\ runs' = [runs EXCEPT ![ChildOf[r]] = "cancelled"]
                 /\ Become(c, [Me(c) EXCEPT !.on = ChildOf[r], !.stack = <<r>> \o @])
            ELSE UNCHANGED runs /\ Return(c)
    /\ UNCHANGED <<used, faults>>

\* The open steps are cancelled; a parked one's child is cancelled first, then
\* the parent of the run is told.
SweepCancelled(c) ==
    /\ Me(c).pc = "sweep"
    /\ LET r == On(c) IN
       /\ work' = Swept(work, r) /\ trigger' = Swept(trigger, r)
       /\ IF work[r] = "awaiting" /\ OpenChild(r)
            THEN /\ runs' = [runs EXCEPT ![ChildOf[r]] = "cancelled"]
                 /\ Become(c, [Me(c) EXCEPT !.on = ChildOf[r], !.stack = <<r>> \o @])
            ELSE UNCHANGED runs /\ Goto(c, "resume")
    /\ UNCHANGED <<used, faults>>

-----------------------------------------------------------------------------
(* The reaper, and crashes.                                                *)

\* ReapStuckGraphRuns: a run whose steps are closed is finalized.
Reap(p, r) ==
    /\ Me(p).pc = "idle"
    /\ runs[r] = "running" /\ Closed(r)
    /\ runs' = [runs EXCEPT ![r] = Verdict(r)]
    /\ Become(p, Local("resume", r, Verdict(r) = "succeeded"))
    /\ UNCHANGED <<work, trigger, used, faults>>

\* A goroutine is at work on the run or on the run above it.
Attended(r) ==
    \E p \in Procs : On(p) = r \/ On(p) \in ParentsOf(r) \/ \E i \in DOMAIN Me(p).stack : Me(p).stack[i] = r

\* Mutant of Abandon: a run that never got a step is not looked at.
AbandonNeedsStep(r) ==
    /\ runs[r] = "running" /\ ~Closed(r)
    /\ work[r] # "absent" /\ ~Open(work[r]) /\ ~Open(trigger[r])
    /\ ~Attended(r)
    /\ runs' = [runs EXCEPT ![r] = "failed"]
    /\ UNCHANGED <<work, trigger, used, thread, faults>>

\* abandonIfStuck: nothing open, nobody at work (AbandonRunsAfter is hours).
\* A bare Complete: the parent is not told.
Abandon(r) ==
    /\ runs[r] = "running" /\ ~Closed(r)
    /\ ~Open(work[r]) /\ ~Open(trigger[r])
    /\ ~Attended(r)
    /\ runs' = [runs EXCEPT ![r] = "failed"]
    /\ UNCHANGED <<work, trigger, used, thread, faults>>

Crash(p) ==
    /\ Me(p).pc # "idle"
    /\ faults.crash < MaxCrashes
    /\ faults' = [faults EXCEPT !.crash = @ + 1]
    /\ Become(p, Idle)
    /\ UNCHANGED <<runs, work, trigger, used>>

-----------------------------------------------------------------------------
SubmitStep(s) == Reserve(s) \/ Record(s) \/ PersistSeeds(s)
PromoteStep(p) == FindPending(p) \/ MarkGraphRunningCapped(p) \/ StartPendingRun(p)
WorkStep(w) ==
    \/ Execute(w) \/ SubmitChild(w) \/ EnqueueChild(w) \/ ChildRoots(w) \/ FailParked(w)
EndStep(p) == Advance(p) \/ MaybeResumeParent(p)

Next ==
    \/ \E s \in Submitters : Submit(s) \/ SubmitStep(s) \/ RecordFails(s)
    \/ \E p \in Promoters : PromoteStep(p)
    \/ \E p \in Submitters \cup Promoters : DispatchRoots(p) \/ RootsFail(p)
    \/ \E w \in Workers : \/ \E r \in Runs : Claim(w, r) \/ RunTrigger(w, r)
                          \/ WorkStep(w) \/ SubmitChildFails(w)
    \/ \E p \in Workers \cup Cancellers \cup Reapers : EndStep(p)
    \/ \E c \in Cancellers : (\E r \in Runs : Cancel(c, r)) \/ SweepCancelled(c)
    \/ \E p \in Reapers : \E r \in Runs : Reap(p, r)
    \/ \E r \in Runs : Abandon(r)
    \/ \E p \in Procs : Crash(p)

Spec == Init /\ [][Next]_vars

\* Started code runs on, workers poll, the promotion sweep and the reaper are on
\* tickers; nobody has to submit or to cancel, and nothing has to fail.
Fairness ==
    /\ \A s \in Submitters : WF_vars(SubmitStep(s) \/ DispatchRoots(s))
    /\ \A p \in Promoters : WF_vars(PromoteStep(p) \/ DispatchRoots(p))
    /\ \A w \in Workers : /\ WF_vars(WorkStep(w) \/ EndStep(w))
                          /\ WF_vars(\E r \in Runs : Claim(w, r) \/ RunTrigger(w, r))
    /\ \A c \in Cancellers : WF_vars(SweepCancelled(c) \/ EndStep(c))
    /\ \A p \in Reapers : WF_vars(EndStep(p)) /\ WF_vars(\E r \in Runs : Reap(p, r))
    /\ \A r \in Runs : WF_vars(Abandon(r))

FairSpec == Spec /\ Fairness

-----------------------------------------------------------------------------
(* What the tenant is promised.                                            *)

\* promote.go "promoters on several replicas racing for the last slot": a step that
\* takes the tenant past its limit records a submission that was admitted when
\* there was room; no promotion does.
OvershootIsStaleAdmission ==
    [][(Cardinality(Running \cap Tops) < Cardinality(Running' \cap Tops)
          /\ Cardinality(Running' \cap Tops) > Limit) =>
       \E s \in Submitters : Record(s) /\ Me(s).yes]_vars

Starting(p) == Me(p).pc \in {"readSeeds", "roots"} \/ (Me(p).pc = "seeds" /\ Me(p).yes)

\* promote.go "MarkGraphRunning lets only one promoter win each run": a run is
\* started by one goroutine, its submission or one promoter, and only while it
\* has no step to run.
OneStarter ==
    \A p \in Procs : Starting(p) =>
        work[On(p)] = "absent" /\ \A q \in Procs \ {p} : Starting(q) => On(q) # On(p)

\* seed.go "a gap between the check and the increment lets two concurrent
\* submissions both pass a cap with one slot left": without crashes the month is
\* charged for exactly the runs that exist or are about to.
ChargedOnce ==
    faults.crash = 0 =>
        used = Cardinality({r \in Tops : runs[r] # "absent"})
               + Cardinality({s \in Submitters : Me(s).pc = "record"})

\* Whoever tells the parent, and however late: a subgraph step succeeds only on
\* the success of its child, and a run with a failed step does not succeed.
ChildOutcomeCounts ==
    \A r \in Runs :
        /\ (r \in Calls /\ work[r] = "succeeded") => runs[ChildOf[r]] = "succeeded"
        /\ runs[r] = "succeeded" => work[r] \in {"succeeded", "skipped"}

\* cancel.go "must not leave its parent's subgraph node parked for ever": while no
\* process has died, a parked step has a child that still runs, or somebody is
\* about to start the child or to tell the parent of its end.
ParkedIsAttended ==
    faults.crash = 0 =>
        \A r \in Calls : work[r] = "awaiting" =>
            \/ OpenChild(r)
            \/ \E p \in Procs :
                 \/ On(p) = r /\ Me(p).pc \in {"submitChild", "enqueueChild", "childRoots", "refused", "sweep"}
                 \/ On(p) = ChildOf[r] /\ Me(p).pc \in {"sweep", "resume"}
                 \/ \E i \in DOMAIN Me(p).stack : Me(p).stack[i] = ChildOf[r]

\* Every run that was recorded ends, the ones that had to wait for a slot and the
\* ones whose start was interrupted included; only a crash that loses the end of
\* a child may leave a parent parked for good, holding its slot.
RunsEnd ==
    <>[](\/ \A r \in Runs : runs[r] = "absent" \/ Ended(r)
         \/ faults.crash > 0 /\ \E r \in Calls : work[r] = "awaiting")

\* promote.go: "At start, the only succeeded node-records are the seeds persisted
\* at submit ... so dispatchRoots fans out exactly as the immediate-start path
\* would": the trigger of a run that came with its result is never executed.
SeedIsNotRun == \A r \in Seeded : trigger[r] \in {"absent", "succeeded"}
==============================================================================
