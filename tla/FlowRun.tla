------------------------------- MODULE FlowRun -------------------------------
(***************************************************************************)
(* One run of one graph: the workers that claim and execute its node       *)
(* records (daemon/worker.go), the dispatch passes that enqueue or skip    *)
(* the dependents of a finished node (daemon/dispatch.go), and the other   *)
(* goroutines that write the same records: an approval decision            *)
(* (daemon/approval.go), a cancel (daemon/cancel.go), the reaper.          *)
(*                                                                         *)
(* A write to the job store is a step of its own, and a read is taken      *)
(* together with the write it decides when no other step can make it false *)
(* in between: what a visit or the completion check reads are outcomes,    *)
(* which are final, and the write they lead to is refused when another     *)
(* process was first.  Reads that do age (the status of the run, the plan, *)
(* the parked flag, the open records the reaper counts) are steps of their *)
(* own.  A pass also keeps an index of the records it has read and does    *)
(* not read them again, so its view ages from one visit to the next.       *)
(* Leases are reduced to their effect: a running record may be claimed     *)
(* again when its holder is gone or, within MaxLapses, when the holder     *)
(* stalls (JobStore has the clock).                                        *)
(*                                                                         *)
(* Not here: breakpoints, loop bodies, subgraph children, seeds; the run   *)
(* starts right after its root nodes were enqueued.                        *)
(***************************************************************************)
EXTENDS EdgeRules, Sequences, FiniteSets

CONSTANTS
    Behaviours,     \* for each node, what its drop may answer
    SkipNodes,      \* nodes skipCode skips: disabled, or a trigger that did not fire
    Workers, Approvers, Cancellers, Reapers,  \* the goroutines, disjoint sets
    Nobody,         \* the empty worker_id
    MaxCrashes, MaxLapses, MaxStoreErrors     \* fault budgets

ASSUME ProcAssumption == Nobody \notin Workers
ASSUME ReaperAssumption == Reapers \cap (Workers \cup Approvers) = {}
ASSUME BehaviourAssumption ==
    \A n \in Nodes : \A b \in Behaviours[n] :
        b.status \in {"succeeded", "failed", "timeout", "awaiting", "deferred", "error"}
ASSUME BudgetAssumption == MaxCrashes \in Nat /\ MaxLapses \in Nat /\ MaxStoreErrors \in Nat

VARIABLES
    run,     \* status of the graph record
    recs,    \* the node records
    proc,    \* where each goroutine is, and what it remembers
    old,     \* the run is older than AbandonRunsAfter
    faults   \* faults injected so far

vars == <<run, recs, proc, old, faults>>

Procs == Workers \cup Approvers \cup Cancellers \cup Reapers

NodeRec(st) == [status |-> st, worker |-> Nobody, attempt |-> 0, ports |-> {}]
Outcome(st, ports) == [status |-> st, ports |-> ports]
Unread == Outcome("unread", {})
NoIndex == [n \in Nodes |-> Unread]

(***************************************************************************)
(* node, attempt, status, ports: the record being worked on and the        *)
(* outcome to write; late: it was claimed after the run had ended.  deps,  *)
(* revisit: the advancePlan.  frames, index, enq: a dispatch pass, one     *)
(* frame per level of dispatchReadyIndexed with the dependents left to     *)
(* visit, the records read so far, whether it enqueued new work.  sweep:   *)
(* the nodes a cancel has still to visit.                                  *)
(***************************************************************************)
Idle == [pc |-> "idle", node |-> 1, attempt |-> 0, status |-> "none", ports |-> {},
         late |-> FALSE, deps |-> {}, revisit |-> FALSE, frames |-> <<>>,
         index |-> NoIndex, enq |-> FALSE, sweep |-> {}]

Pcs == {"idle", "load", "exec", "requeue", "plan", "commit", "park", "setParked",
        "skip", "refuse", "fail", "advance", "pass", "complete",
        "askParked", "unpark", "sweep", "abandon"}

RunStatuses == {"running", "awaiting", "succeeded", "failed", "cancelled"}
DecisionPorts == {"approved", "rejected", "approver", "comment"}
Ports == DecisionPorts \cup UNION {UNION {b.ports : b \in Behaviours[n]} : n \in Nodes}
Seens == [status : JobStatuses \cup {"absent", "unread"}, ports : SUBSET Ports]
NodeRecs == [status : JobStatuses \cup {"absent"}, worker : Workers \cup {Nobody},
             attempt : Nat, ports : SUBSET Ports]
Locals == [pc : Pcs, node : Nodes, attempt : Nat,
           status : JobStatuses \cup {"none", "deferred", "error"}, ports : SUBSET Ports,
           late : BOOLEAN, deps : SUBSET Nodes, revisit : BOOLEAN,
           frames : Seq([node : Nodes, left : SUBSET Nodes]),
           index : [Nodes -> Seens],
           enq : BOOLEAN, sweep : SUBSET Nodes]

TypeOK ==
    /\ run \in RunStatuses
    /\ recs \in [Nodes -> NodeRecs]
    /\ proc \in [Procs -> Locals]
    /\ old \in BOOLEAN
    /\ faults \in [crash : 0 .. MaxCrashes, lapse : 0 .. MaxLapses, store : 0 .. MaxStoreErrors]

Init ==
    /\ run = "running"
    /\ recs = [n \in Nodes |-> NodeRec(IF n \in Roots THEN "queued" ELSE "absent")]
    /\ proc = [p \in Procs |-> Idle]
    /\ old = FALSE
    /\ faults = [crash |-> 0, lapse |-> 0, store |-> 0]

RunEnded == IsTerminalStatus(run)
Me(p) == proc[p]
MyRec(p) == recs[proc[p].node]
Goto(p, pc) == proc' = [proc EXCEPT ![p].pc = pc]
Become(p, local) == proc' = [proc EXCEPT ![p] = local]
\* A decision still has to look at the parked flag; everybody else is done.
Leave(p) == Become(p, IF p \in Approvers THEN [Idle EXCEPT !.pc = "askParked", !.node = Me(p).node]
                                         ELSE Idle)

-----------------------------------------------------------------------------
(* The completion check and the verdict on the run.                        *)

Failing(n) == recs[n].status = "failed" /\ failurePropagates(n)
Closed(n) == IsTerminalStatus(recs[n].status)

\* Mutant of Verdict: a step without a record does not hold the run open.
VerdictIgnoresAbsent(n, status) ==
    IF \/ status = "failed" /\ failurePropagates(n)
       \/ \E m \in Nodes : Failing(m) /\ \A k \in 1 .. m : Closed(k)
      THEN "failed"
    ELSE IF \A m \in Nodes : recs[m].status \notin OpenStatuses THEN "succeeded"
    ELSE "none"

\* maybeCompleteGraph: a node that fails the run does so at once; otherwise the
\* records are walked in graph order up to the first one that is still open.
Verdict(n, status) ==
    IF \/ status = "failed" /\ failurePropagates(n)
       \/ \E m \in Nodes : Failing(m) /\ \A k \in 1 .. m : Closed(k)
      THEN "failed"
    ELSE IF \A m \in Nodes : Closed(m) THEN "succeeded"
    ELSE "none"

\* finalizeGraph: Complete refuses a record that is already terminal.
MaybeCompleteGraph(n, status) ==
    run' = IF Verdict(n, status) # "none" /\ ~RunEnded THEN Verdict(n, status) ELSE run

-----------------------------------------------------------------------------
(* A worker takes a node record and looks at it.                           *)

HeldBy(w, n) == proc[w].pc # "idle" /\ proc[w].node = n /\ proc[w].attempt = recs[n].attempt
Orphan(n) == recs[n].status = "running" /\ ~\E w \in Workers : HeldBy(w, n)

TakeRecord(w, n) ==
    /\ proc[w].pc = "idle"
    /\ recs' = [recs EXCEPT ![n].status = "running", ![n].worker = w,
                            ![n].attempt = recs[n].attempt + 1]
    /\ Become(w, [Idle EXCEPT !.pc = "load", !.node = n, !.late = RunEnded,
                              !.attempt = recs[n].attempt + 1])
    /\ UNCHANGED <<run, old>>

\* Mutant of Claim: a running record is never handed out again.
ClaimQueuedOnly(w, n) == recs[n].status = "queued" /\ TakeRecord(w, n) /\ UNCHANGED faults

Claim(w, n) ==
    /\ recs[n].status = "queued" \/ Orphan(n)
    /\ TakeRecord(w, n)
    /\ UNCHANGED faults

\* The lease of a worker that is only slow runs out and another takes over.
ClaimLapsed(w, n) ==
    /\ recs[n].status = "running" /\ ~Orphan(n)
    /\ faults.lapse < MaxLapses
    /\ TakeRecord(w, n)
    /\ faults' = [faults EXCEPT !.lapse = @ + 1]

\* Mutant: the run's status is not looked at before executing.
LoadRunUnchecked(w) ==
    /\ Me(w).pc = "load"
    /\ Goto(w, IF Me(w).node \in SkipNodes THEN "skip" ELSE "exec")
    /\ UNCHANGED <<run, recs, old, faults>>

\* processNodeJob up to the execution: refuse a node of an ended run, skip a
\* disabled step or a trigger that did not fire.
LoadRun(w) ==
    /\ Me(w).pc = "load"
    /\ Goto(w, IF RunEnded THEN "refuse"
               ELSE IF Me(w).node \in SkipNodes THEN "skip"
               ELSE "exec")
    /\ UNCHANGED <<run, recs, old, faults>>

\* renewLease found the record taken or finished: abandon without writing.
LoseLease(w) ==
    /\ Me(w).pc \in {"load", "exec"}
    /\ MyRec(w).worker # w \/ MyRec(w).status # "running"
    /\ Become(w, Idle)
    /\ UNCHANGED <<run, recs, old, faults>>

\* The drop answers b.  "timeout" is a failure that is never retried, "error"
\* a failure to load the inputs or a recovered panic, "deferred" a step that
\* asks to be woken later (bounded here by MaxRetries).
Execute(w, b) ==
    /\ Me(w).pc = "exec"
    /\ b.status = "deferred" => Me(w).attempt < MaxRetries
    /\ Become(w, [Me(w) EXCEPT
         !.status = IF b.status = "timeout" THEN "failed" ELSE b.status,
         !.ports = b.ports,
         !.pc = CASE b.status = "awaiting" -> "park"
                  [] b.status = "error" -> "fail"
                  [] b.status = "deferred" -> "requeue"
                  [] b.status = "failed" /\ RetryAllowed(Me(w).node, Me(w).attempt) -> "requeue"
                  [] OTHER -> "plan"])
    /\ UNCHANGED <<run, recs, old, faults>>

-----------------------------------------------------------------------------
(* The worker writes what happened, fenced on its id.                      *)

MayWrite(w, st) == CompleteAllowed(MyRec(w).status, MyRec(w).worker, TRUE, w, st)

Requeue(w) ==
    /\ Me(w).pc = "requeue"
    /\ recs' = IF RequeueAllowed(MyRec(w).status, MyRec(w).worker, TRUE, w)
                 THEN [recs EXCEPT ![Me(w).node].status = "queued",
                                   ![Me(w).node].worker = Nobody]
                 ELSE recs
    /\ Become(w, Idle)
    /\ UNCHANGED <<run, old, faults>>

\* completeNode with a status that starts no plan; a refusal ends the job.
WriteAndGo(w, st, ports, next) ==
    /\ \/ /\ MayWrite(w, st)
          /\ recs' = [recs EXCEPT ![Me(w).node].status = st, ![Me(w).node].ports = ports]
          /\ Become(w, next)
       \/ /\ ~MayWrite(w, st)
          /\ Become(w, Idle)
          /\ UNCHANGED recs
    /\ UNCHANGED <<run, old, faults>>

Refuse(w) == Me(w).pc = "refuse" /\ WriteAndGo(w, "cancelled", {}, Idle)

\* failNode and the recovered panic: then AdvanceAfterCompletion.
Fail(w) ==
    /\ Me(w).pc = "fail"
    /\ WriteAndGo(w, "failed", {}, [Me(w) EXCEPT !.pc = "advance", !.status = "failed"])

\* A skipped step dispatches its dependents without asking about the run.
Pass(n) == <<[node |-> n, left |-> Dependents(n)]>>

Skip(w) ==
    /\ Me(w).pc = "skip"
    /\ WriteAndGo(w, "skipped", {},
         [Me(w) EXCEPT !.pc = "pass", !.status = "skipped", !.frames = Pass(Me(w).node)])

Park(w) ==
    /\ Me(w).pc = "park"
    /\ WriteAndGo(w, "awaiting", Me(w).ports, [Me(w) EXCEPT !.pc = "setParked"])

IsApprovalPause(ports) == "pending_url" \in ports

\* SetGraphRunParked(true), then AdvanceAfterCompletion(awaiting).
SetParked(w) ==
    /\ Me(w).pc = "setParked"
    /\ run' = IF IsApprovalPause(Me(w).ports) /\ run = "running" THEN "awaiting" ELSE run
    /\ Goto(w, "advance")
    /\ UNCHANGED <<recs, old, faults>>

\* Mutant of PlanAdvance: a dependent that waits for another step is enqueued too.
PlanAdvanceEager(w) ==
    /\ Me(w).pc = "plan"
    /\ LET n == Me(w).node
           known == [recs EXCEPT ![n] = Outcome(Me(w).status, Me(w).ports)]
           sure == {d \in Dependents(n) : analyzeDependent(known, d) # "skipped"}
       IN  Become(w, [Me(w) EXCEPT !.pc = "commit",
                        !.deps = IF advances(n, Me(w).status) THEN sure ELSE {},
                        !.revisit = advances(n, Me(w).status) /\ sure # Dependents(n)])
    /\ UNCHANGED <<run, recs, old, faults>>

\* PlanAdvance: what this outcome alone decides, before it is written.
PlanAdvance(w) ==
    /\ Me(w).pc = "plan"
    /\ LET n == Me(w).node
           known == [recs EXCEPT ![n] = Outcome(Me(w).status, Me(w).ports)]
           sure == IF advances(n, Me(w).status)
                     THEN {d \in Dependents(n) : analyzeDependent(known, d) = "enqueue"}
                     ELSE {}
       IN  Become(w, [Me(w) EXCEPT !.pc = "commit", !.deps = sure,
                        !.revisit = advances(n, Me(w).status) /\ sure # Dependents(n)])
    /\ UNCHANGED <<run, recs, old, faults>>

Fresh(S) == {d \in S : recs[d].status = "absent"}

\* CompleteAndEnqueue: outcome and sure dependents in one transaction; no
\* dependents for an ended run, existing ones are left alone.
Committed(w) ==
    [m \in Nodes |->
        IF m = Me(w).node
          THEN [recs[m] EXCEPT !.status = Me(w).status, !.ports = Me(w).ports]
        ELSE IF ~RunEnded /\ m \in Fresh(Me(w).deps) THEN NodeRec("queued")
        ELSE recs[m]]

\* Mutant of AfterCommit: a dependent that had to wait is not looked at again.
AfterCommitNoRevisit(w, ended, enqueued) ==
    IF ended \/ enqueued THEN Idle ELSE [Me(w) EXCEPT !.pc = "complete"]

\* FinishAdvance up to its next read: nothing for an ended run, a second look
\* at the dependents that had to wait, the completion check if no new work.
AfterCommit(w, ended, enqueued) ==
    IF ended THEN Idle
    ELSE IF Me(w).revisit
      THEN [Me(w) EXCEPT !.pc = "pass", !.frames = Pass(Me(w).node), !.enq = enqueued,
              !.index = [NoIndex EXCEPT ![Me(w).node] = Outcome(Me(w).status, Me(w).ports)]]
    ELSE IF enqueued THEN Idle
    ELSE [Me(w) EXCEPT !.pc = "complete"]

Commit(w) ==
    /\ Me(w).pc = "commit"
    /\ \/ /\ MayWrite(w, Me(w).status)
          /\ recs' = Committed(w)
          /\ Become(w, AfterCommit(w, RunEnded, Fresh(Me(w).deps) # {}))
       \/ /\ ~MayWrite(w, Me(w).status)
          /\ Become(w, Idle)
          /\ UNCHANGED recs
    /\ UNCHANGED <<run, old, faults>>

\* The store answers the commit with an error that is not a refusal; the
\* transaction may or may not have been applied.  processNodeJob logs it and
\* goes on to FinishAdvance with an empty Advance.
CommitError(w, applied) ==
    /\ Me(w).pc = "commit"
    /\ faults.store < MaxStoreErrors
    /\ faults' = [faults EXCEPT !.store = @ + 1]
    /\ applied => MayWrite(w, Me(w).status)
    /\ recs' = IF applied THEN Committed(w) ELSE recs
    /\ Become(w, AfterCommit(w, FALSE, FALSE))
    /\ UNCHANGED <<run, old>>

-----------------------------------------------------------------------------
(* Advancing a run from a finished node; any process may do it.            *)

\* AdvanceAfterCompletion: nothing once the run has ended.
Advance(p) ==
    /\ Me(p).pc = "advance"
    /\ IF RunEnded THEN Leave(p)
       ELSE IF advances(Me(p).node, Me(p).status)
         THEN Become(p, [Me(p) EXCEPT !.pc = "pass", !.frames = Pass(Me(p).node),
                                      !.index = NoIndex, !.enq = FALSE])
       ELSE Goto(p, "complete")
    /\ UNCHANGED <<run, recs, old, faults>>

\* What the pass knows of m once it has looked: its index, else the store.
Seen(p, m) == IF Me(p).index[m] # Unread THEN Me(p).index[m]
              ELSE Outcome(recs[m].status, recs[m].ports)

\* The predecessors of d the pass reads: up to the first one d waits for.
ReadSet(p, d) ==
    LET waits == {i \in Incoming(d) : EdgeWaits(Seen(p, Edges[i].from), Edges[i])}
    IN  {Edges[i].from : i \in {k \in Incoming(d) : \A j \in waits : k <= j}}

\* One dependent of dispatchReadyIndexed / recordSkippedIndexed.
Visit(p, d) ==
    LET frame == Head(Me(p).frames)
        index == [m \in Nodes |-> IF m \in ReadSet(p, d) THEN Seen(p, m) ELSE Me(p).index[m]]
        decision == analyzeDependent([m \in Nodes |-> Seen(p, m)], d)
        rest == <<[frame EXCEPT !.left = @ \ {d}]>> \o Tail(Me(p).frames)
        isNew == recs[d].status = "absent"
    IN  \/ /\ decision = "enqueue" /\ isNew
           /\ recs' = [recs EXCEPT ![d] = NodeRec("queued")]
           /\ Become(p, [Me(p) EXCEPT !.frames = rest, !.index = index,
                           !.enq = @ \/ Len(Me(p).frames) = 1])
        \/ /\ decision = "skipped" /\ isNew
           /\ recs' = [recs EXCEPT ![d] = NodeRec("skipped")]
           /\ Become(p, [Me(p) EXCEPT !.frames = Pass(d) \o rest,
                           !.index = [index EXCEPT ![d] = Outcome("skipped", {})]])
        \/ /\ decision = "waiting" \/ ~isNew
           /\ Become(p, [Me(p) EXCEPT !.frames = rest, !.index = index])
           /\ UNCHANGED recs

VisitDependent(p) ==
    /\ Me(p).pc = "pass"
    /\ \E d \in Head(Me(p).frames).left :
         /\ IsNext(d, Head(Me(p).frames).node, Head(Me(p).frames).left)
         /\ Visit(p, d)
    /\ UNCHANGED <<run, old, faults>>

\* A level is done: recordSkippedIndexed ends in the completion check; the top
\* level only runs it when the pass made no new work (or after a skipped step).
EndLevel(p) ==
    /\ Me(p).pc = "pass" /\ Head(Me(p).frames).left = {}
    /\ IF Len(Me(p).frames) > 1
         THEN /\ MaybeCompleteGraph(Head(Me(p).frames).node, "skipped")
              /\ Become(p, [Me(p) EXCEPT !.frames = Tail(@)])
         ELSE /\ UNCHANGED run
              /\ IF Me(p).enq /\ Me(p).status # "skipped"
                   THEN Leave(p)
                   ELSE Become(p, [Me(p) EXCEPT !.pc = "complete", !.frames = <<>>,
                                                !.index = NoIndex, !.enq = FALSE])
    /\ UNCHANGED <<recs, old, faults>>

Complete(p) ==
    /\ Me(p).pc = "complete"
    /\ MaybeCompleteGraph(Me(p).node, Me(p).status)
    /\ Leave(p)
    /\ UNCHANGED <<recs, old, faults>>

-----------------------------------------------------------------------------
(* Decisions on a parked step.                                             *)

\* Approve: the parked node succeeds and keeps what it had published; the value
\* it carried ("context") leaves by the decision port instead.
Approve(a, n, port) ==
    /\ Me(a).pc = "idle"
    /\ recs[n].status = "awaiting"
    /\ recs' = [recs EXCEPT ![n].status = "succeeded",
                            ![n].ports = (@ \ {"context"}) \cup {port, "approver", "comment"}]
    /\ Become(a, [Idle EXCEPT !.pc = "advance", !.node = n, !.status = "succeeded"])
    /\ UNCHANGED <<run, old, faults>>

\* runHasParkedApproval, read before the flag is written.
AskParked(a) ==
    /\ Me(a).pc = "askParked"
    /\ IF \E m \in Nodes \ {Me(a).node} :
             recs[m].status = "awaiting" /\ IsApprovalPause(recs[m].ports)
         THEN Become(a, Idle)
         ELSE Goto(a, "unpark")
    /\ UNCHANGED <<run, recs, old, faults>>

Unpark(a) ==
    /\ Me(a).pc = "unpark"
    /\ run' = IF run = "awaiting" THEN "running" ELSE run
    /\ Become(a, Idle)
    /\ UNCHANGED <<recs, old, faults>>

-----------------------------------------------------------------------------
(* Cancel: the run first, then its open nodes one by one.                  *)

Cancel(c) ==
    /\ Me(c).pc = "idle"
    /\ ~RunEnded
    /\ run' = "cancelled"
    /\ Become(c, [Idle EXCEPT !.pc = "sweep", !.sweep = Nodes])
    /\ UNCHANGED <<recs, old, faults>>

SweepNode(c) ==
    /\ Me(c).pc = "sweep"
    /\ \E n \in Me(c).sweep :
         /\ \A m \in Me(c).sweep : n <= m
         /\ recs' = IF recs[n].status \in OpenStatuses
                      THEN [recs EXCEPT ![n].status = "cancelled"] ELSE recs
         /\ Become(c, IF Me(c).sweep = {n} THEN Idle
                      ELSE [Me(c) EXCEPT !.sweep = @ \ {n}])
    /\ UNCHANGED <<run, old, faults>>

-----------------------------------------------------------------------------
(* The reaper.                                                             *)

Pending == \E n \in Nodes : recs[n].status \in OpenStatuses

\* Mutant of Reap: only the completion check, a run that lost a step stays.
ReapFinishedOnly(r) ==
    /\ Me(r).pc = "idle"
    /\ ~RunEnded
    /\ Verdict(1, "succeeded") # "none"
    /\ run' = Verdict(1, "succeeded")
    /\ UNCHANGED <<recs, proc, old, faults>>

\* ReapStuckGraphRuns: the completion check again; failing that, a run past
\* AbandonRunsAfter with no open record is found abandoned.
Reap(r) ==
    /\ Me(r).pc = "idle"
    /\ ~RunEnded
    /\ \/ /\ Verdict(1, "succeeded") # "none"
          /\ run' = Verdict(1, "succeeded")
          /\ UNCHANGED proc
       \/ /\ Verdict(1, "succeeded") = "none"
          /\ old /\ ~Pending
          /\ Goto(r, "abandon")
          /\ UNCHANGED run
    /\ UNCHANGED <<recs, old, faults>>

AbandonIfStuck(r) ==
    /\ Me(r).pc = "abandon"
    /\ run' = IF RunEnded THEN run ELSE "failed"
    /\ Become(r, Idle)
    /\ UNCHANGED <<recs, old, faults>>

\* AbandonRunsAfter has passed since the run was enqueued.
GrowOld ==
    /\ ~old /\ Reapers # {}
    /\ old' = TRUE
    /\ UNCHANGED <<run, recs, proc, faults>>

\* The process holding a goroutine dies.
Crash(p) ==
    /\ Me(p).pc # "idle"
    /\ faults.crash < MaxCrashes
    /\ faults' = [faults EXCEPT !.crash = @ + 1]
    /\ Become(p, Idle)
    /\ UNCHANGED <<run, recs, old>>

-----------------------------------------------------------------------------
\* What a worker does with the record it holds.
WorkerStep(w) ==
    \/ LoadRun(w) \/ LoseLease(w)
    \/ \E b \in Behaviours[Me(w).node] : Execute(w, b)
    \/ Requeue(w) \/ Refuse(w) \/ Fail(w) \/ Skip(w)
    \/ Park(w) \/ SetParked(w) \/ PlanAdvance(w) \/ Commit(w)

\* What any process does once it advances the run.
AdvanceStep(p) == Advance(p) \/ VisitDependent(p) \/ EndLevel(p) \/ Complete(p)

Next ==
    \/ \E w \in Workers : \E n \in Nodes : Claim(w, n)
    \/ \E w \in Workers : \E n \in Nodes : ClaimLapsed(w, n)
    \/ \E w \in Workers : WorkerStep(w)
    \/ \E w \in Workers : \E applied \in BOOLEAN : CommitError(w, applied)
    \/ \E p \in Workers \cup Approvers : AdvanceStep(p)
    \/ \E a \in Approvers : \E n \in Nodes : \E port \in {"approved", "rejected"} :
          Approve(a, n, port)
    \/ \E a \in Approvers : AskParked(a) \/ Unpark(a)
    \/ \E c \in Cancellers : Cancel(c) \/ SweepNode(c)
    \/ \E r \in Reapers : Reap(r) \/ AbandonIfStuck(r)
    \/ GrowOld
    \/ \E p \in Procs : Crash(p)

Spec == Init /\ [][Next]_vars

(***************************************************************************)
(* A live process keeps running its code; an idle worker polls the queue;  *)
(* the reaper runs on a ticker; time passes.  No fairness on cancels,      *)
(* decisions, lapses and faults.                                           *)
(***************************************************************************)
Fairness ==
    /\ \A w \in Workers : /\ WF_vars(WorkerStep(w))
                          /\ WF_vars(\E n \in Nodes : Claim(w, n))
    /\ \A p \in Workers \cup Approvers : WF_vars(AdvanceStep(p))
    /\ \A a \in Approvers : WF_vars(AskParked(a) \/ Unpark(a))
    /\ \A c \in Cancellers : WF_vars(SweepNode(c))
    /\ \A r \in Reapers : WF_vars(Reap(r)) /\ WF_vars(AbandonIfStuck(r))
    /\ WF_vars(GrowOld)

FairSpec == Spec /\ Fairness

-----------------------------------------------------------------------------
(* What a run promises.                                                    *)

\* Routing: whatever the interleaving of the passes, a node is recorded only
\* once all its predecessors have answered, and it is enqueued or skipped
\* exactly as the edge rules say of their final outcomes (a cancelled
\* predecessor excepted: its dependents belong to a cancelled run).
RoutingFollowsEdges ==
    \A n \in Nodes \ Roots :
        recs[n].status # "absent"
            /\ (\A m \in Preds(n) : recs[m].status # "cancelled") =>
        analyzeDependent(recs, n) =
            IF recs[n].status = "skipped" /\ recs[n].attempt = 0 THEN "skipped" ELSE "enqueue"

\* Routing is exclusive: classifyEdge says a router leaked when an unchosen port was
\* "merely dormant", and "any OTHER live wire into the else-side step was enough
\* to enqueue it".  A step wired to a port its predecessor left empty never runs,
\* whatever else is wired to it.
NoLeakedBranch ==
    \A i \in DOMAIN Edges :
        LET e == Edges[i] IN
        /\ recs[e.from].status = "succeeded"
        /\ e.port \notin recs[e.from].ports \cup {PassPort}
        /\ e.onError # "fallback"
        => recs[e.to].status \in {"absent", "skipped"}

\* A run reports success only if every step is closed, none was cancelled and no
\* step failed in a way its graph does not tolerate.
SuccessIsEarned ==
    run = "succeeded" =>
        \A n \in Nodes : Closed(n) /\ recs[n].status # "cancelled" /\ ~Failing(n)

\* dispatch.go "Complete is terminal-guarded, so only one finalize wins": of all the
\* processes that may end a run or close a step, the first decides and no later
\* write, however late, changes the verdict or the outcome.
OutcomesAreFinal ==
    [][/\ RunEnded => run' = run
       /\ \A n \in Nodes : Closed(n) => recs'[n] = recs[n]]_vars

\* worker.go "Claim does not look at the run, so a node enqueued while the run was
\* being cancelled can still be handed out. Refuse to execute it": a record
\* claimed after its run ended is never executed.
NoLateExecution == \A w \in Workers : ~(proc[w].pc = "exec" /\ proc[w].late)

\* core.Validate refuses a graph with a cycle (TopologicalOrder): of any nodes one
\* waits for none of the others.
Acyclic == \A S \in SUBSET Nodes : S # {} => \E n \in S : Preds(n) \cap S = {}

(***************************************************************************)
(* A condition on the graph under which no run is stranded.  S holds the   *)
(* steps a pass may skip: the wires into every other step are live once    *)
(* the step they come from has answered, unless it failed the run.         *)
(***************************************************************************)
AlwaysLive(i, S) ==
    LET e == Edges[i] IN
    /\ \/ e.port = PassPort
       \/ \A b \in Behaviours[e.from] :
             b.status # "awaiting" /\ (b.status = "succeeded" => e.port \in b.ports)
    /\ \/ e.onError = "skip"
       \/ /\ e.onError # "fallback" /\ failurePropagates(e.from)
          /\ e.from \notin S \cup SkipNodes

CoversSkips(S) == \A n \in Nodes \ (Roots \cup S) : \A i \in Incoming(n) : AlwaysLive(i, S)

\* A join n of a step d that may be skipped and of another step m: while m is parked
\* it does not hold n up, and whatever else waits for m waits for nothing but m and
\* d.  So a pass that skips d has not looked at m before, and looks at it afresh.
JoinsReadAfresh(S) ==
    \A n \in Nodes : \A d \in Preds(n) \cap S : \A m \in Preds(n) \ {d} :
        /\ \A i \in Incoming(n) : \A b \in Behaviours[m] :
              Edges[i].from = m /\ b.status = "awaiting" => ~EdgeWaits(b, Edges[i])
        /\ \A k \in Dependents(m) \ {d} : Preds(k) \subseteq {m, d}

CascadeSafe == \E S \in SUBSET Nodes : CoversSkips(S) /\ JoinsReadAfresh(S)

\* No process is about to act on the run.
Quiet == \A p \in Procs \ Reapers : proc[p].pc = "idle"

\* No run is stranded: when nobody is advancing it and no record is open, the
\* run has ended (without crashes; dispatch.go promises that of two concurrent
\* completions at least one sees the other).
NoStrandedRun ==
    faults.crash = 0 /\ Quiet /\ ~Pending => RunEnded \/ Verdict(1, "succeeded") # "none"

\* Every run ends, crashes, stalls and lost passes included, or it is left
\* waiting for a decision on a parked step.
RunEnds == <>[](RunEnded \/ \E n \in Nodes : recs[n].status = "awaiting")

\* Once the run has ended, the records a cancel or a failure left queued or
\* running are closed too: no worker is kept busy by a dead run.
LeftoversClosed ==
    RunEnded ~> \A n \in Nodes : recs[n].status \notin {"queued", "running"}

\* dispatch.go: "a run mid-transition is never mistaken for an abandoned one".
AbandonsOnlyStuckRuns ==
    [][(\E r \in Reapers : AbandonIfStuck(r)) /\ run' # run => Quiet]_vars

\* A step of the run waits for a person.
ParkedApproval == \E n \in Nodes : recs[n].status = "awaiting" /\ IsApprovalPause(recs[n].ports)

\* runparked.go: "the first decision must not flip the run back to Running while
\* the second still waits".  With nobody at work on it, a run that has a step
\* parked on a person shows Waiting.
ParkedShowsWaiting == Quiet /\ ParkedApproval => run = "awaiting" \/ RunEnded

-----------------------------------------------------------------------------
(* The run as its owner sees it.                                           *)

StepState(st) ==
    CASE st = "absent" -> "none"
      [] st \in {"queued", "running"} -> "open"
      [] st = "awaiting" -> "parked"
      [] OTHER -> st

Life == INSTANCE RunLife WITH
            Steps <- Nodes,
            PredsOf <- [n \in Nodes |-> Preds(n)],
            Fatal <- {n \in Nodes : failurePropagates(n)},
            Supervised <- Reapers # {},
            verdict <- IF RunEnded THEN run ELSE "open",
            state <- [n \in Nodes |-> StepState(recs[n].status)]

\* The run implements RunLife: through all the interleavings of workers, passes,
\* decisions and cancels, steps are released only after everything they wait for
\* has answered, close once, and the one verdict is justified by them.
ImplementsRunLife == Life!Spec
==============================================================================
