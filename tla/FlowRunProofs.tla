--------------------------- MODULE FlowRunProofs ---------------------------
(***************************************************************************)
(* What FlowRun guarantees for every graph, every number of processes and  *)
(* every fault budget.  Every step is first reduced to what it does to the *)
(* run, to the records and to the one process that takes it (RunEffect,    *)
(* RecsEffect, LocalEffect); the invariant follows from those effects      *)
(* alone, whatever the action was.  The second part is about the wires:    *)
(* the readings passes and plans rely on still stand when they are used,   *)
(* so that steps are routed as their predecessors ended.  The third part   *)
(* maps every step to a step of RunLife or to none.  The fourth shows that *)
(* in a graph with CascadeSafe every step that is settled is attended to,  *)
(* so that no run is stranded.                                             *)
(***************************************************************************)
EXTENDS FlowRun, TLAPS

\* A pass has at least the level it started with.
PassHasFrame == \A p \in Procs : proc[p].pc = "pass" => proc[p].frames # <<>>

\* Only an outcome of the step itself reaches the plan and the commit.
OutcomeToCommit ==
    \A p \in Procs : proc[p].pc \in {"plan", "commit"} => proc[p].status \in {"succeeded", "failed"}

\* A record claimed after the end of its run is on its way to being refused.
LateIsRefused == \A p \in Procs : proc[p].late => RunEnded /\ proc[p].pc # "exec"

\* Steps are cancelled only once the run has ended.
CancelAfterEnd ==
    /\ \A p \in Procs : proc[p].pc \in {"sweep", "refuse"} => RunEnded
    /\ \A n \in Nodes : recs[n].status = "cancelled" => RunEnded

FlowInv ==
    /\ TypeOK /\ PassHasFrame /\ OutcomeToCommit
    /\ LateIsRefused /\ CancelAfterEnd /\ SuccessIsEarned

\* The process p that takes the step goes from proc[p] to l.
LocalEffect(p, l) ==
    /\ l \in Locals
    /\ proc' = [proc EXCEPT ![p] = l]
    /\ l.pc = "pass" => l.frames # <<>>
    /\ l.pc \in {"plan", "commit"} => l.status \in {"succeeded", "failed"}
    /\ l.late => proc[p].late \/ RunEnded
    /\ l.pc = "exec" => l = proc[p] \/ ~RunEnded
    /\ l.pc \in {"sweep", "refuse"} => RunEnded'

\* A closed record stays as it is; only a refusal or a sweep cancels.
RecsEffect(p) ==
    /\ recs' \in [Nodes -> NodeRecs]
    /\ \A n \in Nodes : Closed(n) => recs'[n] = recs[n]
    /\ \A n \in Nodes : recs'[n].status = "cancelled" =>
          recs[n].status = "cancelled" \/ proc[p].pc \in {"sweep", "refuse"}

\* An ended run stays as it is; success is declared on closed, tolerated steps.
RunEffect ==
    /\ run' \in RunStatuses
    /\ RunEnded => run' = run
    /\ run' = "succeeded" => \/ run = "succeeded"
                             \/ recs' = recs /\ \A n \in Nodes : Closed(n) /\ ~Failing(n)

OtherEffect ==
    /\ old' \in BOOLEAN
    /\ faults' \in [crash : 0 .. MaxCrashes, lapse : 0 .. MaxLapses, store : 0 .. MaxStoreErrors]

Effect(p) == /\ \E l : LocalEffect(p, l)
             /\ RecsEffect(p) /\ RunEffect /\ OtherEffect

-----------------------------------------------------------------------------
(* From effects to the invariant.                                          *)

\* A step with the three effects preserves the invariant, whichever action it is.
LEMMA FlowInvFromEffect ==
    ASSUME FlowInv, NEW p \in Procs, Effect(p)
    PROVE  FlowInv'
<1>1. PICK l : LocalEffect(p, l)
  BY DEF Effect
<1>2. proc' \in [Procs -> Locals] /\ proc'[p] = l
      /\ \A q \in Procs : q # p => proc'[q] = proc[q]
  BY <1>1 DEF FlowInv, TypeOK, LocalEffect
<1>3. TypeOK'
  BY <1>2 DEF Effect, RecsEffect, RunEffect, OtherEffect, TypeOK
<1>4. PassHasFrame' /\ OutcomeToCommit'
  BY <1>1, <1>2 DEF FlowInv, LocalEffect, PassHasFrame, OutcomeToCommit
<1>5. RunEnded => RunEnded'
  BY DEF Effect, RunEffect, RunEnded
<1>6. LateIsRefused'
  BY <1>1, <1>2, <1>5 DEF FlowInv, LocalEffect, LateIsRefused
<1>7. CancelAfterEnd'
  <2>1. \A q \in Procs : proc'[q].pc \in {"sweep", "refuse"} => RunEnded'
    BY <1>1, <1>2, <1>5 DEF FlowInv, LocalEffect, CancelAfterEnd
  <2>2. \A n \in Nodes : recs'[n].status = "cancelled" => RunEnded'
    BY <1>5 DEF FlowInv, CancelAfterEnd, Effect, RecsEffect
  <2>3. QED
    BY <2>1, <2>2 DEF CancelAfterEnd
<1>8. SuccessIsEarned'
  <2>1. CASE run' = "succeeded" /\ run = "succeeded"
    <3>1. \A n \in Nodes : recs'[n] = recs[n] /\ Closed(n)
      BY <2>1 DEF FlowInv, SuccessIsEarned, Effect, RecsEffect
    <3>2. QED
      BY <2>1, <3>1 DEF FlowInv, SuccessIsEarned, Closed, Failing
  <2>2. CASE run' = "succeeded" /\ run # "succeeded"
    <3>1. recs' = recs /\ \A n \in Nodes : Closed(n) /\ ~Failing(n)
      BY <2>2 DEF Effect, RunEffect
    <3>2. ~RunEnded
      BY <2>2 DEF Effect, RunEffect
    <3>3. \A n \in Nodes : recs[n].status # "cancelled"
      BY <3>2 DEF FlowInv, CancelAfterEnd
    <3>4. QED
      BY <3>1, <3>3 DEF SuccessIsEarned, Closed, Failing
  <2>3. CASE run' # "succeeded"
    BY <2>3 DEF SuccessIsEarned
  <2>4. QED
    BY <2>1, <2>2, <2>3
<1>9. QED
  BY <1>3, <1>4, <1>6, <1>7, <1>8 DEF FlowInv

\* What is left alone has no effect.
LEMMA Unchanged ==
    ASSUME TypeOK, NEW p \in Procs
    PROVE  /\ recs' = recs => RecsEffect(p)
           /\ run' = run => RunEffect
           /\ UNCHANGED <<old, faults>> => OtherEffect
           /\ proc' = proc => proc' = [proc EXCEPT ![p] = proc[p]]
BY DEF TypeOK, RecsEffect, RunEffect, OtherEffect

-----------------------------------------------------------------------------
(* Helpers.                                                                *)

\* The sequence facts the stack of a pass needs.
LEMMA FrameSeqs ==
    ASSUME NEW S
    PROVE  /\ <<>> \in Seq(S)
           /\ \A s \in Seq(S) : Len(s) > 1 => Tail(s) \in Seq(S) /\ Tail(s) # <<>>
           /\ \A s \in Seq(S) : s # <<>> => Head(s) \in S /\ Tail(s) \in Seq(S)
           /\ \A s \in Seq(S) : \A x \in S : <<x>> \o s \in Seq(S) /\ <<x>> \o s # <<>>
<1>1. \A s \in Seq(S) : s # <<>> => Head(s) \in S /\ Tail(s) \in Seq(S)
                                  /\ Len(Tail(s)) = Len(s) - 1
  OBVIOUS
<1>2. \A s \in Seq(S) : Len(s) > 1 => Tail(s) # <<>>
  <2> SUFFICES ASSUME NEW s \in Seq(S), Len(s) > 1 PROVE Tail(s) # <<>>
    OBVIOUS
  <2>1. s # <<>>
    OBVIOUS
  <2> DEFINE t == Tail(s)
             k == Len(s)
  <2>2. Len(t) = k - 1 /\ k \in Nat /\ k > 1
    BY <1>1, <2>1
  <2> HIDE DEF t, k
  <2>3. Len(t) # 0
    BY <2>2
  <2>4. t # <<>>
    BY <2>3
  <2>5. QED
    BY <2>4 DEF t
<1>3. \A s \in Seq(S) : \A x \in S : <<x>> \o s \in Seq(S) /\ <<x>> \o s # <<>>
  <2> SUFFICES ASSUME NEW s \in Seq(S), NEW x \in S
               PROVE  <<x>> \o s \in Seq(S) /\ <<x>> \o s # <<>>
    OBVIOUS
  <2>1. <<x>> \in Seq(S) /\ Len(<<x>>) = 1
    OBVIOUS
  <2>2. <<x>> \o s \in Seq(S) /\ Len(<<x>> \o s) = 1 + Len(s) /\ Len(s) \in Nat
    BY <2>1
  <2>3. QED
    BY <2>2
<1>4. QED
  BY <1>1, <1>2, <1>3

\* An idle goroutine is well typed and remembers no late claim.
LEMMA IdleTyped ==
    /\ Idle \in Locals
    /\ NoIndex \in [Nodes -> Seens]
    /\ ~Idle.late /\ Idle.pc = "idle" /\ Idle.status = "none"
<1>1. 1 \in Nodes
  BY GraphAssumption DEF Nodes
<1>2. <<>> \in Seq([node : Nodes, left : SUBSET Nodes])
  OBVIOUS
<1>3. NoIndex \in [Nodes -> Seens]
  BY DEF NoIndex, Unread, Outcome, Seens
<1>4. QED
  BY <1>1, <1>2, <1>3 DEF Idle, Locals, Pcs

\* What a process remembers, and the record it works on, are well typed.
LEMMA MineTyped ==
    ASSUME TypeOK, NEW p \in Procs
    PROVE  /\ Me(p) \in Locals /\ Me(p) = proc[p]
           /\ Me(p).node \in Nodes /\ MyRec(p) \in NodeRecs
           /\ MyRec(p) = recs[Me(p).node]
BY DEF TypeOK, Me, MyRec, Locals

\* A pass starts with one well-typed level.
LEMMA PassTyped ==
    ASSUME NEW n \in Nodes
    PROVE  Pass(n) \in Seq([node : Nodes, left : SUBSET Nodes]) /\ Pass(n) # <<>>
<1>1. Dependents(n) \subseteq Nodes
  BY GraphAssumption DEF Dependents, Outgoing
<1>2. [node |-> n, left |-> Dependents(n)] \in [node : Nodes, left : SUBSET Nodes]
  BY <1>1
<1>3. QED
  BY <1>2 DEF Pass

\* A process that is done goes idle, or (a decision) looks at the parked flag.
LEMMA LeaveEffect ==
    ASSUME TypeOK, NEW p \in Procs, Leave(p)
    PROVE  \E l : LocalEffect(p, l)
<1> DEFINE l == IF p \in Approvers THEN [Idle EXCEPT !.pc = "askParked", !.node = Me(p).node] ELSE Idle
<1>1. l \in Locals /\ ~l.late /\ l.pc \in {"askParked", "idle"}
  BY IdleTyped, MineTyped DEF Locals, Pcs
<1>2. proc' = [proc EXCEPT ![p] = l]
  BY DEF Leave, Become
<1> HIDE DEF l
<1>3. QED
  BY <1>1, <1>2 DEF LocalEffect

\* Going idle meets every local obligation.
LEMMA IdleEffect ==
    ASSUME TypeOK, NEW p \in Procs, Become(p, Idle)
    PROVE  \E l : LocalEffect(p, l)
BY IdleTyped DEF LocalEffect, Become

\* A verdict is a statement about every record.
LEMMA VerdictEffect ==
    ASSUME TypeOK, NEW n, NEW status
    PROVE  /\ Verdict(n, status) \in {"none", "failed", "succeeded"}
           /\ Verdict(n, status) = "succeeded" => \A m \in Nodes : Closed(m) /\ ~Failing(m)
<1>1. \A m \in Nodes : \A k \in 1 .. m : k \in Nodes
  BY GraphAssumption DEF Nodes
<1>2. QED
  BY <1>1 DEF Verdict

\* maybeCompleteGraph respects an ended run and earns the success it declares.
LEMMA MaybeCompleteEffect ==
    ASSUME TypeOK, NEW n, NEW status, MaybeCompleteGraph(n, status), recs' = recs
    PROVE  RunEffect
BY VerdictEffect DEF MaybeCompleteGraph, RunEffect, TypeOK, RunStatuses

\* A write of one record that was open or absent.
LEMMA OneRecordEffect ==
    ASSUME TypeOK, NEW p \in Procs, NEW n \in Nodes, NEW r \in NodeRecs, ~Closed(n),
           recs' = [recs EXCEPT ![n] = r],
           r.status = "cancelled" => proc[p].pc \in {"sweep", "refuse"}
    PROVE  RecsEffect(p)
BY DEF TypeOK, RecsEffect

-----------------------------------------------------------------------------
(* The effect of each action.                                              *)

\* Taking a record (Claim in the store) reopens no closed record.
LEMMA TakeEffect ==
    ASSUME FlowInv, NEW w \in Workers, NEW n \in Nodes, TakeRecord(w, n),
           recs[n].status \in {"queued", "running"}
    PROVE  (\E l : LocalEffect(w, l)) /\ RecsEffect(w) /\ RunEffect
<1> DEFINE r == [recs[n] EXCEPT !.status = "running", !.worker = w, !.attempt = recs[n].attempt + 1]
           l == [Idle EXCEPT !.pc = "load", !.node = n, !.late = RunEnded,
                             !.attempt = recs[n].attempt + 1]
<1>0. TypeOK /\ w \in Procs
  BY DEF FlowInv, Procs
<1>1. recs[n] \in NodeRecs /\ recs[n].attempt + 1 \in Nat
  BY <1>0 DEF TypeOK, NodeRecs
<1>2. r \in NodeRecs /\ r.status = "running"
  BY <1>1 DEF NodeRecs, JobStatuses, OpenStatuses
<1>3. recs' = [recs EXCEPT ![n] = r]
  BY <1>0 DEF TakeRecord, TypeOK, NodeRecs
<1>4. ~Closed(n)
  BY DEF Closed, IsTerminalStatus, TerminalStatuses
<1>5. RecsEffect(w)
  <2> HIDE DEF r
  <2> QED BY <1>0, <1>2, <1>3, <1>4, OneRecordEffect
<1>6. RunEnded \in BOOLEAN
  BY DEF RunEnded, IsTerminalStatus
<1>7. l \in Locals /\ l.pc = "load" /\ (l.late => RunEnded)
  BY <1>1, <1>6, IdleTyped DEF Locals, Pcs
<1>8. proc' = [proc EXCEPT ![w] = l]
  BY DEF TakeRecord, Become
<1>9. LocalEffect(w, l)
  <2> HIDE DEF l
  <2> QED BY <1>7, <1>8 DEF LocalEffect
<1>10. RunEffect
  BY <1>0, Unchanged DEF TakeRecord
<1>11. QED
  BY <1>5, <1>9, <1>10

\* Claim of a queued record, an orphan or a lapsed one.
LEMMA ClaimEffect ==
    ASSUME FlowInv, NEW w \in Workers, NEW n \in Nodes, Claim(w, n) \/ ClaimLapsed(w, n)
    PROVE  Effect(w)
<1>1. TakeRecord(w, n) /\ recs[n].status \in {"queued", "running"}
  BY DEF Claim, ClaimLapsed, Orphan
<1>2. OtherEffect
  BY <1>1, BudgetAssumption
     DEF FlowInv, TypeOK, Claim, ClaimLapsed, TakeRecord, OtherEffect
<1>3. QED
  BY <1>1, <1>2, TakeEffect DEF Effect

\* Steps that only move the process.
LEMMA MoveEffect ==
    ASSUME FlowInv, NEW p \in Procs, UNCHANGED <<run, recs, old, faults>>,
           \E l : LocalEffect(p, l)
    PROVE  Effect(p)
BY Unchanged DEF Effect, FlowInv

\* Moving to another point of the code, keeping what is remembered.
LEMMA GotoEffect ==
    ASSUME FlowInv, NEW p \in Procs, NEW pc \in Pcs, Goto(p, pc),
           pc \notin {"pass", "plan", "commit"},
           pc = "exec" => ~RunEnded,
           pc \in {"sweep", "refuse"} => RunEnded'
    PROVE  \E l : LocalEffect(p, l)
<1> DEFINE l == [Me(p) EXCEPT !.pc = pc]
<1>1. TypeOK
  BY DEF FlowInv
<1>2. l \in Locals /\ l.pc = pc /\ l.late = proc[p].late
  <2>1. Me(p) \in Locals /\ Me(p) = proc[p]
    BY <1>1, MineTyped
  <2> HIDE DEF Me
  <2>2. QED
    BY <2>1 DEF Locals
<1>3. proc' = [proc EXCEPT ![p] = l]
  BY <1>1 DEF Goto, Me, TypeOK
<1> HIDE DEF l
<1>4. QED
  BY <1>2, <1>3 DEF LocalEffect

\* processNodeJob only goes on to execute while the run is open.
LEMMA LoadRunEffect ==
    ASSUME FlowInv, NEW w \in Workers, LoadRun(w)
    PROVE  Effect(w)
<1>0. w \in Procs
  BY DEF Procs
<1>1. RunEnded' = RunEnded
  BY DEF LoadRun, RunEnded
<1>2. PICK pc \in {"refuse", "skip", "exec"} :
        Goto(w, pc) /\ (pc = "exec" => ~RunEnded) /\ (pc = "refuse" => RunEnded)
  BY DEF LoadRun
<1>3. pc \in Pcs
  BY DEF Pcs
<1>4. \E l : LocalEffect(w, l)
  BY <1>0, <1>1, <1>2, <1>3, GotoEffect
<1>5. QED
  BY <1>0, <1>4, MoveEffect DEF LoadRun

\* Abandoning a lost lease writes nothing.
LEMMA LoseLeaseEffect ==
    ASSUME FlowInv, NEW w \in Workers, LoseLease(w)
    PROVE  Effect(w)
BY IdleEffect, MoveEffect DEF LoseLease, FlowInv, Procs

\* Whatever the drop answers, only a success or a failure is planned for.
LEMMA ExecuteEffect ==
    ASSUME FlowInv, NEW w \in Workers, NEW b \in Behaviours[Me(w).node], Execute(w, b)
    PROVE  Effect(w)
<1>0. TypeOK /\ w \in Procs
  BY DEF FlowInv, Procs
<1>1. Me(w) \in Locals /\ Me(w) = proc[w] /\ Me(w).node \in Nodes
  BY <1>0, MineTyped
<1>2. b.ports \in SUBSET Ports
  BY <1>1 DEF Ports
<1>3. b.status \in {"succeeded", "failed", "timeout", "awaiting", "deferred", "error"}
  BY <1>1, BehaviourAssumption
<1> DEFINE st == IF b.status = "timeout" THEN "failed" ELSE b.status
           next == CASE b.status = "awaiting" -> "park"
                     [] b.status = "error" -> "fail"
                     [] b.status = "deferred" -> "requeue"
                     [] b.status = "failed" /\ RetryAllowed(Me(w).node, Me(w).attempt) -> "requeue"
                     [] OTHER -> "plan"
           l == [Me(w) EXCEPT !.status = st, !.ports = b.ports, !.pc = next]
<1>4. /\ st \in JobStatuses \cup {"none", "deferred", "error"}
      /\ next \in {"park", "fail", "requeue", "plan"}
      /\ next = "plan" => st \in {"succeeded", "failed"}
  BY <1>3 DEF JobStatuses, TerminalStatuses, OpenStatuses
<1>5. proc' = [proc EXCEPT ![w] = l]
  BY DEF Execute, Become
<1> HIDE DEF st, next
<1>6. next \in Pcs
  BY <1>4 DEF Pcs
<1>7. l \in Locals /\ l.pc = next /\ l.status = st /\ l.late = proc[w].late
  BY <1>1, <1>2, <1>4, <1>6 DEF Locals
<1> HIDE DEF l
<1>8. LocalEffect(w, l)
  BY <1>4, <1>5, <1>7 DEF LocalEffect
<1>9. QED
  BY <1>0, <1>8, MoveEffect DEF Execute

\* The plan names nodes of the graph and keeps the outcome.
LEMMA PlanAdvanceEffect ==
    ASSUME FlowInv, NEW w \in Workers, PlanAdvance(w)
    PROVE  Effect(w)
<1>0. TypeOK /\ w \in Procs
  BY DEF FlowInv, Procs
<1>1. Me(w) \in Locals /\ Me(w) = proc[w] /\ Me(w).node \in Nodes
  BY <1>0, MineTyped
<1>2. PICK deps \in SUBSET Nodes, revisit \in BOOLEAN :
        Become(w, [Me(w) EXCEPT !.pc = "commit", !.deps = deps, !.revisit = revisit])
  <2> DEFINE n == Me(w).node
             known == [recs EXCEPT ![n] = Outcome(Me(w).status, Me(w).ports)]
             sure == IF advances(n, Me(w).status)
                       THEN {d \in Dependents(n) : analyzeDependent(known, d) = "enqueue"}
                       ELSE {}
             again == advances(n, Me(w).status) /\ sure # Dependents(n)
  <2>1. sure \in SUBSET Nodes
    BY <1>1, GraphAssumption DEF Dependents, Outgoing
  <2>2. again \in BOOLEAN
    BY DEF advances
  <2>3. Become(w, [Me(w) EXCEPT !.pc = "commit", !.deps = sure, !.revisit = again])
    BY DEF PlanAdvance
  <2> HIDE DEF sure, again
  <2>4. QED
    BY <2>1, <2>2, <2>3
<1> DEFINE l == [Me(w) EXCEPT !.pc = "commit", !.deps = deps, !.revisit = revisit]
<1>3. l \in Locals /\ l.pc = "commit" /\ l.status = Me(w).status /\ l.late = Me(w).late
  BY <1>1 DEF Locals, Pcs
<1>4. Me(w).status \in {"succeeded", "failed"}
  BY <1>0, <1>1 DEF FlowInv, OutcomeToCommit, PlanAdvance
<1>5. proc' = [proc EXCEPT ![w] = l]
  BY <1>2 DEF Become
<1> HIDE DEF l
<1>6. LocalEffect(w, l)
  BY <1>1, <1>3, <1>4, <1>5 DEF LocalEffect
<1>7. QED
  BY <1>0, <1>6, MoveEffect DEF PlanAdvance

\* A requeue is fenced and never reopens a closed record.
LEMMA RequeueEffect ==
    ASSUME FlowInv, NEW w \in Workers, Requeue(w)
    PROVE  Effect(w)
<1>0. TypeOK /\ w \in Procs
  BY DEF FlowInv, Procs
<1>1. Me(w).node \in Nodes /\ MyRec(w) \in NodeRecs /\ MyRec(w) = recs[Me(w).node]
  BY <1>0, MineTyped
<1>2. RecsEffect(w)
  <2>1. CASE RequeueAllowed(MyRec(w).status, MyRec(w).worker, TRUE, w)
    <3> DEFINE r == [MyRec(w) EXCEPT !.status = "queued", !.worker = Nobody]
    <3>1. r \in NodeRecs /\ r.status = "queued"
      BY <1>1 DEF NodeRecs, JobStatuses, OpenStatuses
    <3>2. recs' = [recs EXCEPT ![Me(w).node] = r]
      BY <1>0, <1>1, <2>1 DEF Requeue, TypeOK, NodeRecs
    <3>3. ~Closed(Me(w).node)
      BY <1>1, <2>1 DEF RequeueAllowed, Closed
    <3> HIDE DEF r
    <3>4. QED
      BY <1>0, <1>1, <3>1, <3>2, <3>3, OneRecordEffect
  <2>2. CASE ~RequeueAllowed(MyRec(w).status, MyRec(w).worker, TRUE, w)
    BY <1>0, <2>2, Unchanged DEF Requeue
  <2>3. QED
    BY <2>1, <2>2
<1>3. QED
  BY <1>0, <1>2, IdleEffect, Unchanged DEF Requeue, Effect

\* A write the fence lets through closes or parks an open record.
LEMMA WriteEffect ==
    ASSUME FlowInv, NEW w \in Workers, NEW st \in JobStatuses, NEW ports \in SUBSET Ports,
           MayWrite(w, st), st = "cancelled" => proc[w].pc = "refuse",
           recs' = [recs EXCEPT ![Me(w).node].status = st, ![Me(w).node].ports = ports]
    PROVE  RecsEffect(w)
<1>0. TypeOK /\ w \in Procs
  BY DEF FlowInv, Procs
<1>1. Me(w).node \in Nodes /\ MyRec(w) \in NodeRecs /\ MyRec(w) = recs[Me(w).node]
  BY <1>0, MineTyped
<1> DEFINE r == [MyRec(w) EXCEPT !.status = st, !.ports = ports]
<1>2. r \in NodeRecs /\ r.status = st
  BY <1>1 DEF NodeRecs
<1>3. recs' = [recs EXCEPT ![Me(w).node] = r]
  BY <1>0, <1>1 DEF TypeOK, NodeRecs
<1>4. ~Closed(Me(w).node)
  BY <1>1 DEF MayWrite, CompleteAllowed, Closed
<1> HIDE DEF r
<1>5. QED
  BY <1>0, <1>1, <1>2, <1>3, <1>4, OneRecordEffect

\* completeNode either writes under the fence or ends the job.
LEMMA WriteAndGoEffect ==
    ASSUME FlowInv, NEW w \in Workers, NEW st \in JobStatuses, NEW ports \in SUBSET Ports,
           NEW next, WriteAndGo(w, st, ports, next),
           st = "cancelled" => proc[w].pc = "refuse",
           Become(w, next) => \E l : LocalEffect(w, l)
    PROVE  Effect(w)
<1>0. TypeOK /\ w \in Procs
  BY DEF FlowInv, Procs
<1>1. CASE /\ MayWrite(w, st)
           /\ recs' = [recs EXCEPT ![Me(w).node].status = st, ![Me(w).node].ports = ports]
           /\ Become(w, next)
  BY <1>0, <1>1, WriteEffect, Unchanged DEF WriteAndGo, Effect
<1>2. CASE ~MayWrite(w, st) /\ Become(w, Idle) /\ UNCHANGED recs
  BY <1>0, <1>2, IdleEffect, Unchanged DEF WriteAndGo, Effect
<1>3. QED
  BY <1>1, <1>2 DEF WriteAndGo

\* A process goes to a point without obligations, keeping what it remembers.
LEMMA OnwardEffect ==
    ASSUME TypeOK, NEW p \in Procs, NEW l \in Locals, Become(p, l),
           l.pc \in Pcs \ {"exec", "plan", "commit", "sweep", "refuse"},
           l.pc = "pass" => l.frames # <<>>, l.late = Me(p).late
    PROVE  \E k : LocalEffect(p, k)
BY MineTyped DEF LocalEffect, Become

\* Refuse, failNode, the skip and the park.
LEMMA WritesEffect ==
    ASSUME FlowInv, NEW w \in Workers, Refuse(w) \/ Fail(w) \/ Skip(w) \/ Park(w)
    PROVE  Effect(w)
<1>0. TypeOK /\ w \in Procs
  BY DEF FlowInv, Procs
<1>1. /\ Me(w) \in Locals /\ Me(w) = proc[w] /\ Me(w).node \in Nodes
      /\ Me(w).ports \in SUBSET Ports
  BY <1>0, MineTyped DEF Locals
<1>2. {"cancelled", "failed", "skipped", "awaiting"} \subseteq JobStatuses /\ {} \in SUBSET Ports
  BY DEF JobStatuses, TerminalStatuses, OpenStatuses
<1>3. CASE Refuse(w)
  BY <1>0, <1>1, <1>2, <1>3, WriteAndGoEffect, IdleEffect DEF Refuse
<1>4. CASE Fail(w)
  <2> DEFINE l == [Me(w) EXCEPT !.pc = "advance", !.status = "failed"]
  <2>1. l \in Locals /\ l.pc = "advance" /\ l.late = Me(w).late
    BY <1>1, <1>2 DEF Locals, Pcs
  <2>2. Me(w).pc = "fail" /\ WriteAndGo(w, "failed", {}, l)
    BY <1>4 DEF Fail
  <2> HIDE DEF l
  <2>3. Become(w, l) => \E k : LocalEffect(w, k)
    BY <1>0, <2>1, OnwardEffect DEF Pcs
  <2>4. QED
    BY <1>2, <2>2, <2>3, WriteAndGoEffect
<1>5. CASE Skip(w)
  <2> DEFINE l == [Me(w) EXCEPT !.pc = "pass", !.status = "skipped", !.frames = Pass(Me(w).node)]
  <2>1. l \in Locals /\ l.pc = "pass" /\ l.late = Me(w).late /\ l.frames # <<>>
    BY <1>1, <1>2, PassTyped DEF Locals, Pcs
  <2>2. Me(w).pc = "skip" /\ WriteAndGo(w, "skipped", {}, l)
    BY <1>5 DEF Skip
  <2> HIDE DEF l
  <2>3. Become(w, l) => \E k : LocalEffect(w, k)
    BY <1>0, <2>1, OnwardEffect DEF Pcs
  <2>4. QED
    BY <1>2, <2>2, <2>3, WriteAndGoEffect
<1>6. CASE Park(w)
  <2> DEFINE l == [Me(w) EXCEPT !.pc = "setParked"]
  <2>1. l \in Locals /\ l.pc = "setParked" /\ l.late = Me(w).late
    BY <1>1 DEF Locals, Pcs
  <2>2. Me(w).pc = "park" /\ WriteAndGo(w, "awaiting", Me(w).ports, l)
    BY <1>6 DEF Park
  <2> HIDE DEF l
  <2>3. Become(w, l) => \E k : LocalEffect(w, k)
    BY <1>0, <2>1, OnwardEffect DEF Pcs
  <2>4. QED
    BY <1>1, <1>2, <2>2, <2>3, WriteAndGoEffect
<1>7. QED
  BY <1>3, <1>4, <1>5, <1>6

\* The parked flag never touches an ended run.
LEMMA SetParkedEffect ==
    ASSUME FlowInv, NEW w \in Workers, SetParked(w)
    PROVE  Effect(w)
<1>0. TypeOK /\ w \in Procs /\ "advance" \in Pcs
  BY DEF FlowInv, Procs, Pcs
<1>1. \E l : LocalEffect(w, l)
  BY <1>0, GotoEffect DEF SetParked
<1>2. RunEffect
  BY <1>0 DEF SetParked, RunEffect, TypeOK, RunEnded, IsTerminalStatus, TerminalStatuses, RunStatuses
<1>3. QED
  BY <1>0, <1>1, <1>2, Unchanged DEF SetParked, Effect

\* What follows a commit: nothing, a second look, or the completion check.
LEMMA AfterCommitEffect ==
    ASSUME FlowInv, NEW w \in Workers, NEW ended \in BOOLEAN, NEW enqueued \in BOOLEAN,
           Become(w, AfterCommit(w, ended, enqueued)), Me(w).pc = "commit"
    PROVE  \E l : LocalEffect(w, l)
<1>0. TypeOK /\ w \in Procs
  BY DEF FlowInv, Procs
<1>1. /\ Me(w) \in Locals /\ Me(w) = proc[w] /\ Me(w).node \in Nodes
      /\ Me(w).ports \in SUBSET Ports
  BY <1>0, MineTyped DEF Locals
<1>2. CASE AfterCommit(w, ended, enqueued) = Idle
  BY <1>0, <1>2, IdleEffect
<1> DEFINE ix == [NoIndex EXCEPT ![Me(w).node] = Outcome(Me(w).status, Me(w).ports)]
           again == [Me(w) EXCEPT !.pc = "pass", !.frames = Pass(Me(w).node), !.enq = enqueued,
                                  !.index = ix]
           check == [Me(w) EXCEPT !.pc = "complete"]
<1>3. CASE AfterCommit(w, ended, enqueued) = again
  <2>1. Me(w).status \in {"succeeded", "failed"}
    BY <1>0, <1>1 DEF FlowInv, OutcomeToCommit
  <2>2. Outcome(Me(w).status, Me(w).ports) \in Seens
    BY <1>1, <2>1 DEF Outcome, Seens, JobStatuses, TerminalStatuses
  <2>3. ix \in [Nodes -> Seens]
    BY <2>2, IdleTyped
  <2> HIDE DEF ix
  <2>4. again \in Locals /\ again.pc = "pass" /\ again.late = Me(w).late /\ again.frames # <<>>
    BY <1>1, <2>3, PassTyped DEF Locals, Pcs
  <2> HIDE DEF again
  <2>5. QED
    BY <1>0, <1>3, <2>4, OnwardEffect DEF Pcs
<1>4. CASE AfterCommit(w, ended, enqueued) = check
  <2>1. check \in Locals /\ check.pc = "complete" /\ check.late = Me(w).late
    BY <1>1 DEF Locals, Pcs
  <2> HIDE DEF check
  <2>2. QED
    BY <1>0, <1>4, <2>1, OnwardEffect DEF Pcs
<1>5. QED
  BY <1>2, <1>3, <1>4 DEF AfterCommit

\* CompleteAndEnqueue closes its own open record and adds only new ones.
LEMMA CommittedEffect ==
    ASSUME FlowInv, NEW w \in Workers, Me(w).pc = "commit", MayWrite(w, Me(w).status),
           recs' = Committed(w)
    PROVE  RecsEffect(w)
<1>0. TypeOK /\ w \in Procs
  BY DEF FlowInv, Procs
<1>1. /\ Me(w) \in Locals /\ Me(w) = proc[w] /\ Me(w).node \in Nodes
      /\ Me(w).ports \in SUBSET Ports /\ MyRec(w) = recs[Me(w).node]
  BY <1>0, MineTyped DEF Locals
<1>2. Me(w).status \in {"succeeded", "failed"}
  BY <1>0, <1>1 DEF FlowInv, OutcomeToCommit
<1>3. ~Closed(Me(w).node)
  BY <1>1 DEF MayWrite, CompleteAllowed, Closed
<1>4. NodeRec("queued") \in NodeRecs /\ NodeRec("queued").status = "queued"
  BY DEF NodeRec, NodeRecs, JobStatuses, OpenStatuses
<1>5. [recs[Me(w).node] EXCEPT !.status = Me(w).status, !.ports = Me(w).ports] \in NodeRecs
  <2>1. recs[Me(w).node] \in NodeRecs
    BY <1>0, <1>1 DEF TypeOK
  <2>2. Me(w).status \in JobStatuses
    BY <1>2 DEF JobStatuses, TerminalStatuses
  <2>3. QED BY <1>1, <2>1, <2>2 DEF NodeRecs
<1>6. [recs[Me(w).node] EXCEPT !.status = Me(w).status, !.ports = Me(w).ports].status = Me(w).status
  BY <1>0, <1>1 DEF TypeOK, NodeRecs
<1>7. \A m \in Nodes : m \in Fresh(Me(w).deps) => ~Closed(m)
  BY DEF Fresh, Closed, IsTerminalStatus, TerminalStatuses
<1>8. \A m \in Nodes :
        \/ m = Me(w).node
           /\ recs'[m] = [recs[Me(w).node] EXCEPT !.status = Me(w).status, !.ports = Me(w).ports]
        \/ m # Me(w).node /\ m \in Fresh(Me(w).deps) /\ recs'[m] = NodeRec("queued")
        \/ m # Me(w).node /\ recs'[m] = recs[m]
  BY DEF Committed
<1>9. recs' \in [Nodes -> NodeRecs]
  <2>1. recs' = [m \in Nodes |-> recs'[m]]
    BY DEF Committed
  <2>2. \A m \in Nodes : recs[m] \in NodeRecs
    BY <1>0 DEF TypeOK
  <2>3. \A m \in Nodes : recs'[m] \in NodeRecs
    BY <1>4, <1>5, <1>8, <2>2
  <2>4. QED
    BY <2>1, <2>3
<1>10. \A m \in Nodes : Closed(m) => recs'[m] = recs[m]
  BY <1>3, <1>7, <1>8
<1>11. \A m \in Nodes : recs'[m].status = "cancelled" => recs[m].status = "cancelled"
  BY <1>2, <1>4, <1>6, <1>8
<1>12. QED
  BY <1>9, <1>10, <1>11 DEF RecsEffect

\* The commit, applied or fenced off.
LEMMA CommitEffect ==
    ASSUME FlowInv, NEW w \in Workers, Commit(w)
    PROVE  Effect(w)
<1>0. TypeOK /\ w \in Procs
  BY DEF FlowInv, Procs
<1>1. CASE /\ MayWrite(w, Me(w).status)
           /\ recs' = Committed(w)
           /\ Become(w, AfterCommit(w, RunEnded, Fresh(Me(w).deps) # {}))
  <2>1. RunEnded \in BOOLEAN /\ (Fresh(Me(w).deps) # {}) \in BOOLEAN
    BY DEF RunEnded, IsTerminalStatus
  <2>2. \E l : LocalEffect(w, l)
    BY <1>1, <2>1, AfterCommitEffect DEF Commit
  <2>3. QED
    BY <1>0, <1>1, <2>2, CommittedEffect, Unchanged DEF Commit, Effect
<1>2. CASE ~MayWrite(w, Me(w).status) /\ Become(w, Idle) /\ UNCHANGED recs
  BY <1>0, <1>2, IdleEffect, Unchanged DEF Commit, Effect
<1>3. QED
  BY <1>1, <1>2 DEF Commit

\* A store error at the commit, applied or not, still closes no record twice.
LEMMA CommitErrorEffect ==
    ASSUME FlowInv, NEW w \in Workers, NEW applied \in BOOLEAN, CommitError(w, applied)
    PROVE  Effect(w)
<1>0. TypeOK /\ w \in Procs
  BY DEF FlowInv, Procs
<1>1. RecsEffect(w)
  <2>1. CASE applied
    BY <2>1, CommittedEffect DEF CommitError
  <2>2. CASE ~applied
    BY <1>0, <2>2, Unchanged DEF CommitError
  <2>3. QED
    BY <2>1, <2>2
<1>2. \E l : LocalEffect(w, l)
  BY AfterCommitEffect DEF CommitError
<1>3. OtherEffect
  BY <1>0, BudgetAssumption DEF CommitError, OtherEffect, TypeOK
<1>4. QED
  BY <1>0, <1>1, <1>2, <1>3, Unchanged DEF CommitError, Effect

-----------------------------------------------------------------------------
(* Advancing a run.                                                        *)

\* AdvanceAfterCompletion starts a pass, checks for completion or stops.
LEMMA AdvanceEffect ==
    ASSUME FlowInv, NEW p \in Procs, Advance(p)
    PROVE  Effect(p)
<1>0. TypeOK
  BY DEF FlowInv
<1>1. Me(p) \in Locals /\ Me(p).node \in Nodes
  BY <1>0, MineTyped
<1> DEFINE l == [Me(p) EXCEPT !.pc = "pass", !.frames = Pass(Me(p).node),
                             !.index = NoIndex, !.enq = FALSE]
<1>2. l \in Locals /\ l.pc = "pass" /\ l.frames # <<>> /\ l.late = Me(p).late
  BY <1>1, PassTyped, IdleTyped DEF Locals, Pcs
<1>3. Leave(p) \/ Become(p, l) \/ Goto(p, "complete")
  BY DEF Advance
<1> HIDE DEF l
<1>4. \E k : LocalEffect(p, k)
  <2>1. CASE Leave(p)
    BY <1>0, <2>1, LeaveEffect
  <2>2. CASE Become(p, l)
    BY <1>0, <1>2, <2>2, OnwardEffect DEF Pcs
  <2>3. CASE Goto(p, "complete")
    <3>1. "complete" \in Pcs
      BY DEF Pcs
    <3>2. QED
      BY <2>3, <3>1, GotoEffect
  <2>4. QED
    BY <1>3, <2>1, <2>2, <2>3
<1>5. QED
  BY <1>4, MoveEffect DEF Advance

\* The completion check at the end of a pass.
LEMMA CompleteEffect ==
    ASSUME FlowInv, NEW p \in Procs, Complete(p)
    PROVE  Effect(p)
<1>1. TypeOK
  BY DEF FlowInv
<1>2. RunEffect
  BY <1>1, MaybeCompleteEffect DEF Complete
<1>3. QED
  BY <1>1, <1>2, LeaveEffect, Unchanged DEF Complete, Effect

\* The end of a level of the pass, with the check recordSkippedIndexed makes.
LEMMA EndLevelEffect ==
    ASSUME FlowInv, NEW p \in Procs, EndLevel(p)
    PROVE  Effect(p)
<1>0. TypeOK
  BY DEF FlowInv
<1>1. /\ Me(p) \in Locals /\ Me(p) = proc[p]
      /\ Me(p).frames \in Seq([node : Nodes, left : SUBSET Nodes])
  BY <1>0, MineTyped DEF Locals
<1>2. CASE Len(Me(p).frames) > 1
  <2> DEFINE l == [Me(p) EXCEPT !.frames = Tail(@)]
  <2>1. /\ Tail(Me(p).frames) \in Seq([node : Nodes, left : SUBSET Nodes])
        /\ Tail(Me(p).frames) # <<>>
    BY <1>1, <1>2, FrameSeqs
  <2>2. l \in Locals /\ l.pc = "pass" /\ l.late = Me(p).late /\ l.frames # <<>>
    BY <1>1, <2>1 DEF Locals, EndLevel
  <2>3. Become(p, l) /\ RunEffect
    BY <1>0, <1>2, MaybeCompleteEffect DEF EndLevel
  <2> HIDE DEF l
  <2>4. \E k : LocalEffect(p, k)
    BY <1>0, <2>2, <2>3, OnwardEffect DEF Pcs
  <2>5. QED
    BY <1>0, <2>3, <2>4, Unchanged DEF EndLevel, Effect
<1>3. CASE ~(Len(Me(p).frames) > 1)
  <2> DEFINE l == [Me(p) EXCEPT !.pc = "complete", !.frames = <<>>,
                               !.index = NoIndex, !.enq = FALSE]
  <2>1. l \in Locals /\ l.pc = "complete" /\ l.late = Me(p).late
    BY <1>1, IdleTyped, FrameSeqs DEF Locals, Pcs
  <2>2. Leave(p) \/ Become(p, l)
    BY <1>3 DEF EndLevel
  <2> HIDE DEF l
  <2>3. \E k : LocalEffect(p, k)
    BY <1>0, <2>1, <2>2, OnwardEffect, LeaveEffect DEF Pcs
  <2>4. QED
    BY <1>3, <2>3, MoveEffect DEF EndLevel
<1>4. QED
  BY <1>2, <1>3

\* Visiting a dependent only adds a record where there was none.
LEMMA VisitDependentEffect ==
    ASSUME FlowInv, NEW p \in Procs, VisitDependent(p)
    PROVE  Effect(p)
<1> DEFINE Frame == [node : Nodes, left : SUBSET Nodes]
<1>0. TypeOK
  BY DEF FlowInv
<1>1. /\ Me(p) \in Locals /\ Me(p) = proc[p] /\ Me(p).pc = "pass"
      /\ Me(p).frames \in Seq(Frame) /\ Me(p).frames # <<>>
      /\ Me(p).index \in [Nodes -> Seens]
  BY <1>0, MineTyped DEF Locals, VisitDependent, FlowInv, PassHasFrame
<1>2. Head(Me(p).frames) \in Frame /\ Tail(Me(p).frames) \in Seq(Frame)
  <2> HIDE DEF Frame
  <2> QED BY <1>1, FrameSeqs
<1>3. PICK d \in Head(Me(p).frames).left : Visit(p, d)
  BY DEF VisitDependent
<1>4. d \in Nodes
  BY <1>2
<1> DEFINE frame == Head(Me(p).frames)
           index == [m \in Nodes |-> IF m \in ReadSet(p, d) THEN Seen(p, m) ELSE Me(p).index[m]]
           decision == analyzeDependent([m \in Nodes |-> Seen(p, m)], d)
           top == [frame EXCEPT !.left = @ \ {d}]
           rest == <<top>> \o Tail(Me(p).frames)
           isNew == recs[d].status = "absent"
           enq == Me(p).enq \/ Len(Me(p).frames) = 1
           index2 == [index EXCEPT ![d] = Outcome("skipped", {})]
<1>5. top \in Frame
  BY <1>2
<1>6. rest \in Seq(Frame) /\ rest # <<>>
  <2> HIDE DEF Frame, top
  <2> QED BY <1>2, <1>5, FrameSeqs
<1>7. Pass(d) \o rest \in Seq(Frame) /\ Pass(d) \o rest # <<>>
  <2>1. [node |-> d, left |-> Dependents(d)] \in Frame
    BY <1>4, GraphAssumption DEF Dependents, Outgoing
  <2> HIDE DEF Frame, rest
  <2>2. QED
    BY <1>6, <2>1, FrameSeqs DEF Pass
<1>8. index \in [Nodes -> Seens] /\ index2 \in [Nodes -> Seens]
  <2>1. \A m \in Nodes : Seen(p, m) \in Seens
    BY <1>0, <1>1 DEF Seen, Seens, Outcome, TypeOK, NodeRecs
  <2>2. index \in [Nodes -> Seens]
    BY <1>1, <2>1
  <2>3. Outcome("skipped", {}) \in Seens
    BY DEF Outcome, Seens, JobStatuses, TerminalStatuses
  <2> HIDE DEF index
  <2>4. QED
    BY <2>2, <2>3
<1>9. enq \in BOOLEAN
  BY <1>1 DEF Locals
<1>10. isNew => ~Closed(d)
  BY DEF Closed, IsTerminalStatus, TerminalStatuses
<1>11. /\ NodeRec("queued") \in NodeRecs /\ NodeRec("queued").status = "queued"
       /\ NodeRec("skipped") \in NodeRecs /\ NodeRec("skipped").status = "skipped"
  BY DEF NodeRec, NodeRecs, JobStatuses, OpenStatuses, TerminalStatuses
<1> DEFINE l1 == [Me(p) EXCEPT !.frames = rest, !.index = index, !.enq = enq]
           l2 == [Me(p) EXCEPT !.frames = Pass(d) \o rest, !.index = index2]
           l3 == [Me(p) EXCEPT !.frames = rest, !.index = index]
<1>12. \/ isNew /\ recs' = [recs EXCEPT ![d] = NodeRec("queued")] /\ Become(p, l1)
       \/ isNew /\ recs' = [recs EXCEPT ![d] = NodeRec("skipped")] /\ Become(p, l2)
       \/ recs' = recs /\ Become(p, l3)
  BY <1>1, <1>3 DEF Visit, Locals
<1> HIDE DEF index, index2, rest, enq, isNew
<1>13. /\ l1 \in Locals /\ l1.pc = "pass" /\ l1.frames # <<>> /\ l1.late = Me(p).late
       /\ l2 \in Locals /\ l2.pc = "pass" /\ l2.frames # <<>> /\ l2.late = Me(p).late
       /\ l3 \in Locals /\ l3.pc = "pass" /\ l3.frames # <<>> /\ l3.late = Me(p).late
  BY <1>1, <1>6, <1>7, <1>8, <1>9 DEF Locals
<1> HIDE DEF l1, l2, l3
<1>14. \E k : LocalEffect(p, k)
  BY <1>0, <1>12, <1>13, OnwardEffect DEF Pcs
<1>15. RecsEffect(p)
  <2>1. CASE isNew /\ recs' = [recs EXCEPT ![d] = NodeRec("queued")]
    BY <1>0, <1>4, <1>10, <1>11, <2>1, OneRecordEffect
  <2>2. CASE isNew /\ recs' = [recs EXCEPT ![d] = NodeRec("skipped")]
    BY <1>0, <1>4, <1>10, <1>11, <2>2, OneRecordEffect
  <2>3. CASE recs' = recs
    BY <1>0, <2>3, Unchanged
  <2>4. QED
    BY <1>12, <2>1, <2>2, <2>3
<1>16. QED
  BY <1>0, <1>14, <1>15, Unchanged DEF VisitDependent, Effect

-----------------------------------------------------------------------------
(* Decisions, cancels, the reaper, faults.                                 *)

\* A decision closes a parked record.
LEMMA ApproveEffect ==
    ASSUME FlowInv, NEW a \in Approvers, NEW n \in Nodes, NEW port \in {"approved", "rejected"},
           Approve(a, n, port)
    PROVE  Effect(a)
<1>0. TypeOK /\ a \in Procs /\ recs[n] \in NodeRecs
  BY DEF FlowInv, Procs, TypeOK
<1> DEFINE new == (recs[n].ports \ {"context"}) \cup {port, "approver", "comment"}
           r == [recs[n] EXCEPT !.status = "succeeded", !.ports = new]
           l == [Idle EXCEPT !.pc = "advance", !.node = n, !.status = "succeeded"]
<1>1. new \in SUBSET Ports
  BY <1>0 DEF NodeRecs, Ports, DecisionPorts
<1>2. recs' = [recs EXCEPT ![n] = r]
  BY <1>0 DEF Approve, TypeOK, NodeRecs
<1> HIDE DEF new
<1>3. r \in NodeRecs /\ r.status = "succeeded"
  BY <1>0, <1>1 DEF NodeRecs, JobStatuses, TerminalStatuses
<1>4. ~Closed(n)
  BY DEF Approve, Closed, IsTerminalStatus, TerminalStatuses
<1>5. l \in Locals /\ l.pc = "advance" /\ ~l.late
  BY IdleTyped DEF Locals, Pcs, JobStatuses, TerminalStatuses
<1>6. proc' = [proc EXCEPT ![a] = l]
  BY DEF Approve, Become
<1> HIDE DEF r, l
<1>7. RecsEffect(a)
  BY <1>0, <1>2, <1>3, <1>4, OneRecordEffect
<1>8. LocalEffect(a, l)
  BY <1>5, <1>6 DEF LocalEffect
<1>9. QED
  BY <1>0, <1>7, <1>8, Unchanged DEF Approve, Effect

\* Reading and clearing the parked flag never touches an ended run.
LEMMA ParkedFlagEffect ==
    ASSUME FlowInv, NEW a \in Approvers, AskParked(a) \/ Unpark(a)
    PROVE  Effect(a)
<1>0. TypeOK /\ a \in Procs /\ "unpark" \in Pcs
  BY DEF FlowInv, Procs, Pcs
<1>1. CASE AskParked(a)
  BY <1>0, <1>1, IdleEffect, GotoEffect, MoveEffect DEF AskParked
<1>2. CASE Unpark(a)
  <2>1. RunEffect
    BY <1>0, <1>2 DEF Unpark, RunEffect, TypeOK, RunEnded, IsTerminalStatus, TerminalStatuses, RunStatuses
  <2>2. QED
    BY <1>0, <1>2, <2>1, IdleEffect, Unchanged DEF Unpark, Effect
<1>3. QED
  BY <1>1, <1>2

\* A cancel ends an open run before it sweeps.
LEMMA CancelEffect ==
    ASSUME FlowInv, NEW c \in Cancellers, Cancel(c)
    PROVE  Effect(c)
<1>0. TypeOK /\ c \in Procs
  BY DEF FlowInv, Procs
<1> DEFINE l == [Idle EXCEPT !.pc = "sweep", !.sweep = Nodes]
<1>1. l \in Locals /\ l.pc = "sweep" /\ ~l.late
  BY IdleTyped DEF Locals, Pcs
<1>2. proc' = [proc EXCEPT ![c] = l]
  BY DEF Cancel, Become
<1>3. RunEnded' /\ RunEffect
  BY DEF Cancel, RunEffect, RunEnded, IsTerminalStatus, TerminalStatuses, RunStatuses
<1> HIDE DEF l
<1>4. LocalEffect(c, l)
  BY <1>1, <1>2, <1>3 DEF LocalEffect
<1>5. QED
  BY <1>0, <1>3, <1>4, Unchanged DEF Cancel, Effect

\* The sweep closes open records of an ended run.
LEMMA SweepNodeEffect ==
    ASSUME FlowInv, NEW c \in Cancellers, SweepNode(c)
    PROVE  Effect(c)
<1>0. TypeOK /\ c \in Procs
  BY DEF FlowInv, Procs
<1>1. Me(c) \in Locals /\ Me(c) = proc[c] /\ Me(c).sweep \in SUBSET Nodes
  BY <1>0, MineTyped DEF Locals
<1>2. PICK n \in Me(c).sweep :
        /\ recs' = IF recs[n].status \in OpenStatuses
                     THEN [recs EXCEPT ![n].status = "cancelled"] ELSE recs
        /\ Become(c, IF Me(c).sweep = {n} THEN Idle ELSE [Me(c) EXCEPT !.sweep = @ \ {n}])
  BY DEF SweepNode
<1>3. n \in Nodes /\ recs[n] \in NodeRecs
  BY <1>0, <1>1 DEF TypeOK
<1>4. RecsEffect(c)
  <2>1. CASE recs[n].status \in OpenStatuses
    <3> DEFINE r == [recs[n] EXCEPT !.status = "cancelled"]
    <3>1. r \in NodeRecs /\ r.status = "cancelled"
      BY <1>3 DEF NodeRecs, JobStatuses, TerminalStatuses
    <3>2. recs' = [recs EXCEPT ![n] = r]
      BY <1>0, <1>2, <1>3, <2>1 DEF TypeOK, NodeRecs
    <3>3. ~Closed(n)
      BY <2>1 DEF Closed, IsTerminalStatus, TerminalStatuses, OpenStatuses
    <3>4. proc[c].pc = "sweep"
      BY <1>1 DEF SweepNode
    <3> HIDE DEF r
    <3>5. QED
      BY <1>0, <1>3, <3>1, <3>2, <3>3, <3>4, OneRecordEffect
  <2>2. CASE recs[n].status \notin OpenStatuses
    BY <1>0, <1>2, <2>2, Unchanged
  <2>3. QED
    BY <2>1, <2>2
<1>5. \E l : LocalEffect(c, l)
  <2>1. CASE Become(c, Idle)
    BY <1>0, <2>1, IdleEffect
  <2> DEFINE l == [Me(c) EXCEPT !.sweep = @ \ {n}]
  <2>2. CASE Become(c, l)
    <3>1. l \in Locals /\ l.pc = "sweep" /\ l.late = Me(c).late
      BY <1>1 DEF Locals, SweepNode
    <3>2. RunEnded /\ RunEnded' = RunEnded
      BY <1>0, <1>1 DEF FlowInv, CancelAfterEnd, SweepNode, RunEnded
    <3> HIDE DEF l
    <3>3. LocalEffect(c, l)
      BY <1>1, <2>2, <3>1, <3>2 DEF LocalEffect, Become
    <3>4. QED
      BY <3>3
  <2>3. QED
    BY <1>2, <2>1, <2>2
<1>6. QED
  BY <1>0, <1>4, <1>5, Unchanged DEF SweepNode, Effect

\* The reaper finishes or abandons open runs only.
LEMMA ReapEffect ==
    ASSUME FlowInv, NEW r \in Reapers, Reap(r) \/ AbandonIfStuck(r)
    PROVE  Effect(r)
<1>0. TypeOK /\ r \in Procs /\ "abandon" \in Pcs
  BY DEF FlowInv, Procs, Pcs
<1>1. CASE Reap(r) /\ UNCHANGED proc
  <2>1. RunEffect
    BY <1>0, <1>1, VerdictEffect DEF Reap, RunEffect, TypeOK, RunStatuses
  <2>2. LocalEffect(r, proc[r])
    BY <1>0, <1>1, Unchanged
       DEF LocalEffect, FlowInv, TypeOK, PassHasFrame, OutcomeToCommit, CancelAfterEnd, Reap
  <2>3. QED
    BY <1>0, <1>1, <2>1, <2>2, Unchanged DEF Reap, Effect
<1>2. CASE Reap(r) /\ Goto(r, "abandon") /\ UNCHANGED run
  BY <1>0, <1>2, GotoEffect, MoveEffect DEF Reap
<1>3. CASE AbandonIfStuck(r)
  <2>1. RunEffect
    BY <1>0, <1>3 DEF AbandonIfStuck, RunEffect, TypeOK, RunStatuses
  <2>2. QED
    BY <1>0, <1>3, <2>1, IdleEffect, Unchanged DEF AbandonIfStuck, Effect
<1>4. QED
  BY <1>1, <1>2, <1>3 DEF Reap

\* A crash loses what the process remembered and nothing else.
LEMMA CrashEffect ==
    ASSUME FlowInv, NEW p \in Procs, Crash(p)
    PROVE  Effect(p)
<1>1. OtherEffect
  BY BudgetAssumption DEF Crash, OtherEffect, FlowInv, TypeOK
<1>2. QED
  BY <1>1, IdleEffect, Unchanged DEF Crash, Effect, FlowInv

-----------------------------------------------------------------------------
(* Putting the actions together.                                           *)

\* Every step but the passing of time has the three effects.
LEMMA StepEffect ==
    ASSUME FlowInv, Next
    PROVE  (\E p \in Procs : Effect(p)) \/ GrowOld
<1> USE DEF Procs
<1>1. ASSUME NEW w \in Workers, NEW n \in Nodes, Claim(w, n) \/ ClaimLapsed(w, n)
      PROVE  \E p \in Procs : Effect(p)
  BY <1>1, ClaimEffect
<1>2. ASSUME NEW w \in Workers, WorkerStep(w)
      PROVE  \E p \in Procs : Effect(p)
  BY <1>2, LoadRunEffect, LoseLeaseEffect, ExecuteEffect, RequeueEffect, WritesEffect,
     SetParkedEffect, PlanAdvanceEffect, CommitEffect DEF WorkerStep
<1>3. ASSUME NEW w \in Workers, NEW applied \in BOOLEAN, CommitError(w, applied)
      PROVE  \E p \in Procs : Effect(p)
  BY <1>3, CommitErrorEffect
<1>4. ASSUME NEW p \in Workers \cup Approvers, AdvanceStep(p)
      PROVE  \E q \in Procs : Effect(q)
  BY <1>4, AdvanceEffect, VisitDependentEffect, EndLevelEffect, CompleteEffect DEF AdvanceStep
<1>5. ASSUME NEW a \in Approvers,
             \/ \E n \in Nodes : \E port \in {"approved", "rejected"} : Approve(a, n, port)
             \/ AskParked(a) \/ Unpark(a)
      PROVE  \E p \in Procs : Effect(p)
  BY <1>5, ApproveEffect, ParkedFlagEffect
<1>6. ASSUME NEW c \in Cancellers, Cancel(c) \/ SweepNode(c)
      PROVE  \E p \in Procs : Effect(p)
  BY <1>6, CancelEffect, SweepNodeEffect
<1>7. ASSUME NEW r \in Reapers, Reap(r) \/ AbandonIfStuck(r)
      PROVE  \E p \in Procs : Effect(p)
  BY <1>7, ReapEffect
<1>8. ASSUME NEW p \in Procs, Crash(p)
      PROVE  \E q \in Procs : Effect(q)
  BY <1>8, CrashEffect
<1>9. QED
  BY <1>1, <1>2, <1>3, <1>4, <1>5, <1>6, <1>7, <1>8 DEF Next

\* A run right after submission satisfies the invariant.
LEMMA InitInv == Init => FlowInv
<1> SUFFICES ASSUME Init PROVE FlowInv
  OBVIOUS
<1>1. recs \in [Nodes -> NodeRecs] /\ \A n \in Nodes : recs[n].status \in {"queued", "absent"}
  BY DEF Init, NodeRec, NodeRecs, JobStatuses, OpenStatuses
<1>2. proc \in [Procs -> Locals] /\ \A p \in Procs : proc[p] = Idle
  BY IdleTyped DEF Init
<1>3. TypeOK
  <2>1. 0 \in 0 .. MaxCrashes /\ 0 \in 0 .. MaxLapses /\ 0 \in 0 .. MaxStoreErrors
    BY BudgetAssumption
  <2>2. faults \in [crash : 0 .. MaxCrashes, lapse : 0 .. MaxLapses, store : 0 .. MaxStoreErrors]
    BY <2>1 DEF Init
  <2>3. run \in RunStatuses /\ old \in BOOLEAN
    BY DEF Init, RunStatuses
  <2>4. QED
    BY <1>1, <1>2, <2>2, <2>3 DEF TypeOK
<1>4. PassHasFrame /\ OutcomeToCommit /\ LateIsRefused /\ CancelAfterEnd
  BY <1>1, <1>2, IdleTyped DEF PassHasFrame, OutcomeToCommit, LateIsRefused, CancelAfterEnd
<1>5. SuccessIsEarned
  BY DEF Init, SuccessIsEarned
<1>6. QED
  BY <1>3, <1>4, <1>5 DEF FlowInv

\* Every step preserves the invariant.
LEMMA StepInv == FlowInv /\ [Next]_vars => FlowInv'
<1> SUFFICES ASSUME FlowInv, [Next]_vars PROVE FlowInv'
  OBVIOUS
<1> USE DEF FlowInv, TypeOK, PassHasFrame, OutcomeToCommit, LateIsRefused, CancelAfterEnd,
            SuccessIsEarned, RunEnded, Closed, Failing
<1>1. CASE UNCHANGED vars
  BY <1>1 DEF vars
<1>2. CASE GrowOld
  BY <1>2 DEF GrowOld
<1>3. CASE Next
  BY <1>2, <1>3, StepEffect, FlowInvFromEffect
<1>4. QED
  BY <1>1, <1>3

\* The invariant the theorems below rest on.
THEOREM Invariance == Spec => []FlowInv
<1>1. QED
  BY InitInv, StepInv, PTL DEF Spec

\* The records, the verdict and what every process remembers keep their types:
\* a status is only ever one the job store knows, a pass only visits nodes of
\* the graph.
THEOREM FlowTypeCorrect == Spec => []TypeOK
<1>1. FlowInv => TypeOK
  BY DEF FlowInv
<1>2. QED
  BY <1>1, Invariance, PTL

\* For every graph and whatever lapses, crashes and store errors occur, a run is
\* declared succeeded (maybeCompleteGraph) only with every step closed, none
\* cancelled and no failure its graph does not tolerate; and that stays true.
THEOREM EarnedSuccess == Spec => []SuccessIsEarned
<1>1. FlowInv => SuccessIsEarned
  BY DEF FlowInv
<1>2. QED
  BY <1>1, Invariance, PTL

\* A node record claimed after its run ended is never executed (processNodeJob's
\* check of the run's status).
THEOREM LateNeverExecutes == Spec => []NoLateExecution
<1>1. FlowInv => NoLateExecution
  BY DEF FlowInv, LateIsRefused, NoLateExecution, Procs
<1>2. QED
  BY <1>1, Invariance, PTL

\* The verdict on a run and the outcome of a step are written once: whoever comes
\* second is refused by the terminal guard of Complete.
THEOREM FinalOutcomes == Spec => OutcomesAreFinal
<1> DEFINE Final == /\ RunEnded => run' = run
                    /\ \A n \in Nodes : Closed(n) => recs'[n] = recs[n]
<1>1. FlowInv /\ [Next]_vars => [Final]_vars
  <2> SUFFICES ASSUME FlowInv, Next PROVE Final
    OBVIOUS
  <2>1. CASE GrowOld
    BY <2>1 DEF GrowOld
  <2>2. CASE \E p \in Procs : Effect(p)
    BY <2>2 DEF Effect, RunEffect, RecsEffect
  <2>3. QED
    BY <2>1, <2>2, StepEffect
<1>2. QED
  BY <1>1, Invariance, PTL DEF Spec, OutcomesAreFinal

-----------------------------------------------------------------------------
(* Routing.  A step is recorded on the strength of what a pass or a plan   *)
(* has read of its predecessors, which may be old by then.  The argument:  *)
(* an outcome that was read is still the outcome, except that a parked     *)
(* step may have been decided or cancelled since.                          *)

Answered(st) == IsTerminalStatus(st) \/ st = "awaiting"

\* The record r may be what has become of a record once read as o.
Older(o, r) ==
    \/ r.status = o.status /\ r.ports = o.ports
    \/ ~Answered(o.status)
    \/ /\ o.status = "awaiting"
       /\ \/ r.status = "cancelled"
          \/ r.status = "succeeded" /\ o.ports \ {"context"} \subseteq r.ports

\* A parked step shows the ports its drop answered with.
AsAnswered(n, o) ==
    o.status = "awaiting" => \E b \in Behaviours[n] : b.status = "awaiting" /\ b.ports = o.ports

\* Where a worker still has the outcome of its record to write.
Writing == {"load", "exec", "requeue", "plan", "commit", "park", "skip", "refuse", "fail"}

\* A record with a holder has been claimed, and is open (or swept) until the
\* holder has written.
HolderWrites ==
    /\ \A n \in Nodes : recs[n].worker # Nobody => recs[n].attempt # 0 /\ recs[n].status # "absent"
    /\ \A w \in Workers : proc[w].pc \in Writing /\ recs[proc[w].node].worker = w =>
          recs[proc[w].node].status \in {"running", "cancelled"}

ParkedAsAnswered ==
    /\ \A n \in Nodes : AsAnswered(n, recs[n])
    /\ \A p \in Procs : \A n \in Nodes : AsAnswered(n, proc[p].index[n])
    /\ \A p \in Procs : proc[p].pc = "park" =>
          \E b \in Behaviours[proc[p].node] : b.status = "awaiting" /\ b.ports = proc[p].ports

\* What a pass has read of a record is an older state of it.
IndexIsOlder == \A p \in Procs : \A n \in Nodes : Older(proc[p].index[n], recs[n])

\* The steps a commit will enqueue wait for nobody else.
PlanIsSure ==
    \A p \in Procs : proc[p].pc = "commit" =>
        \A d \in proc[p].deps : \A m \in Preds(d) \ {proc[p].node} : Answered(recs[m].status)

\* A failure is on record before the run is judged by it.
FailureOnRecord ==
    /\ \A p \in Procs : proc[p].pc \in {"advance", "pass", "complete"} /\ proc[p].status = "failed" =>
          recs[proc[p].node].status = "failed"
    /\ \A p \in Procs : proc[p].pc \in {"park", "setParked"} => proc[p].status # "failed"

Clean == HolderWrites /\ ParkedAsAnswered /\ IndexIsOlder /\ PlanIsSure /\ FailureOnRecord

\* A wire that is live while its step is parked stays so when the step is decided:
\* it does not carry the "context" the decision takes off, and is not a fallback.
StablePorts ==
    \A i \in DOMAIN Edges : \A b \in Behaviours[Edges[i].from] :
        b.status = "awaiting" /\ Edges[i].port \in b.ports =>
            Edges[i].port # "context" /\ Edges[i].onError # "fallback"

\* In the view v every wire into n is settled, as long as its step is not cancelled.
EnqueueBy(v, n) ==
    /\ \A i \in Incoming(n) :
          \/ v[Edges[i].from].status = "cancelled"
          \/ /\ ~EdgeWaits(v[Edges[i].from], Edges[i])
             /\ classifyEdge(v[Edges[i].from], Edges[i]) \in {"active", "dormant"}
    /\ \E i \in Incoming(n) :
          \/ v[Edges[i].from].status = "cancelled"
          \/ classifyEdge(v[Edges[i].from], Edges[i]) = "active"

SkipBy(v, n) ==
    /\ \A i \in Incoming(n) : ~EdgeWaits(v[Edges[i].from], Edges[i])
    /\ \/ \E i \in Incoming(n) :
             \/ v[Edges[i].from].status = "cancelled"
             \/ classifyEdge(v[Edges[i].from], Edges[i]) \in {"blocking", "notRouted"}
       \/ \A i \in Incoming(n) : classifyEdge(v[Edges[i].from], Edges[i]) # "active"

\* Recorded as skipped by a pass, never claimed.
PassedOver(n) == recs[n].status = "skipped" /\ recs[n].attempt = 0

Routed ==
    \A n \in Nodes \ Roots : recs[n].status # "absent" =>
        IF PassedOver(n) THEN SkipBy(recs, n) ELSE EnqueueBy(recs, n)

\* What the plan of p was made from, as it stands now.
PlanView(p) == [recs EXCEPT ![proc[p].node] = Outcome(proc[p].status, proc[p].ports)]

PlanHolds == \A p \in Procs : proc[p].pc = "commit" => \A d \in proc[p].deps : EnqueueBy(PlanView(p), d)

-----------------------------------------------------------------------------
(* What a step of process p may do to a record.                            *)

Taken(p, n) ==
    /\ p \in Workers /\ recs[n].status \in {"queued", "running"}
    /\ recs'[n].status = "running" /\ recs'[n].worker = p /\ recs'[n].attempt # 0

Written(p, n) ==
    /\ p \in Workers /\ recs[n].worker = p /\ recs[n].status = "running"
    /\ recs'[n].attempt = recs[n].attempt /\ recs'[n].worker \in {p, Nobody}
    /\ recs'[n].status # "absent" /\ AsAnswered(n, recs'[n])

Added(n) == recs[n].status = "absent" /\ recs'[n] \in {NodeRec("queued"), NodeRec("skipped")}

Decided(n) ==
    /\ recs[n].status = "awaiting" /\ recs'[n].status = "succeeded"
    /\ recs[n].ports \ {"context"} \subseteq recs'[n].ports
    /\ recs'[n].worker = recs[n].worker /\ recs'[n].attempt = recs[n].attempt

Swept(n) ==
    /\ recs[n].status \in OpenStatuses /\ recs'[n].status = "cancelled"
    /\ recs'[n].worker = recs[n].worker /\ recs'[n].attempt = recs[n].attempt

RecMoves(p, n) ==
    recs'[n] = recs[n] \/ Taken(p, n) \/ Written(p, n) \/ Added(n) \/ Decided(n) \/ Swept(n)

\* What it may come to remember.
LocalMoves(p, l) ==
    /\ l \in Locals /\ proc' = [proc EXCEPT ![p] = l]
    /\ \A n \in Nodes : Older(l.index[n], recs'[n]) /\ AsAnswered(n, l.index[n])
    /\ l.pc \in Writing => \/ proc[p].pc \in Writing /\ l.node = proc[p].node /\ recs' = recs
                           \/ recs'[l.node].status = "running"
    /\ l.pc = "park" => \E b \in Behaviours[l.node] : b.status = "awaiting" /\ b.ports = l.ports
    /\ l.pc = "commit" => \A d \in l.deps : \A m \in Preds(d) \ {l.node} : Answered(recs'[m].status)
    /\ l.pc \in {"advance", "pass", "complete"} /\ l.status = "failed" => recs'[l.node].status = "failed"
    /\ l.pc \in {"park", "setParked"} => l.status # "failed"

Moves(p, l) == LocalMoves(p, l) /\ \A n \in Nodes : RecMoves(p, n)

\* A record only goes on.
LEMMA RecordAges ==
    ASSUME NEW p, NEW n, RecMoves(p, n)
    PROVE  Older(recs[n], recs'[n])
BY DEF RecMoves, Older, Taken, Written, Added, Decided, Swept, Answered, IsTerminalStatus, TerminalStatuses,
       OpenStatuses

\* An old reading of a record stays an old reading.
LEMMA OlderStill ==
    ASSUME NEW o, NEW r, NEW s, Older(o, r), Older(r, s)
    PROVE  Older(o, s)
BY DEF Older, Answered, IsTerminalStatus, TerminalStatuses

\* What has answered has still answered later.
LEMMA AnsweredStays ==
    ASSUME NEW o, NEW r, Older(o, r), Answered(o.status)
    PROVE  Answered(r.status)
BY DEF Older, Answered, IsTerminalStatus, TerminalStatuses

\* A step that moves as described keeps what the passes and plans rely on.
LEMMA CleanStep ==
    ASSUME TypeOK, TypeOK', Clean, NEW p \in Procs, NEW l, Moves(p, l)
    PROVE  Clean'
<1>0. /\ proc'[p] = l /\ \A q \in Procs : q # p => proc'[q] = proc[q]
      /\ \A q \in Procs : proc[q] \in Locals /\ proc[q].node \in Nodes /\ proc[q].deps \subseteq Nodes
      /\ l \in Locals /\ l.node \in Nodes
  BY DEF TypeOK, Moves, LocalMoves, Locals
<1>1. \A n \in Nodes : RecMoves(p, n) /\ Older(recs[n], recs'[n])
  BY RecordAges DEF Moves
<1>2. HolderWrites'
  <2>1. ASSUME NEW n \in Nodes, recs'[n].worker # Nobody PROVE recs'[n].attempt # 0 /\ recs'[n].status # "absent"
    BY <1>1, <2>1, ProcAssumption
       DEF Clean, HolderWrites, RecMoves, Taken, Written, Added, Decided, Swept, NodeRec
  <2>2. ASSUME NEW w \in Workers, proc'[w].pc \in Writing, recs'[proc'[w].node].worker = w
        PROVE  recs'[proc'[w].node].status \in {"running", "cancelled"}
    <3>0. w \in Procs
      BY DEF Procs
    <3>1. CASE w # p
      <4> DEFINE n == proc[w].node
      <4>1. proc'[w] = proc[w] /\ n \in Nodes /\ RecMoves(p, n)
        BY <1>0, <1>1, <3>0, <3>1
      <4>2. recs[n].worker = w => recs[n].status \in {"running", "cancelled"}
        BY <2>2, <4>1 DEF Clean, HolderWrites
      <4> HIDE DEF n
      <4>3. recs'[n].worker = w
        BY <2>2, <4>1 DEF n
      <4>4. recs'[n].status \in {"running", "cancelled"}
        BY <3>1, <4>1, <4>2, <4>3, ProcAssumption DEF RecMoves, Taken, Written, Added, Decided, Swept, NodeRec
      <4> QED BY <4>1, <4>4 DEF n
    <3>2. CASE w = p
      BY <1>0, <2>2, <3>2 DEF Moves, LocalMoves, Clean, HolderWrites
    <3> QED BY <3>1, <3>2
  <2> QED BY <2>1, <2>2 DEF HolderWrites
<1>3. ParkedAsAnswered'
  <2>1. ASSUME NEW n \in Nodes PROVE AsAnswered(n, recs'[n])
    <3>1. AsAnswered(n, recs[n])
      BY DEF Clean, ParkedAsAnswered
    <3> QED BY <1>1, <3>1 DEF RecMoves, Taken, Written, Added, Decided, Swept, NodeRec, AsAnswered
  <2>2. \A q \in Procs : \A n \in Nodes : AsAnswered(n, proc'[q].index[n])
    BY <1>0 DEF Clean, ParkedAsAnswered, Moves, LocalMoves
  <2>3. \A q \in Procs : proc'[q].pc = "park" =>
          \E b \in Behaviours[proc'[q].node] : b.status = "awaiting" /\ b.ports = proc'[q].ports
    BY <1>0 DEF Clean, ParkedAsAnswered, Moves, LocalMoves
  <2> QED BY <2>1, <2>2, <2>3 DEF ParkedAsAnswered, AsAnswered
<1>4. IndexIsOlder'
  <2>1. ASSUME NEW q \in Procs, NEW n \in Nodes PROVE Older(proc'[q].index[n], recs'[n])
    <3>1. CASE q # p
      <4>1. Older(proc[q].index[n], recs[n]) /\ Older(recs[n], recs'[n]) /\ proc'[q] = proc[q]
        BY <1>0, <1>1, <3>1 DEF Clean, IndexIsOlder
      <4> QED BY <4>1, OlderStill
    <3>2. CASE q = p
      BY <1>0, <3>2 DEF Moves, LocalMoves
    <3> QED BY <3>1, <3>2
  <2> QED BY <2>1 DEF IndexIsOlder, Older
<1>5. PlanIsSure'
  <2>1. ASSUME NEW q \in Procs, proc'[q].pc = "commit", NEW d \in proc'[q].deps, NEW m \in Preds(d) \ {proc'[q].node}
        PROVE  Answered(recs'[m].status)
    <3>1. CASE q # p
      <4>1. proc'[q] = proc[q]
        BY <1>0, <3>1
      <4>2. Answered(recs[m].status) /\ m \in Nodes
        BY <2>1, <4>1, GraphAssumption DEF Clean, PlanIsSure, Preds, Incoming
      <4> QED BY <1>1, <4>2, AnsweredStays
    <3>2. CASE q = p
      BY <1>0, <2>1, <3>2 DEF Moves, LocalMoves
    <3> QED BY <3>1, <3>2
  <2> QED BY <2>1 DEF PlanIsSure, Answered
<1>6. FailureOnRecord'
  <2>1. ASSUME NEW q \in Procs, proc'[q].pc \in {"advance", "pass", "complete"}, proc'[q].status = "failed"
        PROVE  recs'[proc'[q].node].status = "failed"
    <3>1. CASE q # p
      <4>1. proc'[q] = proc[q] /\ proc[q].node \in Nodes
        BY <1>0, <3>1
      <4>2. recs[proc[q].node].status = "failed"
        BY <2>1, <4>1 DEF Clean, FailureOnRecord
      <4>3. Older(recs[proc[q].node], recs'[proc[q].node])
        BY <1>1, <4>1
      <4> QED BY <4>1, <4>2, <4>3 DEF Older, Answered, IsTerminalStatus, TerminalStatuses
    <3>2. CASE q = p
      BY <1>0, <2>1, <3>2 DEF Moves, LocalMoves
    <3> QED BY <3>1, <3>2
  <2>2. \A q \in Procs : proc'[q].pc \in {"park", "setParked"} => proc'[q].status # "failed"
    BY <1>0 DEF Clean, FailureOnRecord, Moves, LocalMoves
  <2> QED BY <2>1, <2>2 DEF FailureOnRecord
<1> QED BY <1>2, <1>3, <1>4, <1>5, <1>6 DEF Clean

\* A settled wire stays settled the same way, unless its step is cancelled.
LEMMA WireAges ==
    ASSUME StablePorts, NEW i \in DOMAIN Edges, NEW o, NEW r, Older(o, r), AsAnswered(Edges[i].from, o),
           ~EdgeWaits(o, Edges[i])
    PROVE  /\ ~EdgeWaits(r, Edges[i])
           /\ r.status = "cancelled" \/ classifyEdge(r, Edges[i]) = classifyEdge(o, Edges[i])
           /\ o.status = "cancelled" => r.status = "cancelled"
<1> DEFINE e == Edges[i]
<1>1. o.status \in TerminalStatuses \/ o.status = "awaiting"
  BY DEF EdgeWaits, IsTerminalStatus
<1>2. CASE r.status = o.status /\ r.ports = o.ports
  BY <1>2 DEF EdgeWaits, classifyEdge
<1>3. CASE o.status = "awaiting" /\ r.status = "cancelled"
  BY <1>3 DEF EdgeWaits, IsTerminalStatus, TerminalStatuses
<1>4. CASE o.status = "awaiting" /\ r.status = "succeeded" /\ o.ports \ {"context"} \subseteq r.ports
  <2>1. e.port # PassPort /\ e.port \in o.ports
    BY <1>4 DEF EdgeWaits, classifyEdge
  <2>2. e.port # "context" /\ e.onError # "fallback"
    BY <1>4, <2>1 DEF StablePorts, AsAnswered
  <2>3. e.port \in r.ports
    BY <1>4, <2>1, <2>2
  <2>4. classifyEdge(o, e) = "active" /\ classifyEdge(r, e) = "active"
    BY <1>4, <2>1, <2>2, <2>3 DEF classifyEdge
  <2> QED BY <1>4, <2>4 DEF EdgeWaits, IsTerminalStatus, TerminalStatuses
<1> QED BY <1>1, <1>2, <1>3, <1>4 DEF Older, Answered, IsTerminalStatus

\* A decision taken on an old view still holds.
LEMMA ViewAges ==
    ASSUME StablePorts, NEW v, NEW u, NEW n, \A m \in Nodes : Older(v[m], u[m]) /\ AsAnswered(m, v[m])
    PROVE  /\ EnqueueBy(v, n) => EnqueueBy(u, n)
           /\ SkipBy(v, n) => SkipBy(u, n)
<1> DEFINE o(i) == v[Edges[i].from]
           r(i) == u[Edges[i].from]
<1>1. ASSUME NEW i \in Incoming(n)
      PROVE  /\ ~EdgeWaits(o(i), Edges[i]) =>
                   /\ ~EdgeWaits(r(i), Edges[i])
                   /\ r(i).status = "cancelled" \/ classifyEdge(r(i), Edges[i]) = classifyEdge(o(i), Edges[i])
             /\ o(i).status = "cancelled" => r(i).status = "cancelled" /\ ~EdgeWaits(o(i), Edges[i])
  <2>1. i \in DOMAIN Edges /\ Edges[i].from \in Nodes
    BY GraphAssumption DEF Incoming
  <2>2. Older(o(i), r(i)) /\ AsAnswered(Edges[i].from, o(i))
    BY <2>1
  <2>3. o(i).status = "cancelled" => ~EdgeWaits(o(i), Edges[i])
    BY DEF EdgeWaits, IsTerminalStatus, TerminalStatuses
  <2> HIDE DEF o, r
  <2> QED BY <2>1, <2>2, <2>3, WireAges
<1>2. ASSUME NEW i \in Incoming(n), classifyEdge(o(i), Edges[i]) = "active" PROVE ~EdgeWaits(o(i), Edges[i])
  <2> HIDE DEF o
  <2> QED BY <1>2 DEF EdgeWaits, classifyEdge, IsTerminalStatus, TerminalStatuses
<1>3. EnqueueBy(v, n) => EnqueueBy(u, n)
  <2> SUFFICES ASSUME EnqueueBy(v, n) PROVE EnqueueBy(u, n)
    OBVIOUS
  <2>1. \A i \in Incoming(n) : \/ o(i).status = "cancelled"
                               \/ ~EdgeWaits(o(i), Edges[i]) /\ classifyEdge(o(i), Edges[i]) \in {"active", "dormant"}
    BY DEF EnqueueBy
  <2>2. PICK j \in Incoming(n) : o(j).status = "cancelled" \/ classifyEdge(o(j), Edges[j]) = "active"
    BY DEF EnqueueBy
  <2> HIDE DEF o, r
  <2>3. \A i \in Incoming(n) : \/ r(i).status = "cancelled"
                               \/ ~EdgeWaits(r(i), Edges[i]) /\ classifyEdge(r(i), Edges[i]) \in {"active", "dormant"}
    BY <1>1, <2>1
  <2>4. r(j).status = "cancelled" \/ classifyEdge(r(j), Edges[j]) = "active"
    BY <1>1, <1>2, <2>2
  <2> QED BY <2>3, <2>4 DEF EnqueueBy, r
<1>4. SkipBy(v, n) => SkipBy(u, n)
  <2> SUFFICES ASSUME SkipBy(v, n) PROVE SkipBy(u, n)
    OBVIOUS
  <2>1. \A i \in Incoming(n) : ~EdgeWaits(o(i), Edges[i])
    BY DEF SkipBy
  <2>2. \/ \E i \in Incoming(n) : o(i).status = "cancelled" \/ classifyEdge(o(i), Edges[i]) \in {"blocking", "notRouted"}
        \/ \A i \in Incoming(n) : classifyEdge(o(i), Edges[i]) # "active"
    BY DEF SkipBy
  <2> HIDE DEF o, r
  <2>3. \A i \in Incoming(n) : ~EdgeWaits(r(i), Edges[i])
    BY <1>1, <2>1
  <2>4. \/ \E i \in Incoming(n) : r(i).status = "cancelled" \/ classifyEdge(r(i), Edges[i]) \in {"blocking", "notRouted"}
        \/ \A i \in Incoming(n) : classifyEdge(r(i), Edges[i]) # "active"
    BY <1>1, <2>1, <2>2
  <2> QED BY <2>3, <2>4 DEF SkipBy, r
<1> QED BY <1>3, <1>4

\* The four ways a wire is read.
LEMMA WireIs ==
    ASSUME NEW o, NEW e
    PROVE  classifyEdge(o, e) \in {"active", "dormant", "blocking", "notRouted"}
BY DEF classifyEdge

\* The two readings of a view agree with analyzeDependentIndexed.
LEMMA AnalysisIs ==
    ASSUME NEW v, NEW n
    PROVE  /\ analyzeDependent(v, n) = "enqueue" => EnqueueBy(v, n)
           /\ analyzeDependent(v, n) = "skipped" => SkipBy(v, n)
           /\ analyzeDependent(v, n) \in {"enqueue", "skipped", "waiting"}
           /\ (\A m \in Preds(n) : v[m].status # "cancelled") =>
                 /\ EnqueueBy(v, n) => analyzeDependent(v, n) = "enqueue"
                 /\ SkipBy(v, n) => analyzeDependent(v, n) = "skipped"
<1> DEFINE class(i) == classifyEdge(v[Edges[i].from], Edges[i])
           waits(i) == EdgeWaits(v[Edges[i].from], Edges[i])
           gone(i) == v[Edges[i].from].status = "cancelled"
<1>1. \A i : class(i) \in {"active", "dormant", "blocking", "notRouted"}
  BY WireIs
<1>2. analyzeDependent(v, n) = IF \E i \in Incoming(n) : waits(i) THEN "waiting"
                               ELSE IF \/ \E i \in Incoming(n) : class(i) \in {"blocking", "notRouted"}
                                       \/ \A i \in Incoming(n) : class(i) # "active"
                                 THEN "skipped" ELSE "enqueue"
  BY DEF analyzeDependent
<1>3. /\ EnqueueBy(v, n) <=> /\ \A i \in Incoming(n) : gone(i) \/ (~waits(i) /\ class(i) \in {"active", "dormant"})
                             /\ \E i \in Incoming(n) : gone(i) \/ class(i) = "active"
      /\ SkipBy(v, n) <=> /\ \A i \in Incoming(n) : ~waits(i)
                          /\ \/ \E i \in Incoming(n) : gone(i) \/ class(i) \in {"blocking", "notRouted"}
                             \/ \A i \in Incoming(n) : class(i) # "active"
  BY DEF EnqueueBy, SkipBy
<1>4. (\A m \in Preds(n) : v[m].status # "cancelled") => \A i \in Incoming(n) : ~gone(i)
  BY DEF Preds
<1> HIDE DEF class, waits, gone
<1> QED BY <1>1, <1>2, <1>3, <1>4

\* A view that is not waiting has an answer of every predecessor.
LEMMA NotWaiting ==
    ASSUME NEW v, NEW n, analyzeDependent(v, n) # "waiting"
    PROVE  \A m \in Preds(n) : Answered(v[m].status)
<1> SUFFICES ASSUME NEW i \in Incoming(n) PROVE Answered(v[Edges[i].from].status)
  BY DEF Preds
<1>1. ~EdgeWaits(v[Edges[i].from], Edges[i])
  BY DEF analyzeDependent
<1> QED BY <1>1 DEF EdgeWaits, Answered

\* The records a step adds, and the plan it makes, follow the wires.
Justified(p, l) ==
    /\ \A n \in Nodes : Added(n) =>
          IF recs'[n] = NodeRec("skipped") THEN SkipBy(recs', n) ELSE EnqueueBy(recs', n)
    /\ l.pc = "commit" => \A d \in l.deps : EnqueueBy([recs' EXCEPT ![l.node] = Outcome(l.status, l.ports)], d)

\* Such a step keeps the routing.
LEMMA RoutedStep ==
    ASSUME StablePorts, FlowInv, TypeOK', Clean, Routed, PlanHolds, NEW p \in Procs, NEW l, Moves(p, l), Justified(p, l)
    PROVE  Routed' /\ PlanHolds'
<1>0. TypeOK /\ l \in Locals /\ proc'[p] = l /\ \A q \in Procs : q # p => proc'[q] = proc[q]
  BY DEF FlowInv, TypeOK, Moves, LocalMoves
<1>1. \A n \in Nodes : RecMoves(p, n) /\ Older(recs[n], recs'[n]) /\ AsAnswered(n, recs[n])
  BY RecordAges DEF Moves, Clean, ParkedAsAnswered
<1>2. Routed'
  <2>1. ASSUME NEW n \in Nodes \ Roots, recs'[n].status # "absent"
        PROVE  IF PassedOver(n)' THEN SkipBy(recs', n) ELSE EnqueueBy(recs', n)
    <3>1. CASE Added(n)
      <4>1. CASE recs'[n] = NodeRec("skipped")
        BY <3>1, <4>1 DEF Justified, PassedOver, NodeRec
      <4>2. CASE recs'[n] = NodeRec("queued")
        BY <3>1, <4>2 DEF Justified, PassedOver, NodeRec
      <4> QED BY <3>1, <4>1, <4>2 DEF Added
    <3>2. CASE ~Added(n)
      <4>1. recs[n].status # "absent" /\ (PassedOver(n)' <=> PassedOver(n))
        BY <1>1, <2>1, <3>2, ProcAssumption
           DEF RecMoves, Taken, Written, Decided, Swept, PassedOver, Clean, HolderWrites, OpenStatuses
      <4>2. IF PassedOver(n) THEN SkipBy(recs, n) ELSE EnqueueBy(recs, n)
        BY <4>1 DEF Routed
      <4>3. (SkipBy(recs, n) => SkipBy(recs', n)) /\ (EnqueueBy(recs, n) => EnqueueBy(recs', n))
        BY <1>1, ViewAges
      <4> QED BY <4>1, <4>2, <4>3
    <3> QED BY <3>1, <3>2
  <2> QED BY <2>1 DEF Routed, SkipBy, EnqueueBy
<1>3. PlanHolds'
  <2>1. ASSUME NEW q \in Procs, proc'[q].pc = "commit", NEW d \in proc'[q].deps
        PROVE  EnqueueBy([recs' EXCEPT ![proc'[q].node] = Outcome(proc'[q].status, proc'[q].ports)], d)
    <3>1. CASE q # p
      <4> DEFINE k == proc[q].node
                 o == Outcome(proc[q].status, proc[q].ports)
                 v == [recs EXCEPT ![k] = o]
                 u == [recs' EXCEPT ![k] = o]
      <4>1. proc'[q] = proc[q] /\ k \in Nodes /\ recs \in [Nodes -> NodeRecs] /\ recs' \in [Nodes -> NodeRecs]
        BY <1>0, <3>1 DEF TypeOK, Locals
      <4>2. EnqueueBy(v, d)
        BY <2>1, <4>1 DEF PlanHolds, PlanView
      <4>3. AsAnswered(k, o)
        BY <2>1, <4>1 DEF FlowInv, OutcomeToCommit, AsAnswered, Outcome
      <4>4. ASSUME NEW m \in Nodes PROVE Older(v[m], u[m]) /\ AsAnswered(m, v[m])
        <5>1. CASE m = k
          <6>1. v[m] = o /\ u[m] = o
            BY <4>1, <5>1
          <6> HIDE DEF v, u, o
          <6> QED BY <4>3, <5>1, <6>1 DEF Older
        <5>2. CASE m # k
          <6>1. v[m] = recs[m] /\ u[m] = recs'[m]
            BY <4>1, <5>2
          <6> HIDE DEF v, u
          <6> QED BY <1>1, <6>1
        <5> QED BY <5>1, <5>2
      <4> HIDE DEF v, u
      <4>5. EnqueueBy(u, d)
        BY <4>2, <4>4, ViewAges
      <4> QED BY <4>1, <4>5 DEF u
    <3>2. CASE q = p
      BY <1>0, <2>1, <3>2 DEF Justified
    <3> QED BY <3>1, <3>2
  <2> QED BY <2>1 DEF PlanHolds, PlanView, EnqueueBy
<1> QED BY <1>2, <1>3

-----------------------------------------------------------------------------
(* Every action moves like that.                                           *)

Goes(p) == \E l : Moves(p, l) /\ (StablePorts /\ PlanHolds => Justified(p, l))

\* Nothing read is older than everything.
LEMMA UnreadIsOld ==
    /\ \A n \in Nodes : NoIndex[n] = Unread
    /\ \A n, r : Older(Unread, r) /\ AsAnswered(n, Unread)
BY DEF NoIndex, Unread, Outcome, Older, AsAnswered, Answered, IsTerminalStatus, TerminalStatuses

\* The pieces of a move that makes no plan.
LEMMA GoesOn ==
    ASSUME Clean, NEW p \in Procs, NEW l \in Locals, proc' = [proc EXCEPT ![p] = l],
           \A n \in Nodes : RecMoves(p, n),
           \A n \in Nodes : \/ l.index[n] = proc[p].index[n] \/ l.index[n] = Unread
                            \/ Older(l.index[n], recs'[n]) /\ AsAnswered(n, l.index[n]),
           l.pc \notin {"park", "commit"}, l.pc = "setParked" => l.status # "failed",
           l.pc \in Writing => \/ proc[p].pc \in Writing /\ l.node = proc[p].node /\ recs' = recs
                               \/ recs'[l.node].status = "running",
           l.pc \in {"advance", "pass", "complete"} /\ l.status = "failed" => recs'[l.node].status = "failed",
           StablePorts /\ PlanHolds => \A n \in Nodes : Added(n) =>
              IF recs'[n] = NodeRec("skipped") THEN SkipBy(recs', n) ELSE EnqueueBy(recs', n)
    PROVE  Goes(p)
<1>1. ASSUME NEW n \in Nodes PROVE Older(l.index[n], recs'[n]) /\ AsAnswered(n, l.index[n])
  <2>1. CASE l.index[n] = proc[p].index[n]
    <3>1. Older(proc[p].index[n], recs[n]) /\ AsAnswered(n, proc[p].index[n]) /\ Older(recs[n], recs'[n])
      BY RecordAges DEF Clean, IndexIsOlder, ParkedAsAnswered
    <3> QED BY <2>1, <3>1, OlderStill
  <2>2. CASE l.index[n] = Unread
    BY <2>2, UnreadIsOld
  <2> QED BY <2>1, <2>2
<1>2. Moves(p, l)
  BY <1>1 DEF Moves, LocalMoves
<1> QED BY <1>2 DEF Goes, Justified

\* A move that leaves the records alone.
LEMMA GoesStill ==
    ASSUME Clean, NEW p \in Procs, NEW l \in Locals, proc' = [proc EXCEPT ![p] = l], recs' = recs,
           l.index = proc[p].index \/ l.index = NoIndex,
           l.pc \notin {"park", "commit"}, l.pc = "setParked" => l.status # "failed",
           l.pc \in Writing => proc[p].pc \in Writing /\ l.node = proc[p].node,
           l.pc \in {"advance", "pass", "complete"} /\ l.status = "failed" => recs[l.node].status = "failed"
    PROVE  Goes(p)
<1>1. \A n \in Nodes : RecMoves(p, n) /\ ~Added(n)
  BY DEF RecMoves, Added, NodeRec
<1>2. \A n \in Nodes : l.index[n] = proc[p].index[n] \/ l.index[n] = Unread
  BY UnreadIsOld
<1> QED BY <1>1, <1>2, GoesOn

\* A process that stops.
LEMMA GoesIdle ==
    ASSUME Clean, NEW p \in Procs, Become(p, Idle), recs' = recs
    PROVE  Goes(p)
<1>1. Idle \in Locals /\ Idle.index = NoIndex /\ Idle.pc = "idle" /\ "idle" \notin Writing
  BY IdleTyped DEF Idle, Writing
<1> QED BY <1>1, GoesStill DEF Become

\* A process that is done with the run.
LEMMA GoesAway ==
    ASSUME FlowInv, Clean, NEW p \in Procs, Leave(p), recs' = recs
    PROVE  Goes(p)
<1> DEFINE l == IF p \in Approvers THEN [Idle EXCEPT !.pc = "askParked", !.node = Me(p).node] ELSE Idle
<1>1. l \in Locals /\ l.pc \in {"askParked", "idle"} /\ l.index = NoIndex
  BY IdleTyped, MineTyped DEF FlowInv, Locals, Pcs, Idle
<1>2. proc' = [proc EXCEPT ![p] = l]
  BY DEF Leave, Become
<1> HIDE DEF l
<1>3. l.pc \notin Writing /\ l.pc \notin {"park", "commit", "advance", "pass", "complete"}
  BY <1>1 DEF Writing
<1> QED BY <1>1, <1>2, <1>3, GoesStill

\* A process that goes to another point of its code.
LEMMA GoesTo ==
    ASSUME FlowInv, Clean, NEW p \in Procs, NEW pc \in Pcs, Goto(p, pc), recs' = recs,
           pc \notin {"park", "commit", "setParked"}, pc \in Writing => proc[p].pc \in Writing,
           pc \in {"advance", "pass", "complete"} /\ proc[p].status = "failed" => recs[proc[p].node].status = "failed"
    PROVE  Goes(p)
<1> DEFINE l == [proc[p] EXCEPT !.pc = pc]
<1>1. proc[p] \in Locals /\ proc' = [proc EXCEPT ![p] = l]
  BY DEF FlowInv, TypeOK, Goto
<1>2. l \in Locals /\ l.pc = pc /\ l.index = proc[p].index /\ l.node = proc[p].node /\ l.status = proc[p].status
  BY <1>1 DEF Locals
<1> HIDE DEF l
<1> QED BY <1>1, <1>2, GoesStill

\* One record changes.
LEMMA OneMoves ==
    ASSUME TypeOK, NEW p, NEW n \in Nodes, NEW r, recs' = [recs EXCEPT ![n] = r], RecMoves(p, n)
    PROVE  recs'[n] = r /\ \A m \in Nodes : RecMoves(p, m) /\ (m # n => recs'[m] = recs[m])
BY DEF TypeOK, RecMoves

\* A claim.
LEMMA ClaimGoes ==
    ASSUME FlowInv, Clean, NEW w \in Workers, NEW n \in Nodes, Claim(w, n) \/ ClaimLapsed(w, n)
    PROVE  Goes(w)
<1> DEFINE r == [recs[n] EXCEPT !.status = "running", !.worker = w, !.attempt = recs[n].attempt + 1]
           l == [Idle EXCEPT !.pc = "load", !.node = n, !.late = RunEnded, !.attempt = recs[n].attempt + 1]
<1>0. TypeOK /\ w \in Procs /\ recs[n].status \in {"queued", "running"} /\ TakeRecord(w, n)
  BY DEF FlowInv, Procs, Claim, ClaimLapsed, Orphan
<1>1. recs[n] \in NodeRecs /\ recs[n].attempt + 1 \in Nat /\ recs[n].attempt + 1 # 0
  BY <1>0 DEF TypeOK, NodeRecs
<1>2. r.status = "running" /\ r.worker = w /\ r.attempt # 0
  BY <1>1 DEF NodeRecs
<1>3. recs' = [recs EXCEPT ![n] = r]
  BY <1>0 DEF TakeRecord, TypeOK, NodeRecs
<1>4. RunEnded \in BOOLEAN
  BY DEF RunEnded, IsTerminalStatus
<1>5. l \in Locals /\ l.pc = "load" /\ l.node = n /\ l.index = NoIndex
  BY <1>1, <1>4, IdleTyped DEF Locals, Pcs, Idle
<1>6. proc' = [proc EXCEPT ![w] = l]
  BY <1>0 DEF TakeRecord, Become
<1> HIDE DEF r, l
<1>7. recs'[n] = r
  BY <1>0, <1>3 DEF TypeOK
<1>8. RecMoves(w, n) /\ ~Added(n)
  BY <1>0, <1>2, <1>7 DEF RecMoves, Taken, Added
<1>9. \A m \in Nodes : RecMoves(w, m) /\ ~Added(m)
  <2>1. \A m \in Nodes : RecMoves(w, m) /\ (m # n => recs'[m] = recs[m])
    BY <1>0, <1>3, <1>8, OneMoves
  <2> QED BY <1>8, <2>1 DEF Added, NodeRec
<1> QED BY <1>0, <1>2, <1>5, <1>6, <1>7, <1>9, GoesOn, UnreadIsOld

\* The worker that holds a record writes it and is done with it.
LEMMA WriteGoes ==
    ASSUME FlowInv, Clean, NEW w \in Workers, NEW r \in NodeRecs, NEW l \in Locals,
           proc[w].pc \in Writing, recs[proc[w].node].worker = w, ~Closed(proc[w].node),
           recs' = [recs EXCEPT ![proc[w].node] = r], r.attempt = recs[proc[w].node].attempt,
           r.worker \in {w, Nobody}, r.status # "absent", AsAnswered(proc[w].node, r),
           proc' = [proc EXCEPT ![w] = l], l.pc \notin Writing,
           l.index = proc[w].index \/ l.index = NoIndex, l.pc = "setParked" => l.status # "failed",
           l.pc \in {"advance", "pass", "complete"} /\ l.status = "failed" =>
               l.node = proc[w].node /\ r.status = "failed"
    PROVE  Goes(w)
<1> DEFINE n == proc[w].node
<1>0. TypeOK /\ w \in Procs /\ n \in Nodes
  BY DEF FlowInv, Procs, TypeOK, Locals
<1>1. recs[n].status = "running"
  BY DEF Clean, HolderWrites, Closed, IsTerminalStatus, TerminalStatuses
<1>2. recs'[n] = r
  BY <1>0 DEF TypeOK
<1>3. Written(w, n)
  BY <1>1, <1>2 DEF Written
<1> HIDE DEF n
<1>4. RecMoves(w, n)
  BY <1>3 DEF RecMoves
<1>5. recs' = [recs EXCEPT ![n] = r]
  BY DEF n
<1>6. \A m \in Nodes : RecMoves(w, m) /\ ~Added(m)
  <2>1. ASSUME NEW m \in Nodes, m # n PROVE recs'[m] = recs[m]
    BY <1>0, <1>5, <2>1 DEF TypeOK
  <2>2. ASSUME NEW m \in Nodes PROVE RecMoves(w, m)
    BY <1>4, <2>1 DEF RecMoves
  <2> QED BY <1>1, <2>1, <2>2 DEF Added, NodeRec
<1>7. \A m \in Nodes : l.index[m] = proc[w].index[m] \/ l.index[m] = Unread
  BY UnreadIsOld
<1>8. l.pc \notin {"park", "commit"}
  BY DEF Writing
<1> QED BY <1>0, <1>2, <1>6, <1>7, <1>8, GoesOn DEF n

\* Requeue.
LEMMA RequeueGoes ==
    ASSUME FlowInv, Clean, NEW w \in Workers, Requeue(w)
    PROVE  Goes(w)
<1>0. TypeOK /\ w \in Procs /\ Become(w, Idle) /\ proc[w].pc = "requeue"
  BY DEF FlowInv, Procs, Requeue, Me
<1>1. CASE RequeueAllowed(MyRec(w).status, MyRec(w).worker, TRUE, w)
  <2> DEFINE n == proc[w].node
             r == [recs[n] EXCEPT !.status = "queued", !.worker = Nobody]
  <2>1. n \in Nodes /\ recs[n] \in NodeRecs /\ MyRec(w) = recs[n]
    BY <1>0 DEF TypeOK, Locals, MyRec
  <2>2. r \in NodeRecs /\ r.status = "queued" /\ r.worker = Nobody /\ r.attempt = recs[n].attempt
    BY <2>1 DEF NodeRecs, JobStatuses, OpenStatuses
  <2>3. recs' = [recs EXCEPT ![n] = r]
    BY <1>0, <1>1, <2>1 DEF Requeue, TypeOK, NodeRecs, Me
  <2>4. ~Closed(n) /\ recs[n].worker = w
    BY <1>1, <2>1 DEF RequeueAllowed, Closed
  <2>5. Idle \in Locals /\ Idle.index = NoIndex /\ Idle.pc = "idle" /\ "idle" \notin Writing /\ "requeue" \in Writing
    BY IdleTyped DEF Idle, Writing
  <2> HIDE DEF r
  <2>6. AsAnswered(n, r)
    BY <2>2 DEF AsAnswered
  <2>7. r.worker \in {w, Nobody} /\ r.status # "absent"
    BY <2>2
  <2>8. proc' = [proc EXCEPT ![w] = Idle]
    BY <1>0 DEF Become
  <2> QED BY <1>0, <2>2, <2>3, <2>4, <2>5, <2>6, <2>7, <2>8, WriteGoes
<1>2. CASE ~RequeueAllowed(MyRec(w).status, MyRec(w).worker, TRUE, w)
  BY <1>0, <1>2, GoesIdle DEF Requeue
<1> QED BY <1>1, <1>2

\* completeNode, applied or refused.
LEMMA WriteAndGoGoes ==
    ASSUME FlowInv, Clean, NEW w \in Workers, NEW st \in JobStatuses, NEW ports \in SUBSET Ports, NEW next \in Locals,
           WriteAndGo(w, st, ports, next), proc[w].pc \in Writing,
           AsAnswered(proc[w].node, Outcome(st, ports)), next.pc \notin Writing,
           next.index = proc[w].index \/ next.index = NoIndex, next.pc = "setParked" => next.status # "failed",
           next.pc \in {"advance", "pass", "complete"} /\ next.status = "failed" =>
               next.node = proc[w].node /\ st = "failed"
    PROVE  Goes(w)
<1>0. TypeOK /\ w \in Procs
  BY DEF FlowInv, Procs
<1>1. CASE /\ MayWrite(w, st)
           /\ recs' = [recs EXCEPT ![Me(w).node].status = st, ![Me(w).node].ports = ports]
           /\ Become(w, next)
  <2> DEFINE n == proc[w].node
             r == [recs[n] EXCEPT !.status = st, !.ports = ports]
  <2>1. n \in Nodes /\ recs[n] \in NodeRecs /\ MyRec(w) = recs[n] /\ Me(w).node = n
    BY <1>0 DEF TypeOK, Locals, MyRec, Me
  <2>2. r \in NodeRecs /\ r.status = st /\ r.ports = ports /\ r.worker = recs[n].worker /\ r.attempt = recs[n].attempt
    BY <2>1 DEF NodeRecs
  <2>3. recs' = [recs EXCEPT ![n] = r]
    BY <1>0, <1>1, <2>1 DEF TypeOK, NodeRecs
  <2>4. ~Closed(n) /\ recs[n].worker = w
    BY <1>1, <2>1 DEF MayWrite, CompleteAllowed, Closed
  <2>5. r.status # "absent"
    BY <2>2 DEF JobStatuses, TerminalStatuses, OpenStatuses
  <2> HIDE DEF r
  <2>6. AsAnswered(n, r) /\ r.worker \in {w, Nobody}
    BY <2>2, <2>4 DEF AsAnswered, Outcome
  <2>7. proc' = [proc EXCEPT ![w] = next]
    BY <1>1 DEF Become
  <2> QED BY <2>2, <2>3, <2>4, <2>5, <2>6, <2>7, WriteGoes
<1>2. CASE Become(w, Idle) /\ UNCHANGED recs
  BY <1>0, <1>2, GoesIdle
<1> QED BY <1>1, <1>2 DEF WriteAndGo

\* Refuse, failNode, the skip and the park.
LEMMA WritesGo ==
    ASSUME FlowInv, Clean, NEW w \in Workers, Refuse(w) \/ Fail(w) \/ Skip(w) \/ Park(w)
    PROVE  Goes(w)
<1>0. TypeOK /\ w \in Procs
  BY DEF FlowInv, Procs
<1>1. /\ Me(w) \in Locals /\ Me(w) = proc[w] /\ Me(w).node \in Nodes
      /\ Me(w).ports \in SUBSET Ports
  BY <1>0, MineTyped DEF Locals
<1>2. {"cancelled", "failed", "skipped", "awaiting"} \subseteq JobStatuses /\ {} \in SUBSET Ports
  BY DEF JobStatuses, TerminalStatuses, OpenStatuses
<1>3. CASE Refuse(w)
  <2>1. proc[w].pc \in Writing /\ WriteAndGo(w, "cancelled", {}, Idle)
    BY <1>1, <1>3 DEF Refuse, Writing
  <2>2. Idle \in Locals /\ Idle.index = NoIndex /\ Idle.pc = "idle" /\ "idle" \notin Writing
    BY IdleTyped DEF Idle, Writing
  <2>3. AsAnswered(proc[w].node, Outcome("cancelled", {}))
    BY DEF AsAnswered, Outcome
  <2> QED BY <1>2, <2>1, <2>2, <2>3, WriteAndGoGoes
<1>4. CASE Fail(w)
  <2> DEFINE l == [Me(w) EXCEPT !.pc = "advance", !.status = "failed"]
  <2>1. l \in Locals /\ l.pc = "advance" /\ l.index = proc[w].index /\ l.node = proc[w].node
    BY <1>1, <1>2 DEF Locals, Pcs
  <2>2. proc[w].pc \in Writing /\ WriteAndGo(w, "failed", {}, l) /\ "advance" \notin Writing
    BY <1>1, <1>4 DEF Fail, Writing
  <2>3. AsAnswered(proc[w].node, Outcome("failed", {}))
    BY DEF AsAnswered, Outcome
  <2> HIDE DEF l
  <2> QED BY <1>2, <2>1, <2>2, <2>3, WriteAndGoGoes
<1>5. CASE Skip(w)
  <2> DEFINE l == [Me(w) EXCEPT !.pc = "pass", !.status = "skipped", !.frames = Pass(Me(w).node)]
  <2>1. l \in Locals /\ l.pc = "pass" /\ l.index = proc[w].index /\ l.status = "skipped"
    BY <1>1, <1>2, PassTyped DEF Locals, Pcs
  <2>2. proc[w].pc \in Writing /\ WriteAndGo(w, "skipped", {}, l) /\ "pass" \notin Writing
    BY <1>1, <1>5 DEF Skip, Writing
  <2>3. AsAnswered(proc[w].node, Outcome("skipped", {}))
    BY DEF AsAnswered, Outcome
  <2> HIDE DEF l
  <2> QED BY <1>2, <2>1, <2>2, <2>3, WriteAndGoGoes
<1>6. CASE Park(w)
  <2> DEFINE l == [Me(w) EXCEPT !.pc = "setParked"]
  <2>1. l \in Locals /\ l.pc = "setParked" /\ l.index = proc[w].index /\ l.status = proc[w].status
    BY <1>1 DEF Locals, Pcs
  <2>2. proc[w].pc = "park" /\ proc[w].pc \in Writing /\ WriteAndGo(w, "awaiting", proc[w].ports, l) /\ "setParked" \notin Writing
    BY <1>1, <1>6 DEF Park, Writing
  <2>3. AsAnswered(proc[w].node, Outcome("awaiting", proc[w].ports))
    BY <1>0, <2>2 DEF Clean, ParkedAsAnswered, AsAnswered, Outcome
  <2>4. proc[w].status # "failed"
    BY <1>0, <2>2 DEF Clean, FailureOnRecord
  <2> HIDE DEF l
  <2> QED BY <1>1, <1>2, <2>1, <2>2, <2>3, <2>4, WriteAndGoGoes
<1> QED BY <1>3, <1>4, <1>5, <1>6

\* Where a worker's code goes before it writes, and the parked flag.
LEMMA WorkerGoes ==
    ASSUME FlowInv, Clean, NEW w \in Workers, LoadRun(w) \/ LoseLease(w) \/ SetParked(w)
    PROVE  Goes(w)
<1>0. w \in Procs /\ Me(w) = proc[w]
  BY DEF Procs, Me
<1>1. CASE LoadRun(w)
  <2>1. PICK pc \in {"refuse", "skip", "exec"} : Goto(w, pc)
    BY <1>1 DEF LoadRun
  <2>2. pc \in Pcs /\ pc \in Writing /\ proc[w].pc \in Writing /\ recs' = recs
    BY <1>0, <1>1 DEF LoadRun, Pcs, Writing
  <2> QED BY <1>0, <2>1, <2>2, GoesTo
<1>2. CASE LoseLease(w)
  BY <1>0, <1>2, GoesIdle DEF LoseLease
<1>3. CASE SetParked(w)
  <2>1. Goto(w, "advance") /\ recs' = recs /\ proc[w].pc = "setParked" /\ "advance" \in Pcs /\ "advance" \notin Writing
    BY <1>0, <1>3 DEF SetParked, Pcs, Writing
  <2>2. proc[w].status # "failed"
    BY <1>0, <2>1 DEF Clean, FailureOnRecord
  <2> QED BY <1>0, <2>1, <2>2, GoesTo
<1> QED BY <1>1, <1>2, <1>3

\* The drop answers.
LEMMA ExecuteGoes ==
    ASSUME FlowInv, Clean, NEW w \in Workers, NEW b \in Behaviours[Me(w).node], Execute(w, b)
    PROVE  Goes(w)
<1>0. TypeOK /\ w \in Procs
  BY DEF FlowInv, Procs
<1>1. /\ Me(w) \in Locals /\ Me(w) = proc[w] /\ Me(w).node \in Nodes /\ recs' = recs /\ Me(w).pc = "exec"
  BY <1>0, MineTyped DEF Execute
<1>2. b.ports \in SUBSET Ports
  BY <1>1 DEF Ports
<1>3. b.status \in {"succeeded", "failed", "timeout", "awaiting", "deferred", "error"}
  BY <1>1, BehaviourAssumption
<1> DEFINE st == IF b.status = "timeout" THEN "failed" ELSE b.status
           next == CASE b.status = "awaiting" -> "park"
                     [] b.status = "error" -> "fail"
                     [] b.status = "deferred" -> "requeue"
                     [] b.status = "failed" /\ RetryAllowed(Me(w).node, Me(w).attempt) -> "requeue"
                     [] OTHER -> "plan"
           l == [Me(w) EXCEPT !.status = st, !.ports = b.ports, !.pc = next]
<1>4. /\ st \in JobStatuses \cup {"none", "deferred", "error"}
      /\ next \in {"park", "fail", "requeue", "plan"}
      /\ next = "park" => b.status = "awaiting" /\ st = "awaiting"
  BY <1>3 DEF JobStatuses, TerminalStatuses, OpenStatuses
<1>5. proc' = [proc EXCEPT ![w] = l]
  BY DEF Execute, Become
<1> HIDE DEF st, next
<1>6. next \in Pcs /\ proc[w].pc \in Writing
  BY <1>1, <1>4 DEF Pcs, Writing
<1>7. /\ l \in Locals /\ l.pc = next /\ l.status = st /\ l.ports = b.ports /\ l.index = proc[w].index
      /\ l.node = proc[w].node
  BY <1>1, <1>2, <1>4, <1>6 DEF Locals
<1> HIDE DEF l
<1>8. \A n \in Nodes : RecMoves(w, n) /\ ~Added(n)
  BY <1>1 DEF RecMoves, Added, NodeRec
<1>9. \A n \in Nodes : Older(l.index[n], recs'[n]) /\ AsAnswered(n, l.index[n])
  BY <1>0, <1>1, <1>7 DEF Clean, IndexIsOlder, ParkedAsAnswered
<1>10. l.pc = "park" => \E c \in Behaviours[l.node] : c.status = "awaiting" /\ c.ports = l.ports
  BY <1>1, <1>4, <1>7
<1>11. l.pc \notin {"commit", "advance", "pass", "complete", "setParked"}
  BY <1>4, <1>7
<1>12. LocalMoves(w, l)
  BY <1>1, <1>4, <1>5, <1>6, <1>7, <1>9, <1>10, <1>11 DEF LocalMoves
<1> QED BY <1>8, <1>11, <1>12 DEF Goes, Moves, Justified

\* The plan is made of what its own outcome decides.
LEMMA PlanGoes ==
    ASSUME FlowInv, Clean, NEW w \in Workers, PlanAdvance(w)
    PROVE  Goes(w)
<1>0. TypeOK /\ w \in Procs
  BY DEF FlowInv, Procs
<1> DEFINE n == proc[w].node
           known == [recs EXCEPT ![n] = Outcome(proc[w].status, proc[w].ports)]
           sure == IF advances(n, proc[w].status)
                     THEN {d \in Dependents(n) : analyzeDependent(known, d) = "enqueue"}
                     ELSE {}
           again == advances(n, proc[w].status) /\ sure # Dependents(n)
           l == [proc[w] EXCEPT !.pc = "commit", !.deps = sure, !.revisit = again]
<1>1. proc[w] \in Locals /\ n \in Nodes /\ recs' = recs /\ proc[w].pc = "plan" /\ proc' = [proc EXCEPT ![w] = l]
  BY <1>0 DEF TypeOK, Locals, PlanAdvance, Become, Me
<1>2. sure \in SUBSET Nodes /\ again \in BOOLEAN
  BY <1>1, GraphAssumption DEF Dependents, Outgoing, advances
<1>3. \A d \in sure : analyzeDependent(known, d) = "enqueue"
  OBVIOUS
<1> HIDE DEF sure, again
<1>4. /\ l \in Locals /\ l.pc = "commit" /\ l.deps = sure /\ l.node = n /\ l.index = proc[w].index
      /\ l.status = proc[w].status /\ l.ports = proc[w].ports
  BY <1>1, <1>2 DEF Locals, Pcs
<1> HIDE DEF l
<1>5. \A m \in Nodes \ {n} : known[m] = recs[m]
  BY <1>0 DEF TypeOK
<1>6. known = [recs' EXCEPT ![l.node] = Outcome(l.status, l.ports)]
  BY <1>1, <1>4
<1> HIDE DEF known
<1>7. \A d \in l.deps : EnqueueBy(known, d)
  BY <1>3, <1>4, AnalysisIs
<1>8. \A d \in l.deps : \A m \in Preds(d) \ {l.node} : Answered(recs'[m].status)
  <2>1. ASSUME NEW d \in l.deps, NEW m \in Preds(d) \ {l.node} PROVE Answered(recs'[m].status)
    <3>1. m \in Nodes
      BY GraphAssumption DEF Preds, Incoming
    <3>2. Answered(known[m].status)
      BY <1>3, <1>4, NotWaiting
    <3> QED BY <1>1, <1>4, <1>5, <3>1, <3>2
  <2> QED BY <2>1
<1>9. \A m \in Nodes : RecMoves(w, m) /\ ~Added(m)
  BY <1>1 DEF RecMoves, Added, NodeRec
<1>10. \A m \in Nodes : Older(l.index[m], recs'[m]) /\ AsAnswered(m, l.index[m])
  BY <1>0, <1>1, <1>4 DEF Clean, IndexIsOlder, ParkedAsAnswered
<1>11. proc[w].pc \in Writing
  BY <1>1 DEF Writing
<1>12. LocalMoves(w, l)
  BY <1>1, <1>4, <1>8, <1>10, <1>11 DEF LocalMoves
<1> QED BY <1>6, <1>7, <1>9, <1>12 DEF Goes, Moves, Justified

\* The commit: the outcome and the sure dependents, or a refusal.
LEMMA CommitGoes ==
    ASSUME FlowInv, Clean, NEW w \in Workers, Commit(w)
    PROVE  Goes(w)
<1>0. TypeOK /\ w \in Procs /\ Me(w) = proc[w] /\ proc[w] \in Locals /\ proc[w].pc = "commit"
  BY DEF FlowInv, Procs, TypeOK, Me, Commit
<1> DEFINE n == proc[w].node
           st == proc[w].status
           ports == proc[w].ports
<1>1. /\ n \in Nodes /\ recs[n] \in NodeRecs /\ ports \in SUBSET Ports /\ MyRec(w) = recs[n]
      /\ st \in {"succeeded", "failed"}
  BY <1>0 DEF TypeOK, Locals, MyRec, FlowInv, OutcomeToCommit
<1>2. CASE /\ MayWrite(w, Me(w).status)
           /\ recs' = Committed(w)
           /\ Become(w, AfterCommit(w, RunEnded, Fresh(Me(w).deps) # {}))
  <2>1. recs[n].worker = w /\ ~Closed(n) /\ proc[w].pc \in Writing
    BY <1>0, <1>1, <1>2 DEF MayWrite, CompleteAllowed, Closed, Writing
  <2>2. recs[n].status = "running"
    BY <2>1 DEF Clean, HolderWrites, Closed, IsTerminalStatus, TerminalStatuses
  <2> DEFINE r == [recs[n] EXCEPT !.status = st, !.ports = ports]
  <2>3. r.status = st /\ r.ports = ports /\ r.worker = w /\ r.attempt = recs[n].attempt
    BY <1>1, <2>1 DEF NodeRecs
  <2>4. /\ recs'[n] = r
        /\ \A m \in Nodes \ {n} : \/ recs'[m] = recs[m]
                                  \/ m \in Fresh(proc[w].deps) /\ recs'[m] = NodeRec("queued")
    BY <1>0, <1>1, <1>2 DEF Committed
  <2> HIDE DEF r
  <2>5. Written(w, n)
    BY <1>1, <2>1, <2>2, <2>3, <2>4 DEF Written, AsAnswered
  <2>6. ASSUME NEW m \in Nodes PROVE RecMoves(w, m)
    BY <2>4, <2>5 DEF RecMoves, Added, Fresh
  <2>7. ASSUME StablePorts, PlanHolds, NEW m \in Nodes, Added(m) PROVE EnqueueBy(recs', m) /\ recs'[m] # NodeRec("skipped")
    <3>1. m # n
      BY <2>2, <2>7 DEF Added
    <3>2. m \in proc[w].deps /\ recs'[m] = NodeRec("queued")
      BY <2>4, <2>7, <3>1 DEF Added, Fresh, NodeRec
    <3> DEFINE v == PlanView(w)
    <3>3. EnqueueBy(v, m)
      BY <1>0, <2>7, <3>2 DEF PlanHolds
    <3>4. ASSUME NEW k \in Nodes PROVE Older(v[k], recs'[k]) /\ AsAnswered(k, v[k])
      <4>1. CASE k = n
        <5>1. v[k] = Outcome(st, ports)
          BY <1>0, <1>1, <4>1 DEF PlanView, TypeOK
        <5> HIDE DEF v
        <5> QED BY <1>1, <2>3, <2>4, <4>1, <5>1 DEF Older, AsAnswered, Outcome
      <4>2. CASE k # n
        <5>1. v[k] = recs[k]
          BY <1>0, <4>2 DEF PlanView, TypeOK
        <5>2. Older(recs[k], recs'[k]) /\ AsAnswered(k, recs[k])
          BY <2>6, RecordAges DEF Clean, ParkedAsAnswered
        <5> HIDE DEF v
        <5> QED BY <5>1, <5>2
      <4> QED BY <4>1, <4>2
    <3> HIDE DEF v
    <3>5. EnqueueBy(recs', m)
      BY <2>7, <3>3, <3>4, ViewAges
    <3> QED BY <3>2, <3>5 DEF NodeRec
  <2> DEFINE ix == [NoIndex EXCEPT ![n] = Outcome(st, ports)]
             enq == Fresh(proc[w].deps) # {}
             again == [proc[w] EXCEPT !.pc = "pass", !.frames = Pass(n), !.enq = enq, !.index = ix]
             check == [proc[w] EXCEPT !.pc = "complete"]
  <2>8. /\ ix \in [Nodes -> Seens]
        /\ \A m \in Nodes : ix[m] = Unread \/ (m = n /\ ix[m] = Outcome(st, ports))
    <3>1. Outcome(st, ports) \in Seens
      BY <1>1 DEF Outcome, Seens, JobStatuses, TerminalStatuses
    <3> QED BY <1>1, <3>1, IdleTyped, UnreadIsOld
  <2>9. enq \in BOOLEAN
    OBVIOUS
  <2>10. \/ proc' = [proc EXCEPT ![w] = Idle] \/ proc' = [proc EXCEPT ![w] = again]
         \/ proc' = [proc EXCEPT ![w] = check]
    BY <1>0, <1>2 DEF AfterCommit, Become
  <2> HIDE DEF ix, enq
  <2>11. /\ again \in Locals /\ again.pc = "pass" /\ again.index = ix /\ again.node = n /\ again.status = st
         /\ check \in Locals /\ check.pc = "complete" /\ check.index = proc[w].index /\ check.node = n /\ check.status = st
    BY <1>0, <1>1, <2>8, <2>9, PassTyped DEF Locals, Pcs
  <2>12. ASSUME NEW m \in Nodes PROVE ix[m] = Unread \/ (Older(ix[m], recs'[m]) /\ AsAnswered(m, ix[m]))
    BY <1>1, <2>3, <2>4, <2>8 DEF Older, AsAnswered, Outcome
  <2>13. /\ Idle \in Locals /\ Idle.index = NoIndex /\ Idle.pc = "idle"
         /\ {"idle", "pass", "complete"} \cap Writing = {}
    BY IdleTyped DEF Idle, Writing
  <2> HIDE DEF again, check, n, st, ports
  <2>14. recs'[n].status = st
    BY <2>3, <2>4
  <2>15. CASE proc' = [proc EXCEPT ![w] = Idle]
    BY <1>0, <2>6, <2>7, <2>13, <2>15, GoesOn, UnreadIsOld
  <2>16. CASE proc' = [proc EXCEPT ![w] = again]
    BY <1>0, <2>6, <2>7, <2>11, <2>12, <2>13, <2>14, <2>16, GoesOn
  <2>17. CASE proc' = [proc EXCEPT ![w] = check]
    BY <1>0, <2>6, <2>7, <2>11, <2>13, <2>14, <2>17, GoesOn
  <2> QED BY <2>10, <2>15, <2>16, <2>17
<1>3. CASE Become(w, Idle) /\ UNCHANGED recs
  BY <1>0, <1>3, GoesIdle
<1> QED BY <1>2, <1>3 DEF Commit

\* AdvanceAfterCompletion, the end of a level and the completion check.
LEMMA AdvanceGoes ==
    ASSUME FlowInv, Clean, NEW p \in Procs, Advance(p) \/ EndLevel(p) \/ Complete(p)
    PROVE  Goes(p)
<1>0. /\ TypeOK /\ Me(p) = proc[p] /\ proc[p] \in Locals /\ proc[p].node \in Nodes /\ recs' = recs
      /\ proc[p].pc \in {"advance", "pass", "complete"}
  BY DEF FlowInv, TypeOK, Locals, Me, Advance, EndLevel, Complete
<1>1. proc[p].status = "failed" => recs[proc[p].node].status = "failed"
  BY <1>0 DEF Clean, FailureOnRecord
<1>2. {"pass", "complete"} \cap Writing = {} /\ "complete" \in Pcs
  BY DEF Writing, Pcs
<1>3. CASE Advance(p)
  <2> DEFINE l == [proc[p] EXCEPT !.pc = "pass", !.frames = Pass(proc[p].node), !.index = NoIndex, !.enq = FALSE]
  <2>1. l \in Locals /\ l.pc = "pass" /\ l.index = NoIndex /\ l.node = proc[p].node /\ l.status = proc[p].status
    BY <1>0, PassTyped, IdleTyped DEF Locals, Pcs
  <2>2. Leave(p) \/ proc' = [proc EXCEPT ![p] = l] \/ Goto(p, "complete")
    BY <1>0, <1>3 DEF Advance, Become
  <2> HIDE DEF l
  <2>3. CASE proc' = [proc EXCEPT ![p] = l]
    BY <1>0, <1>1, <1>2, <2>1, <2>3, GoesStill
  <2>4. CASE Goto(p, "complete")
    BY <1>0, <1>1, <1>2, <2>4, GoesTo
  <2> QED BY <1>0, <2>2, <2>3, <2>4, GoesAway
<1>4. CASE EndLevel(p)
  <2> DEFINE down == [proc[p] EXCEPT !.frames = Tail(@)]
             check == [proc[p] EXCEPT !.pc = "complete", !.frames = <<>>, !.index = NoIndex, !.enq = FALSE]
  <2>1. \/ Len(proc[p].frames) > 1 /\ proc' = [proc EXCEPT ![p] = down]
        \/ proc' = [proc EXCEPT ![p] = check] \/ Leave(p)
    BY <1>0, <1>4 DEF EndLevel, Become
  <2>2. /\ check \in Locals /\ check.pc = "complete" /\ check.index = NoIndex /\ check.node = proc[p].node
        /\ check.status = proc[p].status
    BY <1>0, IdleTyped, FrameSeqs DEF Locals, Pcs
  <2>3. ASSUME Len(proc[p].frames) > 1
        PROVE  /\ down \in Locals /\ down.pc = proc[p].pc /\ down.index = proc[p].index /\ down.node = proc[p].node
               /\ down.status = proc[p].status
    <3>1. Tail(proc[p].frames) \in Seq([node : Nodes, left : SUBSET Nodes])
      BY <1>0, <2>3, FrameSeqs DEF Locals
    <3> QED BY <1>0, <3>1 DEF Locals
  <2>4. proc[p].pc = "pass"
    BY <1>0, <1>4 DEF EndLevel
  <2> HIDE DEF down, check
  <2>5. CASE Len(proc[p].frames) > 1 /\ proc' = [proc EXCEPT ![p] = down]
    BY <1>0, <1>1, <1>2, <2>3, <2>4, <2>5, GoesStill
  <2>6. CASE proc' = [proc EXCEPT ![p] = check]
    BY <1>0, <1>1, <1>2, <2>2, <2>6, GoesStill
  <2> QED BY <1>0, <2>1, <2>5, <2>6, GoesAway
<1>5. CASE Complete(p)
  BY <1>0, <1>5, GoesAway DEF Complete
<1> QED BY <1>3, <1>4, <1>5

\* What a pass knows of a record, from its index or the store, is an older state of it.
LEMMA SeenIsOld ==
    ASSUME Clean, NEW p \in Procs, NEW m \in Nodes
    PROVE  Older(Seen(p, m), recs[m]) /\ AsAnswered(m, Seen(p, m))
<1>1. Older(proc[p].index[m], recs[m]) /\ AsAnswered(m, proc[p].index[m]) /\ AsAnswered(m, recs[m])
  BY DEF Clean, IndexIsOlder, ParkedAsAnswered
<1>2. CASE Seen(p, m) = proc[p].index[m]
  BY <1>1, <1>2
<1>3. CASE Seen(p, m) = Outcome(recs[m].status, recs[m].ports)
  BY <1>1, <1>3 DEF Older, AsAnswered, Outcome
<1> QED BY <1>2, <1>3 DEF Seen, Me

\* A visit records a step by what the pass has seen, however old that is.
LEMMA VisitGoes ==
    ASSUME FlowInv, Clean, NEW p \in Procs, VisitDependent(p)
    PROVE  Goes(p)
<1> DEFINE Frame == [node : Nodes, left : SUBSET Nodes]
<1>0. TypeOK
  BY DEF FlowInv
<1>1. /\ Me(p) \in Locals /\ Me(p) = proc[p] /\ Me(p).pc = "pass"
      /\ Me(p).frames \in Seq(Frame) /\ Me(p).frames # <<>>
      /\ Me(p).index \in [Nodes -> Seens]
  BY <1>0, MineTyped DEF Locals, VisitDependent, FlowInv, PassHasFrame
<1>2. Head(Me(p).frames) \in Frame /\ Tail(Me(p).frames) \in Seq(Frame)
  <2> HIDE DEF Frame
  <2> QED BY <1>1, FrameSeqs
<1>3. PICK d \in Head(Me(p).frames).left : Visit(p, d)
  BY DEF VisitDependent
<1>4. d \in Nodes
  BY <1>2
<1> DEFINE frame == Head(Me(p).frames)
           index == [m \in Nodes |-> IF m \in ReadSet(p, d) THEN Seen(p, m) ELSE Me(p).index[m]]
           view == [m \in Nodes |-> Seen(p, m)]
           decision == analyzeDependent(view, d)
           top == [frame EXCEPT !.left = @ \ {d}]
           rest == <<top>> \o Tail(Me(p).frames)
           isNew == recs[d].status = "absent"
           enq == Me(p).enq \/ Len(Me(p).frames) = 1
           index2 == [index EXCEPT ![d] = Outcome("skipped", {})]
<1>5. top \in Frame
  BY <1>2
<1>6. rest \in Seq(Frame)
  <2> HIDE DEF Frame, top
  <2> QED BY <1>2, <1>5, FrameSeqs
<1>7. Pass(d) \o rest \in Seq(Frame)
  <2>1. [node |-> d, left |-> Dependents(d)] \in Frame
    BY <1>4, GraphAssumption DEF Dependents, Outgoing
  <2> HIDE DEF Frame, rest
  <2> QED BY <1>6, <2>1, FrameSeqs DEF Pass
<1>8. index \in [Nodes -> Seens] /\ index2 \in [Nodes -> Seens]
  <2>1. \A m \in Nodes : Seen(p, m) \in Seens
    BY <1>0, <1>1 DEF Seen, Seens, Outcome, TypeOK, NodeRecs
  <2>2. index \in [Nodes -> Seens]
    BY <1>1, <2>1
  <2>3. Outcome("skipped", {}) \in Seens
    BY DEF Outcome, Seens, JobStatuses, TerminalStatuses
  <2> HIDE DEF index
  <2> QED BY <2>2, <2>3
<1>9. enq \in BOOLEAN
  BY <1>1 DEF Locals
<1>10. \A m \in Nodes : index[m] = Seen(p, m) \/ index[m] = proc[p].index[m]
  BY <1>1
<1>11. \A m \in Nodes : index2[m] = index[m] \/ (m = d /\ index2[m] = Outcome("skipped", {}))
  OBVIOUS
<1> DEFINE l1 == [Me(p) EXCEPT !.frames = rest, !.index = index, !.enq = enq]
           l2 == [Me(p) EXCEPT !.frames = Pass(d) \o rest, !.index = index2]
           l3 == [Me(p) EXCEPT !.frames = rest, !.index = index]
<1>12. \/ /\ decision = "enqueue" /\ isNew /\ recs' = [recs EXCEPT ![d] = NodeRec("queued")]
          /\ proc' = [proc EXCEPT ![p] = l1]
       \/ /\ decision = "skipped" /\ isNew /\ recs' = [recs EXCEPT ![d] = NodeRec("skipped")]
          /\ proc' = [proc EXCEPT ![p] = l2]
       \/ recs' = recs /\ proc' = [proc EXCEPT ![p] = l3]
  BY <1>1, <1>3 DEF Visit, Locals, Become
<1>13. \A m \in Nodes : view[m] = Seen(p, m)
  OBVIOUS
<1> HIDE DEF index, index2, rest, enq, view
<1>14. /\ l1 \in Locals /\ l1.pc = "pass" /\ l1.index = index /\ l1.node = Me(p).node /\ l1.status = Me(p).status
       /\ l2 \in Locals /\ l2.pc = "pass" /\ l2.index = index2 /\ l2.node = Me(p).node /\ l2.status = Me(p).status
       /\ l3 \in Locals /\ l3.pc = "pass" /\ l3.index = index /\ l3.node = Me(p).node /\ l3.status = Me(p).status
  BY <1>1, <1>6, <1>7, <1>8, <1>9 DEF Locals
<1> HIDE DEF l1, l2, l3
<1>15. \A m \in Nodes \ {d} : recs'[m] = recs[m]
  BY <1>0, <1>12 DEF TypeOK
<1>16. /\ recs'[d] = recs[d] \/ Added(d)
       /\ recs' # recs => isNew /\ recs'[d] \in {NodeRec("queued"), NodeRec("skipped")}
  BY <1>0, <1>4, <1>12 DEF TypeOK, Added
<1>17. ASSUME NEW m \in Nodes PROVE RecMoves(p, m)
  BY <1>15, <1>16 DEF RecMoves
<1>18. ASSUME NEW m \in Nodes PROVE Older(Seen(p, m), recs'[m]) /\ AsAnswered(m, Seen(p, m))
  <2>1. Older(Seen(p, m), recs[m]) /\ AsAnswered(m, Seen(p, m))
    BY SeenIsOld
  <2>2. Older(recs[m], recs'[m])
    BY <1>17, RecordAges
  <2> QED BY <2>1, <2>2, OlderStill
<1>19. ASSUME NEW m \in Nodes
       PROVE  index[m] = proc[p].index[m] \/ (Older(index[m], recs'[m]) /\ AsAnswered(m, index[m]))
  BY <1>10, <1>18
<1>20. ASSUME StablePorts, NEW m \in Nodes, Added(m)
       PROVE  IF recs'[m] = NodeRec("skipped") THEN SkipBy(recs', m) ELSE EnqueueBy(recs', m)
  <2>1. m = d /\ NodeRec("queued") # NodeRec("skipped")
    BY <1>15, <1>20 DEF Added, NodeRec
  <2>2. \/ decision = "enqueue" /\ recs'[d] = NodeRec("queued")
        \/ decision = "skipped" /\ recs'[d] = NodeRec("skipped")
    <3> HIDE DEF decision
    <3>1. recs'[d] # recs[d]
      BY <1>20, <2>1 DEF Added, NodeRec
    <3>2. CASE decision = "enqueue" /\ recs' = [recs EXCEPT ![d] = NodeRec("queued")]
      BY <1>0, <1>4, <3>2 DEF TypeOK
    <3>3. CASE decision = "skipped" /\ recs' = [recs EXCEPT ![d] = NodeRec("skipped")]
      BY <1>0, <1>4, <3>3 DEF TypeOK
    <3>4. CASE recs' = recs
      BY <3>1, <3>4
    <3> QED BY <1>12, <3>2, <3>3, <3>4
  <2>3. (decision = "enqueue" => EnqueueBy(view, d)) /\ (decision = "skipped" => SkipBy(view, d))
    BY AnalysisIs
  <2>4. (EnqueueBy(view, d) => EnqueueBy(recs', d)) /\ (SkipBy(view, d) => SkipBy(recs', d))
    BY <1>13, <1>18, <1>20, ViewAges
  <2> QED BY <2>1, <2>2, <2>3, <2>4
<1>21. proc[p].status = "failed" => recs'[proc[p].node].status = "failed"
  <2>1. proc[p].status = "failed" => recs[proc[p].node].status = "failed"
    BY <1>1 DEF Clean, FailureOnRecord
  <2>2. proc[p].node \in Nodes
    BY <1>1 DEF Locals
  <2> QED BY <1>15, <1>16, <2>1, <2>2 DEF Added
<1>22. "pass" \notin Writing
  BY DEF Writing
<1>23. CASE proc' = [proc EXCEPT ![p] = l1]
  BY <1>1, <1>14, <1>17, <1>19, <1>20, <1>21, <1>22, <1>23, GoesOn
<1>24. CASE recs' = [recs EXCEPT ![d] = NodeRec("skipped")] /\ proc' = [proc EXCEPT ![p] = l2]
  <2>1. ASSUME NEW m \in Nodes
        PROVE  index2[m] = proc[p].index[m] \/ (Older(index2[m], recs'[m]) /\ AsAnswered(m, index2[m]))
    <3>1. recs'[d] = NodeRec("skipped")
      BY <1>0, <1>4, <1>24 DEF TypeOK
    <3>2. Older(Outcome("skipped", {}), recs'[d]) /\ AsAnswered(d, Outcome("skipped", {}))
      BY <3>1 DEF Older, AsAnswered, Outcome, NodeRec
    <3> QED BY <1>11, <1>19, <3>2
  <2> QED BY <1>1, <1>14, <1>17, <1>20, <1>21, <1>22, <1>24, <2>1, GoesOn
<1>25. CASE proc' = [proc EXCEPT ![p] = l3]
  BY <1>1, <1>14, <1>17, <1>19, <1>20, <1>21, <1>22, <1>25, GoesOn
<1> QED BY <1>12, <1>23, <1>24, <1>25

\* A decision.
LEMMA ApproveGoes ==
    ASSUME FlowInv, Clean, NEW a \in Approvers, NEW n \in Nodes, NEW port \in {"approved", "rejected"},
           Approve(a, n, port)
    PROVE  Goes(a)
<1>0. TypeOK /\ a \in Procs /\ recs[n] \in NodeRecs /\ recs[n].status = "awaiting"
  BY DEF FlowInv, Procs, TypeOK, Approve
<1> DEFINE new == (recs[n].ports \ {"context"}) \cup {port, "approver", "comment"}
           r == [recs[n] EXCEPT !.status = "succeeded", !.ports = new]
           l == [Idle EXCEPT !.pc = "advance", !.node = n, !.status = "succeeded"]
<1>1. recs[n].ports \ {"context"} \subseteq new
  OBVIOUS
<1>2. recs' = [recs EXCEPT ![n] = r]
  BY <1>0 DEF Approve, TypeOK, NodeRecs
<1> HIDE DEF new
<1>3. r.status = "succeeded" /\ r.ports = new /\ r.worker = recs[n].worker /\ r.attempt = recs[n].attempt
  BY <1>0 DEF NodeRecs
<1>4. l \in Locals /\ l.pc = "advance" /\ l.status = "succeeded" /\ l.index = NoIndex
  BY IdleTyped DEF Locals, Pcs, JobStatuses, TerminalStatuses, Idle
<1>5. proc' = [proc EXCEPT ![a] = l]
  BY DEF Approve, Become
<1> HIDE DEF r, l
<1>6. recs'[n] = r /\ \A m \in Nodes \ {n} : recs'[m] = recs[m]
  BY <1>0, <1>2 DEF TypeOK
<1>7. Decided(n)
  BY <1>0, <1>1, <1>3, <1>6 DEF Decided
<1>8. \A m \in Nodes : RecMoves(a, m) /\ ~Added(m)
  BY <1>0, <1>6, <1>7 DEF RecMoves, Added, NodeRec
<1>9. "advance" \notin Writing
  BY DEF Writing
<1> QED BY <1>0, <1>4, <1>5, <1>8, <1>9, GoesOn, UnreadIsOld

\* The parked flag, the start of a cancel, the reaper and a crash touch no record.
LEMMA OthersGo ==
    ASSUME FlowInv, Clean, NEW p \in Procs,
           AskParked(p) \/ Unpark(p) \/ Cancel(p) \/ Reap(p) \/ AbandonIfStuck(p) \/ Crash(p)
    PROVE  Goes(p)
<1>0. {"unpark", "abandon", "sweep"} \subseteq Pcs /\ {"unpark", "abandon", "sweep"} \cap Writing = {}
  BY DEF Pcs, Writing
<1>1. CASE AskParked(p)
  BY <1>0, <1>1, GoesIdle, GoesTo DEF AskParked
<1>2. CASE Unpark(p) \/ AbandonIfStuck(p) \/ Crash(p)
  BY <1>2, GoesIdle DEF Unpark, AbandonIfStuck, Crash
<1>3. CASE Cancel(p)
  <2> DEFINE l == [Idle EXCEPT !.pc = "sweep", !.sweep = Nodes]
  <2>1. l \in Locals /\ l.pc = "sweep" /\ l.index = NoIndex
    BY IdleTyped DEF Locals, Pcs, Idle
  <2>2. proc' = [proc EXCEPT ![p] = l] /\ recs' = recs
    BY <1>3 DEF Cancel, Become
  <2> HIDE DEF l
  <2> QED BY <1>0, <2>1, <2>2, GoesStill
<1>4. CASE Reap(p)
  <2>1. CASE UNCHANGED proc
    <3>1. proc' = [proc EXCEPT ![p] = proc[p]] /\ proc[p] \in Locals /\ recs' = recs /\ proc[p].pc = "idle"
      BY <1>4, <2>1 DEF FlowInv, TypeOK, Reap, Me
    <3>2. "idle" \notin Writing
      BY DEF Writing
    <3> QED BY <3>1, <3>2, GoesStill
  <2>2. CASE Goto(p, "abandon")
    BY <1>0, <1>4, <2>2, GoesTo DEF Reap
  <2> QED BY <1>4, <2>1, <2>2 DEF Reap
<1> QED BY <1>1, <1>2, <1>3, <1>4

\* The sweep of a cancelled run.
LEMMA SweepGoes ==
    ASSUME FlowInv, Clean, NEW c \in Cancellers, SweepNode(c)
    PROVE  Goes(c)
<1>0. TypeOK /\ c \in Procs /\ proc[c] \in Locals /\ proc[c].pc = "sweep" /\ Me(c) = proc[c]
  BY DEF FlowInv, Procs, TypeOK, SweepNode, Me
<1>1. PICK n \in proc[c].sweep :
        /\ recs' = IF recs[n].status \in OpenStatuses
                     THEN [recs EXCEPT ![n].status = "cancelled"] ELSE recs
        /\ Become(c, IF proc[c].sweep = {n} THEN Idle ELSE [proc[c] EXCEPT !.sweep = @ \ {n}])
  BY <1>0 DEF SweepNode
<1>2. n \in Nodes /\ recs[n] \in NodeRecs
  BY <1>0 DEF TypeOK, Locals
<1>3. \A m \in Nodes : RecMoves(c, m) /\ ~Added(m)
  <2>1. CASE recs[n].status \in OpenStatuses
    <3> DEFINE r == [recs[n] EXCEPT !.status = "cancelled"]
    <3>1. r.status = "cancelled" /\ r.worker = recs[n].worker /\ r.attempt = recs[n].attempt
      BY <1>2 DEF NodeRecs
    <3>2. recs'[n] = r /\ \A m \in Nodes \ {n} : recs'[m] = recs[m]
      BY <1>0, <1>1, <1>2, <2>1 DEF TypeOK, NodeRecs
    <3> HIDE DEF r
    <3>3. Swept(n) /\ ~Added(n)
      BY <2>1, <3>1, <3>2 DEF Swept, Added, OpenStatuses
    <3> QED BY <3>2, <3>3 DEF RecMoves, Added, NodeRec
  <2>2. CASE recs' = recs
    BY <2>2 DEF RecMoves, Added, NodeRec
  <2> QED BY <1>1, <2>1, <2>2
<1> DEFINE l == IF proc[c].sweep = {n} THEN Idle ELSE [proc[c] EXCEPT !.sweep = @ \ {n}]
<1>4. l \in Locals /\ l.pc \in {"idle", "sweep"} /\ (l.index = NoIndex \/ l.index = proc[c].index)
  BY <1>0, IdleTyped DEF Locals, Idle
<1>5. proc' = [proc EXCEPT ![c] = l]
  BY <1>1 DEF Become
<1> HIDE DEF l
<1>6. l.pc \notin Writing /\ l.pc \notin {"park", "commit", "setParked", "advance", "pass", "complete"}
  BY <1>4 DEF Writing
<1>7. \A m \in Nodes : l.index[m] = proc[c].index[m] \/ l.index[m] = Unread
  BY <1>4, UnreadIsOld
<1> QED BY <1>0, <1>3, <1>4, <1>5, <1>6, <1>7, GoesOn

\* Every step but the passing of time moves like that, as long as the store has
\* not answered a commit with an error.
LEMMA StepGoes ==
    ASSUME FlowInv, Clean, Next, faults'.store = 0
    PROVE  (\E p \in Procs : Goes(p)) \/ GrowOld
<1>0. /\ Workers \subseteq Procs /\ Approvers \subseteq Procs
      /\ Cancellers \subseteq Procs /\ Reapers \subseteq Procs
  BY DEF Procs
<1>1. ASSUME NEW w \in Workers, NEW n \in Nodes, Claim(w, n) \/ ClaimLapsed(w, n)
      PROVE  \E p \in Procs : Goes(p)
  BY <1>0, <1>1, ClaimGoes
<1>2. ASSUME NEW w \in Workers, WorkerStep(w)
      PROVE  \E p \in Procs : Goes(p)
  BY <1>0, <1>2, WorkerGoes, ExecuteGoes, RequeueGoes, WritesGo, PlanGoes, CommitGoes DEF WorkerStep
<1>3. ASSUME NEW w \in Workers, NEW applied \in BOOLEAN, CommitError(w, applied)
      PROVE  FALSE
  <2>1. faults \in [crash : 0 .. MaxCrashes, lapse : 0 .. MaxLapses, store : 0 .. MaxStoreErrors]
    BY DEF FlowInv, TypeOK
  <2>2. faults'.store = faults.store + 1 /\ faults.store \in Nat
    BY <1>3, <2>1, BudgetAssumption DEF CommitError
  <2> QED BY <2>2
<1>4. ASSUME NEW p \in Workers \cup Approvers, AdvanceStep(p)
      PROVE  \E q \in Procs : Goes(q)
  BY <1>0, <1>4, AdvanceGoes, VisitGoes DEF AdvanceStep
<1>5. ASSUME NEW a \in Approvers,
             \/ \E n \in Nodes : \E port \in {"approved", "rejected"} : Approve(a, n, port)
             \/ AskParked(a) \/ Unpark(a)
      PROVE  \E p \in Procs : Goes(p)
  BY <1>0, <1>5, ApproveGoes, OthersGo
<1>6. ASSUME NEW c \in Cancellers, Cancel(c) \/ SweepNode(c)
      PROVE  \E p \in Procs : Goes(p)
  BY <1>0, <1>6, OthersGo, SweepGoes
<1>7. ASSUME NEW r \in Reapers, Reap(r) \/ AbandonIfStuck(r)
      PROVE  \E p \in Procs : Goes(p)
  BY <1>0, <1>7, OthersGo
<1>8. ASSUME NEW p \in Procs, Crash(p)
      PROVE  \E q \in Procs : Goes(q)
  BY <1>8, OthersGo
<1> QED BY <1>1, <1>2, <1>3, <1>4, <1>5, <1>6, <1>7, <1>8 DEF Next

\* Store errors are never taken back.
LEMMA ErrorsStay ==
    ASSUME TypeOK, [Next]_vars, faults'.store = 0
    PROVE  faults.store = 0
<1>1. /\ faults \in [crash : 0 .. MaxCrashes, lapse : 0 .. MaxLapses, store : 0 .. MaxStoreErrors]
      /\ faults.store \in Nat
  BY BudgetAssumption DEF TypeOK
<1>2. faults' = faults \/ faults'.store = faults.store \/ faults'.store = faults.store + 1
  BY <1>1 DEF Next, vars, Claim, ClaimLapsed, WorkerStep, LoadRun, LoseLease, Execute, Requeue, Refuse, Fail, Skip,
     Park, WriteAndGo, SetParked, PlanAdvance, Commit, CommitError, AdvanceStep, Advance, VisitDependent, EndLevel,
     Complete, Approve, AskParked, Unpark, Cancel, SweepNode, Reap, AbandonIfStuck, GrowOld, Crash
<1> QED BY <1>1, <1>2

-----------------------------------------------------------------------------
(* The routing theorems.                                                   *)

\* While no commit has been lost to a store error, the passes and the plans rely
\* on readings that still stand.
CleanInv == FlowInv /\ (faults.store = 0 => Clean)

\* And every record is there because the wires say so.
RouteInv == CleanInv /\ (faults.store = 0 => Routed /\ PlanHolds)

\* A run right after submission has only its roots on record, and nobody has read.
LEMMA RouteInit == Init => RouteInv
<1> SUFFICES ASSUME Init PROVE RouteInv
  OBVIOUS
<1>0. FlowInv
  BY InitInv
<1>1. /\ \A n \in Nodes : /\ recs[n].worker = Nobody /\ recs[n].status \in {"queued", "absent"}
                          /\ n \notin Roots => recs[n].status = "absent"
      /\ \A p \in Procs : proc[p] = Idle
  BY DEF Init, NodeRec
<1>2. Idle.pc = "idle" /\ Idle.index = NoIndex /\ "idle" \notin Writing
  BY DEF Idle, Writing
<1>3. HolderWrites
  BY <1>1, <1>2, ProcAssumption DEF HolderWrites, Procs
<1>4. ParkedAsAnswered
  <2>1. \A n \in Nodes : AsAnswered(n, recs[n])
    BY <1>1 DEF AsAnswered
  <2>2. \A p \in Procs : \A n \in Nodes : AsAnswered(n, proc[p].index[n])
    BY <1>1, <1>2, UnreadIsOld
  <2> QED BY <1>1, <1>2, <2>1, <2>2 DEF ParkedAsAnswered
<1>5. IndexIsOlder
  BY <1>1, <1>2, UnreadIsOld DEF IndexIsOlder
<1>6. PlanIsSure /\ FailureOnRecord /\ PlanHolds
  BY <1>1, <1>2 DEF PlanIsSure, FailureOnRecord, PlanHolds
<1>7. Routed
  BY <1>1 DEF Routed
<1> QED BY <1>0, <1>3, <1>4, <1>5, <1>6, <1>7 DEF RouteInv, CleanInv, Clean

\* Nothing is read or written: nothing changes of what the passes rely on.
LEMMA RouteStutter ==
    ASSUME recs' = recs, proc' = proc
    PROVE  (Clean => Clean') /\ (Routed => Routed') /\ (PlanHolds => PlanHolds')
BY DEF Clean, HolderWrites, ParkedAsAnswered, IndexIsOlder, PlanIsSure, FailureOnRecord, Routed, PassedOver, SkipBy,
       EnqueueBy, PlanHolds, PlanView

\* Every step keeps the readings standing.
LEMMA CleanInvStep == CleanInv /\ [Next]_vars => CleanInv'
<1> SUFFICES ASSUME CleanInv, [Next]_vars PROVE CleanInv'
  OBVIOUS
<1>0. FlowInv /\ FlowInv' /\ TypeOK /\ TypeOK'
  BY StepInv DEF CleanInv, FlowInv
<1>1. ASSUME faults'.store = 0 PROVE Clean'
  <2>1. Clean
    BY <1>0, <1>1, ErrorsStay DEF CleanInv
  <2>2. CASE GrowOld \/ UNCHANGED vars
    BY <2>1, <2>2, RouteStutter DEF GrowOld, vars
  <2>3. CASE \E p \in Procs : Goes(p)
    BY <1>0, <2>1, <2>3, CleanStep DEF Goes
  <2> QED BY <1>0, <1>1, <2>1, <2>2, <2>3, StepGoes
<1> QED BY <1>0, <1>1 DEF CleanInv

\* Every step keeps the routing.
LEMMA RouteInvStep ==
    ASSUME StablePorts
    PROVE  RouteInv /\ [Next]_vars => RouteInv'
<1> SUFFICES ASSUME RouteInv, [Next]_vars PROVE RouteInv'
  OBVIOUS
<1>0. FlowInv /\ TypeOK /\ TypeOK' /\ CleanInv'
  BY CleanInvStep DEF RouteInv, CleanInv, FlowInv
<1>1. ASSUME faults'.store = 0 PROVE Routed' /\ PlanHolds'
  <2>1. Clean /\ Routed /\ PlanHolds
    BY <1>0, <1>1, ErrorsStay DEF RouteInv, CleanInv
  <2>2. CASE GrowOld \/ UNCHANGED vars
    BY <2>1, <2>2, RouteStutter DEF GrowOld, vars
  <2>3. CASE \E p \in Procs : Goes(p)
    BY <1>0, <2>1, <2>3, RoutedStep DEF Goes
  <2> QED BY <1>0, <1>1, <2>1, <2>2, <2>3, StepGoes
<1> QED BY <1>0, <1>1 DEF RouteInv

\* For every graph with StablePorts and whatever the interleaving of workers,
\* passes, decisions, cancels, lapses and crashes: as long as no commit was answered
\* by a store error, a step is on record only if all its predecessors have answered,
\* and is enqueued or skipped as analyzeDependentIndexed says of their final outcomes.
THEOREM RoutedByEdges ==
    ASSUME StablePorts
    PROVE  Spec => [](faults.store = 0 => RoutingFollowsEdges)
<1>1. RouteInv => (faults.store = 0 => RoutingFollowsEdges)
  <2> SUFFICES ASSUME Routed, NEW n \in Nodes \ Roots, recs[n].status # "absent",
                      \A m \in Preds(n) : recs[m].status # "cancelled"
               PROVE  analyzeDependent(recs, n) =
                        IF recs[n].status = "skipped" /\ recs[n].attempt = 0 THEN "skipped" ELSE "enqueue"
    BY DEF RouteInv, RoutingFollowsEdges
  <2> QED BY AnalysisIs DEF Routed, PassedOver
<1> QED BY <1>1, RouteInit, RouteInvStep, PTL DEF Spec

\* Under the same conditions no branch leaks: a step wired to a port its predecessor
\* left empty (classifyEdge's notRouted) is never enqueued, whatever else is wired to it.
THEOREM NoBranchLeaks ==
    ASSUME StablePorts
    PROVE  Spec => [](faults.store = 0 => NoLeakedBranch)
<1>1. RouteInv => (faults.store = 0 => NoLeakedBranch)
  <2> SUFFICES ASSUME Routed, NEW i \in DOMAIN Edges, recs[Edges[i].from].status = "succeeded",
                      Edges[i].port \notin recs[Edges[i].from].ports \cup {PassPort}, Edges[i].onError # "fallback"
               PROVE  recs[Edges[i].to].status \in {"absent", "skipped"}
    BY DEF RouteInv, NoLeakedBranch
  <2>1. i \in Incoming(Edges[i].to) /\ Edges[i].to \in Nodes \ Roots
    BY GraphAssumption DEF Incoming, Roots
  <2>2. classifyEdge(recs[Edges[i].from], Edges[i]) = "notRouted"
    BY DEF classifyEdge
  <2>3. ~EnqueueBy(recs, Edges[i].to)
    BY <2>1, <2>2 DEF EnqueueBy
  <2> QED BY <2>1, <2>3 DEF Routed, PassedOver
<1> QED BY <1>1, RouteInit, RouteInvStep, PTL DEF Spec

-----------------------------------------------------------------------------
(* The refinement of RunLife: each step of the run is a step of the life   *)
(* its owner sees, or none.                                                *)

\* The five states a record shows its owner.
LEMMA StepStates ==
    ASSUME NEW st \in JobStatuses \cup {"absent"}
    PROVE  /\ (StepState(st) = "none") <=> (st = "absent")
           /\ (StepState(st) = "open") <=> (st \in {"queued", "running"})
           /\ (StepState(st) = "parked") <=> (st = "awaiting")
           /\ IsTerminalStatus(st) => StepState(st) = st
           /\ Answered(st) <=> StepState(st) \in {"parked", "succeeded", "failed", "skipped", "cancelled"}
BY DEF StepState, JobStatuses, TerminalStatuses, OpenStatuses, IsTerminalStatus, Answered

\* Submission.
LEMMA LifeInit == Init => Life!Init
<1> SUFFICES ASSUME Init PROVE Life!Init
  OBVIOUS
<1>1. ~RunEnded
  BY DEF Init, RunEnded, IsTerminalStatus, TerminalStatuses
<1>2. ASSUME NEW n \in Nodes
      PROVE  StepState(recs[n].status) = IF [m \in Nodes |-> Preds(m)][n] = {} THEN "open" ELSE "none"
  <2>1. n \in Roots <=> Preds(n) = {}
    BY <1>2 DEF Roots, Preds
  <2>2. recs[n].status = IF n \in Roots THEN "queued" ELSE "absent"
    BY DEF Init, NodeRec
  <2> QED BY <2>1, <2>2 DEF StepState
<1> QED BY <1>1, <1>2 DEF Life!Init

\* A step that shows nobody anything new.
LEMMA LifeStill ==
    ASSUME \A n \in Nodes : StepState(recs'[n].status) = StepState(recs[n].status),
           run' = run \/ (~RunEnded /\ ~RunEnded')
    PROVE  UNCHANGED Life!vars
BY DEF Life!vars, RunEnded

\* A step answers, and releases those that waited for it alone.
LEMMA LifeCloses ==
    ASSUME TypeOK, NEW n \in Nodes, NEW S \in SUBSET Nodes, recs[n].status \in {"running", "awaiting"},
           recs'[n].status \in {"succeeded", "failed", "skipped"}, n \notin S, run' = run,
           S # {} => ~RunEnded,
           \A d \in S : /\ recs[d].status = "absent" /\ recs'[d].status = "queued"
                        /\ \A m \in Preds(d) \ {n} : Answered(recs[m].status),
           \A m \in Nodes : m # n /\ m \notin S => recs'[m] = recs[m]
    PROVE  Life!Next
<1> DEFINE o == recs'[n].status
           now == [m \in Nodes |-> StepState(recs[m].status)]
           later == [m \in Nodes |-> StepState(recs'[m].status)]
<1>1. \A m \in Nodes : recs[m].status \in JobStatuses \cup {"absent"}
  BY DEF TypeOK, NodeRecs
<1>2. o \in JobStatuses /\ StepState(o) = o
  BY DEF JobStatuses, TerminalStatuses, StepState
<1>3. now[n] \in {"open", "parked"}
  BY <1>1, StepStates
<1>4. ASSUME NEW d \in S, NEW m \in [k \in Nodes |-> Preds(k)][d] \ {n}
      PROVE  now[d] = "none" /\ now[m] \in Life!Answered
  <2>1. m \in Preds(d) \ {n} /\ m \in Nodes /\ d \in Nodes
    BY <1>4, GraphAssumption DEF Preds, Incoming
  <2> QED BY <1>1, <1>4, <2>1, StepStates DEF Life!Answered, Life!Outcomes
<1>5. \A d \in S : now[d] = "none"
  BY <1>1, StepStates
<1>6. later = [m \in Nodes |-> IF m = n THEN o ELSE IF m \in S THEN "open" ELSE now[m]]
  <2> SUFFICES ASSUME NEW m \in Nodes
               PROVE  StepState(recs'[m].status) = IF m = n THEN o ELSE IF m \in S THEN "open" ELSE now[m]
    OBVIOUS
  <2>1. CASE m = n
    BY <1>2, <2>1
  <2>2. CASE m # n /\ m \in S
    BY <2>2 DEF StepState
  <2>3. CASE m # n /\ m \notin S
    BY <2>3
  <2> QED BY <2>1, <2>2, <2>3
<1>7. Life!Close(n, o, S)
  BY <1>3, <1>4, <1>5, <1>6 DEF Life!Close, RunEnded
<1>8. o \in Life!Outcomes \ {"cancelled"}
  BY DEF Life!Outcomes
<1> QED BY <1>7, <1>8 DEF Life!Next

\* One record changes what it shows.
LEMMA LifeOne ==
    ASSUME NEW n \in Nodes, \A m \in Nodes \ {n} : recs'[m] = recs[m], NEW s, StepState(recs'[n].status) = s
    PROVE  [m \in Nodes |-> StepState(recs'[m].status)] =
             [[m \in Nodes |-> StepState(recs[m].status)] EXCEPT ![n] = s]
OBVIOUS

\* A step parks.
LEMMA LifeParks ==
    ASSUME NEW n \in Nodes, recs[n].status = "running", recs'[n].status = "awaiting", run' = run,
           \A m \in Nodes \ {n} : recs'[m] = recs[m]
    PROVE  Life!Next
<1>1. StepState(recs[n].status) = "open" /\ StepState(recs'[n].status) = "parked"
  BY DEF StepState
<1>2. Life!Park(n)
  BY <1>1, LifeOne DEF Life!Park, RunEnded
<1> QED BY <1>2 DEF Life!Next

\* A step of an ended run is withdrawn.
LEMMA LifeWithdraws ==
    ASSUME NEW n \in Nodes, recs[n].status \in OpenStatuses, recs'[n].status = "cancelled", run' = run, RunEnded,
           \A m \in Nodes \ {n} : recs'[m] = recs[m]
    PROVE  Life!Next
<1>1. StepState(recs[n].status) \in {"open", "parked"} /\ StepState(recs'[n].status) = "cancelled"
  BY DEF StepState, OpenStatuses
<1>2. run # "open"
  BY DEF RunEnded, IsTerminalStatus, TerminalStatuses
<1>3. Life!Withdraw(n)
  BY <1>1, <1>2, LifeOne DEF Life!Withdraw, RunEnded
<1> QED BY <1>3 DEF Life!Next

\* A pass records a step all of whose predecessors have answered.
LEMMA LifeRecords ==
    ASSUME TypeOK, NEW n \in Nodes, recs[n].status = "absent", recs'[n].status \in {"queued", "skipped"}, run' = run,
           \A m \in Nodes \ {n} : recs'[m] = recs[m], \A m \in Preds(n) : Answered(recs[m].status)
    PROVE  Life!Next
<1>1. \A m \in Nodes : recs[m].status \in JobStatuses \cup {"absent"}
  BY DEF TypeOK, NodeRecs
<1>2. Preds(n) \subseteq Nodes
  BY GraphAssumption DEF Preds, Incoming
<1>3. Life!Ready(n)
  BY <1>1, <1>2, StepStates DEF Life!Ready, Life!Answered, Life!Outcomes
<1>4. CASE recs'[n].status = "queued"
  <2>1. StepState(recs'[n].status) = "open"
    BY <1>4 DEF StepState
  <2>2. Life!Release(n)
    BY <1>3, <2>1, LifeOne DEF Life!Release, RunEnded
  <2> QED BY <2>2 DEF Life!Next
<1>5. CASE recs'[n].status = "skipped"
  <2>1. StepState(recs'[n].status) = "skipped"
    BY <1>5 DEF StepState
  <2>2. Life!Skip(n)
    BY <1>3, <2>1, LifeOne DEF Life!Skip, RunEnded
  <2> QED BY <2>2 DEF Life!Next
<1> QED BY <1>4, <1>5

\* A verdict.
LEMMA LifeDecides ==
    ASSUME TypeOK, CancelAfterEnd, recs' = recs, ~RunEnded,
           \/ run' = "cancelled"
           \/ run' = "failed" /\ (Reapers # {} \/ \E n \in Nodes : Failing(n))
           \/ run' = "succeeded" /\ \A n \in Nodes : Closed(n) /\ ~Failing(n)
    PROVE  Life!Next
<1> DEFINE now == [m \in Nodes |-> StepState(recs[m].status)]
<1>1. \A m \in Nodes : recs[m].status \in JobStatuses \cup {"absent"} /\ recs[m].status # "cancelled"
  BY DEF TypeOK, NodeRecs, CancelAfterEnd
<1>2. RunEnded'
  BY DEF RunEnded, IsTerminalStatus, TerminalStatuses
<1>3. Life!Failed <=> \E n \in Nodes : Failing(n)
  <2>1. \A n \in Nodes : now[n] = "failed" <=> recs[n].status = "failed"
    BY <1>1 DEF StepState
  <2> QED BY <2>1 DEF Life!Failed, Failing
<1>4. (\A n \in Nodes : Closed(n)) => \A n \in Nodes : now[n] \in Life!Outcomes \ {"cancelled"}
  BY <1>1, StepStates DEF Closed, Life!Outcomes, IsTerminalStatus, TerminalStatuses
<1>5. UNCHANGED now
  OBVIOUS
<1> HIDE DEF now
<1>6. Life!Decide(run')
  BY <1>2, <1>3, <1>4, <1>5 DEF Life!Decide, now, RunEnded
<1>7. run' \in {"succeeded", "failed", "cancelled"}
  OBVIOUS
<1> QED BY <1>6, <1>7 DEF Life!Next

\* The holder's write goes to a record that is still running.
LEMMA HeldIsRunning ==
    ASSUME FlowInv, Clean, NEW w \in Workers, proc[w].pc \in Writing,
           MyRec(w).worker = w, ~IsTerminalStatus(MyRec(w).status)
    PROVE  proc[w].node \in Nodes /\ recs[proc[w].node] \in NodeRecs /\ recs[proc[w].node].status = "running"
<1>1. proc[w].node \in Nodes /\ recs[proc[w].node] \in NodeRecs
  BY DEF FlowInv, TypeOK, Locals, Procs
<1>2. recs[proc[w].node].worker = w /\ ~IsTerminalStatus(recs[proc[w].node].status)
  BY DEF MyRec
<1> QED BY <1>1, <1>2 DEF Clean, HolderWrites, IsTerminalStatus, TerminalStatuses

\* The claim and the requeue of a record, and whatever leaves the records and the
\* run alone, show nothing.
LEMMA LifeWorks ==
    ASSUME FlowInv, Clean, NEW w \in Workers, NEW n \in Nodes,
           Claim(w, n) \/ ClaimLapsed(w, n) \/ Requeue(w)
    PROVE  UNCHANGED Life!vars
<1>0. recs \in [Nodes -> NodeRecs] /\ run' = run
  BY DEF FlowInv, TypeOK, Claim, ClaimLapsed, TakeRecord, Requeue
<1>1. CASE Claim(w, n) \/ ClaimLapsed(w, n)
  <2>1. recs[n].status \in {"queued", "running"} /\ recs'[n].status = "running"
        /\ \A m \in Nodes \ {n} : recs'[m] = recs[m]
    BY <1>0, <1>1 DEF Claim, ClaimLapsed, Orphan, TakeRecord, NodeRecs
  <2>2. StepState(recs'[n].status) = StepState(recs[n].status)
    BY <2>1 DEF StepState
  <2> QED BY <1>0, <2>1, <2>2, LifeStill
<1>2. CASE Requeue(w) /\ RequeueAllowed(MyRec(w).status, MyRec(w).worker, TRUE, w)
  <2> DEFINE k == proc[w].node
  <2>1. k \in Nodes /\ recs[k] \in NodeRecs /\ recs[k].status = "running"
    <3>1. proc[w].pc \in Writing
      BY <1>2 DEF Requeue, Me, Writing
    <3> QED BY <1>2, <3>1, HeldIsRunning DEF RequeueAllowed
  <2>2. recs'[k].status = "queued" /\ \A m \in Nodes \ {k} : recs'[m] = recs[m]
    BY <1>0, <1>2, <2>1 DEF Requeue, Me, NodeRecs
  <2>3. StepState(recs'[k].status) = StepState(recs[k].status)
    BY <2>1, <2>2 DEF StepState
  <2> QED BY <1>0, <2>2, <2>3, LifeStill
<1>3. CASE Requeue(w) /\ recs' = recs
  BY <1>0, <1>3, LifeStill
<1> QED BY <1>1, <1>2, <1>3 DEF Requeue

\* failNode, the skip, the park and the refusal.
LEMMA LifeWrites ==
    ASSUME FlowInv, Clean, NEW w \in Workers, Refuse(w) \/ Fail(w) \/ Skip(w) \/ Park(w)
    PROVE  Life!Next \/ UNCHANGED Life!vars
<1> DEFINE k == proc[w].node
<1>0. /\ recs \in [Nodes -> NodeRecs] /\ run' = run /\ TypeOK /\ Me(w) = proc[w]
      /\ proc[w].pc \in {"refuse", "fail", "skip", "park"} /\ proc[w].pc \in Writing
      /\ proc[w].pc = "refuse" => RunEnded
  BY DEF FlowInv, TypeOK, Refuse, Fail, Skip, Park, WriteAndGo, Me, Writing, CancelAfterEnd, Procs
<1>1. CASE recs' = recs
  BY <1>0, <1>1, LifeStill
<1>2. ASSUME NEW st, NEW ports, MayWrite(w, st),
             recs' = [recs EXCEPT ![Me(w).node].status = st, ![Me(w).node].ports = ports]
      PROVE  /\ k \in Nodes /\ recs[k].status = "running" /\ recs'[k].status = st
             /\ \A m \in Nodes \ {k} : recs'[m] = recs[m]
  <2>1. k \in Nodes /\ recs[k] \in NodeRecs /\ recs[k].status = "running"
    BY <1>0, <1>2, HeldIsRunning DEF MayWrite, CompleteAllowed
  <2> QED BY <1>0, <1>2, <2>1 DEF NodeRecs
<1>3. PICK st, ports :
        /\ (st = "cancelled" /\ proc[w].pc = "refuse") \/ st \in {"failed", "skipped", "awaiting"}
        /\ \/ recs' = recs
           \/ /\ MayWrite(w, st)
              /\ recs' = [recs EXCEPT ![Me(w).node].status = st, ![Me(w).node].ports = ports]
  <2>1. CASE Refuse(w)
    BY <1>0, <2>1 DEF Refuse, WriteAndGo
  <2>2. CASE Fail(w)
    BY <2>2 DEF Fail, WriteAndGo
  <2>3. CASE Skip(w)
    BY <2>3 DEF Skip, WriteAndGo
  <2>4. CASE Park(w)
    BY <2>4 DEF Park, WriteAndGo
  <2> QED BY <2>1, <2>2, <2>3, <2>4
<1>4. CASE recs' # recs
  <2>1. /\ k \in Nodes /\ recs[k].status = "running" /\ recs'[k].status = st
        /\ \A m \in Nodes \ {k} : recs'[m] = recs[m]
    BY <1>2, <1>3, <1>4
  <2> HIDE DEF k
  <2>2. CASE st = "cancelled"
    BY <1>0, <1>3, <2>1, <2>2, LifeWithdraws DEF OpenStatuses
  <2>3. CASE st = "awaiting"
    BY <1>0, <2>1, <2>3, LifeParks
  <2>4. CASE st \in {"failed", "skipped"}
    <3>1. {} \in SUBSET Nodes /\ k \notin {} /\ \A m \in Nodes : m # k /\ m \notin {} => recs'[m] = recs[m]
      BY <2>1
    <3> QED BY <1>0, <2>1, <2>4, <3>1, LifeCloses
  <2> QED BY <1>3, <2>2, <2>3, <2>4
<1> QED BY <1>1, <1>4

\* The commit closes its step and releases the sure dependents with it.
LEMMA LifeCommits ==
    ASSUME FlowInv, Clean, NEW w \in Workers, Commit(w)
    PROVE  Life!Next \/ UNCHANGED Life!vars
<1> DEFINE k == proc[w].node
           S == IF RunEnded THEN {} ELSE Fresh(proc[w].deps)
<1>0. /\ run' = run /\ TypeOK /\ Me(w) = proc[w] /\ proc[w].pc = "commit" /\ w \in Procs
      /\ proc[w].status \in {"succeeded", "failed"} /\ proc[w].deps \subseteq Nodes
  BY DEF FlowInv, TypeOK, Commit, Me, OutcomeToCommit, Procs, Locals
<1>1. CASE recs' = recs
  BY <1>0, <1>1, LifeStill
<1>2. CASE MayWrite(w, proc[w].status) /\ recs' = Committed(w)
  <2>1. k \in Nodes /\ recs[k] \in NodeRecs /\ recs[k].status = "running"
    BY <1>0, <1>2, HeldIsRunning DEF Writing, MayWrite, CompleteAllowed
  <2>2. S \in SUBSET Nodes /\ k \notin S /\ (S # {} => ~RunEnded)
    BY <1>0, <2>1 DEF Fresh
  <2>3. recs'[k].status = proc[w].status
    BY <1>0, <1>2, <2>1 DEF Committed, NodeRecs
  <2>4. ASSUME NEW d \in S
        PROVE  /\ recs[d].status = "absent" /\ recs'[d].status = "queued"
               /\ \A m \in Preds(d) \ {k} : Answered(recs[m].status)
    <3>1. ~RunEnded /\ d \in Fresh(proc[w].deps) /\ d \in Nodes /\ d # k
      BY <1>0, <2>2, <2>4
    <3>2. recs'[d] = NodeRec("queued")
      BY <1>0, <1>2, <3>1 DEF Committed
    <3> QED BY <1>0, <3>1, <3>2 DEF Fresh, NodeRec, Clean, PlanIsSure
  <2>5. \A m \in Nodes : m # k /\ m \notin S => recs'[m] = recs[m]
    BY <1>0, <1>2 DEF Committed
  <2> HIDE DEF k, S
  <2> QED BY <1>0, <2>1, <2>2, <2>3, <2>4, <2>5, LifeCloses
<1> QED BY <1>0, <1>1, <1>2 DEF Commit

\* A pass releases or skips a step whose predecessors have all answered, as it has
\* read and as it still is.
LEMMA LifeVisits ==
    ASSUME FlowInv, Clean, NEW p \in Procs, VisitDependent(p)
    PROVE  Life!Next \/ UNCHANGED Life!vars
<1>0. TypeOK /\ run' = run /\ proc[p].pc = "pass" /\ proc[p] \in Locals /\ proc[p].frames # <<>>
  BY DEF FlowInv, TypeOK, VisitDependent, Me, PassHasFrame
<1>1. PICK d \in Head(Me(p).frames).left : Visit(p, d)
  BY DEF VisitDependent
<1>2. d \in Nodes
  <2> DEFINE Frame == [node : Nodes, left : SUBSET Nodes]
  <2>1. Me(p).frames \in Seq(Frame) /\ Me(p).frames # <<>>
    BY <1>0 DEF Me, Locals
  <2>2. Head(Me(p).frames) \in Frame
    <3> HIDE DEF Frame
    <3> QED BY <2>1, FrameSeqs
  <2> QED BY <1>1, <2>2
<1> DEFINE view == [m \in Nodes |-> Seen(p, m)]
<1>3. \/ recs' = recs
      \/ /\ analyzeDependent(view, d) # "waiting" /\ recs[d].status = "absent"
         /\ recs' = [recs EXCEPT ![d] = NodeRec("queued")] \/ recs' = [recs EXCEPT ![d] = NodeRec("skipped")]
  BY <1>1 DEF Visit
<1>4. CASE recs' = recs
  BY <1>0, <1>4, LifeStill
<1>5. CASE recs' # recs
  <2>1. ASSUME NEW m \in Preds(d) PROVE Answered(recs[m].status)
    <3>1. m \in Nodes
      BY GraphAssumption DEF Preds, Incoming
    <3>2. Answered(view[m].status)
      BY <1>3, <1>5, NotWaiting
    <3>3. Older(Seen(p, m), recs[m]) /\ view[m] = Seen(p, m)
      BY <3>1, SeenIsOld
    <3> HIDE DEF view
    <3> QED BY <3>2, <3>3, AnsweredStays
  <2>2. /\ recs'[d].status \in {"queued", "skipped"} /\ recs[d].status = "absent"
        /\ \A m \in Nodes \ {d} : recs'[m] = recs[m]
    BY <1>0, <1>2, <1>3, <1>5 DEF TypeOK, NodeRec
  <2> QED BY <1>0, <1>2, <2>1, <2>2, LifeRecords
<1> QED BY <1>4, <1>5

\* The completion check decides on failures and outcomes that are on record.
LEMMA LifeChecks ==
    ASSUME FlowInv, NEW n, NEW status, MaybeCompleteGraph(n, status), recs' = recs, n \in Nodes,
           status = "failed" => recs[n].status = "failed"
    PROVE  Life!Next \/ UNCHANGED Life!vars
<1>0. TypeOK /\ CancelAfterEnd
  BY DEF FlowInv
<1>1. CASE run' = run
  BY <1>1, LifeStill
<1>2. CASE run' # run
  <2>1. ~RunEnded /\ run' = Verdict(n, status) /\ run' # "none"
    BY <1>2 DEF MaybeCompleteGraph
  <2>2. /\ run' \in {"failed", "succeeded"}
        /\ run' = "succeeded" => \A m \in Nodes : Closed(m) /\ ~Failing(m)
    BY <1>0, <2>1, VerdictEffect
  <2>3. run' = "failed" => \E m \in Nodes : Failing(m)
    BY <2>1 DEF Verdict, Failing
  <2> QED BY <1>0, <2>1, <2>2, <2>3, LifeDecides
<1> QED BY <1>1, <1>2

\* The advance of a run: the completion checks.
LEMMA LifeAdvances ==
    ASSUME FlowInv, Clean, NEW p \in Procs, Advance(p) \/ EndLevel(p) \/ Complete(p)
    PROVE  Life!Next \/ UNCHANGED Life!vars
<1>0. recs' = recs /\ proc[p] \in Locals /\ Me(p) = proc[p]
  BY DEF FlowInv, TypeOK, Me, Advance, EndLevel, Complete
<1>1. CASE run' = run
  BY <1>0, <1>1, LifeStill
<1>2. CASE Complete(p)
  <2>1. proc[p].node \in Nodes /\ proc[p].status = "failed" => recs[proc[p].node].status = "failed"
    BY <1>0, <1>2 DEF Locals, Complete, Clean, FailureOnRecord
  <2>2. proc[p].node \in Nodes
    BY <1>0 DEF Locals
  <2> QED BY <1>0, <1>2, <2>1, <2>2, LifeChecks DEF Complete
<1>3. CASE EndLevel(p) /\ MaybeCompleteGraph(Head(Me(p).frames).node, "skipped")
  <2> DEFINE Frame == [node : Nodes, left : SUBSET Nodes]
  <2>1. Me(p).frames \in Seq(Frame) /\ Me(p).frames # <<>>
    BY <1>0, <1>3 DEF Locals, EndLevel, FlowInv, PassHasFrame
  <2>2. Head(Me(p).frames) \in Frame
    <3> HIDE DEF Frame
    <3> QED BY <2>1, FrameSeqs
  <2> QED BY <1>0, <1>3, <2>2, LifeChecks
<1>4. CASE Advance(p)
  BY <1>1, <1>4 DEF Advance
<1>5. CASE EndLevel(p) /\ UNCHANGED run
  BY <1>1, <1>5
<1> QED BY <1>2, <1>3, <1>4, <1>5 DEF EndLevel

\* Decisions, the parked flag, cancels and the reaper.
LEMMA LifeOthers ==
    ASSUME FlowInv, NEW p \in Procs,
           \/ \E n \in Nodes : \E port \in {"approved", "rejected"} : Approve(p, n, port)
           \/ SetParked(p) \/ AskParked(p) \/ Unpark(p) \/ Cancel(p) \/ SweepNode(p)
           \/ (p \in Reapers /\ (Reap(p) \/ AbandonIfStuck(p)))
    PROVE  Life!Next \/ UNCHANGED Life!vars
<1>0. TypeOK /\ CancelAfterEnd /\ recs \in [Nodes -> NodeRecs] /\ proc[p] \in Locals /\ Me(p) = proc[p]
  BY DEF FlowInv, TypeOK, Me
<1>1. ASSUME NEW n \in Nodes, NEW port \in {"approved", "rejected"}, Approve(p, n, port)
      PROVE  Life!Next
  <2>1. /\ recs[n].status = "awaiting" /\ recs'[n].status = "succeeded" /\ run' = run
        /\ \A m \in Nodes \ {n} : recs'[m] = recs[m]
    BY <1>0, <1>1 DEF Approve, NodeRecs
  <2>2. {} \in SUBSET Nodes /\ n \notin {} /\ \A m \in Nodes : m # n /\ m \notin {} => recs'[m] = recs[m]
    BY <2>1
  <2> QED BY <1>0, <2>1, <2>2, LifeCloses
<1>2. CASE SetParked(p) \/ AskParked(p) \/ Unpark(p)
  <2>1. recs' = recs /\ (run' = run \/ (run \in {"running", "awaiting"} /\ run' \in {"running", "awaiting"}))
    BY <1>2 DEF SetParked, AskParked, Unpark
  <2>2. run' = run \/ (~RunEnded /\ ~RunEnded')
    BY <2>1 DEF RunEnded, IsTerminalStatus, TerminalStatuses
  <2> QED BY <2>1, <2>2, LifeStill
<1>3. CASE Cancel(p)
  BY <1>0, <1>3, LifeDecides DEF Cancel
<1>4. CASE SweepNode(p)
  <2>1. RunEnded /\ run' = run
    BY <1>0, <1>4 DEF CancelAfterEnd, SweepNode
  <2>2. PICK n \in proc[p].sweep : recs' = IF recs[n].status \in OpenStatuses
                                             THEN [recs EXCEPT ![n].status = "cancelled"] ELSE recs
    BY <1>0, <1>4 DEF SweepNode
  <2>3. n \in Nodes
    BY <1>0, <2>2 DEF Locals
  <2>4. CASE recs[n].status \in OpenStatuses
    <3>1. recs'[n].status = "cancelled" /\ \A m \in Nodes \ {n} : recs'[m] = recs[m]
      BY <1>0, <2>2, <2>3, <2>4 DEF NodeRecs
    <3> QED BY <2>1, <2>3, <2>4, <3>1, LifeWithdraws
  <2>5. CASE recs' = recs
    BY <2>1, <2>5, LifeStill
  <2> QED BY <2>2, <2>4, <2>5
<1>5. CASE p \in Reapers /\ (Reap(p) \/ AbandonIfStuck(p))
  <2>1. recs' = recs
    BY <1>5 DEF Reap, AbandonIfStuck
  <2>2. CASE run' = run
    BY <2>1, <2>2, LifeStill
  <2>3. CASE run' # run
    <3>1. ~RunEnded /\ Reapers # {} /\ (run' = "failed" \/ (run' = Verdict(1, "succeeded") /\ run' # "none"))
      BY <1>5, <2>3 DEF Reap, AbandonIfStuck
    <3>2. /\ run' \in {"failed", "succeeded"}
          /\ run' = "succeeded" => \A m \in Nodes : Closed(m) /\ ~Failing(m)
      BY <1>0, <3>1, VerdictEffect
    <3> QED BY <1>0, <2>1, <3>1, <3>2, LifeDecides
  <2> QED BY <2>2, <2>3
<1> QED BY <1>1, <1>2, <1>3, <1>4, <1>5

\* Every step of a run without store errors is a step of its life, or shows nothing.
LEMMA LifeStep ==
    ASSUME FlowInv, Clean, [Next]_vars, faults'.store = 0
    PROVE  Life!Next \/ UNCHANGED Life!vars
<1>0. /\ Workers \subseteq Procs /\ Approvers \subseteq Procs
      /\ Cancellers \subseteq Procs /\ Reapers \subseteq Procs
  BY DEF Procs
<1>1. ASSUME recs' = recs, run' = run
      PROVE  UNCHANGED Life!vars
  BY <1>1, LifeStill
<1>2. ASSUME NEW w \in Workers, NEW n \in Nodes, Claim(w, n) \/ ClaimLapsed(w, n)
      PROVE  UNCHANGED Life!vars
  BY <1>2, LifeWorks
<1>3. ASSUME NEW w \in Workers, WorkerStep(w)
      PROVE  Life!Next \/ UNCHANGED Life!vars
  <2>1. CASE LoadRun(w) \/ LoseLease(w) \/ PlanAdvance(w) \/ \E b \in Behaviours[Me(w).node] : Execute(w, b)
    BY <1>1, <2>1 DEF LoadRun, LoseLease, PlanAdvance, Execute
  <2>2. CASE Requeue(w)
    <3>1. 1 \in Nodes
      BY GraphAssumption DEF Nodes
    <3> QED BY <2>2, <3>1, LifeWorks
  <2>3. CASE Refuse(w) \/ Fail(w) \/ Skip(w) \/ Park(w)
    BY <2>3, LifeWrites
  <2>4. CASE SetParked(w)
    BY <1>0, <2>4, LifeOthers
  <2>5. CASE Commit(w)
    BY <2>5, LifeCommits
  <2> QED BY <1>3, <2>1, <2>2, <2>3, <2>4, <2>5 DEF WorkerStep
<1>4. ASSUME NEW w \in Workers, NEW applied \in BOOLEAN, CommitError(w, applied)
      PROVE  FALSE
  <2>1. faults \in [crash : 0 .. MaxCrashes, lapse : 0 .. MaxLapses, store : 0 .. MaxStoreErrors]
    BY DEF FlowInv, TypeOK
  <2>2. faults'.store = faults.store + 1 /\ faults.store \in Nat
    BY <1>4, <2>1, BudgetAssumption DEF CommitError
  <2> QED BY <2>2
<1>5. ASSUME NEW p \in Workers \cup Approvers, AdvanceStep(p)
      PROVE  Life!Next \/ UNCHANGED Life!vars
  BY <1>0, <1>5, LifeAdvances, LifeVisits DEF AdvanceStep
<1>6. ASSUME NEW a \in Approvers,
             \/ \E n \in Nodes : \E port \in {"approved", "rejected"} : Approve(a, n, port)
             \/ AskParked(a) \/ Unpark(a)
      PROVE  Life!Next \/ UNCHANGED Life!vars
  BY <1>0, <1>6, LifeOthers
<1>7. ASSUME NEW c \in Cancellers, Cancel(c) \/ SweepNode(c)
      PROVE  Life!Next \/ UNCHANGED Life!vars
  BY <1>0, <1>7, LifeOthers
<1>8. ASSUME NEW r \in Reapers, Reap(r) \/ AbandonIfStuck(r)
      PROVE  Life!Next \/ UNCHANGED Life!vars
  BY <1>0, <1>8, LifeOthers
<1>9. CASE GrowOld \/ (\E p \in Procs : Crash(p)) \/ UNCHANGED vars
  BY <1>1, <1>9 DEF GrowOld, Crash, vars
<1> QED BY <1>2, <1>3, <1>4, <1>5, <1>6, <1>7, <1>8, <1>9 DEF Next

\* The run implements RunLife, for every graph and every number of processes: in a
\* behaviour in which no commit is answered by a store error, whatever crashes and
\* lapses occur, steps are released only after everything they wait for has answered,
\* close once, are withdrawn only from an ended run, and the one verdict is justified.
THEOREM RunLifeImplemented == Spec /\ [](faults.store = 0) => ImplementsRunLife
<1>1. Init => Life!Init /\ CleanInv
  BY LifeInit, RouteInit DEF RouteInv
<1>2. CleanInv /\ (faults.store = 0) /\ (faults.store = 0)' /\ [Next]_vars => [Life!Next]_(Life!vars)
  BY LifeStep DEF CleanInv
<1> QED BY <1>1, <1>2, CleanInvStep, PTL DEF Spec, ImplementsRunLife, Life!Spec

-----------------------------------------------------------------------------
(* Nobody is stranded.  A step whose predecessors have all answered is     *)
(* recorded by whoever settled the last of them: the commit that carries   *)
(* it along, the advance that is about to start, or a pass that still has  *)
(* to visit it and will see all of its wires settled.  The last is where a *)
(* pass may fail, since it does not read again what it has in its index:   *)
(* CascadeSafe is what makes the readings it keeps harmless.               *)

\* The levels of the stack of a pass.
Levels(frames) == {frames[j] : j \in DOMAIN frames}

\* The run has its verdict, or a step on record settles what it will be.
Doomed == RunEnded \/ \E m \in Nodes : Failing(m)

\* In the view v nothing that n waits for is outstanding.
Settled(v, n) == \A i \in Incoming(n) : ~EdgeWaits(v[Edges[i].from], Edges[i])

\* What a process with locals l will see of m: its index, else the store.
SeenBy(l, v, m) == IF l.index[m] # Unread THEN l.index[m] ELSE Outcome(v[m].status, v[m].ports)

SeenSettled(l, v, n) == \A i \in Incoming(n) : ~EdgeWaits(SeenBy(l, v, Edges[i].from), Edges[i])

\* A process with locals l is on its way to record n.
TakesUp(l, v, n) ==
    \/ l.pc \in {"setParked", "advance"} /\ l.node \in Preds(n) /\ advances(l.node, l.status)
    \/ l.pc = "pass" /\ (\E f \in Levels(l.frames) : n \in f.left) /\ SeenSettled(l, v, n)

\* A process is on its way to fail the run for m.
Tells(l, m) == l.pc \in {"advance", "complete"} /\ l.node = m /\ l.status = "failed"

\* An answer the drop of n could have given led to this record.
FromDrop(n, r) ==
    \E b \in Behaviours[n] : b.status = "awaiting" \/ (b.status = "succeeded" /\ b.ports = r.ports)

\* What a process holds at each point of its code.
PlaceHolds(l, v) ==
    /\ l.pc # "pass" => l.index = NoIndex
    /\ l.pc \in {"setParked", "advance"} => Answered(v[l.node].status)
    /\ l.pc \in {"park", "setParked"} => l.status = "awaiting"
    /\ l.pc = "skip" => l.node \in SkipNodes
    /\ l.pc = "commit" => IF advances(l.node, l.status) THEN l.revisit \/ l.deps = Dependents(l.node)
                                                        ELSE ~l.revisit /\ l.deps = {}
    /\ l.pc \in {"plan", "commit"} /\ l.status = "succeeded" =>
          \E b \in Behaviours[l.node] : b.status = "succeeded" /\ b.ports = l.ports

\* Every level of a pass is about a step that has answered, and the pass knows it.
LevelsStand(l, v) ==
    l.pc = "pass" => \A f \in Levels(l.frames) :
        /\ f.left \subseteq Dependents(f.node)
        /\ Answered(v[f.node].status)
        /\ l.index[f.node] = Unread \/ Answered(l.index[f.node].status)

\* A pass keeps an unanswered reading of m only if it looked at a dependent of m that
\* waits for another step too, one that is on record.
KeptReading(l, v) ==
    l.pc = "pass" => \A m \in Nodes : l.index[m] # Unread /\ ~Answered(l.index[m].status) =>
        \E k \in Dependents(m) : \E x \in Preds(k) \ {m} : v[x].status # "absent"

InPlace(l, v) == PlaceHolds(l, v) /\ LevelsStand(l, v) /\ KeptReading(l, v)

\* Whoever can attend to the run.
Movers == Workers \cup Approvers

FailureTold == \A m \in Nodes : Failing(m) /\ ~RunEnded => \E p \in Movers : Tells(proc[p], m)

AllAttended ==
    \A n \in Nodes \ Roots : recs[n].status = "absent" /\ Settled(recs, n) /\ ~Doomed =>
        \E p \in Movers : TakesUp(proc[p], recs, n)

SuccessFromDrop == \A m \in Nodes : recs[m].status = "succeeded" => FromDrop(m, recs[m])
SkipsExpected(S) == \A m \in Nodes \ (S \cup SkipNodes) : recs[m].status = "skipped" => Doomed

StrandInv(S) ==
    /\ \A p \in Procs : InPlace(proc[p], recs)
    /\ \A n \in Roots : recs[n].status # "absent"
    /\ SuccessFromDrop /\ SkipsExpected(S)
    /\ faults.crash = 0 => FailureTold /\ AllAttended

\* What a step of p owes to that invariant.
Owes(p, S) ==
    /\ InPlace(proc'[p], recs')
    /\ \A m \in Nodes : recs'[m].status = "succeeded" => recs[m].status = "succeeded" \/ FromDrop(m, recs'[m])
    /\ \A m \in Nodes : recs'[m].status = "skipped" =>
          recs[m].status = "skipped" \/ m \in S \cup SkipNodes \/ Doomed
    /\ faults'.crash = 0 /\ ~RunEnded' => \A m \in Nodes :
          failurePropagates(m) /\ recs'[m].status = "failed" /\ (recs[m].status # "failed" \/ Tells(proc[p], m)) =>
              p \in Movers /\ Tells(proc'[p], m)
    /\ faults'.crash = 0 /\ ~Doomed' => \A n \in Nodes \ Roots :
          /\ recs[n].status = "absent" /\ recs'[n].status = "absent" /\ Settled(recs', n)
          /\ TakesUp(proc[p], recs, n) \/ ~Settled(recs, n)
          => p \in Movers /\ TakesUp(proc'[p], recs', n)

-----------------------------------------------------------------------------
\* The dependents of a step are the steps that have it as a predecessor.
LEMMA Wired ==
    /\ \A n, d : d \in Dependents(n) <=> n \in Preds(d)
    /\ \A n : Preds(n) \subseteq Nodes /\ Dependents(n) \subseteq Nodes
    /\ \A n : \A i \in Incoming(n) : i \in DOMAIN Edges /\ Edges[i].from \in Preds(n) /\ Edges[i].to = n
    /\ \A n : \A m \in Preds(n) : \E i \in Incoming(n) : Edges[i].from = m
    /\ \A n \in Nodes : n \in Roots <=> Preds(n) = {}
<1>1. \A n, d : d \in Dependents(n) <=> n \in Preds(d)
  BY DEF Dependents, Preds, Incoming, Outgoing
<1>2. \A n : Preds(n) \subseteq Nodes /\ Dependents(n) \subseteq Nodes
  BY GraphAssumption DEF Dependents, Preds, Incoming, Outgoing
<1>3. \A n : \A i \in Incoming(n) : i \in DOMAIN Edges /\ Edges[i].from \in Preds(n) /\ Edges[i].to = n
  BY DEF Preds, Incoming
<1>4. \A n : \A m \in Preds(n) : \E i \in Incoming(n) : Edges[i].from = m
  BY DEF Preds
<1>5. \A n \in Nodes : n \in Roots <=> Preds(n) = {}
  BY DEF Preds, Roots
<1> QED BY <1>1, <1>2, <1>3, <1>4, <1>5

\* A wire that no longer waits does not wait again.
LEMMA NeverWaitsAgain ==
    ASSUME NEW o, NEW r, NEW e, Older(o, r), ~EdgeWaits(o, e)
    PROVE  ~EdgeWaits(r, e)
BY DEF Older, EdgeWaits, classifyEdge, Answered, IsTerminalStatus, TerminalStatuses

\* A wire is settled only by an answer.
LEMMA WaitsUnanswered ==
    ASSUME NEW o, NEW e
    PROVE  /\ ~Answered(o.status) => EdgeWaits(o, e)
           /\ IsTerminalStatus(o.status) => ~EdgeWaits(o, e)
BY DEF EdgeWaits, Answered, IsTerminalStatus, TerminalStatuses

\* A wire reads nothing of a record but its status and its ports.
LEMMA WaitsAs ==
    ASSUME NEW o, NEW r, NEW e, o.status = r.status, o.ports = r.ports
    PROVE  EdgeWaits(o, e) <=> EdgeWaits(r, e)
BY DEF EdgeWaits, classifyEdge

\* The levels of the stack of a pass.
LEMMA LevelsAre ==
    ASSUME NEW F
    PROVE  /\ \A f \in F : Levels(<<f>>) = {f}
           /\ \A f \in F, s \in Seq(F) : Levels(<<f>> \o s) = {f} \cup Levels(s)
           /\ \A s \in Seq(F) : s # <<>> => Levels(s) = {Head(s)} \cup Levels(Tail(s))
           /\ \A s \in Seq(F) : s # <<>> /\ ~(Len(s) > 1) => Levels(s) = {Head(s)}
           /\ \A s \in Seq(F) : Levels(s) \subseteq F
<1>1. ASSUME NEW f \in F PROVE Levels(<<f>>) = {f}
  <2>1. DOMAIN <<f>> = {1}
    OBVIOUS
  <2> QED BY <2>1 DEF Levels
<1>2. ASSUME NEW s \in Seq(F), s # <<>> PROVE Levels(s) = {Head(s)} \cup Levels(Tail(s))
  <2>1. /\ Len(s) \in Nat /\ Len(s) # 0 /\ DOMAIN s = 1 .. Len(s) /\ Head(s) = s[1]
        /\ Tail(s) \in Seq(F) /\ Len(Tail(s)) = Len(s) - 1 /\ DOMAIN Tail(s) = 1 .. (Len(s) - 1)
        /\ \A j \in 1 .. (Len(s) - 1) : Tail(s)[j] = s[j + 1]
    BY <1>2
  <2> DEFINE k == Len(s)
             t == Tail(s)
  <2>2. /\ k \in Nat /\ k # 0 /\ DOMAIN s = 1 .. k /\ Head(s) = s[1]
        /\ DOMAIN t = 1 .. (k - 1) /\ \A j \in 1 .. (k - 1) : t[j] = s[j + 1]
    BY <2>1
  <2> HIDE DEF k, t
  <2>3. ASSUME NEW j \in 1 .. k, j # 1 PROVE \E i \in 1 .. (k - 1) : s[j] = t[i]
    <3>1. j - 1 \in 1 .. (k - 1) /\ (j - 1) + 1 = j
      BY <2>2, <2>3
    <3> QED BY <2>2, <3>1
  <2>4. \A i \in 1 .. (k - 1) : i + 1 \in 1 .. k
    BY <2>2
  <2>5. 1 \in 1 .. k
    BY <2>2
  <2>6. Levels(s) = {s[j] : j \in 1 .. k} /\ Levels(t) = {t[j] : j \in 1 .. (k - 1)}
    BY <2>2 DEF Levels
  <2>7. ASSUME NEW x \in Levels(s) PROVE x \in {Head(s)} \cup Levels(t)
    BY <2>2, <2>3, <2>6, <2>7
  <2>8. ASSUME NEW x \in {Head(s)} \cup Levels(t) PROVE x \in Levels(s)
    BY <2>2, <2>4, <2>5, <2>6, <2>8
  <2> QED BY <2>7, <2>8 DEF t
<1>3. ASSUME NEW f \in F, NEW s \in Seq(F) PROVE Levels(<<f>> \o s) = {f} \cup Levels(s)
  <2> DEFINE t == <<f>> \o s
  <2>1. t \in Seq(F) /\ t # <<>>
    BY FrameSeqs
  <2>2. Head(t) = f /\ Tail(t) = s
    OBVIOUS
  <2> HIDE DEF t
  <2>3. Levels(t) = {f} \cup Levels(s)
    BY <1>2, <2>1, <2>2
  <2> QED BY <2>3 DEF t
<1>4. ASSUME NEW s \in Seq(F), s # <<>>, ~(Len(s) > 1) PROVE Levels(s) = {Head(s)}
  <2>1. Len(s) \in Nat /\ Len(s) # 0 /\ DOMAIN s = 1 .. Len(s) /\ Head(s) = s[1]
    BY <1>4
  <2> DEFINE k == Len(s)
  <2>2. k \in Nat /\ k # 0 /\ ~(k > 1) /\ DOMAIN s = 1 .. k
    BY <1>4, <2>1
  <2> HIDE DEF k
  <2>3. k = 1
    BY <2>2
  <2>4. DOMAIN s = {1}
    BY <2>2, <2>3
  <2> QED BY <2>1, <2>4 DEF Levels
<1>5. ASSUME NEW s \in Seq(F) PROVE Levels(s) \subseteq F
  <2>1. \A j \in DOMAIN s : s[j] \in F
    OBVIOUS
  <2> QED BY <2>1 DEF Levels
<1> QED BY <1>1, <1>2, <1>3, <1>4, <1>5

\* No record is ever taken away.
LEMMA RecordStays ==
    ASSUME NEW p, NEW n, RecMoves(p, n), recs[n].status # "absent"
    PROVE  recs'[n].status # "absent"
BY DEF RecMoves, Taken, Written, Added, Decided, Swept

\* What the store shows may only grow older.
Ages(v, u) == \A m \in Nodes : Older(v[m], u[m]) /\ (v[m].status # "absent" => u[m].status # "absent")

\* The record of a wire that stops waiting has changed.
LEMMA NewlySettled ==
    ASSUME NEW v, NEW u, NEW n, ~Settled(v, n), Settled(u, n)
    PROVE  \E m \in Preds(n) : \E i \in Incoming(n) :
              Edges[i].from = m /\ EdgeWaits(v[m], Edges[i]) /\ ~EdgeWaits(u[m], Edges[i])
BY Wired DEF Settled

\* What a pass sees is no worse in an older store.
LEMMA SeenAges ==
    ASSUME NEW l, NEW v, NEW u, Ages(v, u), NEW n, SeenSettled(l, v, n)
    PROVE  SeenSettled(l, u, n)
<1>1. ASSUME NEW i \in Incoming(n) PROVE ~EdgeWaits(SeenBy(l, u, Edges[i].from), Edges[i])
  <2> DEFINE m == Edges[i].from
  <2>1. m \in Nodes
    BY Wired
  <2>2. ~EdgeWaits(SeenBy(l, v, m), Edges[i])
    BY DEF SeenSettled
  <2> HIDE DEF m
  <2>3. CASE l.index[m] # Unread
    BY <2>2, <2>3 DEF SeenBy, m
  <2>4. CASE l.index[m] = Unread
    <3>1. Older(Outcome(v[m].status, v[m].ports), Outcome(u[m].status, u[m].ports))
      BY <2>1 DEF Ages, Older, Outcome
    <3>2. ~EdgeWaits(Outcome(v[m].status, v[m].ports), Edges[i])
      BY <2>2, <2>4 DEF SeenBy
    <3>3. ~EdgeWaits(Outcome(u[m].status, u[m].ports), Edges[i])
      BY <3>1, <3>2, NeverWaitsAgain
    <3> QED BY <2>4, <3>3 DEF SeenBy, m
  <2> QED BY <2>3, <2>4
<1> QED BY <1>1 DEF SeenSettled

\* The steps of others do not disturb what a process holds or is on its way to do.
LEMMA OthersHold ==
    ASSUME NEW l \in Locals, NEW v, NEW u, Ages(v, u)
    PROVE  /\ InPlace(l, v) => InPlace(l, u)
           /\ \A n : TakesUp(l, v, n) => TakesUp(l, u, n)
<1>0. \A m \in Nodes : (Answered(v[m].status) => Answered(u[m].status))
                    /\ (v[m].status # "absent" => u[m].status # "absent")
  BY AnsweredStays DEF Ages
<1>1. ASSUME PlaceHolds(l, v) PROVE PlaceHolds(l, u)
  <2>1. l.node \in Nodes
    BY DEF Locals
  <2> QED BY <1>0, <1>1, <2>1 DEF PlaceHolds
<1>2. ASSUME LevelsStand(l, v), l.pc = "pass" PROVE LevelsStand(l, u)
  <2>1. \A f \in Levels(l.frames) : f.node \in Nodes
    <3>1. l.frames \in Seq([node : Nodes, left : SUBSET Nodes])
      BY DEF Locals
    <3>2. Levels(l.frames) \subseteq [node : Nodes, left : SUBSET Nodes]
      BY <3>1, LevelsAre
    <3> QED BY <3>2
  <2> QED BY <1>0, <1>2, <2>1 DEF LevelsStand
<1>3. ASSUME KeptReading(l, v) PROVE KeptReading(l, u)
  BY <1>0, <1>3, Wired DEF KeptReading
<1>4. ASSUME NEW n, TakesUp(l, v, n) PROVE TakesUp(l, u, n)
  BY <1>4, SeenAges DEF TakesUp
<1> QED BY <1>1, <1>2, <1>3, <1>4 DEF InPlace, LevelsStand

\* Crashes are never taken back.
LEMMA CrashesStay ==
    ASSUME TypeOK, [Next]_vars, faults'.crash = 0
    PROVE  faults.crash = 0
<1>1. /\ faults \in [crash : 0 .. MaxCrashes, lapse : 0 .. MaxLapses, store : 0 .. MaxStoreErrors]
      /\ faults.crash \in Nat
  BY BudgetAssumption DEF TypeOK
<1>2. faults' = faults \/ faults'.crash = faults.crash \/ faults'.crash = faults.crash + 1
  BY <1>1 DEF Next, vars, Claim, ClaimLapsed, WorkerStep, LoadRun, LoseLease, Execute, Requeue, Refuse, Fail, Skip,
     Park, WriteAndGo, SetParked, PlanAdvance, Commit, CommitError, AdvanceStep, Advance, VisitDependent, EndLevel,
     Complete, Approve, AskParked, Unpark, Cancel, SweepNode, Reap, AbandonIfStuck, GrowOld, Crash
<1> QED BY <1>1, <1>2

\* A step that pays what it owes keeps the invariant.
LEMMA StrandStep ==
    ASSUME TypeOK, TypeOK', NEW S, StrandInv(S), NEW p \in Procs, NEW l, Moves(p, l), Owes(p, S),
           RunEnded => RunEnded', faults'.crash = 0 => faults.crash = 0
    PROVE  StrandInv(S)'
<1>0. /\ proc'[p] = l /\ \A q \in Procs : q # p => proc'[q] = proc[q]
      /\ \A q \in Procs : proc[q] \in Locals
  BY DEF TypeOK, Moves, LocalMoves
<1>1. Ages(recs, recs')
  BY RecordAges, RecordStays DEF Moves, Ages
<1>2. Doomed => Doomed'
  <2>1. ASSUME NEW m \in Nodes, Failing(m) PROVE Failing(m)'
    BY <1>1, <2>1 DEF Ages, Older, Failing, Answered, IsTerminalStatus, TerminalStatuses
  <2> QED BY <2>1 DEF Doomed
<1>3. \A q \in Procs : InPlace(proc'[q], recs')
  BY <1>0, <1>1, OthersHold DEF StrandInv, Owes
<1>4. \A n \in Roots : recs'[n].status # "absent"
  BY <1>1 DEF StrandInv, Ages, Roots
<1>5. SuccessFromDrop'
  <2>1. ASSUME NEW m \in Nodes, recs'[m].status = "succeeded" PROVE FromDrop(m, recs'[m])
    <3>1. CASE recs[m].status = "succeeded"
      <4>1. FromDrop(m, recs[m]) /\ Older(recs[m], recs'[m])
        BY <1>1, <3>1 DEF StrandInv, SuccessFromDrop, Ages
      <4> QED BY <3>1, <4>1 DEF Older, FromDrop, Answered, IsTerminalStatus, TerminalStatuses
    <3> QED BY <2>1, <3>1 DEF Owes
  <2> QED BY <2>1 DEF SuccessFromDrop, FromDrop
<1>6. SkipsExpected(S)'
  BY <1>2 DEF StrandInv, SkipsExpected, Owes
<1>7. ASSUME faults'.crash = 0 PROVE FailureTold'
  <2>1. ASSUME NEW m \in Nodes, Failing(m)', ~RunEnded' PROVE \E q \in Movers : Tells(proc'[q], m)
    <3>0. failurePropagates(m) /\ recs'[m].status = "failed" /\ ~RunEnded
      BY <2>1 DEF Failing, failurePropagates
    <3>1. CASE recs[m].status # "failed" \/ Tells(proc[p], m)
      BY <1>7, <2>1, <3>0, <3>1 DEF Owes
    <3>2. CASE recs[m].status = "failed" /\ ~Tells(proc[p], m)
      <4>1. PICK q \in Movers : Tells(proc[q], m)
        BY <1>7, <3>0, <3>2 DEF StrandInv, FailureTold, Failing
      <4>2. q \in Procs /\ q # p
        BY <3>2, <4>1 DEF Movers, Procs
      <4> QED BY <1>0, <4>1, <4>2
    <3> QED BY <3>1, <3>2
  <2> QED BY <2>1 DEF FailureTold, Tells
<1>8. ASSUME faults'.crash = 0 PROVE AllAttended'
  <2>1. ASSUME NEW n \in Nodes \ Roots, recs'[n].status = "absent", Settled(recs', n), ~Doomed'
        PROVE  \E q \in Movers : TakesUp(proc'[q], recs', n)
    <3>0. recs[n].status = "absent" /\ ~Doomed
      BY <1>1, <1>2, <2>1 DEF Ages
    <3>1. CASE TakesUp(proc[p], recs, n) \/ ~Settled(recs, n)
      BY <1>8, <2>1, <3>0, <3>1 DEF Owes
    <3>2. CASE ~TakesUp(proc[p], recs, n) /\ Settled(recs, n)
      <4>1. PICK q \in Movers : TakesUp(proc[q], recs, n)
        BY <1>8, <3>0, <3>2 DEF StrandInv, AllAttended
      <4>2. q \in Procs /\ q # p
        BY <3>2, <4>1 DEF Movers, Procs
      <4> QED BY <1>0, <1>1, <4>1, <4>2, OthersHold
    <3> QED BY <3>1, <3>2
  <2> QED BY <2>1 DEF AllAttended, Settled, TakesUp, SeenSettled, SeenBy
<1> QED BY <1>3, <1>4, <1>5, <1>6, <1>7, <1>8 DEF StrandInv, InPlace, PlaceHolds, LevelsStand, KeptReading

-----------------------------------------------------------------------------
(* Steps that owe little.                                                  *)

\* A point of the code at which nothing is held.
LEMMA InPlaceOff ==
    ASSUME NEW l, NEW v, l.index = NoIndex,
           l.pc \notin {"park", "setParked", "advance", "skip", "plan", "commit", "pass"}
    PROVE  InPlace(l, v)
BY DEF InPlace, PlaceHolds, LevelsStand, KeptReading

\* A process that was not about to advance the run, and settles no wire.
LEMMA OwesLittle ==
    ASSUME TypeOK, NEW p \in Procs, NEW S, InPlace(proc'[p], recs'),
           proc[p].pc \notin {"setParked", "advance", "pass", "complete"},
           \A m \in Nodes : recs'[m] = recs[m] \/ recs'[m].status \in {"queued", "running"}
    PROVE  Owes(p, S)
<1>1. \A m \in Nodes : recs'[m].status \in {"succeeded", "skipped", "failed"} => recs'[m] = recs[m]
  OBVIOUS
<1>2. \A m : ~Tells(proc[p], m) /\ ~TakesUp(proc[p], recs, m)
  BY DEF Tells, TakesUp
<1>3. ASSUME NEW n, ~Settled(recs, n) PROVE ~Settled(recs', n)
  <2>1. PICK i \in Incoming(n) : EdgeWaits(recs[Edges[i].from], Edges[i])
    BY <1>3 DEF Settled
  <2>2. Edges[i].from \in Nodes
    BY Wired
  <2>3. EdgeWaits(recs'[Edges[i].from], Edges[i])
    <3>1. CASE recs'[Edges[i].from].status \in {"queued", "running"}
      BY <3>1 DEF EdgeWaits, IsTerminalStatus, TerminalStatuses
    <3> QED BY <2>1, <2>2, <3>1
  <2> QED BY <2>3 DEF Settled
<1> QED BY <1>1, <1>2, <1>3 DEF Owes

\* Once the run has ended nothing is owed but the books.
LEMMA OwesEnded ==
    ASSUME NEW p \in Procs, NEW S, InPlace(proc'[p], recs'), RunEnded',
           \A m \in Nodes : recs'[m] = recs[m] \/ recs'[m].status = "cancelled"
    PROVE  Owes(p, S)
BY DEF Owes, Doomed

\* A crash forgets; nothing is claimed of a run that met one.
LEMMA OwesCrash ==
    ASSUME TypeOK, NEW p \in Procs, NEW S, Crash(p)
    PROVE  Owes(p, S)
<1>1. proc'[p] = Idle /\ recs' = recs
  BY DEF Crash, Become, TypeOK
<1>2. Idle.pc = "idle" /\ Idle.index = NoIndex
  BY DEF Idle
<1>3. InPlace(proc'[p], recs')
  BY <1>1, <1>2, InPlaceOff
<1>4. faults'.crash # 0
  <2>1. faults.crash \in Nat /\ faults'.crash = faults.crash + 1
    BY BudgetAssumption DEF TypeOK, Crash
  <2> QED BY <2>1
<1> QED BY <1>1, <1>3, <1>4 DEF Owes

\* A process that goes idle or leaves.
LEMMA LeavesInPlace ==
    ASSUME TypeOK, NEW p \in Procs, Become(p, Idle) \/ Leave(p)
    PROVE  InPlace(proc'[p], recs') /\ proc'[p].pc \in {"idle", "askParked"}
<1> DEFINE ask == [Idle EXCEPT !.pc = "askParked", !.node = Me(p).node]
<1>1. proc'[p] = Idle \/ proc'[p] = ask
  BY DEF Become, Leave, TypeOK
<1>2. Idle.pc = "idle" /\ Idle.index = NoIndex /\ ask.pc = "askParked" /\ ask.index = NoIndex
  BY DEF Idle
<1> HIDE DEF ask
<1> QED BY <1>1, <1>2, InPlaceOff

\* A claim.
LEMMA ClaimOwes ==
    ASSUME FlowInv, NEW w \in Workers, NEW n \in Nodes, Claim(w, n) \/ ClaimLapsed(w, n), NEW S
    PROVE  Owes(w, S)
<1>0. TypeOK /\ w \in Procs /\ TakeRecord(w, n)
  BY DEF FlowInv, Procs, Claim, ClaimLapsed
<1>1. proc[w].pc = "idle" /\ proc'[w].pc = "load" /\ proc'[w].index = NoIndex
  BY <1>0 DEF TakeRecord, Become, TypeOK, Idle
<1>2. \A m \in Nodes : recs'[m] = recs[m] \/ recs'[m].status \in {"queued", "running"}
  BY <1>0 DEF TakeRecord, TypeOK, NodeRecs
<1> QED BY <1>0, <1>1, <1>2, InPlaceOff, OwesLittle

\* Before the worker writes.
LEMMA WorkerOwes ==
    ASSUME FlowInv, NEW w \in Workers, LoadRun(w) \/ LoseLease(w) \/ Requeue(w), NEW S, InPlace(proc[w], recs)
    PROVE  Owes(w, S)
<1>0. TypeOK /\ w \in Procs /\ Me(w) = proc[w] /\ proc[w] \in Locals
  BY DEF FlowInv, Procs, Me, TypeOK
<1>1. CASE LoadRun(w)
  <2>1. PICK pc \in {"refuse", "skip", "exec"} : Goto(w, pc) /\ (pc = "skip" => proc[w].node \in SkipNodes)
    BY <1>0, <1>1 DEF LoadRun
  <2>2. /\ proc[w].pc = "load" /\ recs' = recs
        /\ proc'[w].pc = pc /\ proc'[w].index = proc[w].index /\ proc'[w].node = proc[w].node
    BY <1>0, <1>1, <2>1 DEF LoadRun, Goto, TypeOK, Locals
  <2>3. proc[w].index = NoIndex
    BY <2>2 DEF InPlace, PlaceHolds
  <2>4. InPlace(proc'[w], recs')
    BY <2>1, <2>2, <2>3 DEF InPlace, PlaceHolds, LevelsStand, KeptReading
  <2> QED BY <1>0, <2>2, <2>4, OwesLittle
<1>2. CASE LoseLease(w)
  <2>1. Become(w, Idle) /\ recs' = recs /\ proc[w].pc \in {"load", "exec"}
    BY <1>0, <1>2 DEF LoseLease
  <2> QED BY <1>0, <2>1, LeavesInPlace, OwesLittle
<1>3. CASE Requeue(w)
  <2>1. Become(w, Idle) /\ proc[w].pc = "requeue"
    BY <1>0, <1>3 DEF Requeue
  <2>2. \A m \in Nodes : recs'[m] = recs[m] \/ recs'[m].status \in {"queued", "running"}
    <3> DEFINE n == proc[w].node
               r == [recs[n] EXCEPT !.status = "queued", !.worker = Nobody]
    <3>1. n \in Nodes /\ recs[n] \in NodeRecs
      BY <1>0 DEF TypeOK, Locals
    <3>2. recs' = recs \/ recs' = [recs EXCEPT ![n] = r]
      BY <1>0, <1>3, <3>1 DEF Requeue, TypeOK, NodeRecs
    <3>3. r.status = "queued"
      BY <3>1 DEF NodeRecs
    <3> HIDE DEF r, n
    <3> QED BY <1>0, <3>1, <3>2, <3>3 DEF TypeOK
  <2> QED BY <1>0, <2>1, <2>2, LeavesInPlace, OwesLittle
<1> QED BY <1>1, <1>2, <1>3

\* The drop answers.
LEMMA ExecuteOwes ==
    ASSUME FlowInv, NEW w \in Workers, NEW b \in Behaviours[Me(w).node], Execute(w, b), NEW S,
           InPlace(proc[w], recs)
    PROVE  Owes(w, S)
<1>0. TypeOK /\ w \in Procs /\ Me(w) = proc[w] /\ proc[w] \in Locals /\ proc[w].pc = "exec" /\ recs' = recs
  BY DEF FlowInv, Procs, Me, TypeOK, Execute
<1>1. b.status \in {"succeeded", "failed", "timeout", "awaiting", "deferred", "error"}
  BY <1>0, BehaviourAssumption DEF Locals
<1> DEFINE st == IF b.status = "timeout" THEN "failed" ELSE b.status
           next == CASE b.status = "awaiting" -> "park"
                     [] b.status = "error" -> "fail"
                     [] b.status = "deferred" -> "requeue"
                     [] b.status = "failed" /\ RetryAllowed(Me(w).node, Me(w).attempt) -> "requeue"
                     [] OTHER -> "plan"
           l == [Me(w) EXCEPT !.status = st, !.ports = b.ports, !.pc = next]
<1>2. /\ next \in {"park", "fail", "requeue", "plan"}
      /\ next = "park" => st = "awaiting"
      /\ st = "succeeded" => b.status = "succeeded"
  BY <1>1
<1>3. proc'[w] = l
  BY <1>0 DEF Execute, Become, TypeOK
<1> HIDE DEF st, next
<1>4. l.pc = next /\ l.status = st /\ l.ports = b.ports /\ l.index = proc[w].index /\ l.node = proc[w].node
  BY <1>0 DEF Locals
<1> HIDE DEF l
<1>5. l.index = NoIndex
  BY <1>0, <1>4 DEF InPlace, PlaceHolds
<1>6. InPlace(proc'[w], recs')
  BY <1>0, <1>2, <1>3, <1>4, <1>5 DEF InPlace, PlaceHolds, LevelsStand, KeptReading
<1> QED BY <1>0, <1>6, OwesLittle

\* The plan.
LEMMA PlanOwes ==
    ASSUME FlowInv, NEW w \in Workers, PlanAdvance(w), NEW S, InPlace(proc[w], recs)
    PROVE  Owes(w, S)
<1>0. TypeOK /\ w \in Procs /\ Me(w) = proc[w] /\ proc[w] \in Locals /\ proc[w].pc = "plan" /\ recs' = recs
  BY DEF FlowInv, Procs, Me, TypeOK, PlanAdvance
<1> DEFINE n == proc[w].node
           known == [recs EXCEPT ![n] = Outcome(proc[w].status, proc[w].ports)]
           sure == IF advances(n, proc[w].status)
                     THEN {d \in Dependents(n) : analyzeDependent(known, d) = "enqueue"}
                     ELSE {}
           again == advances(n, proc[w].status) /\ sure # Dependents(n)
           l == [proc[w] EXCEPT !.pc = "commit", !.deps = sure, !.revisit = again]
<1>1. proc'[w] = l
  BY <1>0 DEF TypeOK, PlanAdvance, Become
<1>2. IF advances(n, proc[w].status) THEN again \/ sure = Dependents(n) ELSE ~again /\ sure = {}
  OBVIOUS
<1> HIDE DEF sure, again
<1>3. /\ l.pc = "commit" /\ l.deps = sure /\ l.revisit = again /\ l.node = n /\ l.index = proc[w].index
      /\ l.status = proc[w].status /\ l.ports = proc[w].ports
  BY <1>0 DEF Locals
<1> HIDE DEF l
<1>4. l.index = NoIndex
  BY <1>0, <1>3 DEF InPlace, PlaceHolds
<1>5. l.status = "succeeded" => \E b \in Behaviours[l.node] : b.status = "succeeded" /\ b.ports = l.ports
  BY <1>0, <1>3 DEF InPlace, PlaceHolds
<1>6. InPlace(proc'[w], recs')
  BY <1>1, <1>2, <1>3, <1>4, <1>5 DEF InPlace, PlaceHolds, LevelsStand, KeptReading
<1> QED BY <1>0, <1>6, OwesLittle

\* The parked flag after a decision, the start of a cancel, the reaper.
LEMMA OthersOwe ==
    ASSUME FlowInv, NEW p \in Procs, NEW S, InPlace(proc[p], recs),
           AskParked(p) \/ Unpark(p) \/ Cancel(p) \/ Reap(p) \/ AbandonIfStuck(p)
    PROVE  Owes(p, S)
<1>0. TypeOK /\ Me(p) = proc[p] /\ proc[p] \in Locals /\ recs' = recs
  BY DEF FlowInv, Me, TypeOK, AskParked, Unpark, Cancel, Reap, AbandonIfStuck
<1>1. proc[p].pc \in {"askParked", "unpark", "idle", "abandon"}
  BY <1>0 DEF AskParked, Unpark, Cancel, Reap, AbandonIfStuck
<1>2. proc[p].index = NoIndex
  BY <1>1 DEF InPlace, PlaceHolds
<1>3. proc'[p].index = NoIndex /\ proc'[p].pc \in {"idle", "unpark", "sweep", "abandon"}
  <2>1. CASE Become(p, Idle)
    BY <1>0, <2>1 DEF Become, TypeOK, Idle
  <2>2. CASE Goto(p, "unpark") \/ Goto(p, "abandon")
    BY <1>0, <1>2, <2>2 DEF Goto, TypeOK, Locals
  <2>3. CASE Cancel(p)
    BY <1>0, <2>3 DEF Cancel, Become, TypeOK, Idle
  <2>4. CASE Reap(p) /\ UNCHANGED proc
    BY <1>0, <1>2, <2>4 DEF Reap
  <2> QED BY <2>1, <2>2, <2>3, <2>4 DEF AskParked, Unpark, Reap, AbandonIfStuck
<1>4. InPlace(proc'[p], recs')
  BY <1>3, InPlaceOff
<1> QED BY <1>0, <1>1, <1>4, OwesLittle

\* The sweep of a cancelled run.
LEMMA SweepOwes ==
    ASSUME FlowInv, NEW c \in Cancellers, SweepNode(c), NEW S, InPlace(proc[c], recs)
    PROVE  Owes(c, S)
<1>0. TypeOK /\ c \in Procs /\ proc[c] \in Locals /\ proc[c].pc = "sweep" /\ Me(c) = proc[c]
  BY DEF FlowInv, Procs, TypeOK, SweepNode, Me
<1>1. PICK n \in proc[c].sweep :
        /\ recs' = IF recs[n].status \in OpenStatuses
                     THEN [recs EXCEPT ![n].status = "cancelled"] ELSE recs
        /\ Become(c, IF proc[c].sweep = {n} THEN Idle ELSE [proc[c] EXCEPT !.sweep = @ \ {n}])
  BY <1>0 DEF SweepNode
<1>2. RunEnded'
  BY <1>0 DEF FlowInv, CancelAfterEnd, SweepNode, RunEnded
<1>3. \A m \in Nodes : recs'[m] = recs[m] \/ recs'[m].status = "cancelled"
  BY <1>0, <1>1 DEF TypeOK, NodeRecs, Locals
<1>4. proc[c].index = NoIndex
  BY <1>0 DEF InPlace, PlaceHolds
<1>5. proc'[c].index = NoIndex /\ proc'[c].pc \in {"idle", "sweep"}
  <2>1. proc'[c] \in {Idle, [proc[c] EXCEPT !.sweep = @ \ {n}]}
    BY <1>0, <1>1 DEF Become, TypeOK
  <2> QED BY <1>0, <1>4, <2>1 DEF Idle, Locals
<1>6. InPlace(proc'[c], recs')
  BY <1>5, InPlaceOff
<1> QED BY <1>0, <1>2, <1>3, <1>6, OwesEnded

-----------------------------------------------------------------------------
(* Steps that answer for a node.                                           *)

\* A pass that starts at n knows nothing but n, and will take up what n settles.
LEMMA StartsPass ==
    ASSUME NEW l, NEW v, NEW n \in Nodes, l.pc = "pass", l.frames = Pass(n), Answered(v[n].status),
           l.index[n] \in {Unread, Outcome(v[n].status, v[n].ports)},
           \A m \in Nodes \ {n} : l.index[m] = Unread
    PROVE  InPlace(l, v) /\ \A k \in Dependents(n) : Settled(v, k) => TakesUp(l, v, k)
<1> DEFINE f == [node |-> n, left |-> Dependents(n)]
<1>1. Levels(l.frames) = {f}
  BY LevelsAre DEF Pass
<1>2. f.node = n /\ f.left = Dependents(n)
  OBVIOUS
<1> HIDE DEF f
<1>3. l.index[n] = Unread \/ Answered(l.index[n].status)
  BY DEF Outcome
<1>4. LevelsStand(l, v)
  BY <1>1, <1>2, <1>3 DEF LevelsStand
<1>5. KeptReading(l, v)
  BY <1>3 DEF KeptReading
<1>6. ASSUME NEW k \in Dependents(n), Settled(v, k) PROVE TakesUp(l, v, k)
  <2>1. ASSUME NEW i \in Incoming(k) PROVE ~EdgeWaits(SeenBy(l, v, Edges[i].from), Edges[i])
    <3> DEFINE m == Edges[i].from
    <3>1. m \in Nodes /\ ~EdgeWaits(v[m], Edges[i])
      BY <1>6, Wired DEF Settled
    <3> HIDE DEF m
    <3>2. SeenBy(l, v, m) = Outcome(v[m].status, v[m].ports)
      BY <3>1 DEF SeenBy
    <3>3. SeenBy(l, v, m).status = v[m].status /\ SeenBy(l, v, m).ports = v[m].ports
      BY <3>2 DEF Outcome
    <3>4. ~EdgeWaits(SeenBy(l, v, m), Edges[i])
      BY <3>1, <3>3, WaitsAs
    <3> QED BY <3>4 DEF m
  <2> QED BY <1>1, <1>2, <2>1 DEF TakesUp, SeenSettled
<1> QED BY <1>4, <1>5, <1>6 DEF InPlace, PlaceHolds

\* A process that answers for n and goes on to tell the dependents of n.
LEMMA OwesAnswer ==
    ASSUME TypeOK, NEW p \in Movers, NEW S, NEW n \in Nodes, InPlace(proc'[p], recs'),
           proc[p].pc \notin {"setParked", "advance", "pass", "complete"},
           \A m \in Nodes \ {n} : recs'[m] = recs[m] \/ recs'[m].status \in {"queued", "running"},
           recs'[n].status = "succeeded" => FromDrop(n, recs'[n]),
           recs'[n].status = "skipped" => n \in SkipNodes,
           failurePropagates(n) /\ recs'[n].status = "failed" /\ ~RunEnded' => Tells(proc'[p], n),
           ~Doomed' => \A k \in Dependents(n) :
               recs'[k].status = "absent" /\ Settled(recs', k) => TakesUp(proc'[p], recs', k)
    PROVE  Owes(p, S)
<1>1. \A m : ~Tells(proc[p], m) /\ ~TakesUp(proc[p], recs, m)
  BY DEF Tells, TakesUp
<1>2. ASSUME NEW k \in Nodes, ~Settled(recs, k), Settled(recs', k) PROVE k \in Dependents(n)
  <2>1. PICK m \in Preds(k) : \E i \in Incoming(k) :
            Edges[i].from = m /\ EdgeWaits(recs[m], Edges[i]) /\ ~EdgeWaits(recs'[m], Edges[i])
    BY <1>2, NewlySettled
  <2>2. PICK i \in Incoming(k) : EdgeWaits(recs[m], Edges[i]) /\ ~EdgeWaits(recs'[m], Edges[i])
    BY <2>1
  <2>3. m \in Nodes
    BY Wired
  <2>4. recs'[m] # recs[m] /\ recs'[m].status \notin {"queued", "running"}
    BY <2>2, WaitsUnanswered DEF Answered, IsTerminalStatus, TerminalStatuses
  <2>5. m = n
    BY <2>3, <2>4
  <2> QED BY <2>5, Wired
<1>3. \A m \in Nodes : recs'[m].status \in {"succeeded", "skipped", "failed"} => m = n \/ recs'[m] = recs[m]
  OBVIOUS
<1>4. \A m \in Nodes : recs'[m].status = "succeeded" => recs[m].status = "succeeded" \/ FromDrop(m, recs'[m])
  BY <1>3
<1>5. \A m \in Nodes : recs'[m].status = "skipped" => recs[m].status = "skipped" \/ m \in S \cup SkipNodes
  BY <1>3
<1>6. ~RunEnded' => \A m \in Nodes :
          failurePropagates(m) /\ recs'[m].status = "failed" /\ (recs[m].status # "failed" \/ Tells(proc[p], m)) =>
              Tells(proc'[p], m)
  BY <1>1, <1>3
<1>7. ~Doomed' => \A k \in Nodes \ Roots :
          recs'[k].status = "absent" /\ Settled(recs', k) /\ ~Settled(recs, k) => TakesUp(proc'[p], recs', k)
  BY <1>2
<1> QED BY <1>1, <1>4, <1>5, <1>6, <1>7 DEF Owes

\* failNode, the skip and the park; and a refusal to run a step of an ended run.
LEMMA WritesOwe ==
    ASSUME FlowInv, NEW w \in Workers, NEW S, InPlace(proc[w], recs),
           Refuse(w) \/ Fail(w) \/ Skip(w) \/ Park(w)
    PROVE  Owes(w, S)
<1>0. TypeOK /\ w \in Procs /\ w \in Movers
  BY DEF FlowInv, Procs, Movers
<1> DEFINE n == proc[w].node
<1>1. /\ Me(w) \in Locals /\ Me(w) = proc[w] /\ n \in Nodes /\ recs[n] \in NodeRecs
      /\ proc[w].pc \in {"refuse", "fail", "skip", "park"}
  BY <1>0, MineTyped DEF Locals, TypeOK, Refuse, Fail, Skip, Park
<1>2. proc[w].index = NoIndex
  BY <1>1 DEF InPlace, PlaceHolds
<1>3. CASE Become(w, Idle) /\ recs' = recs
  BY <1>0, <1>1, <1>3, LeavesInPlace, OwesLittle
<1>4. ASSUME NEW st, NEW ports, recs' = [recs EXCEPT ![Me(w).node].status = st, ![Me(w).node].ports = ports]
      PROVE  recs'[n].status = st /\ recs'[n].ports = ports /\ \A m \in Nodes \ {n} : recs'[m] = recs[m]
  <2> DEFINE r == [recs[n] EXCEPT !.status = st, !.ports = ports]
  <2>1. recs' = [recs EXCEPT ![n] = r]
    BY <1>0, <1>1, <1>4 DEF TypeOK, NodeRecs
  <2>2. r.status = st /\ r.ports = ports
    BY <1>1 DEF NodeRecs
  <2> HIDE DEF r
  <2> QED BY <1>0, <1>1, <2>1, <2>2 DEF TypeOK
<1>5. CASE Refuse(w) /\ Become(w, Idle) /\ recs' = [recs EXCEPT ![Me(w).node].status = "cancelled", ![Me(w).node].ports = {}]
  <2>1. RunEnded'
    BY <1>0, <1>1, <1>5 DEF Refuse, FlowInv, CancelAfterEnd, WriteAndGo, RunEnded
  <2>2. \A m \in Nodes : recs'[m] = recs[m] \/ recs'[m].status = "cancelled"
    BY <1>1, <1>4, <1>5
  <2> QED BY <1>0, <1>5, <2>1, <2>2, LeavesInPlace, OwesEnded
<1> DEFINE lf == [Me(w) EXCEPT !.pc = "advance", !.status = "failed"]
<1>6. CASE Become(w, lf) /\ recs' = [recs EXCEPT ![Me(w).node].status = "failed", ![Me(w).node].ports = {}]
  <2>1. recs'[n].status = "failed" /\ \A m \in Nodes \ {n} : recs'[m] = recs[m]
    BY <1>4, <1>6
  <2>2. /\ proc'[w].pc = "advance" /\ proc'[w].node = n /\ proc'[w].status = "failed"
        /\ proc'[w].index = NoIndex
    BY <1>0, <1>1, <1>2, <1>6 DEF Become, TypeOK, Locals
  <2> HIDE DEF lf, n
  <2>3. InPlace(proc'[w], recs')
    BY <2>1, <2>2 DEF InPlace, PlaceHolds, LevelsStand, KeptReading, Answered, IsTerminalStatus, TerminalStatuses
  <2>4. Tells(proc'[w], n)
    BY <2>2 DEF Tells
  <2>5. ASSUME ~Doomed', NEW k \in Dependents(n) PROVE TakesUp(proc'[w], recs', k)
    <3>1. ~failurePropagates(n)
      BY <1>1, <2>1, <2>5 DEF Doomed, Failing, n
    <3>2. advances(n, "failed") /\ n \in Preds(k)
      BY <3>1, Wired DEF advances
    <3> QED BY <2>2, <3>2 DEF TakesUp
  <2> QED BY <1>0, <1>1, <2>1, <2>3, <2>4, <2>5, OwesAnswer DEF n
<1> DEFINE ls == [Me(w) EXCEPT !.pc = "pass", !.status = "skipped", !.frames = Pass(Me(w).node)]
<1>7. CASE Skip(w) /\ Become(w, ls) /\ recs' = [recs EXCEPT ![Me(w).node].status = "skipped", ![Me(w).node].ports = {}]
  <2>1. recs'[n].status = "skipped" /\ \A m \in Nodes \ {n} : recs'[m] = recs[m]
    BY <1>4, <1>7
  <2>2. proc'[w].pc = "pass" /\ proc'[w].frames = Pass(n) /\ proc'[w].index = NoIndex
    BY <1>0, <1>1, <1>2, <1>7 DEF Become, TypeOK, Locals
  <2>3. n \in SkipNodes
    BY <1>1, <1>7 DEF Skip, InPlace, PlaceHolds
  <2> HIDE DEF ls, n
  <2>4. Answered(recs'[n].status)
    BY <2>1 DEF Answered, IsTerminalStatus, TerminalStatuses
  <2>5. \A m \in Nodes : proc'[w].index[m] = Unread
    BY <2>2 DEF NoIndex
  <2>6. InPlace(proc'[w], recs') /\ \A k \in Dependents(n) : Settled(recs', k) => TakesUp(proc'[w], recs', k)
    BY <1>1, <2>2, <2>4, <2>5, StartsPass DEF n
  <2> QED BY <1>0, <1>1, <2>1, <2>3, <2>6, OwesAnswer DEF n
<1> DEFINE lp == [Me(w) EXCEPT !.pc = "setParked"]
<1>8. CASE Park(w) /\ Become(w, lp) /\ recs' = [recs EXCEPT ![Me(w).node].status = "awaiting", ![Me(w).node].ports = Me(w).ports]
  <2>1. recs'[n].status = "awaiting" /\ \A m \in Nodes \ {n} : recs'[m] = recs[m]
    BY <1>4, <1>8
  <2>2. proc[w].status = "awaiting"
    BY <1>1, <1>8 DEF Park, InPlace, PlaceHolds
  <2>3. /\ proc'[w].pc = "setParked" /\ proc'[w].node = n /\ proc'[w].status = "awaiting"
        /\ proc'[w].index = NoIndex
    BY <1>0, <1>1, <1>2, <1>8, <2>2 DEF Become, TypeOK, Locals
  <2> HIDE DEF lp, n
  <2>4. InPlace(proc'[w], recs')
    BY <2>1, <2>3 DEF InPlace, PlaceHolds, LevelsStand, KeptReading, Answered
  <2>5. ASSUME NEW k \in Dependents(n) PROVE TakesUp(proc'[w], recs', k)
    BY <2>3, Wired DEF TakesUp, advances
  <2> QED BY <1>0, <1>1, <2>1, <2>4, <2>5, OwesAnswer DEF n
<1> HIDE DEF lf, ls, lp
<1> QED BY <1>3, <1>5, <1>6, <1>7, <1>8 DEF Refuse, Fail, Skip, Park, WriteAndGo, lf, ls, lp

\* A decision.
LEMMA ApproveOwes ==
    ASSUME FlowInv, Clean, NEW a \in Approvers, NEW n \in Nodes, NEW port \in {"approved", "rejected"},
           Approve(a, n, port), NEW S
    PROVE  Owes(a, S)
<1>0. TypeOK /\ a \in Procs /\ a \in Movers /\ proc[a].pc = "idle" /\ recs[n].status = "awaiting" /\ recs[n] \in NodeRecs
  BY DEF FlowInv, Procs, Movers, Approve, Me, TypeOK
<1> DEFINE new == (recs[n].ports \ {"context"}) \cup {port, "approver", "comment"}
           r == [recs[n] EXCEPT !.status = "succeeded", !.ports = new]
           l == [Idle EXCEPT !.pc = "advance", !.node = n, !.status = "succeeded"]
<1>1. recs' = [recs EXCEPT ![n] = r]
  BY <1>0 DEF Approve, TypeOK, NodeRecs
<1> HIDE DEF new
<1>2. r.status = "succeeded"
  BY <1>0 DEF NodeRecs
<1>3. l.pc = "advance" /\ l.status = "succeeded" /\ l.index = NoIndex /\ l.node = n
  BY DEF Idle
<1>4. proc'[a] = l
  BY <1>0 DEF Approve, Become, TypeOK
<1> HIDE DEF r, l
<1>5. recs'[n].status = "succeeded" /\ \A m \in Nodes \ {n} : recs'[m] = recs[m]
  BY <1>0, <1>1, <1>2 DEF TypeOK
<1>6. FromDrop(n, recs'[n])
  BY <1>0 DEF Clean, ParkedAsAnswered, AsAnswered, FromDrop
<1>7. InPlace(proc'[a], recs')
  BY <1>3, <1>4, <1>5 DEF InPlace, PlaceHolds, LevelsStand, KeptReading, Answered, IsTerminalStatus, TerminalStatuses
<1>8. ASSUME NEW k \in Dependents(n) PROVE TakesUp(proc'[a], recs', k)
  BY <1>3, <1>4, Wired DEF TakesUp, advances
<1> QED BY <1>0, <1>5, <1>6, <1>7, <1>8, OwesAnswer

-----------------------------------------------------------------------------
(* Steps that advance the run.                                             *)

\* A process that was on its way and still is, with no record touched.
LEMMA OwesMove ==
    ASSUME NEW p \in Movers, NEW S, recs' = recs, InPlace(proc'[p], recs'),
           ~RunEnded' => \A m \in Nodes : failurePropagates(m) /\ Tells(proc[p], m) => Tells(proc'[p], m),
           ~Doomed' => \A n \in Nodes : recs[n].status = "absent" /\ Settled(recs, n) /\ TakesUp(proc[p], recs, n) =>
               TakesUp(proc'[p], recs, n)
    PROVE  Owes(p, S)
BY DEF Owes

\* SetGraphRunParked, then on to AdvanceAfterCompletion.
LEMMA SetParkedOwes ==
    ASSUME FlowInv, NEW w \in Workers, NEW S, InPlace(proc[w], recs), SetParked(w)
    PROVE  Owes(w, S)
<1>0. /\ TypeOK /\ w \in Procs /\ w \in Movers /\ proc[w] \in Locals /\ proc[w].pc = "setParked"
      /\ Goto(w, "advance") /\ recs' = recs
  BY DEF FlowInv, Procs, Movers, TypeOK, SetParked, Me
<1>1. /\ proc'[w].pc = "advance" /\ proc'[w].node = proc[w].node /\ proc'[w].status = proc[w].status
      /\ proc'[w].index = proc[w].index
  BY <1>0 DEF Goto, TypeOK, Locals
<1>2. InPlace(proc'[w], recs')
  BY <1>0, <1>1 DEF InPlace, PlaceHolds, LevelsStand, KeptReading
<1>3. \A m : ~Tells(proc[w], m)
  BY <1>0 DEF Tells
<1>4. \A n : TakesUp(proc[w], recs, n) => TakesUp(proc'[w], recs, n)
  BY <1>0, <1>1 DEF TakesUp
<1> QED BY <1>0, <1>2, <1>3, <1>4, OwesMove

\* AdvanceAfterCompletion starts the pass, or goes on to fail the run.
LEMMA AdvanceOwes ==
    ASSUME FlowInv, NEW p \in Movers, NEW S, InPlace(proc[p], recs), Advance(p)
    PROVE  Owes(p, S)
<1>0. /\ TypeOK /\ p \in Procs /\ proc[p] \in Locals /\ proc[p].node \in Nodes /\ proc[p].pc = "advance" /\ recs' = recs
      /\ run' = run /\ Me(p) = proc[p]
  BY DEF FlowInv, Procs, Movers, TypeOK, Advance, Me, Locals
<1>1. proc[p].index = NoIndex /\ Answered(recs[proc[p].node].status)
  BY <1>0 DEF InPlace, PlaceHolds
<1>2. CASE RunEnded
  <2>1. Leave(p) /\ RunEnded'
    BY <1>0, <1>2 DEF Advance, RunEnded
  <2> QED BY <1>0, <2>1, LeavesInPlace, OwesEnded
<1>3. CASE ~RunEnded /\ advances(proc[p].node, proc[p].status)
  <2> DEFINE l == [proc[p] EXCEPT !.pc = "pass", !.frames = Pass(proc[p].node), !.index = NoIndex, !.enq = FALSE]
  <2>1. proc'[p] = l
    BY <1>0, <1>3 DEF Advance, Become, TypeOK
  <2>2. l.pc = "pass" /\ l.frames = Pass(proc[p].node) /\ l.index = NoIndex
    BY <1>0 DEF Locals
  <2> HIDE DEF l
  <2>3. \A m \in Nodes : l.index[m] = Unread
    BY <2>2 DEF NoIndex
  <2>4. InPlace(l, recs) /\ \A k \in Dependents(proc[p].node) : Settled(recs, k) => TakesUp(l, recs, k)
    BY <1>0, <1>1, <2>2, <2>3, StartsPass
  <2>5. \A m \in Nodes : failurePropagates(m) => ~Tells(proc[p], m)
    BY <1>3 DEF Tells, advances
  <2>6. \A n \in Nodes : TakesUp(proc[p], recs, n) => n \in Dependents(proc[p].node)
    BY <1>0, Wired DEF TakesUp
  <2> QED BY <1>0, <2>1, <2>4, <2>5, <2>6, OwesMove
<1>4. CASE ~RunEnded /\ ~advances(proc[p].node, proc[p].status)
  <2>1. Goto(p, "complete")
    BY <1>0, <1>4 DEF Advance
  <2>2. /\ proc'[p].pc = "complete" /\ proc'[p].node = proc[p].node /\ proc'[p].status = proc[p].status
        /\ proc'[p].index = NoIndex
    BY <1>0, <1>1, <2>1 DEF Goto, TypeOK, Locals
  <2>3. \A m : Tells(proc[p], m) => Tells(proc'[p], m)
    BY <2>2 DEF Tells
  <2>4. \A n : ~TakesUp(proc[p], recs, n)
    BY <1>0, <1>4 DEF TakesUp
  <2>5. InPlace(proc'[p], recs')
    BY <2>2, InPlaceOff
  <2> QED BY <1>0, <2>3, <2>4, <2>5, OwesMove
<1> QED BY <1>2, <1>3, <1>4

\* The completion check ends a run that a failed step dooms.
LEMMA CompleteOwes ==
    ASSUME FlowInv, NEW p \in Movers, NEW S, Complete(p)
    PROVE  Owes(p, S)
<1>0. TypeOK /\ p \in Procs /\ Me(p) = proc[p] /\ proc[p].pc = "complete" /\ recs' = recs /\ Leave(p)
  BY DEF FlowInv, Procs, Movers, Complete, Me
<1>1. InPlace(proc'[p], recs')
  BY <1>0, LeavesInPlace
<1>2. \A n : ~TakesUp(proc[p], recs, n)
  BY <1>0 DEF TakesUp
<1>3. ASSUME NEW m \in Nodes, failurePropagates(m), Tells(proc[p], m) PROVE RunEnded'
  <2>1. Verdict(proc[p].node, proc[p].status) = "failed"
    BY <1>3 DEF Tells, Verdict
  <2>2. run' = IF ~RunEnded THEN "failed" ELSE run
    BY <1>0, <2>1 DEF Complete, MaybeCompleteGraph
  <2> QED BY <2>2 DEF RunEnded, IsTerminalStatus, TerminalStatuses
<1> QED BY <1>0, <1>1, <1>2, <1>3, OwesMove

\* A level that is done leaves what the levels below it have to visit.
LEMMA EndLevelOwes ==
    ASSUME FlowInv, NEW p \in Movers, NEW S, InPlace(proc[p], recs), EndLevel(p)
    PROVE  Owes(p, S)
<1> DEFINE F == [node : Nodes, left : SUBSET Nodes]
<1>0. /\ TypeOK /\ p \in Procs /\ Me(p) = proc[p] /\ proc[p] \in Locals /\ proc[p].pc = "pass" /\ recs' = recs
      /\ Head(proc[p].frames).left = {}
  BY DEF FlowInv, Procs, Movers, TypeOK, EndLevel, Me
<1>1. proc[p].frames \in Seq(F) /\ proc[p].frames # <<>>
  BY <1>0 DEF Locals, FlowInv, PassHasFrame
<1> HIDE DEF F
<1>2. \A m : ~Tells(proc[p], m)
  BY <1>0 DEF Tells
<1>3. CASE Len(proc[p].frames) > 1
  <2> DEFINE l == [proc[p] EXCEPT !.frames = Tail(@)]
  <2>1. proc'[p] = l
    BY <1>0, <1>3 DEF EndLevel, Become, TypeOK
  <2>2. l.pc = "pass" /\ l.frames = Tail(proc[p].frames) /\ l.index = proc[p].index
    BY <1>0 DEF Locals
  <2> HIDE DEF l
  <2>3. Levels(proc[p].frames) = {Head(proc[p].frames)} \cup Levels(l.frames)
    BY <1>1, <2>2, LevelsAre
  <2>4. InPlace(l, recs)
    BY <1>0, <2>2, <2>3 DEF InPlace, PlaceHolds, LevelsStand, KeptReading
  <2>5. ASSUME NEW n, TakesUp(proc[p], recs, n) PROVE TakesUp(l, recs, n)
    <3>1. PICK f \in Levels(proc[p].frames) : n \in f.left
      BY <1>0, <2>5 DEF TakesUp
    <3>2. f \in Levels(l.frames)
      BY <1>0, <2>3, <3>1
    <3>3. SeenSettled(l, recs, n)
      BY <1>0, <2>2, <2>5 DEF TakesUp, SeenSettled, SeenBy
    <3> QED BY <2>2, <3>1, <3>2, <3>3 DEF TakesUp
  <2> QED BY <1>0, <1>2, <2>1, <2>4, <2>5, OwesMove
<1>4. CASE ~(Len(proc[p].frames) > 1)
  <2>1. Levels(proc[p].frames) = {Head(proc[p].frames)}
    BY <1>1, <1>4, LevelsAre
  <2>2. \A n : ~TakesUp(proc[p], recs, n)
    BY <1>0, <2>1 DEF TakesUp
  <2> DEFINE l == [proc[p] EXCEPT !.pc = "complete", !.frames = <<>>, !.index = NoIndex, !.enq = FALSE]
  <2>3. Leave(p) \/ proc'[p] = l
    BY <1>0, <1>4 DEF EndLevel, Become, TypeOK
  <2>4. l.pc = "complete" /\ l.index = NoIndex
    BY <1>0 DEF Locals
  <2> HIDE DEF l
  <2>5. InPlace(proc'[p], recs')
    BY <1>0, <2>3, <2>4, LeavesInPlace, InPlaceOff
  <2> QED BY <1>0, <1>2, <2>2, <2>5, OwesMove
<1> QED BY <1>3, <1>4

\* CompleteAndEnqueue: the dependents are in the same write, or the pass looks again.
LEMMA CommitOwes ==
    ASSUME FlowInv, Clean, NEW w \in Workers, NEW S, InPlace(proc[w], recs), Commit(w)
    PROVE  Owes(w, S)
<1>0. TypeOK /\ w \in Procs /\ w \in Movers /\ Me(w) = proc[w] /\ proc[w] \in Locals /\ proc[w].pc = "commit" /\ run' = run
  BY DEF FlowInv, Procs, Movers, TypeOK, Me, Commit
<1> DEFINE n == proc[w].node
           st == proc[w].status
           ports == proc[w].ports
<1>1. n \in Nodes /\ recs[n] \in NodeRecs /\ st \in {"succeeded", "failed"}
  BY <1>0 DEF TypeOK, Locals, FlowInv, OutcomeToCommit
<1>2. /\ proc[w].index = NoIndex
      /\ IF advances(n, st) THEN proc[w].revisit \/ proc[w].deps = Dependents(n)
                            ELSE ~proc[w].revisit /\ proc[w].deps = {}
      /\ st = "succeeded" => \E b \in Behaviours[n] : b.status = "succeeded" /\ b.ports = ports
  BY <1>0 DEF InPlace, PlaceHolds
<1>3. CASE Become(w, Idle) /\ recs' = recs
  BY <1>0, <1>3, LeavesInPlace, OwesLittle
<1>4. CASE /\ recs' = Committed(w)
           /\ Become(w, AfterCommit(w, RunEnded, Fresh(Me(w).deps) # {}))
  <2>1. /\ recs'[n] = [recs[n] EXCEPT !.status = st, !.ports = ports]
        /\ \A m \in Nodes \ {n} : recs'[m] = recs[m] \/ recs'[m] = NodeRec("queued")
        /\ ~RunEnded => \A m \in Nodes \ {n} : m \in Fresh(proc[w].deps) => recs'[m] = NodeRec("queued")
    BY <1>0, <1>1, <1>4 DEF Committed
  <2>2. recs'[n].status = st /\ recs'[n].ports = ports
    BY <1>1, <2>1 DEF NodeRecs
  <2>3. \A m \in Nodes \ {n} : recs'[m] = recs[m] \/ recs'[m].status \in {"queued", "running"}
    BY <2>1 DEF NodeRec
  <2>4. ASSUME ~RunEnded, NEW k \in Nodes, k \in proc[w].deps PROVE recs'[k].status # "absent"
    <3>1. CASE k = n
      BY <1>1, <2>2, <3>1
    <3>2. CASE k # n /\ recs[k].status = "absent"
      BY <2>1, <2>4, <3>2 DEF Fresh, NodeRec
    <3>3. CASE k # n /\ recs[k].status # "absent"
      BY <2>1, <3>3 DEF NodeRec
    <3> QED BY <3>1, <3>2, <3>3
  <2>5. recs'[n].status = "succeeded" => FromDrop(n, recs'[n])
    BY <1>2, <2>2 DEF FromDrop
  <2>6. recs'[n].status # "skipped"
    BY <1>1, <2>2
  <2>7. Answered(recs'[n].status)
    BY <1>1, <2>2 DEF Answered, IsTerminalStatus, TerminalStatuses
  <2>8. ~Doomed' => advances(n, st)
    BY <1>1, <2>2 DEF Doomed, Failing, advances
  <2>9. \A k \in Dependents(n) : k \in Nodes
    BY Wired
  <2>10. RunEnded' <=> RunEnded
    BY <1>0 DEF RunEnded
  <2> DEFINE ix == [NoIndex EXCEPT ![n] = Outcome(st, ports)]
             enq == Fresh(proc[w].deps) # {}
             again == [proc[w] EXCEPT !.pc = "pass", !.frames = Pass(n), !.enq = enq, !.index = ix]
             check == [proc[w] EXCEPT !.pc = "complete"]
  <2>11. proc'[w] = IF RunEnded THEN Idle
                    ELSE IF proc[w].revisit THEN again
                    ELSE IF enq THEN Idle ELSE check
    BY <1>0, <1>4 DEF AfterCommit, Become, TypeOK
  <2>12. /\ again.pc = "pass" /\ again.frames = Pass(n) /\ again.index = ix
         /\ check.pc = "complete" /\ check.index = NoIndex /\ check.node = n /\ check.status = st
    BY <1>0, <1>2 DEF Locals
  <2>13. ix[n] = Outcome(st, ports) /\ \A m \in Nodes \ {n} : ix[m] = Unread
    BY <1>1 DEF NoIndex
  <2>14. Idle.pc = "idle" /\ Idle.index = NoIndex
    BY DEF Idle
  <2>15. ~proc[w].revisit /\ st = "failed" /\ failurePropagates(n) => ~enq
    BY <1>2 DEF advances, Fresh
  <2> HIDE DEF ix, enq, again, check, n, st, ports
  <2>16. CASE RunEnded
    <3>1. InPlace(proc'[w], recs')
      BY <2>11, <2>14, <2>16, InPlaceOff
    <3>2. RunEnded' /\ Doomed'
      BY <2>10, <2>16 DEF Doomed
    <3> QED BY <1>0, <1>1, <2>3, <2>5, <2>6, <3>1, <3>2, OwesAnswer
  <2>17. CASE ~RunEnded /\ proc[w].revisit
    <3>1. proc'[w] = again
      BY <2>11, <2>17
    <3>2. again.index[n] \in {Unread, Outcome(recs'[n].status, recs'[n].ports)} /\ \A m \in Nodes \ {n} : again.index[m] = Unread
      BY <2>2, <2>12, <2>13
    <3>3. InPlace(again, recs') /\ \A k \in Dependents(n) : Settled(recs', k) => TakesUp(again, recs', k)
      BY <1>1, <2>7, <2>12, <3>2, StartsPass
    <3>4. ~(failurePropagates(n) /\ recs'[n].status = "failed")
      BY <1>2, <2>2, <2>17 DEF advances, n, st
    <3> QED BY <1>0, <1>1, <2>3, <2>5, <2>6, <3>1, <3>3, <3>4, OwesAnswer
  <2>18. CASE ~RunEnded /\ ~proc[w].revisit
    <3>1. proc'[w] \in {Idle, check}
      BY <2>11, <2>18
    <3>2. InPlace(proc'[w], recs')
      BY <2>12, <2>14, <3>1, InPlaceOff
    <3>3. failurePropagates(n) /\ recs'[n].status = "failed" => Tells(proc'[w], n)
      BY <2>2, <2>11, <2>12, <2>15, <2>18 DEF Tells
    <3>4. ~Doomed' => \A k \in Dependents(n) : recs'[k].status # "absent"
      BY <1>2, <2>4, <2>8, <2>9, <2>18 DEF n, st
    <3> QED BY <1>0, <1>1, <2>3, <2>5, <2>6, <3>2, <3>3, <3>4, OwesAnswer
  <2> QED BY <2>16, <2>17, <2>18
<1> QED BY <1>3, <1>4 DEF Commit

-----------------------------------------------------------------------------
(* The visit.                                                              *)

\* A wire that is always live fails to be so only in a run that is doomed.
LEMMA LiveOrDoomed ==
    ASSUME FlowInv, NEW S, SuccessFromDrop, SkipsExpected(S), NEW i \in DOMAIN Edges, AlwaysLive(i, S),
           NEW o, Older(o, recs[Edges[i].from]), ~EdgeWaits(o, Edges[i]), classifyEdge(o, Edges[i]) # "active"
    PROVE  Doomed
<1> DEFINE e == Edges[i]
           m == Edges[i].from
           r == recs[m]
<1>0. m \in Nodes /\ e.from = m /\ e.onError \in OnErrorModes
  BY GraphAssumption
<1>1. Answered(o.status)
  BY WaitsUnanswered
<1>2. o.status # "awaiting" => r.status = o.status /\ r.ports = o.ports
  BY <1>1 DEF Older
<1> HIDE DEF r, m, e
<1>3. CASE o.status = "awaiting"
  BY <1>3 DEF EdgeWaits, classifyEdge, e
<1>4. CASE o.status = "succeeded"
  <2>1. e.onError # "fallback" /\ e.port # PassPort /\ e.port \notin o.ports
    BY <1>4 DEF AlwaysLive, classifyEdge, e
  <2>2. FromDrop(m, r)
    BY <1>0, <1>2, <1>4 DEF SuccessFromDrop, r
  <2> QED BY <1>0, <1>2, <1>4, <2>1, <2>2 DEF FromDrop, AlwaysLive, e, m
<1>5. CASE o.status = "failed"
  <2>1. e.onError # "skip"
    BY <1>5 DEF classifyEdge, e
  <2>2. failurePropagates(m)
    BY <2>1 DEF AlwaysLive, e, m
  <2> QED BY <1>0, <1>2, <1>5, <2>2 DEF Doomed, Failing, r
<1>6. CASE o.status = "skipped"
  <2>1. e.onError # "skip"
    BY <1>6 DEF classifyEdge, e
  <2>2. m \notin S \cup SkipNodes
    BY <2>1 DEF AlwaysLive, e, m
  <2> QED BY <1>0, <1>2, <1>6, <2>2 DEF SkipsExpected, r
<1>7. CASE o.status = "cancelled"
  BY <1>0, <1>2, <1>7 DEF FlowInv, CancelAfterEnd, Doomed, r
<1> QED BY <1>1, <1>3, <1>4, <1>5, <1>6, <1>7 DEF Answered, IsTerminalStatus, TerminalStatuses

\* A pass skips only a step that may be skipped, unless the run is doomed.
LEMMA SkipWhy ==
    ASSUME FlowInv, NEW S, CoversSkips(S), SuccessFromDrop, SkipsExpected(S),
           NEW d \in Nodes \ Roots, NEW v, \A m \in Preds(d) : Older(v[m], recs[m]),
           analyzeDependent(v, d) = "skipped"
    PROVE  d \in S \/ Doomed
<1>0. /\ \A i \in Incoming(d) : ~EdgeWaits(v[Edges[i].from], Edges[i])
      /\ \/ \E i \in Incoming(d) : classifyEdge(v[Edges[i].from], Edges[i]) \in {"blocking", "notRouted"}
         \/ \A i \in Incoming(d) : classifyEdge(v[Edges[i].from], Edges[i]) # "active"
  BY DEF analyzeDependent
<1>1. Incoming(d) # {}
  BY DEF Roots
<1>2. PICK i \in Incoming(d) : classifyEdge(v[Edges[i].from], Edges[i]) # "active"
  BY <1>0, <1>1
<1>3. i \in DOMAIN Edges /\ Edges[i].from \in Preds(d)
  BY Wired
<1>4. Older(v[Edges[i].from], recs[Edges[i].from]) /\ ~EdgeWaits(v[Edges[i].from], Edges[i])
  BY <1>0, <1>3
<1>5. CASE d \notin S
  <2>1. AlwaysLive(i, S)
    BY <1>5 DEF CoversSkips
  <2> QED BY <1>2, <1>3, <1>4, <2>1, LiveOrDoomed
<1> QED BY <1>5

\* A visit of a pass, whatever it decides.
LEMMA VisitOwes ==
    ASSUME FlowInv, Clean, NEW S, CoversSkips(S), JoinsReadAfresh(S), StrandInv(S),
           NEW p \in Movers, VisitDependent(p)
    PROVE  Owes(p, S)
<1> DEFINE F == [node : Nodes, left : SUBSET Nodes]
<1>0. TypeOK /\ p \in Procs /\ run' = run
  BY DEF FlowInv, Movers, Procs, VisitDependent
<1>1. /\ Me(p) = proc[p] /\ proc[p] \in Locals /\ proc[p].pc = "pass" /\ InPlace(proc[p], recs)
      /\ proc[p].frames \in Seq(F) /\ proc[p].frames # <<>>
  BY <1>0, MineTyped DEF Locals, VisitDependent, FlowInv, PassHasFrame, StrandInv
<1>2. Head(proc[p].frames) \in F /\ Tail(proc[p].frames) \in Seq(F)
  <2> HIDE DEF F
  <2> QED BY <1>1, FrameSeqs
<1>3. PICK d \in Head(proc[p].frames).left : Visit(p, d)
  BY <1>1 DEF VisitDependent
<1> DEFINE frame == Head(proc[p].frames)
           index == [m \in Nodes |-> IF m \in ReadSet(p, d) THEN Seen(p, m) ELSE Me(p).index[m]]
           view == [m \in Nodes |-> Seen(p, m)]
           decision == analyzeDependent(view, d)
           top == [frame EXCEPT !.left = @ \ {d}]
           rest == <<top>> \o Tail(proc[p].frames)
           enq == Me(p).enq \/ Len(Me(p).frames) = 1
           index2 == [index EXCEPT ![d] = Outcome("skipped", {})]
           l1 == [Me(p) EXCEPT !.frames = rest, !.index = index, !.enq = enq]
           l2 == [Me(p) EXCEPT !.frames = Pass(d) \o rest, !.index = index2]
           l3 == [Me(p) EXCEPT !.frames = rest, !.index = index]
           new == [node |-> d, left |-> Dependents(d)]
<1>4. d \in Nodes
  BY <1>2
<1>5. top \in F /\ top.node = frame.node /\ top.left = frame.left \ {d} /\ new \in F
      /\ new.node = d /\ new.left = Dependents(d)
  BY <1>2, <1>4, Wired
<1>6. /\ Levels(proc[p].frames) = {frame} \cup Levels(Tail(proc[p].frames))
      /\ Levels(rest) = {top} \cup Levels(Tail(proc[p].frames))
      /\ Levels(Pass(d) \o rest) = {new} \cup Levels(rest)
  <2> HIDE DEF F, top, new
  <2>1. rest \in Seq(F)
    BY <1>1, <1>2, <1>5, FrameSeqs
  <2>2. Levels(rest) = {top} \cup Levels(Tail(proc[p].frames))
    <3> DEFINE t == Tail(proc[p].frames)
    <3>1. top \in F /\ t \in Seq(F)
      BY <1>2, <1>5
    <3> HIDE DEF t
    <3>2. \A f \in F, s \in Seq(F) : Levels(<<f>> \o s) = {f} \cup Levels(s)
      BY LevelsAre
    <3>3. Levels(<<top>> \o t) = {top} \cup Levels(t)
      BY <3>1, <3>2
    <3> QED BY <3>3 DEF t
  <2>3. Pass(d) = <<new>>
    BY DEF Pass, new
  <2> HIDE DEF rest
  <2> QED BY <1>1, <1>2, <1>5, <2>1, <2>2, <2>3, LevelsAre
<1>7. \/ /\ decision = "enqueue" /\ recs[d].status = "absent" /\ recs' = [recs EXCEPT ![d] = NodeRec("queued")]
         /\ proc'[p] = l1
      \/ /\ decision = "skipped" /\ recs[d].status = "absent" /\ recs' = [recs EXCEPT ![d] = NodeRec("skipped")]
         /\ proc'[p] = l2
      \/ (decision = "waiting" \/ recs[d].status # "absent") /\ recs' = recs /\ proc'[p] = l3
  BY <1>0, <1>1, <1>3 DEF Visit, Become, TypeOK
<1>8. /\ \A m \in Nodes : index[m] = Seen(p, m) \/ index[m] = proc[p].index[m]
      /\ \A m \in Nodes : index[m] # proc[p].index[m] => m \in ReadSet(p, d)
      /\ \A m \in Nodes \ {d} : index2[m] = index[m]
      /\ index2[d] = Outcome("skipped", {})
      /\ \A m \in Nodes : view[m] = Seen(p, m)
  BY <1>1, <1>4
<1>9. /\ l1.pc = "pass" /\ l1.frames = rest /\ l1.index = index
      /\ l2.pc = "pass" /\ l2.frames = Pass(d) \o rest /\ l2.index = index2
      /\ l3.pc = "pass" /\ l3.frames = rest /\ l3.index = index
  BY <1>1 DEF Locals
<1> HIDE DEF F, top, new, frame, index, view, rest, enq, index2, l1, l2, l3
<1>10. /\ frame.left \subseteq Dependents(frame.node) /\ Answered(recs[frame.node].status) /\ frame.node \in Nodes
       /\ \A f \in Levels(proc[p].frames) :
            f.left \subseteq Dependents(f.node) /\ Answered(recs[f.node].status)
            /\ (proc[p].index[f.node] = Unread \/ Answered(proc[p].index[f.node].status))
  BY <1>1, <1>2, <1>6 DEF InPlace, LevelsStand, frame, F
<1>11. d \in frame.left /\ d \in Dependents(frame.node) /\ frame.node \in Preds(d) /\ d \notin Roots
  BY <1>4, <1>10, Wired DEF frame
<1>12. \A m \in Nodes : /\ proc[p].index[m] # Unread => Seen(p, m) = proc[p].index[m]
                        /\ proc[p].index[m] = Unread => Seen(p, m) = Outcome(recs[m].status, recs[m].ports)
                        /\ Seen(p, m) = SeenBy(proc[p], recs, m)
                        /\ Older(Seen(p, m), recs[m]) /\ AsAnswered(m, Seen(p, m)) /\ Seen(p, m) # Unread
  <2>1. \A m \in Nodes : Outcome(recs[m].status, recs[m].ports) # Unread
    BY <1>0 DEF TypeOK, NodeRecs, Outcome, Unread, JobStatuses, TerminalStatuses, OpenStatuses
  <2>2. \A m \in Nodes : Older(Seen(p, m), recs[m]) /\ AsAnswered(m, Seen(p, m))
    BY <1>0, SeenIsOld
  <2> QED BY <1>1, <2>1, <2>2 DEF Seen, SeenBy
<1>13. \A m \in Nodes \ {d} : recs'[m] = recs[m]
  BY <1>0, <1>7 DEF TypeOK
<1>14. recs[d].status # "absent" => recs'[d] = recs[d]
  BY <1>7
<1>15. \A m \in Nodes : recs[m].status # "absent" => recs'[m].status # "absent"
  BY <1>13, <1>14
<1>16. \A m \in Nodes : Answered(recs[m].status) => Answered(recs'[m].status)
  BY <1>13, <1>14 DEF Answered, IsTerminalStatus, TerminalStatuses
\* The pass still stands on answered levels.
<1>17. \A f \in {top} \cup Levels(Tail(proc[p].frames)) :
         /\ f.left \subseteq Dependents(f.node) /\ Answered(recs'[f.node].status) /\ f.node \in Nodes
         /\ index[f.node] = Unread \/ Answered(index[f.node].status)
  <2>1. \A f \in Levels(proc[p].frames) : f.node \in Nodes
    <3>1. Levels(proc[p].frames) \subseteq F
      BY <1>1, LevelsAre
    <3> QED BY <3>1 DEF F
  <2>2. ASSUME NEW f \in Levels(proc[p].frames)
        PROVE  index[f.node] = Unread \/ Answered(index[f.node].status)
    BY <1>8, <1>10, <1>12, <2>1, <2>2 DEF Outcome
  <2>3. ASSUME NEW f \in Levels(Tail(proc[p].frames))
        PROVE  /\ f.left \subseteq Dependents(f.node) /\ Answered(recs'[f.node].status) /\ f.node \in Nodes
               /\ index[f.node] = Unread \/ Answered(index[f.node].status)
    BY <1>6, <1>10, <1>16, <2>1, <2>2
  <2>4. /\ top.left \subseteq Dependents(top.node) /\ Answered(recs'[top.node].status) /\ top.node \in Nodes
        /\ index[top.node] = Unread \/ Answered(index[top.node].status)
    BY <1>5, <1>6, <1>10, <1>16, <2>2
  <2> QED BY <2>3, <2>4
\* A reading it keeps of an unanswered step is of one the visited step waits for.
<1>18. ASSUME NEW m \in Nodes, index[m] # Unread, ~Answered(index[m].status)
       PROVE  \E k \in Dependents(m) : \E x \in Preds(k) \ {m} : recs'[x].status # "absent"
  <2>1. CASE index[m] = proc[p].index[m]
    <3>1. PICK k \in Dependents(m) : \E x \in Preds(k) \ {m} : recs[x].status # "absent"
      BY <1>1, <1>18, <2>1 DEF InPlace, KeptReading
    <3> QED BY <1>15, <3>1, Wired
  <2>2. CASE index[m] # proc[p].index[m]
    <3>1. m \in ReadSet(p, d) /\ index[m] = Seen(p, m)
      BY <1>8, <2>2
    <3>2. m \in Preds(d)
      BY <3>1 DEF ReadSet, Preds
    <3>3. Seen(p, m) = Outcome(recs[m].status, recs[m].ports)
      BY <1>12, <2>2, <3>1
    <3>4. ~Answered(recs[m].status)
      BY <1>18, <3>1, <3>3 DEF Outcome
    <3>5. frame.node # m /\ recs[frame.node].status # "absent"
      BY <1>10, <3>4 DEF Answered, IsTerminalStatus, TerminalStatuses
    <3>6. recs'[frame.node].status # "absent"
      BY <1>10, <1>15, <3>5
    <3> QED BY <1>11, <3>2, <3>5, <3>6, Wired
  <2> QED BY <2>1, <2>2
\* What it was about to take up it still sees settled.
<1>19. ASSUME NEW n \in Nodes, n # d, TakesUp(proc[p], recs, n), NEW l, l.pc = "pass",
              \/ l.index = index
              \/ l.index = index2 /\ recs[d].status = "absent",
              \A f \in Levels(rest) : f \in Levels(l.frames)
       PROVE  TakesUp(l, recs', n)
  <2>1. (\E f \in Levels(proc[p].frames) : n \in f.left) /\ SeenSettled(proc[p], recs, n)
    BY <1>1, <1>19 DEF TakesUp
  <2>2. \E f \in Levels(l.frames) : n \in f.left
    BY <1>5, <1>6, <1>19, <2>1
  <2>3. ASSUME NEW i \in Incoming(n) PROVE ~EdgeWaits(SeenBy(l, recs', Edges[i].from), Edges[i])
    <3> DEFINE m == Edges[i].from
    <3>1. m \in Nodes /\ ~EdgeWaits(Seen(p, m), Edges[i])
      BY <1>12, <2>1, Wired DEF SeenSettled
    <3>2. Answered(Seen(p, m).status)
      BY <3>1, WaitsUnanswered
    <3>3. Answered(recs[m].status)
      BY <1>12, <3>1, <3>2, AnsweredStays
    <3>4. recs[m].status # "absent"
      BY <3>3 DEF Answered, IsTerminalStatus, TerminalStatuses
    <3>5. recs'[m] = recs[m]
      BY <1>13, <1>14, <3>1, <3>4
    <3>6. l.index[m] = index[m]
      BY <1>8, <1>19, <3>1, <3>4
    <3>7. SeenBy(l, recs', m) = Seen(p, m)
      BY <1>8, <1>12, <3>1, <3>5, <3>6 DEF SeenBy
    <3> QED BY <3>1, <3>7
  <2> QED BY <1>19, <2>2, <2>3 DEF TakesUp, SeenSettled
<1>20. \A m : ~Tells(proc[p], m)
  BY <1>1 DEF Tells
<1>21. \A m \in Preds(d) : m \in Nodes /\ view[m] = Seen(p, m) /\ Older(view[m], recs[m])
  BY <1>8, <1>12, Wired
\* Enqueued: a record that answers for nothing yet.
<1>22. CASE /\ decision = "enqueue" /\ recs[d].status = "absent" /\ recs' = [recs EXCEPT ![d] = NodeRec("queued")]
            /\ proc'[p] = l1
  <2>1. recs'[d].status = "queued"
    BY <1>0, <1>4, <1>22 DEF TypeOK, NodeRec
  <2>2. InPlace(l1, recs')
    BY <1>6, <1>9, <1>17, <1>18 DEF InPlace, PlaceHolds, LevelsStand, KeptReading
  <2>3. ASSUME NEW n, ~Settled(recs, n) PROVE ~Settled(recs', n)
    <3>1. PICK i \in Incoming(n) : EdgeWaits(recs[Edges[i].from], Edges[i])
      BY <2>3 DEF Settled
    <3>2. Edges[i].from \in Nodes
      BY Wired
    <3>3. EdgeWaits(recs'[Edges[i].from], Edges[i])
      <4>1. CASE Edges[i].from = d
        BY <2>1, <4>1 DEF EdgeWaits, IsTerminalStatus, TerminalStatuses
      <4> QED BY <1>13, <3>1, <3>2, <4>1
    <3> QED BY <3>3 DEF Settled
  <2>4. ASSUME NEW n \in Nodes, recs'[n].status = "absent", TakesUp(proc[p], recs, n) PROVE TakesUp(l1, recs', n)
    <3>1. n # d
      BY <2>1, <2>4
    <3> QED BY <1>9, <1>19, <2>4, <3>1
  <2>5. \A m \in Nodes : recs'[m].status \in {"succeeded", "skipped", "failed"} => recs'[m] = recs[m]
    BY <1>13, <2>1
  <2> QED BY <1>20, <1>22, <2>2, <2>3, <2>4, <2>5 DEF Owes
\* Waiting or already on record: nothing was to be done about this step.
<1>23. CASE (decision = "waiting" \/ recs[d].status # "absent") /\ recs' = recs /\ proc'[p] = l3
  <2>1. InPlace(l3, recs')
    BY <1>6, <1>9, <1>17, <1>18 DEF InPlace, PlaceHolds, LevelsStand, KeptReading
  <2>2. ASSUME NEW n \in Nodes, recs[n].status = "absent", TakesUp(proc[p], recs, n) PROVE TakesUp(l3, recs, n)
    <3>1. CASE n = d
      <4>1. decision = "waiting"
        BY <1>23, <2>2, <3>1
      <4>2. PICK i \in Incoming(d) : EdgeWaits(view[Edges[i].from], Edges[i])
        BY <4>1 DEF analyzeDependent
      <4>3. Edges[i].from \in Nodes /\ EdgeWaits(SeenBy(proc[p], recs, Edges[i].from), Edges[i])
        BY <1>12, <1>21, <4>2, Wired
      <4> QED BY <1>1, <2>2, <3>1, <4>2, <4>3 DEF TakesUp, SeenSettled
    <3>2. CASE n # d
      BY <1>9, <1>19, <1>23, <2>2, <3>2
    <3> QED BY <3>1, <3>2
  <2> QED BY <1>20, <1>23, <2>1, <2>2, OwesMove
\* Skipped: the pass goes on to the dependents of d and sees what d settled.
<1>24. CASE /\ decision = "skipped" /\ recs[d].status = "absent" /\ recs' = [recs EXCEPT ![d] = NodeRec("skipped")]
            /\ proc'[p] = l2
  <2>1. recs'[d].status = "skipped" /\ Answered(recs'[d].status)
    BY <1>0, <1>4, <1>24 DEF TypeOK, NodeRec, Answered, IsTerminalStatus, TerminalStatuses
  <2>2. d \in S \/ Doomed
    BY <1>4, <1>11, <1>21, <1>24, SkipWhy DEF StrandInv
  <2>3. Doomed => Doomed'
    <3>1. \A m \in Nodes : Failing(m) => recs'[m] = recs[m]
      BY <1>13, <1>24 DEF Failing
    <3> QED BY <1>0, <3>1 DEF Doomed, Failing, RunEnded
  <2>4. \A m \in Nodes : l2.index[m] = IF m = d THEN Outcome("skipped", {}) ELSE index[m]
    BY <1>8, <1>9
  <2>5. Answered(Outcome("skipped", {}).status) /\ Outcome("skipped", {}) # Unread
    BY DEF Outcome, Unread, Answered, IsTerminalStatus, TerminalStatuses
  <2>6. InPlace(l2, recs')
    <3>1. LevelsStand(l2, recs')
      BY <1>4, <1>5, <1>6, <1>9, <1>17, <2>1, <2>4, <2>5 DEF LevelsStand
    <3>2. KeptReading(l2, recs')
      BY <1>18, <2>4, <2>5 DEF KeptReading
    <3> QED BY <1>9, <3>1, <3>2 DEF InPlace, PlaceHolds
  <2>7. ASSUME NEW n \in Nodes, recs'[n].status = "absent", TakesUp(proc[p], recs, n) PROVE TakesUp(l2, recs', n)
    <3>1. n # d
      BY <2>1, <2>7
    <3> QED BY <1>6, <1>9, <1>19, <1>24, <2>7, <3>1
  <2>8. ASSUME NEW k \in Nodes, ~Settled(recs, k), Settled(recs', k), ~Doomed'
        PROVE  TakesUp(l2, recs', k)
    <3>1. d \in Preds(k) /\ d \in S
      BY <1>13, <2>2, <2>3, <2>8, NewlySettled, Wired
    <3>2. \E f \in Levels(l2.frames) : k \in f.left
      BY <1>5, <1>6, <1>9, <3>1, Wired
    <3>3. ASSUME NEW i \in Incoming(k) PROVE ~EdgeWaits(SeenBy(l2, recs', Edges[i].from), Edges[i])
      <4> DEFINE m == Edges[i].from
      <4>1. m \in Nodes /\ m \in Preds(k) /\ ~EdgeWaits(recs'[m], Edges[i])
        BY <2>8, Wired DEF Settled
      <4>2. CASE m = d
        <5>1. SeenBy(l2, recs', m) = Outcome("skipped", {})
          BY <2>4, <2>5, <4>1, <4>2 DEF SeenBy
        <5>2. IsTerminalStatus(Outcome("skipped", {}).status)
          BY DEF Outcome, IsTerminalStatus, TerminalStatuses
        <5> QED BY <5>1, <5>2, WaitsUnanswered
      <4>3. CASE m # d /\ SeenBy(l2, recs', m) = Outcome(recs[m].status, recs[m].ports)
        <5> DEFINE o == SeenBy(l2, recs', m)
        <5>1. o.status = recs'[m].status /\ o.ports = recs'[m].ports
          BY <1>13, <4>1, <4>3 DEF Outcome
        <5> HIDE DEF o
        <5>2. ~EdgeWaits(o, Edges[i])
          BY <4>1, <5>1, WaitsAs
        <5> QED BY <5>2 DEF o
      <4>4. CASE m # d /\ SeenBy(l2, recs', m) = proc[p].index[m] /\ proc[p].index[m] # Unread
        <5> DEFINE o == proc[p].index[m]
        <5>1. o = Seen(p, m) /\ AsAnswered(m, o)
          BY <1>12, <4>1, <4>4
        <5> HIDE DEF o
        <5>2. CASE IsTerminalStatus(o.status)
          BY <4>4, <5>2, WaitsUnanswered DEF o
        <5>3. CASE o.status = "awaiting"
          <6>1. PICK b \in Behaviours[m] : b.status = "awaiting" /\ b.ports = o.ports
            BY <5>1, <5>3 DEF AsAnswered
          <6>2. ~EdgeWaits(b, Edges[i])
            BY <1>4, <2>8, <3>1, <4>1, <4>4, <6>1 DEF JoinsReadAfresh
          <6>3. ~EdgeWaits(o, Edges[i])
            BY <5>3, <6>1, <6>2, WaitsAs
          <6> QED BY <4>4, <6>3 DEF o
        <5>4. CASE ~Answered(o.status)
          <6>1. m \notin Preds(d)
            <7>1. ASSUME m \in Preds(d) PROVE FALSE
              <8>1. PICK j \in Incoming(d) : Edges[j].from = m
                BY <7>1, Wired
              <8>2. ~EdgeWaits(view[m], Edges[j])
                BY <1>24, <8>1 DEF analyzeDependent
              <8>3. view[m] = o
                BY <1>8, <4>1, <5>1
              <8> QED BY <5>4, <8>2, <8>3, WaitsUnanswered
            <7> QED BY <7>1
          <6>2. PICK j \in Dependents(m) : \E x \in Preds(j) \ {m} : recs[x].status # "absent"
            BY <1>1, <4>1, <4>4, <5>4 DEF InPlace, KeptReading, o
          <6>3. j # d
            BY <6>1, <6>2, Wired
          <6>4. Preds(j) \subseteq {m, d}
            BY <1>4, <2>8, <3>1, <4>1, <4>4, <6>2, <6>3 DEF JoinsReadAfresh
          <6> QED BY <1>24, <6>2, <6>4
        <5> QED BY <5>2, <5>3, <5>4 DEF Answered
      <4>5. m # d => \/ SeenBy(l2, recs', m) = Outcome(recs[m].status, recs[m].ports)
                     \/ SeenBy(l2, recs', m) = proc[p].index[m] /\ proc[p].index[m] # Unread
        BY <1>8, <1>12, <1>13, <2>4, <4>1 DEF SeenBy
      <4> QED BY <4>2, <4>3, <4>4, <4>5
    <3> QED BY <1>9, <3>2, <3>3 DEF TakesUp, SeenSettled
  <2>9. \A m \in Nodes : recs'[m].status \in {"succeeded", "failed"} => recs'[m] = recs[m]
    BY <1>13, <2>1
  <2>10. \A m \in Nodes : recs'[m].status = "skipped" => recs[m].status = "skipped" \/ m \in S \/ Doomed
    BY <1>13, <2>2
  <2> QED BY <1>20, <1>24, <2>6, <2>7, <2>8, <2>9, <2>10 DEF Owes
<1> QED BY <1>7, <1>22, <1>23, <1>24

-----------------------------------------------------------------------------
(* The theorem.                                                            *)

\* Every step but the passing of time pays what it owes.
LEMMA StepOwes ==
    ASSUME FlowInv, Clean, Next, faults'.store = 0, NEW S, CoversSkips(S), JoinsReadAfresh(S), StrandInv(S)
    PROVE  (\E p \in Procs : Goes(p) /\ Owes(p, S)) \/ GrowOld
<1>0. /\ Workers \subseteq Procs /\ Approvers \subseteq Procs
      /\ Cancellers \subseteq Procs /\ Reapers \subseteq Procs
      /\ TypeOK /\ Workers \subseteq Movers
      /\ \A p \in Procs : InPlace(proc[p], recs)
  BY DEF Procs, Movers, FlowInv, StrandInv
<1>1. ASSUME NEW w \in Workers, NEW n \in Nodes, Claim(w, n) \/ ClaimLapsed(w, n)
      PROVE  \E p \in Procs : Goes(p) /\ Owes(p, S)
  BY <1>0, <1>1, ClaimGoes, ClaimOwes
<1>2. ASSUME NEW w \in Workers, WorkerStep(w)
      PROVE  \E p \in Procs : Goes(p) /\ Owes(p, S)
  <2>1. w \in Procs /\ InPlace(proc[w], recs)
    BY <1>0
  <2>2. Goes(w)
    BY <1>2, WorkerGoes, ExecuteGoes, RequeueGoes, WritesGo, PlanGoes, CommitGoes DEF WorkerStep
  <2>3. Owes(w, S)
    BY <1>2, <2>1, WorkerOwes, ExecuteOwes, WritesOwe, SetParkedOwes, PlanOwes, CommitOwes DEF WorkerStep
  <2> QED BY <2>1, <2>2, <2>3
<1>3. ASSUME NEW w \in Workers, NEW applied \in BOOLEAN, CommitError(w, applied)
      PROVE  FALSE
  <2>1. faults \in [crash : 0 .. MaxCrashes, lapse : 0 .. MaxLapses, store : 0 .. MaxStoreErrors]
    BY DEF FlowInv, TypeOK
  <2>2. faults'.store = faults.store + 1 /\ faults.store \in Nat
    BY <1>3, <2>1, BudgetAssumption DEF CommitError
  <2> QED BY <2>2
<1>4. ASSUME NEW p \in Workers \cup Approvers, AdvanceStep(p)
      PROVE  \E q \in Procs : Goes(q) /\ Owes(q, S)
  <2>1. p \in Procs /\ p \in Movers /\ InPlace(proc[p], recs)
    BY <1>0 DEF Movers
  <2>2. Goes(p)
    BY <1>4, <2>1, AdvanceGoes, VisitGoes DEF AdvanceStep
  <2>3. Owes(p, S)
    BY <1>4, <2>1, AdvanceOwes, VisitOwes, EndLevelOwes, CompleteOwes DEF AdvanceStep
  <2> QED BY <2>1, <2>2, <2>3
<1>5. ASSUME NEW a \in Approvers,
             \/ \E n \in Nodes : \E port \in {"approved", "rejected"} : Approve(a, n, port)
             \/ AskParked(a) \/ Unpark(a)
      PROVE  \E p \in Procs : Goes(p) /\ Owes(p, S)
  BY <1>0, <1>5, ApproveGoes, ApproveOwes, OthersGo, OthersOwe
<1>6. ASSUME NEW c \in Cancellers, Cancel(c) \/ SweepNode(c)
      PROVE  \E p \in Procs : Goes(p) /\ Owes(p, S)
  BY <1>0, <1>6, OthersGo, OthersOwe, SweepGoes, SweepOwes
<1>7. ASSUME NEW r \in Reapers, Reap(r) \/ AbandonIfStuck(r)
      PROVE  \E p \in Procs : Goes(p) /\ Owes(p, S)
  BY <1>0, <1>7, OthersGo, OthersOwe
<1>8. ASSUME NEW p \in Procs, Crash(p)
      PROVE  \E q \in Procs : Goes(q) /\ Owes(q, S)
  BY <1>0, <1>8, OthersGo, OwesCrash
<1> QED BY <1>1, <1>2, <1>3, <1>4, <1>5, <1>6, <1>7, <1>8 DEF Next

\* A run right after submission: only roots are on record and nobody has answered.
LEMMA StrandInit ==
    ASSUME Init, NEW S
    PROVE  StrandInv(S)
<1>1. /\ \A n \in Nodes : /\ recs[n].status \in {"queued", "absent"}
                          /\ n \in Roots => recs[n].status # "absent"
      /\ \A p \in Procs : proc[p] = Idle
  BY DEF Init, NodeRec
<1>2. Idle.pc = "idle" /\ Idle.index = NoIndex
  BY DEF Idle
<1>3. \A p \in Procs : InPlace(proc[p], recs)
  BY <1>1, <1>2, InPlaceOff
<1>4. SuccessFromDrop /\ SkipsExpected(S) /\ FailureTold
  BY <1>1 DEF SuccessFromDrop, SkipsExpected, FailureTold, Failing
<1>5. AllAttended
  <2>1. ASSUME NEW n \in Nodes \ Roots PROVE ~Settled(recs, n)
    <3>1. PICK i \in Incoming(n) : TRUE
      BY DEF Roots
    <3>2. Edges[i].from \in Nodes
      BY Wired
    <3>3. EdgeWaits(recs[Edges[i].from], Edges[i])
      BY <1>1, <3>2 DEF EdgeWaits, IsTerminalStatus, TerminalStatuses
    <3> QED BY <3>3 DEF Settled
  <2> QED BY <2>1 DEF AllAttended
<1> QED BY <1>1, <1>3, <1>4, <1>5 DEF StrandInv, Roots

\* Nothing is read or written.
LEMMA StrandStutter ==
    ASSUME UNCHANGED <<run, recs, proc, faults>>, NEW CONSTANT S, StrandInv(S)
    PROVE  StrandInv(S)'
BY DEF StrandInv, InPlace, PlaceHolds, LevelsStand, KeptReading, SuccessFromDrop, FromDrop, SkipsExpected, Doomed,
       RunEnded, Failing, FailureTold, Tells, AllAttended, Settled, TakesUp, SeenSettled, SeenBy

\* Every step keeps every settled step attended.
LEMMA StrandInvStep ==
    ASSUME NEW CONSTANT S, CoversSkips(S), JoinsReadAfresh(S)
    PROVE  CleanInv /\ (faults.store = 0 => StrandInv(S)) /\ [Next]_vars => (faults.store = 0 => StrandInv(S))'
<1> SUFFICES ASSUME CleanInv, faults.store = 0 => StrandInv(S), [Next]_vars, faults'.store = 0
             PROVE  StrandInv(S)'
  OBVIOUS
<1>0. FlowInv /\ TypeOK /\ TypeOK'
  BY StepInv DEF CleanInv, FlowInv
<1>1. Clean /\ StrandInv(S)
  BY <1>0, ErrorsStay DEF CleanInv
<1>2. CASE GrowOld \/ UNCHANGED vars
  <2>1. UNCHANGED <<run, recs, proc, faults>>
    BY <1>2 DEF GrowOld, vars
  <2> QED BY <1>1, <2>1, StrandStutter
<1>3. CASE Next
  <2>1. RunEnded => RunEnded'
    BY <1>0, <1>3, StepEffect DEF Effect, RunEffect, GrowOld, RunEnded
  <2>2. faults'.crash = 0 => faults.crash = 0
    BY <1>0, CrashesStay
  <2>3. CASE \E p \in Procs : Goes(p) /\ Owes(p, S)
    <3>1. PICK p \in Procs : Goes(p) /\ Owes(p, S)
      BY <2>3
    <3>2. PICK l : Moves(p, l)
      BY <3>1 DEF Goes
    <3> QED BY <1>0, <1>1, <2>1, <2>2, <3>1, <3>2, StrandStep
  <2> QED BY <1>0, <1>1, <1>2, <1>3, <2>3, StepOwes
<1> QED BY <1>2, <1>3

\* When every settled step is attended and nobody is at work, everything is closed.
LEMMA NothingLeft ==
    ASSUME Acyclic, FlowInv, NEW S, StrandInv(S)
    PROVE  NoStrandedRun
<1> SUFFICES ASSUME faults.crash = 0, Quiet, ~Pending, ~RunEnded
             PROVE  Verdict(1, "succeeded") # "none"
  BY DEF NoStrandedRun
<1>1. \A p \in Movers : proc[p].pc = "idle"
  BY ReaperAssumption DEF Quiet, Movers, Procs
<1>2. \A p \in Movers : \A m : ~Tells(proc[p], m) /\ ~TakesUp(proc[p], recs, m)
  BY <1>1 DEF Tells, TakesUp
<1>3. \A m \in Nodes : ~Failing(m)
  BY <1>2 DEF StrandInv, FailureTold
<1>4. ~Doomed
  BY <1>3 DEF Doomed
<1>5. \A m \in Nodes : Closed(m) \/ recs[m].status = "absent"
  BY DEF FlowInv, TypeOK, NodeRecs, Pending, JobStatuses, Closed, IsTerminalStatus
<1> DEFINE A == {n \in Nodes : recs[n].status = "absent"}
<1>6. ASSUME A # {} PROVE FALSE
  <2>1. PICK n \in A : Preds(n) \cap A = {}
    BY <1>6 DEF Acyclic
  <2>2. n \in Nodes \ Roots
    BY <2>1 DEF StrandInv
  <2>3. \A i \in Incoming(n) : Closed(Edges[i].from)
    BY <1>5, <2>1, Wired
  <2>4. Settled(recs, n)
    BY <2>3, WaitsUnanswered DEF Settled, Closed
  <2> QED BY <1>2, <1>4, <2>1, <2>2, <2>4 DEF StrandInv, AllAttended
<1>7. \A m \in Nodes : Closed(m)
  BY <1>5, <1>6
<1> QED BY <1>7 DEF Verdict

\* dispatch.go promises that of two concurrent completions at least one sees the
\* other.  For every graph without cycles in which CascadeSafe holds, any number of
\* workers, approvers and cancellers, and as long as no process crashed and no commit
\* was answered by a store error: when no process is at work and no record is open,
\* the run has ended or the next completion check ends it.
THEOREM NoRunStranded ==
    ASSUME Acyclic, CascadeSafe
    PROVE  Spec => [](faults.store = 0 => NoStrandedRun)
<1>1. PICK S \in SUBSET Nodes : CoversSkips(S) /\ JoinsReadAfresh(S)
  BY DEF CascadeSafe
<1> DEFINE I == CleanInv /\ (faults.store = 0 => StrandInv(S))
<1>2. Init => I
  BY RouteInit, StrandInit DEF RouteInv
<1>3. I /\ [Next]_vars => I'
  BY <1>1, CleanInvStep, StrandInvStep
<1>4. I => (faults.store = 0 => NoStrandedRun)
  BY NothingLeft DEF CleanInv
<1> HIDE DEF I
<1> QED BY <1>2, <1>3, <1>4, PTL DEF Spec
==============================================================================
