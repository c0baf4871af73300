-------------------------- MODULE RunnerTasksProofs --------------------------
(***************************************************************************)
(* Theorems about RunnerTasks: for any tasks, runners, tags and timers,    *)
(* whatever is lost, dies or lapses.                                       *)
(*                                                                         *)
(* Every action is first reduced to what it does to a row (RowMove) and to *)
(* the answer of a Dispatch call (VerdictMove); the invariants follow from *)
(* these.                                                                  *)
(***************************************************************************)
EXTENDS RunnerTasks, TLAPS

\* The table after a close is the table with one row closed.
LEMMA FinishRow ==
  ASSUME TypeOK, NEW t \in Tasks, NEW r \in Results
  PROVE  /\ Finish(t, r) \in [Tasks -> Row]
         /\ \A u \in Tasks : u # t => Finish(t, r)[u] = tasks[u]
         /\ Finish(t, r)[t].state \in Closed
         /\ Finish(t, r)[t].res = r
         /\ Finish(t, r)[t].starts = tasks[t].starts
         /\ Finish(t, r)[t].by = tasks[t].by
  <1> DEFINE st == IF r = "ok" THEN "done" ELSE "failed"
             row == [tasks[t] EXCEPT !.state = st, !.res = r]
  <1>1. Finish(t, r) = [tasks EXCEPT ![t] = row]
    BY DEF Finish
  <1>2. st \in Closed
    BY DEF Closed
  <1>3. tasks[t] \in Row
    BY DEF TypeOK
  <1> HIDE DEF st
  <1>4. /\ row \in Row /\ row.state = st /\ row.res = r
        /\ row.starts = tasks[t].starts /\ row.by = tasks[t].by
    BY <1>2, <1>3 DEF Row, Closed
  <1> HIDE DEF row
  <1>5. QED BY <1>1, <1>2, <1>4 DEF TypeOK

\* The table with one more task in the queue is typed.
LEMMA QueuedTyped ==
  ASSUME TypeOK, NEW t \in Tasks
  PROVE  [tasks EXCEPT ![t].state = "queued"] \in [Tasks -> Row]
  <1>1. tasks[t] \in Row
    BY DEF TypeOK
  <1>2. [tasks[t] EXCEPT !.state = "queued"] \in Row
    BY <1>1 DEF Row, Open
  <1>3. QED BY <1>2 DEF TypeOK

\* The three closing operations leave the table typed.
LEMMA CloseTyped ==
  ASSUME TypeOK, NEW t \in Tasks
  PROVE  /\ CancelQueued(t) \in [Tasks -> Row]
         /\ FailAbandoned(t) \in [Tasks -> Row]
         /\ \A a \in Agents, r \in Reported : Complete(t, a, r) \in [Tasks -> Row]
  BY FinishRow DEF CancelQueued, FailAbandoned, Complete, Results, TypeOK

\* A busy agent's fields.
LEMMA AgentTyped ==
  ASSUME TypeOK, NEW a \in Agents, Busy(a)
  PROVE  /\ agent[a] \in Working
         /\ agent[a].task \in Tasks /\ agent[a].ran \in Nat /\ agent[a].quiet \in Nat
         /\ agent[a].pc = "report" => agent[a].res \in Reported /\ agent[a].tries \in Nat
         /\ agent[a].pc \in {"run", "report"}
  <1>1. agent[a] \in Working \cup {Idle}
    BY DEF TypeOK
  <1>2. agent[a] \in Working
    BY <1>1 DEF Busy, Idle
  <1>3. QED BY <1>2 DEF Working

\* A Dispatch call moves on, or returns.
LEMMA WaiterTyped ==
  ASSUME TypeOK, NEW t \in Tasks
  PROVE  /\ \A pc \in {"waiting", "cancel", "condemn", "crashed"} :
                Goto(t, pc) => waiter' \in [Tasks -> Wait]
         /\ \A v \in Results \cup {"late", "interrupted", "error"} :
                Return(t, v) => waiter' \in [Tasks -> Wait]
  <1>1. ASSUME NEW pc \in {"waiting", "cancel", "condemn", "crashed"}, Goto(t, pc)
        PROVE  waiter' \in [Tasks -> Wait]
    <2>1. waiter' = [waiter EXCEPT ![t] = [waiter[t] EXCEPT !.pc = pc]]
      BY <1>1 DEF Goto
    <2>2. waiter[t] \in Wait
      BY DEF TypeOK
    <2>3. [waiter[t] EXCEPT !.pc = pc] \in Wait
      BY <1>1, <2>2 DEF Wait
    <2>4. QED BY <2>1, <2>3 DEF TypeOK
  <1>2. ASSUME NEW v \in Results \cup {"late", "interrupted", "error"}, Return(t, v)
        PROVE  waiter' \in [Tasks -> Wait]
    BY <1>2 DEF Return, TypeOK, Wait
  <1>3. QED BY <1>1, <1>2

\* Every step keeps the types, one case per action.
LEMMA TypeStep == TypeOK /\ [Next]_vars => TypeOK'
  <1> SUFFICES ASSUME TypeOK, [Next]_vars PROVE TypeOK'
    OBVIOUS
  <1> USE TaskAssumption, TimerAssumption
  <1>1. ASSUME NEW t \in Tasks, Dispatch(t) PROVE TypeOK'
    <2>1. tasks' \in [Tasks -> Row]
      BY <1>1, QueuedTyped DEF Dispatch
    <2>2. QED BY <1>1, <2>1, WaiterTyped DEF Dispatch, TypeOK
  <1>2. ASSUME NEW t \in Tasks, NEW applied \in BOOLEAN, EnqueueFailed(t, applied) PROVE TypeOK'
    <2>1. tasks' \in [Tasks -> Row]
      BY <1>2, QueuedTyped DEF EnqueueFailed, TypeOK
    <2>2. QED BY <1>2, <2>1, WaiterTyped DEF EnqueueFailed, TypeOK
  <1>3. ASSUME NEW t \in Tasks, Poll(t) PROVE TypeOK'
    <2>1. CASE PollClosed(t)
      BY <1>3, <2>1 DEF PollClosed, Return, TypeOK, Wait, Row
    <2>2. CASE PollGone(t) \/ PollUnclaimed(t) \/ PollLapsed(t) \/ PollLate(t)
      BY <2>2, WaiterTyped DEF PollGone, PollUnclaimed, PollLapsed, PollLate, TypeOK
    <2>3. CASE Cancel(t)
      <3>1. "cancelled" \in Results
        BY DEF Results
      <3>2. QED BY <2>3, <3>1, CloseTyped, WaiterTyped DEF Cancel, TypeOK
    <2>4. CASE Condemn(t)
      <3>1. "abandoned" \in Results
        BY DEF Results
      <3>2. QED BY <2>4, <3>1, CloseTyped, WaiterTyped DEF Condemn, TypeOK
    <2>5. QED BY <1>3, <2>1, <2>2, <2>3, <2>4 DEF Poll
  <1>4. ASSUME NEW t \in Tasks, PollOffline(t) \/ DaemonDies(t) PROVE TypeOK'
    BY <1>4, WaiterTyped DEF PollOffline, DaemonDies, TypeOK
  <1>5. ASSUME NEW t \in Tasks, Interrupt(t) PROVE TypeOK'
    BY <1>5, CloseTyped DEF Interrupt, Return, TypeOK, Wait
  <1>6. ASSUME NEW t \in Tasks, NEW applied \in BOOLEAN, CallFailed(t, applied) PROVE TypeOK'
    <2>1. tasks' \in {CancelQueued(t), FailAbandoned(t), tasks}
      BY <1>6 DEF CallFailed
    <2>2. QED BY <1>6, <2>1, CloseTyped DEF CallFailed, Return, TypeOK, Wait
  <1>7. ASSUME NEW a \in Agents, NEW t \in Tasks, NEW delivered \in BOOLEAN,
               Claim(a, t, delivered)
        PROVE  TypeOK'
    <2>1. tasks' \in [Tasks -> Row]
      <3> DEFINE n == IF delivered THEN tasks[t].starts + 1 ELSE tasks[t].starts
                 row == [tasks[t] EXCEPT !.state = "running", !.by = a,
                                         !.left = Lease + 1, !.starts = n]
      <3>1. tasks' = [tasks EXCEPT ![t] = row]
        BY <1>7 DEF Claim
      <3>2. tasks[t] \in Row
        BY DEF TypeOK
      <3>3. n \in Nat /\ Lease + 1 \in Nat
        BY <3>2 DEF Row
      <3> HIDE DEF n
      <3>4. row \in Row
        BY <3>2, <3>3 DEF Row, Open
      <3>5. QED BY <3>1, <3>4 DEF TypeOK
    <2>2. agent' \in [Agents -> Working \cup {Idle}]
      BY <1>7 DEF Claim, TypeOK, Working
    <2>3. QED BY <1>7, <2>1, <2>2 DEF Claim, TypeOK
  <1>8. ASSUME NEW a \in Agents, Beat(a) PROVE TypeOK'
    <2>1. Busy(a)
      BY <1>8 DEF Beat, Busy
    <2>2. tasks' \in [Tasks -> Row]
      <3>1. CASE HeldBy(agent[a].task, a)
        <4> DEFINE t == agent[a].task
        <4>1. tasks' = [tasks EXCEPT ![t] = [tasks[t] EXCEPT !.left = Lease + 1]]
          BY <1>8, <3>1 DEF Beat
        <4>2. t \in Tasks /\ Lease + 1 \in Nat
          BY <2>1, AgentTyped
        <4>3. tasks[t] \in Row
          BY <4>2 DEF TypeOK
        <4> HIDE DEF t
        <4>4. [tasks[t] EXCEPT !.left = Lease + 1] \in Row
          BY <4>2, <4>3 DEF Row
        <4>5. QED BY <4>1, <4>4 DEF TypeOK
      <3>2. QED BY <1>8, <3>1 DEF Beat, TypeOK
    <2>3. agent' \in [Agents -> Working \cup {Idle}]
      BY <1>8, <2>1, AgentTyped DEF Beat, TypeOK, Working
    <2>4. QED BY <1>8, <2>2, <2>3 DEF Beat, TypeOK
  <1>9. ASSUME NEW a \in Agents, NEW res \in Reported, ScriptEnds(a, res) PROVE TypeOK'
    <2>1. Busy(a)
      BY <1>9 DEF ScriptEnds, Busy
    <2>2. QED BY <1>9, <2>1, AgentTyped DEF ScriptEnds, TypeOK, Working
  <1>10. ASSUME NEW a \in Agents, Report(a) PROVE TypeOK'
    <2>1. Busy(a)
      BY <1>10 DEF Report, Busy
    <2>2. QED BY <1>10, <2>1, AgentTyped, CloseTyped DEF Report, TypeOK
  <1>11. ASSUME NEW a \in Agents, NEW applied \in BOOLEAN, ReportFailed(a, applied)
         PROVE  TypeOK'
    <2>1. Busy(a) /\ agent[a].pc = "report"
      BY <1>11 DEF ReportFailed, Busy
    <2>2. tasks' \in [Tasks -> Row]
      BY <1>11, <2>1, AgentTyped, CloseTyped DEF ReportFailed, TypeOK
    <2>3. agent' \in [Agents -> Working \cup {Idle}]
      BY <1>11, <2>1, AgentTyped DEF ReportFailed, TypeOK, Working
    <2>4. QED BY <1>11, <2>2, <2>3 DEF ReportFailed, TypeOK
  <1>12. ASSUME NEW a \in Agents, AgentDies(a) PROVE TypeOK'
    BY <1>12 DEF AgentDies, TypeOK
  <1>13. CASE SweepList
    BY <1>13 DEF SweepList, TypeOK
  <1>14. ASSUME NEW t \in Tasks, SweepClose(t) PROVE TypeOK'
    BY <1>14, CloseTyped DEF SweepClose, TypeOK
  <1>15. ASSUME NEW t \in Tasks, SweepError(t) PROVE TypeOK'
    BY <1>15 DEF SweepError, TypeOK
  <1>16. CASE DeleteByTenant
    BY <1>16 DEF DeleteByTenant, TypeOK, Row
  <1>17. CASE Tick
    <2>1. \A t \in Tasks : TickRow(t) \in Row
      <3>1. SUFFICES ASSUME NEW t \in Tasks PROVE TickRow(t) \in Row
        OBVIOUS
      <3> DEFINE l == IF tasks[t].state = "running" /\ tasks[t].left > 0
                        THEN tasks[t].left - 1 ELSE tasks[t].left
                 g == IF tasks[t].state \in Open
                           /\ ~(Overdue(t) /\ tasks[t].age > PickupGrace)
                        THEN tasks[t].age + 1 ELSE tasks[t].age
      <3>2. TickRow(t) = [tasks[t] EXCEPT !.left = l, !.age = g]
        BY DEF TickRow
      <3>3. tasks[t] \in Row
        BY DEF TypeOK
      <3>4. l \in Nat /\ g \in Nat
        BY <3>3 DEF Row
      <3> HIDE DEF l, g
      <3>5. QED BY <3>2, <3>3, <3>4 DEF Row
    <2>2. \A a \in Agents : TickAgent(a) \in Working \cup {Idle}
      <3>1. SUFFICES ASSUME NEW a \in Agents, Busy(a)
                     PROVE  TickAgent(a) \in Working
        BY DEF TickAgent
      <3>2. agent[a] \in Working /\ agent[a].ran \in Nat /\ agent[a].quiet \in Nat
        BY <3>1, AgentTyped
      <3> DEFINE r == IF agent[a].ran < TimeoutOf[agent[a].task]
                        THEN agent[a].ran + 1 ELSE agent[a].ran
                 q == IF agent[a].quiet <= Lease
                        THEN agent[a].quiet + 1 ELSE agent[a].quiet
      <3>3. TickAgent(a) = [agent[a] EXCEPT !.ran = r, !.quiet = q]
        BY <3>1 DEF TickAgent
      <3>4. r \in Nat /\ q \in Nat
        BY <3>2
      <3> HIDE DEF r, q
      <3>5. QED BY <3>2, <3>3, <3>4 DEF Working
    <2>3. QED BY <1>17, <2>1, <2>2 DEF Tick, TypeOK
  <1>18. CASE UNCHANGED vars
    BY <1>18 DEF vars, TypeOK
  <1>19. QED
    BY <1>1, <1>2, <1>3, <1>4, <1>5, <1>6, <1>7, <1>8, <1>9, <1>10, <1>11, <1>12,
       <1>13, <1>14, <1>15, <1>16, <1>17, <1>18 DEF Next

\* Rows, waiting steps, agents and the sweep's listing are well typed in
\* every reachable state.
THEOREM RunnerTypeCorrect == Spec => []TypeOK
  <1>1. Init => TypeOK
    BY DEF Init, TypeOK, Row, Wait
  <1>2. QED BY <1>1, TypeStep, PTL DEF Spec

-----------------------------------------------------------------------------
(* What a step does to a row and to the Dispatch call behind it.           *)

Stays(t) ==
    /\ tasks'[t].state = tasks[t].state /\ tasks'[t].res = tasks[t].res
    /\ tasks'[t].starts = tasks[t].starts /\ tasks'[t].by = tasks[t].by

Enqueued(t) ==
    /\ waiter[t].pc = "none" /\ waiter'[t].pc # "none"
    /\ tasks'[t].state = "queued" /\ tasks'[t].res = tasks[t].res
    /\ tasks'[t].starts = tasks[t].starts

Taken(t) ==
    /\ tasks[t].state = "queued" /\ tasks'[t].state = "running"
    /\ tasks'[t].res = tasks[t].res
    /\ tasks'[t].starts \in {tasks[t].starts, tasks[t].starts + 1}

Ended(t) ==
    /\ tasks[t].state \in Open /\ tasks'[t].state \in Closed
    /\ tasks'[t].res \in Results
    /\ tasks'[t].res = "cancelled" => tasks[t].state = "queued"
    /\ tasks'[t].res = "abandoned" => Lapsed(t)
    /\ tasks'[t].starts = tasks[t].starts

Deleted(t) ==
    /\ tasks[t].state # "absent" /\ tasks'[t].state = "gone"
    /\ tasks'[t].res = tasks[t].res /\ tasks'[t].starts = tasks[t].starts

RowMove(t) == Stays(t) \/ Enqueued(t) \/ Taken(t) \/ Ended(t) \/ Deleted(t)

VerdictMove(t) ==
    /\ waiter'[t].pc = "none" => waiter[t].pc = "none"
    /\ \/ waiter'[t].verdict = waiter[t].verdict
       \/ waiter'[t].verdict \notin Results
       \/ tasks'[t].state \in Closed /\ tasks'[t].res = waiter'[t].verdict
    /\ waiter'[t].pc = "returned" =>
          waiter'[t] = waiter[t] \/ waiter'[t].verdict = "error" \/ tasks'[t].state # "queued"

\* A row that a close does not concern stays, the other one ends.
LEMMA CloseMove ==
  ASSUME TypeOK, NEW t \in Tasks,
         \/ tasks' = CancelQueued(t)
         \/ tasks' = FailAbandoned(t)
         \/ \E a \in Agents, r \in Reported : tasks' = Complete(t, a, r)
  PROVE  \A u \in Tasks : RowMove(u)
  <1>1. ASSUME NEW r \in Results, tasks' = Finish(t, r), tasks[t].state \in Open,
               r = "cancelled" => tasks[t].state = "queued",
               r = "abandoned" => Lapsed(t)
        PROVE  \A u \in Tasks : RowMove(u)
    <2>1. ASSUME NEW u \in Tasks, u # t PROVE Stays(u)
      BY <1>1, <2>1, FinishRow DEF Stays
    <2>2. Ended(t)
      BY <1>1, FinishRow DEF Ended
    <2>3. QED BY <2>1, <2>2 DEF RowMove
  <1>2. CASE tasks' = tasks
    BY <1>2 DEF RowMove, Stays
  <1>3. CASE tasks' = CancelQueued(t)
    BY <1>1, <1>2, <1>3 DEF CancelQueued, Results, Open
  <1>4. CASE tasks' = FailAbandoned(t)
    BY <1>1, <1>2, <1>4 DEF FailAbandoned, Lapsed, Results, Open
  <1>5. ASSUME NEW a \in Agents, NEW r \in Reported, tasks' = Complete(t, a, r)
        PROVE  \A u \in Tasks : RowMove(u)
    BY <1>1, <1>2, <1>5 DEF Complete, HeldBy, Results, Reported, Open
  <1>6. QED BY <1>3, <1>4, <1>5

\* Dispatch calls other than the one that acts are left alone.
LEMMA WaiterMove ==
  ASSUME TypeOK, NEW t \in Tasks
  PROVE  /\ UNCHANGED waiter => \A u \in Tasks : VerdictMove(u)
         /\ \A pc \in {"waiting", "cancel", "condemn", "crashed"} : Goto(t, pc) =>
                waiter'[t].pc # "none" /\ \A u \in Tasks : VerdictMove(u)
         /\ \A v \in {"late", "interrupted", "error"} :
                Return(t, v) /\ (v = "error" \/ tasks'[t].state # "queued") =>
                    waiter'[t].pc # "none" /\ \A u \in Tasks : VerdictMove(u)
         /\ \A v \in Results : /\ Return(t, v)
                               /\ tasks'[t].state \in Closed /\ tasks'[t].res = v
                => \A u \in Tasks : VerdictMove(u)
  <1>1. UNCHANGED waiter => \A u \in Tasks : VerdictMove(u)
    BY DEF VerdictMove
  <1>2. ASSUME NEW pc \in {"waiting", "cancel", "condemn", "crashed"}, Goto(t, pc)
        PROVE  waiter'[t].pc # "none" /\ \A u \in Tasks : VerdictMove(u)
    <2>1. waiter' = [waiter EXCEPT ![t] = [waiter[t] EXCEPT !.pc = pc]]
      BY <1>2 DEF Goto
    <2>2. waiter[t] \in Wait
      BY DEF TypeOK
    <2>3. waiter'[t].pc = pc /\ waiter'[t].verdict = waiter[t].verdict
      BY <2>1, <2>2 DEF TypeOK, Wait
    <2>4. \A u \in Tasks : u # t => waiter'[u] = waiter[u]
      BY <2>1 DEF TypeOK
    <2>5. QED BY <1>2, <2>3, <2>4 DEF VerdictMove
  <1>3. ASSUME NEW v \in Results \cup {"late", "interrupted", "error"}, Return(t, v)
        PROVE  /\ waiter'[t].pc = "returned" /\ waiter'[t].verdict = v
               /\ \A u \in Tasks : u # t => waiter'[u] = waiter[u]
    BY <1>3 DEF Return, TypeOK
  <1>4. {"late", "interrupted", "error"} \cap Results = {}
    BY DEF Results, Reported
  <1>5. QED BY <1>1, <1>2, <1>3, <1>4 DEF VerdictMove, Closed

\* Every step moves every row and every verdict in one of these ways.
LEMMA Moves ==
  ASSUME TypeOK, [Next]_vars
  PROVE  \A u \in Tasks : RowMove(u) /\ VerdictMove(u)
  <1> USE TaskAssumption, TimerAssumption
  <1>0. UNCHANGED tasks => \A u \in Tasks : RowMove(u)
    BY DEF RowMove, Stays
  <1>1. ASSUME NEW t \in Tasks, Dispatch(t) PROVE \A u \in Tasks : RowMove(u) /\ VerdictMove(u)
    <2>1. waiter'[t].pc # "none" /\ \A u \in Tasks : VerdictMove(u)
      BY <1>1, WaiterMove DEF Dispatch
    <2>2. Enqueued(t)
      BY <1>1, <2>1 DEF Dispatch, MayDispatch, Enqueued, TypeOK, Row
    <2>3. \A u \in Tasks : u # t => Stays(u)
      BY <1>1 DEF Dispatch, Stays, TypeOK
    <2>4. QED BY <2>1, <2>2, <2>3 DEF RowMove
  <1>2. ASSUME NEW t \in Tasks, NEW applied \in BOOLEAN, EnqueueFailed(t, applied)
        PROVE  \A u \in Tasks : RowMove(u) /\ VerdictMove(u)
    <2>1. waiter'[t].pc # "none" /\ \A u \in Tasks : VerdictMove(u)
      BY <1>2, WaiterMove DEF EnqueueFailed
    <2>2. CASE tasks' = tasks
      BY <2>1, <2>2, <1>0
    <2>3. CASE tasks' = [tasks EXCEPT ![t].state = "queued"]
      <3>1. Enqueued(t)
        BY <1>2, <2>1, <2>3 DEF EnqueueFailed, MayDispatch, Enqueued, TypeOK, Row
      <3>2. \A u \in Tasks : u # t => Stays(u)
        BY <2>3 DEF Stays, TypeOK
      <3>3. QED BY <2>1, <3>1, <3>2 DEF RowMove
    <2>4. QED BY <1>2, <2>2, <2>3 DEF EnqueueFailed
  <1>3. ASSUME NEW t \in Tasks, Poll(t) PROVE \A u \in Tasks : RowMove(u) /\ VerdictMove(u)
    <2>1. ASSUME PollClosed(t) PROVE \A u \in Tasks : VerdictMove(u)
      <3>1. tasks'[t].state \in Closed /\ tasks'[t].res = tasks[t].res
        BY <2>1 DEF PollClosed
      <3>2. CASE tasks[t].res \in Results
        BY <2>1, <3>1, <3>2, WaiterMove DEF PollClosed
      <3>3. CASE tasks[t].res = "none"
        <4>1. waiter'[t].verdict \notin Results /\ waiter'[t].pc = "returned"
          BY <2>1, <3>3 DEF PollClosed, Return, TypeOK, Results, Reported
        <4>2. \A u \in Tasks : u # t => waiter'[u] = waiter[u]
          BY <2>1 DEF PollClosed, Return, TypeOK
        <4>3. QED BY <3>1, <4>1, <4>2 DEF VerdictMove, Closed
      <3>4. QED BY <3>2, <3>3 DEF TypeOK, Row
    <2>2. CASE PollClosed(t)
      BY <2>1, <2>2, <1>0 DEF PollClosed
    <2>3. CASE PollGone(t) \/ PollUnclaimed(t) \/ PollLapsed(t) \/ PollLate(t)
      BY <2>3, <1>0, WaiterMove DEF PollGone, PollUnclaimed, PollLapsed, PollLate
    <2>4. CASE Cancel(t)
      <3>1. \A u \in Tasks : RowMove(u)
        BY <2>4, CloseMove DEF Cancel
      <3>2. CASE tasks[t].state = "queued"
        <4>1. "cancelled" \in Results /\ tasks' = Finish(t, "cancelled")
          BY <2>4, <3>2 DEF Cancel, CancelQueued, Results
        <4>2. tasks'[t].state \in Closed /\ tasks'[t].res = "cancelled"
          BY <4>1, FinishRow
        <4>3. QED BY <2>4, <3>1, <3>2, <4>1, <4>2, WaiterMove DEF Cancel
      <3>3. CASE tasks[t].state # "queued"
        BY <2>4, <3>1, <3>3, WaiterMove DEF Cancel
      <3>4. QED BY <3>2, <3>3
    <2>5. CASE Condemn(t)
      <3>1. \A u \in Tasks : RowMove(u)
        BY <2>5, CloseMove DEF Condemn
      <3>2. CASE Lapsed(t)
        <4>1. "abandoned" \in Results /\ tasks' = Finish(t, "abandoned")
          BY <2>5, <3>2 DEF Condemn, FailAbandoned, Results
        <4>2. tasks'[t].state \in Closed /\ tasks'[t].res = "abandoned"
          BY <4>1, FinishRow
        <4>3. QED BY <2>5, <3>1, <3>2, <4>1, <4>2, WaiterMove DEF Condemn
      <3>3. CASE ~Lapsed(t)
        BY <2>5, <3>1, <3>3, WaiterMove DEF Condemn
      <3>4. QED BY <3>2, <3>3
    <2>6. QED BY <1>3, <2>2, <2>3, <2>4, <2>5 DEF Poll
  <1>4. ASSUME NEW t \in Tasks, PollOffline(t) \/ DaemonDies(t)
        PROVE  \A u \in Tasks : RowMove(u) /\ VerdictMove(u)
    BY <1>4, <1>0, WaiterMove DEF PollOffline, DaemonDies
  <1>5. ASSUME NEW t \in Tasks, Interrupt(t)
        PROVE  \A u \in Tasks : RowMove(u) /\ VerdictMove(u)
    <2>1. tasks'[t].state # "queued"
      <3>1. CASE tasks[t].state = "queued"
        BY <1>5, <3>1, FinishRow DEF Interrupt, CancelQueued, Results, Closed
      <3>2. QED BY <1>5, <3>1 DEF Interrupt, CancelQueued
    <2>2. QED BY <1>5, <2>1, CloseMove, WaiterMove DEF Interrupt
  <1>6. ASSUME NEW t \in Tasks, NEW applied \in BOOLEAN, CallFailed(t, applied)
        PROVE  \A u \in Tasks : RowMove(u) /\ VerdictMove(u)
    <2>1. tasks' \in {CancelQueued(t), FailAbandoned(t), tasks}
      BY <1>6 DEF CallFailed
    <2>2. QED BY <1>6, <2>1, <1>0, CloseMove, WaiterMove DEF CallFailed
  <1>7. ASSUME NEW a \in Agents, NEW t \in Tasks, NEW delivered \in BOOLEAN,
               Claim(a, t, delivered)
        PROVE  \A u \in Tasks : RowMove(u) /\ VerdictMove(u)
    <2> DEFINE n == IF delivered THEN tasks[t].starts + 1 ELSE tasks[t].starts
               row == [tasks[t] EXCEPT !.state = "running", !.by = a,
                                       !.left = Lease + 1, !.starts = n]
    <2>1. tasks' = [tasks EXCEPT ![t] = row] /\ tasks[t].state = "queued"
      BY <1>7 DEF Claim, Offered
    <2>2. n \in {tasks[t].starts, tasks[t].starts + 1}
      OBVIOUS
    <2>3. tasks[t] \in Row
      BY DEF TypeOK
    <2> HIDE DEF n
    <2>4. row.state = "running" /\ row.res = tasks[t].res /\ row.starts = n
      BY <2>3 DEF Row
    <2>5. tasks'[t] = row /\ \A u \in Tasks : u # t => tasks'[u] = tasks[u]
      BY <2>1 DEF TypeOK
    <2>6. Taken(t) /\ \A u \in Tasks : u # t => Stays(u)
      BY <2>1, <2>2, <2>4, <2>5 DEF Taken, Stays
    <2>7. QED BY <1>7, <2>6, WaiterMove DEF Claim, RowMove
  <1>8. ASSUME NEW a \in Agents, Beat(a)
        PROVE  \A u \in Tasks : RowMove(u) /\ VerdictMove(u)
    <2> DEFINE t == agent[a].task
    <2>1. t \in Tasks
      BY <1>8, AgentTyped DEF Beat, Busy
    <2>2. tasks' = tasks \/ tasks' = [tasks EXCEPT ![t] = [tasks[t] EXCEPT !.left = Lease + 1]]
      BY <1>8 DEF Beat
    <2>3. tasks[t] \in Row
      BY <2>1 DEF TypeOK
    <2> HIDE DEF t
    <2>4. \A u \in Tasks : Stays(u)
      BY <2>1, <2>2, <2>3 DEF Stays, TypeOK, Row
    <2>5. QED BY <1>8, <2>1, <2>4, WaiterMove DEF Beat, RowMove
  <1>9. ASSUME NEW a \in Agents, Report(a)
        PROVE  \A u \in Tasks : RowMove(u) /\ VerdictMove(u)
    <2>1. agent[a].task \in Tasks /\ agent[a].res \in Reported
      BY <1>9, AgentTyped DEF Report, Busy
    <2>2. QED BY <1>9, <2>1, CloseMove, WaiterMove DEF Report
  <1>10. ASSUME NEW a \in Agents, NEW applied \in BOOLEAN, ReportFailed(a, applied)
         PROVE  \A u \in Tasks : RowMove(u) /\ VerdictMove(u)
    <2>1. agent[a].task \in Tasks /\ agent[a].res \in Reported
      BY <1>10, AgentTyped DEF ReportFailed, Busy
    <2>2. tasks' = tasks \/ tasks' = Complete(agent[a].task, a, agent[a].res)
      BY <1>10 DEF ReportFailed
    <2>3. QED BY <1>10, <2>1, <2>2, <1>0, CloseMove, WaiterMove DEF ReportFailed
  <1>11. ASSUME NEW t \in Tasks, SweepClose(t)
         PROVE  \A u \in Tasks : RowMove(u) /\ VerdictMove(u)
    BY <1>11, CloseMove, WaiterMove DEF SweepClose
  <1>12. CASE DeleteByTenant
    <2>1. ASSUME NEW u \in Tasks PROVE RowMove(u)
      <3>1. CASE tasks[u].state = "absent"
        BY <1>12, <3>1 DEF DeleteByTenant, RowMove, Stays
      <3>2. CASE tasks[u].state # "absent"
        <4>1. tasks'[u] = [tasks[u] EXCEPT !.state = "gone"] /\ tasks[u] \in Row
          BY <1>12, <3>2 DEF DeleteByTenant, TypeOK
        <4>2. Deleted(u)
          BY <3>2, <4>1 DEF Deleted, Row
        <4>3. QED BY <4>2 DEF RowMove
      <3>3. QED BY <3>1, <3>2
    <2>2. QED BY <1>12, <2>1 DEF DeleteByTenant, VerdictMove
  <1>13. CASE Tick
    <2>1. ASSUME NEW u \in Tasks PROVE Stays(u)
      <3>1. tasks'[u] = TickRow(u) /\ tasks[u] \in Row
        BY <1>13 DEF Tick, TypeOK
      <3>2. QED BY <3>1 DEF TickRow, Stays, Row
    <2>2. QED BY <1>13, <2>1 DEF Tick, RowMove, VerdictMove
  <1>14. ASSUME UNCHANGED <<tasks, waiter>>
         PROVE  \A u \in Tasks : RowMove(u) /\ VerdictMove(u)
    BY <1>14, <1>0 DEF VerdictMove
  <1>15. QED
    BY <1>1, <1>2, <1>3, <1>4, <1>5, <1>6, <1>7, <1>8, <1>9, <1>10, <1>11, <1>12,
       <1>13, <1>14 DEF Next, vars, ScriptEnds, AgentDies, SweepList, SweepError

-----------------------------------------------------------------------------
(* One run per task, true messages, final answers.                         *)

\* A row nobody has claimed has not been run, an open row has no result, and
\* a row enters the queue once, before its Dispatch call waits.
RowInv(t) ==
    /\ waiter[t].pc = "none" => tasks[t].state = "absent"
    /\ tasks[t].state \in {"absent", "queued"} => tasks[t].starts = 0
    /\ tasks[t].state \in {"absent"} \cup Open => tasks[t].res = "none"
    /\ tasks[t].starts <= 1
    /\ tasks[t].res = "cancelled" => tasks[t].starts = 0
    /\ waiter[t].verdict \in Results =>
          tasks[t].state \in Closed \cup {"gone"} /\ tasks[t].res = waiter[t].verdict
    /\ waiter[t].pc = "returned" /\ waiter[t].verdict # "error" => tasks[t].state # "queued"

RunnerInv == TypeOK /\ \A t \in Tasks : RowInv(t)

\* A row's invariant follows from how rows and verdicts move.
LEMMA RunnerStep == RunnerInv /\ [Next]_vars => RunnerInv'
  <1> SUFFICES ASSUME RunnerInv, [Next]_vars PROVE RunnerInv'
    OBVIOUS
  <1>1. TypeOK /\ TypeOK'
    BY TypeStep DEF RunnerInv
  <1>2. ASSUME NEW t \in Tasks PROVE RowInv(t)'
    <2>1. RowInv(t) /\ RowMove(t) /\ VerdictMove(t)
      BY <1>1, Moves DEF RunnerInv
    <2>2. /\ tasks[t].starts \in Nat /\ tasks'[t].starts \in Nat
          /\ tasks[t].state \in {"absent", "gone"} \cup Open \cup Closed
      BY <1>1 DEF TypeOK, Row
    <2>3. CASE Stays(t)
      BY <2>1, <2>2, <2>3 DEF RowInv, Stays, VerdictMove, Open, Closed, Results, Reported
    <2>4. CASE Enqueued(t)
      BY <2>1, <2>2, <2>4 DEF RowInv, Enqueued, VerdictMove, Open, Closed, Results, Reported
    <2>5. CASE Taken(t)
      BY <2>1, <2>2, <2>5 DEF RowInv, Taken, VerdictMove, Open, Closed, Results, Reported
    <2>6. CASE Ended(t)
      BY <2>1, <2>2, <2>6 DEF RowInv, Ended, VerdictMove, Open, Closed, Results, Reported
    <2>7. CASE Deleted(t)
      BY <2>1, <2>2, <2>7 DEF RowInv, Deleted, VerdictMove, Open, Closed, Results, Reported
    <2>8. QED BY <2>1, <2>3, <2>4, <2>5, <2>6, <2>7 DEF RowMove
  <1>3. QED BY <1>1, <1>2 DEF RunnerInv

\* Before anything is dispatched nothing is queued, run or answered.
LEMMA RunnerInit == Init => RunnerInv
  BY DEF Init, RunnerInv, RowInv, TypeOK, Row, Wait, Open, Results, Reported

\* The inductive invariant holds in every reachable state.
THEOREM RunnerInvariance == Spec => []RunnerInv
  BY RunnerInit, RunnerStep, PTL DEF Spec

\* Whatever is lost, dies or lapses, the script of a task is handed to an
\* agent at most once (the rule in Claim: a lapsed claim is not re-offered).
THEOREM OneRunPerTask == Spec => []AtMostOneRun
  <1>1. RunnerInv => AtMostOneRun
    BY DEF RunnerInv, RowInv, AtMostOneRun
  <1>2. QED BY <1>1, RunnerInvariance, PTL

\* A task or a step that was told "the script was not run" was never handed
\* to an agent, and never will be.
THEOREM NotRunMeansNotRun == Spec => []NotRunIsTrue
  <1>1. RunnerInv => NotRunIsTrue
    BY DEF RunnerInv, RowInv, NotRunIsTrue, Results
  <1>2. QED BY <1>1, RunnerInvariance, PTL

\* The result a Dispatch call returned stays the result of its row: late
\* reports, the sweeper and other closes change nothing.
THEOREM AnswersAreFinal == Spec => []VerdictMatchesRecord
  <1>1. RunnerInv => VerdictMatchesRecord
    BY DEF RunnerInv, RowInv, VerdictMatchesRecord
  <1>2. QED BY <1>1, RunnerInvariance, PTL

\* A step that has returned without a store error left nothing in the queue.
THEOREM GivenUpNotQueued == Spec => []GivenUpIsClosed
  <1>1. RunnerInv => GivenUpIsClosed
    BY DEF RunnerInv, RowInv, GivenUpIsClosed
  <1>2. QED BY <1>1, RunnerInvariance, PTL

-----------------------------------------------------------------------------
(* The heartbeat keeps the claim.                                          *)

\* While an agent at work holds its row, what is left of the lease and how
\* long the agent has been quiet add up to the whole lease.
KeepsClaim(a) ==
    Busy(a) /\ HeldBy(agent[a].task, a)
        => tasks[agent[a].task].left + agent[a].quiet > Lease

ClaimInv == RunnerInv /\ \A a \in Agents : KeepsClaim(a)

\* An agent whose process is unchanged keeps its claim, if its row is no longer
\* running or was running already with no more left of its lease.
LEMMA KeepsUnmoved ==
  ASSUME NEW a \in Agents, KeepsClaim(a), agent'[a] = agent[a],
         Busy(a) => LET t == agent[a].task IN
                      \/ tasks'[t] = tasks[t]
                      \/ tasks'[t].state # "running"
                      \/ tasks'[t].by # a
  PROVE  KeepsClaim(a)'
  BY DEF KeepsClaim, Busy, HeldBy

\* Every step keeps the sum, one case per action.
LEMMA ClaimStep ==
  ASSUME ClaimInv, [Next]_vars
  PROVE  ClaimInv'
  <1> USE TaskAssumption, TimerAssumption
  <1>0. /\ RunnerInv /\ TypeOK /\ RunnerInv' /\ TypeOK'
        /\ \A a \in Agents : KeepsClaim(a)
        /\ \A a \in Agents : Busy(a) => agent[a].task \in Tasks
    BY RunnerStep, AgentTyped DEF ClaimInv, RunnerInv
  <1> SUFFICES \A b \in Agents : KeepsClaim(b)'
    BY <1>0 DEF ClaimInv
  <1>1. ASSUME UNCHANGED agent,
               \A u \in Tasks : tasks'[u] = tasks[u] \/ tasks'[u].state # "running"
        PROVE  \A b \in Agents : KeepsClaim(b)'
    BY <1>0, <1>1, KeepsUnmoved
  <1>2. ASSUME NEW t \in Tasks, NEW r \in Results, tasks' = tasks \/ tasks' = Finish(t, r)
        PROVE  \A u \in Tasks : tasks'[u] = tasks[u] \/ tasks'[u].state # "running"
    BY <1>0, <1>2, FinishRow DEF Closed
  <1>3. ASSUME NEW t \in Tasks,
               tasks' = tasks \/ tasks' = CancelQueued(t) \/ tasks' = FailAbandoned(t)
        PROVE  \A u \in Tasks : tasks'[u] = tasks[u] \/ tasks'[u].state # "running"
    <2>1. "cancelled" \in Results /\ "abandoned" \in Results
      BY DEF Results
    <2>2. QED BY <1>2, <1>3, <2>1 DEF CancelQueued, FailAbandoned
  <1>4. ASSUME NEW t \in Tasks, NEW applied \in BOOLEAN,
               Dispatch(t) \/ EnqueueFailed(t, applied)
        PROVE  \A b \in Agents : KeepsClaim(b)'
    <2>1. tasks' = tasks \/ tasks' = [tasks EXCEPT ![t] = [tasks[t] EXCEPT !.state = "queued"]]
      BY <1>4 DEF Dispatch, EnqueueFailed
    <2>2. \A u \in Tasks : tasks'[u] = tasks[u] \/ tasks'[u].state # "running"
      BY <1>0, <2>1 DEF TypeOK, Row
    <2>3. QED BY <1>1, <1>4, <2>2 DEF Dispatch, EnqueueFailed
  <1>5. ASSUME NEW t \in Tasks, Poll(t) \/ PollOffline(t) \/ Interrupt(t) \/ DaemonDies(t)
                                  \/ SweepClose(t) \/ SweepError(t)
        PROVE  \A b \in Agents : KeepsClaim(b)'
    <2>1. UNCHANGED agent /\ (tasks' = CancelQueued(t) \/ tasks' = FailAbandoned(t)
                                                         \/ tasks' = tasks)
      BY <1>5 DEF Poll, PollClosed, PollGone, PollUnclaimed, PollLapsed, PollLate, Cancel,
                  Condemn, PollOffline, Interrupt, DaemonDies, SweepClose, SweepError
    <2>2. QED BY <1>1, <1>3, <2>1
  <1>6. ASSUME NEW t \in Tasks, NEW applied \in BOOLEAN, CallFailed(t, applied)
        PROVE  \A b \in Agents : KeepsClaim(b)'
    <2>1. tasks' \in {CancelQueued(t), FailAbandoned(t), tasks}
      BY <1>6 DEF CallFailed
    <2>2. QED BY <1>1, <1>3, <1>6, <2>1 DEF CallFailed
  <1>7. ASSUME NEW a \in Agents, NEW t \in Tasks, NEW delivered \in BOOLEAN,
               Claim(a, t, delivered)
        PROVE  \A b \in Agents : KeepsClaim(b)'
    <2> DEFINE n == IF delivered THEN tasks[t].starts + 1 ELSE tasks[t].starts
               row == [tasks[t] EXCEPT !.state = "running", !.by = a,
                                       !.left = Lease + 1, !.starts = n]
    <2>1. tasks' = [tasks EXCEPT ![t] = row] /\ tasks[t] \in Row /\ ~Busy(a)
      BY <1>0, <1>7 DEF Claim, TypeOK
    <2>2. \/ agent' = agent
          \/ agent' = [agent EXCEPT ![a] = [pc |-> "run", task |-> t, ran |-> 0, quiet |-> 0]]
      BY <1>7 DEF Claim
    <2> HIDE DEF n
    <2>3. tasks'[t] = row /\ row.state = "running" /\ row.by = a /\ row.left = Lease + 1
      BY <1>0, <2>1 DEF TypeOK, Row
    <2>4. /\ tasks'[t].state = "running" /\ tasks'[t].by = a /\ tasks'[t].left = Lease + 1
          /\ \A u \in Tasks : u # t => tasks'[u] = tasks[u]
      BY <1>0, <2>1, <2>3 DEF TypeOK
    <2> HIDE DEF row
    <2>5. ASSUME NEW b \in Agents, b # a PROVE KeepsClaim(b)'
      <3>1. agent'[b] = agent[b]
        BY <1>0, <2>2, <2>5 DEF TypeOK
      <3>2. QED BY <1>0, <2>4, <2>5, <3>1, KeepsUnmoved
    <2>6. KeepsClaim(a)'
      <3>1. CASE agent' = agent
        BY <2>1, <3>1 DEF KeepsClaim, Busy
      <3>2. CASE agent' = [agent EXCEPT ![a] = [pc |-> "run", task |-> t, ran |-> 0, quiet |-> 0]]
        <4>1. agent'[a].task = t /\ agent'[a].quiet = 0
          BY <1>0, <3>2 DEF TypeOK
        <4>2. QED BY <2>4, <4>1 DEF KeepsClaim, HeldBy
      <3>3. QED BY <2>2, <3>1, <3>2
    <2>7. QED BY <2>5, <2>6
  <1>8. ASSUME NEW a \in Agents, Beat(a) PROVE \A b \in Agents : KeepsClaim(b)'
    <2> DEFINE t == agent[a].task
    <2>1. Busy(a) /\ t \in Tasks /\ agent[a].pc = "run" /\ agent[a] \in Working
      BY <1>0, <1>8, AgentTyped DEF Beat, Busy
    <2>2. tasks[t] \in Row
      BY <1>0, <2>1 DEF TypeOK
    <2>3. agent' = [agent EXCEPT ![a] = [agent[a] EXCEPT !.quiet = 0]]
      BY <1>8 DEF Beat
    <2>4. agent'[a].task = t /\ agent'[a].quiet = 0
      BY <1>0, <2>1, <2>3 DEF TypeOK, Working
    <2>5. \A b \in Agents : b # a => agent'[b] = agent[b]
      BY <1>0, <2>3 DEF TypeOK
    <2>6. CASE HeldBy(t, a)
      <3>1. tasks' = [tasks EXCEPT ![t] = [tasks[t] EXCEPT !.left = Lease + 1]]
        BY <1>8, <2>6 DEF Beat
      <3>2. tasks'[t] = [tasks[t] EXCEPT !.left = Lease + 1]
            /\ \A u \in Tasks : u # t => tasks'[u] = tasks[u]
        BY <1>0, <2>1, <3>1 DEF TypeOK
      <3>3. tasks'[t].by = a /\ tasks'[t].left = Lease + 1
        BY <2>2, <2>6, <3>2 DEF Row, HeldBy
      <3>4. KeepsClaim(a)'
        BY <2>4, <3>3 DEF KeepsClaim
      <3>5. ASSUME NEW b \in Agents, b # a PROVE KeepsClaim(b)'
        BY <1>0, <2>1, <2>5, <3>2, <3>3, <3>5, KeepsUnmoved
      <3>6. QED BY <3>4, <3>5
    <2>7. CASE ~HeldBy(t, a)
      <3>1. tasks' = tasks
        BY <1>8, <2>7 DEF Beat
      <3>2. KeepsClaim(a)'
        BY <2>4, <2>7, <3>1 DEF KeepsClaim, HeldBy
      <3>3. QED BY <1>0, <2>5, <3>1, <3>2, KeepsUnmoved
    <2>8. QED BY <2>6, <2>7
  <1>9. ASSUME NEW a \in Agents, NEW res \in Reported, ScriptEnds(a, res)
        PROVE  \A b \in Agents : KeepsClaim(b)'
    <2>1. /\ agent'[a].task = agent[a].task /\ agent'[a].quiet = agent[a].quiet
          /\ agent[a].pc = "run" /\ tasks' = tasks
          /\ \A b \in Agents : b # a => agent'[b] = agent[b]
      BY <1>0, <1>9 DEF ScriptEnds, TypeOK
    <2>2. KeepsClaim(a)'
      BY <1>0, <2>1 DEF KeepsClaim, Busy, HeldBy
    <2>3. QED BY <1>0, <2>1, <2>2, KeepsUnmoved
  <1>10. ASSUME NEW a \in Agents, Report(a) \/ AgentDies(a)
                  \/ \E applied \in BOOLEAN : ReportFailed(a, applied)
         PROVE  \A b \in Agents : KeepsClaim(b)'
    <2> DEFINE t == agent[a].task
    <2>1. Busy(a) /\ t \in Tasks /\ agent[a] \in Working
      BY <1>0, <1>10, AgentTyped DEF Report, ReportFailed, AgentDies, Busy
    <2>2. \/ tasks' = tasks
          \/ agent[a].res \in Results /\ tasks' = Finish(t, agent[a].res)
      BY <1>0, <1>10, <2>1, AgentTyped DEF Report, ReportFailed, AgentDies, Complete, Results
    <2>3. \A u \in Tasks : tasks'[u] = tasks[u] \/ tasks'[u].state # "running"
      BY <1>2, <2>1, <2>2
    <2>4. \A b \in Agents : b # a => agent'[b] = agent[b]
      BY <1>0, <1>10 DEF Report, ReportFailed, AgentDies, TypeOK
    <2>5. ASSUME NEW b \in Agents, b # a PROVE KeepsClaim(b)'
      BY <1>0, <2>3, <2>4, <2>5, KeepsUnmoved
    <2>6. CASE agent' = [agent EXCEPT ![a] = Idle]
      <3>1. ~Busy(a)'
        BY <1>0, <2>6 DEF TypeOK, Busy, Idle
      <3>2. QED BY <2>5, <3>1 DEF KeepsClaim
    <2>7. CASE /\ agent[a].pc = "report"
               /\ agent' = [agent EXCEPT ![a] = [agent[a] EXCEPT !.tries = agent[a].tries + 1]]
      <3>1. agent'[a].task = t /\ agent'[a].quiet = agent[a].quiet
        BY <1>0, <2>1, <2>7 DEF TypeOK, Working
      <3>2. KeepsClaim(a)'
        BY <1>0, <2>1, <2>3, <3>1 DEF KeepsClaim, HeldBy
      <3>3. QED BY <2>5, <3>2
    <2>8. QED BY <1>10, <2>6, <2>7 DEF Report, ReportFailed, AgentDies
  <1>11. CASE DeleteByTenant
    <2>1. \A u \in Tasks : tasks'[u] = tasks[u] \/ tasks'[u].state # "running"
      BY <1>0, <1>11 DEF DeleteByTenant, TypeOK, Row
    <2>2. QED BY <1>1, <1>11, <2>1 DEF DeleteByTenant
  <1>12. CASE Tick
    <2>1. ASSUME NEW b \in Agents PROVE KeepsClaim(b)'
      <3>1. CASE ~Busy(b)
        <4>1. agent'[b] = Idle
          BY <1>12, <3>1 DEF Tick, TickAgent
        <4>2. QED BY <4>1 DEF KeepsClaim, Busy, Idle
      <3>2. CASE Busy(b)
        <4> DEFINE t == agent[b].task
        <4>1. /\ t \in Tasks /\ agent[b] \in Working /\ agent[b].quiet \in Nat
              /\ tasks[t] \in Row
          BY <1>0, <3>2, AgentTyped DEF TypeOK
        <4>2. tasks'[t] = TickRow(t) /\ agent'[b] = TickAgent(b)
          BY <1>12, <4>1 DEF Tick
        <4>3. /\ agent'[b].quiet = IF agent[b].quiet <= Lease THEN agent[b].quiet + 1
                                                              ELSE agent[b].quiet
              /\ agent'[b].task = t
          BY <3>2, <4>1, <4>2 DEF TickAgent, Working
        <4>4. /\ tasks'[t].state = tasks[t].state /\ tasks'[t].by = tasks[t].by
              /\ tasks'[t].left + 1 >= tasks[t].left /\ tasks'[t].left \in Nat
          BY <4>1, <4>2 DEF TickRow, Row
        <4>5. tasks[t].left \in Nat
          BY <4>1 DEF Row
        <4>6. HeldBy(t, b) => tasks[t].left + agent[b].quiet > Lease
          BY <1>0, <3>2 DEF KeepsClaim
        <4> DEFINE kept == tasks'[t].state = "running" /\ tasks'[t].by = b
        <4>7. kept => HeldBy(t, b)
          BY <4>4 DEF HeldBy
        <4> HIDE DEF t
        <4>8. kept => tasks'[t].left + agent'[b].quiet > Lease
          <5>1. CASE agent[b].quiet <= Lease
            BY <4>1, <4>3, <4>4, <4>5, <4>6, <4>7, <5>1
          <5>2. CASE ~(agent[b].quiet <= Lease)
            BY <4>1, <4>3, <4>4, <5>2
          <5>3. QED BY <5>1, <5>2
        <4>9. QED BY <4>3, <4>8 DEF KeepsClaim, HeldBy, t
      <3>3. QED BY <3>1, <3>2
    <2>2. QED BY <2>1
  <1>13. CASE UNCHANGED vars \/ SweepList
    BY <1>0, <1>13, KeepsUnmoved DEF vars, SweepList
  <1>14. QED
    BY <1>4, <1>5, <1>6, <1>7, <1>8, <1>9, <1>10, <1>11, <1>12, <1>13 DEF Next

\* No task is failed as abandoned while its agent is at work and was heard of
\* within the lease, for every lease and timeout and any number of tasks and
\* machines, whatever requests are lost and processes die.
THEOREM HeartbeatKeepsClaim == Spec => NoFalseCondemnation
  <1>1. Init => ClaimInv
    BY RunnerInit DEF Init, ClaimInv, KeepsClaim, Busy, Idle
  <1>2. ClaimInv /\ [Next]_vars => ClaimInv'
    BY ClaimStep
  <1>3. ClaimInv /\ [Next]_vars =>
          [\A a \in Agents : /\ Busy(a) /\ HeldBy(agent[a].task, a)
                             /\ tasks'[agent[a].task].res = "abandoned"
                             => agent[a].quiet > Lease]_vars
    <2> SUFFICES ASSUME ClaimInv, [Next]_vars, NEW a \in Agents,
                        Busy(a), HeldBy(agent[a].task, a),
                        tasks'[agent[a].task].res = "abandoned"
                 PROVE  agent[a].quiet > Lease
      OBVIOUS
    <2> DEFINE t == agent[a].task
    <2>1. t \in Tasks /\ agent[a].quiet \in Nat /\ TypeOK /\ RowInv(t)
      BY AgentTyped DEF ClaimInv, RunnerInv
    <2>2. tasks[t].res = "none" /\ tasks[t].left \in Nat
      BY <2>1 DEF RowInv, HeldBy, Open, TypeOK, Row
    <2>3. RowMove(t)
      BY <2>1, Moves
    <2>4. Lapsed(t)
      BY <2>2, <2>3 DEF RowMove, Stays, Enqueued, Taken, Ended, Deleted
    <2>5. QED BY <2>1, <2>2, <2>4, TimerAssumption DEF ClaimInv, KeepsClaim, Lapsed
  <1>4. QED BY <1>1, <1>2, <1>3, PTL DEF Spec, NoFalseCondemnation
=============================================================================
