----------------------------- MODULE RunnerTasks -----------------------------
(***************************************************************************)
(* Scripts handed to agents on the organisation's own machines.            *)
(*                                                                         *)
(* The step run_on_runner calls RunnerDispatcher.Dispatch, which queues a  *)
(* task row and polls it (daemon/runner_tasks.go).  An agent               *)
(* (runner/dzrunner.py) claims one task at a time, runs the script while a *)
(* thread extends the claim, and reports the result.  A sweeper            *)
(* (daemon/runner_sweeper.go) closes the rows nobody waits for.  Every     *)
(* operation of the task store is atomic (a mutex in memory, a statement   *)
(* or a transaction in Postgres); the agent's requests may be lost before  *)
(* or after they took effect.                                              *)
(*                                                                         *)
(* Time is kept as timers: the age of a row, what is left of its lease,    *)
(* how long a script has run.  A tick advances them all.                   *)
(*                                                                         *)
(* Abstracted: scripts, output and progress lines; whether an eligible     *)
(* machine has checked in recently, which a waiting step may find false at *)
(* any poll after the pickup grace; the batch size of the sweep; the       *)
(* retention of closed rows (Prune).  Tasks without a timeout are left     *)
(* out: the step always sets one.                                          *)
(***************************************************************************)
EXTENDS Naturals

CONSTANTS
    Tasks,          \* task ids, each used by one Dispatch call
    Steps,          \* the node records whose execution dispatches
    StepOf,         \* the node record a Dispatch call executes
    Agents,         \* registered runners, one agent process each
    Nobody,         \* the empty claimed_by
    Carriers,       \* for each task, the runners that carry all of its tags
    TimeoutOf,      \* RunnerTask.Timeout
    Lease,          \* TaskLease (2 minutes)
    PickupGrace,    \* RunnerPickupGrace (30 seconds)
    DispatchGrace,  \* RunnerDispatchGrace (30 seconds)
    ReportAttempts, \* REPORT_ATTEMPTS of the agent (4)
    CallsFail,      \* TRUE: a store call of the waiting step may fail
    Crashes         \* TRUE: agents and daemons may die

ASSUME TaskAssumption ==
    /\ StepOf \in [Tasks -> Steps]
    /\ Carriers \in [Tasks -> SUBSET Agents]
    /\ TimeoutOf \in [Tasks -> Nat \ {0}]
    /\ Nobody \notin Agents
ASSUME TimerAssumption ==
    /\ Lease \in Nat \ {0} /\ PickupGrace \in Nat /\ DispatchGrace \in Nat
    /\ ReportAttempts \in Nat \ {0}
    /\ CallsFail \in BOOLEAN /\ Crashes \in BOOLEAN

VARIABLES
    tasks,   \* the rows of runner_tasks
    waiter,  \* the Dispatch call that waits for each task
    agent,   \* what each agent process is doing
    sweep    \* what the sweeper's listing still asks it to close

vars == <<tasks, waiter, agent, sweep>>

\* What an agent may report: exit code 0, another exit code, stopped at the
\* timeout.  The daemon itself closes rows as abandoned or cancelled.
Reported == {"ok", "nonzero", "timedout"}
Results == Reported \cup {"abandoned", "cancelled"}

(***************************************************************************)
(* state "absent": not queued yet; "gone": deleted with its tenant.  left  *)
(* is one more than the time to lease_until, 0 once now is after it.  age  *)
(* counts from created_at.  starts is a history variable: how often an     *)
(* agent was handed the script.                                            *)
(***************************************************************************)
Open == {"queued", "running"}
Closed == {"done", "failed"}
Row == [state : {"absent", "gone"} \cup Open \cup Closed,
        by : Agents \cup {Nobody}, left : Nat, age : Nat,
        res : Results \cup {"none"}, starts : Nat]

\* pc "cancel", "condemn": the poll decided to close the row and has not
\* called the store yet.  verdict is what Dispatch returned: a result, or
\* "late" (deadline), "interrupted" (run cancelled), "error" (store).
Wait == [pc : {"none", "waiting", "cancel", "condemn", "returned", "crashed"},
         verdict : Results \cup {"none", "late", "interrupted", "error"}]

\* ran: how long the script has run; quiet: how long nothing of the agent's
\* about this task got through; tries: reports sent.
Idle == [pc |-> "idle"]
Working == [pc : {"run"}, task : Tasks, ran : Nat, quiet : Nat]
             \cup [pc : {"report"}, task : Tasks, ran : Nat, quiet : Nat,
                   res : Reported, tries : Nat]

TypeOK ==
    /\ tasks \in [Tasks -> Row]
    /\ waiter \in [Tasks -> Wait]
    /\ agent \in [Agents -> Working \cup {Idle}]
    /\ sweep \in [Tasks -> {"no", "condemn", "cancel"}]

Init ==
    /\ tasks = [t \in Tasks |-> [state |-> "absent", by |-> Nobody, left |-> 0,
                                 age |-> 0, res |-> "none", starts |-> 0]]
    /\ waiter = [t \in Tasks |-> [pc |-> "none", verdict |-> "none"]]
    /\ agent = [a \in Agents |-> Idle]
    /\ sweep = [t \in Tasks |-> "no"]

-----------------------------------------------------------------------------
(* The task store.                                                         *)

Busy(a) == agent[a].pc # "idle"
HeldBy(t, a) == tasks[t].state = "running" /\ tasks[t].by = a
Lapsed(t) == tasks[t].state = "running" /\ tasks[t].left = 0
Overdue(t) == tasks[t].age > TimeoutOf[t] + DispatchGrace
Orphaned(t) == Lapsed(t) \/ (tasks[t].state = "queued" /\ Overdue(t))

Finish(t, res) ==
    [tasks EXCEPT ![t].state = IF res = "ok" THEN "done" ELSE "failed",
                  ![t].res = res]

\* Complete: the table after an agent reported a result.
Complete(t, a, res) == IF HeldBy(t, a) THEN Finish(t, res) ELSE tasks

\* Mutant: the row is cancelled without looking whether it was claimed.
CancelAnyOpen(t) == IF tasks[t].state \in Open THEN Finish(t, "cancelled") ELSE tasks

\* CancelQueued: the table after a cancel; a claimed row is left alone.
CancelQueued(t) ==
    IF tasks[t].state = "queued" THEN Finish(t, "cancelled") ELSE tasks

\* Mutant: the caller's earlier look at the lease is trusted.
FailAbandonedUnchecked(t) ==
    IF tasks[t].state = "running" THEN Finish(t, "abandoned") ELSE tasks

\* FailAbandoned: the lease is checked again under the row's lock.  The code
\* compares with the time of the caller's read, a moment earlier.
FailAbandoned(t) == IF Lapsed(t) THEN Finish(t, "abandoned") ELSE tasks

\* DeleteByTenant: all rows of an organisation that is being erased.
DeleteByTenant ==
    /\ \E t \in Tasks : tasks[t].state \in Open \cup Closed
    /\ tasks' = [t \in Tasks |-> IF tasks[t].state = "absent" THEN tasks[t]
                                 ELSE [tasks[t] EXCEPT !.state = "gone"]]
    /\ UNCHANGED <<waiter, agent, sweep>>

-----------------------------------------------------------------------------
(* RunnerDispatcher.Dispatch, one call per task.                           *)

Return(t, verdict) ==
    waiter' = [waiter EXCEPT ![t] = [pc |-> "returned", verdict |-> verdict]]
Goto(t, pc) == waiter' = [waiter EXCEPT ![t].pc = pc]

\* A node record is executed by one worker at a time; it is executed again,
\* with a task of its own, after the process that executed it died.
MayDispatch(t) ==
    /\ waiter[t].pc = "none"
    /\ Carriers[t] # {}
    /\ \A u \in Tasks : StepOf[u] = StepOf[t] => waiter[u].pc \in {"none", "crashed"}

Dispatch(t) ==
    /\ MayDispatch(t)
    /\ tasks' = [tasks EXCEPT ![t].state = "queued"]
    /\ Goto(t, "waiting")
    /\ UNCHANGED <<agent, sweep>>

\* Enqueue answers with an error; the row may be there all the same.
EnqueueFailed(t, applied) ==
    /\ CallsFail
    /\ MayDispatch(t)
    /\ tasks' = IF applied THEN [tasks EXCEPT ![t].state = "queued"] ELSE tasks
    /\ Return(t, "error")
    /\ UNCHANGED <<agent, sweep>>

\* Mutant: only a row that is done ends the wait, not a failed one.
PollDoneOnly(t) ==
    /\ waiter[t].pc = "waiting"
    /\ tasks[t].state = "done"
    /\ Return(t, tasks[t].res)
    /\ UNCHANGED <<tasks, agent, sweep>>

\* A poll finds the row closed, by whomever.
PollClosed(t) ==
    /\ waiter[t].pc = "waiting"
    /\ tasks[t].state \in Closed
    /\ Return(t, tasks[t].res)
    /\ UNCHANGED <<tasks, agent, sweep>>

\* A poll finds the row deleted: "read the task back" fails.
PollGone(t) ==
    /\ waiter[t].pc \in {"waiting", "cancel", "condemn"}
    /\ tasks[t].state = "gone"
    /\ Return(t, "error")
    /\ UNCHANGED <<tasks, agent, sweep>>

\* A poll finds the row unclaimed after the pickup grace, and no machine that
\* carries the tags has checked in recently (checkTargetOnline).
PollOffline(t) ==
    /\ waiter[t].pc = "waiting"
    /\ tasks[t].state = "queued" /\ tasks[t].age > PickupGrace
    /\ Goto(t, "cancel")
    /\ UNCHANGED <<tasks, agent, sweep>>

\* A poll finds the row unclaimed past the deadline.
PollUnclaimed(t) ==
    /\ waiter[t].pc = "waiting"
    /\ tasks[t].state = "queued" /\ Overdue(t)
    /\ Goto(t, "cancel")
    /\ UNCHANGED <<tasks, agent, sweep>>

\* A poll finds the claim lapsed.
PollLapsed(t) ==
    /\ waiter[t].pc = "waiting"
    /\ Lapsed(t)
    /\ Goto(t, "condemn")
    /\ UNCHANGED <<tasks, agent, sweep>>

\* A poll finds the row running past the deadline; the row is left as it is.
PollLate(t) ==
    /\ waiter[t].pc = "waiting"
    /\ tasks[t].state = "running" /\ ~Lapsed(t) /\ Overdue(t)
    /\ Return(t, "late")
    /\ UNCHANGED <<tasks, agent, sweep>>

\* CancelQueued, and back to polling if an agent was faster.
Cancel(t) ==
    /\ waiter[t].pc = "cancel"
    /\ tasks[t].state # "gone"
    /\ tasks' = CancelQueued(t)
    /\ IF tasks[t].state = "queued" THEN Return(t, "cancelled") ELSE Goto(t, "waiting")
    /\ UNCHANGED <<agent, sweep>>

\* FailAbandoned, and back to polling if the agent was heard of after all.
Condemn(t) ==
    /\ waiter[t].pc = "condemn"
    /\ tasks[t].state # "gone"
    /\ tasks' = FailAbandoned(t)
    /\ IF Lapsed(t) THEN Return(t, "abandoned") ELSE Goto(t, "waiting")
    /\ UNCHANGED <<agent, sweep>>

\* Mutant: a cancelled run returns at once and leaves its task queued.
InterruptLeavesRow(t) ==
    /\ waiter[t].pc = "waiting"
    /\ Return(t, "interrupted")
    /\ UNCHANGED <<tasks, agent, sweep>>

\* The run is cancelled between two polls: the row is closed if unclaimed.
Interrupt(t) ==
    /\ waiter[t].pc = "waiting"
    /\ tasks' = CancelQueued(t)
    /\ Return(t, "interrupted")
    /\ UNCHANGED <<agent, sweep>>

\* A store call of the loop fails: the store is unreachable, or the run is
\* cancelled while the call is under way (the call runs under the run's
\* context).  The call may have taken effect.
CallFailed(t, applied) ==
    /\ CallsFail
    /\ waiter[t].pc \in {"waiting", "cancel", "condemn"}
    /\ tasks' = CASE applied /\ waiter[t].pc = "cancel" -> CancelQueued(t)
                  [] applied /\ waiter[t].pc = "condemn" -> FailAbandoned(t)
                  [] OTHER -> tasks
    /\ Return(t, "error")
    /\ UNCHANGED <<agent, sweep>>

\* The daemon process that waits dies: redeploy, OOM kill.
DaemonDies(t) ==
    /\ Crashes
    /\ waiter[t].pc \in {"waiting", "cancel", "condemn"}
    /\ Goto(t, "crashed")
    /\ UNCHANGED <<tasks, agent, sweep>>

-----------------------------------------------------------------------------
(* The agent: claim, execute with heartbeat, report.                       *)

Oldest(a, t) ==
    \A u \in Tasks : tasks[u].state = "queued" /\ a \in Carriers[u]
                        => tasks[u].age <= tasks[t].age

\* Mutant: a lapsed claim is offered again.
OffersLapsed(a, t) ==
    a \in Carriers[t] /\ (Lapsed(t) \/ (tasks[t].state = "queued" /\ Oldest(a, t)))

\* What the claim query selects: the oldest queued task among those whose
\* tags the runner carries.
Offered(a, t) == a \in Carriers[t] /\ tasks[t].state = "queued" /\ Oldest(a, t)

\* Claim; the answer may be lost on its way to the agent.
Claim(a, t, delivered) ==
    /\ ~Busy(a)
    /\ Offered(a, t)
    /\ tasks' = [tasks EXCEPT ![t].state = "running", ![t].by = a,
                              ![t].left = Lease + 1,
                              ![t].starts = IF delivered THEN @ + 1 ELSE @]
    /\ agent' = IF delivered
                  THEN [agent EXCEPT ![a] = [pc |-> "run", task |-> t,
                                             ran |-> 0, quiet |-> 0]]
                  ELSE agent
    /\ UNCHANGED <<waiter, sweep>>

\* A heartbeat gets through: Extend.  A claim that is lost stays lost, and
\* the agent goes on with the script whatever the answer.
Beat(a) ==
    /\ agent[a].pc = "run" /\ agent[a].quiet > 0
    /\ tasks' = IF HeldBy(agent[a].task, a)
                  THEN [tasks EXCEPT ![agent[a].task].left = Lease + 1]
                  ELSE tasks
    /\ agent' = [agent EXCEPT ![a].quiet = 0]
    /\ UNCHANGED <<waiter, sweep>>

\* The script exits, or is stopped at its timeout; the heartbeat stops.
ScriptEnds(a, res) ==
    /\ agent[a].pc = "run"
    /\ agent[a].ran < TimeoutOf[agent[a].task] => res # "timedout"
    /\ agent' = [agent EXCEPT ![a] = [pc |-> "report", task |-> @.task, ran |-> @.ran,
                                      quiet |-> @.quiet, res |-> res, tries |-> 0]]
    /\ UNCHANGED <<tasks, waiter, sweep>>

\* report gets through.  The row takes the result if the agent still holds
\* it; the refusal otherwise (409) is final too.
Report(a) ==
    /\ agent[a].pc = "report"
    /\ tasks' = Complete(agent[a].task, a, agent[a].res)
    /\ agent' = [agent EXCEPT ![a] = Idle]
    /\ UNCHANGED <<waiter, sweep>>

\* A report is lost, or its answer is; the agent tries again a few times.  A
\* report the server refuses for its size ends as one whose tries are spent.
ReportFailed(a, applied) ==
    /\ agent[a].pc = "report"
    /\ tasks' = IF applied THEN Complete(agent[a].task, a, agent[a].res) ELSE tasks
    /\ IF agent[a].tries + 1 < ReportAttempts
         THEN agent' = [agent EXCEPT ![a].tries = @ + 1]
         ELSE agent' = [agent EXCEPT ![a] = Idle]
    /\ UNCHANGED <<waiter, sweep>>

\* The machine goes down; the agent starts afresh and knows of no task.
AgentDies(a) ==
    /\ Crashes
    /\ Busy(a)
    /\ agent' = [agent EXCEPT ![a] = Idle]
    /\ UNCHANGED <<tasks, waiter, sweep>>

-----------------------------------------------------------------------------
(* RunnerTaskSweeper.Sweep.                                                *)

\* Mutant: only the claims that lapsed are listed.
SweepLapsedOnly ==
    /\ \A t \in Tasks : sweep[t] = "no"
    /\ \E t \in Tasks : Lapsed(t)
    /\ sweep' = [t \in Tasks |-> IF Lapsed(t) THEN "condemn" ELSE "no"]
    /\ UNCHANGED <<tasks, waiter, agent>>

\* OrphanedTasks lists the rows to close and how.
SweepList ==
    /\ \A t \in Tasks : sweep[t] = "no"
    /\ \E t \in Tasks : Orphaned(t)
    /\ sweep' = [t \in Tasks |-> IF ~Orphaned(t) THEN "no"
                                 ELSE IF Lapsed(t) THEN "condemn" ELSE "cancel"]
    /\ UNCHANGED <<tasks, waiter, agent>>

\* One row of the listing, closed by the operation that checks it again.
SweepClose(t) ==
    /\ sweep[t] # "no"
    /\ tasks' = IF sweep[t] = "condemn" THEN FailAbandoned(t) ELSE CancelQueued(t)
    /\ sweep' = [sweep EXCEPT ![t] = "no"]
    /\ UNCHANGED <<waiter, agent>>

\* A row that cannot be closed does not stop the batch.
SweepError(t) ==
    /\ CallsFail
    /\ sweep[t] # "no"
    /\ sweep' = [sweep EXCEPT ![t] = "no"]
    /\ UNCHANGED <<tasks, waiter, agent>>

-----------------------------------------------------------------------------
(* Time.  Timers that have passed the last threshold stand still.          *)

TickRow(t) ==
    [tasks[t] EXCEPT
        !.left = IF tasks[t].state = "running" /\ @ > 0 THEN @ - 1 ELSE @,
        !.age = IF tasks[t].state \in Open /\ ~(Overdue(t) /\ @ > PickupGrace)
                  THEN @ + 1 ELSE @]

TickAgent(a) ==
    IF ~Busy(a) THEN Idle
    ELSE [agent[a] EXCEPT
            !.ran = IF @ < TimeoutOf[agent[a].task] THEN @ + 1 ELSE @,
            !.quiet = IF @ <= Lease THEN @ + 1 ELSE @]

Tick ==
    /\ tasks' = [t \in Tasks |-> TickRow(t)]
    /\ agent' = [a \in Agents |-> TickAgent(a)]
    /\ UNCHANGED <<waiter, sweep>>

-----------------------------------------------------------------------------
Poll(t) ==
    \/ PollClosed(t) \/ PollGone(t) \/ PollUnclaimed(t) \/ PollLapsed(t)
    \/ PollLate(t) \/ Cancel(t) \/ Condemn(t)

Next ==
    \/ \E t \in Tasks : Dispatch(t)
    \/ \E t \in Tasks, applied \in BOOLEAN : EnqueueFailed(t, applied)
    \/ \E t \in Tasks : Poll(t)
    \/ \E t \in Tasks : PollOffline(t)
    \/ \E t \in Tasks : Interrupt(t)
    \/ \E t \in Tasks, applied \in BOOLEAN : CallFailed(t, applied)
    \/ \E t \in Tasks : DaemonDies(t)
    \/ \E a \in Agents, t \in Tasks, delivered \in BOOLEAN : Claim(a, t, delivered)
    \/ \E a \in Agents : Beat(a)
    \/ \E a \in Agents, res \in Reported : ScriptEnds(a, res)
    \/ \E a \in Agents : Report(a)
    \/ \E a \in Agents, applied \in BOOLEAN : ReportFailed(a, applied)
    \/ \E a \in Agents : AgentDies(a)
    \/ SweepList
    \/ \E t \in Tasks : SweepClose(t)
    \/ \E t \in Tasks : SweepError(t)
    \/ DeleteByTenant
    \/ Tick

Spec == Init /\ [][Next]_vars

\* The clock runs, the sweeper is a ticker whose closes do not fail for ever,
\* Dispatch polls, an agent stops a script at its timeout and makes a bounded
\* number of reports.  Nothing is assumed of claims, heartbeats, deliveries.
Fairness ==
    /\ WF_vars(Tick)
    /\ WF_vars(SweepList)
    /\ \A t \in Tasks : SF_vars(SweepClose(t)) /\ WF_vars(Poll(t))
    /\ \A a \in Agents :
          /\ WF_vars(agent[a].pc = "run" /\ agent[a].ran = TimeoutOf[agent[a].task]
                        /\ ScriptEnds(a, "timedout"))
          /\ WF_vars(Report(a) \/ \E applied \in BOOLEAN : ReportFailed(a, applied))

FairSpec == Spec /\ Fairness

-----------------------------------------------------------------------------
(* Properties.                                                             *)

\* The comment in Claim: a lapsed claim is not offered again, since a second
\* run would repeat the side effects of the first.  Whatever is lost, dies
\* or lapses, a task's script is handed to an agent at most once.
AtMostOneRun == \A t \in Tasks : tasks[t].starts <= 1

\* The messages of cancelledResult and of the sweeper ("the script was not
\* run") are true when they are written and stay true: no agent was or ever
\* is handed a script whose task reads so, or whose step was told so.
NotRunIsTrue ==
    \A t \in Tasks :
        "cancelled" \in {tasks[t].res, waiter[t].verdict} => tasks[t].starts = 0

\* What Dispatch told the flow is what the row says for good: a late report,
\* the sweeper and a second close never change a result a step has read.
VerdictMatchesRecord ==
    \A t \in Tasks :
        waiter[t].verdict \in Results =>
            /\ tasks[t].state \in Closed \cup {"gone"}
            /\ tasks[t].res = waiter[t].verdict

\* docs/guide/runners.md: work a step has given up on is closed, not left in
\* a queue.  When Dispatch has returned, no agent can pick the task up, unless a
\* store call failed: the error exits of Dispatch leave the row to the sweeper.
GivenUpIsClosed ==
    \A t \in Tasks : waiter[t].pc = "returned" /\ waiter[t].verdict # "error"
                        => tasks[t].state # "queued"

\* The heartbeat is what stands between a long script and "a failure which
\* did not happen": neither the waiting step nor the sweeper, each acting on an
\* earlier look at the row, fails a task whose agent is at work and was heard
\* of within the lease.
NoFalseCondemnation ==
    [][\A a \in Agents :
          /\ Busy(a) /\ HeldBy(agent[a].task, a)
          /\ tasks'[agent[a].task].res = "abandoned"
          => agent[a].quiet > Lease]_vars

\* The comment on RunnerDispatchGrace: the runner's deadline expires first.
\* A step does not give up on a script that its agent still lets run.
RunnerTimesOutFirst ==
    \A a \in Agents, t \in Tasks :
        agent[a].pc = "run" /\ agent[a].task = t /\ waiter[t].verdict = "late"
            => agent[a].ran >= TimeoutOf[t]

\* docs/guide/runners.md: "A script is never run twice."  The executions of
\* one node record hand its script to an agent at most once between them.
NeverRunTwice ==
    \A t, u \in Tasks :
        t # u /\ StepOf[t] = StepOf[u] => tasks[t].starts = 0 \/ tasks[u].starts = 0

\* The sweeper's purpose: a task that was queued is closed in the end, also
\* when the daemon that waited for it and the agent that took it have died.
TasksClose ==
    \A t \in Tasks : tasks[t].state \in Open ~> tasks[t].state \notin Open

\* Dispatch returns: the run view never hangs on a machine that went away.
DispatchEnds ==
    \A t \in Tasks : waiter[t].pc = "waiting" ~> waiter[t].pc \in {"returned", "crashed"}
=============================================================================
