------------------------------ MODULE Scheduler ------------------------------
(***************************************************************************)
(* The cron and poll scheduler of a cluster of daemons.  Each replica has  *)
(* a scheduler loop (daemon/scheduler.go: Run, rescan, reanchor, fireDue)  *)
(* and a leader loop (daemon/leader.go) that holds a Postgres advisory     *)
(* lock for as long as its session lives; only a replica that believes it  *)
(* is the leader fires.  Time is the clock the replicas share; a loop may  *)
(* be late by any amount.                                                  *)
(***************************************************************************)
EXTENDS Integers, FiniteSets, FiniteSetsExt

CONSTANTS
    Replicas, Nobody,
    Flows, Polls,      \* the flows with a schedule; those in Polls poll, the others run by cron
    Every, Jitter,     \* the period of each flow and its stagger (0 for cron)
    MaxPublished,      \* the flows published at once
    Grace, MaxMult,    \* pollBackoffGrace, maxPollBackoffMultiplier
    Ceiling,           \* core.MaxPollIntervalSeconds
    LookupFails,       \* whether the look-up of a flow's newest run may fail at a takeover
    PromptLoops,       \* whether a scheduler loop looks at the flag at least once per retryInterval
    MaxTime,
    MaxFaults          \* bounds lost sessions, failed pings, crashes, edits and refusals together

ASSUME ScheduleAssumption ==
    /\ Polls \subseteq Flows
    /\ \A f \in Flows : Every[f] \in Nat \ {0} /\ Jitter[f] \in Nat /\ 4 * Jitter[f] < Every[f]
    /\ \A f \in Flows \ Polls : Jitter[f] = 0
    /\ \A f \in Polls : Every[f] <= Ceiling
    /\ Grace \in Nat /\ MaxMult \in Nat \ {0} /\ Ceiling \in Nat \ {0} /\ MaxTime \in Nat \ {0}
    /\ Nobody \notin Replicas /\ LookupFails \in BOOLEAN /\ PromptLoops \in BOOLEAN
    /\ MaxPublished \in Nat /\ MaxFaults \in Nat

VARIABLES
    now,
    lock,       \* whose session holds the advisory lock
    rep,        \* the replicas
    published,  \* the flows ListSchedules returns
    last,       \* when each flow's newest run was recorded; 0 for none
    fired,      \* the tick each cron flow was last fired for; 0 for never
    due,        \* the first fire a leader announced and nobody made or reported; 0 for none
    split,      \* two replicas have acted as leader at the same time
    silent,     \* the flows whose newest record does not tell what is owed: the latest fire
                \* was refused and left none, or the flow was put back on its schedule since
    faults

vars == <<now, lock, rep, published, last, fired, due, split, silent, faults>>

(***************************************************************************)
(* lead: "follow", "hold" (the lock was acquired), "leave" (the session is *)
(* being given up, the flag still set).  was, pc, clock, left: the         *)
(* scheduler loop, with the clock fireDue read and the entries it has      *)
(* still to look at.  at, streak: the tracked entries (0: not tracked).    *)
(* told: the flows a missed-fires marker was written for (markOnce's       *)
(* window is longer than MaxTime); skipped: those a refusal was noted for. *)
(***************************************************************************)
Down == [up |-> FALSE, lead |-> "follow", was |-> FALSE, pc |-> "boot", clock |-> 0, left |-> {},
         at |-> [f \in Flows |-> 0], streak |-> [f \in Flows |-> 0],
         told |-> {}, skipped |-> {}]

\* A streak at which the interval has stopped widening; it is counted no further.
Widest == Grace + MaxMult

IsLeader(r) == rep[r].lead # "follow"
Acting(r) == IsLeader(r) \/ rep[r].pc \in {"anchored", "firing"}

\* No entry of a flow lies further ahead.
Horizon(f) == MaxTime + (IF f \in Polls THEN Ceiling ELSE Every[f])

Reps == [up : BOOLEAN, lead : {"follow", "hold", "leave"}, was : BOOLEAN, pc : {"boot", "idle", "anchored", "firing"},
         clock : 0 .. MaxTime, left : SUBSET Flows, at : [Flows -> Nat],
         streak : [Flows -> 0 .. Widest], told : SUBSET Flows, skipped : SUBSET Flows]

TypeOK ==
    /\ now \in 0 .. MaxTime
    /\ lock \in Replicas \cup {Nobody}
    /\ rep \in [Replicas -> Reps]
    /\ published \subseteq Flows
    /\ last \in [Flows -> 0 .. MaxTime]
    /\ fired \in [Flows \ Polls -> 0 .. MaxTime]
    /\ due \in [Flows -> Nat]
    /\ \A f \in Flows : due[f] <= Horizon(f) /\ \A r \in Replicas : rep[r].at[f] <= Horizon(f)
    /\ split \in BOOLEAN
    /\ silent \subseteq Flows
    /\ faults \in 0 .. MaxFaults

Init ==
    /\ now = 1
    /\ lock = Nobody
    /\ rep = [r \in Replicas |-> Down]
    /\ published \in SUBSET Flows /\ Cardinality(published) <= MaxPublished
    /\ last = [f \in Flows |-> 0]
    /\ fired = [f \in Flows \ Polls |-> 0]
    /\ due = [f \in Flows |-> 0]
    /\ split = FALSE
    /\ silent = {}
    /\ faults = 0

-----------------------------------------------------------------------------
(* When a flow fires next.                                                 *)

\* Mutant of effectiveInterval: the widening is not capped.
effectiveIntervalUncapped(f, streak) ==
    IF streak >= Grace THEN Every[f] * 2 ^ Min({streak - Grace + 1, 16}) ELSE Every[f]

\* A poller that keeps finding nothing widens its interval, up to a cap.
effectiveInterval(f, streak) ==
    LET mult == IF streak >= Grace THEN Min({2 ^ Min({streak - Grace + 1, 16}), MaxMult}) ELSE 1
    IN  Min({Every[f] * mult, Ceiling})

nextFireFrom(f, streak, t) ==
    IF f \in Polls THEN t + effectiveInterval(f, streak)
    ELSE t - (t % Every[f]) + Every[f]

staggeredNextFire(f, streak, t) == nextFireFrom(f, streak, t) - Jitter[f]

\* recordMissedFires finds a fire after the one at t that should have happened.
MissedAfter(f, streak, t) == nextFireFrom(f, streak, t) <= now

-----------------------------------------------------------------------------
(* The leader loop.                                                        *)

\* pg_try_advisory_lock, then set(true).  A replica tries again retryInterval,
\* five ticks of its scheduler loop, after it lost the lock.
TryLock(r) ==
    /\ rep[r].up /\ rep[r].lead = "follow" /\ lock = Nobody
    /\ PromptLoops => ~rep[r].was
    /\ lock' = r
    /\ rep' = [rep EXCEPT ![r].lead = "hold"]
    /\ split' = (split \/ \E q \in Replicas \ {r} : Acting(q))
    /\ UNCHANGED <<now, published, last, fired, due, silent, faults>>

\* The session dies; the server releases the lock, the replica does not know.
LoseSession(r) ==
    /\ lock = r /\ rep[r].lead = "hold"
    /\ faults < MaxFaults
    /\ faults' = faults + 1
    /\ lock' = Nobody
    /\ UNCHANGED <<now, rep, published, last, fired, due, split, silent>>

\* Mutant of PingFails: the connection goes back to the pool with its lock.
PingFailsKeepsLock(r) ==
    /\ rep[r].lead = "hold"
    /\ lock = r => faults < MaxFaults
    /\ faults' = IF lock = r THEN faults + 1 ELSE faults
    /\ rep' = [rep EXCEPT ![r].lead = "leave"]
    /\ UNCHANGED <<now, lock, published, last, fired, due, split, silent>>

\* A ping fails, the session being lost or only slow: the lock is dropped, by
\* unlocking or by closing the session.
PingFails(r) ==
    /\ rep[r].lead = "hold"
    /\ lock = r => faults < MaxFaults
    /\ faults' = IF lock = r THEN faults + 1 ELSE faults
    /\ lock' = IF lock = r THEN Nobody ELSE lock
    /\ rep' = [rep EXCEPT ![r].lead = "leave"]
    /\ UNCHANGED <<now, published, last, fired, due, split, silent>>

\* Run, after acquireAndHold returned: set(false).
Demote(r) ==
    /\ rep[r].lead = "leave"
    /\ rep' = [rep EXCEPT ![r].lead = "follow"]
    /\ UNCHANGED <<now, lock, published, last, fired, due, split, silent, faults>>

-----------------------------------------------------------------------------
(* The scheduler loop.                                                     *)

\* applySpecs: an entry whose cadence is unchanged keeps its next fire.
Applied(r) ==
    [f \in Flows |-> IF f \notin published THEN 0
                     ELSE IF rep[r].at[f] # 0 THEN rep[r].at[f]
                     ELSE staggeredNextFire(f, 0, now)]

\* A leader's entries are announcements.  What was announced first stays owed, across
\* restarts and handovers, until it is reported (the flows in report) or the flow fires.
Owes(r, at, report) ==
    [f \in Flows |-> IF ~IsLeader(r) \/ at[f] = 0 THEN due[f]
                     ELSE IF due[f] = 0 \/ f \in report THEN at[f]
                     ELSE Min({due[f], at[f]})]

\* The process comes up; its leader loop may run before the scheduler's Run does.
Boot(r) ==
    /\ ~rep[r].up
    /\ rep' = [rep EXCEPT ![r].up = TRUE]
    /\ UNCHANGED <<now, lock, published, last, fired, due, split, silent, faults>>

\* Run up to its loop: the first rescan, and wasLeader from the flag.  No time
\* passes between the two.
Start(r) ==
    /\ rep[r].up /\ rep[r].pc = "boot"
    /\ rep' = [rep EXCEPT ![r].pc = "idle", ![r].at = Applied(r), ![r].was = IsLeader(r)]
    /\ due' = Owes(r, Applied(r), {})
    /\ UNCHANGED <<now, lock, published, last, fired, split, silent, faults>>

Rescan(r) ==
    /\ rep[r].up /\ rep[r].pc = "idle" /\ rep[r].at # Applied(r)
    /\ rep' = [rep EXCEPT ![r].at = Applied(r),
                          ![r].streak = [f \in Flows |-> IF rep[r].at[f] = 0 THEN 0 ELSE rep[r].streak[f]]]
    /\ due' = Owes(r, Applied(r), {})
    /\ UNCHANGED <<now, lock, published, last, fired, split, silent, faults>>

Tracked(r) == {f \in Flows : rep[r].at[f] # 0}

\* firstOwedFire: the fire due after the last recorded run, a poller measured at
\* its widest interval.
FirstOwedFire(r, f) == nextFireFrom(f, Widest, last[f])

\* Mutant of Missed: the entry the follower had frozen is taken as evidence.
MissedFrozen(r) == {f \in Tracked(r) : MissedAfter(f, rep[r].streak[f], rep[r].at[f])}

\* The entries reanchor reports: overdue here, and owed by what the store says.
Missed(r) ==
    {f \in Tracked(r) :
        /\ rep[r].at[f] <= now
        /\ last[f] # 0 /\ FirstOwedFire(r, f) <= now
        /\ MissedAfter(f, Widest, FirstOwedFire(r, f))}

\* Mutant of TickTakeover: the entries are left as the follower had them.
TickTakeoverFrozen(r) ==
    /\ rep[r].up /\ rep[r].pc = "idle"
    /\ IsLeader(r) /\ ~rep[r].was
    /\ rep' = [rep EXCEPT ![r].was = TRUE, ![r].pc = "anchored"]
    /\ UNCHANGED <<now, lock, published, last, fired, due, split, silent, faults>>

\* A tick that finds the leadership new: reanchor; fireDue follows.  The marker
\* (markBroken, recordBrokenSchedule) is a run record of its own.
TickTakeover(r) ==
    /\ rep[r].up /\ rep[r].pc = "idle"
    /\ IsLeader(r) /\ ~rep[r].was
    /\ LET at == [f \in Flows |-> IF f \in Tracked(r) THEN staggeredNextFire(f, rep[r].streak[f], now) ELSE 0]
       IN  \E report \in IF LookupFails THEN SUBSET (Missed(r) \ rep[r].told)
                                      ELSE {Missed(r) \ rep[r].told} :
           /\ rep' = [rep EXCEPT ![r].was = TRUE, ![r].at = at, ![r].told = @ \cup report,
                                 ![r].pc = "anchored"]
           /\ last' = [f \in Flows |-> IF f \in report THEN now ELSE last[f]]
           /\ due' = Owes(r, at, report)
    /\ UNCHANGED <<now, lock, published, fired, split, silent, faults>>

Due(r) == {f \in Tracked(r) : rep[r].at[f] <= now}

\* fireDue reads the clock and takes the entries that are due.
FireDue(r) ==
    /\ \/ rep[r].pc = "anchored"
       \/ rep[r].up /\ rep[r].pc = "idle" /\ IsLeader(r) /\ rep[r].was /\ Due(r) # {}
    /\ rep' = [rep EXCEPT ![r].pc = IF Due(r) = {} THEN "idle" ELSE "firing",
                          ![r].clock = IF Due(r) = {} THEN 0 ELSE now, ![r].left = Due(r)]
    /\ UNCHANGED <<now, lock, published, last, fired, due, split, silent, faults>>

TickFollower(r) ==
    /\ rep[r].up /\ rep[r].pc = "idle"
    /\ ~IsLeader(r) /\ rep[r].was
    /\ rep' = [rep EXCEPT ![r].was = FALSE]
    /\ UNCHANGED <<now, lock, published, last, fired, due, split, silent, faults>>

\* fireDue is done with entry f of its list.
Moved(r, f, at, streak, missed, end) ==
    LET rest == rep[r].left \ {f} IN
    [rep[r] EXCEPT !.left = rest,
                   !.pc = IF rest = {} THEN "idle" ELSE "firing",
                   !.clock = IF rest = {} THEN 0 ELSE @,
                   !.at[f] = at, !.streak[f] = streak,
                   !.told = IF missed THEN @ \cup {f} ELSE @,
                   !.skipped = IF end = "refused" THEN @ \cup {f} ELSE @]

\* fireGraph: an unpublished flow is passed over, a refused one (a plan limit, a
\* failed submission) leaves a record the first time only, any other becomes a
\* run; the outcome the poller left behind (none, empty, found something) then
\* sets the next interval.
FireEntry(r, f) ==
    /\ rep[r].pc = "firing" /\ f \in rep[r].left
    /\ LET missed == MissedAfter(f, rep[r].streak[f], rep[r].at[f]) /\ f \notin rep[r].told
       IN  \E end \in IF f \notin published THEN {"passed over"}
                      ELSE {"run"} \cup {e \in {"refused"} : faults < MaxFaults},
              streak \in IF f \in Polls
                           THEN {rep[r].streak[f], 0, Min({rep[r].streak[f] + 1, Widest})}
                           ELSE {0} :
             LET at == nextFireFrom(f, streak, rep[r].clock)
                 noted == \/ missed \/ end = "run"
                          \/ end = "refused" /\ f \notin rep[r].skipped
             IN
             /\ rep' = [rep EXCEPT ![r] = Moved(r, f, at, streak, missed, end)]
             /\ due' = [due EXCEPT ![f] = at]
             /\ last' = [last EXCEPT ![f] = IF noted THEN now ELSE @]
             /\ fired' = IF end = "run" /\ f \notin Polls THEN [fired EXCEPT ![f] = rep[r].clock] ELSE fired
             /\ silent' = IF noted THEN silent \ {f} ELSE silent \cup {f}
             /\ faults' = IF end = "refused" THEN faults + 1 ELSE faults
    /\ UNCHANGED <<now, lock, published, split>>

-----------------------------------------------------------------------------
(* The world around.                                                       *)

Tick == /\ now < MaxTime
        /\ now' = now + 1
        /\ UNCHANGED <<lock, rep, published, last, fired, due, split, silent, faults>>

\* A flow is published or taken off; every running replica saw the change before.
\* Nothing is owed to it until a leader announces its next fire.
Edit(f) ==
    /\ faults < MaxFaults
    /\ faults' = faults + 1
    /\ \A r \in Replicas : rep[r].up => Tracked(r) = published
    /\ published' = IF f \in published THEN published \ {f} ELSE published \cup {f}
    /\ Cardinality(published') <= MaxPublished
    /\ due' = [due EXCEPT ![f] = 0]
    /\ silent' = silent \cup {f}
    /\ UNCHANGED <<now, lock, rep, last, fired, split>>

Crash(r) ==
    /\ rep[r].up
    /\ faults < MaxFaults
    /\ faults' = faults + 1
    /\ rep' = [rep EXCEPT ![r] = Down]
    /\ lock' = IF lock = r THEN Nobody ELSE lock
    /\ UNCHANGED <<now, published, last, fired, due, split, silent>>

LoopStep(r) ==
    \/ Start(r) \/ Rescan(r) \/ TickTakeover(r) \/ TickFollower(r) \/ FireDue(r)
    \/ \E f \in Flows : FireEntry(r, f)

Next ==
    \/ Tick
    \/ \E r \in Replicas : \/ TryLock(r) \/ LoseSession(r) \/ PingFails(r) \/ Demote(r)
                           \/ Boot(r) \/ Crash(r) \/ LoopStep(r)
    \/ \E f \in Flows : Edit(f)

Spec == Init /\ [][Next]_vars

-----------------------------------------------------------------------------
(* What the schedule promises.                                             *)

\* "would fire a tick the old leader already handled" (scheduler_internal_test.go):
\* as long as two replicas have not acted as leader at once, no instant of a cron
\* schedule is fired twice, across handovers, restarts and late loops.
OncePerInstant ==
    [][\A r \in Replicas : \A f \in published \ Polls :
          FireEntry(r, f) /\ ~split =>
              fired[f] = 0 \/ nextFireFrom(f, 0, fired[f]) <= rep[r].clock]_vars

\* reanchor: "Reporting from it wrote a failed 'missed fires' run - and so a failure
\* email - for every schedule on every handover".  A missed-fires marker of a
\* published flow is written only if a fire some leader had announced really passed, a backed-off
\* poller not counting as one.  (A refusal that markOnce coalesced leaves no
\* record, nor does a publication: a handover cannot tell them from a missed fire.)
NoFalseAlarm ==
    [][\A r \in Replicas : \A f \in published \cap (rep'[r].told \ rep[r].told) :
          split \/ f \in silent \/ (due[f] # 0 /\ due[f] <= now)]_vars

\* leader.go "the lock would then outlive our leadership on an idle pooled
\* connection, and no peer could take over": whatever becomes of sessions, pings
\* and processes, the lock is in the hands of a live replica that acts on it.
LockIsNotOrphaned == lock # Nobody => rep[lock].up /\ rep[lock].lead = "hold"

\* recordMissedFires: "so a leadership gap is visible in the Runs list rather than
\* silently absent": a takeover reports every flow that was due to fire after its
\* last recorded run and did not.
GapIsVisible ==
    [][\A r \in Replicas : TickTakeover(r) =>
          \A f \in Tracked(r) :
              /\ rep[r].at[f] <= now
              /\ last[f] # 0 /\ FirstOwedFire(r, f) <= now
              => f \in rep'[r].told]_vars
==============================================================================
