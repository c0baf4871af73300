----------------------------- MODULE Breakpoints -----------------------------
(***************************************************************************)
(* A run that is stepped through (daemon/breakpoint.go, resume.go, and the *)
(* pauses of dispatch.go).  A step that succeeds at a breakpoint holds its *)
(* dependents back; which steps a run is paused after is remembered in the *)
(* memory of the replica whose worker finished them.  Every replica has a  *)
(* worker, serves Continue and Step, and reaps.  Steps only succeed and    *)
(* every wire passes: failures, routing and the split of a completion into *)
(* plan, commit and revisit are FlowRun's.                                 *)
(***************************************************************************)
EXTENDS Naturals, FiniteSets, FiniteSetsExt

CONSTANTS
    Replicas,
    Nodes, Wires,    \* the graph: a set of pairs <<from, to>>
    Breaks,          \* the nodes that carry a breakpoint
    Manual,          \* whether a person started the run
    NoNode, MaxCrashes

ASSUME GraphAssumption ==
    /\ Wires \subseteq Nodes \X Nodes /\ Breaks \subseteq Nodes
    /\ Manual \in BOOLEAN /\ NoNode \notin Nodes /\ MaxCrashes \in Nat

VARIABLES
    run,       \* the status of the run's record
    old,       \* the run is older than AbandonRunsAfter
    rec,       \* the status of each node's record; "absent" before it is queued
    worker,    \* [pc, node] of each replica's worker
    paused,    \* pauseRegistry.paused of each replica
    stepping,  \* the replicas whose registry has the run in step mode
    resume,    \* the nodes each replica's ResumeGraphRun has still to release
    lost,      \* the nodes whose dependents a crash forgot
    crashes

vars == <<run, old, rec, worker, paused, stepping, resume, lost, crashes>>

Preds(n) == {m \in Nodes : <<m, n>> \in Wires}
Succs(n) == {m \in Nodes : <<n, m>> \in Wires}
Idle == [pc |-> "idle", node |-> NoNode]
Ended == run # "running"

Statuses == {"absent", "queued", "running", "succeeded", "cancelled"}

TypeOK ==
    /\ run \in {"running", "succeeded", "failed", "cancelled"} /\ old \in BOOLEAN
    /\ rec \in [Nodes -> Statuses]
    /\ worker \in [Replicas -> [pc : {"idle", "exec", "pause", "check"}, node : Nodes \cup {NoNode}]]
    /\ \A r \in Replicas : worker[r].pc # "idle" => worker[r].node \in Nodes
    /\ paused \in [Replicas -> SUBSET Nodes] /\ resume \in [Replicas -> SUBSET Nodes]
    /\ stepping \subseteq Replicas /\ lost \subseteq Nodes
    /\ crashes \in 0 .. MaxCrashes

Init ==
    /\ run = "running" /\ old = FALSE
    /\ rec = [n \in Nodes |-> IF Preds(n) = {} THEN "queued" ELSE "absent"]
    /\ worker = [r \in Replicas |-> Idle]
    /\ paused = [r \in Replicas |-> {}]
    /\ stepping = {}
    /\ resume = [r \in Replicas |-> {}]
    /\ lost = {} /\ crashes = 0

-----------------------------------------------------------------------------
(* Workers.                                                                *)

Claim(r, n) ==
    /\ worker[r].pc = "idle" /\ rec[n] = "queued"
    /\ rec' = [rec EXCEPT ![n] = IF Ended THEN "cancelled" ELSE "running"]
    /\ worker' = [worker EXCEPT ![r] = IF Ended THEN Idle ELSE [pc |-> "exec", node |-> n]]
    /\ UNCHANGED <<run, old, paused, stepping, resume, lost, crashes>>

shouldPauseAfter(r, n) == r \in stepping \/ (Manual /\ n \in Breaks)

\* The records with n succeeded and what that releases queued.
Released(recs, n) ==
    [m \in Nodes |-> IF m \in Succs(n) /\ recs[m] = "absent" /\ \A p \in Preds(m) : recs[p] = "succeeded"
                     THEN "queued" ELSE recs[m]]

\* The step's success is committed, with its dependents unless the run pauses
\* here; the worker then records the pause or looks whether the run is done.
Complete(r) ==
    /\ worker[r].pc = "exec"
    /\ LET n == worker[r].node
           done == [rec EXCEPT ![n] = "succeeded"]
           pause == shouldPauseAfter(r, n)
       IN  /\ rec' = IF pause \/ Ended THEN done ELSE Released(done, n)
           /\ worker' = [worker EXCEPT ![r] = IF Ended \/ (~pause /\ rec' # done) THEN Idle
                                              ELSE [pc |-> IF pause THEN "pause" ELSE "check", node |-> n]]
    /\ UNCHANGED <<run, old, paused, stepping, resume, lost, crashes>>

\* Mutant of publishPaused: the run remembers one pause at a time.
publishPausedOverwrites(r) ==
    /\ worker[r].pc = "pause"
    /\ paused' = [paused EXCEPT ![r] = {worker[r].node}]
    /\ worker' = [worker EXCEPT ![r] = Idle]
    /\ UNCHANGED <<run, old, rec, stepping, resume, lost, crashes>>

publishPaused(r) ==
    /\ worker[r].pc = "pause"
    /\ paused' = [paused EXCEPT ![r] = @ \cup {worker[r].node}]
    /\ worker' = [worker EXCEPT ![r] = Idle]
    /\ UNCHANGED <<run, old, rec, stepping, resume, lost, crashes>>

AllDone == \A n \in Nodes : rec[n] = "succeeded"

\* finalizeGraph: the record is terminal-guarded, and the pauses of this process
\* are cleared.
Finalize(r, verdict) ==
    IF Ended THEN UNCHANGED <<run, paused, stepping>>
    ELSE /\ run' = verdict
         /\ paused' = [paused EXCEPT ![r] = {}]
         /\ stepping' = stepping \ {r}

MaybeCompleteGraph(r) ==
    IF AllDone THEN Finalize(r, "succeeded") ELSE UNCHANGED <<run, paused, stepping>>

Check(r) ==
    /\ worker[r].pc = "check"
    /\ worker' = [worker EXCEPT ![r] = Idle]
    /\ MaybeCompleteGraph(r)
    /\ UNCHANGED <<old, rec, resume, lost, crashes>>

-----------------------------------------------------------------------------
(* Continue, Step and Cancel.                                              *)

\* ResumeGraphRun: refused unless this replica remembers a pause.
ResumeGraphRun(r, step) ==
    /\ ~Ended /\ paused[r] # {} /\ resume[r] = {}
    /\ resume' = [resume EXCEPT ![r] = paused[r]]
    /\ paused' = [paused EXCEPT ![r] = {}]
    /\ stepping' = IF step THEN stepping \cup {r} ELSE stepping \ {r}
    /\ UNCHANGED <<run, old, rec, worker, lost, crashes>>

\* resumeFrom: the held dependents of one node are queued, and the run checked.
resumeFrom(r, n) ==
    /\ n \in resume[r]
    /\ resume' = [resume EXCEPT ![r] = @ \ {n}]
    /\ rec' = Released(rec, n)
    /\ MaybeCompleteGraph(r)
    /\ UNCHANGED <<old, worker, lost, crashes>>

\* CancelGraphRun: the registry first, then the record, then the sweep.
Cancel(r) ==
    /\ ~Ended
    /\ Finalize(r, "cancelled")
    /\ rec' = [n \in Nodes |-> IF rec[n] = "queued" THEN "cancelled" ELSE rec[n]]
    /\ UNCHANGED <<old, worker, resume, lost, crashes>>

-----------------------------------------------------------------------------
(* The reaper, time and crashes.                                           *)

\* A reap that finds every step done finalizes; the registry is cleared.
ReapComplete(r) ==
    /\ ~Ended /\ AllDone
    /\ MaybeCompleteGraph(r)
    /\ UNCHANGED <<old, rec, worker, resume, lost, crashes>>

Pending == \E n \in Nodes : rec[n] \in {"queued", "running"}

\* Mutant of AbandonIfStuck: a step that was never queued is read as outstanding work.
AbandonReadsAbsentAsWork(r) ==
    /\ ~Ended /\ ~AllDone /\ old /\ ~Pending
    /\ \A n \in Nodes : rec[n] # "absent"
    /\ run' = "failed"
    /\ UNCHANGED <<old, rec, worker, paused, stepping, resume, lost, crashes>>

\* abandonIfStuck: an old run without a pending record is failed, by a bare
\* Complete that leaves the registries alone.
AbandonIfStuck(r) ==
    /\ ~Ended /\ ~AllDone /\ old /\ ~Pending
    /\ run' = "failed"
    /\ UNCHANGED <<old, rec, worker, paused, stepping, resume, lost, crashes>>

GrowOld == /\ ~old /\ old' = TRUE
           /\ UNCHANGED <<run, rec, worker, paused, stepping, resume, lost, crashes>>

\* The process dies with its registry; the lease of the step it ran lapses.
Crash(r) ==
    /\ crashes < MaxCrashes
    /\ crashes' = crashes + 1
    /\ rec' = [n \in Nodes |-> IF worker[r] = [pc |-> "exec", node |-> n] THEN "queued" ELSE rec[n]]
    /\ lost' = lost \cup paused[r] \cup resume[r] \cup
                 (IF worker[r].pc \in {"pause", "check"} THEN {worker[r].node} ELSE {})
    /\ worker' = [worker EXCEPT ![r] = Idle]
    /\ paused' = [paused EXCEPT ![r] = {}]
    /\ resume' = [resume EXCEPT ![r] = {}]
    /\ stepping' = stepping \ {r}
    /\ UNCHANGED <<run, old>>

Work(r) == \/ \E n \in Nodes : Claim(r, n) \/ resumeFrom(r, n)
           \/ Complete(r) \/ publishPaused(r) \/ Check(r)
Reap(r) == ReapComplete(r) \/ AbandonIfStuck(r)

Next ==
    \/ \E r \in Replicas : \/ Work(r) \/ Reap(r) \/ Cancel(r) \/ Crash(r)
                           \/ \E step \in BOOLEAN : ResumeGraphRun(r, step)
    \/ GrowOld

Spec == Init /\ [][Next]_vars

\* Workers, running resumes and the reaper go on, and time passes; nobody has to
\* press Continue.
FairSpec == /\ Spec /\ WF_vars(GrowOld)
            /\ \A r \in Replicas : WF_vars(Work(r)) /\ WF_vars(Reap(r))

-----------------------------------------------------------------------------
(* What stepping through a run may cost.                                   *)

\* Who will release, or has been told to hold, the dependents of a node.
Holders(n) ==
    {r \in Replicas : \/ n \in paused[r] \cup resume[r]
                      \/ worker[r].node = n /\ worker[r].pc = "pause"}

\* breakpoint.go "their dependents were held rather than dispatched": a dependent
\* that was held is never forgotten.  While the run goes on and no process died,
\* a step whose predecessors have all succeeded is queued, or one of them is on
\* the list a Continue works off, however steps finish and resumes overlap.
NoForgottenHold ==
    ~Ended =>
        \A n \in Nodes : rec[n] = "absent" /\ (\A m \in Preds(n) : rec[m] = "succeeded") =>
            \/ Preds(n) \cap lost # {}
            \/ \E m \in Preds(n) : Holders(m) # {}

\* abandonIfStuck "a run that can NEVER finish is immortal: it holds a concurrency
\* slot for ever": every run ends, whether or not somebody continues it and
\* whatever pauses a crash forgot.
NoImmortalRun == <>Ended

\* breakpoint.go "nothing finalizes or reaps a paused run": the reaper ends no run
\* that a replica remembers as paused.
PausedIsNotReaped ==
    [][(\E r \in Replicas : Reap(r)) => \A q \in Replicas : paused[q] = {}]_vars
==============================================================================
