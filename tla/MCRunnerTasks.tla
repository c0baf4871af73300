---------------------------- MODULE MCRunnerTasks ----------------------------
(* Instances of RunnerTasks for TLC.                                         *)
EXTENDS RunnerTasks, TLC

CONSTANTS t1, t2, a1, a2, s1, s2

\* Two steps, one execution each; or one step that may be executed again.
TwoSteps == t1 :> s1 @@ t2 :> s2
OneStep == t1 :> s1 @@ t2 :> s1
OneTask == t1 :> s1

\* The first task may go to either machine, the second is pinned to one.
Pool == t1 :> {a1, a2} @@ t2 :> {a1}
OneMachine == t1 :> {a1} @@ t2 :> {a1}
OneOnPool == t1 :> {a1, a2}

Short == t1 :> 1 @@ t2 :> 1
Mixed == t1 :> 1 @@ t2 :> 2
Alone == t1 :> 2
=============================================================================
