-------------------------- MODULE BreakpointsProofs --------------------------
(***************************************************************************)
(* A held dependent is never forgotten, for every graph, every set of      *)
(* breakpoints and any number of replicas and crashes.                     *)
(***************************************************************************)
EXTENDS Breakpoints, TLAPS

\* Init establishes the types.
LEMMA TypeInit == Init => TypeOK
<1> SUFFICES ASSUME Init PROVE TypeOK
  OBVIOUS
<1>1. rec \in [Nodes -> Statuses]
  BY DEF Init, Statuses
<1>2. \A r \in Replicas : worker[r] = Idle
  BY DEF Init
<1>3. worker \in [Replicas -> [pc : {"idle", "exec", "pause", "check"}, node : Nodes \cup {NoNode}]]
  BY DEF Init, Idle
<1>4. crashes \in 0 .. MaxCrashes
  BY GraphAssumption DEF Init
<1> QED BY <1>1, <1>2, <1>3, <1>4 DEF Init, TypeOK, Idle

\* What a completion or a resume makes of the records are records.
LEMMA ReleasedType ==
  ASSUME NEW recs \in [Nodes -> Statuses], NEW n \in Nodes
  PROVE  /\ Released(recs, n) \in [Nodes -> Statuses]
         /\ \A m \in Nodes : recs[m] # "absent" => Released(recs, n)[m] = recs[m]
         /\ \A m \in Nodes : Released(recs, n)[m] \in {recs[m], "queued"}
         /\ \A m \in Succs(n) : (\A p \in Preds(m) : recs[p] = "succeeded") =>
                Released(recs, n)[m] # "absent"
  BY DEF Released, Statuses, Succs

\* The end of a run, in the registry and on the record.
LEMMA FinalizeType ==
  ASSUME TypeOK, NEW r \in Replicas, NEW v \in {"succeeded", "cancelled"}, Finalize(r, v)
  PROVE  /\ run' \in {"running", "succeeded", "failed", "cancelled"}
         /\ paused' \in [Replicas -> SUBSET Nodes] /\ stepping' \subseteq Replicas
         /\ Ended'
  BY DEF TypeOK, Finalize, Ended

\* The completion check changes nothing or ends the run.
LEMMA MaybeType ==
  ASSUME TypeOK, NEW r \in Replicas, MaybeCompleteGraph(r)
  PROVE  /\ run' \in {"running", "succeeded", "failed", "cancelled"}
         /\ paused' \in [Replicas -> SUBSET Nodes] /\ stepping' \subseteq Replicas
         /\ Ended' \/ UNCHANGED <<run, paused, stepping>>
<1>1. CASE AllDone
  BY <1>1, FinalizeType DEF MaybeCompleteGraph
<1>2. CASE ~AllDone
  BY <1>2 DEF MaybeCompleteGraph, TypeOK
<1> QED BY <1>1, <1>2

\* Every step preserves the types.
LEMMA TypeStep == TypeOK /\ [Next]_vars => TypeOK'
<1> SUFFICES ASSUME TypeOK, [Next]_vars PROVE TypeOK'
  OBVIOUS
<1> USE GraphAssumption
<1>1. ASSUME NEW r \in Replicas, NEW n \in Nodes, Claim(r, n) PROVE TypeOK'
  BY <1>1 DEF Claim, TypeOK, Statuses, Idle
<1>2. ASSUME NEW r \in Replicas, NEW n \in Nodes, resumeFrom(r, n) PROVE TypeOK'
  BY <1>2, MaybeType, ReleasedType DEF resumeFrom, TypeOK
<1>3. ASSUME NEW r \in Replicas, Complete(r) PROVE TypeOK'
  <2> DEFINE n == worker[r].node
             done == [rec EXCEPT ![n] = "succeeded"]
  <2>1. n \in Nodes /\ done \in [Nodes -> Statuses] /\ Released(done, n) \in [Nodes -> Statuses]
    BY <1>3, ReleasedType DEF Complete, TypeOK, Statuses
  <2>2. rec' \in [Nodes -> Statuses]
    BY <1>3, <2>1 DEF Complete
  <2>3. \E pc \in {"pause", "check"} : \/ worker' = [worker EXCEPT ![r] = Idle]
                                       \/ worker' = [worker EXCEPT ![r] = [pc |-> pc, node |-> n]]
    BY <1>3 DEF Complete
  <2> QED BY <1>3, <2>1, <2>2, <2>3 DEF Complete, TypeOK, Idle
<1>4. ASSUME NEW r \in Replicas, publishPaused(r) PROVE TypeOK'
  BY <1>4 DEF publishPaused, TypeOK, Idle
<1>5. ASSUME NEW r \in Replicas, Check(r) PROVE TypeOK'
  BY <1>5, MaybeType DEF Check, TypeOK, Idle
<1>6. ASSUME NEW r \in Replicas, NEW step \in BOOLEAN, ResumeGraphRun(r, step) PROVE TypeOK'
  BY <1>6 DEF ResumeGraphRun, TypeOK
<1>7. ASSUME NEW r \in Replicas, Cancel(r) PROVE TypeOK'
  BY <1>7, FinalizeType DEF Cancel, TypeOK, Statuses
<1>8. ASSUME NEW r \in Replicas, ReapComplete(r) PROVE TypeOK'
  BY <1>8, MaybeType DEF ReapComplete, TypeOK
<1>9. ASSUME NEW r \in Replicas, AbandonIfStuck(r) PROVE TypeOK'
  BY <1>9 DEF AbandonIfStuck, TypeOK
<1>10. CASE GrowOld
  BY <1>10 DEF GrowOld, TypeOK
<1>11. ASSUME NEW r \in Replicas, Crash(r) PROVE TypeOK'
  <2>1. rec' \in [Nodes -> Statuses]
    BY <1>11 DEF Crash, TypeOK, Statuses
  <2>2. lost' \subseteq Nodes
    BY <1>11 DEF Crash, TypeOK
  <2> QED BY <1>11, <2>1, <2>2 DEF Crash, TypeOK, Idle
<1>12. CASE UNCHANGED vars
  BY <1>12 DEF vars, TypeOK
<1> QED BY <1>1, <1>2, <1>3, <1>4, <1>5, <1>6, <1>7, <1>8, <1>9, <1>10, <1>11, <1>12
        DEF Next, Work, Reap

\* Every reachable state of a run that is stepped through is well typed, for every
\* graph and any number of replicas.
THEOREM TypeCorrect == Spec => []TypeOK
  BY TypeInit, TypeStep, PTL DEF Spec

-----------------------------------------------------------------------------
(* NoForgottenHold.                                                        *)

\* The dependents of n are waiting for a Continue, or a crash forgot them.
Cared(n) == Preds(n) \cap lost # {} \/ \E m \in Preds(n) : Holders(m) # {}
Held(n) == rec[n] = "absent" /\ \A m \in Preds(n) : rec[m] = "succeeded"

\* A root is queued from the start.
LEMMA HoldInit == Init => NoForgottenHold
  BY DEF Init, NoForgottenHold, Preds

\* The property may be shown node by node, for a run that goes on.
LEMMA HoldCase ==
  ASSUME ~Ended' => \A n \in Nodes : Held(n)' => Cared(n)'
  PROVE  NoForgottenHold'
  BY DEF NoForgottenHold, Held, Cared

\* A step that gives up no holder cares for the nodes that were held before.
LEMMA StaysCared ==
  ASSUME NEW n \in Nodes, Cared(n), lost \subseteq lost',
         \A m \in Preds(n) : Holders(m) # {} => Holders(m)' # {} \/ m \in lost'
  PROVE  Cared(n)'
  BY DEF Cared, Preds

\* Every step preserves it.
LEMMA HoldStep == TypeOK /\ NoForgottenHold /\ [Next]_vars => NoForgottenHold'
<1> SUFFICES ASSUME TypeOK, NoForgottenHold, [Next]_vars, ~Ended',
                    NEW k \in Nodes, Held(k)'
             PROVE  Cared(k)'
  BY HoldCase
<1> USE GraphAssumption
<1>0. ASSUME ~Ended, Held(k) PROVE Cared(k)
  BY <1>0 DEF NoForgottenHold, Held, Cared
<1>1. ASSUME NEW r \in Replicas, NEW n \in Nodes, Claim(r, n) PROVE Cared(k)'
  <2>1. ~Ended /\ Held(k)
    BY <1>1 DEF Claim, Held, Preds, TypeOK, Ended
  <2>2. \A m \in Preds(k) : Holders(m) # {} => Holders(m)' # {}
    BY <1>1 DEF Claim, Holders, TypeOK, Idle
  <2> QED BY <1>0, <1>1, <2>1, <2>2, StaysCared DEF Claim
<1>2. ASSUME NEW r \in Replicas, NEW n \in Nodes, resumeFrom(r, n) PROVE Cared(k)'
  <2>1. UNCHANGED <<run, paused>> /\ ~Ended
    BY <1>2, MaybeType DEF resumeFrom, Ended
  <2>2. Held(k) /\ k \notin Succs(n)
    BY <1>2, ReleasedType DEF resumeFrom, Held, Preds, TypeOK, Statuses
  <2>3. \A m \in Preds(k) : m # n /\ Holders(m)' = Holders(m)
    BY <1>2, <2>1, <2>2 DEF resumeFrom, Holders, Preds, Succs, TypeOK
  <2> QED BY <1>0, <1>2, <2>1, <2>2, <2>3, StaysCared DEF resumeFrom
<1>3. ASSUME NEW r \in Replicas, Complete(r) PROVE Cared(k)'
  <2>0. PICK n \in Nodes : n = worker[r].node
    BY <1>3 DEF Complete, TypeOK
  <2>a. PICK done : done = [rec EXCEPT ![n] = "succeeded"]
    OBVIOUS
  <2>1. ~Ended /\ worker[r].pc = "exec" /\ done \in [Nodes -> Statuses]
    BY <1>3, <2>a DEF Complete, Ended, TypeOK, Statuses
  <2>2. CASE shouldPauseAfter(r, n)
    <3>1. rec' = done /\ worker' = [worker EXCEPT ![r] = [pc |-> "pause", node |-> n]]
      BY <1>3, <2>0, <2>a, <2>1, <2>2 DEF Complete
    <3>2. \A m \in Nodes : Holders(m) \subseteq Holders(m)'
      BY <1>3, <2>1, <3>1 DEF Complete, Holders, TypeOK
    <3>3. CASE n \in Preds(k)
      <4>1. r \in Holders(n)'
        BY <1>3, <3>1 DEF Holders, TypeOK
      <4> QED BY <3>3, <4>1 DEF Cared, Preds
    <3>4. CASE n \notin Preds(k)
      <4>1. Held(k)
        BY <2>a, <3>1, <3>4 DEF Held, Preds, TypeOK
      <4> QED BY <1>0, <1>3, <2>1, <3>2, <4>1, StaysCared DEF Complete, Preds
    <3> QED BY <3>3, <3>4
  <2>3. CASE ~shouldPauseAfter(r, n)
    <3>1. rec' = Released(done, n)
      BY <1>3, <2>0, <2>a, <2>1, <2>3 DEF Complete
    <3>2. \A m \in Nodes : Holders(m) \subseteq Holders(m)'
      BY <1>3, <2>1 DEF Complete, Holders, TypeOK
    <3>3. done[k] = "absent" /\ \A m \in Preds(k) : done[m] = "succeeded"
      <4>1. \A m \in Nodes : done[m] # "absent" => rec'[m] = done[m]
        BY <2>1, <3>1, ReleasedType
      <4>2. \A m \in Nodes : rec'[m] \in {done[m], "queued"}
        BY <2>1, <3>1, ReleasedType
      <4> QED BY <4>1, <4>2 DEF Held, Preds
    <3>4. k \notin Succs(n)
      BY <2>1, <3>1, <3>3, ReleasedType DEF Held
    <3>5. Held(k)
      BY <2>a, <3>3, <3>4 DEF Held, Preds, Succs, TypeOK
    <3> QED BY <1>0, <1>3, <2>1, <3>2, <3>5, StaysCared DEF Complete, Preds
  <2> QED BY <2>2, <2>3
<1>4. ASSUME NEW r \in Replicas, publishPaused(r) PROVE Cared(k)'
  <2>1. ~Ended /\ Held(k)
    BY <1>4 DEF publishPaused, Held, Ended
  <2>2. \A m \in Preds(k) : Holders(m) \subseteq Holders(m)'
    BY <1>4 DEF publishPaused, Holders, TypeOK, Idle, Preds
  <2> QED BY <1>0, <1>4, <2>1, <2>2, StaysCared DEF publishPaused
<1>5. ASSUME NEW r \in Replicas, Check(r) PROVE Cared(k)'
  <2>1. UNCHANGED <<run, paused>> /\ ~Ended /\ Held(k)
    BY <1>5, MaybeType DEF Check, Ended, Held
  <2>2. \A m \in Preds(k) : Holders(m) \subseteq Holders(m)'
    BY <1>5, <2>1 DEF Check, Holders, TypeOK, Idle, Preds
  <2> QED BY <1>0, <1>5, <2>1, <2>2, StaysCared DEF Check
<1>6. ASSUME NEW r \in Replicas, NEW step \in BOOLEAN, ResumeGraphRun(r, step) PROVE Cared(k)'
  <2>1. ~Ended /\ Held(k)
    BY <1>6 DEF ResumeGraphRun, Held, Ended
  <2>2. \A m \in Preds(k) : Holders(m) \subseteq Holders(m)'
    BY <1>6 DEF ResumeGraphRun, Holders, TypeOK, Preds
  <2> QED BY <1>0, <1>6, <2>1, <2>2, StaysCared DEF ResumeGraphRun
<1>7. ASSUME NEW r \in Replicas, Cancel(r) PROVE FALSE
  BY <1>7, FinalizeType DEF Cancel
<1>8. ASSUME NEW r \in Replicas, ReapComplete(r) PROVE FALSE
  BY <1>8, FinalizeType DEF ReapComplete, MaybeCompleteGraph
<1>9. ASSUME NEW r \in Replicas, AbandonIfStuck(r) PROVE FALSE
  BY <1>9 DEF AbandonIfStuck, Ended
<1>10. CASE GrowOld
  <2>1. ~Ended /\ Held(k) /\ \A m \in Nodes : Holders(m)' = Holders(m)
    BY <1>10 DEF GrowOld, Held, Ended, Holders
  <2> QED BY <1>0, <1>10, <2>1, StaysCared DEF GrowOld, Preds
<1>11. ASSUME NEW r \in Replicas, Crash(r) PROVE Cared(k)'
  <2>1. ~Ended /\ Held(k)
    BY <1>11 DEF Crash, Held, Ended, Preds, TypeOK
  <2>2. ASSUME NEW m \in Preds(k), NEW q \in Holders(m) PROVE q \in Holders(m)' \/ m \in lost'
    BY <1>11, <2>2 DEF Crash, Holders, TypeOK, Idle, Preds
  <2> QED BY <1>0, <1>11, <2>1, <2>2, StaysCared DEF Crash
<1>12. CASE UNCHANGED vars
  <2>1. ~Ended /\ Held(k) /\ \A m \in Nodes : Holders(m)' = Holders(m)
    BY <1>12 DEF vars, Held, Ended, Holders
  <2> QED BY <1>0, <1>12, <2>1, StaysCared DEF vars, Preds
<1> QED BY <1>1, <1>2, <1>3, <1>4, <1>5, <1>6, <1>7, <1>8, <1>9, <1>10, <1>11, <1>12
        DEF Next, Work, Reap

\* breakpoint.go "their dependents were held rather than dispatched": for every
\* graph, every placing of breakpoints and any number of replicas, a dependent
\* whose predecessors are done is queued, on a list a Continue works off, or lost
\* with a process that died.
THEOREM HoldsRemembered == Spec => []NoForgottenHold
  BY TypeInit, TypeStep, HoldInit, HoldStep, PTL DEF Spec
==============================================================================
