----------------------------- MODULE MCScheduler -----------------------------
(***************************************************************************)
(* Two replicas; a cron flow, a poller on every tick and a staggered one,  *)
(* one of them published at a time.                                        *)
(***************************************************************************)
EXTENDS Scheduler, TLC

CONSTANTS cron, poll, slow

FlowPeriods == (cron :> 2) @@ (poll :> 1) @@ (slow :> 5)
FlowJitters == (cron :> 0) @@ (poll :> 0) @@ (slow :> 1)
Alike == Permutations(Replicas)
==============================================================================
