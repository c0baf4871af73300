------------------------------ MODULE MCJobStore ------------------------------
(***************************************************************************)
(* Small instances of JobStore.  Two workers and two records are enough    *)
(* for a take-over, a third claim and a contended tenant slot.             *)
(***************************************************************************)
EXTENDS JobStore, TLC

CONSTANTS j1, j2, w1, w2, t1

OneTenant == [j \in Jobs |-> t1]
Symmetry == Permutations(Jobs) \cup Permutations(Workers)
==============================================================================
