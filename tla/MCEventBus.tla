----------------------------- MODULE MCEventBus -----------------------------
(***************************************************************************)
(* Two publishers, two runs, a re-scan window of two ids.                  *)
(***************************************************************************)
EXTENDS EventBus

Alike == Permutations(Pubs) \cup Permutations(Jobs)
=============================================================================
