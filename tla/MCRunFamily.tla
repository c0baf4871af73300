----------------------------- MODULE MCRunFamily -----------------------------
(***************************************************************************)
(* Two submitted runs: the first starts a child, the second is seeded.     *)
(***************************************************************************)
EXTENDS RunFamily, TLC

FamilyChildOf == [r \in {1} |-> 5]
FamilyLevel == [r \in 1 .. 5 |-> IF r = 5 THEN 1 ELSE 0]
==============================================================================
