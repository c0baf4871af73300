------------------------------ MODULE TokenQueue ------------------------------
(***************************************************************************)
(* What the node queue promises, with no leases, clocks or workers: every  *)
(* claim of a record is a token of its own, and whoever writes shows the   *)
(* token; only the newest one counts, and what it wrote stays.  JobStore,  *)
(* whose writes name a worker and no token, implements it.                 *)
(***************************************************************************)
EXTENDS Naturals

CONSTANTS
    Records,
    Outcomes    \* the final states

VARIABLES
    state,      \* "absent", "queued", "running", "awaiting", an outcome or "gone"
    claims,     \* number of the newest token of each record
    inHand,     \* the tokens somebody still works with
    author      \* the token that wrote the present answer, 0 if none did

vars == <<state, claims, inHand, author>>

Init ==
    /\ state = [r \in Records |-> "absent"]
    /\ claims = [r \in Records |-> 0]
    /\ inHand = [r \in Records |-> {}]
    /\ author = [r \in Records |-> 0]

Enter(S, st) ==
    /\ \A r \in S : state[r] = "absent"
    /\ state' = [r \in Records |-> IF r \in S THEN st ELSE state[r]]
    /\ UNCHANGED <<claims, inHand, author>>

\* A claim, of a record that waits or of one whose claimant is given up.
Take(r) ==
    /\ state[r] \in {"queued", "running"}
    /\ state' = [state EXCEPT ![r] = "running"]
    /\ claims' = [claims EXCEPT ![r] = @ + 1]
    /\ inHand' = [inHand EXCEPT ![r] = @ \cup {claims[r] + 1}]
    /\ UNCHANGED author

\* The holder of a token that still counts.
Accepted(r, k) == k \in inHand[r] /\ k = claims[r] /\ state[r] = "running"

Quit(r, k) == k \in inHand[r] /\ inHand' = [inHand EXCEPT ![r] = @ \ {k}]

\* The answer of the newest claim, final or a pause.
Write(r, k, st) ==
    /\ Accepted(r, k)
    /\ state' = [state EXCEPT ![r] = st]
    /\ author' = [author EXCEPT ![r] = k]
    /\ Quit(r, k)
    /\ UNCHANGED claims

GiveBack(r, k) ==
    /\ Accepted(r, k)
    /\ state' = [state EXCEPT ![r] = "queued"]
    /\ Quit(r, k)
    /\ UNCHANGED <<claims, author>>

\* The claimant stops without a word.
Leave(r, k) == Quit(r, k) /\ UNCHANGED <<state, claims, author>>

\* A decision from outside on a record that has no outcome.
Overrule(r, st) ==
    /\ state[r] \in {"queued", "running", "awaiting"}
    /\ state' = [state EXCEPT ![r] = st]
    /\ author' = [author EXCEPT ![r] = 0]
    /\ UNCHANGED <<claims, inHand>>

\* What was entered is erased, whatever its state.
Erase(S) ==
    /\ \A r \in S : state[r] # "absent"
    /\ state' = [r \in Records |-> IF r \in S THEN "gone" ELSE state[r]]
    /\ claims' = [r \in Records |-> IF r \in S THEN 0 ELSE claims[r]]
    /\ author' = [r \in Records |-> IF r \in S THEN 0 ELSE author[r]]
    /\ UNCHANGED inHand

Next ==
    \/ \E S \in SUBSET Records : Erase(S) \/ \E st \in {"queued"} \cup Outcomes : Enter(S, st)
    \/ \E r \in Records :
          \/ Take(r)
          \/ \E st \in Outcomes : Overrule(r, st)
          \/ \E k \in inHand[r] :
                \/ GiveBack(r, k) \/ Leave(r, k)
                \/ \E st \in Outcomes \cup {"awaiting"} : Write(r, k, st)

Spec == Init /\ [][Next]_vars
==============================================================================
