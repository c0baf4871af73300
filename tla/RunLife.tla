------------------------------- MODULE RunLife -------------------------------
(***************************************************************************)
(* What a run promises its owner, with no workers, passes or records: the  *)
(* steps are released in the order of the graph, each closes once, and one *)
(* verdict is given, which the steps justify.  FlowRun implements it.      *)
(***************************************************************************)
EXTENDS Naturals

CONSTANTS
    Steps,
    PredsOf,    \* the steps each step waits for
    Fatal,      \* the steps whose failure fails the run
    Supervised  \* a reaper may give up a run that makes no progress

VARIABLES
    verdict,    \* "open", then the verdict
    state       \* of each step: "none", "open", "parked", then its outcome

vars == <<verdict, state>>

Outcomes == {"succeeded", "failed", "skipped", "cancelled"}
Answered == {"parked"} \cup Outcomes

Init ==
    /\ verdict = "open"
    /\ state = [n \in Steps |-> IF PredsOf[n] = {} THEN "open" ELSE "none"]

\* Every step n waits for has answered.
Ready(n) == state[n] = "none" /\ \A m \in PredsOf[n] : state[m] \in Answered

Release(n) == Ready(n) /\ state' = [state EXCEPT ![n] = "open"] /\ UNCHANGED verdict

Skip(n) == Ready(n) /\ state' = [state EXCEPT ![n] = "skipped"] /\ UNCHANGED verdict

Park(n) == state[n] = "open" /\ state' = [state EXCEPT ![n] = "parked"] /\ UNCHANGED verdict

\* n answers, and S, which waited for nothing else, is released with it; an
\* ended run releases nothing that way.
Close(n, outcome, S) ==
    /\ state[n] \in {"open", "parked"}
    /\ S # {} => verdict = "open"
    /\ \A d \in S : /\ state[d] = "none"
                    /\ \A m \in PredsOf[d] \ {n} : state[m] \in Answered
    /\ state' = [m \in Steps |-> IF m = n THEN outcome
                                 ELSE IF m \in S THEN "open" ELSE state[m]]
    /\ UNCHANGED verdict

\* A step of an ended run is withdrawn.
Withdraw(n) ==
    /\ verdict # "open"
    /\ state[n] \in {"open", "parked"}
    /\ state' = [state EXCEPT ![n] = "cancelled"]
    /\ UNCHANGED verdict

Failed == \E n \in Fatal : state[n] = "failed"

Decide(v) ==
    /\ verdict = "open"
    /\ \/ v = "succeeded" /\ ~Failed /\ \A n \in Steps : state[n] \in Outcomes \ {"cancelled"}
       \/ v = "failed" /\ (Failed \/ Supervised)
       \/ v = "cancelled"
    /\ verdict' = v
    /\ UNCHANGED state

Next ==
    \/ \E n \in Steps :
          \/ Release(n) \/ Skip(n) \/ Park(n) \/ Withdraw(n)
          \/ \E o \in Outcomes \ {"cancelled"} : \E S \in SUBSET Steps : Close(n, o, S)
    \/ \E v \in {"succeeded", "failed", "cancelled"} : Decide(v)

Spec == Init /\ [][Next]_vars
==============================================================================
