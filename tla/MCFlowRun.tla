------------------------------ MODULE MCFlowRun ------------------------------
(***************************************************************************)
(* Small graphs for FlowRun.                                               *)
(***************************************************************************)
EXTENDS FlowRun, TLC

CONSTANTS w1, w2, a1, a2, c1, r1

Edge(f, t, port, mode) == [from |-> f, to |-> t, port |-> port, onError |-> mode]
Ok(ports) == [status |-> "succeeded", ports |-> ports]
Answer(st) == [status |-> st, ports |-> {}]

Symmetry == Permutations(Workers) \cup Permutations(Approvers)

\* Two roots that join: 1 and 2 feed 3, 1 routes to 4 or not, 4 is tolerant.
JoinN == 4
JoinEdges == <<Edge(1, 3, "pass", "abort"), Edge(2, 3, "out", "fallback"),
               Edge(1, 4, "then", "abort"), Edge(3, 4, "pass", "skip")>>
JoinBehaviours ==
    [n \in 1 .. 4 |-> CASE n = 1 -> {Ok({}), Ok({"then"})}
                        [] n = 2 -> {Ok({"out"}), Answer("failed")}
                        [] n = 3 -> {Ok({})}
                        [] OTHER -> {Ok({})}]

\* 1 waits for a person and mails the link meanwhile (2); the decision goes to 3
\* or 4.  The mail may fail, time out or not load: 2 is non-critical.
ApprovalN == 4
ApprovalEdges == <<Edge(1, 2, "pending_url", "abort"), Edge(1, 3, "approved", "abort"),
                   Edge(1, 4, "rejected", "abort")>>
ApprovalBehaviours ==
    [n \in 1 .. 4 |-> CASE n = 1 -> {[status |-> "awaiting", ports |-> {"pending_url", "context"}]}
                        [] n = 2 -> {Ok({}), Answer("timeout"), Answer("error")}
                        [] OTHER -> {Ok({})}]

\* A trigger that did not fire (1) next to one that did (2); 3 follows both and
\* tolerates the skip.  2 may ask to be woken later, or fail and be retried.
RecoveryN == 3
RecoveryEdges == <<Edge(1, 3, "pass", "skip"), Edge(2, 3, "out", "retry")>>
DeferringBehaviours ==
    [n \in 1 .. 3 |-> IF n = 2 THEN {Ok({"out"}), Answer("deferred"), Answer("failed")}
                      ELSE {Ok({})}]

\* 1 and 2 join in 3; 1 also feeds 4, which its router declines; 5 joins the
\* declined branch (tolerantly) and 2.  3 is visited before 4.
CascadeN == 5
CascadeEdges == <<Edge(1, 3, "pass", "abort"), Edge(2, 3, "pass", "abort"),
                  Edge(1, 4, "then", "abort"), Edge(4, 5, "pass", "skip"),
                  Edge(2, 5, "pass", "abort")>>
CascadeBehaviours == [n \in 1 .. 5 |-> {Ok({})}]

\* Two approvals open at once, then a step.
TwoApprovalsN == 3
TwoApprovalsEdges == <<Edge(1, 3, "approved", "skip"), Edge(2, 3, "approved", "skip")>>
TwoApprovalsBehaviours ==
    [n \in 1 .. 3 |-> IF n = 3 THEN {Ok({})}
                      ELSE {[status |-> "awaiting", ports |-> {"pending_url"}]}]

\* The graphs meet the hypotheses of FlowRunProofs!NoRunStranded, all but the one
\* that shows what happens without them.
ASSUME SafeGraphs == Acyclic /\ (CascadeSafe <=> Edges # CascadeEdges)
==============================================================================
