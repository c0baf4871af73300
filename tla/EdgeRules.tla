------------------------------ MODULE EdgeRules ------------------------------
(***************************************************************************)
(* How a finished step decides the fate of the steps wired after it        *)
(* (daemon/dispatch.go, daemon/worker.go): pure functions of the graph and *)
(* of what is known of each node.  A node is its position in graph.Nodes,  *)
(* an edge its position in graph.Edges.                                    *)
(***************************************************************************)
EXTENDS Naturals, JobRecord

CONSTANTS
    N,                \* number of nodes of the graph
    Edges,            \* graph.Edges: a sequence of [from, to, port, onError]
    ContinueOnError,  \* nodes marked non-critical
    BackoffRetry,     \* nodes whose manifest has RetryExponentialBackoff
    Idempotent,       \* nodes whose manifest says idempotent
    MaxRetries        \* attempt cap

Nodes == 1 .. N
OnErrorModes == {"abort", "retry", "skip", "fallback"}

ASSUME GraphAssumption ==
    /\ N \in Nat \ {0} /\ MaxRetries \in Nat
    /\ \A i \in DOMAIN Edges : /\ Edges[i].from \in Nodes /\ Edges[i].to \in Nodes
                               /\ Edges[i].onError \in OnErrorModes
    /\ ContinueOnError \subseteq Nodes
    /\ BackoffRetry \subseteq Nodes /\ Idempotent \subseteq Nodes

\* buildTopology: incoming edges of a node, and its dependents.
Incoming(n) == {i \in DOMAIN Edges : Edges[i].to = n}
Outgoing(n) == {i \in DOMAIN Edges : Edges[i].from = n}
Preds(n) == {Edges[i].from : i \in Incoming(n)}
Dependents(n) == {Edges[i].to : i \in Outgoing(n)}
Roots == {n \in Nodes : Incoming(n) = {}}

\* A dependent is visited where its first edge stands in graph.Edges.
FirstEdge(n, d) ==
    CHOOSE i \in Outgoing(n) : /\ Edges[i].to = d
                               /\ \A k \in Outgoing(n) : Edges[k].to = d => i <= k
IsNext(d, n, left) ==
    d \in left /\ \A c \in left : FirstEdge(n, d) <= FirstEdge(n, c)

(***************************************************************************)
(* What a reader knows of a node: its status and the ports it emitted on.  *)
(* "absent" stands for a record that does not exist.                       *)
(***************************************************************************)
PassPort == "pass"

\* Mutant of classifyEdge: a port left empty by a router is merely dormant.
classifyEdgeLeaky(o, e) ==
    CASE o.status = "succeeded" ->
           IF e.onError = "fallback" THEN "dormant"
           ELSE IF e.port = PassPort \/ e.port \in o.ports THEN "active" ELSE "dormant"
      [] o.status = "failed" ->
           IF e.onError \in {"skip", "fallback"} THEN "active" ELSE "blocking"
      [] o.status = "skipped" ->
           IF e.onError = "skip" THEN "active"
           ELSE IF e.onError = "fallback" THEN "dormant" ELSE "blocking"
      [] o.status = "awaiting" ->
           IF e.port # PassPort /\ e.port \in o.ports THEN "active" ELSE "blocking"
      [] OTHER -> "blocking"

classifyEdge(o, e) ==
    CASE o.status = "succeeded" ->
           IF e.onError = "fallback" THEN "dormant"
           ELSE IF e.port = PassPort \/ e.port \in o.ports THEN "active" ELSE "notRouted"
      [] o.status = "failed" ->
           IF e.onError \in {"skip", "fallback"} THEN "active" ELSE "blocking"
      [] o.status = "skipped" ->
           IF e.onError = "skip" THEN "active"
           ELSE IF e.onError = "fallback" THEN "dormant" ELSE "blocking"
      [] o.status = "awaiting" ->
           IF e.port # PassPort /\ e.port \in o.ports THEN "active" ELSE "blocking"
      [] OTHER -> "blocking"

\* The edge makes analyzeDependentIndexed return depWaiting: the predecessor
\* has no record, is still open, or is parked and has not emitted this port.
EdgeWaits(o, e) ==
    \/ ~IsTerminalStatus(o.status) /\ o.status # "awaiting"
    \/ o.status = "awaiting" /\ classifyEdge(o, e) = "blocking"

\* analyzeDependentIndexed over what is known of each predecessor.
analyzeDependent(known, n) ==
    LET outcome(i) == classifyEdge(known[Edges[i].from], Edges[i])
    IN  IF \E i \in Incoming(n) : EdgeWaits(known[Edges[i].from], Edges[i])
          THEN "waiting"
        ELSE IF \/ \E i \in Incoming(n) : outcome(i) \in {"blocking", "notRouted"}
                \/ \A i \in Incoming(n) : outcome(i) # "active"
          THEN "skipped"
        ELSE "enqueue"

\* Does the failure of n fail the run?
failurePropagates(n) ==
    /\ n \notin ContinueOnError
    /\ \/ Outgoing(n) = {}
       \/ /\ \A i \in Outgoing(n) : Edges[i].onError # "fallback"
          /\ \E i \in Outgoing(n) : Edges[i].onError # "skip"

advances(n, status) ==
    \/ status \in {"succeeded", "awaiting"}
    \/ status = "failed" /\ ~failurePropagates(n)

\* maybeScheduleRetry: the failed attempt goes back to the queue.
RetryAllowed(n, attempt) ==
    LET hasRetryEdge == \E i \in Outgoing(n) : Edges[i].onError = "retry"
    IN  /\ n \in BackoffRetry
        /\ Outgoing(n) # {} => hasRetryEdge
        /\ n \in Idempotent \/ hasRetryEdge
        /\ attempt < MaxRetries
==============================================================================
