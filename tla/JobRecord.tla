------------------------------ MODULE JobRecord ------------------------------
(***************************************************************************)
(* The vocabulary every module of the run machinery shares: the status of  *)
(* a job record and the two guarded writes the job store offers on one     *)
(* record (core/jobstore.go, engine/jobstore/memory.go).  The writes are   *)
(* guards over the record's present status and holder, so a store module   *)
(* with leases and a dispatcher module without them use the same text.     *)
(***************************************************************************)

\* succeeded | failed | cancelled | skipped are final; awaiting is not.
TerminalStatuses == {"succeeded", "failed", "cancelled", "skipped"}
OpenStatuses == {"queued", "running", "awaiting"}
JobStatuses == TerminalStatuses \cup OpenStatuses

IsTerminalStatus(st) == st \in TerminalStatuses

\* Mutants of CompleteAllowed: the worker fence dropped; the terminal guard
\* dropped.
CompleteUnfenced(st, h, owned, w, new) ==
    /\ IsTerminalStatus(new) \/ new = "awaiting"
    /\ ~IsTerminalStatus(st)
    /\ ~(new = "awaiting" /\ st = "awaiting")

CompleteOverTerminal(st, h, owned, w, new) ==
    /\ owned => h = w
    /\ IsTerminalStatus(new) \/ new = "awaiting"
    /\ ~(new = "awaiting" /\ st = "awaiting")

(***************************************************************************)
(* completeLocked: may the record (status st, holder h) take status new?   *)
(* owned says whether the caller named itself as the worker w (worker # "" *)
(* in the code); an unfenced caller passes owned = FALSE.                  *)
(***************************************************************************)
CompleteAllowed(st, h, owned, w, new) ==
    /\ owned => h = w
    /\ IsTerminalStatus(new) \/ new = "awaiting"
    /\ ~IsTerminalStatus(st)
    /\ ~(new = "awaiting" /\ st = "awaiting")

\* Mutant of RequeueAllowed: a retry frees a record that was taken over meanwhile.
RequeueUnfenced(st, h, owned, w) == ~IsTerminalStatus(st)

\* requeue: the guards of a (fenced) Requeue; it sets the status to queued.
RequeueAllowed(st, h, owned, w) ==
    /\ ~IsTerminalStatus(st)
    /\ owned => h = w
==============================================================================
