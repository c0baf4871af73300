---------------------------- MODULE RunFamilyProofs ----------------------------
(***************************************************************************)
(* The runs of a tenant are started once, charged once and ended by their  *)
(* children's outcome, and no parked step is forgotten: for any number of  *)
(* runs, nestings, submitters, promoters, workers, cancellers and reapers. *)
(***************************************************************************)
EXTENDS RunFamily, FiniteSetTheorems, TLAPS

Locals == [pc : Pcs, on : Runs \cup {0}, yes : BOOLEAN, stack : Seq(Runs)]

Typed ==
    /\ runs \in [Runs -> Recorded] /\ work \in [Runs -> Recorded] /\ trigger \in [Runs -> Recorded]
    /\ thread \in [Procs -> Locals]
    /\ faults \in [crash : 0 .. MaxCrashes, store : 0 .. MaxStoreErrors]

-----------------------------------------------------------------------------
(* The invariant, without the charges.                                     *)

Telling == {"sweep", "resume", "advance"}
Launching == {"submitChild", "enqueueChild", "childRoots"}
Early == {"absent", "queued", "running"}

\* Nobody has started the run yet.
Fresh(r) == runs[r] \in {"absent", "queued"}

\* What a goroutine's place says of the run it is at.
Placed(p) ==
    /\ Me(p).pc \notin Telling => Me(p).stack = <<>>
    /\ Me(p).pc \in {"seeds", "roots", "mark", "readSeeds"} => On(p) \in Tops /\ runs[On(p)] # "absent"
    /\ Me(p).pc \in Launching => On(p) \in Calls
    /\ Me(p).pc \in Telling \cup {"exec", "refused"} => On(p) \in Runs
    /\ Me(p).pc = "sweep" => ~Me(p).yes /\ Ended(On(p))
    /\ Me(p).pc = "resume" /\ Me(p).yes => runs[On(p)] = "succeeded"

\* A run nobody has started has no step to run; a child comes without a trigger.
Untouched ==
    /\ \A r \in Runs : /\ Fresh(r) => work[r] = "absent" /\ trigger[r] # "queued"
                       /\ runs[r] = "absent" => trigger[r] = "absent"
    /\ \A k \in Kids : trigger[k] = "absent" /\ runs[k] # "queued"

\* Whoever starts a run is alone in it and the run is untouched.
Started ==
    /\ \A p \in Procs : Starting(p) =>
         ~Fresh(On(p)) /\ work[On(p)] = "absent" /\ trigger[On(p)] # "queued"
    /\ \A p, q \in Procs : Starting(p) /\ Starting(q) /\ On(p) = On(q) => p = q

\* A child exists from the moment its parent's parked step launches it, once.
Launched ==
    /\ \A r \in Calls : work[r] \in Early => runs[ChildOf[r]] = "absent"
    /\ \A p \in Procs : Me(p).pc \in Launching =>
         /\ work[On(p)] \notin Early /\ work[ChildOf[On(p)]] = "absent"
         /\ Me(p).pc = "childRoots" <=> runs[ChildOf[On(p)]] # "absent"
    /\ \A p, q \in Procs : Me(p).pc \in Launching /\ Me(q).pc \in Launching /\ On(p) = On(q) => p = q

Outcome == ChildOutcomeCounts /\ \A r \in Runs : work[r] = "cancelled" => Ended(r)

\* p will start the child of r, or tell r of its end, or close the step of r.
Tells(p, r) ==
    \/ On(p) = r /\ Me(p).pc \in {"submitChild", "enqueueChild", "refused", "sweep"}
    \/ On(p) = ChildOf[r] /\ Me(p).pc \in {"sweep", "resume"}
    \/ \E i \in 1 .. Len(Me(p).stack) : Me(p).stack[i] = ChildOf[r]

\* p gives the child of r its first step, or closes the step of r for want of it.
Nurses(p, r) == On(p) = r /\ Me(p).pc \in {"childRoots", "refused"}

Bare(r) == runs[ChildOf[r]] = "running" /\ work[ChildOf[r]] = "absent"

Watched ==
    faults.crash = 0 =>
        \A r \in Calls : work[r] = "awaiting" =>
            /\ OpenChild(r) \/ \E p \in Procs : Tells(p, r)
            /\ Bare(r) => \E p \in Procs : Nurses(p, r)

FamInv == /\ Typed /\ (\A p \in Procs : Placed(p)) /\ Untouched /\ Started /\ Launched
          /\ Outcome /\ Watched

-----------------------------------------------------------------------------
(* What one step may do to the records and to the goroutine that takes it. *)

RunsMove ==
    /\ runs' \in [Runs -> Recorded]
    /\ \A r \in Runs :
         /\ Ended(r) => runs'[r] = runs[r]
         /\ ~Fresh(r) => runs'[r] \notin {"absent", "queued"}
         /\ runs'[r] = "absent" => runs[r] = "absent"
         /\ runs'[r] = "queued" /\ runs[r] # "queued" => r \in Tops
         /\ runs'[r] = "succeeded" /\ runs[r] # "succeeded" => work[r] \in {"succeeded", "skipped"}
    /\ \A k \in Kids :
         /\ runs[k] = "absent" /\ runs'[k] # "absent" =>
              \E p \in Procs : /\ thread[p].pc = "enqueueChild" /\ ChildOf[thread[p].on] = k
                               /\ thread'[p].pc = "childRoots"
         /\ runs'[k] = "running" /\ runs[k] # "running" =>
              \E p \in Procs : /\ thread[p].pc = "enqueueChild" /\ ChildOf[thread[p].on] = k
                               /\ thread'[p].pc = "childRoots" /\ thread'[p].on = thread[p].on
         /\ runs[k] \in OpenStatuses /\ runs'[k] \notin OpenStatuses =>
              \/ \E p \in Procs : thread'[p].on = k /\ thread'[p].pc \in {"sweep", "resume"}
              \/ faults'.crash # 0
              \/ \A r \in Calls : ChildOf[r] = k => work'[r] # "awaiting"

WorkMoves ==
    /\ work' \in [Runs -> Recorded]
    /\ \A r \in Runs :
         /\ IsTerminalStatus(work[r]) => work'[r] = work[r]
         /\ work[r] \notin Early => work'[r] \notin Early
         /\ work'[r] = "absent" => work[r] = "absent"
         /\ work[r] = "absent" /\ work'[r] # "absent" =>
              \/ trigger[r] = "queued"
              \/ \E p \in Procs : Starting(p) /\ On(p) = r /\ ~Starting(p)'
              \/ \E p \in Procs : /\ thread[p].pc = "childRoots" /\ ChildOf[thread[p].on] = r
                                  /\ thread'[p].pc = "idle"
         /\ work'[r] = "cancelled" /\ work[r] # "cancelled" => Ended(r)
    /\ \A r \in Calls :
         /\ work'[r] = "succeeded" /\ work[r] # "succeeded" =>
              \E p \in Procs : thread[p].pc = "resume" /\ thread[p].yes /\ thread[p].on = ChildOf[r]
         /\ work'[r] = "awaiting" /\ work[r] # "awaiting" =>
              /\ work[r] = "running"
              /\ \E p \in Procs : thread'[p].on = r /\ thread'[p].pc = "submitChild"

TriggerMoves ==
    /\ trigger' \in [Runs -> Recorded]
    /\ \A r \in Runs : trigger'[r] = "queued" /\ trigger[r] # "queued" =>
         \E p \in Procs : Starting(p) /\ On(p) = r /\ ~Starting(p)'
    /\ \A r \in Runs : trigger'[r] # trigger[r] => runs[r] # "absent"
    /\ \A k \in Kids : trigger'[k] = trigger[k]

\* The goroutine goes on telling, or what it would tell is settled.
TellsOn(p) ==
    faults'.crash = 0 =>
        \A r \in Calls : work[r] = "awaiting" /\ work'[r] = "awaiting" =>
            /\ Tells(p, r) => Tells(p, r)' \/ OpenChild(r)'
            /\ Nurses(p, r) /\ Bare(r)' => Nurses(p, r)'

ThreadMoves(p) ==
    /\ thread' \in [Procs -> Locals] /\ \A q \in Procs \ {p} : thread'[q] = thread[q]
    /\ Placed(p)'
    /\ Starting(p)' =>
         \/ Starting(p) /\ thread'[p].on = thread[p].on
         \/ /\ thread'[p].on \in Tops /\ Fresh(thread'[p].on)
            /\ runs'[thread'[p].on] \notin {"absent", "queued"}
    /\ thread'[p].pc \in Launching =>
         /\ thread'[p].on = thread[p].on
         /\ \/ /\ thread[p].pc \in Launching
               /\ thread'[p].pc = "childRoots" <=> runs'[ChildOf[thread[p].on]] # "absent"
            \/ /\ thread[p].pc = "exec" /\ thread'[p].pc = "submitChild" /\ UNCHANGED runs
               /\ work[thread[p].on] = "running" /\ work'[thread[p].on] \notin Early
    /\ TellsOn(p)

Moves ==
    /\ RunsMove /\ WorkMoves /\ TriggerMoves
    /\ faults' \in [crash : 0 .. MaxCrashes, store : 0 .. MaxStoreErrors]
    /\ faults.crash # 0 => faults'.crash # 0
    /\ UNCHANGED thread \/ \E p \in Procs : ThreadMoves(p)

-----------------------------------------------------------------------------
(* The family tree.                                                        *)

\* A child has one parent.
LEMMA OneParent ==
  ASSUME NEW r \in Calls, NEW q \in Calls, ChildOf[r] = ChildOf[q]
  PROVE  r = q
<1> DEFINE P == ParentsOf(ChildOf[r])
<1>1. IsFiniteSet(Runs) /\ Calls \subseteq Runs /\ ChildOf[r] \in Kids
  BY FamilyAssumption
<1>2. P \in SUBSET Runs /\ r \in P /\ q \in P
  BY <1>1 DEF ParentsOf
<1>3. IsFiniteSet(P) /\ Cardinality(P) = 1
  BY <1>1, <1>2, FS_Subset, FamilyAssumption
<1>4. PICK x : P = {x}
  BY <1>3, FS_Singleton
<1> QED BY <1>2, <1>4

\* Submitted runs and children are runs, and no run is both.
LEMMA Tree ==
  /\ \A r \in Calls : r \in Runs /\ ChildOf[r] \in Kids /\ ChildOf[r] \in Runs /\ ChildOf[r] \notin Tops
  /\ \A r \in Runs : r \in Tops \/ r \in Kids
  /\ \A k \in Kids : k \in Runs /\ k \notin Tops /\ k \notin Seeded
  /\ \A r \in Tops : r \in Runs /\ r \notin Kids
  BY FamilyAssumption DEF Runs

\* A step of one goroutine leaves the others where they are.
LEMMA MoveTo ==
  ASSUME Typed, NEW p \in Procs, NEW l \in Locals, thread' = [thread EXCEPT ![p] = l]
  PROVE  /\ thread' \in [Procs -> Locals] /\ thread'[p] = l
         /\ \A q \in Procs \ {p} : thread'[q] = thread[q]
  BY DEF Typed

\* Idle and Local are places.
LEMMA LocalIs ==
  ASSUME NEW pc \in Pcs, NEW r \in Runs \cup {0}, NEW yes \in BOOLEAN
  PROVE  /\ Local(pc, r, yes) \in Locals /\ Local(pc, r, yes).pc = pc /\ Local(pc, r, yes).on = r
         /\ Local(pc, r, yes).yes = yes /\ Local(pc, r, yes).stack = <<>>
  BY DEF Local, Locals

\* An idle process is one of the local states.
LEMMA IdleIs == Idle \in Locals /\ Idle.pc = "idle" /\ Idle.stack = <<>> /\ ~Idle.yes
  BY DEF Idle, Local, Locals, Pcs

-----------------------------------------------------------------------------
(* Every such step keeps the invariant.                                    *)

\* The records are typed and so are the goroutines.
LEMMA KeepsTyped == ASSUME FamInv, Moves PROVE Typed'
<1>1. thread' \in [Procs -> Locals]
  BY DEF FamInv, Typed, Moves, ThreadMoves
<1> QED BY <1>1 DEF Moves, RunsMove, WorkMoves, TriggerMoves, Typed

\* Ended runs stay ended, so what a goroutine's place says stays true.
LEMMA KeepsPlaced == ASSUME FamInv, Moves, NEW p \in Procs PROVE Placed(p)'
<1>1. CASE ThreadMoves(p)
  BY <1>1 DEF ThreadMoves
<1>2. CASE thread'[p] = thread[p]
  <2>1. Placed(p) /\ \A r \in Runs : Ended(r) => runs'[r] = runs[r]
    BY DEF FamInv, Moves, RunsMove
  <2>2. \A r \in Runs : Ended(r) => Ended(r)'
    BY <2>1 DEF Ended
  <2>3. \A r \in Runs : runs[r] = "succeeded" => runs'[r] = "succeeded"
    BY <2>1 DEF Ended, IsTerminalStatus, TerminalStatuses
  <2>4. \A r \in Tops : runs[r] # "absent" => runs'[r] # "absent"
    BY Tree DEF Moves, RunsMove
  <2> QED BY <1>2, <2>1, <2>2, <2>3, <2>4 DEF Placed, Me, On, Telling
<1> QED BY <1>1, <1>2 DEF Moves, ThreadMoves

\* A run nobody has started stays untouched.
LEMMA KeepsUntouched == ASSUME FamInv, Moves PROVE Untouched'
<1>0. /\ Untouched /\ Started /\ Launched /\ (\A p \in Procs : Placed(p))
      /\ RunsMove /\ WorkMoves /\ TriggerMoves
  BY DEF FamInv, Moves
<1>1. ASSUME NEW k \in Kids PROVE trigger'[k] = "absent" /\ runs'[k] # "queued"
  BY <1>0, Tree DEF Untouched, TriggerMoves, RunsMove
<1>2. ASSUME NEW r \in Runs, Fresh(r)' PROVE work'[r] = "absent" /\ trigger'[r] # "queued"
  <2>1. Fresh(r)
    BY <1>0, <1>2 DEF RunsMove, Fresh
  <2>2. work[r] = "absent" /\ trigger[r] # "queued"
    BY <1>0, <2>1 DEF Untouched
  <2>3. ~\E p \in Procs : Starting(p) /\ On(p) = r
    BY <1>0, <2>1 DEF Started
  <2>4. ~\E p \in Procs : thread[p].pc = "childRoots" /\ ChildOf[thread[p].on] = r
    <3> SUFFICES ASSUME NEW p \in Procs, thread[p].pc = "childRoots", ChildOf[thread[p].on] = r PROVE FALSE
      OBVIOUS
    <3>1. thread[p].on \in Calls
      BY <1>0 DEF Placed, Launching, Me, On
    <3>2. r \in Kids /\ runs[r] # "absent"
      BY <1>0, <3>1, Tree DEF Launched, Launching, Me, On
    <3> QED BY <1>0, <2>1, <3>2 DEF Untouched, Fresh
  <2> QED BY <1>0, <2>2, <2>3, <2>4 DEF WorkMoves, TriggerMoves
<1>3. ASSUME NEW r \in Runs, runs'[r] = "absent" PROVE trigger'[r] = "absent"
  BY <1>0, <1>3 DEF Untouched, RunsMove, TriggerMoves
<1> QED BY <1>1, <1>2, <1>3 DEF Untouched

\* Starters stay alone.
LEMMA KeepsStarted == ASSUME FamInv, Moves PROVE Started'
<1>0. /\ Untouched /\ Started /\ Launched /\ (\A p \in Procs : Placed(p))
      /\ RunsMove /\ WorkMoves /\ TriggerMoves
  BY DEF FamInv, Moves
<1>1. ASSUME NEW p \in Procs, Starting(p)'
      PROVE  \/ Starting(p) /\ On(p)' = On(p) /\ On(p) \in Tops
             \/ On(p)' \in Tops /\ Fresh(thread'[p].on) /\ runs'[thread'[p].on] \notin {"absent", "queued"}
  <2>1. CASE thread'[p] = thread[p]
    BY <1>0, <1>1, <2>1 DEF Starting, Me, On, Placed
  <2>2. CASE ThreadMoves(p)
    BY <1>0, <1>1, <2>2 DEF ThreadMoves, On, Me, Placed, Starting
  <2> QED BY <2>1, <2>2 DEF Moves, ThreadMoves
<1>2. ASSUME NEW p \in Procs, Starting(p)'
      PROVE  /\ runs'[thread'[p].on] \notin {"absent", "queued"} /\ work'[thread'[p].on] = "absent"
             /\ trigger'[thread'[p].on] # "queued"
  <2> DEFINE r == thread'[p].on
  <2>1. r \in Tops /\ r \in Runs
    BY <1>1, <1>2, Tree DEF On
  <2>2. work[r] = "absent" /\ trigger[r] # "queued" /\ runs'[r] \notin {"absent", "queued"}
    <3>1. CASE Starting(p) /\ On(p)' = On(p)
      <4>1. ~Fresh(r) /\ work[r] = "absent" /\ trigger[r] # "queued"
        BY <1>0, <3>1 DEF Started, On
      <4> QED BY <1>0, <2>1, <4>1 DEF RunsMove
    <3>2. CASE Fresh(r) /\ runs'[r] \notin {"absent", "queued"}
      BY <1>0, <2>1, <3>2 DEF Untouched
    <3> QED BY <1>1, <1>2, <3>1, <3>2
  <2>3. ~\E q \in Procs : Starting(q) /\ On(q) = r /\ ~Starting(q)'
    <3> SUFFICES ASSUME NEW q \in Procs, Starting(q), On(q) = r, ~Starting(q)' PROVE FALSE
      OBVIOUS
    <3>1. CASE Starting(p) /\ On(p)' = On(p)
      BY <1>0, <1>2, <3>1 DEF Started, On
    <3>2. CASE Fresh(r)
      BY <1>0, <3>2 DEF Started
    <3> QED BY <1>1, <1>2, <3>1, <3>2
  <2>4. ~\E q \in Procs : thread[q].pc = "childRoots" /\ ChildOf[thread[q].on] = r
    BY <1>0, <2>1, Tree DEF Placed, Launching, Me, On
  <2> HIDE DEF r
  <2> QED BY <1>0, <2>1, <2>2, <2>3, <2>4 DEF WorkMoves, TriggerMoves, r
<1>3. ASSUME NEW p \in Procs, NEW q \in Procs, Starting(p)', Starting(q)', On(p)' = On(q)', p # q
      PROVE  FALSE
  <2>1. thread'[p] = thread[p] \/ thread'[q] = thread[q]
    BY <1>3 DEF Moves, ThreadMoves
  <2>2. ASSUME NEW a \in Procs, NEW b \in Procs, Starting(a)', Starting(b)', On(a)' = On(b)', a # b,
               thread'[a] = thread[a]
        PROVE  FALSE
    <3>1. Starting(a) /\ On(a)' = On(a)
      BY <2>2 DEF Starting, Me, On
    <3>2. ~Fresh(On(a))
      BY <1>0, <3>1 DEF Started
    <3>3. Starting(b) /\ On(b)' = On(b)
      BY <1>1, <2>2, <3>1, <3>2 DEF On
    <3> QED BY <1>0, <2>2, <3>1, <3>3 DEF Started
  <2> QED BY <1>3, <2>1, <2>2
<1> QED BY <1>2, <1>3 DEF Started, Fresh, On, Me

\* A child is launched once.
LEMMA KeepsLaunched == ASSUME FamInv, Moves PROVE Launched'
<1>0. /\ Untouched /\ Started /\ Launched /\ (\A p \in Procs : Placed(p))
      /\ RunsMove /\ WorkMoves /\ TriggerMoves
  BY DEF FamInv, Moves
<1>1. ASSUME NEW p \in Procs, thread[p].pc \in Launching
      PROVE  /\ thread[p].on \in Calls /\ work[thread[p].on] \notin Early
             /\ work[ChildOf[thread[p].on]] = "absent"
             /\ thread[p].pc = "childRoots" <=> runs[ChildOf[thread[p].on]] # "absent"
             /\ \A q \in Procs : thread[q].pc \in Launching /\ thread[q].on = thread[p].on => p = q
  BY <1>0, <1>1 DEF Launched, Placed, Me, On
<1>2. "enqueueChild" \in Launching /\ "childRoots" \in Launching /\ "submitChild" \in Launching
  BY DEF Launching
<1>3. ASSUME NEW r \in Calls, work'[r] \in Early PROVE runs'[ChildOf[r]] = "absent"
  <2>1. work[r] \in Early
    BY <1>0, <1>3, Tree DEF WorkMoves
  <2>2. runs[ChildOf[r]] = "absent"
    BY <1>0, <2>1 DEF Launched
  <2>3. ~\E p \in Procs : thread[p].pc = "enqueueChild" /\ ChildOf[thread[p].on] = ChildOf[r]
    BY <1>1, <1>2, <2>1, OneParent
  <2> QED BY <1>0, <2>2, <2>3, Tree DEF RunsMove
\* A goroutine that launches was launching before, or it parks the step now.
<1>4. ASSUME NEW p \in Procs, thread'[p].pc \in Launching
      PROVE  /\ thread'[p].on = thread[p].on
             /\ \/ /\ thread[p].pc \in Launching
                   /\ thread'[p].pc = "childRoots" <=> runs'[ChildOf[thread[p].on]] # "absent"
                \/ /\ thread'[p].pc = "submitChild" /\ UNCHANGED runs
                   /\ work[thread[p].on] = "running" /\ work'[thread[p].on] \notin Early
  <2>1. CASE ThreadMoves(p)
    BY <1>4, <2>1 DEF ThreadMoves
  <2>2. CASE thread'[p] = thread[p]
    <3> DEFINE k == ChildOf[thread[p].on]
    <3>1. /\ thread[p].pc \in Launching /\ thread[p].on \in Calls
          /\ thread[p].pc = "childRoots" <=> runs[k] # "absent"
      BY <1>1, <1>4, <2>2
    <3>2. k \in Kids /\ k \in Runs
      BY <3>1, Tree
    <3>3. ASSUME NEW q \in Procs, thread[q].pc = "enqueueChild", ChildOf[thread[q].on] = k,
                 thread'[q].pc = "childRoots"
          PROVE  FALSE
      <4>1. thread[q].on = thread[p].on
        BY <1>1, <1>2, <3>1, <3>3, OneParent
      <4>2. p = q
        BY <1>1, <1>2, <3>1, <3>3, <4>1
      <4> QED BY <2>2, <3>3, <4>2
    <3>4. runs'[k] = "absent" <=> runs[k] = "absent"
      BY <1>0, <3>2, <3>3 DEF RunsMove
    <3> QED BY <2>2, <3>1, <3>4
  <2> QED BY <2>1, <2>2 DEF Moves, ThreadMoves
<1>5. ASSUME NEW p \in Procs, thread'[p].pc \in Launching
      PROVE  /\ work'[thread'[p].on] \notin Early /\ work'[ChildOf[thread'[p].on]] = "absent"
             /\ thread'[p].pc = "childRoots" <=> runs'[ChildOf[thread'[p].on]] # "absent"
  <2> DEFINE r == thread[p].on
  <2>0. thread'[p].on = r /\ r \in Calls
    BY <1>4, <1>5, KeepsPlaced DEF Placed, Me, On
  <2>1. CASE thread[p].pc \in Launching
    <3>1. work[r] \notin Early /\ work[ChildOf[r]] = "absent"
      BY <1>1, <2>1
    <3>2. ~\E q \in Procs : thread[q].pc = "childRoots" /\ ChildOf[thread[q].on] = ChildOf[r] /\ thread'[q].pc = "idle"
      <4> SUFFICES ASSUME NEW q \in Procs, thread[q].pc = "childRoots", ChildOf[thread[q].on] = ChildOf[r],
                          thread'[q].pc = "idle"
                   PROVE  FALSE
        OBVIOUS
      <4>1. thread[q].on = r
        BY <1>1, <1>2, <2>0, OneParent
      <4>2. p = q
        BY <1>1, <1>2, <2>1, <4>1
      <4> QED BY <1>5, <4>2 DEF Launching
    <3>3. ~\E q \in Procs : Starting(q) /\ On(q) = ChildOf[r]
      BY <1>0, <2>0, Tree DEF Placed, Starting
    <3>4. trigger[ChildOf[r]] # "queued"
      BY <1>0, <2>0, Tree DEF Untouched
    <3>5. work'[ChildOf[r]] = "absent"
      BY <1>0, <2>0, <3>1, <3>2, <3>3, <3>4, Tree DEF WorkMoves
    <3>6. work'[r] \notin Early
      BY <1>0, <2>0, <3>1, Tree DEF WorkMoves
    <3>7. work[r] # "running"
      BY <3>1 DEF Early
    <3> QED BY <1>4, <1>5, <2>0, <3>5, <3>6, <3>7
  <2>2. CASE /\ thread'[p].pc = "submitChild" /\ UNCHANGED runs
             /\ work[r] = "running" /\ work'[r] \notin Early
    <3>1. runs[ChildOf[r]] = "absent" /\ runs'[ChildOf[r]] = "absent"
      BY <1>0, <2>0, <2>2 DEF Launched, Early
    <3>2. work'[ChildOf[r]] = "absent"
      BY <2>0, <3>1, KeepsUntouched, Tree DEF Untouched, Fresh
    <3> QED BY <2>0, <2>2, <3>1, <3>2
  <2> QED BY <1>4, <1>5, <2>1, <2>2
<1>6. ASSUME NEW p \in Procs, NEW q \in Procs, thread'[p].pc \in Launching, thread'[q].pc \in Launching,
             thread'[p].on = thread'[q].on, p # q
      PROVE  FALSE
  <2>1. thread'[p] = thread[p] \/ thread'[q] = thread[q]
    BY <1>6 DEF Moves, ThreadMoves
  <2>2. ASSUME NEW a \in Procs, NEW b \in Procs, thread'[a].pc \in Launching, thread'[b].pc \in Launching,
               thread'[a].on = thread'[b].on, a # b, thread'[a] = thread[a]
        PROVE  FALSE
    <3>1. thread[a].pc \in Launching /\ thread[a].on = thread[b].on
      BY <1>4, <2>2
    <3>2. work[thread[b].on] # "running"
      BY <1>1, <3>1 DEF Early
    <3>3. thread[b].pc \in Launching
      BY <1>4, <2>2, <3>2
    <3> QED BY <1>1, <2>2, <3>1, <3>3
  <2> QED BY <1>6, <2>1, <2>2
<1> QED BY <1>3, <1>5, <1>6 DEF Launched, Me, On

\* A verdict follows from the steps, a step's success from its child's.
LEMMA KeepsOutcome == ASSUME FamInv, Moves PROVE Outcome'
<1>0. /\ Outcome /\ ChildOutcomeCounts /\ (\A p \in Procs : Placed(p))
      /\ RunsMove /\ WorkMoves
  BY DEF FamInv, Moves, Outcome
<1>1. ASSUME NEW r \in Calls, work'[r] = "succeeded" PROVE runs'[ChildOf[r]] = "succeeded"
  <2>1. runs[ChildOf[r]] = "succeeded"
    <3>1. CASE work[r] = "succeeded"
      BY <1>0, <3>1, Tree DEF ChildOutcomeCounts
    <3>2. CASE work[r] # "succeeded"
      BY <1>0, <1>1, <3>2 DEF WorkMoves, Placed, Me, On
    <3> QED BY <3>1, <3>2
  <2> QED BY <1>0, <2>1, Tree DEF RunsMove, Ended, IsTerminalStatus, TerminalStatuses
<1>2. ASSUME NEW r \in Runs, runs'[r] = "succeeded" PROVE work'[r] \in {"succeeded", "skipped"}
  <2>1. work[r] \in {"succeeded", "skipped"}
    BY <1>0, <1>2 DEF RunsMove, ChildOutcomeCounts
  <2> QED BY <1>0, <2>1 DEF WorkMoves, IsTerminalStatus, TerminalStatuses
<1>3. ASSUME NEW r \in Runs, work'[r] = "cancelled" PROVE Ended(r)'
  <2>1. Ended(r)
    BY <1>0, <1>3 DEF Outcome, WorkMoves
  <2> QED BY <1>0, <2>1 DEF RunsMove, Ended
<1> QED BY <1>1, <1>2, <1>3 DEF Outcome, ChildOutcomeCounts

\* A parked step is not forgotten.
LEMMA KeepsWatched == ASSUME FamInv, Moves PROVE Watched'
<1>0. /\ Watched /\ (\A p \in Procs : Placed(p)) /\ Untouched /\ Launched
      /\ RunsMove /\ WorkMoves /\ (faults.crash # 0 => faults'.crash # 0)
  BY DEF FamInv, Moves
<1> SUFFICES ASSUME faults'.crash = 0, NEW r \in Calls, work'[r] = "awaiting"
             PROVE  /\ OpenChild(r)' \/ \E p \in Procs : Tells(p, r)'
                    /\ Bare(r)' => \E p \in Procs : Nurses(p, r)'
  BY DEF Watched
<1>1. faults.crash = 0 /\ r \in Runs /\ ChildOf[r] \in Kids /\ ChildOf[r] \in Runs
  BY <1>0, Tree
<1>2. ASSUME work[r] # "awaiting"
      PROVE  /\ \E p \in Procs : Tells(p, r)'
             /\ ~Bare(r)'
  <2>1. PICK p \in Procs : thread'[p].on = r /\ thread'[p].pc = "submitChild"
    BY <1>0, <1>2 DEF WorkMoves
  <2>2. Tells(p, r)'
    BY <2>1 DEF Tells, On, Me
  <2>3. runs'[ChildOf[r]] = "absent"
    BY <2>1, KeepsLaunched DEF Launched, Launching, On, Me
  <2> QED BY <2>2, <2>3 DEF Bare
<1>3. ASSUME work[r] = "awaiting", NEW p \in Procs
      PROVE  /\ Tells(p, r) => Tells(p, r)' \/ OpenChild(r)'
             /\ Nurses(p, r) /\ Bare(r)' => Nurses(p, r)'
  <2>1. CASE ThreadMoves(p)
    BY <1>3, <2>1 DEF ThreadMoves, TellsOn
  <2>2. CASE thread'[p] = thread[p]
    BY <2>2 DEF Tells, Nurses, Me, On
  <2> QED BY <2>1, <2>2 DEF Moves, ThreadMoves
<1>4. ASSUME work[r] = "awaiting" PROVE OpenChild(r)' \/ \E p \in Procs : Tells(p, r)'
  <2>1. CASE \E p \in Procs : Tells(p, r)
    BY <1>3, <1>4, <2>1
  <2>2. CASE OpenChild(r) /\ ~OpenChild(r)'
    <3>1. runs[ChildOf[r]] \in OpenStatuses /\ runs'[ChildOf[r]] \notin OpenStatuses
      BY <2>2 DEF OpenChild
    <3>2. \E p \in Procs : thread'[p].on = ChildOf[r] /\ thread'[p].pc \in {"sweep", "resume"}
      BY <1>0, <1>1, <3>1 DEF RunsMove
    <3> QED BY <3>2 DEF Tells, Me, On
  <2> QED BY <1>0, <1>1, <1>4, <2>1, <2>2 DEF Watched
<1>5. ASSUME work[r] = "awaiting", Bare(r)' PROVE \E p \in Procs : Nurses(p, r)'
  <2>1. work[ChildOf[r]] = "absent"
    BY <1>0, <1>1, <1>5 DEF Bare, WorkMoves
  <2>2. CASE runs[ChildOf[r]] = "running"
    BY <1>0, <1>1, <1>3, <1>5, <2>1, <2>2 DEF Watched, Bare
  <2>3. CASE runs[ChildOf[r]] # "running"
    <3>1. PICK p \in Procs : /\ thread[p].pc = "enqueueChild" /\ ChildOf[thread[p].on] = ChildOf[r]
                             /\ thread'[p].pc = "childRoots" /\ thread'[p].on = thread[p].on
      BY <1>0, <1>1, <1>5, <2>3 DEF Bare, RunsMove
    <3>2. thread[p].on = r
      BY <1>0, <3>1, OneParent DEF Placed, Launching, Me, On
    <3> QED BY <3>1, <3>2 DEF Nurses, Me, On
  <2> QED BY <2>2, <2>3
<1> QED BY <1>2, <1>4, <1>5

\* A step that moves as described keeps the invariant.
LEMMA MovesKeep == FamInv /\ Moves => FamInv'
  BY KeepsTyped, KeepsPlaced, KeepsUntouched, KeepsStarted, KeepsLaunched, KeepsOutcome, KeepsWatched
     DEF FamInv

-----------------------------------------------------------------------------
(* The steps.                                                              *)

\* A step that leaves the runs alone.
LEMMA RunsQuiet == ASSUME FamInv, UNCHANGED runs PROVE RunsMove
  BY DEF FamInv, Typed, RunsMove, Fresh

\* A step that leaves the work records alone moves none of them.
LEMMA WorkQuiet == ASSUME FamInv, UNCHANGED work PROVE WorkMoves
  BY DEF FamInv, Typed, WorkMoves

\* A step that leaves the trigger records alone moves none of them.
LEMMA TriggerQuiet == ASSUME FamInv, UNCHANGED trigger PROVE TriggerMoves
  BY DEF FamInv, Typed, TriggerMoves

\* A goroutine that told nobody anything may go anywhere.
LEMMA FromQuiet ==
  ASSUME FamInv, NEW p \in Procs, NEW l \in Locals, thread' = [thread EXCEPT ![p] = l],
         \/ faults'.crash # 0
         \/ Me(p).pc \notin Telling \cup {"submitChild", "enqueueChild", "childRoots", "refused"}
  PROVE  /\ thread' \in [Procs -> Locals] /\ thread'[p] = l
         /\ \A q \in Procs \ {p} : thread'[q] = thread[q]
         /\ TellsOn(p)
<1>1. /\ thread' \in [Procs -> Locals] /\ thread'[p] = l
      /\ \A q \in Procs \ {p} : thread'[q] = thread[q]
  BY MoveTo DEF FamInv
<1>2. ASSUME Me(p).pc \notin Telling \cup {"submitChild", "enqueueChild", "childRoots", "refused"}, NEW r \in Calls
      PROVE  ~Tells(p, r) /\ ~Nurses(p, r)
  <2>1. Me(p).stack = <<>>
    BY <1>2 DEF FamInv, Placed
  <2> QED BY <1>2, <2>1 DEF Tells, Nurses, Telling
<1>3. TellsOn(p)
  BY <1>2 DEF TellsOn
<1> QED BY <1>1, <1>3

\* A goroutine that told nobody anything may stop.
LEMMA GoIdle ==
  ASSUME FamInv, NEW p \in Procs, thread' = [thread EXCEPT ![p] = Idle],
         \/ faults'.crash # 0
         \/ Me(p).pc \notin Telling \cup {"submitChild", "enqueueChild", "childRoots", "refused"}
  PROVE  ThreadMoves(p) /\ thread'[p] = Idle
<1>1. /\ thread' \in [Procs -> Locals] /\ thread'[p] = Idle
      /\ \A q \in Procs \ {p} : thread'[q] = thread[q]
      /\ TellsOn(p)
  BY FromQuiet, IdleIs
<1>2. thread'[p].pc = "idle" /\ thread'[p].stack = <<>>
  BY <1>1, IdleIs
<1> QED BY <1>1, <1>2 DEF ThreadMoves, Placed, Me, On, Telling, Launching, Starting

\* A goroutine that told nobody anything goes to a place that claims nothing.
LEMMA GoPlain ==
  ASSUME FamInv, NEW p \in Procs, NEW l \in Locals, thread' = [thread EXCEPT ![p] = l],
         Me(p).pc \notin Telling \cup {"submitChild", "enqueueChild", "childRoots", "refused"},
         l.stack = <<>>, l.pc \notin Launching \cup {"sweep", "resume", "readSeeds", "roots"},
         l.pc = "seeds" => ~l.yes,
         l.pc \in {"seeds", "mark"} => l.on \in Tops /\ runs'[l.on] # "absent",
         l.pc \in {"exec", "refused", "advance"} => l.on \in Runs
  PROVE  ThreadMoves(p) /\ thread'[p] = l
<1>1. /\ thread' \in [Procs -> Locals] /\ thread'[p] = l
      /\ \A q \in Procs \ {p} : thread'[q] = thread[q]
      /\ TellsOn(p)
  BY FromQuiet
<1>2. Placed(p)'
  BY <1>1 DEF Placed, Me, On, Telling, Launching
<1>3. ~Starting(p)'
  BY <1>1 DEF Starting, Me
<1> QED BY <1>1, <1>2, <1>3 DEF ThreadMoves

\* A goroutine that told nobody anything starts a run, or goes on starting it.
LEMMA GoStart ==
  ASSUME FamInv, RunsMove, NEW p \in Procs, NEW l \in Locals, thread' = [thread EXCEPT ![p] = l],
         Me(p).pc \notin Telling \cup {"submitChild", "enqueueChild", "childRoots", "refused"},
         l.stack = <<>>, l.pc \in {"seeds", "roots", "readSeeds"}, l.on \in Tops,
         \/ Starting(p) /\ l.on = On(p)
         \/ Fresh(l.on) /\ runs'[l.on] \notin {"absent", "queued"}
  PROVE  ThreadMoves(p) /\ thread'[p] = l
<1>1. /\ thread' \in [Procs -> Locals] /\ thread'[p] = l
      /\ \A q \in Procs \ {p} : thread'[q] = thread[q]
      /\ TellsOn(p)
  BY FromQuiet
<1>2. Placed(p)'
  <2>1. runs'[l.on] # "absent"
    BY Tree DEF FamInv, Started, RunsMove
  <2> QED BY <1>1, <2>1 DEF Placed, Me, On, Telling, Launching
<1>3. thread'[p].pc \notin Launching
  BY <1>1 DEF Launching
<1> QED BY <1>1, <1>2, <1>3 DEF ThreadMoves, On, Me

\* A submitted run that has not ended takes a status.
LEMMA TopMoves ==
  ASSUME FamInv, NEW r \in Tops, NEW st \in {"queued", "running", "failed"}, ~Ended(r),
         runs' = [runs EXCEPT ![r] = st], st = "queued" => Fresh(r)
  PROVE  RunsMove
<1>1. runs \in [Runs -> Recorded] /\ r \in Runs /\ st \in Recorded
  BY Tree DEF FamInv, Typed, Recorded, JobStatuses, OpenStatuses, TerminalStatuses
<1>2. /\ runs' \in [Runs -> Recorded] /\ runs'[r] = st
      /\ \A q \in Runs \ {r} : runs'[q] = runs[q]
  BY <1>1
<1>3. \A k \in Kids : runs'[k] = runs[k]
  BY <1>2, Tree
<1> QED BY <1>2, <1>3 DEF RunsMove, Fresh

\* A run that exists and has not ended ends, and of a child somebody tells.
LEMMA RunEnds ==
  ASSUME FamInv, NEW r \in Runs, NEW st \in {"succeeded", "failed", "cancelled"}, ~Ended(r),
         runs' = [runs EXCEPT ![r] = st], st = "succeeded" => work[r] \in {"succeeded", "skipped"},
         r \in Kids =>
            /\ runs[r] # "absent"
            /\ \/ \E p \in Procs : thread'[p].on = r /\ thread'[p].pc \in {"sweep", "resume"}
               \/ faults'.crash # 0
               \/ \A q \in Calls : ChildOf[q] = r => work'[q] # "awaiting"
  PROVE  RunsMove
<1>1. runs \in [Runs -> Recorded] /\ st \in Recorded
  BY DEF FamInv, Typed, Recorded, JobStatuses, TerminalStatuses
<1>2. /\ runs' \in [Runs -> Recorded] /\ runs'[r] = st
      /\ \A q \in Runs \ {r} : runs'[q] = runs[q]
  BY <1>1
<1>3. \A k \in Kids : k = r \/ runs'[k] = runs[k]
  BY <1>2, Tree
<1> QED BY <1>2, <1>3 DEF RunsMove, Fresh

\* The working step of one run takes a status.
LEMMA WorkOne ==
  ASSUME FamInv, NEW r \in Runs, NEW st \in JobStatuses, work' = [work EXCEPT ![r] = st],
         ~IsTerminalStatus(work[r]), work[r] \notin Early => st \notin Early,
         work[r] = "absent" =>
            \/ trigger[r] = "queued"
            \/ \E p \in Procs : Starting(p) /\ On(p) = r /\ ~Starting(p)'
            \/ \E p \in Procs : /\ thread[p].pc = "childRoots" /\ ChildOf[thread[p].on] = r
                                /\ thread'[p].pc = "idle",
         st = "cancelled" => Ended(r),
         r \in Calls /\ st = "succeeded" =>
            \E p \in Procs : thread[p].pc = "resume" /\ thread[p].yes /\ thread[p].on = ChildOf[r],
         r \in Calls /\ st = "awaiting" =>
            /\ work[r] = "running"
            /\ \E p \in Procs : thread'[p].on = r /\ thread'[p].pc = "submitChild"
  PROVE  WorkMoves
<1>1. work \in [Runs -> Recorded] /\ st \in Recorded /\ st # "absent"
  BY DEF FamInv, Typed, Recorded, JobStatuses, OpenStatuses, TerminalStatuses
<1>2. /\ work' \in [Runs -> Recorded] /\ work'[r] = st
      /\ \A q \in Runs \ {r} : work'[q] = work[q]
  BY <1>1
<1>3. ASSUME NEW q \in Runs
      PROVE  /\ IsTerminalStatus(work[q]) => work'[q] = work[q]
             /\ work[q] \notin Early => work'[q] \notin Early
             /\ work'[q] = "absent" => work[q] = "absent"
             /\ work[q] = "absent" /\ work'[q] # "absent" =>
                  \/ trigger[q] = "queued"
                  \/ \E p \in Procs : Starting(p) /\ On(p) = q /\ ~Starting(p)'
                  \/ \E p \in Procs : /\ thread[p].pc = "childRoots" /\ ChildOf[thread[p].on] = q
                                      /\ thread'[p].pc = "idle"
             /\ work'[q] = "cancelled" /\ work[q] # "cancelled" => Ended(q)
  <2>1. CASE q = r
    BY <1>1, <1>2, <2>1
  <2>2. CASE q # r
    BY <1>2, <2>2
  <2> QED BY <2>1, <2>2
<1>4. \A q \in Calls : q = r \/ work'[q] = work[q]
  BY <1>2, Tree
<1> QED BY <1>2, <1>3, <1>4 DEF WorkMoves

\* What remains of Moves when the records are dealt with.
LEMMA StoreFault ==
  ASSUME FamInv, faults.store < MaxStoreErrors, faults' = [faults EXCEPT !.store = @ + 1]
  PROVE  /\ faults' \in [crash : 0 .. MaxCrashes, store : 0 .. MaxStoreErrors]
         /\ faults'.crash = faults.crash
  BY FamilyAssumption DEF FamInv, Typed

-----------------------------------------------------------------------------
(* Submission and promotion.                                               *)

\* The unused parts of the state.
LEMMA Same ==
  ASSUME FamInv
  PROVE  /\ faults \in [crash : 0 .. MaxCrashes, store : 0 .. MaxStoreErrors]
         /\ thread \in [Procs -> Locals]
  BY DEF FamInv, Typed

\* A submission begins.
LEMMA SubmitMoves == ASSUME FamInv, NEW s \in Submitters, Submit(s) PROVE Moves
<1>1. /\ Me(s).pc = "idle" /\ s \in Procs /\ UNCHANGED <<runs, work, trigger, used, faults>>
      /\ thread' = [thread EXCEPT ![s] = Local("reserve", 0, Cardinality(Running) < Limit)]
  BY DEF Submit, Become, Procs
<1> DEFINE l == Local("reserve", 0, Cardinality(Running) < Limit)
<1>3. l \in Locals /\ l.pc = "reserve" /\ l.stack = <<>>
  BY DEF Local, Locals, Pcs
<1>4. thread' = [thread EXCEPT ![s] = l]
  BY <1>1
<1> HIDE DEF l
<1>5. ThreadMoves(s)
  BY <1>1, <1>3, <1>4, GoPlain DEF Telling, Launching
<1> QED BY <1>1, <1>5, RunsQuiet, WorkQuiet, TriggerQuiet, Same DEF Moves

\* Its quota is reserved, or the submission refused.
LEMMA ReserveMoves == ASSUME FamInv, NEW s \in Submitters, Reserve(s) PROVE Moves
<1>1. Me(s).pc = "reserve" /\ s \in Procs /\ UNCHANGED <<runs, work, trigger, faults>>
  BY DEF Reserve, Procs
<1>2. RunsMove /\ WorkMoves /\ TriggerMoves
  BY <1>1, RunsQuiet, WorkQuiet, TriggerQuiet
<1>3. CASE used' = used + 1 /\ Goto(s, "record")
  <2> DEFINE l == [Me(s) EXCEPT !.pc = "record"]
  <2>1. thread' = [thread EXCEPT ![s] = l] /\ Me(s) \in Locals
    BY <1>1, <1>3, Same DEF Goto, Me
  <2>2. l \in Locals /\ l.pc = "record" /\ l.stack = Me(s).stack
    BY <2>1 DEF Locals, Pcs
  <2>3. Me(s).stack = <<>>
    BY <1>1 DEF FamInv, Placed, Telling
  <2> HIDE DEF l
  <2>4. ThreadMoves(s)
    BY <1>1, <2>1, <2>2, <2>3, GoPlain DEF Telling, Launching
  <2> QED BY <1>1, <1>2, <2>4, Same DEF Moves
<1>4. CASE UNCHANGED used /\ Become(s, Idle)
  <2>1. ThreadMoves(s)
    BY <1>1, <1>4, GoIdle DEF Become, Telling
  <2> QED BY <1>1, <1>2, <1>4, <2>1, Same DEF Moves
<1> QED BY <1>3, <1>4 DEF Reserve

\* Its run record is written, running or pending.
LEMMA RecordMoves == ASSUME FamInv, NEW s \in Submitters, Record(s) PROVE Moves
<1>1. Me(s).pc = "record" /\ s \in Procs /\ UNCHANGED <<work, trigger, used, faults>>
  BY DEF Record, Procs
<1>2. PICK r \in Unsubmitted :
        /\ runs' = [runs EXCEPT ![r] = IF Me(s).yes THEN "running" ELSE "queued"]
        /\ thread' = [thread EXCEPT ![s] = Local("seeds", r, Me(s).yes)]
  BY DEF Record, Become
<1>3. r \in Tops /\ r \in Runs /\ runs[r] = "absent" /\ Me(s).yes \in BOOLEAN
  BY <1>1, Tree, Same DEF Unsubmitted, Me, Locals
<1>4. ~Ended(r) /\ Fresh(r)
  BY <1>3 DEF Ended, IsTerminalStatus, TerminalStatuses, Fresh
<1>5. RunsMove
  BY <1>2, <1>3, <1>4, TopMoves
<1> DEFINE l == Local("seeds", r, Me(s).yes)
<1>6. l \in Locals /\ l.pc = "seeds" /\ l.stack = <<>> /\ l.on = r /\ l.yes = Me(s).yes
  BY <1>3, LocalIs DEF Pcs
<1>7. Me(s).pc \notin Telling \cup {"submitChild", "enqueueChild", "childRoots", "refused"}
  BY <1>1 DEF Telling
<1> HIDE DEF l
<1>8. thread' = [thread EXCEPT ![s] = l]
  BY <1>2 DEF l
<1>9. ThreadMoves(s)
  <2>1. CASE Me(s).yes
    <3>1. runs'[r] \notin {"absent", "queued"}
      BY <1>2, <1>3, <2>1 DEF FamInv, Typed
    <3> QED BY <1>1, <1>3, <1>4, <1>5, <1>6, <1>7, <1>8, <3>1, GoStart
  <2>2. CASE ~Me(s).yes
    <3>1. runs'[r] # "absent"
      BY <1>2, <1>3, <2>2 DEF FamInv, Typed
    <3> QED BY <1>1, <1>3, <1>6, <1>7, <1>8, <2>2, <3>1, GoPlain DEF Launching
  <2> QED BY <2>1, <2>2
<1> QED BY <1>1, <1>5, <1>9, WorkQuiet, TriggerQuiet, Same DEF Moves

\* The run record is not written and the quota given back.
LEMMA RecordFailsMoves == ASSUME FamInv, NEW s \in Submitters, RecordFails(s) PROVE Moves
<1>1. /\ Me(s).pc = "record" /\ s \in Procs /\ UNCHANGED <<runs, work, trigger>>
      /\ faults.store < MaxStoreErrors /\ faults' = [faults EXCEPT !.store = @ + 1]
      /\ thread' = [thread EXCEPT ![s] = Idle]
  BY DEF RecordFails, Become, Procs
<1>2. ThreadMoves(s)
  BY <1>1, GoIdle DEF Telling
<1> QED BY <1>1, <1>2, RunsQuiet, WorkQuiet, TriggerQuiet, StoreFault DEF Moves

\* The first verdict of a submitted run stands.
LEMMA FinishedMoves ==
  ASSUME FamInv, NEW r \in Tops, runs' = Finished(r, "failed")
  PROVE  RunsMove
<1>1. CASE Ended(r)
  BY <1>1, RunsQuiet DEF Finished
<1>2. CASE ~Ended(r)
  BY <1>2, TopMoves DEF Finished
<1> QED BY <1>1, <1>2

\* The seeds are written before the first step is queued.
LEMMA PersistSeedsMoves == ASSUME FamInv, NEW s \in Submitters, PersistSeeds(s) PROVE Moves
<1> DEFINE r == On(s)
           clash == r \in Seeded /\ trigger[r] # "absent"
<1>1. /\ Me(s).pc = "seeds" /\ s \in Procs /\ UNCHANGED <<work, used, faults>>
      /\ trigger' = IF r \in Seeded /\ ~clash THEN [trigger EXCEPT ![r] = "succeeded"] ELSE trigger
      /\ runs' = IF clash THEN Finished(r, "failed") ELSE runs
      /\ thread' = [thread EXCEPT ![s] = IF Me(s).yes THEN Local("roots", r, TRUE) ELSE Idle]
  BY DEF PersistSeeds, Become, Procs
<1>2. r \in Tops /\ r \in Runs /\ runs[r] # "absent"
  BY <1>1, Tree DEF FamInv, Placed
<1>3. Me(s).pc \notin Telling \cup {"submitChild", "enqueueChild", "childRoots", "refused"}
  BY <1>1 DEF Telling
<1>4. RunsMove
  <2>1. CASE clash
    BY <1>1, <1>2, <2>1, FinishedMoves
  <2>2. CASE ~clash
    BY <1>1, <2>2, RunsQuiet
  <2> QED BY <2>1, <2>2
<1>5. TriggerMoves
  <2>1. CASE trigger' = trigger
    BY <2>1, TriggerQuiet
  <2>2. CASE trigger' = [trigger EXCEPT ![r] = "succeeded"]
    <3>1. trigger \in [Runs -> Recorded] /\ "succeeded" \in Recorded
      BY DEF FamInv, Typed, Recorded, JobStatuses, TerminalStatuses
    <3>2. trigger' \in [Runs -> Recorded] /\ trigger'[r] = "succeeded" /\ \A q \in Runs \ {r} : trigger'[q] = trigger[q]
      BY <1>2, <2>2, <3>1
    <3> HIDE DEF r
    <3> QED BY <1>2, <3>2, Tree DEF TriggerMoves
  <2> QED BY <1>1, <2>1, <2>2
<1>6. ThreadMoves(s)
  <2>1. CASE Me(s).yes
    <3> DEFINE l == Local("roots", r, TRUE)
    <3>1. l \in Locals /\ l.pc = "roots" /\ l.on = r /\ l.stack = <<>>
      BY <1>2 DEF Local, Locals, Pcs
    <3>2. thread' = [thread EXCEPT ![s] = l] /\ Starting(s)
      BY <1>1, <2>1 DEF Starting
    <3> HIDE DEF l
    <3> QED BY <1>1, <1>2, <1>3, <1>4, <3>1, <3>2, GoStart
  <2>2. CASE ~Me(s).yes
    BY <1>1, <1>3, <2>2, GoIdle
  <2> QED BY <2>1, <2>2
<1> QED BY <1>1, <1>4, <1>5, <1>6, WorkQuiet, Same DEF Moves

\* A goroutine at the roots is about to start the run, and then it is done.
LEMMA FromRoots ==
  ASSUME FamInv, NEW p \in Procs, Me(p).pc = "roots", Become(p, Idle)
  PROVE  /\ ThreadMoves(p) /\ Starting(p) /\ ~Starting(p)' /\ On(p) \in Tops /\ On(p) \in Runs
         /\ work[On(p)] = "absent" /\ runs[On(p)] # "absent"
<1>1. ThreadMoves(p) /\ thread'[p] = Idle
  BY GoIdle DEF Become, Telling
<1>2. Starting(p) /\ ~Starting(p)'
  BY <1>1, IdleIs DEF Starting, Me
<1>3. On(p) \in Tops /\ runs[On(p)] # "absent"
  BY DEF FamInv, Placed
<1> QED BY <1>1, <1>2, <1>3, Tree DEF FamInv, Started

\* The first steps are queued.
LEMMA DispatchRootsMoves == ASSUME FamInv, NEW p \in Procs, DispatchRoots(p) PROVE Moves
<1> DEFINE r == On(p)
<1>1. Me(p).pc = "roots" /\ Become(p, Idle) /\ UNCHANGED <<used, faults>>
  BY DEF DispatchRoots
<1>2. /\ ThreadMoves(p) /\ Starting(p) /\ ~Starting(p)' /\ r \in Tops /\ r \in Runs /\ work[r] = "absent"
      /\ runs[r] # "absent"
  BY <1>1, FromRoots
<1>3. CASE work' = [work EXCEPT ![r] = "queued"] /\ UNCHANGED <<runs, trigger>>
  <2>1. "queued" \in JobStatuses /\ ~IsTerminalStatus("absent") /\ "absent" \in Early
    BY DEF JobStatuses, OpenStatuses, IsTerminalStatus, TerminalStatuses, Early
  <2>2. WorkMoves
    BY <1>2, <1>3, <2>1, WorkOne
  <2> QED BY <1>1, <1>2, <1>3, <2>2, RunsQuiet, TriggerQuiet, Same DEF Moves
<1>4. CASE trigger' = [trigger EXCEPT ![r] = "queued"] /\ UNCHANGED <<runs, work>>
  <2>1. trigger \in [Runs -> Recorded] /\ "queued" \in Recorded
    BY DEF FamInv, Typed, Recorded, JobStatuses, OpenStatuses
  <2>2. trigger' \in [Runs -> Recorded] /\ \A q \in Runs \ {r} : trigger'[q] = trigger[q]
    BY <1>2, <1>4, <2>1
  <2>3. TriggerMoves
    <3> HIDE DEF r
    <3>1. \A k \in Kids : k \in Runs \ {r}
      BY <1>2, Tree
    <3>2. ASSUME NEW q \in Runs, trigger'[q] = "queued", trigger[q] # "queued"
          PROVE  \E x \in Procs : Starting(x) /\ On(x) = q /\ ~Starting(x)'
      <4>1. q = r
        BY <2>2, <3>2
      <4> QED BY <1>2, <4>1 DEF r
    <3>3. \A q \in Runs : trigger'[q] # trigger[q] => runs[q] # "absent"
      BY <1>2, <2>2
    <3> QED BY <2>2, <3>1, <3>2, <3>3 DEF TriggerMoves
  <2> QED BY <1>1, <1>2, <1>4, <2>3, RunsQuiet, WorkQuiet, Same DEF Moves
<1>5. CASE runs' = Finished(r, "failed") /\ UNCHANGED <<work, trigger>>
  <2>1. RunsMove
    BY <1>2, <1>5, FinishedMoves
  <2> QED BY <1>1, <1>2, <1>5, <2>1, WorkQuiet, TriggerQuiet, Same DEF Moves
<1> QED BY <1>3, <1>4, <1>5 DEF DispatchRoots

\* The first steps are not queued and the run is closed.
LEMMA RootsFailMoves == ASSUME FamInv, NEW p \in Procs, RootsFail(p) PROVE Moves
<1>1. /\ Me(p).pc = "roots" /\ Become(p, Idle) /\ UNCHANGED <<work, trigger, used>>
      /\ faults.store < MaxStoreErrors /\ faults' = [faults EXCEPT !.store = @ + 1]
      /\ runs' = Finished(On(p), "failed")
  BY DEF RootsFail
<1>2. ThreadMoves(p) /\ On(p) \in Tops
  BY <1>1, FromRoots
<1>3. RunsMove
  BY <1>1, <1>2, FinishedMoves
<1> QED BY <1>1, <1>2, <1>3, WorkQuiet, TriggerQuiet, StoreFault DEF Moves

\* The promoter picks a pending run.
LEMMA FindPendingMoves == ASSUME FamInv, NEW p \in Promoters, FindPending(p) PROVE Moves
<1>1. Me(p).pc = "idle" /\ p \in Procs /\ UNCHANGED <<runs, work, trigger, used, faults>>
  BY DEF FindPending, Procs
<1>2. PICK r \in Tops : runs[r] = "queued" /\ thread' = [thread EXCEPT ![p] = Local("mark", r, FALSE)]
  BY DEF FindPending, Become
<1> DEFINE l == Local("mark", r, FALSE)
<1>3. l \in Locals /\ l.pc = "mark" /\ l.on = r /\ l.stack = <<>>
  BY Tree DEF Local, Locals, Pcs
<1>4. thread' = [thread EXCEPT ![p] = l]
  BY <1>2
<1> HIDE DEF l
<1>5. ThreadMoves(p)
  BY <1>1, <1>2, <1>3, <1>4, GoPlain DEF Telling, Launching
<1> QED BY <1>1, <1>5, RunsQuiet, WorkQuiet, TriggerQuiet, Same DEF Moves

\* The promotion is a compare-and-set under the limit.
LEMMA MarkMoves == ASSUME FamInv, NEW p \in Promoters, MarkGraphRunningCapped(p) PROVE Moves
<1> DEFINE r == On(p)
<1>1. Me(p).pc = "mark" /\ p \in Procs /\ UNCHANGED <<work, trigger, used, faults>>
  BY DEF MarkGraphRunningCapped, Procs
<1>2. r \in Tops /\ r \in Runs /\ Me(p).stack = <<>> /\ Me(p) \in Locals
  BY <1>1, Tree DEF FamInv, Placed, Typed, Telling, Me
<1>3. Me(p).pc \notin Telling \cup {"submitChild", "enqueueChild", "childRoots", "refused"}
  BY <1>1 DEF Telling
<1>4. CASE /\ runs[r] = "queued" /\ runs' = [runs EXCEPT ![r] = "running"] /\ Goto(p, "readSeeds")
  <2> DEFINE l == [Me(p) EXCEPT !.pc = "readSeeds"]
  <2>1. thread' = [thread EXCEPT ![p] = l]
    BY <1>1, <1>4, Same DEF Goto, Me
  <2>2. l \in Locals /\ l.pc = "readSeeds" /\ l.on = r /\ l.stack = <<>>
    BY <1>2 DEF Locals, Pcs, On, Me
  <2>3. ~Ended(r) /\ Fresh(r) /\ runs'[r] = "running"
    BY <1>2, <1>4 DEF Ended, IsTerminalStatus, TerminalStatuses, Fresh, FamInv, Typed
  <2>4. RunsMove
    BY <1>2, <1>4, <2>3, TopMoves
  <2> HIDE DEF l
  <2>5. ThreadMoves(p)
    BY <1>1, <1>2, <1>3, <2>1, <2>2, <2>3, <2>4, GoStart
  <2> QED BY <1>1, <2>4, <2>5, WorkQuiet, TriggerQuiet, Same DEF Moves
<1>5. CASE UNCHANGED runs /\ Become(p, Idle)
  <2>1. ThreadMoves(p)
    BY <1>1, <1>3, <1>5, GoIdle DEF Become
  <2> QED BY <1>1, <1>5, <2>1, RunsQuiet, WorkQuiet, TriggerQuiet, Same DEF Moves
<1> QED BY <1>4, <1>5 DEF MarkGraphRunningCapped

\* The promoted run goes on where its submission stopped.
LEMMA StartPendingMoves == ASSUME FamInv, NEW p \in Promoters, StartPendingRun(p) PROVE Moves
<1>1. /\ Me(p).pc = "readSeeds" /\ p \in Procs /\ UNCHANGED <<runs, work, trigger, used, faults>>
      /\ thread' = [thread EXCEPT ![p] = Local("roots", On(p), trigger[On(p)] = "succeeded")]
  BY DEF StartPendingRun, Become, Procs
<1>2. PICK b \in BOOLEAN : b = (trigger[On(p)] = "succeeded")
  BY Zenon
<1>3. On(p) \in Tops /\ On(p) \in Runs /\ Starting(p)
  BY <1>1, Tree DEF FamInv, Placed, Starting
<1> DEFINE l == Local("roots", On(p), b)
<1>4. l \in Locals /\ l.pc = "roots" /\ l.on = On(p) /\ l.stack = <<>>
  BY <1>3, LocalIs DEF Pcs
<1>5. thread' = [thread EXCEPT ![p] = l]
  BY <1>1, <1>2, Zenon
<1> HIDE DEF l
<1>6. ThreadMoves(p)
  <2>1. RunsMove
    BY <1>1, RunsQuiet
  <2>2. Me(p).pc \notin Telling \cup {"submitChild", "enqueueChild", "childRoots", "refused"}
    BY <1>1 DEF Telling
  <2>3. l.stack = <<>> /\ l.pc \in {"seeds", "roots", "readSeeds"} /\ l.on \in Tops /\ l.on = On(p)
    BY <1>3, <1>4
  <2> QED BY <1>1, <1>3, <1>4, <1>5, <2>1, <2>2, <2>3, GoStart
<1> QED BY <1>1, <1>6, RunsQuiet, WorkQuiet, TriggerQuiet, Same DEF Moves

-----------------------------------------------------------------------------
(* Execution, and the start of a child.                                    *)

\* The trigger of a submitted run takes a status other than queued.
LEMMA TriggerOne ==
  ASSUME FamInv, NEW r \in Tops, NEW st \in Recorded \ {"queued"}, trigger' = [trigger EXCEPT ![r] = st],
         runs[r] # "absent"
  PROVE  TriggerMoves
<1>1. trigger \in [Runs -> Recorded] /\ r \in Runs
  BY Tree DEF FamInv, Typed
<1>2. /\ trigger' \in [Runs -> Recorded] /\ trigger'[r] = st
      /\ \A q \in Runs \ {r} : trigger'[q] = trigger[q]
  BY <1>1
<1>3. \A k \in Kids : trigger'[k] = trigger[k]
  BY <1>2, Tree
<1>4. \A q \in Runs : trigger'[q] = "queued" => trigger[q] = "queued"
  BY <1>2
<1> QED BY <1>2, <1>3, <1>4 DEF TriggerMoves

\* A claimed step was queued, or its worker has died.
LEMMA ClaimMoves == ASSUME FamInv, NEW w \in Workers, NEW r \in Runs, Claim(w, r) PROVE Moves
<1>1. /\ Me(w).pc = "idle" /\ w \in Procs /\ work[r] \in {"queued", "running"}
      /\ work' = [work EXCEPT ![r] = "running"] /\ UNCHANGED <<runs, trigger, used, faults>>
      /\ thread' = [thread EXCEPT ![w] = Local("exec", r, FALSE)]
  BY DEF Claim, Become, Procs
<1> DEFINE l == Local("exec", r, FALSE)
<1>2. l \in Locals /\ l.pc = "exec" /\ l.on = r /\ l.stack = <<>>
  BY DEF Local, Locals, Pcs
<1>3. thread' = [thread EXCEPT ![w] = l]
  BY <1>1
<1> HIDE DEF l
<1>4. ThreadMoves(w)
  BY <1>1, <1>2, <1>3, GoPlain DEF Telling, Launching
<1>5. "running" \in JobStatuses /\ ~IsTerminalStatus(work[r]) /\ work[r] \in Early /\ work[r] # "absent"
  BY <1>1 DEF JobStatuses, OpenStatuses, IsTerminalStatus, TerminalStatuses, Early
<1>6. WorkMoves
  BY <1>1, <1>5, WorkOne
<1> QED BY <1>1, <1>4, <1>6, RunsQuiet, TriggerQuiet, Same DEF Moves

\* A step is refused, parked or answered.
LEMMA ExecuteMoves == ASSUME FamInv, NEW w \in Workers, Execute(w) PROVE Moves
<1> DEFINE r == On(w)
<1>1. Me(w).pc = "exec" /\ w \in Procs /\ UNCHANGED <<runs, trigger, used, faults>>
  BY DEF Execute, Procs
<1>2. r \in Runs
  BY <1>1 DEF FamInv, Placed
<1>3. Me(w).pc \notin Telling \cup {"submitChild", "enqueueChild", "childRoots", "refused"}
  BY <1>1 DEF Telling
<1>4. RunsMove /\ TriggerMoves
  BY <1>1, RunsQuiet, TriggerQuiet
<1>5. "running" \in Early /\ ~IsTerminalStatus("running")
  BY DEF IsTerminalStatus, TerminalStatuses, Early
<1>6. {"cancelled", "awaiting", "succeeded", "failed"} \subseteq JobStatuses
  BY DEF JobStatuses, OpenStatuses, TerminalStatuses
<1>7. CASE Become(w, Idle) /\ UNCHANGED work
  <2>1. ThreadMoves(w)
    BY <1>1, <1>3, <1>7, GoIdle DEF Become
  <2> QED BY <1>1, <1>4, <1>7, <2>1, WorkQuiet, Same DEF Moves
<1>8. CASE /\ work[r] = "running" /\ Ended(r) /\ work' = [work EXCEPT ![r] = "cancelled"] /\ Become(w, Idle)
  <2>1. ThreadMoves(w)
    BY <1>1, <1>3, <1>8, GoIdle DEF Become
  <2>2. WorkMoves
    BY <1>2, <1>5, <1>6, <1>8, WorkOne
  <2> QED BY <1>1, <1>4, <2>1, <2>2, Same DEF Moves
<1>9. CASE /\ work[r] = "running" /\ r \in Calls /\ work' = [work EXCEPT ![r] = "awaiting"]
           /\ Become(w, Local("submitChild", r, FALSE))
  <2> DEFINE l == Local("submitChild", r, FALSE)
  <2>1. l \in Locals /\ l.pc = "submitChild" /\ l.on = r /\ l.stack = <<>>
    BY <1>2 DEF Local, Locals, Pcs
  <2>2. thread' = [thread EXCEPT ![w] = l]
    BY <1>9 DEF Become
  <2> HIDE DEF l
  <2>3. /\ thread' \in [Procs -> Locals] /\ thread'[w] = l
        /\ \A q \in Procs \ {w} : thread'[q] = thread[q]
        /\ TellsOn(w)
    BY <1>1, <1>3, <2>1, <2>2, FromQuiet
  <2>4. Placed(w)' /\ ~Starting(w)'
    BY <1>9, <2>1, <2>3 DEF Placed, Starting, Me, On, Telling, Launching
  <2>5. work'[r] \notin Early
    BY <1>2, <1>9 DEF FamInv, Typed, Early
  <2>6. thread[w].pc = "exec" /\ thread[w].on = r /\ work[thread[w].on] = "running" /\ work'[thread[w].on] \notin Early
    BY <1>1, <1>9, <2>5 DEF Me, On
  <2>7. ThreadMoves(w)
    BY <1>1, <2>1, <2>3, <2>4, <2>6 DEF ThreadMoves
  <2>8. \E p \in Procs : thread'[p].on = r /\ thread'[p].pc = "submitChild"
    BY <1>1, <2>1, <2>3
  <2>9. "awaiting" \notin Early
    BY DEF Early
  <2>10. WorkMoves
    <3> HIDE DEF r
    <3> QED BY <1>2, <1>5, <1>6, <1>9, <2>8, <2>9, WorkOne
  <2> QED BY <1>1, <1>4, <2>7, <2>10, Same DEF Moves
<1>10. CASE /\ work[r] = "running" /\ r \notin Calls
            /\ \E st \in {"succeeded", "failed"} : work' = [work EXCEPT ![r] = st]
            /\ Become(w, Local("advance", r, FALSE))
  <2> DEFINE l == Local("advance", r, FALSE)
  <2>1. l \in Locals /\ l.pc = "advance" /\ l.on = r /\ l.stack = <<>>
    BY <1>2 DEF Local, Locals, Pcs
  <2>2. thread' = [thread EXCEPT ![w] = l]
    BY <1>10 DEF Become
  <2> HIDE DEF l
  <2>3. ThreadMoves(w)
    BY <1>1, <1>2, <1>3, <2>1, <2>2, GoPlain DEF Launching
  <2>4. PICK st \in {"succeeded", "failed"} : work' = [work EXCEPT ![r] = st]
    BY <1>10
  <2>5. WorkMoves
    <3> HIDE DEF r
    <3> QED BY <1>2, <1>5, <1>6, <1>10, <2>4, WorkOne
  <2> QED BY <1>1, <1>4, <2>3, <2>5, Same DEF Moves
<1> QED BY <1>7, <1>8, <1>9, <1>10 DEF Execute

\* A trigger that reaches a worker belongs to a submitted run.
LEMMA RunTriggerMoves == ASSUME FamInv, NEW w \in Workers, NEW r \in Runs, RunTrigger(w, r) PROVE Moves
<1>1. Me(w).pc = "idle" /\ w \in Procs /\ trigger[r] = "queued" /\ UNCHANGED <<runs, used, faults>>
  BY DEF RunTrigger, Procs
<1>2. r \in Tops /\ runs[r] # "absent"
  BY <1>1, Tree DEF FamInv, Untouched
<1>3. {"cancelled", "skipped", "failed"} \subseteq Recorded \ {"queued"} /\ "skipped" \in JobStatuses
  BY DEF Recorded, JobStatuses, TerminalStatuses
<1>4. TriggerMoves
  BY <1>2, <1>3, TriggerOne DEF RunTrigger
<1>5. WorkMoves
  <2>1. CASE UNCHANGED work
    BY <2>1, WorkQuiet
  <2>2. CASE work[r] = "absent" /\ work' = [work EXCEPT ![r] = "skipped"]
    <3>1. ~IsTerminalStatus("absent") /\ "absent" \in Early
      BY DEF IsTerminalStatus, TerminalStatuses, Early
    <3> QED BY <1>1, <1>3, <2>2, <3>1, WorkOne
  <2> QED BY <2>1, <2>2 DEF RunTrigger
<1>6. CASE UNCHANGED thread
  BY <1>1, <1>4, <1>5, <1>6, RunsQuiet, Same DEF Moves
<1>7. CASE Become(w, Local("advance", r, FALSE))
  <2> DEFINE l == Local("advance", r, FALSE)
  <2>1. l \in Locals /\ l.pc = "advance" /\ l.on = r /\ l.stack = <<>>
    BY DEF Local, Locals, Pcs
  <2>2. thread' = [thread EXCEPT ![w] = l]
    BY <1>7 DEF Become
  <2> HIDE DEF l
  <2>3. ThreadMoves(w)
    BY <1>1, <2>1, <2>2, GoPlain DEF Launching, Telling
  <2> QED BY <1>1, <1>4, <1>5, <2>3, RunsQuiet, Same DEF Moves
<1> QED BY <1>6, <1>7 DEF RunTrigger

\* Goto changes the place of one goroutine and nothing else.
LEMMA GotoIs ==
  ASSUME FamInv, NEW p \in Procs, NEW pc \in Pcs, Goto(p, pc)
  PROVE  /\ thread' \in [Procs -> Locals] /\ \A q \in Procs \ {p} : thread'[q] = thread[q]
         /\ thread'[p].pc = pc /\ thread'[p].on = thread[p].on
         /\ thread'[p].yes = thread[p].yes /\ thread'[p].stack = thread[p].stack
<1> DEFINE l == [Me(p) EXCEPT !.pc = pc]
<1>1. Me(p) \in Locals
  BY Same DEF Me
<1>2. /\ l \in Locals /\ l.pc = pc /\ l.on = Me(p).on /\ l.yes = Me(p).yes /\ l.stack = Me(p).stack
  BY <1>1 DEF Locals
<1>3. thread' = [thread EXCEPT ![p] = l]
  BY Same DEF Goto, Me
<1> HIDE DEF l
<1> QED BY <1>2, <1>3, MoveTo DEF FamInv, Me

\* What is known of a goroutine that launches a child.
LEMMA AtLaunch ==
  ASSUME FamInv, NEW w \in Procs, Me(w).pc \in Launching
  PROVE  /\ On(w) \in Calls /\ On(w) \in Runs /\ ChildOf[On(w)] \in Kids /\ ChildOf[On(w)] \in Runs
         /\ Me(w).stack = <<>> /\ work[ChildOf[On(w)]] = "absent"
         /\ Me(w).pc = "childRoots" <=> runs[ChildOf[On(w)]] # "absent"
  BY Tree DEF FamInv, Placed, Launched, Launching, Telling

\* A goroutine with an empty stack tells by its place alone.
LEMMA TellsHere ==
  ASSUME NEW w, NEW r, Me(w).stack = <<>>, Me(w).pc \notin Telling
  PROVE  /\ Tells(w, r) => On(w) = r /\ Me(w).pc \in {"submitChild", "enqueueChild", "refused"}
         /\ Nurses(w, r) => On(w) = r /\ Me(w).pc \in {"childRoots", "refused"}
  BY DEF Tells, Nurses, Telling

\* The child is asked for, or refused.
LEMMA SubmitChildMoves == ASSUME FamInv, NEW w \in Workers, SubmitChild(w) PROVE Moves
<1>1. Me(w).pc = "submitChild" /\ w \in Procs /\ UNCHANGED <<runs, work, trigger, used, faults>>
  BY DEF SubmitChild, Procs
<1>2. PICK pc \in {"refused", "enqueueChild"} : Goto(w, pc)
  BY DEF SubmitChild
<1>3. /\ thread' \in [Procs -> Locals] /\ \A q \in Procs \ {w} : thread'[q] = thread[q]
      /\ thread'[w].pc = pc /\ thread'[w].on = thread[w].on
      /\ thread'[w].yes = thread[w].yes /\ thread'[w].stack = thread[w].stack
  BY <1>1, <1>2, GotoIs DEF Pcs
<1>4. /\ On(w) \in Calls /\ On(w) \in Runs /\ Me(w).stack = <<>> /\ runs[ChildOf[On(w)]] = "absent"
      /\ Me(w).pc \notin Telling
  BY <1>1, AtLaunch DEF Launching, Telling
<1>5. Placed(w)' /\ ~Starting(w)'
  BY <1>2, <1>3, <1>4 DEF Placed, Starting, Me, On, Telling, Launching
<1>6. ASSUME NEW r \in Calls
      PROVE  (Tells(w, r) => Tells(w, r)') /\ ~Nurses(w, r)
  <2>1. (Tells(w, r) => On(w) = r) /\ ~Nurses(w, r)
    BY <1>1, <1>4, TellsHere
  <2> QED BY <1>2, <1>3, <2>1 DEF Tells, Me, On
<1>7. ThreadMoves(w)
  BY <1>1, <1>2, <1>3, <1>4, <1>5, <1>6 DEF ThreadMoves, TellsOn, Launching, Me, On
<1> QED BY <1>1, <1>7, RunsQuiet, WorkQuiet, TriggerQuiet, Same DEF Moves

\* The child's record appears.
LEMMA EnqueueChildMoves == ASSUME FamInv, NEW w \in Workers, EnqueueChild(w) PROVE Moves
<1> DEFINE k == ChildOf[On(w)]
<1>1. /\ Me(w).pc = "enqueueChild" /\ w \in Procs /\ UNCHANGED <<work, trigger, used, faults>>
      /\ runs' = [runs EXCEPT ![k] = "running"] /\ Goto(w, "childRoots")
  BY DEF EnqueueChild, Procs
<1>2. /\ thread' \in [Procs -> Locals] /\ \A q \in Procs \ {w} : thread'[q] = thread[q]
      /\ thread'[w].pc = "childRoots" /\ thread'[w].on = thread[w].on
      /\ thread'[w].yes = thread[w].yes /\ thread'[w].stack = thread[w].stack
  BY <1>1, GotoIs DEF Pcs
<1>3. /\ On(w) \in Calls /\ k \in Kids /\ k \in Runs /\ Me(w).stack = <<>> /\ runs[k] = "absent"
      /\ Me(w).pc \notin Telling
  BY <1>1, AtLaunch DEF Launching, Telling
<1>4. Placed(w)' /\ ~Starting(w)'
  BY <1>2, <1>3 DEF Placed, Starting, Me, On, Telling, Launching
<1>5. "running" \in Recorded /\ runs \in [Runs -> Recorded]
  BY DEF Recorded, JobStatuses, OpenStatuses, FamInv, Typed
<1>6. /\ runs' \in [Runs -> Recorded] /\ runs'[k] = "running"
      /\ \A q \in Runs \ {k} : runs'[q] = runs[q]
  BY <1>1, <1>3, <1>5
<1>7. ASSUME NEW r \in Calls
      PROVE  (Tells(w, r) => OpenChild(r)') /\ ~Nurses(w, r)
  <2>1. (Tells(w, r) => On(w) = r) /\ ~Nurses(w, r)
    BY <1>1, <1>3, TellsHere
  <2> QED BY <1>6, <2>1 DEF OpenChild, OpenStatuses
<1>8. ThreadMoves(w)
  BY <1>1, <1>2, <1>3, <1>4, <1>6, <1>7 DEF ThreadMoves, TellsOn, Launching, Me, On
<1>9. RunsMove
  <2>1. \E p \in Procs : /\ thread[p].pc = "enqueueChild" /\ ChildOf[thread[p].on] = k
                         /\ thread'[p].pc = "childRoots" /\ thread'[p].on = thread[p].on
    BY <1>1, <1>2 DEF Me, On
  <2>2. ~Ended(k) /\ Fresh(k) /\ "absent" \notin OpenStatuses
    BY <1>3 DEF Ended, IsTerminalStatus, TerminalStatuses, OpenStatuses, Fresh
  <2>3. \A q \in Kids : q = k \/ runs'[q] = runs[q]
    BY <1>6, Tree
  <2> HIDE DEF k
  <2> QED BY <1>3, <1>6, <2>1, <2>2, <2>3 DEF RunsMove, Fresh
<1> QED BY <1>1, <1>8, <1>9, WorkQuiet, TriggerQuiet, Same DEF Moves

\* The child gets its first step.
LEMMA ChildRootsMoves == ASSUME FamInv, NEW w \in Workers, ChildRoots(w) PROVE Moves
<1> DEFINE k == ChildOf[On(w)]
<1>1. /\ Me(w).pc = "childRoots" /\ w \in Procs /\ UNCHANGED <<runs, trigger, used, faults>>
      /\ work' = [work EXCEPT ![k] = "queued"] /\ thread' = [thread EXCEPT ![w] = Idle]
  BY DEF ChildRoots, Procs, Become
<1>2. /\ thread' \in [Procs -> Locals] /\ thread'[w] = Idle
      /\ \A q \in Procs \ {w} : thread'[q] = thread[q]
  BY <1>1, MoveTo, IdleIs DEF FamInv
<1>3. /\ On(w) \in Calls /\ k \in Kids /\ k \in Runs /\ Me(w).stack = <<>> /\ work[k] = "absent"
      /\ Me(w).pc \notin Telling
  BY <1>1, AtLaunch DEF Launching, Telling
<1>4. Placed(w)' /\ ~Starting(w)' /\ thread'[w].pc \notin Launching /\ thread'[w].pc = "idle"
  BY <1>2, IdleIs DEF Placed, Starting, Me, On, Telling, Launching
<1>5. work'[k] = "queued"
  BY <1>1, <1>3 DEF FamInv, Typed
<1>6. ASSUME NEW r \in Calls
      PROVE  ~Tells(w, r) /\ (Nurses(w, r) => ~Bare(r)')
  <2>1. ~Tells(w, r) /\ (Nurses(w, r) => On(w) = r)
    BY <1>1, <1>3, TellsHere
  <2> QED BY <1>5, <2>1 DEF Bare
<1>7. ThreadMoves(w)
  BY <1>2, <1>4, <1>6 DEF ThreadMoves, TellsOn
<1>8. WorkMoves
  <2>1. \E p \in Procs : thread[p].pc = "childRoots" /\ ChildOf[thread[p].on] = k /\ thread'[p].pc = "idle"
    BY <1>1, <1>4 DEF Me, On
  <2>2. "queued" \in JobStatuses /\ ~IsTerminalStatus("absent") /\ "absent" \in Early
    BY DEF JobStatuses, OpenStatuses, IsTerminalStatus, TerminalStatuses, Early
  <2> HIDE DEF k
  <2> QED BY <1>1, <1>3, <2>1, <2>2, WorkOne
<1> QED BY <1>1, <1>7, <1>8, RunsQuiet, TriggerQuiet, Same DEF Moves

\* A launch that fails is a refusal.
LEMMA SubmitChildFailsMoves == ASSUME FamInv, NEW w \in Workers, SubmitChildFails(w) PROVE Moves
<1>1. /\ Me(w).pc \in {"enqueueChild", "childRoots"} /\ w \in Procs /\ UNCHANGED <<runs, work, trigger, used>>
      /\ faults.store < MaxStoreErrors /\ faults' = [faults EXCEPT !.store = @ + 1] /\ Goto(w, "refused")
  BY DEF SubmitChildFails, Procs
<1>2. /\ thread' \in [Procs -> Locals] /\ \A q \in Procs \ {w} : thread'[q] = thread[q]
      /\ thread'[w].pc = "refused" /\ thread'[w].on = thread[w].on
      /\ thread'[w].yes = thread[w].yes /\ thread'[w].stack = thread[w].stack
  BY <1>1, GotoIs DEF Pcs
<1>3. On(w) \in Runs /\ Me(w).stack = <<>> /\ Me(w).pc \notin Telling
  BY <1>1, AtLaunch DEF Launching, Telling
<1>4. Placed(w)' /\ ~Starting(w)' /\ thread'[w].pc \notin Launching
  BY <1>2, <1>3 DEF Placed, Starting, Me, On, Telling, Launching
<1>5. ASSUME NEW r \in Calls
      PROVE  (Tells(w, r) => Tells(w, r)') /\ (Nurses(w, r) => Nurses(w, r)')
  <2>1. (Tells(w, r) => On(w) = r) /\ (Nurses(w, r) => On(w) = r)
    BY <1>3, TellsHere
  <2> QED BY <1>2, <2>1 DEF Tells, Nurses, Me, On
<1>6. ThreadMoves(w)
  BY <1>2, <1>4, <1>5 DEF ThreadMoves, TellsOn
<1> QED BY <1>1, <1>6, RunsQuiet, WorkQuiet, TriggerQuiet, StoreFault DEF Moves

\* A refusal closes the parked step.
LEMMA FailParkedMoves == ASSUME FamInv, NEW w \in Workers, FailParked(w) PROVE Moves
<1> DEFINE r == On(w)
<1>1. /\ Me(w).pc = "refused" /\ w \in Procs /\ UNCHANGED <<runs, trigger, used, faults>>
      /\ work' = IF Open(work[r]) THEN [work EXCEPT ![r] = "failed"] ELSE work
      /\ Goto(w, "advance")
  BY DEF FailParked, Procs
<1>2. /\ thread' \in [Procs -> Locals] /\ \A q \in Procs \ {w} : thread'[q] = thread[q]
      /\ thread'[w].pc = "advance" /\ thread'[w].on = thread[w].on
      /\ thread'[w].yes = thread[w].yes /\ thread'[w].stack = thread[w].stack
  BY <1>1, GotoIs DEF Pcs
<1>3. r \in Runs /\ Me(w).stack = <<>> /\ Me(w).pc \notin Telling
  BY <1>1 DEF FamInv, Placed, Telling
<1>4. Placed(w)' /\ ~Starting(w)' /\ thread'[w].pc \notin Launching
  BY <1>2, <1>3 DEF Placed, Starting, Me, On, Telling, Launching
<1>5. work'[r] # "awaiting"
  BY <1>1, <1>3 DEF FamInv, Typed, Open, OpenStatuses
<1>6. ASSUME NEW q \in Calls, work'[q] = "awaiting"
      PROVE  ~Tells(w, q) /\ ~Nurses(w, q)
  BY <1>3, <1>5, <1>6, TellsHere
<1>7. ThreadMoves(w)
  BY <1>2, <1>4, <1>6 DEF ThreadMoves, TellsOn
<1>8. WorkMoves
  <2>1. CASE Open(work[r])
    <3>1. ~IsTerminalStatus(work[r]) /\ work[r] # "absent" /\ "failed" \in JobStatuses /\ "failed" \notin Early
      BY <2>1 DEF Open, OpenStatuses, IsTerminalStatus, TerminalStatuses, JobStatuses, Early
    <3>2. work' = [work EXCEPT ![r] = "failed"]
      BY <1>1, <2>1
    <3> HIDE DEF r
    <3> QED BY <1>3, <3>1, <3>2, WorkOne
  <2>2. CASE ~Open(work[r])
    BY <1>1, <2>2, WorkQuiet
  <2> QED BY <2>1, <2>2
<1> QED BY <1>1, <1>7, <1>8, RunsQuiet, TriggerQuiet, Same DEF Moves

-----------------------------------------------------------------------------
(* Ends, cancels, the reaper and crashes.                                  *)

\* What a goroutine that tells still has to tell: by its place, or by its stack.
LEMMA TellsByPlace ==
  ASSUME NEW p, NEW r, Me(p).pc \in Telling, Tells(p, r)
  PROVE  \/ On(p) = r /\ Me(p).pc = "sweep"
         \/ On(p) = ChildOf[r] /\ Me(p).pc \in {"sweep", "resume"}
         \/ \E i \in 1 .. Len(Me(p).stack) : Me(p).stack[i] = ChildOf[r]
  BY DEF Tells, Telling

\* A goroutine that tells nurses nobody.
LEMMA TellsNotNurses == ASSUME NEW p, NEW r, Me(p).pc \in Telling PROVE ~Nurses(p, r)
  BY DEF Nurses, Telling

\* A goroutine that is done with a run goes back to the run above.
LEMMA ReturnMoves ==
  ASSUME FamInv, NEW p \in Procs, Me(p).pc \in {"advance", "resume"}, Return(p), UNCHANGED runs,
         Me(p).pc = "resume" => \A r \in Calls : work[r] = "awaiting" => ChildOf[r] # On(p)
  PROVE  ThreadMoves(p)
<1>1. Me(p) \in Locals /\ Me(p).pc \in Telling
  BY Same DEF Me, Telling
<1>2. Me(p).stack \in Seq(Runs)
  BY <1>1 DEF Locals
<1>3. ASSUME NEW r \in Calls, work[r] = "awaiting", Tells(p, r)
      PROVE  \E i \in 1 .. Len(Me(p).stack) : Me(p).stack[i] = ChildOf[r]
  BY <1>1, <1>3, TellsByPlace
<1>4. CASE Me(p).stack = <<>>
  <2>1. thread' = [thread EXCEPT ![p] = Idle]
    BY <1>4 DEF Return, Become
  <2>2. /\ thread' \in [Procs -> Locals] /\ thread'[p] = Idle
        /\ \A q \in Procs \ {p} : thread'[q] = thread[q]
    BY <2>1, MoveTo, IdleIs DEF FamInv
  <2>3. ASSUME NEW r \in Calls, work[r] = "awaiting" PROVE ~Tells(p, r)
    BY <1>3, <1>4, <2>3
  <2>4. TellsOn(p)
    BY <1>1, <2>3, TellsNotNurses DEF TellsOn
  <2>5. Placed(p)' /\ ~Starting(p)' /\ thread'[p].pc \notin Launching
    BY <2>2, IdleIs DEF Placed, Starting, Me, On, Telling, Launching
  <2> QED BY <2>2, <2>4, <2>5 DEF ThreadMoves
<1>5. CASE Me(p).stack # <<>>
  <2> DEFINE st == Me(p).stack
             l == [Me(p) EXCEPT !.pc = "resume", !.yes = FALSE, !.on = Head(st), !.stack = Tail(st)]
  <2>1. thread' = [thread EXCEPT ![p] = l]
    BY <1>5 DEF Return, Become
  <2>2. /\ Head(st) \in Runs /\ Tail(st) \in Seq(Runs) /\ Len(st) \in Nat /\ Len(st) # 0
        /\ Head(st) = st[1] /\ Len(Tail(st)) = Len(st) - 1
        /\ \A i \in 1 .. Len(st) - 1 : Tail(st)[i] = st[i + 1]
    BY <1>2, <1>5
  <2>3. l \in Locals /\ l.pc = "resume" /\ l.yes = FALSE /\ l.on = Head(st) /\ l.stack = Tail(st)
    BY <1>1, <2>2 DEF Locals, Pcs
  <2> HIDE DEF l
  <2>4. /\ thread' \in [Procs -> Locals] /\ thread'[p] = l
        /\ \A q \in Procs \ {p} : thread'[q] = thread[q]
    BY <2>1, <2>3, MoveTo DEF FamInv
  <2>5. Placed(p)' /\ ~Starting(p)' /\ thread'[p].pc \notin Launching
    BY <2>2, <2>3, <2>4 DEF Placed, Starting, Me, On, Telling, Launching
  <2>6. ASSUME NEW r \in Calls, work[r] = "awaiting", Tells(p, r) PROVE Tells(p, r)'
    <3>1. PICK i \in 1 .. Len(st) : st[i] = ChildOf[r]
      BY <1>3, <2>6
    <3>2. CASE i = 1
      BY <2>2, <2>3, <2>4, <3>1, <3>2 DEF Tells, Me, On
    <3>3. CASE i # 1
      <4>1. i - 1 \in 1 .. Len(Tail(st)) /\ Tail(st)[i - 1] = st[i]
        BY <2>2, <3>1, <3>3
      <4>2. thread'[p].stack = Tail(st)
        BY <2>3, <2>4
      <4>3. \E j \in 1 .. Len(thread'[p].stack) : thread'[p].stack[j] = ChildOf[r]
        BY <3>1, <4>1, <4>2
      <4> QED BY <4>3 DEF Tells, Me
    <3> QED BY <3>2, <3>3
  <2>7. TellsOn(p)
    BY <1>1, <2>6, TellsNotNurses DEF TellsOn
  <2> QED BY <2>4, <2>5, <2>7 DEF ThreadMoves
<1> QED BY <1>4, <1>5

\* The verdict on a run whose steps are closed.
LEMMA VerdictFits ==
  ASSUME FamInv, NEW r \in Runs, ~Ended(r), Closed(r)
  PROVE  /\ Verdict(r) \in {"succeeded", "failed"}
         /\ Verdict(r) = "succeeded" => work[r] \in {"succeeded", "skipped"}
         /\ r \in Kids => runs[r] # "absent"
<1>1. work[r] # "cancelled"
  BY DEF FamInv, Outcome
<1>2. ASSUME Verdict(r) = "succeeded" PROVE work[r] \in {"succeeded", "skipped"}
  BY <1>1, <1>2 DEF Verdict, Closed, IsTerminalStatus, TerminalStatuses
<1>3. ASSUME r \in Kids PROVE runs[r] # "absent"
  <2>1. trigger[r] = "absent"
    BY <1>3 DEF FamInv, Untouched
  <2>2. work[r] # "absent"
    BY <2>1 DEF Closed, IsTerminalStatus, TerminalStatuses
  <2> QED BY <2>2 DEF FamInv, Untouched, Fresh
<1> QED BY <1>2, <1>3 DEF Verdict

\* The last step of a run ends it, or there is nothing to do.
LEMMA AdvanceMoves == ASSUME FamInv, NEW p \in Procs, Advance(p) PROVE Moves
<1> DEFINE r == On(p)
<1>1. Me(p).pc = "advance" /\ UNCHANGED <<work, trigger, used, faults>>
  BY DEF Advance
<1>2. r \in Runs /\ Me(p) \in Locals /\ Me(p).pc \in Telling
  BY <1>1, Same DEF FamInv, Placed, Telling, Me
<1>3. CASE ~Ended(r) /\ Closed(r)
  <2> DEFINE v == Verdict(r)
             l == [Me(p) EXCEPT !.pc = "resume", !.yes = v = "succeeded"]
  <2>1. runs' = [runs EXCEPT ![r] = v] /\ thread' = [thread EXCEPT ![p] = l]
    BY <1>3 DEF Advance, Become
  <2>2. /\ v \in {"succeeded", "failed"} /\ (v = "succeeded" => work[r] \in {"succeeded", "skipped"})
        /\ r \in Kids => runs[r] # "absent"
    BY <1>2, <1>3, VerdictFits
  <2> HIDE DEF v
  <2>3. /\ l \in Locals /\ l.pc = "resume" /\ l.on = r /\ l.stack = Me(p).stack
        /\ l.yes => v = "succeeded"
    BY <1>2 DEF Locals, Pcs, On, Me
  <2> HIDE DEF l
  <2>4. /\ thread' \in [Procs -> Locals] /\ thread'[p] = l
        /\ \A q \in Procs \ {p} : thread'[q] = thread[q]
    BY <2>1, <2>3, MoveTo DEF FamInv
  <2>5. runs'[r] = v
    BY <1>2, <2>1 DEF FamInv, Typed
  <2>6. Placed(p)' /\ ~Starting(p)' /\ thread'[p].pc \notin Launching
    BY <1>2, <2>3, <2>4, <2>5 DEF Placed, Starting, Me, On, Telling, Launching
  <2>7. ASSUME NEW q \in Calls, Tells(p, q) PROVE Tells(p, q)'
    <3>1. \E i \in 1 .. Len(Me(p).stack) : Me(p).stack[i] = ChildOf[q]
      BY <1>1, <1>2, <2>7, TellsByPlace
    <3> QED BY <2>3, <2>4, <3>1 DEF Tells, Me
  <2>8. ThreadMoves(p)
    BY <1>2, <2>4, <2>6, <2>7, TellsNotNurses DEF ThreadMoves, TellsOn
  <2>9. \E q \in Procs : thread'[q].on = r /\ thread'[q].pc \in {"sweep", "resume"}
    BY <2>3, <2>4
  <2>10. RunsMove
    <3> HIDE DEF r
    <3> QED BY <1>2, <1>3, <2>1, <2>2, <2>9, RunEnds
  <2> QED BY <1>1, <2>8, <2>10, WorkQuiet, TriggerQuiet, Same DEF Moves
<1>4. CASE ~(~Ended(r) /\ Closed(r))
  <2>1. UNCHANGED runs /\ Return(p)
    BY <1>4 DEF Advance
  <2>2. ThreadMoves(p)
    BY <1>1, <2>1, ReturnMoves
  <2> QED BY <1>1, <2>1, <2>2, RunsQuiet, WorkQuiet, TriggerQuiet, Same DEF Moves
<1> QED BY <1>3, <1>4

\* The parked step gets the outcome of its child.
LEMMA ResumeMoves == ASSUME FamInv, NEW p \in Procs, MaybeResumeParent(p) PROVE Moves
<1>1. Me(p).pc = "resume" /\ UNCHANGED <<runs, trigger, used, faults>>
  BY DEF MaybeResumeParent
<1>2. On(p) \in Runs /\ Me(p) \in Locals /\ Me(p).pc \in Telling
  BY <1>1, Same DEF FamInv, Placed, Telling, Me
<1>3. ASSUME NEW r \in ParentsOf(On(p)), work[r] = "awaiting",
             NEW st \in {"succeeded", "failed"}, st = "succeeded" => Me(p).yes,
             work' = [work EXCEPT ![r] = st], Become(p, [Me(p) EXCEPT !.pc = "advance", !.on = r])
      PROVE  Moves
  <2> DEFINE l == [Me(p) EXCEPT !.pc = "advance", !.on = r]
  <2>1. r \in Calls /\ ChildOf[r] = On(p) /\ r \in Runs
    BY Tree DEF ParentsOf
  <2>2. l \in Locals /\ l.pc = "advance" /\ l.on = r /\ l.stack = Me(p).stack
    BY <1>2, <2>1 DEF Locals, Pcs
  <2>3. thread' = [thread EXCEPT ![p] = l]
    BY <1>3 DEF Become
  <2> HIDE DEF l
  <2>4. /\ thread' \in [Procs -> Locals] /\ thread'[p] = l
        /\ \A q \in Procs \ {p} : thread'[q] = thread[q]
    BY <2>2, <2>3, MoveTo DEF FamInv
  <2>5. Placed(p)' /\ ~Starting(p)' /\ thread'[p].pc \notin Launching
    BY <2>1, <2>2, <2>4 DEF Placed, Starting, Me, On, Telling, Launching
  <2>6. work'[r] # "awaiting"
    BY <1>3, <2>1 DEF FamInv, Typed
  <2>7. ASSUME NEW q \in Calls, work'[q] = "awaiting", Tells(p, q) PROVE Tells(p, q)'
    <3>1. ChildOf[q] # On(p)
      BY <2>1, <2>6, <2>7, OneParent
    <3>2. \E i \in 1 .. Len(Me(p).stack) : Me(p).stack[i] = ChildOf[q]
      BY <1>1, <1>2, <2>7, <3>1, TellsByPlace
    <3> QED BY <2>2, <2>4, <3>2 DEF Tells, Me
  <2>8. ThreadMoves(p)
    BY <1>2, <2>4, <2>5, <2>7, TellsNotNurses DEF ThreadMoves, TellsOn
  <2>9. /\ ~IsTerminalStatus(work[r]) /\ work[r] # "absent" /\ work[r] \notin Early
        /\ st \in JobStatuses /\ st \notin Early /\ st # "cancelled" /\ st # "awaiting"
    BY <1>3 DEF IsTerminalStatus, TerminalStatuses, JobStatuses, Early
  <2>10. st = "succeeded" => \E q \in Procs : thread[q].pc = "resume" /\ thread[q].yes /\ thread[q].on = ChildOf[r]
    BY <1>1, <1>3, <2>1 DEF Me, On
  <2>11. WorkMoves
    BY <1>3, <2>1, <2>9, <2>10, WorkOne
  <2> QED BY <1>1, <2>8, <2>11, RunsQuiet, TriggerQuiet, Same DEF Moves
<1>4. ASSUME \A r \in ParentsOf(On(p)) : work[r] # "awaiting", Return(p), UNCHANGED work
      PROVE  Moves
  <2>1. \A r \in Calls : work[r] = "awaiting" => ChildOf[r] # On(p)
    BY <1>4 DEF ParentsOf
  <2>2. ThreadMoves(p)
    BY <1>1, <1>4, <2>1, ReturnMoves
  <2> QED BY <1>1, <1>4, <2>2, RunsQuiet, WorkQuiet, TriggerQuiet, Same DEF Moves
<1> QED BY <1>3, <1>4 DEF MaybeResumeParent

\* A cancelled run is swept by the one who cancelled it.
LEMMA CancelMoves == ASSUME FamInv, NEW c \in Cancellers, NEW r \in Runs, Cancel(c, r) PROVE Moves
<1>1. /\ Me(c).pc = "idle" /\ c \in Procs /\ runs[r] # "absent" /\ ~Ended(r)
      /\ runs' = [runs EXCEPT ![r] = "cancelled"] /\ UNCHANGED <<work, trigger, used, faults>>
  BY DEF Cancel, Procs
<1> DEFINE l == Local("sweep", r, FALSE)
<1>2. l \in Locals /\ l.pc = "sweep" /\ l.on = r /\ l.stack = <<>> /\ l.yes = FALSE
  BY DEF Local, Locals, Pcs
<1>3. thread' = [thread EXCEPT ![c] = l]
  BY DEF Cancel, Become
<1> HIDE DEF l
<1>4. /\ thread' \in [Procs -> Locals] /\ thread'[c] = l
      /\ \A q \in Procs \ {c} : thread'[q] = thread[q]
      /\ TellsOn(c)
  BY <1>1, <1>2, <1>3, FromQuiet DEF Telling
<1>5. runs'[r] = "cancelled"
  BY <1>1 DEF FamInv, Typed
<1>6. Placed(c)' /\ ~Starting(c)' /\ thread'[c].pc \notin Launching
  BY <1>2, <1>4, <1>5
     DEF Placed, Starting, Me, On, Telling, Launching, Ended, IsTerminalStatus, TerminalStatuses
<1>7. ThreadMoves(c)
  BY <1>4, <1>6 DEF ThreadMoves
<1>8. \E q \in Procs : thread'[q].on = r /\ thread'[q].pc \in {"sweep", "resume"}
  BY <1>1, <1>2, <1>4
<1>9. RunsMove
  BY <1>1, <1>8, RunEnds
<1> QED BY <1>1, <1>7, <1>9, WorkQuiet, TriggerQuiet, Same DEF Moves

\* Sweeping an ended run closes its open steps and no others.
LEMMA SweptMoves ==
  ASSUME FamInv, NEW r \in Runs, Ended(r), work' = Swept(work, r), trigger' = Swept(trigger, r)
  PROVE  WorkMoves /\ TriggerMoves /\ work'[r] # "awaiting"
<1>1. WorkMoves
  <2>1. CASE Open(work[r])
    <3>1. ~IsTerminalStatus(work[r]) /\ work[r] # "absent" /\ "cancelled" \in JobStatuses /\ "cancelled" \notin Early
      BY <2>1 DEF Open, OpenStatuses, IsTerminalStatus, TerminalStatuses, JobStatuses, Early
    <3>2. work' = [work EXCEPT ![r] = "cancelled"]
      BY <2>1 DEF Swept
    <3> QED BY <3>1, <3>2, WorkOne
  <2>2. CASE ~Open(work[r])
    BY <2>2, WorkQuiet DEF Swept
  <2> QED BY <2>1, <2>2
<1>2. TriggerMoves
  <2>1. CASE Open(trigger[r])
    <3>1. r \in Tops /\ runs[r] # "absent" /\ "cancelled" \in Recorded \ {"queued"}
      BY <2>1, Tree DEF FamInv, Untouched, Open, OpenStatuses, Recorded, JobStatuses, TerminalStatuses
    <3>2. trigger' = [trigger EXCEPT ![r] = "cancelled"]
      BY <2>1 DEF Swept
    <3> QED BY <3>1, <3>2, TriggerOne
  <2>2. CASE ~Open(trigger[r])
    BY <2>2, TriggerQuiet DEF Swept
  <2> QED BY <2>1, <2>2
<1>3. work'[r] # "awaiting"
  BY DEF Swept, FamInv, Typed, Open, OpenStatuses
<1> QED BY <1>1, <1>2, <1>3

\* A cancel goes down to the child before it goes up to the parent.
LEMMA SweepMoves == ASSUME FamInv, NEW c \in Cancellers, SweepCancelled(c) PROVE Moves
<1> DEFINE r == On(c)
           k == ChildOf[r]
<1>1. /\ Me(c).pc = "sweep" /\ c \in Procs /\ work' = Swept(work, r) /\ trigger' = Swept(trigger, r)
      /\ UNCHANGED <<used, faults>>
  BY DEF SweepCancelled, Procs
<1>2. r \in Runs /\ Ended(r) /\ ~Me(c).yes /\ Me(c) \in Locals /\ Me(c).pc \in Telling
  BY <1>1, Same DEF FamInv, Placed, Telling, Me
<1>3. WorkMoves /\ TriggerMoves /\ work'[r] # "awaiting"
  BY <1>1, <1>2, SweptMoves
<1>4. CASE work[r] = "awaiting" /\ OpenChild(r)
  <2> DEFINE st == Me(c).stack
             l == [Me(c) EXCEPT !.on = k, !.stack = <<r>> \o @]
  <2>1. runs' = [runs EXCEPT ![k] = "cancelled"] /\ thread' = [thread EXCEPT ![c] = l]
    BY <1>4 DEF SweepCancelled, Become
  <2>2. /\ r \in Calls /\ k \in Kids /\ k \in Runs /\ runs[k] # "absent" /\ ~Ended(k)
    BY <1>4, Tree DEF OpenChild, OpenStatuses, Ended, IsTerminalStatus, TerminalStatuses
  <2>3. st \in Seq(Runs) /\ Len(st) \in Nat
    BY <1>2 DEF Locals
  <2>4. /\ <<r>> \o st \in Seq(Runs) /\ Len(<<r>> \o st) = Len(st) + 1 /\ (<<r>> \o st)[1] = r
        /\ \A i \in 1 .. Len(st) : (<<r>> \o st)[i + 1] = st[i]
    BY <1>2, <2>3
  <2>5. l \in Locals /\ l.pc = "sweep" /\ l.on = k /\ l.yes = Me(c).yes /\ l.stack = <<r>> \o st
    BY <1>1, <1>2, <2>2, <2>4 DEF Locals
  <2> HIDE DEF l
  <2>6. /\ thread' \in [Procs -> Locals] /\ thread'[c] = l
        /\ \A q \in Procs \ {c} : thread'[q] = thread[q]
    BY <1>1, <2>1, <2>5, MoveTo DEF FamInv
  <2>7. runs'[k] = "cancelled"
    BY <2>1, <2>2 DEF FamInv, Typed
  <2>8. Placed(c)' /\ ~Starting(c)' /\ thread'[c].pc \notin Launching
    <3> HIDE DEF k
    <3> QED BY <1>2, <2>2, <2>5, <2>6, <2>7
            DEF Placed, Starting, Me, On, Telling, Launching, Ended, IsTerminalStatus, TerminalStatuses
  <2>9. ASSUME NEW q \in Calls, work'[q] = "awaiting", Tells(c, q) PROVE Tells(c, q)'
    <3>1. q # r
      BY <1>3, <2>9
    <3>2. thread'[c].stack = <<r>> \o st
      BY <2>5, <2>6
    <3>3. \/ r = ChildOf[q] 
          \/ \E i \in 1 .. Len(st) : st[i] = ChildOf[q]
      BY <1>2, <2>9, <3>1, TellsByPlace
    <3>4. \E j \in 1 .. Len(<<r>> \o st) : (<<r>> \o st)[j] = ChildOf[q]
      <4>1. CASE r = ChildOf[q]
        <5>1. 1 \in 1 .. Len(<<r>> \o st)
          BY <2>3, <2>4
        <5> QED BY <2>4, <4>1, <5>1
      <4>2. ASSUME NEW i \in 1 .. Len(st), st[i] = ChildOf[q]
            PROVE  \E j \in 1 .. Len(<<r>> \o st) : (<<r>> \o st)[j] = ChildOf[q]
        <5>1. i + 1 \in 1 .. Len(<<r>> \o st) /\ (<<r>> \o st)[i + 1] = ChildOf[q]
          BY <2>3, <2>4, <4>2
        <5> QED BY <5>1
      <4> QED BY <3>3, <4>1, <4>2
    <3> QED BY <3>2, <3>4 DEF Tells, Me
  <2>10. ThreadMoves(c)
    BY <1>2, <2>6, <2>8, <2>9, TellsNotNurses DEF ThreadMoves, TellsOn
  <2>11. \E q \in Procs : thread'[q].on = k /\ thread'[q].pc \in {"sweep", "resume"}
    BY <1>1, <2>5, <2>6
  <2>12. RunsMove
    <3> HIDE DEF k
    <3> QED BY <2>1, <2>2, <2>11, RunEnds
  <2> QED BY <1>1, <1>3, <2>10, <2>12, Same DEF Moves
<1>5. CASE ~(work[r] = "awaiting" /\ OpenChild(r))
  <2>1. UNCHANGED runs /\ Goto(c, "resume")
    BY <1>5 DEF SweepCancelled
  <2>2. /\ thread' \in [Procs -> Locals] /\ \A q \in Procs \ {c} : thread'[q] = thread[q]
        /\ thread'[c].pc = "resume" /\ thread'[c].on = thread[c].on
        /\ thread'[c].yes = thread[c].yes /\ thread'[c].stack = thread[c].stack
    BY <1>1, <2>1, GotoIs DEF Pcs
  <2>3. Placed(c)' /\ ~Starting(c)' /\ thread'[c].pc \notin Launching
    BY <1>2, <2>2 DEF Placed, Starting, Me, On, Telling, Launching
  <2>4. ASSUME NEW q \in Calls, work'[q] = "awaiting", Tells(c, q) PROVE Tells(c, q)'
    <3>1. q # r
      BY <1>3, <2>4
    <3>2. \/ On(c) = ChildOf[q]
          \/ \E i \in 1 .. Len(Me(c).stack) : Me(c).stack[i] = ChildOf[q]
      BY <1>2, <2>4, <3>1, TellsByPlace
    <3> QED BY <2>2, <3>2 DEF Tells, Me, On
  <2>5. ThreadMoves(c)
    BY <1>2, <2>2, <2>3, <2>4, TellsNotNurses DEF ThreadMoves, TellsOn
  <2> QED BY <1>1, <1>3, <2>1, <2>5, RunsQuiet, Same DEF Moves
<1> QED BY <1>4, <1>5

\* The reaper finalizes and goes on to the parent.
LEMMA ReapMoves == ASSUME FamInv, NEW p \in Reapers, NEW r \in Runs, Reap(p, r) PROVE Moves
<1> DEFINE v == Verdict(r)
           l == Local("resume", r, v = "succeeded")
<1>1. /\ Me(p).pc = "idle" /\ p \in Procs /\ runs[r] = "running" /\ Closed(r)
      /\ runs' = [runs EXCEPT ![r] = v] /\ thread' = [thread EXCEPT ![p] = l]
      /\ UNCHANGED <<work, trigger, used, faults>>
  BY DEF Reap, Procs, Become
<1>2. ~Ended(r)
  BY <1>1 DEF Ended, IsTerminalStatus, TerminalStatuses
<1>3. /\ v \in {"succeeded", "failed"} /\ (v = "succeeded" => work[r] \in {"succeeded", "skipped"})
  BY <1>1, <1>2, VerdictFits
<1> HIDE DEF v
<1>4. /\ l \in Locals /\ l.pc = "resume" /\ l.on = r /\ l.stack = <<>> /\ (l.yes => v = "succeeded")
  <2>1. l \in Locals /\ l.pc = "resume" /\ l.on = r /\ l.stack = <<>>
    BY DEF Local, Locals, Pcs
  <2>2. l.yes => v = "succeeded"
    BY DEF Local
  <2> QED BY <2>1, <2>2
<1> HIDE DEF l
<1>5. /\ thread' \in [Procs -> Locals] /\ thread'[p] = l
      /\ \A q \in Procs \ {p} : thread'[q] = thread[q]
      /\ TellsOn(p)
  BY <1>1, <1>4, FromQuiet DEF Telling
<1>6. runs'[r] = v
  BY <1>1 DEF FamInv, Typed
<1>7. Placed(p)' /\ ~Starting(p)' /\ thread'[p].pc \notin Launching
  BY <1>4, <1>5, <1>6 DEF Placed, Starting, Me, On, Telling, Launching
<1>8. ThreadMoves(p)
  BY <1>5, <1>7 DEF ThreadMoves
<1>9. \E q \in Procs : thread'[q].on = r /\ thread'[q].pc \in {"sweep", "resume"}
  BY <1>1, <1>4, <1>5
<1>10. RunsMove
  BY <1>1, <1>2, <1>3, <1>9, RunEnds
<1> QED BY <1>1, <1>8, <1>10, WorkQuiet, TriggerQuiet, Same DEF Moves

\* An abandoned child has no parked parent as long as nobody has died.
LEMMA AbandonMoves == ASSUME FamInv, NEW r \in Runs, Abandon(r) PROVE Moves
<1>1. /\ runs[r] = "running" /\ ~Closed(r) /\ ~Open(work[r]) /\ ~Attended(r)
      /\ runs' = [runs EXCEPT ![r] = "failed"] /\ UNCHANGED <<work, trigger, used, thread, faults>>
  BY DEF Abandon
<1>2. ~Ended(r)
  BY <1>1 DEF Ended, IsTerminalStatus, TerminalStatuses
<1>3. ASSUME faults.crash = 0, r \in Kids, NEW q \in Calls, ChildOf[q] = r, work[q] = "awaiting"
      PROVE  FALSE
  <2>1. ~IsTerminalStatus(work[r])
    BY <1>1, <1>3, Tree DEF Closed
  <2>2. work[r] = "absent"
    BY <1>1, <2>1 DEF FamInv, Typed, Recorded, JobStatuses, Open, IsTerminalStatus
  <2>3. Bare(q)
    BY <1>1, <1>3, <2>2 DEF Bare
  <2>4. PICK p \in Procs : Nurses(p, q)
    BY <1>3, <2>3 DEF FamInv, Watched
  <2>5. On(p) \in ParentsOf(r)
    BY <1>3, <2>4 DEF Nurses, ParentsOf
  <2> QED BY <1>1, <2>5 DEF Attended
<1>4. r \in Kids => \/ faults'.crash # 0
                    \/ \A q \in Calls : ChildOf[q] = r => work'[q] # "awaiting"
  BY <1>1, <1>3
<1>5. RunsMove
  BY <1>1, <1>2, <1>4, RunEnds
<1> QED BY <1>1, <1>5, WorkQuiet, TriggerQuiet, Same DEF Moves

\* A crash is remembered.
LEMMA CrashMoves == ASSUME FamInv, NEW p \in Procs, Crash(p) PROVE Moves
<1>1. /\ faults.crash < MaxCrashes /\ faults' = [faults EXCEPT !.crash = @ + 1]
      /\ thread' = [thread EXCEPT ![p] = Idle] /\ UNCHANGED <<runs, work, trigger, used>>
  BY DEF Crash, Become
<1>2. faults' \in [crash : 0 .. MaxCrashes, store : 0 .. MaxStoreErrors] /\ faults'.crash # 0
  BY <1>1, FamilyAssumption, Same
<1>3. ThreadMoves(p)
  BY <1>1, <1>2, GoIdle
<1> QED BY <1>1, <1>2, <1>3, RunsQuiet, WorkQuiet, TriggerQuiet DEF Moves

\* Every step moves as described.
LEMMA NextMoves == FamInv /\ [Next]_vars => Moves
<1> SUFFICES ASSUME FamInv, [Next]_vars PROVE Moves
  OBVIOUS
<1>1. CASE UNCHANGED vars
  BY <1>1, RunsQuiet, WorkQuiet, TriggerQuiet, Same DEF vars, Moves
<1>2. ASSUME NEW s \in Submitters, Submit(s) \/ SubmitStep(s) \/ RecordFails(s) PROVE Moves
  BY <1>2, SubmitMoves, ReserveMoves, RecordMoves, PersistSeedsMoves, RecordFailsMoves DEF SubmitStep
<1>3. ASSUME NEW p \in Promoters, PromoteStep(p) PROVE Moves
  BY <1>3, FindPendingMoves, MarkMoves, StartPendingMoves DEF PromoteStep
<1>4. ASSUME NEW p \in Submitters \cup Promoters, DispatchRoots(p) \/ RootsFail(p) PROVE Moves
  BY <1>4, DispatchRootsMoves, RootsFailMoves DEF Procs
<1>5. ASSUME NEW w \in Workers,
             (\E r \in Runs : Claim(w, r) \/ RunTrigger(w, r)) \/ WorkStep(w) \/ SubmitChildFails(w)
      PROVE  Moves
  BY <1>5, ClaimMoves, RunTriggerMoves, ExecuteMoves, SubmitChildMoves, EnqueueChildMoves, ChildRootsMoves,
     FailParkedMoves, SubmitChildFailsMoves DEF WorkStep
<1>6. ASSUME NEW p \in Workers \cup Cancellers \cup Reapers, EndStep(p) PROVE Moves
  BY <1>6, AdvanceMoves, ResumeMoves DEF EndStep, Procs
<1>7. ASSUME NEW c \in Cancellers, (\E r \in Runs : Cancel(c, r)) \/ SweepCancelled(c) PROVE Moves
  BY <1>7, CancelMoves, SweepMoves
<1>8. ASSUME NEW p \in Reapers, NEW r \in Runs, Reap(p, r) PROVE Moves
  BY <1>8, ReapMoves
<1>9. ASSUME NEW r \in Runs, Abandon(r) PROVE Moves
  BY <1>9, AbandonMoves
<1>10. ASSUME NEW p \in Procs, Crash(p) PROVE Moves
  BY <1>10, CrashMoves
<1> QED BY <1>1, <1>2, <1>3, <1>4, <1>5, <1>6, <1>7, <1>8, <1>9, <1>10 DEF Next

\* The invariant holds at the start.
LEMMA FamInit == Init => FamInv
<1> SUFFICES ASSUME Init PROVE FamInv
  OBVIOUS
<1>1. \A p \in Procs : thread[p] = Idle
  BY DEF Init
<1>2. \A p \in Procs : thread[p].pc = "idle" /\ thread[p].stack = <<>>
  BY <1>1, IdleIs
<1>3. \A r \in Runs : runs[r] = "absent" /\ work[r] = "absent" /\ trigger[r] = "absent"
  BY DEF Init
<1>4. Typed
  BY IdleIs, FamilyAssumption DEF Init, Typed, Recorded
<1>5. \A p \in Procs : Placed(p) /\ ~Starting(p) /\ Me(p).pc \notin Launching
  BY <1>2 DEF Placed, Starting, Me, Telling, Launching
<1>6. Untouched
  BY <1>3, Tree DEF Untouched
<1>7. Started /\ Launched
  BY <1>3, <1>5, Tree DEF Started, Launched
<1>8. Outcome
  BY <1>3, Tree DEF Outcome, ChildOutcomeCounts
<1>9. Watched
  BY <1>3, Tree DEF Watched
<1> QED BY <1>4, <1>5, <1>6, <1>7, <1>8, <1>9 DEF FamInv

\* The invariant holds always.
LEMMA FamAlways == Spec => []FamInv
<1>1. FamInv /\ [Next]_vars => FamInv'
  BY NextMoves, MovesKeep
<1> QED BY <1>1, FamInit, PTL DEF Spec

-----------------------------------------------------------------------------

(***************************************************************************)
(* A run is started by one goroutine, its submission or one promoter, and  *)
(* only while it has no step to run (promote.go, MarkGraphRunningCapped    *)
(* and dispatchRoots).                                                     *)
(***************************************************************************)
THEOREM StartedOnce == Spec => []OneStarter
<1>1. FamInv => OneStarter
  BY DEF FamInv, Started, OneStarter
<1> QED BY <1>1, FamAlways, PTL

(***************************************************************************)
(* A subgraph step succeeds only on the success of its child, and a run    *)
(* with a failed step does not succeed, whoever tells the parent and       *)
(* however late (subgraph.go, maybeResumeParent; dispatch.go).             *)
(***************************************************************************)
THEOREM OutcomePassedUp == Spec => []ChildOutcomeCounts
<1>1. FamInv => ChildOutcomeCounts
  BY DEF FamInv, Outcome
<1> QED BY <1>1, FamAlways, PTL

(***************************************************************************)
(* While no process has died, a parked subgraph step has a child that      *)
(* still runs, or somebody is about to start the child or to tell the      *)
(* parent of its end (cancel.go, subgraph.go).                             *)
(***************************************************************************)
THEOREM NoParkedStepForgotten == Spec => []ParkedIsAttended
<1>1. ASSUME FamInv PROVE ParkedIsAttended
  <2> SUFFICES ASSUME faults.crash = 0, NEW r \in Calls, work[r] = "awaiting", ~OpenChild(r)
               PROVE  \E p \in Procs :
                        \/ On(p) = r /\ Me(p).pc \in {"submitChild", "enqueueChild", "childRoots", "refused", "sweep"}
                        \/ On(p) = ChildOf[r] /\ Me(p).pc \in {"sweep", "resume"}
                        \/ \E i \in DOMAIN Me(p).stack : Me(p).stack[i] = ChildOf[r]
    BY DEF ParkedIsAttended
  <2>1. PICK p \in Procs : Tells(p, r)
    BY <1>1 DEF FamInv, Watched
  <2>2. Me(p).stack \in Seq(Runs)
    BY <1>1, Same DEF Me, Locals
  <2>3. DOMAIN Me(p).stack = 1 .. Len(Me(p).stack)
    BY <2>2
  <2> QED BY <2>1, <2>3 DEF Tells
<1> QED BY <1>1, FamAlways, PTL

-----------------------------------------------------------------------------
(* The charges and the running runs.                                       *)

Existing == {r \in Tops : runs[r] # "absent"}
Reserving == {s \in Submitters : Me(s).pc = "record"}

\* The month is charged for at least the runs that exist or are about to, and
\* for no more while nobody has died between the charge and the record.
Charges ==
    /\ used \in Nat /\ used <= Quota
    /\ used >= Cardinality(Existing) + Cardinality(Reserving)
    /\ faults.crash = 0 => used = Cardinality(Existing) + Cardinality(Reserving)

\* No submitted run appears or comes to run.
Kept == \A r \in Tops : /\ runs'[r] = "absent" <=> runs[r] = "absent"
                        /\ runs'[r] = "running" => runs[r] = "running"

\* Nobody comes to the record or leaves it.
Held == \A p \in Procs : thread'[p].pc = "record" <=> thread[p].pc = "record"

Calm == UNCHANGED used /\ Kept /\ Held

\* A run that exists, or a child, takes a status.
LEMMA KeptOne ==
  ASSUME FamInv, NEW r \in Runs, NEW st, runs' = [runs EXCEPT ![r] = st], st # "absent",
         r \in Kids \/ (runs[r] # "absent" /\ st # "running")
  PROVE  Kept
<1>1. runs'[r] = st /\ \A q \in Runs \ {r} : runs'[q] = runs[q]
  BY DEF FamInv, Typed
<1> QED BY <1>1, Tree DEF Kept

\* A submitted run that exists may fail.
LEMMA KeptFinished ==
  ASSUME FamInv, NEW r \in Tops, runs[r] # "absent", runs' = Finished(r, "failed")
  PROVE  Kept
<1>1. CASE Ended(r)
  BY <1>1 DEF Finished, Kept
<1>2. CASE ~Ended(r)
  BY <1>2, KeptOne, Tree DEF Finished
<1> QED BY <1>1, <1>2

\* A goroutine goes from a place that is not the record to another.
LEMMA HeldOne ==
  ASSUME FamInv, NEW p \in Procs, NEW l, thread' = [thread EXCEPT ![p] = l],
         Me(p).pc # "record", l.pc # "record"
  PROVE  Held
<1>1. thread'[p] = l /\ \A q \in Procs \ {p} : thread'[q] = thread[q]
  BY Same
<1> QED BY <1>1 DEF Held, Me

\* The same of Goto.
LEMMA HeldGoto ==
  ASSUME FamInv, NEW p \in Procs, NEW pc \in Pcs \ {"record"}, Goto(p, pc), Me(p).pc # "record"
  PROVE  Held
<1>1. thread'[p].pc = pc /\ \A q \in Procs \ {p} : thread'[q] = thread[q]
  BY GotoIs
<1> QED BY <1>1 DEF Held, Me

\* The same of Return.
LEMMA HeldReturn ==
  ASSUME FamInv, NEW p \in Procs, Return(p), Me(p).pc # "record"
  PROVE  Held
<1>1. CASE Me(p).stack = <<>>
  BY <1>1, HeldOne, IdleIs DEF Return, Become
<1>2. CASE Me(p).stack # <<>>
  <2> DEFINE l == [Me(p) EXCEPT !.pc = "resume", !.yes = FALSE,
                                !.on = Head(Me(p).stack), !.stack = Tail(Me(p).stack)]
  <2>1. thread' = [thread EXCEPT ![p] = l]
    BY <1>2 DEF Return, Become
  <2>2. Me(p) \in Locals
    BY Same DEF Me
  <2>3. l.pc = "resume"
    BY <2>2 DEF Locals
  <2> HIDE DEF l
  <2> QED BY <2>1, <2>3, HeldOne
<1> QED BY <1>1, <1>2

\* A step of a submission that has its record, or has none to write.
LEMMA SubmissionCalm ==
  ASSUME FamInv, NEW p \in Procs, Submit(p) \/ PersistSeeds(p) \/ DispatchRoots(p) \/ RootsFail(p)
  PROVE  Calm
<1>1. CASE Submit(p)
  <2> DEFINE l == Local("reserve", 0, Cardinality(Running) < Limit)
  <2>1. l.pc # "record" /\ thread' = [thread EXCEPT ![p] = l] /\ Me(p).pc # "record"
    BY <1>1 DEF Submit, Become, Local
  <2> HIDE DEF l
  <2>2. Held
    BY <2>1, HeldOne
  <2> QED BY <1>1, <2>2 DEF Submit, Calm, Kept
<1>2. CASE PersistSeeds(p)
  <2>1. Me(p).pc = "seeds" /\ UNCHANGED used /\ On(p) \in Tops /\ runs[On(p)] # "absent"
    BY <1>2 DEF PersistSeeds, FamInv, Placed
  <2>2. Kept
    BY <1>2, <2>1, KeptFinished DEF PersistSeeds, Kept
  <2> DEFINE l == IF Me(p).yes THEN Local("roots", On(p), TRUE) ELSE Idle
  <2>3. thread' = [thread EXCEPT ![p] = l] /\ l.pc # "record"
    BY <1>2 DEF PersistSeeds, Become, Local, Idle
  <2> HIDE DEF l
  <2>4. Held
    BY <2>1, <2>3, HeldOne
  <2> QED BY <2>1, <2>2, <2>4 DEF Calm
<1>3. CASE DispatchRoots(p) \/ RootsFail(p)
  <2>1. Me(p).pc = "roots" /\ UNCHANGED used /\ On(p) \in Tops /\ runs[On(p)] # "absent" /\ Become(p, Idle)
    BY <1>3 DEF DispatchRoots, RootsFail, FamInv, Placed
  <2>2. UNCHANGED runs \/ runs' = Finished(On(p), "failed")
    BY <1>3 DEF DispatchRoots, RootsFail
  <2>3. Kept
    BY <2>1, <2>2, KeptFinished DEF Kept
  <2>4. Held
    BY <2>1, IdleIs, HeldOne DEF Become
  <2> QED BY <2>1, <2>3, <2>4 DEF Calm
<1> QED BY <1>1, <1>2, <1>3

\* A promoter looks for a run and reads its seeds.
LEMMA PromotionCalm ==
  ASSUME FamInv, NEW p \in Procs, FindPending(p) \/ StartPendingRun(p)
  PROVE  Calm
<1>1. Kept /\ UNCHANGED used /\ Me(p).pc # "record"
  BY DEF FindPending, StartPendingRun, Kept
<1>2. \E l : thread' = [thread EXCEPT ![p] = l] /\ l.pc # "record"
  <2>1. CASE FindPending(p)
    <3>1. PICK r \in Tops : thread' = [thread EXCEPT ![p] = Local("mark", r, FALSE)]
      BY <2>1 DEF FindPending, Become
    <3>2. Local("mark", r, FALSE).pc # "record"
      BY DEF Local
    <3> QED BY <3>1, <3>2
  <2>2. CASE StartPendingRun(p)
    <3> DEFINE l == Local("roots", On(p), trigger[On(p)] = "succeeded")
    <3>1. thread' = [thread EXCEPT ![p] = l]
      BY <2>2 DEF StartPendingRun, Become
    <3>2. l.pc # "record"
      BY DEF Local
    <3> QED BY <3>1, <3>2
  <2> QED BY <2>1, <2>2
<1>3. Held
  BY <1>1, <1>2, HeldOne
<1> QED BY <1>1, <1>3 DEF Calm

\* A worker's steps.
LEMMA WorkerCalm ==
  ASSUME FamInv, NEW w \in Procs, NEW r \in Runs,
         Claim(w, r) \/ RunTrigger(w, r) \/ WorkStep(w) \/ SubmitChildFails(w)
  PROVE  Calm
<1>1. CASE Claim(w, r) \/ RunTrigger(w, r) \/ Execute(w) \/ ChildRoots(w)
  <2>1. Kept /\ UNCHANGED used /\ Me(w).pc # "record"
    BY <1>1 DEF Claim, RunTrigger, Execute, ChildRoots, Kept
  <2>2. /\ Idle.pc # "record" /\ Local("exec", r, FALSE).pc # "record" /\ Local("advance", r, FALSE).pc # "record"
        /\ Local("submitChild", On(w), FALSE).pc # "record" /\ Local("advance", On(w), FALSE).pc # "record"
    BY DEF Idle, Local
  <2>3. UNCHANGED thread \/ \E l : thread' = [thread EXCEPT ![w] = l] /\ l.pc # "record"
    <3>1. CASE Claim(w, r)
      BY <2>2, <3>1 DEF Claim, Become
    <3>2. CASE RunTrigger(w, r)
      BY <2>2, <3>2 DEF RunTrigger, Become
    <3>3. CASE Execute(w)
      BY <2>2, <3>3 DEF Execute, Become
    <3>4. CASE ChildRoots(w)
      BY <2>2, <3>4 DEF ChildRoots, Become
    <3> QED BY <1>1, <3>1, <3>2, <3>3, <3>4
  <2>4. Held
    BY <2>1, <2>3, HeldOne DEF Held
  <2> QED BY <2>1, <2>4 DEF Calm
<1>2. CASE SubmitChild(w) \/ FailParked(w) \/ SubmitChildFails(w)
  <2>1. Kept /\ UNCHANGED used /\ Me(w).pc # "record"
    BY <1>2 DEF SubmitChild, FailParked, SubmitChildFails, Kept
  <2>2. PICK pc \in {"refused", "enqueueChild", "advance"} : Goto(w, pc)
    BY <1>2 DEF SubmitChild, FailParked, SubmitChildFails
  <2>3. Held
    BY <2>1, <2>2, HeldGoto DEF Pcs
  <2> QED BY <2>1, <2>3 DEF Calm
<1>3. CASE EnqueueChild(w)
  <2>1. /\ Me(w).pc = "enqueueChild" /\ UNCHANGED used /\ Goto(w, "childRoots")
        /\ runs' = [runs EXCEPT ![ChildOf[On(w)]] = "running"]
    BY <1>3 DEF EnqueueChild
  <2>2. ChildOf[On(w)] \in Kids /\ ChildOf[On(w)] \in Runs
    BY <2>1, AtLaunch DEF Launching
  <2>3. Kept
    BY <2>1, <2>2, KeptOne
  <2>4. Held
    BY <2>1, HeldGoto DEF Pcs
  <2> QED BY <2>1, <2>3, <2>4 DEF Calm
<1> QED BY <1>1, <1>2, <1>3 DEF WorkStep

\* A run whose steps are closed exists.
LEMMA ClosedExists == ASSUME FamInv, NEW r \in Runs, Closed(r) PROVE runs[r] # "absent"
<1>1. ASSUME runs[r] = "absent" PROVE work[r] = "absent" /\ trigger[r] = "absent"
  BY <1>1 DEF FamInv, Untouched, Fresh
<1> QED BY <1>1 DEF Closed, IsTerminalStatus, TerminalStatuses

\* Ends, cancels and reaps: of runs that exist, or of children.
LEMMA EndCalm ==
  ASSUME FamInv, NEW p \in Procs, NEW r \in Runs,
         EndStep(p) \/ Cancel(p, r) \/ SweepCancelled(p) \/ Reap(p, r)
  PROVE  Calm
<1>0. Me(p) \in Locals
  BY Same DEF Me
<1>1. CASE Advance(p)
  <2>1. Me(p).pc = "advance" /\ UNCHANGED used /\ On(p) \in Runs
    BY <1>1 DEF Advance, FamInv, Placed, Telling
  <2>2. CASE ~Ended(On(p)) /\ Closed(On(p))
    <3> DEFINE l == [Me(p) EXCEPT !.pc = "resume", !.yes = Verdict(On(p)) = "succeeded"]
    <3>1. runs' = [runs EXCEPT ![On(p)] = Verdict(On(p))] /\ thread' = [thread EXCEPT ![p] = l]
      BY <1>1, <2>2 DEF Advance, Become
    <3>2. runs[On(p)] # "absent" /\ Verdict(On(p)) \in {"succeeded", "failed"}
      BY <2>1, <2>2, ClosedExists DEF Verdict
    <3>3. Kept
      BY <2>1, <3>1, <3>2, KeptOne
    <3>4. l.pc = "resume"
      BY <1>0 DEF Locals
    <3> HIDE DEF l
    <3> QED BY <2>1, <3>1, <3>3, <3>4, HeldOne DEF Calm
  <2>3. CASE ~(~Ended(On(p)) /\ Closed(On(p)))
    BY <1>1, <2>1, <2>3, HeldReturn DEF Advance, Calm, Kept
  <2> QED BY <2>2, <2>3
<1>2. CASE MaybeResumeParent(p)
  <2>1. Me(p).pc = "resume" /\ UNCHANGED used /\ Kept
    BY <1>2 DEF MaybeResumeParent, Kept
  <2>2. ASSUME NEW q, Become(p, [Me(p) EXCEPT !.pc = "advance", !.on = q]) PROVE Held
    <3> DEFINE l == [Me(p) EXCEPT !.pc = "advance", !.on = q]
    <3>1. thread' = [thread EXCEPT ![p] = l]
      BY <2>2 DEF Become
    <3>2. l.pc = "advance"
      BY <1>0 DEF Locals
    <3> HIDE DEF l
    <3> QED BY <2>1, <3>1, <3>2, HeldOne
  <2>3. CASE Return(p)
    BY <2>1, <2>3, HeldReturn DEF Calm
  <2> QED BY <1>2, <2>1, <2>2, <2>3 DEF MaybeResumeParent, Calm
<1>3. CASE Cancel(p, r)
  <2>1. /\ Me(p).pc = "idle" /\ UNCHANGED used /\ runs[r] # "absent" /\ runs' = [runs EXCEPT ![r] = "cancelled"]
        /\ thread' = [thread EXCEPT ![p] = Local("sweep", r, FALSE)]
    BY <1>3 DEF Cancel, Become
  <2>2. Local("sweep", r, FALSE).pc # "record"
    BY DEF Local
  <2> QED BY <2>1, <2>2, KeptOne, HeldOne DEF Calm
<1>4. CASE SweepCancelled(p)
  <2>1. Me(p).pc = "sweep" /\ UNCHANGED used
    BY <1>4 DEF SweepCancelled
  <2>2. CASE work[On(p)] = "awaiting" /\ OpenChild(On(p))
    <3> DEFINE k == ChildOf[On(p)]
               l == [Me(p) EXCEPT !.on = k, !.stack = <<On(p)>> \o @]
    <3>1. runs' = [runs EXCEPT ![k] = "cancelled"] /\ thread' = [thread EXCEPT ![p] = l]
      BY <1>4, <2>2 DEF SweepCancelled, Become
    <3>2. k \in Kids /\ k \in Runs
      BY <2>2, Tree DEF OpenChild
    <3>3. Kept
      BY <3>1, <3>2, KeptOne
    <3>4. l.pc = "sweep"
      BY <1>0, <2>1 DEF Locals
    <3> HIDE DEF l
    <3> QED BY <2>1, <3>1, <3>3, <3>4, HeldOne DEF Calm
  <2>3. CASE ~(work[On(p)] = "awaiting" /\ OpenChild(On(p)))
    <3>1. UNCHANGED runs /\ Goto(p, "resume")
      BY <1>4, <2>3 DEF SweepCancelled
    <3> QED BY <2>1, <3>1, HeldGoto DEF Calm, Kept, Pcs
  <2> QED BY <2>2, <2>3
<1>5. CASE Reap(p, r)
  <2>1. /\ Me(p).pc = "idle" /\ UNCHANGED used /\ runs[r] = "running" /\ runs' = [runs EXCEPT ![r] = Verdict(r)]
        /\ thread' = [thread EXCEPT ![p] = Local("resume", r, Verdict(r) = "succeeded")]
    BY <1>5 DEF Reap, Become
  <2>2. Verdict(r) \in {"succeeded", "failed"}
    BY DEF Verdict
  <2>3. Kept
    BY <2>1, <2>2, KeptOne
  <2>4. Local("resume", r, Verdict(r) = "succeeded").pc # "record"
    BY DEF Local
  <2>5. Held
    BY <2>1, <2>4, HeldOne
  <2> QED BY <2>1, <2>3, <2>5 DEF Calm
<1> QED BY <1>1, <1>2, <1>3, <1>4, <1>5 DEF EndStep

\* A promoter that marks a run leaves the charges alone.
LEMMA MarkHolds ==
  ASSUME FamInv, NEW p \in Procs, MarkGraphRunningCapped(p)
  PROVE  /\ UNCHANGED <<used, faults>> /\ Held
         /\ \A r \in Tops : runs'[r] = "absent" <=> runs[r] = "absent"
         /\ \/ Kept
            \/ /\ Cardinality(Running) < Limit
               /\ \A r \in Runs \ {On(p)} : runs'[r] = runs[r]
<1>1. Me(p).pc = "mark" /\ UNCHANGED <<used, faults>> /\ On(p) \in Tops /\ On(p) \in Runs
  BY Tree DEF MarkGraphRunningCapped, FamInv, Placed
<1>2. CASE /\ Cardinality(Running) < Limit /\ runs[On(p)] = "queued"
           /\ runs' = [runs EXCEPT ![On(p)] = "running"] /\ Goto(p, "readSeeds")
  <2>1. runs'[On(p)] = "running" /\ \A r \in Runs \ {On(p)} : runs'[r] = runs[r]
    BY <1>1, <1>2 DEF FamInv, Typed
  <2>2. Held
    BY <1>1, <1>2, HeldGoto DEF Pcs
  <2> QED BY <1>1, <1>2, <2>1, <2>2, Tree
<1>3. CASE UNCHANGED runs /\ Become(p, Idle)
  <2>1. Held
    BY <1>1, <1>3, HeldOne, IdleIs DEF Become
  <2> QED BY <1>1, <1>3, <2>1 DEF Kept
<1> QED BY <1>2, <1>3 DEF MarkGraphRunningCapped

\* Who may change the charges, or let a submitted run come to run.
LEMMA ChargingSteps ==
  ASSUME FamInv, [Next]_vars
  PROVE  \/ Calm
         \/ \E s \in Submitters : Reserve(s) \/ Record(s) \/ RecordFails(s)
         \/ \E p \in Promoters : MarkGraphRunningCapped(p)
         \/ \E p \in Procs : Crash(p)
<1>0. Submitters \cup Promoters \cup Workers \cup Cancellers \cup Reapers = Procs
  BY DEF Procs
<1>1. CASE UNCHANGED vars
  BY <1>1 DEF vars, Calm, Kept, Held
<1>2. ASSUME NEW s \in Submitters, Submit(s) \/ SubmitStep(s) PROVE Calm \/ Reserve(s) \/ Record(s)
  BY <1>0, <1>2, SubmissionCalm DEF SubmitStep
<1>3. ASSUME NEW p \in Promoters, PromoteStep(p) PROVE Calm \/ MarkGraphRunningCapped(p)
  BY <1>0, <1>3, PromotionCalm DEF PromoteStep
<1>4. ASSUME NEW p \in Submitters \cup Promoters, DispatchRoots(p) \/ RootsFail(p) PROVE Calm
  BY <1>0, <1>4, SubmissionCalm
<1>5. ASSUME NEW w \in Workers,
             (\E r \in Runs : Claim(w, r) \/ RunTrigger(w, r)) \/ WorkStep(w) \/ SubmitChildFails(w)
      PROVE  Calm
  <2>1. CASE \E r \in Runs : Claim(w, r) \/ RunTrigger(w, r)
    BY <1>0, <2>1, WorkerCalm
  <2>2. CASE WorkStep(w) \/ SubmitChildFails(w)
    <3>1. \E r : r \in Runs
      <4>1. CASE Me(w).pc \in Launching
        BY <1>0, <4>1, AtLaunch
      <4>2. CASE Me(w).pc \notin Launching
        <5>1. Me(w).pc \in {"exec", "refused"}
          BY <2>2, <4>2 DEF WorkStep, Execute, SubmitChild, EnqueueChild, ChildRoots, FailParked,
                            SubmitChildFails, Launching
        <5> QED BY <1>0, <5>1 DEF FamInv, Placed
      <4> QED BY <4>1, <4>2
    <3> QED BY <1>0, <2>2, <3>1, WorkerCalm
  <2> QED BY <1>5, <2>1, <2>2
<1>6. ASSUME NEW p \in Procs, EndStep(p) \/ SweepCancelled(p) PROVE Calm
  <2>1. On(p) \in Runs
    BY <1>6 DEF EndStep, Advance, MaybeResumeParent, SweepCancelled, FamInv, Placed, Telling
  <2> QED BY <1>6, <2>1, EndCalm
<1>7. ASSUME NEW p \in Procs, NEW r \in Runs, Cancel(p, r) \/ Reap(p, r) PROVE Calm
  BY <1>7, EndCalm
<1>8. ASSUME NEW r \in Runs, Abandon(r) PROVE Calm
  <2>1. UNCHANGED <<used, thread>> /\ runs[r] = "running" /\ runs' = [runs EXCEPT ![r] = "failed"]
    BY <1>8 DEF Abandon
  <2> QED BY <2>1, KeptOne DEF Calm, Held
<1> QED
  <2>1. CASE \E p \in Workers \cup Cancellers \cup Reapers : EndStep(p)
    BY <1>0, <1>6, <2>1
  <2>2. CASE \E c \in Cancellers : (\E r \in Runs : Cancel(c, r)) \/ SweepCancelled(c)
    BY <1>0, <1>6, <1>7, <2>2
  <2>3. CASE \E p \in Reapers : \E r \in Runs : Reap(p, r)
    BY <1>0, <1>7, <2>3
  <2> QED BY <1>1, <1>2, <1>3, <1>4, <1>5, <1>8, <2>1, <2>2, <2>3 DEF Next

\* The sets that are counted are finite.
LEMMA Counts ==
  /\ IsFiniteSet(Existing) /\ Cardinality(Existing) \in Nat
  /\ IsFiniteSet(Reserving) /\ Cardinality(Reserving) \in Nat
<1>1. Tops \in SUBSET Runs /\ Existing \in SUBSET Runs /\ Reserving \in SUBSET Submitters
  BY DEF Runs, Existing, Reserving
<1>2. IsFiniteSet(Existing) /\ IsFiniteSet(Reserving)
  BY <1>1, FamilyAssumption, FS_Subset
<1> QED BY <1>2, FS_CardinalityType

\* Nothing that counts changes.
LEMMA ChargesStay ==
  ASSUME Charges, UNCHANGED used, Existing' = Existing, Reserving' = Reserving,
         faults.crash # 0 => faults'.crash # 0
  PROVE  Charges'
  BY DEF Charges

\* Steps that leave the runs' existence and the record alone.
LEMMA SameSets ==
  ASSUME Held, \A r \in Tops : runs'[r] = "absent" <=> runs[r] = "absent"
  PROVE  Existing' = Existing /\ Reserving' = Reserving
<1>1. \A s \in Submitters : s \in Procs
  BY DEF Procs
<1> QED BY <1>1 DEF Held, Existing, Reserving, Me

\* A charge comes before its run, and goes with it or back.
LEMMA ChargesStep == ASSUME FamInv, Charges, [Next]_vars PROVE Charges'
<1>0. /\ IsFiniteSet(Existing) /\ Cardinality(Existing) \in Nat
      /\ IsFiniteSet(Reserving) /\ Cardinality(Reserving) \in Nat
      /\ used \in Nat /\ Quota \in Nat
      /\ faults.crash # 0 => faults'.crash # 0
  BY Counts, FamilyAssumption, NextMoves DEF Charges, Moves
<1>1. CASE Calm
  BY <1>0, <1>1, SameSets, ChargesStay DEF Calm, Kept
<1>2. ASSUME NEW p \in Promoters, MarkGraphRunningCapped(p) PROVE Charges'
  <2>1. p \in Procs
    BY DEF Procs
  <2> QED BY <1>0, <1>2, <2>1, MarkHolds, SameSets, ChargesStay
<1>3. ASSUME NEW s \in Submitters, Reserve(s) PROVE Charges'
  <2>1. s \in Procs /\ Me(s).pc = "reserve" /\ UNCHANGED <<runs, faults>> /\ s \notin Reserving
    BY <1>3 DEF Reserve, Procs, Reserving
  <2>2. CASE used < Quota /\ used' = used + 1 /\ Goto(s, "record")
    <3>1. thread'[s].pc = "record" /\ \A q \in Procs \ {s} : thread'[q] = thread[q]
      BY <2>1, <2>2, GotoIs DEF Pcs
    <3>2. Reserving' = Reserving \cup {s} /\ Existing' = Existing
      BY <2>1, <3>1 DEF Reserving, Existing, Me, Procs
    <3>3. Cardinality(Reserving \cup {s}) = Cardinality(Reserving) + 1
      BY <1>0, <2>1, FS_AddElement
    <3>4. Cardinality(Reserving') = Cardinality(Reserving) + 1 /\ Cardinality(Existing') = Cardinality(Existing)
      BY <3>2, <3>3
    <3> QED BY <1>0, <2>1, <2>2, <3>4 DEF Charges
  <2>3. CASE UNCHANGED used /\ Become(s, Idle)
    <3>1. Held
      BY <2>1, <2>3, HeldOne, IdleIs DEF Become
    <3> QED BY <1>0, <2>1, <2>3, <3>1, SameSets, ChargesStay
  <2> QED BY <1>3, <2>2, <2>3 DEF Reserve
<1>4. ASSUME NEW s \in Submitters, Record(s) PROVE Charges'
  <2>1. s \in Procs /\ Me(s).pc = "record" /\ UNCHANGED <<used, faults>> /\ s \in Reserving
    BY <1>4 DEF Record, Procs, Reserving
  <2>2. PICK r \in Unsubmitted :
          /\ runs' = [runs EXCEPT ![r] = IF Me(s).yes THEN "running" ELSE "queued"]
          /\ thread' = [thread EXCEPT ![s] = Local("seeds", r, Me(s).yes)]
    BY <1>4 DEF Record, Become
  <2>3. r \in Tops /\ r \in Runs /\ runs[r] = "absent" /\ r \notin Existing
    BY Tree DEF Unsubmitted, Existing
  <2>4. runs'[r] # "absent" /\ \A q \in Runs \ {r} : runs'[q] = runs[q]
    BY <2>2, <2>3 DEF FamInv, Typed
  <2>5. Local("seeds", r, Me(s).yes).pc = "seeds"
    BY DEF Local
  <2>6. thread'[s].pc = "seeds" /\ \A q \in Procs \ {s} : thread'[q] = thread[q]
    BY <2>1, <2>2, <2>5, Same
  <2>7. Existing' = Existing \cup {r}
    BY <2>3, <2>4, Tree DEF Existing
  <2>8. Reserving' = Reserving \ {s}
    BY <2>6 DEF Reserving, Me, Procs
  <2>9. Cardinality(Existing \cup {r}) = Cardinality(Existing) + 1
    BY <1>0, <2>3, FS_AddElement
  <2>10. Cardinality(Reserving \ {s}) = Cardinality(Reserving) - 1
    BY <1>0, <2>1, FS_RemoveElement
  <2>11. /\ Cardinality(Existing') = Cardinality(Existing) + 1
         /\ Cardinality(Reserving') = Cardinality(Reserving) - 1
    BY <2>7, <2>8, <2>9, <2>10
  <2> QED BY <1>0, <2>1, <2>11 DEF Charges
<1>5. ASSUME NEW s \in Submitters, RecordFails(s) PROVE Charges'
  <2>1. /\ s \in Procs /\ Me(s).pc = "record" /\ UNCHANGED runs /\ used' = used - 1 /\ s \in Reserving
        /\ faults' = [faults EXCEPT !.store = @ + 1] /\ thread' = [thread EXCEPT ![s] = Idle]
    BY <1>5 DEF RecordFails, Procs, Reserving, Become
  <2>2. thread'[s].pc = "idle" /\ \A q \in Procs \ {s} : thread'[q] = thread[q]
    BY <2>1, Same, IdleIs
  <2>3. Reserving' = Reserving \ {s} /\ Existing' = Existing
    BY <2>1, <2>2 DEF Reserving, Existing, Me, Procs
  <2>4. Cardinality(Reserving \ {s}) = Cardinality(Reserving) - 1 /\ IsFiniteSet(Reserving \ {s})
    BY <1>0, <2>1, FS_RemoveElement
  <2>5. Cardinality(Reserving \ {s}) \in Nat
    BY <2>4, FS_CardinalityType
  <2>6. /\ Cardinality(Reserving') = Cardinality(Reserving) - 1 /\ Cardinality(Reserving') \in Nat
        /\ Cardinality(Existing') = Cardinality(Existing)
    BY <2>3, <2>4, <2>5
  <2>7. faults'.crash = faults.crash
    BY <2>1, Same
  <2> QED BY <1>0, <2>1, <2>6, <2>7 DEF Charges
<1>6. ASSUME NEW p \in Procs, Crash(p) PROVE Charges'
  <2>1. /\ UNCHANGED <<runs, used>> /\ faults.crash < MaxCrashes /\ faults' = [faults EXCEPT !.crash = @ + 1]
        /\ thread' = [thread EXCEPT ![p] = Idle]
    BY <1>6 DEF Crash, Become
  <2>2. thread'[p].pc = "idle" /\ \A q \in Procs \ {p} : thread'[q] = thread[q]
    BY <2>1, Same, IdleIs
  <2>3. Reserving' \in SUBSET Reserving /\ Existing' = Existing
    BY <2>1, <2>2 DEF Reserving, Existing, Me, Procs
  <2>4. Cardinality(Reserving') <= Cardinality(Reserving) /\ IsFiniteSet(Reserving')
    BY <1>0, <2>3, FS_Subset
  <2>5. Cardinality(Reserving') \in Nat /\ Cardinality(Existing') = Cardinality(Existing)
    BY <2>3, <2>4, FS_CardinalityType
  <2>6. faults'.crash # 0
    BY <2>1, FamilyAssumption, Same
  <2> QED BY <1>0, <2>1, <2>4, <2>5, <2>6 DEF Charges
<1> QED BY <1>1, <1>2, <1>3, <1>4, <1>5, <1>6, ChargingSteps

\* The charges add up always.
LEMMA ChargesAlways == Spec => []Charges
<1>1. Init => Charges
  <2> SUFFICES ASSUME Init PROVE Charges
    OBVIOUS
  <2>1. Existing = {} /\ Reserving = {} /\ used = 0
    BY Tree, IdleIs DEF Init, Existing, Reserving, Me, Procs
  <2>2. Cardinality({}) = 0
    BY FS_EmptySet
  <2> QED BY <2>1, <2>2, FamilyAssumption DEF Charges
<1>2. FamInv /\ Charges /\ [Next]_vars => Charges'
  BY ChargesStep
<1> QED BY <1>1, <1>2, FamAlways, PTL DEF Spec

(***************************************************************************)
(* Without crashes the month is charged for exactly the runs that exist or *)
(* are about to (seed.go, reserveRun and releaseRun).                      *)
(***************************************************************************)
THEOREM ChargedForWhatExists == Spec => []ChargedOnce
<1>1. Charges => ChargedOnce
  BY DEF Charges, ChargedOnce, Existing, Reserving
<1> QED BY <1>1, ChargesAlways, PTL

(***************************************************************************)
(* The state is well formed; with crashes and failed enqueues included the *)
(* charge never exceeds the quota and is never given back below zero.      *)
(***************************************************************************)
THEOREM FamilyTypeCorrect == Spec => []TypeOK
<1>1. FamInv /\ Charges => TypeOK
  BY FamilyAssumption DEF FamInv, Typed, Charges, TypeOK, Locals
<1> QED BY <1>1, FamAlways, ChargesAlways, PTL

-----------------------------------------------------------------------------
(* The concurrency limit.                                                  *)

\* Only the record of an admitted submission takes the tenant past its limit.
LEMMA OvershootStep ==
  ASSUME FamInv, [Next]_vars,
         Cardinality(Running \cap Tops) < Cardinality(Running' \cap Tops),
         Cardinality(Running' \cap Tops) > Limit
  PROVE  \E s \in Submitters : Record(s) /\ Me(s).yes
<1> DEFINE A == Running \cap Tops
           B == Running' \cap Tops
<1>1. /\ Running \in SUBSET Runs /\ Running' \in SUBSET Runs /\ A \in SUBSET Runs /\ B \in SUBSET Runs
      /\ IsFiniteSet(Runs)
  BY FamilyAssumption DEF Running
<1>2. /\ IsFiniteSet(Running) /\ IsFiniteSet(A) /\ IsFiniteSet(B)
      /\ Cardinality(Running) \in Nat /\ Cardinality(A) \in Nat /\ Cardinality(B) \in Nat
  <2>1. IsFiniteSet(Running) /\ IsFiniteSet(A) /\ IsFiniteSet(B)
    BY <1>1, FS_Subset
  <2> QED BY <2>1, FS_CardinalityType
<1>3. Limit \in Nat
  BY FamilyAssumption
<1>4. ASSUME B \in SUBSET A PROVE FALSE
  <2>1. Cardinality(B) <= Cardinality(A)
    BY <1>2, <1>4, FS_Subset
  <2> QED BY <1>2, <2>1
<1>5. ASSUME Kept PROVE FALSE
  <2>1. B \in SUBSET A
    BY <1>5, Tree DEF Kept, Running
  <2> QED BY <1>4, <2>1
<1>6. ASSUME NEW p \in Promoters, MarkGraphRunningCapped(p) PROVE FALSE
  <2>1. Kept \/ (Cardinality(Running) < Limit /\ \A r \in Runs \ {On(p)} : runs'[r] = runs[r])
    BY <1>6, MarkHolds DEF Procs
  <2>2. ASSUME Cardinality(Running) < Limit, \A r \in Runs \ {On(p)} : runs'[r] = runs[r] PROVE FALSE
    <3> DEFINE C == Running \cup {On(p)}
    <3>1. B \in SUBSET C
      BY <2>2 DEF Running
    <3>2. IsFiniteSet(C) /\ Cardinality(C) <= Cardinality(Running) + 1
      <4>1. /\ IsFiniteSet(C)
            /\ Cardinality(C) = IF On(p) \in Running THEN Cardinality(Running) ELSE Cardinality(Running) + 1
        BY <1>2, FS_AddElement
      <4> HIDE DEF C
      <4> QED BY <1>2, <4>1
    <3>3. Cardinality(C) \in Nat /\ Cardinality(B) <= Cardinality(C)
      <4> HIDE DEF B, C
      <4> QED BY <3>1, <3>2, FS_Subset, FS_CardinalityType
    <3> HIDE DEF C
    <3> QED BY <1>2, <1>3, <2>2, <3>2, <3>3
  <2> QED BY <1>5, <2>1, <2>2
<1>7. ASSUME UNCHANGED runs PROVE FALSE
  BY <1>5, <1>7 DEF Kept
<1>8. ASSUME NEW s \in Submitters, Record(s), ~Me(s).yes PROVE FALSE
  <2>1. PICK r \in Unsubmitted : runs' = [runs EXCEPT ![r] = "queued"]
    BY <1>8 DEF Record
  <2>2. \A q \in Runs : runs'[q] = "running" => runs[q] = "running"
    BY <2>1 DEF FamInv, Typed
  <2>3. B \in SUBSET A
    BY <2>2 DEF Running
  <2> QED BY <1>4, <2>3
<1>9. ASSUME NEW s \in Submitters, Reserve(s) \/ RecordFails(s) PROVE FALSE
  BY <1>7, <1>9 DEF Reserve, RecordFails
<1>10. ASSUME NEW p \in Procs, Crash(p) PROVE FALSE
  BY <1>7, <1>10 DEF Crash
<1> QED BY <1>5, <1>6, <1>8, <1>9, <1>10, ChargingSteps DEF Calm

(***************************************************************************)
(* A step that takes the tenant past its limit records a submission that   *)
(* was admitted when there was room; no promotion does (promote.go,        *)
(* MarkGraphRunningCapped; seed.go, admitGraphRun).                        *)
(***************************************************************************)
THEOREM NoPromotionPastLimit == Spec => OvershootIsStaleAdmission
<1>1. FamInv /\ [Next]_vars =>
        [(Cardinality(Running \cap Tops) < Cardinality(Running' \cap Tops)
            /\ Cardinality(Running' \cap Tops) > Limit) =>
          \E s \in Submitters : Record(s) /\ Me(s).yes]_vars
  BY OvershootStep
<1> QED BY <1>1, FamAlways, PTL DEF Spec, OvershootIsStaleAdmission
================================================================================
