------------------------------ MODULE EventBus ------------------------------
(***************************************************************************)
(* The event bus between replicas (daemon/eventbus_pg.go over              *)
(* eventbus.go): publishers buffer their events and write them to a table  *)
(* in batches, every row announced with NOTIFY; the listener of a replica  *)
(* reads the rows of the runs its subscribers watch and fans them out.     *)
(* Row ids are drawn before the transaction commits, so rows become        *)
(* visible, and are announced, in another order than their ids.  One       *)
(* listening replica is modelled, with one subscriber to each run; the     *)
(* publishers are the writers of all replicas.                             *)
(***************************************************************************)
EXTENDS Naturals, Sequences, FiniteSets, FiniteSetsExt, SequencesExt

CONSTANTS
    Pubs,         \* the replicas that publish
    Jobs,         \* the runs events are about
    Window,       \* pgBusReScanWindow
    MaxBatch,     \* pgBusMaxBatch
    MaxPending,   \* pgBusMaxPending
    ChanCap,      \* the buffer of a subscriber's channel
    MaxEvents, MaxSubs, MaxFaults

ASSUME BusAssumption ==
    /\ Window \in Nat \ {0} /\ MaxBatch \in Nat \ {0} /\ MaxPending \in Nat \ {0}
    /\ ChanCap \in Nat \ {0} /\ MaxEvents \in Nat /\ MaxSubs \in Nat /\ MaxFaults \in Nat

VARIABLES
    events,     \* what was published, in order: [job, pub]
    pending,    \* each publisher's buffer
    flight,     \* the ids each publisher's open transaction has drawn
    row,        \* the event of each id drawn, in id order
    visible,    \* the ids that are committed
    notices,    \* the notifications the listener has still to read, in commit order
    listener,   \* [pc, lastSeen, seen]
    sub,        \* the subscriber of each run: [on, since, unread, got]
    subs,       \* subscriptions so far
    excused,    \* the ids the bus may lose: overtaken or behind a failed read
    dropped,    \* the events a full buffer, a failed write or a full channel lost
    faults

vars == <<events, pending, flight, row, visible, notices, listener, sub, subs, excused, dropped, faults>>

Ids == 1 .. MaxEvents
NoSub == [on |-> FALSE, since |-> 0, unread |-> 0, got |-> <<>>]

TypeOK ==
    /\ events \in Seq([job : Jobs, pub : Pubs]) /\ Len(events) <= MaxEvents
    /\ pending \in [Pubs -> Seq(Ids)] /\ \A p \in Pubs : Len(pending[p]) <= MaxPending
    /\ flight \in [Pubs -> SUBSET Ids]
    /\ row \in Seq(Ids) /\ visible \subseteq Ids /\ notices \in Seq(Ids)
    /\ listener \in [pc : {"off", "drain", "wait"}, lastSeen : 0 .. MaxEvents, seen : SUBSET Ids]
    /\ sub \in [Jobs -> [on : BOOLEAN, since : 0 .. MaxEvents, unread : 0 .. ChanCap, got : Seq(Ids)]]
    /\ subs \in 0 .. MaxSubs
    /\ excused \subseteq Ids /\ dropped \subseteq Ids
    /\ faults \in 0 .. MaxFaults

Init ==
    /\ events = <<>> /\ row = <<>> /\ visible = {} /\ notices = <<>>
    /\ pending = [p \in Pubs |-> <<>>]
    /\ flight = [p \in Pubs |-> {}]
    /\ listener = [pc |-> "off", lastSeen |-> 0, seen |-> {}]
    /\ sub = [j \in Jobs |-> NoSub]
    /\ subs = 0 /\ excused = {} /\ dropped = {} /\ faults = 0

JobOf(i) == events[row[i]].job

\* The ids of S, the lowest first.
InIdOrder(S) ==
    [n \in 1 .. Cardinality(S) |-> CHOOSE i \in S : Cardinality({k \in S : k <= i}) = n]

-----------------------------------------------------------------------------
(* Publishing.                                                             *)

\* Publish never blocks: a full buffer loses its oldest event.
Publish(p, j) ==
    /\ Len(events) < MaxEvents
    /\ events' = Append(events, [job |-> j, pub |-> p])
    /\ LET full == Len(pending[p]) >= MaxPending
           kept == IF full THEN Tail(pending[p]) ELSE pending[p]
       IN  /\ pending' = [pending EXCEPT ![p] = Append(kept, Len(events'))]
           /\ dropped' = IF full THEN dropped \cup {Head(pending[p])} ELSE dropped
    /\ UNCHANGED <<flight, row, visible, notices, listener, sub, subs, excused, faults>>

\* Mutant of Flush: the batch is taken from the newest end of the buffer.
FlushNewestFirst(p) ==
    /\ flight[p] = {} /\ pending[p] # <<>>
    /\ row' = Append(row, Last(pending[p]))
    /\ flight' = [flight EXCEPT ![p] = {Len(row) + 1}]
    /\ pending' = [pending EXCEPT ![p] = Front(@)]
    /\ UNCHANGED <<events, visible, notices, listener, sub, subs, excused, dropped, faults>>

\* flush up to the insert: the batch leaves the buffer and its rows draw ids.
Flush(p) ==
    /\ flight[p] = {} /\ pending[p] # <<>>
    /\ LET n == Min({Len(pending[p]), MaxBatch}) IN
       /\ row' = row \o SubSeq(pending[p], 1, n)
       /\ flight' = [flight EXCEPT ![p] = Len(row) + 1 .. Len(row) + n]
       /\ pending' = [pending EXCEPT ![p] = SubSeq(@, n + 1, Len(@))]
    /\ UNCHANGED <<events, visible, notices, listener, sub, subs, excused, dropped, faults>>

\* The transaction commits: its rows appear and are announced together.  An id
\* that a visible one lies Window above of is out of the re-scan's reach.
Commit(p) ==
    /\ flight[p] # {}
    /\ visible' = visible \cup flight[p]
    /\ notices' = IF listener.pc = "off" THEN notices
                  ELSE notices \o InIdOrder(flight[p])
    /\ excused' = excused \cup {i \in flight[p] : \E k \in visible : k >= i + Window}
    /\ flight' = [flight EXCEPT ![p] = {}]
    /\ UNCHANGED <<events, pending, row, listener, sub, subs, dropped, faults>>

\* The insert fails: logged, and the batch is gone.
WriteFails(p) ==
    /\ flight[p] # {} /\ faults < MaxFaults
    /\ flight' = [flight EXCEPT ![p] = {}]
    /\ dropped' = dropped \cup {row[i] : i \in flight[p]}
    /\ faults' = faults + 1
    /\ UNCHANGED <<events, pending, row, visible, notices, listener, sub, subs, excused>>

-----------------------------------------------------------------------------
(* Subscribing.                                                            *)

Subscribe(j) ==
    /\ ~sub[j].on /\ subs < MaxSubs
    /\ sub' = [sub EXCEPT ![j] = [NoSub EXCEPT !.on = TRUE, !.since = Len(events)]]
    /\ subs' = subs + 1
    /\ UNCHANGED <<events, pending, flight, row, visible, notices, listener, excused, dropped, faults>>

Unsubscribe(j) ==
    /\ sub[j].on
    /\ sub' = [sub EXCEPT ![j] = NoSub]
    /\ UNCHANGED <<events, pending, flight, row, visible, notices, listener, subs, excused, dropped, faults>>

\* The reader takes an event off its channel.
Read(j) ==
    /\ sub[j].unread > 0
    /\ sub' = [sub EXCEPT ![j].unread = @ - 1]
    /\ UNCHANGED <<events, pending, flight, row, visible, notices, listener, subs, excused, dropped, faults>>

-----------------------------------------------------------------------------
(* The listener.                                                           *)

Listen ==
    /\ listener.pc = "off"
    /\ listener' = [listener EXCEPT !.pc = "drain"]
    /\ notices' = <<>>
    /\ UNCHANGED <<events, pending, flight, row, visible, sub, subs, excused, dropped, faults>>

\* The connection breaks; what it had been told and not read is gone.
Disconnect ==
    /\ listener.pc = "wait" /\ faults < MaxFaults
    /\ listener' = [listener EXCEPT !.pc = "off"]
    /\ notices' = <<>>
    /\ faults' = faults + 1
    /\ UNCHANGED <<events, pending, flight, row, visible, sub, subs, excused, dropped>>

\* Mutant of Pruned: the ids of the window's edge are forgotten too early.
PrunedTooFar(seen, last) == {i \in seen : i + Window > last + 1}

\* The ids at or below lastSeen - pgBusReScanWindow are forgotten.
Pruned(seen, last) == {i \in seen : i + Window > last}

\* A notice about a run nobody here watches: skipTo.
Skip ==
    /\ listener.pc = "wait" /\ notices # <<>> /\ ~sub[JobOf(Head(notices))].on
    /\ LET i == Head(notices)
           last == Max({i, listener.lastSeen})
           seen == listener.seen \cup {i}
       IN  listener' = [listener EXCEPT !.lastSeen = last,
                                        !.seen = IF i <= listener.lastSeen THEN seen ELSE Pruned(seen, last)]
    /\ notices' = Tail(notices)
    /\ UNCHANGED <<events, pending, flight, row, visible, sub, subs, excused, dropped, faults>>

Notice ==
    /\ listener.pc = "wait" /\ notices # <<>> /\ sub[JobOf(Head(notices))].on
    /\ listener' = [listener EXCEPT !.pc = "drain"]
    /\ notices' = Tail(notices)
    /\ UNCHANGED <<events, pending, flight, row, visible, sub, subs, excused, dropped, faults>>

Watching == {j \in Jobs : sub[j].on}

\* Mutant of Unseen: only what lies above the newest id read.
UnseenAbove == {i \in visible : /\ i > listener.lastSeen
                                /\ JobOf(i) \in Watching /\ i \notin listener.seen}

\* What drainNew's query returns and has not been fanned out before.
Unseen == {i \in visible : /\ i + Window > listener.lastSeen
                           /\ JobOf(i) \in Watching /\ i \notin listener.seen}

\* The new rows of a run, in id order; a full channel takes no more of them.
News(j) == InIdOrder({i \in Unseen : JobOf(i) = j})
Room(j) == Min({Len(News(j)), ChanCap - sub[j].unread})

\* drainNew, fanout included.  Nobody watching: nothing is read.
DrainNew ==
    /\ listener.pc = "drain"
    /\ LET last == Max(Unseen \cup {listener.lastSeen}) IN
       listener' = [pc |-> "wait",
                    lastSeen |-> last,
                    seen |-> IF Watching = {} THEN listener.seen
                             ELSE Pruned(listener.seen \cup Unseen, last)]
    /\ sub' = [j \in Jobs |->
                 [sub[j] EXCEPT !.unread = @ + Room(j),
                                !.got = @ \o [n \in 1 .. Room(j) |-> row[News(j)[n]]]]]
    /\ dropped' = dropped \cup UNION {{row[News(j)[n]] : n \in Room(j) + 1 .. Len(News(j))} : j \in Jobs}
    /\ UNCHANGED <<events, pending, flight, row, visible, notices, subs, excused, faults>>

\* The query fails: logged, and the next notice is waited for.
DrainFails ==
    /\ listener.pc = "drain" /\ faults < MaxFaults
    /\ listener' = [listener EXCEPT !.pc = "wait"]
    /\ excused' = excused \cup Unseen
    /\ faults' = faults + 1
    /\ UNCHANGED <<events, pending, flight, row, visible, notices, sub, subs, dropped>>

Next ==
    \/ \E p \in Pubs : Flush(p) \/ Commit(p) \/ WriteFails(p) \/ \E j \in Jobs : Publish(p, j)
    \/ \E j \in Jobs : Subscribe(j) \/ Unsubscribe(j) \/ Read(j)
    \/ Listen \/ Disconnect \/ Skip \/ Notice \/ DrainNew \/ DrainFails

Spec == Init /\ [][Next]_vars

-----------------------------------------------------------------------------
(* What the bus promises.                                                  *)

\* NewPgBus "The seen set is what makes the re-scan idempotent": however rows
\* overtake one another and connections break, a subscriber hears of no event
\* twice.
NoDuplicate ==
    \A j \in Jobs : \A m, n \in DOMAIN sub[j].got : sub[j].got[m] = sub[j].got[n] => m = n

\* A publisher's events about a run reach a subscriber in the order in which they
\* were published, a terminal event last.
PublisherOrder ==
    \A j \in Jobs : \A m, n \in DOMAIN sub[j].got :
        m < n /\ events[sub[j].got[m]].pub = events[sub[j].got[n]].pub
            => sub[j].got[m] < sub[j].got[n]

\* pgBusReScanWindow "the re-scan is what stops that being a dropped event": once
\* the listener has read its notices, a subscriber has been sent every event that
\* is visible and was published since it subscribed, unless the event was
\* overtaken by the whole window, a read failed or a channel was full.
NothingMissed ==
    listener.pc = "wait" /\ notices = <<>> =>
        \A i \in visible \ excused : \A j \in Watching :
            JobOf(i) = j /\ row[i] > sub[j].since =>
                row[i] \in dropped \/ row[i] \in Range(sub[j].got)
=============================================================================
