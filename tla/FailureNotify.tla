---------------------------- MODULE FailureNotify ----------------------------
(***************************************************************************)
(* Telling people that a run failed (daemon/failure_notify.go): every      *)
(* replica sweeps the finished runs, claims a batch in the job store       *)
(* (ClaimUnnotified), sends to the channels of the flow one after the      *)
(* other, and releases the claim of a run it could not tell about.  The    *)
(* claim is durable; the ledger of what went out is in each process.  All  *)
(* runs are runs of one flow, and time is counted in mail windows.         *)
(***************************************************************************)
EXTENDS Naturals, Sequences, FiniteSets, FiniteSetsExt

CONSTANTS
    Replicas,
    Runs, NoRun,
    Mails,        \* the addresses that are mailed, in order
    Hook,         \* the webhook channel
    MaxAttempts,  \* notifyMaxAttempts
    Batch,        \* notifySweepBatch
    Lookback,     \* NotifySweepLookback, in windows
    MaxWindow, MaxFaults

Addresses == {Mails[i] : i \in DOMAIN Mails}
Channels == Addresses \cup {Hook}

ASSUME NotifyAssumption ==
    /\ NoRun \notin Runs
    /\ Mails \in Seq(Addresses) /\ Mails # <<>> /\ Hook \notin Addresses
    /\ MaxAttempts \in Nat \ {0} /\ Batch \in Nat \ {0} /\ Lookback \in Nat
    /\ MaxWindow \in Nat \ {0} /\ MaxFaults \in Nat

VARIABLES
    now,
    job,        \* the run records, as far as the sweep reads them
    rep,        \* the replicas
    got,        \* how often each channel was reached about each run
    tried,      \* the process lives that claimed each run
    told,       \* the runs notifyOneRun was done with
    throttled,  \* the runs no mail was sent for, the window being taken
    lost,       \* the runs whose claim nobody will release
    faults

vars == <<now, job, rep, got, tried, told, throttled, lost, faults>>

(***************************************************************************)
(* batch, cur, step: the sweep's loop; step i is the i-th send, the last   *)
(* one the webhook, Len(Mails) + 2 the release of the claim.  holder, sent *)
(* are failureMailLedger's.  life numbers the processes of a replica.      *)
(***************************************************************************)
HookStep == Len(Mails) + 1
ReleaseStep == Len(Mails) + 2
Fresh(life) == [life |-> life, batch |-> {}, cur |-> NoRun, step |-> 0,
                holder |-> [window |-> 0, run |-> NoRun], sent |-> [j \in Runs |-> {}]]

TypeOK ==
    /\ now \in 1 .. MaxWindow
    /\ job \in [Runs -> [end : {"none", "failed", "stopped"}, at : 0 .. MaxWindow,
                         claimed : BOOLEAN, attempts : 0 .. MaxAttempts]]
    /\ rep \in [Replicas -> [life : 0 .. MaxFaults, batch : SUBSET Runs, cur : Runs \cup {NoRun},
                             step : 0 .. ReleaseStep,
                             holder : [window : 0 .. MaxWindow, run : Runs \cup {NoRun}],
                             sent : [Runs -> SUBSET Channels]]]
    /\ got \in [Runs -> [Channels -> 0 .. MaxAttempts]]
    /\ tried \in [Runs -> SUBSET (Replicas \X (0 .. MaxFaults))]
    /\ told \subseteq Runs /\ throttled \subseteq Runs /\ lost \subseteq Runs
    /\ faults \in 0 .. MaxFaults

Init ==
    /\ now = 1
    /\ job = [j \in Runs |-> [end |-> "none", at |-> 0, claimed |-> FALSE, attempts |-> 0]]
    /\ rep = [r \in Replicas |-> Fresh(0)]
    /\ got = [j \in Runs |-> [c \in Channels |-> 0]]
    /\ tried = [j \in Runs |-> {}]
    /\ told = {} /\ throttled = {} /\ lost = {}
    /\ faults = 0

-----------------------------------------------------------------------------
(* The runs and the clock.                                                 *)

\* A run fails, or a person cancels it (or its parent), which nobody is told of.
Finish(j) ==
    /\ job[j].end = "none"
    /\ \E end \in {"failed", "stopped"} : job' = [job EXCEPT ![j].end = end, ![j].at = now]
    /\ UNCHANGED <<now, rep, got, tried, told, throttled, lost, faults>>

Tick ==
    /\ now < MaxWindow
    /\ now' = now + 1
    /\ UNCHANGED <<job, rep, got, tried, told, throttled, lost, faults>>

-----------------------------------------------------------------------------
(* The claim.                                                              *)

\* Mutant of Due: a claimed run is handed out again.
DueClaimed == {j \in Runs : /\ job[j].end # "none"
                            /\ job[j].attempts < MaxAttempts
                            /\ job[j].at + Lookback >= now}

Due == {j \in Runs : /\ job[j].end # "none"
                     /\ ~job[j].claimed /\ job[j].attempts < MaxAttempts
                     /\ job[j].at + Lookback >= now}

\* The oldest finishes first, at most Batch of them.
Oldest(S) == /\ S \subseteq Due /\ Cardinality(S) = Min({Batch, Cardinality(Due)})
             /\ \A j \in S, k \in Due \ S : job[j].at <= job[k].at

ClaimUnnotified(r) ==
    /\ rep[r].cur = NoRun /\ rep[r].batch = {} /\ Due # {}
    /\ \E S \in SUBSET Due :
         /\ Oldest(S)
         /\ job' = [j \in Runs |-> IF j \in S THEN [job[j] EXCEPT !.claimed = TRUE, !.attempts = @ + 1]
                                             ELSE job[j]]
         /\ rep' = [rep EXCEPT ![r].batch = S]
         /\ tried' = [j \in Runs |-> IF j \in S THEN tried[j] \cup {<<r, rep[r].life>>} ELSE tried[j]]
    /\ UNCHANGED <<now, got, told, throttled, lost, faults>>

-----------------------------------------------------------------------------
(* One run of the batch.                                                   *)

\* notifyOneRun on a run that is nobody's business: done, and it stays claimed.
PassOver(r, j) ==
    /\ rep[r].cur = NoRun /\ j \in rep[r].batch
    /\ job[j].end = "stopped"
    /\ rep' = [rep EXCEPT ![r].batch = @ \ {j}]
    /\ told' = told \cup {j}
    /\ UNCHANGED <<now, job, got, tried, throttled, lost, faults>>

\* admit: the window is free, stale, or this run's own.
Admits(r, j) == rep[r].holder.run \in {NoRun, j} \/ rep[r].holder.window # now

Admit(r, j) ==
    /\ rep[r].cur = NoRun /\ j \in rep[r].batch
    /\ job[j].end = "failed" /\ Admits(r, j)
    /\ rep' = [rep EXCEPT ![r].batch = @ \ {j}, ![r].cur = j, ![r].step = 1,
                          ![r].holder = [window |-> now, run |-> j]]
    /\ UNCHANGED <<now, job, got, tried, told, throttled, lost, faults>>

\* Throttled: only the webhook is left.
Throttle(r, j) ==
    /\ rep[r].cur = NoRun /\ j \in rep[r].batch
    /\ job[j].end = "failed" /\ ~Admits(r, j)
    /\ rep' = [rep EXCEPT ![r].batch = @ \ {j}, ![r].cur = j, ![r].step = HookStep]
    /\ throttled' = throttled \cup {j}
    /\ UNCHANGED <<now, job, got, tried, told, lost, faults>>

Delivered(r, c) == c \in rep[r].sent[rep[r].cur]

\* Mutant of AlreadyMailed: the ledger is not asked.
MailsAgain(r) == FALSE

\* mail: an address that was reached about this run before is skipped.
AlreadyMailed(r) == Delivered(r, Mails[rep[r].step])

Mail(r) ==
    /\ rep[r].step \in DOMAIN Mails
    /\ LET c == Mails[rep[r].step] IN
       /\ rep' = [rep EXCEPT ![r].step = @ + 1, ![r].sent[rep[r].cur] = @ \cup {c}]
       /\ got' = IF AlreadyMailed(r) THEN got ELSE [got EXCEPT ![rep[r].cur][c] = @ + 1]
    /\ UNCHANGED <<now, job, tried, told, throttled, lost, faults>>

\* Mutant of Released: a mail that never went out keeps the window.
HolderKept(r) == rep[r].holder

\* release: the window is given back if nobody was mailed about the run.
Released(r) ==
    IF rep[r].sent[rep[r].cur] \cap Addresses = {} THEN [window |-> 0, run |-> NoRun]
    ELSE rep[r].holder

MailFails(r) ==
    /\ rep[r].step \in DOMAIN Mails /\ ~AlreadyMailed(r)
    /\ rep' = [rep EXCEPT ![r].step = ReleaseStep, ![r].holder = Released(r)]
    /\ UNCHANGED <<now, job, got, tried, told, throttled, lost, faults>>

\* The last channel: answered (a 4xx counts as an answer), and the run is done.
PostHook(r) ==
    /\ rep[r].step = HookStep
    /\ got' = IF Delivered(r, Hook) THEN got ELSE [got EXCEPT ![rep[r].cur][Hook] = @ + 1]
    /\ rep' = [rep EXCEPT ![r].sent[rep[r].cur] = @ \cup {Hook}, ![r].cur = NoRun, ![r].step = 0]
    /\ told' = told \cup {rep[r].cur}
    /\ UNCHANGED <<now, job, tried, throttled, lost, faults>>

\* Mutant of HookFails: the error is logged and the run taken for told.
HookFailsQuietly(r) ==
    /\ rep[r].step = HookStep /\ ~Delivered(r, Hook)
    /\ rep' = [rep EXCEPT ![r].cur = NoRun, ![r].step = 0]
    /\ told' = told \cup {rep[r].cur}
    /\ UNCHANGED <<now, job, got, tried, throttled, lost, faults>>

\* No answer, or a 5xx.
HookFails(r) ==
    /\ rep[r].step = HookStep /\ ~Delivered(r, Hook)
    /\ rep' = [rep EXCEPT ![r].step = ReleaseStep]
    /\ UNCHANGED <<now, job, got, tried, told, throttled, lost, faults>>

\* Mutant of ReleaseNotifyClaim: the claim is kept.
ReleaseForgotten(r) ==
    /\ rep[r].step = ReleaseStep
    /\ rep' = [rep EXCEPT ![r].cur = NoRun, ![r].step = 0]
    /\ UNCHANGED <<now, job, got, tried, told, throttled, lost, faults>>

ReleaseNotifyClaim(r) ==
    /\ rep[r].step = ReleaseStep
    /\ job' = [job EXCEPT ![rep[r].cur].claimed = FALSE]
    /\ rep' = [rep EXCEPT ![r].cur = NoRun, ![r].step = 0]
    /\ UNCHANGED <<now, got, tried, told, throttled, lost, faults>>

\* The store refuses the release: logged, and the run stays claimed.
ReleaseFails(r) ==
    /\ rep[r].step = ReleaseStep /\ faults < MaxFaults
    /\ rep' = [rep EXCEPT ![r].cur = NoRun, ![r].step = 0]
    /\ lost' = lost \cup {rep[r].cur}
    /\ faults' = faults + 1
    /\ UNCHANGED <<now, job, got, tried, told, throttled>>

InHand(r) == rep[r].batch \cup ({rep[r].cur} \ {NoRun})

\* The process dies and another takes its place, with an empty ledger.
Crash(r) ==
    /\ faults < MaxFaults
    /\ faults' = faults + 1
    /\ rep' = [rep EXCEPT ![r] = Fresh(rep[r].life + 1)]
    /\ lost' = lost \cup InHand(r)
    /\ UNCHANGED <<now, job, got, tried, told, throttled>>

SweepStep(r) ==
    \/ ClaimUnnotified(r)
    \/ \E j \in Runs : PassOver(r, j) \/ Admit(r, j) \/ Throttle(r, j)
    \/ Mail(r) \/ MailFails(r) \/ PostHook(r) \/ HookFails(r) \/ ReleaseNotifyClaim(r)

Next ==
    \/ Tick
    \/ \E j \in Runs : Finish(j)
    \/ \E r \in Replicas : SweepStep(r) \/ ReleaseFails(r) \/ Crash(r)

Spec == Init /\ [][Next]_vars

\* The sweep runs on a ticker in every process.
FairSpec == Spec /\ \A r \in Replicas : WF_vars(SweepStep(r))

-----------------------------------------------------------------------------
(* What the sweep promises.                                                *)

\* ClaimUnnotified "so two replicas sweeping the same instant cannot both mail
\* about one run": over claims, releases and retries, a run is in the hands of
\* at most one replica, and its record says so.
OneTeller ==
    \A r, q \in Replicas : \A j \in InHand(r) :
        job[j].claimed /\ (q # r => j \notin InHand(q))

\* failureMailLedger "so a retry after a partial failure redoes only what failed
\* rather than mailing twice": a channel hears of a run at most once from each
\* process that tried.
OncePerProcess == \A j \in Runs : \A c \in Channels : got[j][c] <= Cardinality(tried[j])

\* release "so the next failure is not throttled behind a mail that never went
\* out": no run is throttled unless this process has mailed somebody about the
\* run that holds the window.
ThrottledBehindMail ==
    [][\A j \in Runs : \A r \in Replicas :
          rep'[r].cur = j /\ rep[r].cur = NoRun /\ rep'[r].step = HookStep =>
              rep[r].sent[rep[r].holder.run] \cap Addresses # {}]_vars

\* A failed run that the sweep is done with was heard of on the webhook, and by
\* every address unless a throttle held its mail back, whichever replicas made
\* the attempts.
ToldMeansHeard ==
    \A j \in told : job[j].end = "failed" =>
        /\ got[j][Hook] > 0
        /\ j \in throttled \/ \A c \in Addresses : got[j][c] > 0

\* notifyMaxAttempts bounds the attempts, and nothing else ends them: a failed run
\* is told of or has used up its attempts, unless it grew older than the lookback
\* or its claim was lost with a process or a failed release.
EveryFailureSettles ==
    \A j \in Runs :
        (job[j].end = "failed") ~>
            (j \in told \cup lost \/ job[j].attempts = MaxAttempts \/ job[j].at + Lookback < now)

\* priorWindowFailures "the sweep's claim still keeps each run to one notification
\* fleet-wide": no channel hears of a run twice.
OnceFleetwide == \A j \in Runs : \A c \in Channels : got[j][c] <= 1
==============================================================================
