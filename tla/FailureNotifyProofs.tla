------------------------- MODULE FailureNotifyProofs -------------------------
(***************************************************************************)
(* The promises of the failure sweep, for any number of replicas, runs,    *)
(* addresses, attempts, crashes and failed releases.                       *)
(***************************************************************************)
EXTENDS FailureNotify, FiniteSetTheorems, TLAPS

-----------------------------------------------------------------------------
(* Types.  How often a channel is reached is bounded by the attempts, which *)
(* takes an argument of its own; here it is a number.                      *)

Process == [life : 0 .. MaxFaults, batch : SUBSET Runs, cur : Runs \cup {NoRun},
            step : 0 .. ReleaseStep,
            holder : [window : 0 .. MaxWindow, run : Runs \cup {NoRun}],
            sent : [Runs -> SUBSET Channels]]
RunRecord == [end : {"none", "failed", "stopped"}, at : 0 .. MaxWindow,
              claimed : BOOLEAN, attempts : 0 .. MaxAttempts]

\* The types, and a process is at a step exactly while it has a run in hand; a
\* new life costs a fault.
Typed ==
    /\ now \in 1 .. MaxWindow
    /\ job \in [Runs -> RunRecord]
    /\ rep \in [Replicas -> Process]
    /\ got \in [Runs -> [Channels -> Nat]]
    /\ tried \in [Runs -> SUBSET (Replicas \X (0 .. MaxFaults))]
    /\ told \subseteq Runs /\ throttled \subseteq Runs /\ lost \subseteq Runs
    /\ faults \in 0 .. MaxFaults
    /\ \A r \in Replicas : /\ rep[r].cur = NoRun <=> rep[r].step = 0
                           /\ rep[r].life <= faults

\* The mails are sent at steps 1 to Len(Mails), the webhook after them.
LEMMA Steps ==
  /\ Len(Mails) \in Nat /\ Len(Mails) > 0 /\ DOMAIN Mails = 1 .. Len(Mails)
  /\ HookStep = Len(Mails) + 1 /\ ReleaseStep = Len(Mails) + 2
  /\ \A i \in DOMAIN Mails : Mails[i] \in Addresses /\ Mails[i] \in Channels
  /\ Hook \in Channels /\ Addresses \subseteq Channels
<1>1. Mails \in Seq(Addresses) /\ Mails # <<>>
  BY NotifyAssumption
<1>2. Len(Mails) \in Nat /\ Len(Mails) > 0 /\ DOMAIN Mails = 1 .. Len(Mails)
  BY <1>1
<1> QED BY <1>1, <1>2 DEF HookStep, ReleaseStep, Channels, Addresses

\* The step numbers a process may be at.
LEMMA StepRange == HookStep \in 0 .. ReleaseStep /\ ReleaseStep \in 0 .. ReleaseStep
                   /\ 0 \in 0 .. ReleaseStep /\ HookStep # 0 /\ ReleaseStep # 0
  BY Steps

\* A process begins with nothing in hand.
LEMMA FreshType ==
  ASSUME NEW life \in 0 .. MaxFaults
  PROVE  /\ Fresh(life) \in Process
         /\ Fresh(life).life = life /\ Fresh(life).batch = {}
         /\ Fresh(life).cur = NoRun /\ Fresh(life).step = 0
         /\ Fresh(life).holder.run = NoRun
         /\ \A j \in Runs : Fresh(life).sent[j] = {}
  BY Steps, NotifyAssumption DEF Fresh, Process

\* The state Init leaves behind is well formed.
LEMMA TypedInit == Init => Typed
<1> SUFFICES ASSUME Init PROVE Typed
  OBVIOUS
<1> USE NotifyAssumption
<1>1. now \in 1 .. MaxWindow /\ faults \in 0 .. MaxFaults
  BY DEF Init
<1>2. job \in [Runs -> RunRecord]
  BY DEF Init, RunRecord
<1>3. rep \in [Replicas -> Process]
  BY FreshType DEF Init
<1>4. \A r \in Replicas : rep[r].cur = NoRun /\ rep[r].step = 0 /\ rep[r].life <= faults
  BY FreshType DEF Init
<1> QED BY <1>1, <1>2, <1>3, <1>4 DEF Init, Typed

-----------------------------------------------------------------------------
(* What each step makes of the process that takes it.                      *)

\* The other processes are left alone.
Alone(r) == /\ rep' \in [Replicas -> Process]
            /\ \A q \in Replicas \ {r} : rep'[q] = rep[q]
SameLedger(r) == /\ rep'[r].life = rep[r].life
                 /\ rep'[r].holder = rep[r].holder /\ rep'[r].sent = rep[r].sent
\* Done with the run in hand.
LetsGo(r) == rep'[r].cur = NoRun /\ rep'[r].step = 0 /\ rep'[r].batch = rep[r].batch

\* A claim takes unnotified runs nobody has claimed.
LEMMA ClaimEffect ==
  ASSUME Typed, NEW r \in Replicas, ClaimUnnotified(r)
  PROVE  /\ rep[r].batch = {} /\ rep[r].cur = NoRun
         /\ \E S \in SUBSET Due :
              /\ job' = [j \in Runs |-> IF j \in S THEN [job[j] EXCEPT !.claimed = TRUE, !.attempts = @ + 1]
                                                  ELSE job[j]]
              /\ tried' = [j \in Runs |-> IF j \in S THEN tried[j] \cup {<<r, rep[r].life>>} ELSE tried[j]]
              /\ rep'[r].batch = S
         /\ Alone(r) /\ SameLedger(r)
         /\ rep'[r].cur = NoRun /\ rep'[r].step = rep[r].step
         /\ UNCHANGED <<now, got, told, throttled, lost, faults>>
<1>1. PICK S \in SUBSET Due :
        /\ job' = [j \in Runs |-> IF j \in S THEN [job[j] EXCEPT !.claimed = TRUE, !.attempts = @ + 1]
                                            ELSE job[j]]
        /\ rep' = [rep EXCEPT ![r].batch = S]
        /\ tried' = [j \in Runs |-> IF j \in S THEN tried[j] \cup {<<r, rep[r].life>>} ELSE tried[j]]
  BY DEF ClaimUnnotified
<1>2. S \subseteq Runs
  BY DEF Due
<1>3. Alone(r) /\ SameLedger(r) /\ rep'[r].cur = rep[r].cur /\ rep'[r].step = rep[r].step
      /\ rep'[r].batch = S
  BY <1>1, <1>2 DEF Typed, Process, Alone, SameLedger
<1> QED BY <1>1, <1>3 DEF ClaimUnnotified

\* A stopped run leaves the batch without a mail.
LEMMA PassOverEffect ==
  ASSUME Typed, NEW r \in Replicas, NEW j \in Runs, PassOver(r, j)
  PROVE  /\ rep[r].cur = NoRun /\ j \in rep[r].batch /\ job[j].end = "stopped"
         /\ Alone(r) /\ SameLedger(r)
         /\ rep'[r].cur = NoRun /\ rep'[r].step = rep[r].step
         /\ rep'[r].batch = rep[r].batch \ {j} /\ told' = told \cup {j}
         /\ UNCHANGED <<now, job, got, tried, throttled, lost, faults>>
  BY DEF PassOver, Typed, Process, Alone, SameLedger

\* A failed run the window admits is taken in hand.
LEMMA AdmitEffect ==
  ASSUME Typed, NEW r \in Replicas, NEW j \in Runs, Admit(r, j)
  PROVE  /\ rep[r].cur = NoRun /\ j \in rep[r].batch /\ job[j].end = "failed"
         /\ Alone(r)
         /\ rep'[r].life = rep[r].life /\ rep'[r].sent = rep[r].sent
         /\ rep'[r].holder.run = j
         /\ rep'[r].cur = j /\ rep'[r].step = 1 /\ rep'[r].batch = rep[r].batch \ {j}
         /\ UNCHANGED <<now, job, got, tried, told, throttled, lost, faults>>
  BY Steps, NotifyAssumption DEF Admit, Typed, Process, Alone

\* A failed run the window holds back goes to the webhook only.
LEMMA ThrottleEffect ==
  ASSUME Typed, NEW r \in Replicas, NEW j \in Runs, Throttle(r, j)
  PROVE  /\ rep[r].cur = NoRun /\ j \in rep[r].batch /\ job[j].end = "failed"
         /\ rep[r].holder.run # NoRun
         /\ Alone(r) /\ SameLedger(r)
         /\ rep'[r].cur = j /\ rep'[r].step = HookStep /\ rep'[r].batch = rep[r].batch \ {j}
         /\ throttled' = throttled \cup {j}
         /\ UNCHANGED <<now, job, got, tried, told, lost, faults>>
  BY StepRange DEF Throttle, Admits, Typed, Process, Alone, SameLedger

\* A replica on a step of the telling has a run in hand.
LEMMA InHandStep ==
  ASSUME Typed, NEW r \in Replicas, rep[r].step # 0
  PROVE  rep[r].cur \in Runs
  BY DEF Typed, Process

\* A send that is answered: the ledger of the process notes it, and the channel
\* has heard once more unless it is in the ledger.
Sends(r, c) ==
    /\ rep'[r].sent = [rep[r].sent EXCEPT ![rep[r].cur] = @ \cup {c}]
    /\ got' = IF Delivered(r, c) THEN got ELSE [got EXCEPT ![rep[r].cur][c] = @ + 1]

\* A mail that is accepted moves the telling on to the next address.
LEMMA MailEffect ==
  ASSUME Typed, NEW r \in Replicas, Mail(r)
  PROVE  /\ rep[r].step \in DOMAIN Mails /\ rep[r].cur \in Runs
         /\ Alone(r) /\ Sends(r, Mails[rep[r].step])
         /\ rep'[r].life = rep[r].life /\ rep'[r].holder = rep[r].holder
         /\ rep'[r].cur = rep[r].cur /\ rep'[r].batch = rep[r].batch
         /\ rep'[r].step = rep[r].step + 1
         /\ UNCHANGED <<now, job, tried, told, throttled, lost, faults>>
<1>1. rep[r].step \in DOMAIN Mails /\ rep[r].cur \in Runs /\ Mails[rep[r].step] \in Channels
  BY Steps, InHandStep DEF Mail
<1>2. rep' = [rep EXCEPT ![r].step = @ + 1, ![r].sent[rep[r].cur] = @ \cup {Mails[rep[r].step]}]
  BY DEF Mail
<1>3. rep[r] \in Process /\ rep[r].step + 1 \in 0 .. ReleaseStep
  BY <1>1, Steps DEF Typed
<1>4. [rep[r].sent EXCEPT ![rep[r].cur] = @ \cup {Mails[rep[r].step]}] \in [Runs -> SUBSET Channels]
  BY <1>1, <1>3 DEF Process
<1>5. rep'[r] = [rep[r] EXCEPT !.step = @ + 1,
                    !.sent = [rep[r].sent EXCEPT ![rep[r].cur] = @ \cup {Mails[rep[r].step]}]]
  BY <1>2, <1>3 DEF Typed, Process
<1>6. rep'[r] \in Process
  BY <1>3, <1>4, <1>5 DEF Process
<1>7. Alone(r)
  BY <1>2, <1>6 DEF Alone, Typed
<1>8. /\ rep'[r].sent = [rep[r].sent EXCEPT ![rep[r].cur] = @ \cup {Mails[rep[r].step]}]
      /\ rep'[r].step = rep[r].step + 1 /\ rep'[r].life = rep[r].life
      /\ rep'[r].holder = rep[r].holder /\ rep'[r].cur = rep[r].cur /\ rep'[r].batch = rep[r].batch
  BY <1>3, <1>5 DEF Process
<1> QED BY <1>1, <1>7, <1>8 DEF Mail, AlreadyMailed, Sends

\* A mail that fails ends the telling and may open the window again.
LEMMA MailFailsEffect ==
  ASSUME Typed, NEW r \in Replicas, MailFails(r)
  PROVE  /\ rep[r].step \in DOMAIN Mails
         /\ Alone(r)
         /\ rep'[r].life = rep[r].life /\ rep'[r].sent = rep[r].sent
         /\ \/ rep[r].sent[rep[r].cur] \cap Addresses = {} /\ rep'[r].holder.run = NoRun
            \/ rep[r].sent[rep[r].cur] \cap Addresses # {} /\ rep'[r].holder = rep[r].holder
         /\ rep'[r].cur = rep[r].cur /\ rep'[r].batch = rep[r].batch
         /\ rep'[r].step = ReleaseStep
         /\ UNCHANGED <<now, job, got, tried, told, throttled, lost, faults>>
<1>1. Released(r) \in [window : 0 .. MaxWindow, run : Runs \cup {NoRun}]
  BY NotifyAssumption DEF Released, Typed, Process
<1>2. rep' = [rep EXCEPT ![r].step = ReleaseStep, ![r].holder = Released(r)]
  BY DEF MailFails
<1>3. /\ Alone(r) /\ rep'[r].life = rep[r].life /\ rep'[r].sent = rep[r].sent
      /\ rep'[r].holder = Released(r)
      /\ rep'[r].cur = rep[r].cur /\ rep'[r].batch = rep[r].batch
      /\ rep'[r].step = ReleaseStep
  BY <1>1, <1>2, StepRange DEF Typed, Process, Alone
<1>4. CASE rep[r].sent[rep[r].cur] \cap Addresses = {}
  BY <1>3, <1>4 DEF Released, MailFails
<1>5. CASE rep[r].sent[rep[r].cur] \cap Addresses # {}
  BY <1>3, <1>5 DEF Released, MailFails
<1> QED BY <1>4, <1>5

\* The hook that is accepted ends the telling.
LEMMA PostHookEffect ==
  ASSUME Typed, NEW r \in Replicas, PostHook(r)
  PROVE  /\ rep[r].step = HookStep /\ rep[r].cur \in Runs
         /\ Alone(r) /\ Sends(r, Hook) /\ LetsGo(r)
         /\ rep'[r].life = rep[r].life /\ rep'[r].holder = rep[r].holder
         /\ told' = told \cup {rep[r].cur}
         /\ UNCHANGED <<now, job, tried, throttled, lost, faults>>
<1>1. rep[r].step = HookStep /\ rep[r].cur \in Runs /\ Hook \in Channels
  BY Steps, InHandStep DEF PostHook
<1>2. rep' = [rep EXCEPT ![r].sent[rep[r].cur] = @ \cup {Hook}, ![r].cur = NoRun, ![r].step = 0]
  BY DEF PostHook
<1>3. rep[r] \in Process
  BY DEF Typed
<1>4. [rep[r].sent EXCEPT ![rep[r].cur] = @ \cup {Hook}] \in [Runs -> SUBSET Channels]
  BY <1>1, <1>3 DEF Process
<1>5. rep'[r] = [rep[r] EXCEPT !.sent = [rep[r].sent EXCEPT ![rep[r].cur] = @ \cup {Hook}],
                               !.cur = NoRun, !.step = 0]
  BY <1>2, <1>3 DEF Typed, Process
<1>6. rep'[r] \in Process
  BY <1>3, <1>4, <1>5, StepRange DEF Process
<1>7. Alone(r)
  BY <1>2, <1>6 DEF Alone, Typed
<1>8. /\ rep'[r].sent = [rep[r].sent EXCEPT ![rep[r].cur] = @ \cup {Hook}]
      /\ rep'[r].step = 0 /\ rep'[r].cur = NoRun /\ rep'[r].life = rep[r].life
      /\ rep'[r].holder = rep[r].holder /\ rep'[r].batch = rep[r].batch
  BY <1>3, <1>5 DEF Process
<1> QED BY <1>1, <1>7, <1>8 DEF PostHook, LetsGo, Sends

\* A hook that fails leads to the release of the claim.
LEMMA HookFailsEffect ==
  ASSUME Typed, NEW r \in Replicas, HookFails(r)
  PROVE  /\ rep[r].step = HookStep
         /\ Alone(r) /\ SameLedger(r)
         /\ rep'[r].cur = rep[r].cur /\ rep'[r].batch = rep[r].batch
         /\ rep'[r].step = ReleaseStep
         /\ UNCHANGED <<now, job, got, tried, told, throttled, lost, faults>>
  BY StepRange DEF HookFails, Typed, Process, Alone, SameLedger

\* A telling that failed gives its claim back.
LEMMA ReleaseEffect ==
  ASSUME Typed, NEW r \in Replicas, ReleaseNotifyClaim(r)
  PROVE  /\ rep[r].cur \in Runs
         /\ Alone(r) /\ SameLedger(r) /\ LetsGo(r)
         /\ job' = [job EXCEPT ![rep[r].cur].claimed = FALSE]
         /\ UNCHANGED <<now, got, tried, told, throttled, lost, faults>>
  BY StepRange, InHandStep DEF ReleaseNotifyClaim, Typed, Process, Alone, SameLedger, LetsGo

\* The claim of such a telling stays if the store fails.
LEMMA ReleaseFailsEffect ==
  ASSUME Typed, NEW r \in Replicas, ReleaseFails(r)
  PROVE  /\ rep[r].cur \in Runs
         /\ Alone(r) /\ SameLedger(r) /\ LetsGo(r)
         /\ lost' = lost \cup {rep[r].cur}
         /\ faults < MaxFaults /\ faults' = faults + 1
         /\ UNCHANGED <<now, job, got, tried, told, throttled>>
  BY StepRange, InHandStep DEF ReleaseFails, Typed, Process, Alone, SameLedger, LetsGo

\* A crash forgets the batch, the run in hand and the windows.
LEMMA CrashEffect ==
  ASSUME Typed, NEW r \in Replicas, Crash(r)
  PROVE  /\ Alone(r)
         /\ rep'[r].life = rep[r].life + 1
         /\ rep'[r].cur = NoRun /\ rep'[r].step = 0 /\ rep'[r].batch = {}
         /\ rep'[r].holder.run = NoRun
         /\ \A j \in Runs : rep'[r].sent[j] = {}
         /\ lost' = lost \cup InHand(r)
         /\ faults < MaxFaults /\ faults' = faults + 1
         /\ UNCHANGED <<now, job, got, tried, told, throttled>>
<1>1. rep[r].life + 1 \in 0 .. MaxFaults
  BY NotifyAssumption DEF Typed, Process, Crash
<1>2. rep' = [rep EXCEPT ![r] = Fresh(rep[r].life + 1)]
  BY DEF Crash
<1>3. rep'[r] = Fresh(rep[r].life + 1)
  BY <1>2 DEF Typed
<1>4. Alone(r)
  BY <1>1, <1>2, FreshType DEF Alone, Typed
<1> QED BY <1>1, <1>3, <1>4, FreshType DEF Crash

-----------------------------------------------------------------------------
(* Types are kept.                                                         *)

\* A claim makes a record of a record.
LEMMA ClaimedRecord ==
  ASSUME NEW o \in RunRecord, o.attempts < MaxAttempts,
         NEW n, n = [o EXCEPT !.claimed = TRUE, !.attempts = @ + 1]
  PROVE  n \in RunRecord /\ n.claimed = TRUE /\ n.attempts = o.attempts + 1 /\ n.end = o.end
<1>1. o.attempts \in 0 .. MaxAttempts
  BY DEF RunRecord
<1>2. o.attempts + 1 \in 0 .. MaxAttempts
  BY <1>1, NotifyAssumption
<1> QED BY <1>2 DEF RunRecord

\* The job records a claim writes are records.
LEMMA ClaimedType ==
  ASSUME Typed, NEW S \in SUBSET Due,
         job' = [j \in Runs |-> IF j \in S THEN [job[j] EXCEPT !.claimed = TRUE, !.attempts = @ + 1]
                                           ELSE job[j]]
  PROVE  /\ job' \in [Runs -> RunRecord]
         /\ \A j \in S : /\ j \in Runs /\ ~job[j].claimed /\ job[j].end # "none"
                         /\ job'[j].claimed /\ job'[j].attempts = job[j].attempts + 1
                         /\ job'[j].end = job[j].end
         /\ \A j \in Runs \ S : job'[j] = job[j]
<1>1. \A j \in S : j \in Runs /\ ~job[j].claimed /\ job[j].end # "none" /\ job[j].attempts < MaxAttempts
  BY DEF Due
<1>3. \A j \in S : job'[j] = [job[j] EXCEPT !.claimed = TRUE, !.attempts = @ + 1]
  BY <1>1
<1>4. ASSUME NEW j \in S
      PROVE  /\ job'[j] \in RunRecord /\ job'[j].claimed = TRUE
             /\ job'[j].attempts = job[j].attempts + 1 /\ job'[j].end = job[j].end
  <2>1. job[j] \in RunRecord /\ job[j].attempts < MaxAttempts
    BY <1>1 DEF Typed
  <2> QED BY <1>3, <2>1, ClaimedRecord
<1>5. \A j \in Runs \ S : job'[j] = job[j]
  OBVIOUS
<1>6. \A j \in Runs : job'[j] \in RunRecord
  BY <1>4, <1>5 DEF Typed
<1>7. job' \in [Runs -> RunRecord]
  BY <1>6
<1> QED BY <1>1, <1>4, <1>5, <1>7

\* What a send makes of the counts are counts.
LEMMA SendsType ==
  ASSUME Typed, NEW r \in Replicas, rep[r].cur \in Runs, NEW c \in Channels, Sends(r, c)
  PROVE  /\ got' \in [Runs -> [Channels -> Nat]]
         /\ \A j \in Runs, d \in Channels : j # rep[r].cur \/ d # c => got'[j][d] = got[j][d]
         /\ \A j \in Runs, d \in Channels : got'[j][d] >= got[j][d]
         /\ got'[rep[r].cur][c] = IF Delivered(r, c) THEN got[rep[r].cur][c] ELSE got[rep[r].cur][c] + 1
<1>1. CASE Delivered(r, c)
  BY <1>1 DEF Sends, Typed
<1>2. CASE ~Delivered(r, c)
  <2>1. got' = [got EXCEPT ![rep[r].cur][c] = @ + 1]
    BY <1>2 DEF Sends
  <2> QED BY <1>2, <2>1 DEF Typed
<1> QED BY <1>1, <1>2

\* The types of a step of one process may be shown part by part.
LEMMA ProcessCase ==
  ASSUME Typed, NEW r \in Replicas, Alone(r), now' = now,
         faults' \in 0 .. MaxFaults, faults' >= faults,
         rep'[r].cur = NoRun <=> rep'[r].step = 0, rep'[r].life <= faults',
         job' \in [Runs -> RunRecord], got' \in [Runs -> [Channels -> Nat]],
         tried' \in [Runs -> SUBSET (Replicas \X (0 .. MaxFaults))],
         told' \subseteq Runs, throttled' \subseteq Runs, lost' \subseteq Runs
  PROVE  Typed'
<1>1. \A q \in Replicas : /\ rep[q].life \in Nat /\ rep[q].life <= faults
                          /\ rep[q].cur = NoRun <=> rep[q].step = 0
  BY DEF Typed, Process
<1>2. faults \in Nat /\ faults' \in Nat
  BY NotifyAssumption DEF Typed
<1>3. \A q \in Replicas : /\ rep'[q].cur = NoRun <=> rep'[q].step = 0
                          /\ rep'[q].life <= faults'
  BY <1>1, <1>2 DEF Alone
<1> QED BY <1>3 DEF Alone, Typed

\* A step that leaves the records and the counts alone.
LEMMA QuietCase ==
  ASSUME Typed, NEW r \in Replicas, Alone(r), UNCHANGED <<now, job, got, tried, faults>>,
         rep'[r].cur = NoRun <=> rep'[r].step = 0, rep'[r].life = rep[r].life,
         told' \subseteq Runs, throttled' \subseteq Runs, lost' \subseteq Runs
  PROVE  Typed'
<1>1. faults' \in 0 .. MaxFaults /\ faults' >= faults /\ rep'[r].life <= faults'
  BY NotifyAssumption DEF Typed
<1> QED BY <1>1, ProcessCase DEF Typed

\* The state stays well formed.
LEMMA TypedStep == Typed /\ [Next]_vars => Typed'
<1> SUFFICES ASSUME Typed, [Next]_vars PROVE Typed'
  OBVIOUS
<1>0. /\ faults \in 0 .. MaxFaults /\ faults >= faults /\ NoRun \notin Runs
      /\ told \subseteq Runs /\ throttled \subseteq Runs /\ lost \subseteq Runs
      /\ \A r \in Replicas : rep[r].cur = NoRun <=> rep[r].step = 0
      /\ \A r \in Replicas : rep[r].life \in Nat /\ rep[r].life <= faults
      /\ faults < MaxFaults => faults + 1 \in 0 .. MaxFaults /\ faults + 1 >= faults
  BY NotifyAssumption DEF Typed, Process
<1>1. CASE Tick
  BY <1>1, NotifyAssumption DEF Tick, Typed
<1>2. ASSUME NEW j \in Runs, Finish(j) PROVE Typed'
  <2>1. PICK end \in {"failed", "stopped"} : job' = [job EXCEPT ![j].end = end, ![j].at = now]
    BY <1>2 DEF Finish
  <2>2. now \in 0 .. MaxWindow /\ job[j] \in RunRecord
    BY DEF Typed
  <2>3. [job[j] EXCEPT !.end = end, !.at = now] \in RunRecord
    BY <2>2 DEF RunRecord
  <2>4. job' \in [Runs -> RunRecord]
    BY <2>1, <2>3 DEF Typed
  <2> QED BY <1>2, <2>4 DEF Finish, Typed
<1>3. ASSUME NEW r \in Replicas, ClaimUnnotified(r) PROVE Typed'
  <2>1. PICK S \in SUBSET Due :
              /\ job' = [j \in Runs |-> IF j \in S THEN [job[j] EXCEPT !.claimed = TRUE, !.attempts = @ + 1]
                                                  ELSE job[j]]
              /\ tried' = [j \in Runs |-> IF j \in S THEN tried[j] \cup {<<r, rep[r].life>>} ELSE tried[j]]
    BY <1>3, ClaimEffect
  <2>2. job' \in [Runs -> RunRecord]
    BY <2>1, ClaimedType
  <2>3. <<r, rep[r].life>> \in Replicas \X (0 .. MaxFaults)
    BY DEF Typed, Process
  <2>4. tried' \in [Runs -> SUBSET (Replicas \X (0 .. MaxFaults))]
    BY <2>1, <2>3 DEF Typed
  <2>5. /\ Alone(r) /\ rep'[r].cur = NoRun /\ rep'[r].step = 0 /\ rep'[r].life <= faults
        /\ UNCHANGED <<now, got, told, throttled, lost, faults>>
    BY <1>0, <1>3, ClaimEffect DEF SameLedger
  <2> QED BY <1>0, <2>2, <2>4, <2>5, ProcessCase DEF Typed
<1>4. ASSUME NEW r \in Replicas, NEW j \in Runs, PassOver(r, j) PROVE Typed'
  <2>1. /\ Alone(r) /\ UNCHANGED <<now, job, got, tried, faults, throttled, lost>>
        /\ rep'[r].cur = NoRun /\ rep'[r].step = 0 /\ rep'[r].life = rep[r].life
        /\ told' \subseteq Runs
    BY <1>0, <1>4, PassOverEffect DEF SameLedger
  <2> QED BY <1>0, <2>1, QuietCase
<1>5. ASSUME NEW r \in Replicas, NEW j \in Runs, Admit(r, j) PROVE Typed'
  <2>1. /\ Alone(r) /\ UNCHANGED <<now, job, got, tried, faults, told, throttled, lost>>
        /\ rep'[r].cur # NoRun /\ rep'[r].step # 0 /\ rep'[r].life = rep[r].life
    BY <1>0, <1>5, AdmitEffect
  <2> QED BY <1>0, <2>1, QuietCase
<1>6. ASSUME NEW r \in Replicas, NEW j \in Runs, Throttle(r, j) PROVE Typed'
  <2>1. /\ Alone(r) /\ UNCHANGED <<now, job, got, tried, faults, told, lost>>
        /\ rep'[r].cur # NoRun /\ rep'[r].step # 0 /\ rep'[r].life = rep[r].life
        /\ throttled' \subseteq Runs
    BY <1>0, <1>6, ThrottleEffect, StepRange DEF SameLedger
  <2> QED BY <1>0, <2>1, QuietCase
<1>7. ASSUME NEW r \in Replicas, Mail(r) PROVE Typed'
  <2>1. rep[r].step + 1 # 0 /\ rep[r].cur # NoRun /\ Mails[rep[r].step] \in Channels
    BY <1>0, <1>7, MailEffect, Steps
  <2>2. got' \in [Runs -> [Channels -> Nat]]
    BY <1>7, <2>1, MailEffect, SendsType
  <2>3. /\ Alone(r) /\ UNCHANGED <<now, job, tried, faults, told, throttled, lost>>
        /\ rep'[r].cur # NoRun /\ rep'[r].step # 0 /\ rep'[r].life <= faults
    BY <1>0, <1>7, <2>1, MailEffect
  <2> QED BY <1>0, <2>2, <2>3, ProcessCase DEF Typed
<1>8. ASSUME NEW r \in Replicas, MailFails(r) PROVE Typed'
  <2>1. /\ Alone(r) /\ UNCHANGED <<now, job, got, tried, faults, told, throttled, lost>>
        /\ rep'[r].cur = rep[r].cur /\ rep[r].step # 0 /\ rep'[r].step # 0
        /\ rep'[r].life = rep[r].life
    BY <1>8, MailFailsEffect, StepRange, Steps
  <2> QED BY <1>0, <2>1, QuietCase
<1>9. ASSUME NEW r \in Replicas, PostHook(r) PROVE Typed'
  <2>1. got' \in [Runs -> [Channels -> Nat]]
    BY <1>9, PostHookEffect, SendsType, Steps
  <2>2. /\ Alone(r) /\ UNCHANGED <<now, job, tried, faults, throttled, lost>>
        /\ rep'[r].cur = NoRun /\ rep'[r].step = 0 /\ rep'[r].life <= faults
        /\ told' \subseteq Runs
    BY <1>0, <1>9, PostHookEffect DEF LetsGo
  <2> QED BY <1>0, <2>1, <2>2, ProcessCase DEF Typed
<1>10. ASSUME NEW r \in Replicas, HookFails(r) PROVE Typed'
  <2>1. /\ Alone(r) /\ UNCHANGED <<now, job, got, tried, faults, told, throttled, lost>>
        /\ rep'[r].cur = rep[r].cur /\ rep[r].step # 0 /\ rep'[r].step # 0
        /\ rep'[r].life = rep[r].life
    BY <1>10, HookFailsEffect, StepRange DEF SameLedger
  <2> QED BY <1>0, <2>1, QuietCase
<1>11. ASSUME NEW r \in Replicas, ReleaseNotifyClaim(r) PROVE Typed'
  <2>1. job' = [job EXCEPT ![rep[r].cur].claimed = FALSE] /\ rep[r].cur \in Runs
    BY <1>11, ReleaseEffect
  <2>2. [job[rep[r].cur] EXCEPT !.claimed = FALSE] \in RunRecord
    BY <2>1 DEF Typed, RunRecord
  <2>3. job' \in [Runs -> RunRecord]
    BY <2>1, <2>2 DEF Typed
  <2>4. /\ Alone(r) /\ UNCHANGED <<now, got, tried, faults, told, throttled, lost>>
        /\ rep'[r].cur = NoRun /\ rep'[r].step = 0 /\ rep'[r].life <= faults
    BY <1>0, <1>11, ReleaseEffect DEF LetsGo, SameLedger
  <2> QED BY <1>0, <2>3, <2>4, ProcessCase DEF Typed
<1>12. ASSUME NEW r \in Replicas, ReleaseFails(r) PROVE Typed'
  <2>1. /\ Alone(r) /\ UNCHANGED <<now, job, got, tried, told, throttled>>
        /\ rep'[r].cur = NoRun /\ rep'[r].step = 0 /\ rep'[r].life = rep[r].life
        /\ lost' \subseteq Runs /\ faults' = faults + 1 /\ faults < MaxFaults
    BY <1>0, <1>12, ReleaseFailsEffect DEF LetsGo, SameLedger
  <2>2. faults' \in 0 .. MaxFaults /\ faults' >= faults /\ rep'[r].life <= faults'
    BY <1>0, <2>1
  <2> QED BY <1>0, <2>1, <2>2, ProcessCase DEF Typed
<1>13. ASSUME NEW r \in Replicas, Crash(r) PROVE Typed'
  <2>1. InHand(r) \subseteq Runs
    BY DEF InHand, Typed, Process
  <2>2. /\ Alone(r) /\ UNCHANGED <<now, job, got, tried, told, throttled>>
        /\ rep'[r].cur = NoRun /\ rep'[r].step = 0 /\ rep'[r].life = rep[r].life + 1
        /\ lost' \subseteq Runs /\ faults' = faults + 1 /\ faults < MaxFaults
    BY <1>0, <1>13, <2>1, CrashEffect
  <2>3. faults' \in 0 .. MaxFaults /\ faults' >= faults /\ rep'[r].life <= faults'
    BY <1>0, <2>2
  <2> QED BY <1>0, <2>2, <2>3, ProcessCase DEF Typed
<1>14. CASE UNCHANGED vars
  BY <1>14 DEF vars, Typed
<1> QED BY <1>1, <1>2, <1>3, <1>4, <1>5, <1>6, <1>7, <1>8, <1>9, <1>10, <1>11, <1>12, <1>13, <1>14
        DEF Next, SweepStep

-----------------------------------------------------------------------------
(* Who has a run in hand.                                                  *)

\* A run in hand has ended and was claimed by this life of the process; the one
\* that is being told of failed, and is no longer in the batch.
HandedTo(r) ==
    /\ rep[r].cur \notin rep[r].batch
    /\ rep[r].cur # NoRun => job[rep[r].cur].end = "failed"
    /\ \A j \in InHand(r) : job[j].end # "none" /\ <<r, rep[r].life>> \in tried[j]
Handed == \A r \in Replicas : HandedTo(r)

\* Nobody has a run in hand at first.
LEMMA HandInit == Init => Handed /\ OneTeller
<1> SUFFICES ASSUME Init PROVE Handed /\ OneTeller
  OBVIOUS
<1>1. \A r \in Replicas : rep[r].batch = {} /\ rep[r].cur = NoRun /\ InHand(r) = {}
  BY FreshType, NotifyAssumption DEF Init, InHand
<1> QED BY <1>1 DEF Handed, HandedTo, OneTeller

\* What a replica has in hand are runs.
LEMMA InHandRuns == ASSUME Typed, NEW r \in Replicas PROVE InHand(r) \subseteq Runs
  BY DEF Typed, Process, InHand

\* A process that takes nothing new in hand, and unclaims only what it lets go of.
LEMMA HandCase ==
  ASSUME Typed, Handed, OneTeller, NEW r \in Replicas, Alone(r),
         InHand(r)' \subseteq InHand(r),
         rep'[r].cur \notin rep'[r].batch,
         rep'[r].cur # NoRun => job'[rep'[r].cur].end = "failed",
         rep'[r].life = rep[r].life \/ InHand(r)' = {},
         UNCHANGED tried,
         \A j \in Runs : job[j].end # "none" => job'[j].end = job[j].end,
         \A j \in Runs : job[j].claimed => job'[j].claimed \/ (j \in InHand(r) /\ j \notin InHand(r)')
  PROVE  Handed' /\ OneTeller'
<1>1. \A q \in Replicas \ {r} : InHand(q)' = InHand(q)
  BY DEF InHand, Alone
<1>2. \A q \in Replicas : InHand(q) \subseteq Runs /\ InHand(q)' \subseteq InHand(q)
  BY <1>1, InHandRuns
<1>3. HandedTo(r)'
  <2>1. \A j \in InHand(r)' : job'[j].end # "none" /\ <<r, rep'[r].life>> \in tried'[j]
    BY <1>2 DEF Handed, HandedTo
  <2> QED BY <2>1 DEF HandedTo
<1>4. \A q \in Replicas \ {r} : HandedTo(q)'
  <2> SUFFICES ASSUME NEW q \in Replicas \ {r} PROVE HandedTo(q)'
    OBVIOUS
  <2>1. rep'[q] = rep[q] /\ HandedTo(q) /\ (rep[q].cur # NoRun => rep[q].cur \in Runs)
    BY DEF Alone, Handed, Typed, Process
  <2>2. \A j \in InHand(q)' : job'[j].end # "none" /\ <<q, rep'[q].life>> \in tried'[j]
    BY <1>1, <1>2, <2>1 DEF HandedTo
  <2> QED BY <2>1, <2>2 DEF HandedTo
<1>5. ASSUME NEW q \in Replicas, NEW p \in Replicas, NEW j \in InHand(q)'
      PROVE  job'[j].claimed /\ (p # q => j \notin InHand(p)')
  <2>1. j \in Runs /\ j \in InHand(q) /\ job[j].claimed
    BY <1>2, <1>5 DEF OneTeller
  <2>2. p # q => j \notin InHand(p)'
    BY <1>2, <2>1 DEF OneTeller
  <2>3. job'[j].claimed
    <3>1. CASE q = r
      BY <2>1, <3>1, <1>5
    <3>2. CASE q # r
      BY <2>1, <3>2 DEF OneTeller
    <3> QED BY <3>1, <3>2
  <2> QED BY <2>2, <2>3
<1> QED BY <1>3, <1>4, <1>5 DEF Handed, OneTeller

\* The same when neither the records nor the attempts change.
LEMMA HandQuiet ==
  ASSUME Typed, Handed, OneTeller, NEW r \in Replicas, Alone(r),
         rep'[r].cur \in {NoRun, rep[r].cur} \/ rep'[r].cur \in rep[r].batch,
         rep'[r].batch \subseteq rep[r].batch,
         rep'[r].cur \notin rep'[r].batch,
         rep'[r].cur # NoRun => job[rep'[r].cur].end = "failed",
         rep'[r].life = rep[r].life, UNCHANGED <<job, tried>>
  PROVE  Handed' /\ OneTeller'
<1>1. InHand(r)' \subseteq InHand(r)
  BY DEF InHand
<1> QED BY <1>1, HandCase

\* Every step keeps the claims apart.
LEMMA HandStep == Typed /\ Handed /\ OneTeller /\ [Next]_vars => Handed' /\ OneTeller'
<1> SUFFICES ASSUME Typed, Handed, OneTeller, [Next]_vars PROVE Handed' /\ OneTeller'
  OBVIOUS
<1>0. /\ NoRun \notin Runs
      /\ \A r \in Replicas : /\ HandedTo(r) /\ rep[r].batch \subseteq Runs
                             /\ rep[r].cur \notin rep[r].batch /\ NoRun \notin rep[r].batch
                             /\ rep[r].cur # NoRun => job[rep[r].cur].end = "failed"
  BY NotifyAssumption DEF Handed, HandedTo, Typed, Process
<1>1. CASE Tick
  BY <1>1 DEF Tick, Handed, HandedTo, OneTeller, InHand
<1>2. ASSUME NEW j \in Runs, Finish(j) PROVE Handed' /\ OneTeller'
  <2>1. /\ \A k \in Runs \ {j} : job'[k] = job[k]
        /\ job[j].end = "none" /\ job'[j].claimed = job[j].claimed
        /\ UNCHANGED <<rep, tried>>
    BY <1>2 DEF Finish, Typed, RunRecord
  <2>2. \A r \in Replicas : InHand(r)' = InHand(r) /\ InHand(r) \subseteq Runs \ {j}
    BY <2>1, InHandRuns DEF InHand, Handed, HandedTo
  <2>3. \A r \in Replicas : rep[r].cur # NoRun => rep[r].cur \in InHand(r)
    BY DEF InHand
  <2>4. Handed'
    BY <2>1, <2>2, <2>3 DEF Handed, HandedTo
  <2>5. OneTeller'
    BY <2>1, <2>2 DEF OneTeller
  <2> QED BY <2>4, <2>5
<1>3. ASSUME NEW r \in Replicas, ClaimUnnotified(r) PROVE Handed' /\ OneTeller'
  <2>1. PICK S \in SUBSET Due :
              /\ job' = [j \in Runs |-> IF j \in S THEN [job[j] EXCEPT !.claimed = TRUE, !.attempts = @ + 1]
                                                  ELSE job[j]]
              /\ tried' = [j \in Runs |-> IF j \in S THEN tried[j] \cup {<<r, rep[r].life>>} ELSE tried[j]]
              /\ rep'[r].batch = S
    BY <1>3, ClaimEffect
  <2>2. /\ \A j \in S : /\ j \in Runs /\ ~job[j].claimed /\ job[j].end # "none" /\ job'[j].claimed
                        /\ job'[j].end = job[j].end
        /\ \A j \in Runs \ S : job'[j] = job[j]
    BY <2>1, ClaimedType
  <2>3. \A j \in Runs : tried[j] \subseteq tried'[j] /\ (j \in S => <<r, rep[r].life>> \in tried'[j])
    BY <2>1
  <2>4. Alone(r) /\ rep'[r].cur = NoRun /\ rep'[r].life = rep[r].life /\ InHand(r) = {}
    BY <1>3, ClaimEffect DEF SameLedger, InHand
  <2>5. InHand(r)' = S
    BY <2>1, <2>4 DEF InHand
  <2>6. \A q \in Replicas \ {r} : InHand(q)' = InHand(q) /\ rep'[q] = rep[q]
    BY <2>4 DEF Alone, InHand
  <2>7. \A q \in Replicas : \A j \in InHand(q) : j \in Runs /\ j \notin S
    BY <2>2, InHandRuns DEF OneTeller
  <2>8. HandedTo(r)'
    <3>1. rep'[r].cur \notin rep'[r].batch
      BY <1>0, <2>1, <2>2, <2>4
    <3>2. \A j \in S : job'[j].end # "none" /\ <<r, rep'[r].life>> \in tried'[j]
      BY <2>2, <2>3, <2>4
    <3> QED BY <2>4, <2>5, <3>1, <3>2 DEF HandedTo
  <2>9. ASSUME NEW q \in Replicas \ {r} PROVE HandedTo(q)'
    <3>1. \A j \in InHand(q) : job'[j] = job[j] /\ tried[j] \subseteq tried'[j]
      BY <2>2, <2>3, <2>7
    <3>2. rep[q].cur # NoRun => rep[q].cur \in InHand(q)
      BY DEF InHand
    <3> QED BY <1>0, <2>6, <3>1, <3>2 DEF HandedTo
  <2>10. ASSUME NEW q \in Replicas, NEW p \in Replicas, NEW j \in InHand(q)'
         PROVE  job'[j].claimed /\ (p # q => j \notin InHand(p)')
    <3>1. CASE q = r
      BY <3>1, <2>10, <2>2, <2>5, <2>6, <2>7
    <3>2. CASE q # r
      <4>1. j \in InHand(q) /\ j \notin S /\ j \in Runs /\ job[j].claimed
        BY <3>2, <2>10, <2>6, <2>7 DEF OneTeller
      <4>2. job'[j].claimed
        BY <4>1, <2>2
      <4>3. p # q => j \notin InHand(p)'
        BY <4>1, <2>5, <2>6 DEF OneTeller
      <4> QED BY <4>2, <4>3
    <3> QED BY <3>1, <3>2
  <2> QED BY <2>8, <2>9, <2>10 DEF Handed, OneTeller
<1>4. ASSUME NEW r \in Replicas, NEW j \in Runs, PassOver(r, j) PROVE Handed' /\ OneTeller'
  <2>1. /\ Alone(r) /\ UNCHANGED <<job, tried>> /\ rep'[r].life = rep[r].life
        /\ rep'[r].cur = NoRun /\ rep'[r].batch = rep[r].batch \ {j}
    BY <1>4, PassOverEffect DEF SameLedger
  <2> QED BY <1>0, <2>1, HandQuiet
<1>5. ASSUME NEW r \in Replicas, NEW j \in Runs, Admit(r, j) PROVE Handed' /\ OneTeller'
  <2>1. /\ Alone(r) /\ UNCHANGED <<job, tried>> /\ rep'[r].life = rep[r].life
        /\ rep'[r].cur = j /\ rep'[r].batch = rep[r].batch \ {j}
        /\ j \in rep[r].batch /\ job[j].end = "failed"
    BY <1>5, AdmitEffect
  <2> QED BY <1>0, <2>1, HandQuiet
<1>6. ASSUME NEW r \in Replicas, NEW j \in Runs, Throttle(r, j) PROVE Handed' /\ OneTeller'
  <2>1. /\ Alone(r) /\ UNCHANGED <<job, tried>> /\ rep'[r].life = rep[r].life
        /\ rep'[r].cur = j /\ rep'[r].batch = rep[r].batch \ {j}
        /\ j \in rep[r].batch /\ job[j].end = "failed"
    BY <1>6, ThrottleEffect DEF SameLedger
  <2> QED BY <1>0, <2>1, HandQuiet
<1>7. ASSUME NEW r \in Replicas, Mail(r) \/ MailFails(r) \/ HookFails(r) PROVE Handed' /\ OneTeller'
  <2>1. /\ Alone(r) /\ UNCHANGED <<job, tried>> /\ rep'[r].life = rep[r].life
        /\ rep'[r].cur = rep[r].cur /\ rep'[r].batch = rep[r].batch
    BY <1>7, MailEffect, MailFailsEffect, HookFailsEffect DEF SameLedger
  <2> QED BY <1>0, <2>1, HandQuiet
<1>8. ASSUME NEW r \in Replicas, PostHook(r) \/ ReleaseFails(r) PROVE Handed' /\ OneTeller'
  <2>1. /\ Alone(r) /\ UNCHANGED <<job, tried>> /\ rep'[r].life = rep[r].life
        /\ rep'[r].cur = NoRun /\ rep'[r].batch = rep[r].batch
    BY <1>8, PostHookEffect, ReleaseFailsEffect DEF SameLedger, LetsGo
  <2> QED BY <1>0, <2>1, HandQuiet
<1>9. ASSUME NEW r \in Replicas, ReleaseNotifyClaim(r) PROVE Handed' /\ OneTeller'
  <2>1. /\ Alone(r) /\ UNCHANGED tried /\ rep'[r].life = rep[r].life /\ rep[r].cur \in Runs
        /\ rep'[r].cur = NoRun /\ rep'[r].batch = rep[r].batch
        /\ job' = [job EXCEPT ![rep[r].cur].claimed = FALSE]
    BY <1>9, ReleaseEffect DEF SameLedger, LetsGo
  <2>2. InHand(r)' \subseteq InHand(r) /\ rep[r].cur \in InHand(r) /\ rep[r].cur \notin InHand(r)'
    BY <1>0, <2>1 DEF InHand
  <2>3. \A j \in Runs : job'[j].end = job[j].end /\ (j # rep[r].cur => job'[j] = job[j])
    BY <2>1 DEF Typed, RunRecord
  <2>4. \A j \in Runs : job[j].claimed => job'[j].claimed \/ (j \in InHand(r) /\ j \notin InHand(r)')
    BY <2>2, <2>3
  <2> QED BY <1>0, <2>1, <2>2, <2>3, <2>4, HandCase
<1>10. ASSUME NEW r \in Replicas, Crash(r) PROVE Handed' /\ OneTeller'
  <2>1. /\ Alone(r) /\ UNCHANGED <<job, tried>>
        /\ rep'[r].cur = NoRun /\ rep'[r].batch = {}
    BY <1>10, CrashEffect
  <2>2. InHand(r)' = {}
    BY <2>1 DEF InHand
  <2> QED BY <1>0, <2>1, <2>2, HandCase
<1>11. CASE UNCHANGED vars
  BY <1>11 DEF vars, Handed, HandedTo, OneTeller, InHand
<1> QED BY <1>1, <1>2, <1>3, <1>4, <1>5, <1>6, <1>7, <1>8, <1>9, <1>10, <1>11
        DEF Next, SweepStep

\* ClaimUnnotified "so two replicas sweeping the same instant cannot both mail
\* about one run", for any number of replicas and runs: OneTeller is an invariant.
THEOREM TellsAlone == Spec => []OneTeller
<1>1. Init => Typed /\ Handed /\ OneTeller
  BY TypedInit, HandInit
<1>2. Typed /\ Handed /\ OneTeller /\ [Next]_vars => (Typed /\ Handed /\ OneTeller)'
  BY TypedStep, HandStep
<1> QED BY <1>1, <1>2, PTL DEF Spec

-----------------------------------------------------------------------------
(* The ledger of a process and what the channels have heard.               *)

\* What is in the ledger was heard of.
Heard == \A r \in Replicas : \A j \in Runs : \A c \in rep[r].sent[j] : got[j][c] > 0

\* On its way to the webhook a run is throttled, or every address before the
\* step it is at has been mailed.
MailedUpTo(r) ==
    rep[r].cur # NoRun /\ rep[r].step <= HookStep =>
        \/ rep[r].cur \in throttled
        \/ \A i \in DOMAIN Mails : i < rep[r].step => Mails[i] \in rep[r].sent[rep[r].cur]
Progress == \A r \in Replicas : MailedUpTo(r)

\* Nobody is told of a run that goes on.
ToldEnded == \A j \in told : job[j].end # "none"

Ledger == Heard /\ Progress /\ ToldEnded /\ ToldMeansHeard

\* Nobody has been told at first.
LEMMA LedgerInit == Init => Ledger
<1> SUFFICES ASSUME Init PROVE Ledger
  OBVIOUS
<1>1. \A r \in Replicas : rep[r].cur = NoRun /\ \A j \in Runs : rep[r].sent[j] = {}
  BY FreshType, NotifyAssumption DEF Init
<1>2. told = {}
  BY DEF Init
<1> QED BY <1>1, <1>2 DEF Ledger, Heard, Progress, MailedUpTo, ToldEnded, ToldMeansHeard

\* What was heard stays heard; a process adds to its ledger only what was heard.
LEMMA HeardCase ==
  ASSUME Typed, Heard, NEW r \in Replicas, Alone(r),
         got' \in [Runs -> [Channels -> Nat]],
         \A j \in Runs, c \in Channels : got'[j][c] >= got[j][c],
         \A j \in Runs : \A c \in rep'[r].sent[j] : c \in rep[r].sent[j] \/ got'[j][c] > 0
  PROVE  Heard'
<1> SUFFICES ASSUME NEW q \in Replicas, NEW j \in Runs, NEW c \in rep'[q].sent[j]
             PROVE  got'[j][c] > 0
  BY DEF Heard
<1>1. rep'[q] \in Process /\ rep[q] \in Process
  BY DEF Alone, Typed
<1>2. c \in Channels
  BY <1>1 DEF Process
<1>3. got[j][c] \in Nat /\ got'[j][c] \in Nat /\ got'[j][c] >= got[j][c]
  BY <1>2 DEF Typed
<1>4. CASE c \in rep[q].sent[j]
  BY <1>3, <1>4 DEF Heard
<1>5. CASE c \notin rep[q].sent[j]
  BY <1>5 DEF Alone
<1> QED BY <1>4, <1>5

\* A run that was told of stays told of.
LEMMA ToldCase ==
  ASSUME Typed, ToldEnded, ToldMeansHeard,
         got' \in [Runs -> [Channels -> Nat]],
         \A j \in Runs, c \in Channels : got'[j][c] >= got[j][c],
         throttled \subseteq throttled',
         \A j \in Runs : job[j].end # "none" => job'[j].end = job[j].end,
         told' \subseteq Runs,
         \A j \in told' \ told :
             /\ job[j].end # "none"
             /\ job[j].end = "failed" =>
                    /\ got'[j][Hook] > 0
                    /\ j \in throttled' \/ \A c \in Addresses : got'[j][c] > 0
  PROVE  ToldEnded' /\ ToldMeansHeard'
<1>1. \A j \in Runs, c \in Channels : got[j][c] > 0 => got'[j][c] > 0
  BY DEF Typed
<1>2. Hook \in Channels /\ Addresses \subseteq Channels
  BY Steps
<1>3. ToldEnded'
  BY DEF ToldEnded
<1>4. ASSUME NEW j \in told', job'[j].end = "failed"
      PROVE  got'[j][Hook] > 0 /\ (j \in throttled' \/ \A c \in Addresses : got'[j][c] > 0)
  <2>1. CASE j \in told
    <3>1. j \in Runs /\ job[j].end = "failed"
      BY <1>4, <2>1 DEF ToldEnded
    <3>2. got[j][Hook] > 0 /\ (j \in throttled \/ \A c \in Addresses : got[j][c] > 0)
      BY <2>1, <3>1 DEF ToldMeansHeard
    <3> QED BY <1>1, <1>2, <3>1, <3>2
  <2>2. CASE j \notin told
    <3>1. j \in Runs /\ job[j].end = "failed"
      BY <1>4, <2>2
    <3> QED BY <1>4, <2>2, <3>1
  <2> QED BY <2>1, <2>2
<1> QED BY <1>3, <1>4 DEF ToldMeansHeard

\* A step that sends nothing.
LEMMA LedgerQuiet ==
  ASSUME Typed, Ledger, NEW r \in Replicas, Alone(r), UNCHANGED got,
         \A j \in Runs : rep'[r].sent[j] \subseteq rep[r].sent[j],
         throttled \subseteq throttled', MailedUpTo(r)',
         \A j \in Runs : job[j].end # "none" => job'[j].end = job[j].end,
         told' \subseteq Runs,
         \A j \in told' \ told : job[j].end = "stopped"
  PROVE  Ledger'
<1>1. /\ got' \in [Runs -> [Channels -> Nat]]
      /\ \A j \in Runs, c \in Channels : got'[j][c] >= got[j][c]
  BY DEF Typed
<1>2. Heard'
  BY <1>1, HeardCase DEF Ledger
<1>3. ToldEnded' /\ ToldMeansHeard'
  BY <1>1, ToldCase DEF Ledger
<1>4. \A q \in Replicas \ {r} : MailedUpTo(q)'
  BY DEF Ledger, Progress, MailedUpTo, Alone
<1> QED BY <1>2, <1>3, <1>4 DEF Ledger, Progress

\* A send that was answered.
LEMMA LedgerSends ==
  ASSUME Typed, Ledger, NEW r \in Replicas, Alone(r), rep[r].cur \in Runs,
         NEW c \in Channels, Sends(r, c), UNCHANGED <<job, throttled>>,
         MailedUpTo(r)', told' \subseteq told \cup {rep[r].cur},
         told' # told =>
             /\ job[rep[r].cur].end # "none" /\ c = Hook
             /\ \/ rep[r].cur \in throttled
                \/ \A d \in Addresses : d \in rep[r].sent[rep[r].cur]
  PROVE  Ledger'
<1> DEFINE j == rep[r].cur
<1>1. /\ got' \in [Runs -> [Channels -> Nat]]
      /\ \A k \in Runs, d \in Channels : got'[k][d] >= got[k][d]
      /\ got'[j][c] = IF Delivered(r, c) THEN got[j][c] ELSE got[j][c] + 1
  BY SendsType
<1>2. got[j][c] \in Nat /\ (Delivered(r, c) => got[j][c] > 0)
  BY DEF Typed, Ledger, Heard, Delivered
<1>3. got'[j][c] > 0
  BY <1>1, <1>2
<1>4. \A k \in Runs : \A d \in rep'[r].sent[k] : d \in rep[r].sent[k] \/ (k = j /\ d = c)
  BY DEF Sends, Typed, Process
<1>5. Heard'
  BY <1>1, <1>3, <1>4, HeardCase DEF Ledger
<1>6. \A d \in rep[r].sent[j] : d \in Channels => got'[j][d] > 0
  <2>1. \A d \in rep[r].sent[j] : d \in Channels => got[j][d] \in Nat /\ got[j][d] > 0
    BY DEF Ledger, Heard, Typed
  <2> QED BY <1>1, <2>1
<1>7. \A k \in told' \ told :
             /\ job[k].end # "none"
             /\ job[k].end = "failed" =>
                    /\ got'[k][Hook] > 0
                    /\ k \in throttled' \/ \A d \in Addresses : got'[k][d] > 0
  <2> SUFFICES ASSUME NEW k \in told' \ told
               PROVE  /\ job[k].end # "none" /\ got'[k][Hook] > 0
                      /\ k \in throttled' \/ \A d \in Addresses : got'[k][d] > 0
    OBVIOUS
  <2>1. k = j /\ told' # told
    OBVIOUS
  <2>2. job[j].end # "none" /\ got'[j][Hook] > 0
    BY <1>3, <2>1
  <2>3. j \in throttled' \/ \A d \in Addresses : got'[j][d] > 0
    BY <1>6, <2>1, Steps
  <2> QED BY <2>1, <2>2, <2>3
<1>8. ToldEnded' /\ ToldMeansHeard'
  <2>1. told' \subseteq Runs
    BY DEF Typed
  <2> QED BY <1>1, <1>7, <2>1, ToldCase DEF Ledger
<1>9. \A q \in Replicas \ {r} : MailedUpTo(q)'
  BY DEF Ledger, Progress, MailedUpTo, Alone
<1> QED BY <1>5, <1>8, <1>9 DEF Ledger, Progress

\* Every step keeps the ledger of what was told and heard.
LEMMA LedgerStep == Typed /\ Handed /\ Ledger /\ [Next]_vars => Ledger'
<1> SUFFICES ASSUME Typed, Handed, Ledger, [Next]_vars PROVE Ledger'
  OBVIOUS
<1>0. /\ told \subseteq Runs /\ throttled \subseteq Runs
      /\ \A r \in Replicas : MailedUpTo(r) /\ HandedTo(r)
      /\ HookStep < ReleaseStep /\ NoRun \notin Runs
  BY Steps, NotifyAssumption DEF Typed, Ledger, Progress, Handed
<1>1. CASE Tick
  BY <1>1 DEF Tick, Ledger, Heard, Progress, MailedUpTo, ToldEnded, ToldMeansHeard
<1>2. ASSUME NEW j \in Runs, Finish(j) PROVE Ledger'
  <2>1. /\ \A k \in Runs \ {j} : job'[k] = job[k]
        /\ job[j].end = "none"
        /\ UNCHANGED <<rep, got, told, throttled>>
    BY <1>2 DEF Finish, Typed, RunRecord
  <2>2. j \notin told
    BY <2>1 DEF Ledger, ToldEnded
  <2>3. \A k \in told : job'[k] = job[k]
    BY <1>0, <2>1, <2>2
  <2>4. ToldEnded' /\ ToldMeansHeard'
    BY <2>1, <2>3 DEF Ledger, ToldEnded, ToldMeansHeard
  <2>5. Heard' /\ Progress'
    BY <2>1 DEF Ledger, Heard, Progress, MailedUpTo
  <2> QED BY <2>4, <2>5 DEF Ledger
<1>3. ASSUME NEW r \in Replicas, ClaimUnnotified(r) PROVE Ledger'
  <2>1. PICK S \in SUBSET Due :
              job' = [j \in Runs |-> IF j \in S THEN [job[j] EXCEPT !.claimed = TRUE, !.attempts = @ + 1]
                                                  ELSE job[j]]
    BY <1>3, ClaimEffect
  <2>2. \A j \in Runs : job'[j].end = job[j].end
    BY <2>1, ClaimedType
  <2>3. /\ Alone(r) /\ rep'[r].sent = rep[r].sent /\ rep'[r].cur = NoRun
        /\ UNCHANGED <<got, told, throttled>>
    BY <1>3, ClaimEffect DEF SameLedger
  <2>4. MailedUpTo(r)'
    BY <2>3 DEF MailedUpTo
  <2> QED BY <1>0, <2>2, <2>3, <2>4, LedgerQuiet
<1>4. ASSUME NEW r \in Replicas, NEW j \in Runs, PassOver(r, j) PROVE Ledger'
  <2>1. /\ Alone(r) /\ rep'[r].sent = rep[r].sent /\ rep'[r].cur = NoRun
        /\ job[j].end = "stopped" /\ told' = told \cup {j}
        /\ UNCHANGED <<job, got, throttled>>
    BY <1>4, PassOverEffect DEF SameLedger
  <2>2. MailedUpTo(r)'
    BY <2>1 DEF MailedUpTo
  <2> QED BY <1>0, <2>1, <2>2, LedgerQuiet
<1>5. ASSUME NEW r \in Replicas, NEW j \in Runs, Admit(r, j) PROVE Ledger'
  <2>1. /\ Alone(r) /\ rep'[r].sent = rep[r].sent /\ rep'[r].step = 1
        /\ UNCHANGED <<job, got, told, throttled>>
    BY <1>5, AdmitEffect
  <2>2. MailedUpTo(r)'
    BY <2>1, Steps DEF MailedUpTo
  <2> QED BY <1>0, <2>1, <2>2, LedgerQuiet
<1>6. ASSUME NEW r \in Replicas, NEW j \in Runs, Throttle(r, j) PROVE Ledger'
  <2>1. /\ Alone(r) /\ rep'[r].sent = rep[r].sent /\ rep'[r].cur = j
        /\ throttled' = throttled \cup {j}
        /\ UNCHANGED <<job, got, told>>
    BY <1>6, ThrottleEffect DEF SameLedger
  <2>2. MailedUpTo(r)'
    BY <2>1 DEF MailedUpTo
  <2> QED BY <1>0, <2>1, <2>2, LedgerQuiet
<1>7. ASSUME NEW r \in Replicas, Mail(r) PROVE Ledger'
  <2>1. /\ Alone(r) /\ rep[r].cur \in Runs /\ rep[r].step \in DOMAIN Mails
        /\ Sends(r, Mails[rep[r].step])
        /\ rep'[r].cur = rep[r].cur /\ rep'[r].step = rep[r].step + 1
        /\ UNCHANGED <<job, told, throttled>>
    BY <1>7, MailEffect
  <2>2. Mails[rep[r].step] \in Channels /\ rep[r].step \in Nat /\ rep[r].step <= HookStep
    BY <2>1, Steps
  <2>3. rep'[r].sent[rep[r].cur] = rep[r].sent[rep[r].cur] \cup {Mails[rep[r].step]}
    BY <2>1 DEF Sends, Typed, Process
  <2>4. \A i \in DOMAIN Mails : i < rep[r].step + 1 => i < rep[r].step \/ i = rep[r].step
    BY <2>2, Steps
  <2>5. \/ rep[r].cur \in throttled
        \/ \A i \in DOMAIN Mails : i < rep[r].step => Mails[i] \in rep[r].sent[rep[r].cur]
    BY <1>0, <2>1, <2>2 DEF MailedUpTo
  <2>6. MailedUpTo(r)'
    BY <2>1, <2>3, <2>4, <2>5 DEF MailedUpTo
  <2> QED BY <2>1, <2>2, <2>6, LedgerSends
<1>8. ASSUME NEW r \in Replicas, MailFails(r) \/ HookFails(r) PROVE Ledger'
  <2>1. /\ Alone(r) /\ rep'[r].sent = rep[r].sent /\ rep'[r].step = ReleaseStep
        /\ UNCHANGED <<job, got, told, throttled>>
    BY <1>8, MailFailsEffect, HookFailsEffect DEF SameLedger
  <2>2. MailedUpTo(r)'
    BY <2>1, Steps DEF MailedUpTo
  <2> QED BY <1>0, <2>1, <2>2, LedgerQuiet
<1>9. ASSUME NEW r \in Replicas, PostHook(r) PROVE Ledger'
  <2>1. /\ Alone(r) /\ rep[r].cur \in Runs /\ rep[r].step = HookStep
        /\ Sends(r, Hook) /\ rep'[r].cur = NoRun
        /\ told' = told \cup {rep[r].cur}
        /\ UNCHANGED <<job, throttled>>
    BY <1>9, PostHookEffect DEF LetsGo
  <2>2. MailedUpTo(r)'
    BY <2>1 DEF MailedUpTo
  <2>3. job[rep[r].cur].end # "none"
    BY <1>0, <2>1 DEF HandedTo
  <2>4. \/ rep[r].cur \in throttled
        \/ \A d \in Addresses : d \in rep[r].sent[rep[r].cur]
    <3>1. \A i \in DOMAIN Mails : i < HookStep
      BY Steps
    <3>2. HookStep <= HookStep
      BY Steps
    <3>3. \/ rep[r].cur \in throttled
          \/ \A i \in DOMAIN Mails : Mails[i] \in rep[r].sent[rep[r].cur]
      BY <1>0, <2>1, <3>1, <3>2 DEF MailedUpTo
    <3> QED BY <3>3 DEF Addresses
  <2> QED BY <2>1, <2>2, <2>3, <2>4, LedgerSends, Steps
<1>10. ASSUME NEW r \in Replicas, ReleaseNotifyClaim(r) PROVE Ledger'
  <2>1. /\ Alone(r) /\ rep'[r].sent = rep[r].sent /\ rep'[r].cur = NoRun
        /\ job' = [job EXCEPT ![rep[r].cur].claimed = FALSE]
        /\ UNCHANGED <<got, told, throttled>>
    BY <1>10, ReleaseEffect DEF SameLedger, LetsGo
  <2>2. \A j \in Runs : job'[j].end = job[j].end
    BY <2>1 DEF Typed, RunRecord
  <2>3. MailedUpTo(r)'
    BY <2>1 DEF MailedUpTo
  <2> QED BY <1>0, <2>1, <2>2, <2>3, LedgerQuiet
<1>11. ASSUME NEW r \in Replicas, ReleaseFails(r) PROVE Ledger'
  <2>1. /\ Alone(r) /\ rep'[r].sent = rep[r].sent /\ rep'[r].cur = NoRun
        /\ UNCHANGED <<job, got, told, throttled>>
    BY <1>11, ReleaseFailsEffect DEF SameLedger, LetsGo
  <2>2. MailedUpTo(r)'
    BY <2>1 DEF MailedUpTo
  <2> QED BY <1>0, <2>1, <2>2, LedgerQuiet
<1>12. ASSUME NEW r \in Replicas, Crash(r) PROVE Ledger'
  <2>1. /\ Alone(r) /\ rep'[r].cur = NoRun
        /\ \A j \in Runs : rep'[r].sent[j] = {}
        /\ UNCHANGED <<job, got, told, throttled>>
    BY <1>12, CrashEffect
  <2>2. MailedUpTo(r)'
    BY <2>1 DEF MailedUpTo
  <2> QED BY <1>0, <2>1, <2>2, LedgerQuiet
<1>13. CASE UNCHANGED vars
  BY <1>13 DEF vars, Ledger, Heard, Progress, MailedUpTo, ToldEnded, ToldMeansHeard
<1> QED BY <1>1, <1>2, <1>3, <1>4, <1>5, <1>6, <1>7, <1>8, <1>9, <1>10, <1>11, <1>12, <1>13
        DEF Next, SweepStep

\* Whichever replicas make the attempts, and however they fail: a failed run the
\* sweep is done with was heard of on the webhook, and by every address unless
\* its mail was throttled.
THEOREM ToldIsHeard == Spec => []ToldMeansHeard
<1>1. Init => Typed /\ Handed /\ OneTeller /\ Ledger
  BY TypedInit, HandInit, LedgerInit
<1>2. Typed /\ Handed /\ OneTeller /\ Ledger /\ [Next]_vars
        => (Typed /\ Handed /\ OneTeller /\ Ledger)'
  BY TypedStep, HandStep, LedgerStep
<1>3. Ledger => ToldMeansHeard
  BY DEF Ledger
<1> QED BY <1>1, <1>2, <1>3, PTL DEF Spec

-----------------------------------------------------------------------------
(* The mail window.                                                        *)

\* The run that holds the window is being mailed about, or somebody was.
Holds(r) ==
    rep[r].holder.run # NoRun =>
        \/ rep[r].cur = rep[r].holder.run /\ rep[r].step \in DOMAIN Mails
        \/ rep[r].sent[rep[r].holder.run] \cap Addresses # {}
Windows == \A r \in Replicas : Holds(r)

\* No window is open at first.
LEMMA WindowsInit == Init => Windows
  BY FreshType, NotifyAssumption DEF Init, Windows, Holds

\* Only the process that moves has to be looked at.
LEMMA HoldsCase ==
  ASSUME Windows, NEW r \in Replicas, Alone(r), Holds(r)'
  PROVE  Windows'
  BY DEF Windows, Holds, Alone

\* A process that has nobody to mail, and whose ledger does not change.
LEMMA HoldsQuiet ==
  ASSUME Windows, NEW r \in Replicas, Alone(r), SameLedger(r), rep[r].step \notin DOMAIN Mails
  PROVE  Windows'
<1>1. Holds(r)'
  BY DEF Windows, Holds, SameLedger
<1> QED BY <1>1, HoldsCase

\* Every open window keeps the mail that opened it.
LEMMA WindowsStep == Typed /\ Windows /\ [Next]_vars => Windows'
<1> SUFFICES ASSUME Typed, Windows, [Next]_vars PROVE Windows'
  OBVIOUS
<1>0. /\ \A r \in Replicas : Holds(r) /\ (rep[r].cur = NoRun => rep[r].step = 0)
      /\ 0 \notin DOMAIN Mails /\ HookStep \notin DOMAIN Mails /\ ReleaseStep \notin DOMAIN Mails
      /\ 1 \in DOMAIN Mails
  BY Steps DEF Windows, Typed
<1>1. CASE Tick \/ (\E j \in Runs : Finish(j)) \/ UNCHANGED vars
  BY <1>1 DEF Tick, Finish, vars, Windows, Holds
<1>2. ASSUME NEW r \in Replicas, ClaimUnnotified(r) PROVE Windows'
  BY <1>0, <1>2, ClaimEffect, HoldsQuiet
<1>3. ASSUME NEW r \in Replicas, NEW j \in Runs, PassOver(r, j) PROVE Windows'
  BY <1>0, <1>3, PassOverEffect, HoldsQuiet
<1>4. ASSUME NEW r \in Replicas, NEW j \in Runs, Admit(r, j) PROVE Windows'
  <2>1. Holds(r)' /\ Alone(r)
    BY <1>0, <1>4, AdmitEffect DEF Holds
  <2> QED BY <2>1, HoldsCase
<1>5. ASSUME NEW r \in Replicas, NEW j \in Runs, Throttle(r, j) PROVE Windows'
  BY <1>0, <1>5, ThrottleEffect, HoldsQuiet
<1>6. ASSUME NEW r \in Replicas, Mail(r) PROVE Windows'
  <2>1. /\ Alone(r) /\ rep[r].cur \in Runs /\ rep[r].step \in DOMAIN Mails
        /\ Sends(r, Mails[rep[r].step])
        /\ rep'[r].cur = rep[r].cur /\ rep'[r].holder = rep[r].holder
    BY <1>6, MailEffect
  <2>2. Mails[rep[r].step] \in Addresses
    BY <2>1, Steps
  <2>3. /\ \A j \in Runs : rep[r].sent[j] \subseteq rep'[r].sent[j]
        /\ Mails[rep[r].step] \in rep'[r].sent[rep[r].cur]
    BY <2>1 DEF Sends, Typed, Process
  <2>4. rep[r].holder.run # NoRun => rep[r].holder.run \in Runs
    BY DEF Typed, Process
  <2>5. Holds(r)'
    BY <1>0, <2>1, <2>2, <2>3, <2>4 DEF Holds
  <2> QED BY <2>1, <2>5, HoldsCase
<1>7. ASSUME NEW r \in Replicas, MailFails(r) PROVE Windows'
  <2>1. Holds(r)' /\ Alone(r)
    BY <1>0, <1>7, MailFailsEffect DEF Holds
  <2> QED BY <2>1, HoldsCase
<1>8. ASSUME NEW r \in Replicas, PostHook(r) PROVE Windows'
  <2>1. /\ Alone(r) /\ rep[r].cur \in Runs /\ rep[r].step = HookStep
        /\ Sends(r, Hook) /\ rep'[r].holder = rep[r].holder
    BY <1>8, PostHookEffect
  <2>2. \A j \in Runs : rep[r].sent[j] \subseteq rep'[r].sent[j]
    BY <2>1 DEF Sends, Typed, Process
  <2>3. rep[r].holder.run # NoRun => rep[r].holder.run \in Runs
    BY DEF Typed, Process
  <2>4. Holds(r)'
    BY <1>0, <2>1, <2>2, <2>3 DEF Holds
  <2> QED BY <2>1, <2>4, HoldsCase
<1>9. ASSUME NEW r \in Replicas, HookFails(r) PROVE Windows'
  BY <1>0, <1>9, HookFailsEffect, HoldsQuiet
<1>10. ASSUME NEW r \in Replicas, ReleaseNotifyClaim(r) PROVE Windows'
  <2>1. rep[r].step \notin DOMAIN Mails
    BY <1>0, <1>10 DEF ReleaseNotifyClaim
  <2> QED BY <1>10, <2>1, ReleaseEffect, HoldsQuiet
<1>11. ASSUME NEW r \in Replicas, ReleaseFails(r) PROVE Windows'
  <2>1. rep[r].step \notin DOMAIN Mails
    BY <1>0, <1>11 DEF ReleaseFails
  <2> QED BY <1>11, <2>1, ReleaseFailsEffect, HoldsQuiet
<1>12. ASSUME NEW r \in Replicas, Crash(r) PROVE Windows'
  <2>1. Holds(r)' /\ Alone(r)
    BY <1>12, CrashEffect DEF Holds
  <2> QED BY <2>1, HoldsCase
<1> QED BY <1>1, <1>2, <1>3, <1>4, <1>5, <1>6, <1>7, <1>8, <1>9, <1>10, <1>11, <1>12
        DEF Next, SweepStep

\* What ThrottledBehindMail says of one step.
LEMMA ThrottleStep ==
  ASSUME Typed, Windows, Next
  PROVE  \A j \in Runs : \A r \in Replicas :
            rep'[r].cur = j /\ rep[r].cur = NoRun /\ rep'[r].step = HookStep =>
                rep[r].sent[rep[r].holder.run] \cap Addresses # {}
<1> SUFFICES ASSUME NEW j \in Runs, NEW r \in Replicas,
                    rep'[r].cur = j, rep[r].cur = NoRun, rep'[r].step = HookStep
             PROVE  rep[r].sent[rep[r].holder.run] \cap Addresses # {}
  OBVIOUS
<1>0. NoRun \notin Runs /\ HookStep # 1 /\ rep[r].step = 0 /\ 0 \notin DOMAIN Mails
      /\ HookStep # 0
  BY Steps, NotifyAssumption DEF Typed
<1>1. rep' # rep
  BY <1>0
<1>2. PICK q \in Replicas : SweepStep(q) \/ ReleaseFails(q) \/ Crash(q)
  BY <1>1 DEF Next, Tick, Finish
<1>3. Alone(q) => q = r
  BY <1>0 DEF Alone
<1>4. CASE ClaimUnnotified(q)
  BY <1>0, <1>3, <1>4, ClaimEffect
<1>5. ASSUME NEW k \in Runs, PassOver(q, k) PROVE FALSE
  BY <1>0, <1>3, <1>5, PassOverEffect
<1>6. ASSUME NEW k \in Runs, Admit(q, k) PROVE FALSE
  BY <1>0, <1>3, <1>6, AdmitEffect
<1>7. ASSUME NEW k \in Runs, Throttle(q, k) PROVE rep[r].sent[rep[r].holder.run] \cap Addresses # {}
  <2>1. q = r /\ rep[r].holder.run # NoRun
    BY <1>3, <1>7, ThrottleEffect
  <2> QED BY <1>0, <2>1 DEF Windows, Holds
<1>8. CASE Mail(q) \/ MailFails(q)
  BY <1>0, <1>3, <1>8, MailEffect, MailFailsEffect
<1>9. CASE PostHook(q)
  BY <1>0, <1>3, <1>9, PostHookEffect DEF LetsGo
<1>10. CASE HookFails(q)
  BY <1>0, <1>3, <1>10, HookFailsEffect
<1>11. CASE ReleaseNotifyClaim(q)
  BY <1>0, <1>3, <1>11, ReleaseEffect DEF LetsGo
<1>12. CASE ReleaseFails(q)
  BY <1>0, <1>3, <1>12, ReleaseFailsEffect DEF LetsGo
<1>13. CASE Crash(q)
  BY <1>0, <1>3, <1>13, CrashEffect
<1> QED BY <1>2, <1>4, <1>5, <1>6, <1>7, <1>8, <1>9, <1>10, <1>11, <1>12, <1>13 DEF SweepStep

\* release "so the next failure is not throttled behind a mail that never went
\* out", for any number of addresses, runs and windows.
THEOREM ThrottleIsJustified == Spec => ThrottledBehindMail
<1>1. Init => Typed /\ Windows
  BY TypedInit, WindowsInit
<1>2. Typed /\ Windows /\ [Next]_vars => (Typed /\ Windows)'
  BY TypedStep, WindowsStep
<1>3. Typed /\ Windows /\ [Next]_vars =>
        [\A j \in Runs : \A r \in Replicas :
            rep'[r].cur = j /\ rep[r].cur = NoRun /\ rep'[r].step = HookStep =>
                rep[r].sent[rep[r].holder.run] \cap Addresses # {}]_vars
  BY ThrottleStep
<1> QED BY <1>1, <1>2, <1>3, PTL DEF Spec, ThrottledBehindMail

-----------------------------------------------------------------------------
(* How often a channel hears of a run.                                     *)

\* A process that is alive, and has not reached the channel.
Silent(p, j, c) == p[2] = rep[p[1]].life /\ c \notin rep[p[1]].sent[j]

\* The processes that tried the run and may have reached the channel.
Credit(j, c) == {p \in tried[j] : ~Silent(p, j, c)}

\* Each claim is an attempt, processes do not come back to life, and a channel
\* has heard of a run at most as often as processes may have reached it.
CountedOn(j) ==
    /\ IsFiniteSet(tried[j]) /\ Cardinality(tried[j]) <= job[j].attempts
    /\ \A p \in tried[j] : p[2] <= rep[p[1]].life
    /\ \A c \in Channels : got[j][c] <= Cardinality(Credit(j, c))
Counted == \A j \in Runs : CountedOn(j)

\* Nothing has been sent or tried at first.
LEMMA CountedInit == Init => Counted
<1> SUFFICES ASSUME Init, NEW j \in Runs PROVE CountedOn(j)
  BY DEF Counted
<1>1. tried[j] = {} /\ job[j].attempts = 0 /\ \A c \in Channels : got[j][c] = 0 /\ Credit(j, c) = {}
  BY DEF Init, Credit
<1>2. IsFiniteSet({}) /\ Cardinality({}) = 0
  BY FS_EmptySet
<1> QED BY <1>1, <1>2 DEF CountedOn

\* The processes with credit are among those that tried.
LEMMA CreditFinite ==
  ASSUME Typed, NEW j \in Runs, CountedOn(j), NEW c \in Channels
  PROVE  /\ IsFiniteSet(Credit(j, c)) /\ Cardinality(Credit(j, c)) \in Nat
         /\ Cardinality(Credit(j, c)) <= Cardinality(tried[j])
<1>1. Credit(j, c) \subseteq tried[j] /\ IsFiniteSet(tried[j])
  BY DEF Credit, CountedOn
<1> QED BY <1>1, FS_Subset, FS_CardinalityType

\* Neither more attempts nor more sends, and a credit that does not shrink.
LEMMA CountedQuiet ==
  ASSUME Typed, Counted, NEW r \in Replicas, Alone(r), UNCHANGED <<got, tried>>,
         \A j \in Runs : job'[j].attempts = job[j].attempts,
         \/ rep'[r].life = rep[r].life /\ rep'[r].sent = rep[r].sent
         \/ rep'[r].life = rep[r].life + 1
  PROVE  Counted'
<1> SUFFICES ASSUME NEW j \in Runs PROVE CountedOn(j)'
  BY DEF Counted
<1>1. CountedOn(j) /\ tried'[j] = tried[j] /\ got'[j] = got[j] /\ job'[j].attempts = job[j].attempts
  BY DEF Counted
<1>2. \A p \in tried[j] : p[1] \in Replicas /\ p[2] \in Nat /\ p[2] <= rep[p[1]].life /\ rep[p[1]].life \in Nat
  BY <1>1 DEF Typed, Process, CountedOn
<1>3. \A q \in Replicas \ {r} : rep'[q] = rep[q]
  BY DEF Alone
<1>4. \A p \in tried[j] : p[2] <= rep'[p[1]].life
  BY <1>2, <1>3
<1>5. \A c \in Channels : \A p \in tried[j] : ~Silent(p, j, c) => ~Silent(p, j, c)'
  BY <1>2, <1>3 DEF Silent
<1>6. ASSUME NEW c \in Channels PROVE got'[j][c] <= Cardinality(Credit(j, c)')
  <2>1. Credit(j, c) \subseteq Credit(j, c)' /\ Credit(j, c)' \subseteq tried[j]
    BY <1>1, <1>5 DEF Credit
  <2>2. IsFiniteSet(Credit(j, c)')
    BY <1>1, <2>1, FS_Subset DEF CountedOn
  <2>3. /\ Cardinality(Credit(j, c)) <= Cardinality(Credit(j, c)')
        /\ Cardinality(Credit(j, c)) \in Nat /\ Cardinality(Credit(j, c)') \in Nat
    BY <2>1, <2>2, FS_Subset, FS_CardinalityType
  <2>4. got[j][c] \in Nat /\ got[j][c] <= Cardinality(Credit(j, c))
    BY <1>1 DEF CountedOn, Typed
  <2> QED BY <1>1, <2>3, <2>4
<1> QED BY <1>1, <1>4, <1>6 DEF CountedOn

\* A claim is one more attempt and at most one more process.
LEMMA CountedClaim ==
  ASSUME Typed, Counted, NEW r \in Replicas, ClaimUnnotified(r)
  PROVE  Counted'
<1>1. PICK S \in SUBSET Due :
            /\ job' = [j \in Runs |-> IF j \in S THEN [job[j] EXCEPT !.claimed = TRUE, !.attempts = @ + 1]
                                                ELSE job[j]]
            /\ tried' = [j \in Runs |-> IF j \in S THEN tried[j] \cup {<<r, rep[r].life>>} ELSE tried[j]]
  BY ClaimEffect
<1>2. /\ Alone(r) /\ UNCHANGED got /\ rep'[r].life = rep[r].life /\ rep'[r].sent = rep[r].sent
  BY ClaimEffect DEF SameLedger
<1>3. \A q \in Replicas : rep'[q].life = rep[q].life /\ rep'[q].sent = rep[q].sent
  BY <1>2 DEF Alone
<1>4. \A p, j, c : p[1] \in Replicas => (Silent(p, j, c)' <=> Silent(p, j, c))
  BY <1>3 DEF Silent
<1> SUFFICES ASSUME NEW j \in Runs PROVE CountedOn(j)'
  BY DEF Counted
<1>5. /\ CountedOn(j) /\ IsFiniteSet(tried[j]) /\ Cardinality(tried[j]) \in Nat
      /\ Cardinality(tried[j]) <= job[j].attempts
      /\ \A p \in tried[j] : p[1] \in Replicas /\ p[2] <= rep[p[1]].life
      /\ job[j].attempts \in Nat /\ rep[r].life \in Nat
  BY FS_CardinalityType DEF Counted, CountedOn, Typed, Process, RunRecord
<1>6. /\ tried[j] \subseteq tried'[j] /\ IsFiniteSet(tried'[j])
      /\ Cardinality(tried'[j]) <= job'[j].attempts
  <2>1. CASE j \in S
    <3>1. tried'[j] = tried[j] \cup {<<r, rep[r].life>>} /\ job'[j].attempts = job[j].attempts + 1
      BY <1>1, <2>1, ClaimedType
    <3>2. /\ IsFiniteSet(tried'[j])
          /\ \/ Cardinality(tried'[j]) = Cardinality(tried[j])
             \/ Cardinality(tried'[j]) = Cardinality(tried[j]) + 1
      <4>1. /\ IsFiniteSet(tried[j] \cup {<<r, rep[r].life>>})
            /\ Cardinality(tried[j] \cup {<<r, rep[r].life>>}) =
                   IF <<r, rep[r].life>> \in tried[j] THEN Cardinality(tried[j]) ELSE Cardinality(tried[j]) + 1
        BY <1>5, FS_AddElement
      <4> QED BY <3>1, <4>1
    <3> QED BY <1>5, <3>1, <3>2
  <2>2. CASE j \notin S
    <3>1. tried'[j] = tried[j] /\ job'[j] = job[j]
      BY <1>1, <2>2
    <3> QED BY <1>5, <3>1
  <2> QED BY <2>1, <2>2
<1>7. \A p \in tried'[j] : p[1] \in Replicas /\ p[2] <= rep'[p[1]].life
  <2>1. \A p \in tried'[j] : p \in tried[j] \/ p = <<r, rep[r].life>>
    BY <1>1
  <2>2. rep[r].life <= rep[r].life
    BY <1>5
  <2> QED BY <1>3, <1>5, <2>1, <2>2
<1>8. ASSUME NEW c \in Channels PROVE got'[j][c] <= Cardinality(Credit(j, c)')
  <2>1. Credit(j, c) \subseteq Credit(j, c)' /\ Credit(j, c)' \subseteq tried'[j]
    BY <1>4, <1>5, <1>6 DEF Credit
  <2>2. IsFiniteSet(Credit(j, c)')
    BY <1>6, <2>1, FS_Subset
  <2>3. /\ Cardinality(Credit(j, c)) <= Cardinality(Credit(j, c)')
        /\ Cardinality(Credit(j, c)) \in Nat /\ Cardinality(Credit(j, c)') \in Nat
    BY <2>1, <2>2, FS_Subset, FS_CardinalityType
  <2>4. got[j][c] \in Nat /\ got[j][c] <= Cardinality(Credit(j, c)) /\ got'[j][c] = got[j][c]
    BY <1>2, <1>5 DEF CountedOn, Typed
  <2> QED BY <2>3, <2>4
<1> QED BY <1>6, <1>7, <1>8 DEF CountedOn

\* A send that was answered: the channel hears once more only from a process
\* that was silent until now.
LEMMA CountedSends ==
  ASSUME Typed, Handed, Counted, NEW r \in Replicas, Alone(r), rep[r].cur \in Runs,
         rep'[r].life = rep[r].life, NEW c \in Channels, Sends(r, c), UNCHANGED <<job, tried>>
  PROVE  Counted'
<1> DEFINE me == <<r, rep[r].life>>
<1>1. rep[r].cur \in InHand(r) /\ me \in tried[rep[r].cur]
  BY NotifyAssumption DEF InHand, Handed, HandedTo
<1>2. \A q \in Replicas \ {r} : rep'[q] = rep[q]
  BY DEF Alone
<1>3. \A j \in Runs : rep'[r].sent[j] = IF j = rep[r].cur THEN rep[r].sent[j] \cup {c} ELSE rep[r].sent[j]
  BY DEF Sends, Typed, Process
<1> SUFFICES ASSUME NEW j \in Runs PROVE CountedOn(j)'
  BY DEF Counted
<1>4. /\ CountedOn(j) /\ IsFiniteSet(tried[j])
      /\ \A p \in tried[j] : p = <<p[1], p[2]>> /\ p[1] \in Replicas
  BY DEF Counted, CountedOn, Typed
<1>5. IsFiniteSet(tried'[j]) /\ Cardinality(tried'[j]) <= job'[j].attempts
  BY <1>4 DEF CountedOn
<1>6. \A p \in tried'[j] : p[2] <= rep'[p[1]].life
  BY <1>2, <1>4 DEF CountedOn
<1>7. ASSUME NEW d \in Channels PROVE got'[j][d] <= Cardinality(Credit(j, d)')
  <2>1. Credit(j, d)' \subseteq tried[j] /\ IsFiniteSet(Credit(j, d)')
    BY <1>4, FS_Subset DEF Credit
  <2>2. \A p \in tried[j] : ~Silent(p, j, d) => ~Silent(p, j, d)'
    BY <1>2, <1>3, <1>4 DEF Silent
  <2>3. Credit(j, d) \subseteq Credit(j, d)'
    BY <2>2 DEF Credit
  <2>4. /\ IsFiniteSet(Credit(j, d)) /\ Cardinality(Credit(j, d)) <= Cardinality(Credit(j, d)')
        /\ Cardinality(Credit(j, d)) \in Nat /\ Cardinality(Credit(j, d)') \in Nat
    BY <2>1, <2>3, FS_Subset, FS_CardinalityType
  <2>5. got[j][d] \in Nat /\ got[j][d] <= Cardinality(Credit(j, d))
    BY <1>4 DEF CountedOn, Typed
  <2>6. CASE j = rep[r].cur /\ d = c /\ ~Delivered(r, c)
    <3>1. me \in tried[j] /\ Silent(me, j, d) /\ ~Silent(me, j, d)'
      BY <1>1, <1>3, <2>6 DEF Silent, Delivered
    <3>2. me \notin Credit(j, d) /\ me \in Credit(j, d)'
      BY <3>1 DEF Credit
    <3>3. Credit(j, d) \cup {me} \subseteq Credit(j, d)'
      BY <2>3, <3>2
    <3>4. /\ IsFiniteSet(Credit(j, d) \cup {me})
          /\ Cardinality(Credit(j, d) \cup {me}) = Cardinality(Credit(j, d)) + 1
      BY <2>4, <3>2, FS_AddElement
    <3>5. Cardinality(Credit(j, d)) + 1 <= Cardinality(Credit(j, d)')
      BY <2>1, <3>3, <3>4, FS_Subset
    <3>6. got'[j][d] = got[j][d] + 1
      BY <2>6, SendsType
    <3> QED BY <2>4, <2>5, <3>5, <3>6
  <2>7. CASE ~(j = rep[r].cur /\ d = c /\ ~Delivered(r, c))
    <3>1. got'[j][d] = got[j][d]
      BY <2>7, SendsType
    <3> QED BY <2>4, <2>5, <3>1
  <2> QED BY <2>6, <2>7
<1> QED BY <1>5, <1>6, <1>7 DEF CountedOn

\* No step lets a channel hear more often than processes reached the run.
LEMMA CountedStep == Typed /\ Handed /\ Counted /\ [Next]_vars => Counted'
<1> SUFFICES ASSUME Typed, Handed, Counted, [Next]_vars PROVE Counted'
  OBVIOUS
<1>1. CASE Tick \/ UNCHANGED vars
  BY <1>1 DEF Tick, vars, Counted, CountedOn, Credit, Silent
<1>2. ASSUME NEW j \in Runs, Finish(j) PROVE Counted'
  <2>1. UNCHANGED <<rep, got, tried>> /\ \A k \in Runs : job'[k].attempts = job[k].attempts
    BY <1>2 DEF Finish, Typed, RunRecord
  <2> QED BY <2>1 DEF Counted, CountedOn, Credit, Silent
<1>3. ASSUME NEW r \in Replicas, ClaimUnnotified(r) PROVE Counted'
  BY <1>3, CountedClaim
<1>4. ASSUME NEW r \in Replicas, NEW j \in Runs, PassOver(r, j) \/ Admit(r, j) \/ Throttle(r, j)
      PROVE  Counted'
  <2>1. /\ Alone(r) /\ UNCHANGED <<got, tried, job>>
        /\ rep'[r].life = rep[r].life /\ rep'[r].sent = rep[r].sent
    BY <1>4, PassOverEffect, AdmitEffect, ThrottleEffect DEF SameLedger
  <2> QED BY <2>1, CountedQuiet
<1>5. ASSUME NEW r \in Replicas, Mail(r) PROVE Counted'
  BY <1>5, MailEffect, CountedSends, Steps
<1>6. ASSUME NEW r \in Replicas, PostHook(r) PROVE Counted'
  BY <1>6, PostHookEffect, CountedSends, Steps
<1>7. ASSUME NEW r \in Replicas, MailFails(r) \/ HookFails(r) \/ ReleaseFails(r) PROVE Counted'
  <2>1. /\ Alone(r) /\ UNCHANGED <<got, tried, job>>
        /\ rep'[r].life = rep[r].life /\ rep'[r].sent = rep[r].sent
    BY <1>7, MailFailsEffect, HookFailsEffect, ReleaseFailsEffect DEF SameLedger
  <2> QED BY <2>1, CountedQuiet
<1>8. ASSUME NEW r \in Replicas, ReleaseNotifyClaim(r) PROVE Counted'
  <2>1. /\ Alone(r) /\ UNCHANGED <<got, tried>>
        /\ job' = [job EXCEPT ![rep[r].cur].claimed = FALSE]
        /\ rep'[r].life = rep[r].life /\ rep'[r].sent = rep[r].sent
    BY <1>8, ReleaseEffect DEF SameLedger
  <2>2. \A k \in Runs : job'[k].attempts = job[k].attempts
    BY <2>1 DEF Typed, RunRecord
  <2> QED BY <2>1, <2>2, CountedQuiet
<1>9. ASSUME NEW r \in Replicas, Crash(r) PROVE Counted'
  <2>1. Alone(r) /\ UNCHANGED <<got, tried, job>> /\ rep'[r].life = rep[r].life + 1
    BY <1>9, CrashEffect
  <2> QED BY <2>1, CountedQuiet
<1> QED BY <1>1, <1>2, <1>3, <1>4, <1>5, <1>6, <1>7, <1>8, <1>9 DEF Next, SweepStep

\* What the counts imply.
LEMMA CountsImply == ASSUME Typed, Counted PROVE OncePerProcess /\ TypeOK
<1>1. ASSUME NEW j \in Runs, NEW c \in Channels
      PROVE  got[j][c] <= Cardinality(tried[j]) /\ got[j][c] \in 0 .. MaxAttempts
  <2>1. /\ CountedOn(j) /\ got[j][c] \in Nat /\ got[j][c] <= Cardinality(Credit(j, c))
        /\ Cardinality(tried[j]) <= job[j].attempts
        /\ job[j].attempts \in Nat /\ job[j].attempts <= MaxAttempts
    BY NotifyAssumption DEF Counted, CountedOn, Typed, RunRecord
  <2>2. Cardinality(Credit(j, c)) \in Nat /\ Cardinality(Credit(j, c)) <= Cardinality(tried[j])
    BY <2>1, CreditFinite
  <2>3. Cardinality(tried[j]) \in Nat
    BY <2>1, FS_CardinalityType DEF CountedOn
  <2> QED BY <2>1, <2>2, <2>3, NotifyAssumption
<1>2. got \in [Runs -> [Channels -> 0 .. MaxAttempts]]
  <2>1. \A j \in Runs : got[j] \in [Channels -> 0 .. MaxAttempts]
    BY <1>1 DEF Typed
  <2> QED BY <2>1 DEF Typed
<1> QED BY <1>1, <1>2 DEF OncePerProcess, TypeOK, Typed, Process, RunRecord

\* failureMailLedger "so a retry after a partial failure redoes only what failed
\* rather than mailing twice": a channel hears of a run at most once from each
\* process that tried, over any number of attempts and crashes.
THEOREM OneMailPerProcess == Spec => []OncePerProcess
<1>1. Init => Typed /\ Handed /\ OneTeller /\ Counted
  BY TypedInit, HandInit, CountedInit
<1>2. Typed /\ Handed /\ OneTeller /\ Counted /\ [Next]_vars
        => (Typed /\ Handed /\ OneTeller /\ Counted)'
  BY TypedStep, HandStep, CountedStep
<1>3. Typed /\ Counted => OncePerProcess
  BY CountsImply
<1> QED BY <1>1, <1>2, <1>3, PTL DEF Spec

\* Every reachable state is well typed; in particular notifyMaxAttempts bounds how
\* often any channel hears of a run.
THEOREM NotifyTypeCorrect == Spec => []TypeOK
<1>1. Init => Typed /\ Handed /\ OneTeller /\ Counted
  BY TypedInit, HandInit, CountedInit
<1>2. Typed /\ Handed /\ OneTeller /\ Counted /\ [Next]_vars
        => (Typed /\ Handed /\ OneTeller /\ Counted)'
  BY TypedStep, HandStep, CountedStep
<1>3. Typed /\ Counted => TypeOK
  BY CountsImply
<1> QED BY <1>1, <1>2, <1>3, PTL DEF Spec
=============================================================================
