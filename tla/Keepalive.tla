----------------------------- MODULE Keepalive -----------------------------
(***************************************************************************)
(* Keeping SIMs alive (internal/keepalive): a run sends one paid SMS from  *)
(* a SIM that had no activity for some days, at most MaxPerMonth times per *)
(* SIM and month.  The daily run of the scheduler, the runs an             *)
(* administrator starts for the whole tray (RunAll) and for one SIM        *)
(* (RunOne with force) overlap: each takes its picture of the SIMs with    *)
(* Collect, outside the lock, and sends in runOne, under s.mu.             *)
(***************************************************************************)
EXTENDS Integers, FiniteSets

CONSTANTS
    SIMs,        \* the SIMs an administrator may enable keepalive for
    RunAlls,     \* the overlapping calls of runAll
    RunOnes,     \* the overlapping calls of RunOne
    MaxPerMonth, \* cfg.MaxPerMonth
    Interval,    \* cfg.IntervalDays, or the interval of the SIM
    MaxDay,      \* bound on the days
    Months,      \* calendar months
    MonthOf,     \* day -> month
    MaxLost,     \* bound on lost SMS per SIM and month
    None

Runners == RunAlls \cup RunOnes
Days == 0..MaxDay

ASSUME KeepaliveAssumption ==
    /\ MaxPerMonth \in Nat /\ Interval \in Nat \ {0}
    /\ MaxDay \in Nat /\ MaxLost \in Nat /\ MonthOf \in [Days -> Months]
    /\ None \notin SIMs \cup Runners \cup Nat
    /\ RunAlls \cap RunOnes = {}

VARIABLES
    day,       \* today
    enabled,   \* modems.keepalive_enabled
    activity,  \* the day of the newest SMS of a SIM, or of its first sight
    lastSent,  \* keepalive_runs: the day of the newest "sent" run, or None
    sentCount, \* keepalive_runs: the "sent" runs of a SIM per month
    mu,        \* the runner that holds s.mu
    pc,        \* where a runner is
    todo,      \* the SIMs a runner has still to look at
    seen,      \* LastActivityAt in the items of a runner
    cur,       \* the SIM and ...
    ranAt,     \* ... RanAt of the run in progress
    result,    \* what SendSMS reported: "sent" or "failed"
    paid,      \* history: the SMS the network took over, per month of RanAt
    lost       \* history: those of them no "sent" run was written for

dbVars == <<enabled, activity, lastSent, sentCount>>
runVars == <<mu, pc, todo, seen, cur, ranAt, result>>
vars == <<day, dbVars, runVars, paid, lost>>

TypeOK ==
    /\ day \in Days
    /\ enabled \subseteq SIMs
    /\ activity \in [SIMs -> Days]
    /\ lastSent \in [SIMs -> Days \cup {None}]
    /\ sentCount \in [SIMs -> [Months -> Nat]]
    /\ mu \in Runners \cup {None}
    /\ pc \in [Runners -> {"idle", "loop", "send", "add"}]
    /\ todo \in [Runners -> SUBSET SIMs]
    /\ seen \in [Runners -> [SIMs -> Days]]
    /\ cur \in [Runners -> SIMs \cup {None}]
    /\ ranAt \in [Runners -> Days]
    /\ result \in [Runners -> {"sent", "failed"}]
    /\ paid \in [SIMs -> [Months -> Nat]]
    /\ lost \in [SIMs -> [Months -> Nat]]

Init ==
    /\ day = 0
    /\ enabled \in SUBSET SIMs
    /\ activity = [s \in SIMs |-> 0]
    /\ lastSent = [s \in SIMs |-> None]
    /\ sentCount = [s \in SIMs |-> [n \in Months |-> 0]]
    /\ mu = None
    /\ pc = [r \in Runners |-> "idle"]
    /\ todo = [r \in Runners |-> {}]
    /\ seen = [r \in Runners |-> [s \in SIMs |-> 0]]
    /\ cur = [r \in Runners |-> None]
    /\ ranAt = [r \in Runners |-> 0]
    /\ result = [r \in Runners |-> "failed"]
    /\ paid = [s \in SIMs |-> [n \in Months |-> 0]]
    /\ lost = [s \in SIMs |-> [n \in Months |-> 0]]

-----------------------------------------------------------------------------
\* Mutant of Latest: the newest "sent" run, also when there is none.
LatestOfLog(d, sent) == sent

\* The later of an activity and the newest "sent" run.
Latest(d, sent) == IF sent # None /\ sent > d THEN sent ELSE d

isDue(now, last) == now - last >= Interval

\* Collect: the SIMs that are enabled now (and online and registered, which is
\* the choice of some of them), with their last activity.
Collect(r, S) ==
    /\ pc[r] = "idle"
    /\ todo' = [todo EXCEPT ![r] = S]
    /\ seen' = [seen EXCEPT ![r] =
                  [s \in SIMs |-> Latest(activity[s], lastSent[s])]]
    /\ pc' = [pc EXCEPT ![r] = "loop"]
    /\ UNCHANGED <<day, dbVars, mu, cur, ranAt, result, paid, lost>>

\* The start of runAll, and of RunOne, which does not ask for an online SIM.
StartRun(r) ==
    \/ r \in RunAlls /\ \E S \in SUBSET enabled : Collect(r, S)
    \/ r \in RunOnes /\ \E s \in enabled : Collect(r, {s})

\* The loop is done.
EndRun(r) ==
    /\ pc[r] = "loop"
    /\ todo[r] = {}
    /\ pc' = [pc EXCEPT ![r] = "idle"]
    /\ seen' = [seen EXCEPT ![r] = [s \in SIMs |-> 0]]
    /\ UNCHANGED <<day, dbVars, mu, todo, cur, ranAt, result, paid, lost>>

\* runAll's own test, before the lock: a SIM that is not due is passed over;
\* so is one whose runOne fails to read the log.
PassOver(r, s) ==
    /\ pc[r] = "loop"
    /\ s \in todo[r]
    /\ todo' = [todo EXCEPT ![r] = @ \ {s}]
    /\ UNCHANGED <<day, dbVars, mu, pc, seen, cur, ranAt, result, paid, lost>>

\* Mutants of MaySend: the count and the last run are those of Collect, not
\* read again under the lock; the comparison with the cap is off by one.
MaySendStale(r, s) ==
    /\ sentCount[s][MonthOf[day]] < MaxPerMonth
    /\ r \in RunAlls => isDue(day, seen[r][s])

MaySendOnceMore(r, s) ==
    /\ sentCount[s][MonthOf[day]] <= MaxPerMonth
    /\ r \in RunAlls => isDue(day, Latest(seen[r][s], lastSent[s]))

\* runOne under the lock: below the cap, and due unless forced, by the log as
\* it is now.
MaySend(r, s) ==
    /\ sentCount[s][MonthOf[day]] < MaxPerMonth
    /\ r \in RunAlls => isDue(day, Latest(seen[r][s], lastSent[s]))

\* Mutant of Enter: runOne does not take s.mu.
EnterUnlocked(r, s) ==
    /\ pc[r] = "loop"
    /\ s \in todo[r]
    /\ todo' = [todo EXCEPT ![r] = @ \ {s}]
    /\ MaySend(r, s)
    /\ cur' = [cur EXCEPT ![r] = s]
    /\ ranAt' = [ranAt EXCEPT ![r] = day]
    /\ pc' = [pc EXCEPT ![r] = "send"]
    /\ UNCHANGED <<day, dbVars, mu, seen, result, paid, lost>>

\* runOne: it takes s.mu, passes the tests and finds a target and a text.  The
\* skipped runs (not due, cap reached, no target, bad template) are PassOver:
\* they change nothing that is modelled.
Enter(r, s) ==
    /\ pc[r] = "loop"
    /\ s \in todo[r]
    /\ mu = None
    /\ mu' = r
    /\ todo' = [todo EXCEPT ![r] = @ \ {s}]
    /\ MaySend(r, s)
    /\ cur' = [cur EXCEPT ![r] = s]
    /\ ranAt' = [ranAt EXCEPT ![r] = day]
    /\ pc' = [pc EXCEPT ![r] = "send"]
    /\ UNCHANGED <<day, dbVars, seen, result, paid, lost>>

\* One more for the SIM and the month of the run in progress.
Bump(f, r) == [f EXCEPT ![cur[r]][MonthOf[ranAt[r]]] = @ + 1]

\* The bound of the model on lost SMS.
MayLose(r) == lost[cur[r]][MonthOf[ranAt[r]]] < MaxLost

\* SendSMS: the network takes the message over and it says so, or it reports a
\* failure, after which the message may still have been taken over (a lost or
\* late reply).  A message that SendSMS reports as sent is an SMS in the
\* history too, unless that cannot be saved.
SendSMS(r) ==
    /\ pc[r] = "send"
    /\ pc' = [pc EXCEPT ![r] = "add"]
    /\ \/ /\ result' = [result EXCEPT ![r] = "sent"]
          /\ paid' = Bump(paid, r)
          /\ activity' \in {activity, [activity EXCEPT ![cur[r]] = day]}
          /\ UNCHANGED lost
       \/ /\ result' = [result EXCEPT ![r] = "failed"]
          /\ MayLose(r)
          /\ paid' = Bump(paid, r)
          /\ lost' = Bump(lost, r)
          /\ UNCHANGED activity
       \/ /\ result' = [result EXCEPT ![r] = "failed"]
          /\ UNCHANGED <<activity, paid, lost>>
    /\ UNCHANGED <<day, enabled, lastSent, sentCount, mu, todo, seen, cur, ranAt>>

\* The end of runOne.
Leave(r) ==
    /\ mu' = None
    /\ pc' = [pc EXCEPT ![r] = "loop"]
    /\ cur' = [cur EXCEPT ![r] = None]
    /\ ranAt' = [ranAt EXCEPT ![r] = 0]
    /\ result' = [result EXCEPT ![r] = "failed"]
    /\ UNCHANGED <<day, enabled, activity, todo, seen, paid>>

\* repo.Add writes the run.
Add(r) ==
    /\ pc[r] = "add"
    /\ IF result[r] = "sent"
       THEN /\ sentCount' = Bump(sentCount, r)
            /\ lastSent' = [lastSent EXCEPT ![cur[r]] = ranAt[r]]
       ELSE UNCHANGED <<sentCount, lastSent>>
    /\ Leave(r)
    /\ UNCHANGED lost

\* repo.Add fails: runOne returns an error and the run is forgotten.
AddFails(r) ==
    /\ pc[r] = "add"
    /\ \/ result[r] = "sent" /\ MayLose(r) /\ lost' = Bump(lost, r)
       \/ result[r] = "failed" /\ UNCHANGED lost
    /\ Leave(r)
    /\ UNCHANGED <<sentCount, lastSent>>

-----------------------------------------------------------------------------
(* The environment.                                                        *)

\* An administrator switches keepalive on or off for a SIM (UpdateProfile).
SetEnabled(s) ==
    /\ enabled' = IF s \in enabled THEN enabled \ {s} ELSE enabled \cup {s}
    /\ UNCHANGED <<day, activity, lastSent, sentCount, runVars, paid, lost>>

\* Another SMS of the SIM is received or sent.
SMSActivity(s) ==
    /\ activity' = [activity EXCEPT ![s] = day]
    /\ UNCHANGED <<day, enabled, lastSent, sentCount, runVars, paid, lost>>

NextDay ==
    /\ day < MaxDay
    /\ day' = day + 1
    /\ UNCHANGED <<dbVars, runVars, paid, lost>>

-----------------------------------------------------------------------------
Run(r) ==
    \/ StartRun(r) \/ EndRun(r)
    \/ \E s \in SIMs : PassOver(r, s) \/ Enter(r, s)
    \/ SendSMS(r) \/ Add(r) \/ AddFails(r)

Next ==
    \/ \E r \in Runners : Run(r)
    \/ \E s \in SIMs : SetEnabled(s) \/ SMSActivity(s)
    \/ NextDay

Spec == Init /\ [][Next]_vars

-----------------------------------------------------------------------------
(* Properties.                                                             *)

Sending(r) == pc[r] \in {"send", "add"}

\* The runs the log counts for a SIM and month never exceed the cap, however
\* the scheduler's run and the administrator's overlap and wherever midnight
\* falls between the test and the write.
LoggedWithinCap ==
    \A s \in SIMs, n \in Months : sentCount[s][n] <= MaxPerMonth

\* Every paid SMS beyond the cap is one that SendSMS reported as failed, or
\* whose run could not be written: overlapping runs alone never cause one.
OverspendingWasLost ==
    \A s \in SIMs, n \in Months : paid[s][n] <= MaxPerMonth + lost[s][n]

\* The "sent" runs of a SIM count one more by the step of a run of the scheduler
\* only if the newest "sent" run of that SIM, at that moment, is at least
\* Interval days older: a second one on the same day, or on any day within the
\* interval, is never written, whoever wrote the first and whenever the SIM was
\* collected.
NoDoubleSend ==
    [][\A r \in RunAlls :
        pc[r] = "add" /\ pc'[r] = "loop" /\ sentCount' # sentCount
            => \/ lastSent[cur[r]] = None
               \/ ranAt[r] - lastSent[cur[r]] >= Interval]_vars

\* Only the holder of s.mu is inside runOne, with a SIM; its month is below the
\* cap by what the log says.
UnderLock ==
    /\ \A r \in Runners : Sending(r) <=> mu = r
    /\ \A r \in Runners : Sending(r) =>
        /\ cur[r] \in SIMs
        /\ sentCount[cur[r]][MonthOf[ranAt[r]]] < MaxPerMonth
        /\ r \in RunAlls => \/ lastSent[cur[r]] = None
                            \/ ranAt[r] - lastSent[cur[r]] >= Interval

\* What is paid is logged, lost, or about to be logged by the holder of s.mu.
PaidIsAccounted ==
    \A s \in SIMs, n \in Months :
        paid[s][n] = sentCount[s][n] + lost[s][n] +
            (IF \E r \in Runners : /\ pc[r] = "add" /\ result[r] = "sent"
                                   /\ cur[r] = s /\ MonthOf[ranAt[r]] = n
             THEN 1 ELSE 0)

\* The inductive invariant.
IInv == TypeOK /\ LoggedWithinCap /\ UnderLock /\ PaidIsAccounted
=============================================================================
