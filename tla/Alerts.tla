------------------------------- MODULE Alerts -------------------------------
(***************************************************************************)
(* Balance checks and alerts of one SIM: the scheduler asks the operator   *)
(* for the balance every day, waits, evaluates what the modems table says  *)
(* and alerts; an administrator may start the same at any time; after the  *)
(* daily evaluation comes that of the SIM's health.  An alert is a row,    *)
(* which keeps the next one away for a while, and then a call of the       *)
(* webhooks.  The process may end in between.                              *)
(*                                                                         *)
(* Time passes in ticks, Day of them a day; what matters of a moment is    *)
(* its age, counted up to the age after which it makes no difference.      *)
(***************************************************************************)
EXTENDS Naturals

CONSTANTS
    Runs,        \* goroutines started by RunNow
    HealthKinds, \* the findings of simhealth.Evaluate considered
    Day,         \* ticks of a day, the time between two balance alerts
    Remind,      \* RemindDays: ticks between two alerts of a kind
    Limit,       \* ticks after which a condition is a finding
    None

Evaluators == Runs \cup {"daily"}
BalanceKinds == {"low", "forecast"}
Kinds == BalanceKinds \cup HealthKinds

ASSUME AlertsAssumption ==
    /\ HealthKinds \subseteq {"no_sms", "unregistered", "absent", "plan_expiring"}
    /\ Day \in Nat \ {0} /\ Remind \in Nat /\ Limit \in Nat
    /\ "daily" \notin Runs /\ None \notin Evaluators \cup Kinds

VARIABLES
    phase,   \* the time of day: 0 is CheckHour
    due,     \* a timer of Run has fired
    at,      \* what each evaluator does
    mu,      \* who holds runMu, evalMu and the mutex of simhealth
    pending, \* findings an evaluator has collected and still to alert
    kind,    \* the one it alerts
    recent,  \* a balance was asked for in the last 30 seconds
    level,   \* the level of the balance in the modems table
    readAge, \* age of the balance, up to Day
    where,   \* the SIM: "online", "bay" with the modem off, "out" of the bays
    age,     \* age of the last sign of life that would prevent each finding
    alerted  \* age of the last alert of each group, up to what matters

timeVars == <<phase, due>>
simVars == <<level, readAge, where, age>>
evalVars == <<at, mu, pending, kind>>
vars == <<timeVars, simVars, evalVars, recent, alerted>>

\* Alerts of one group keep each other away: the balance has one for its two
\* kinds, every kind of the health its own.
Groups == {"balance"} \cup HealthKinds
Group(k) == IF k \in BalanceKinds THEN "balance" ELSE k
Apart(g) == IF g = "balance" THEN Day ELSE Remind

Init ==
    /\ phase = 0 /\ due = TRUE
    /\ at = [e \in Evaluators |-> "idle"]
    /\ mu = [m \in {"run", "balance", "health"} |-> None]
    /\ pending = [e \in Evaluators |-> {}]
    /\ kind = [e \in Evaluators |-> None]
    /\ recent = FALSE
    /\ level = "unknown" /\ readAge = Day
    /\ where = "out"
    /\ age = [k \in HealthKinds |-> 0]
    /\ alerted = [g \in Groups |-> Apart(g) + 1]

-----------------------------------------------------------------------------
(* Time, and what happens to the SIM.                                      *)

Older(a, max) == IF a < max THEN a + 1 ELSE a

\* The daily timer fires at CheckHour, if Run waits for it.
Tick ==
    /\ phase' = (phase + 1) % Day
    /\ due' = (due \/ (phase' = 0 /\ at["daily"] = "idle"))
    /\ readAge' = Older(readAge, Day)
    /\ age' = [k \in HealthKinds |-> Older(age[k], Limit)]
    /\ alerted' = [g \in Groups |-> Older(alerted[g], Apart(g) + 1)]
    /\ UNCHANGED <<level, where, evalVars, recent>>

\* Thirty seconds pass.
Forget ==
    /\ recent
    /\ recent' = FALSE
    /\ UNCHANGED <<timeVars, simVars, evalVars, alerted>>

\* A message or an answer tells the balance (captureBalance); Evaluate makes a
\* level of it, the readings before it and the threshold.
Read(l) ==
    /\ level' = l
    /\ readAge' = 0
    /\ UNCHANGED <<timeVars, where, age, evalVars, recent, alerted>>

\* A message is received, the modem registers, the plan is renewed.
SignOfLife(k) ==
    /\ k # "absent" /\ where # "out"
    /\ age' = [age EXCEPT ![k] = 0]
    /\ UNCHANGED <<timeVars, level, readAge, where, evalVars, recent, alerted>>

\* The SIM is removed, which starts its absence, or put into a modem.
Move(w) ==
    /\ w # where
    /\ where' = w
    /\ age' = [k \in HealthKinds |-> IF k = "absent" /\ w = "out" THEN 0 ELSE age[k]]
    /\ UNCHANGED <<timeVars, level, readAge, evalVars, recent, alerted>>

-----------------------------------------------------------------------------
(* Evaluators.                                                             *)

Go(e, step) == at' = [at EXCEPT ![e] = step]

\* eligible: a SIM that is online and, unless the run is forced, was not read
\* in the last 20 hours.
Eligible == where = "online" /\ readAge = Day

\* Run, when a timer has fired.  (The first, after two minutes, asks nobody.)
RunDaily ==
    /\ at["daily"] = "idle"
    /\ due
    /\ due' = FALSE
    /\ \/ Eligible /\ Go("daily", "request")
       \/ Go("daily", "evaluate")
    /\ UNCHANGED <<phase, simVars, mu, pending, kind, recent, alerted>>

\* RunNow, forced or not: its goroutine.
RunNow(e) ==
    /\ at[e] = "idle"
    /\ \/ where = "online" /\ Go(e, "request")
       \/ ~Eligible /\ Go(e, "evaluate")
    /\ UNCHANGED <<timeVars, simVars, mu, pending, kind, recent, alerted>>

\* Request and RequestBalance, under runMu: not twice in 30 seconds.
Request(e) ==
    /\ at[e] = "request"
    /\ mu["run"] = None
    /\ IF recent
       THEN Go(e, "evaluate") /\ UNCHANGED <<recent, mu>>
       ELSE /\ recent' = TRUE
            /\ mu' = [mu EXCEPT !["run"] = e]
            /\ Go(e, "asking")
    /\ UNCHANGED <<timeVars, simVars, pending, kind, alerted>>

\* The USSD code was sent, or could not be: then it may be again at once.
Asked(e) ==
    /\ at[e] = "asking"
    /\ recent' \in {recent, FALSE}
    /\ mu' = [mu EXCEPT !["run"] = None]
    /\ Go(e, "evaluate")
    /\ UNCHANGED <<timeVars, simVars, pending, kind, alerted>>

\* What an evaluation finds, less what a query that fails leaves out: the
\* tables cannot be read, or AlertedWithin answers with an error.
Collect(e, found) ==
    \E kept \in SUBSET found : pending' = [pending EXCEPT ![e] = kept]

\* Mutant of Evaluate: the mutex is not taken.
EvaluateUnlocked(e) ==
    /\ at[e] = "evaluate"
    /\ Collect(e, {level} \cap BalanceKinds)
    /\ Go(e, "check")
    /\ UNCHANGED <<timeVars, simVars, mu, kind, recent, alerted>>

\* Evaluate of the balance, after the answers had their time: the table is
\* read under evalMu.
Evaluate(e) ==
    /\ at[e] = "evaluate"
    /\ mu["balance"] = None
    /\ mu' = [mu EXCEPT !["balance"] = e]
    /\ Collect(e, {level} \cap BalanceKinds)
    /\ Go(e, "check")
    /\ UNCHANGED <<timeVars, simVars, kind, recent, alerted>>

\* simhealth.Evaluate of the SIM: silent in its bay, not registered though the
\* modem is online, out for long, or with a plan that ends.
Findings ==
    {k \in HealthKinds :
        /\ age[k] = Limit
        /\ CASE k = "no_sms" -> where # "out"
             [] k = "unregistered" -> where = "online"
             [] k = "absent" -> where = "out"
             [] k = "plan_expiring" -> TRUE}

\* Evaluate of the SIM's health, which follows the daily one of the balance.
EvaluateHealth(e) ==
    /\ at[e] = "health"
    /\ mu["health"] = None
    /\ mu' = [mu EXCEPT !["health"] = e]
    /\ Collect(e, Findings)
    /\ Go(e, "check")
    /\ UNCHANGED <<timeVars, simVars, kind, recent, alerted>>

\* AlertedWithin: an alert of the group is not older than it may be.  (At the
\* age of a day it depends on the seconds.)
Within(g, answer) ==
    /\ alerted[g] < Apart(g) => answer
    /\ alerted[g] > Apart(g) => ~answer

Check(e) ==
    \E k \in pending[e], within \in BOOLEAN :
      /\ at[e] = "check"
      /\ Within(Group(k), within)
      /\ pending' = [pending EXCEPT ![e] = @ \ {k}]
      /\ IF within
         THEN UNCHANGED <<at, kind>>
         ELSE Go(e, "add") /\ kind' = [kind EXCEPT ![e] = k]
      /\ UNCHANGED <<timeVars, simVars, mu, recent, alerted>>

\* AddAlert ...
AddAlert(e) ==
    /\ at[e] = "add"
    /\ alerted' = [alerted EXCEPT ![Group(kind[e])] = 0]
    /\ Go(e, "send")
    /\ UNCHANGED <<timeVars, simVars, mu, pending, kind, recent>>

\* Mutant of AddFails: the evaluation returns without giving up its mutex.
AddFailsReturns(e) ==
    /\ at[e] = "add"
    /\ Go(e, "idle")
    /\ kind' = [kind EXCEPT ![e] = None]
    /\ pending' = [pending EXCEPT ![e] = {}]
    /\ UNCHANGED <<timeVars, simVars, mu, recent, alerted>>

\* ... or it fails, and nothing is sent.
AddFails(e) ==
    /\ at[e] = "add"
    /\ Go(e, "check")
    /\ kind' = [kind EXCEPT ![e] = None]
    /\ UNCHANGED <<timeVars, simVars, mu, pending, recent, alerted>>

DispatchText(e) ==
    /\ at[e] = "send"
    /\ Go(e, "check")
    /\ kind' = [kind EXCEPT ![e] = None]
    /\ UNCHANGED <<timeVars, simVars, mu, pending, recent, alerted>>

\* The end of an evaluation, which gives up its mutex.
Done(e) ==
    /\ at[e] = "check" /\ pending[e] = {}
    /\ mu' = [m \in DOMAIN mu |-> IF mu[m] = e THEN None ELSE mu[m]]
    /\ Go(e, IF e = "daily" /\ mu["balance"] = e THEN "health" ELSE "idle")
    /\ UNCHANGED <<timeVars, simVars, pending, kind, recent, alerted>>

\* The process ends and is started again; Run evaluates after two minutes.
Crash ==
    /\ due' = TRUE
    /\ at' = [e \in Evaluators |-> "idle"]
    /\ mu' = [m \in DOMAIN mu |-> None]
    /\ pending' = [e \in Evaluators |-> {}]
    /\ kind' = [e \in Evaluators |-> None]
    /\ recent' = FALSE
    /\ UNCHANGED <<phase, simVars, alerted>>

-----------------------------------------------------------------------------
Step(e) ==
    \/ Request(e) \/ Asked(e) \/ Evaluate(e) \/ EvaluateHealth(e) \/ Check(e)
    \/ AddAlert(e) \/ AddFails(e) \/ DispatchText(e) \/ Done(e)

Next ==
    \/ Tick \/ Forget
    \/ \E l \in {"ok", "low", "forecast"} : Read(l)
    \/ \E k \in HealthKinds : SignOfLife(k)
    \/ \E w \in {"online", "bay", "out"} : Move(w)
    \/ RunDaily
    \/ \E e \in Runs : RunNow(e)
    \/ \E e \in Evaluators : Step(e)
    \/ Crash

Spec == Init /\ [][Next]_vars

\* Time passes and goroutines go on; a mutex of Go is not withheld for ever
\* from one that waits; and the database does not always fail.
FairSpec ==
    /\ Spec
    /\ WF_vars(Tick)
    /\ WF_vars(RunDaily \/ Step("daily"))
    /\ WF_vars(\E e \in Runs : Step(e))
    /\ SF_vars(Request("daily"))
    /\ SF_vars(Evaluate("daily") /\ pending'["daily"] = {level} \cap BalanceKinds)
    /\ SF_vars(EvaluateHealth("daily") /\ pending'["daily"] = Findings)
    /\ \A k \in Kinds : SF_vars(AddAlert("daily") /\ kind["daily"] = k)

-----------------------------------------------------------------------------
\* Type invariant: the ages of rows and readings stay within Limit, and the
\* evaluators of Scheduler and Service stand at one of their steps.
TypeOK ==
    /\ phase \in 0..(Day - 1) /\ due \in BOOLEAN
    /\ at \in [Evaluators -> {"idle", "request", "asking", "evaluate", "health", "check", "add", "send"}]
    /\ mu \in [{"run", "balance", "health"} -> Evaluators \cup {None}]
    /\ pending \in [Evaluators -> SUBSET Kinds]
    /\ kind \in [Evaluators -> Kinds \cup {None}]
    /\ recent \in BOOLEAN
    /\ level \in {"unknown", "ok"} \cup BalanceKinds /\ readAge \in 0..Day
    /\ where \in {"online", "bay", "out"}
    /\ age \in [HealthKinds -> 0..Limit]
    /\ \A g \in Groups : alerted[g] \in 0..(Apart(g) + 1)

Adds(e) == at[e] = "add" /\ at'[e] = "send"

\* "Evaluate: daily and RunNow insert no duplicate alert": an alert is never
\* added before the last one of its group is old enough, however evaluations
\* overlap.
AlertsApart ==
    [][\A e \in Evaluators : Adds(e) => alerted[Group(kind[e])] >= Apart(Group(kind[e]))]_vars

Holds(k) == IF k \in BalanceKinds THEN level = k ELSE k \in Findings

\* Unless the process is started again for ever, what stays wrong with the SIM
\* is alerted again and again: no alert, sent or lost, silences those to come.
Reminded ==
    \A k \in Kinds :
        <>[]Holds(k) /\ <>[][~Crash]_vars => []<>(\E e \in Evaluators : at[e] = "send" /\ kind[e] = k)
=============================================================================
