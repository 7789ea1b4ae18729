------------------------------- MODULE Inbox -------------------------------
(***************************************************************************)
(* How a worker receives messages: the poll that lists the messages stored *)
(* on the SIM, saves each in the database, reads from it what the operator *)
(* says of the SIM (its number, its balance), notifies the webhooks and    *)
(* deletes it from the SIM; the +CUSD answers read the same way; and the   *)
(* lookups that ask the operator for the number of the SIM.                *)
(*                                                                         *)
(* Poll and answers run on the serial loop of the worker, one at a time;   *)
(* lookups are made by the goroutines of the API, and once by the poll     *)
(* itself, which then waits for the loop it runs on.  The process may      *)
(* crash between any two steps; the SIM and the database survive.          *)
(***************************************************************************)
EXTENDS Naturals, Sequences

CONSTANTS
    BalancePdus,   \* messages that tell the balance of the SIM
    NumberPdus,    \* messages that hold a phone number
    OtherPdus,     \* messages without either
    BadPdus,       \* messages that cannot be decoded
    Lookups,       \* lookups of the number of the SIM
    StoreSize,     \* places for messages on the SIM
    MaxArrivals,   \* bound on messages and answers
    MaxCrashes,    \* bound on the ends of the process
    None

Pdus == BalancePdus \cup NumberPdus \cup OtherPdus \cup BadPdus
Texts == BalancePdus \cup NumberPdus
Places == 1..StoreSize

ASSUME PdusAssumption ==
    /\ None \notin Pdus
    /\ (BalancePdus \cup NumberPdus \cup OtherPdus) \cap BadPdus = {}
    /\ StoreSize \in Nat /\ MaxArrivals \in Nat /\ MaxCrashes \in Nat

VARIABLES
    store,     \* the message in each place of the SIM, or None
    calling,   \* a call is in progress: the poll does nothing
    at,        \* what the serial loop does: a step of Steps
    batch,     \* the places listed and not yet handled
    place,     \* the place whose message is handled
    text,      \* the text being read
    back,      \* where the loop goes on after it
    rows,      \* the inbox: the messages of the SMS table, in order
    balance, plan,  \* the text that told the balance and the expiry of the SIM
    snapshots, \* the balance snapshots
    number,    \* the text that told the phone number of the SIM
    window,    \* phoneLookupUntil is in the future
    lookup,    \* each lookup: "idle", "queued", "sent", "done"
    tried,     \* phoneLookupTried: the poll has seen to the number
    arrivals,  \* number of messages and answers so far
    crashes,   \* number of times the process ended
    seen,      \* history: the messages that reached the SIM
    hooks,     \* history: the messages the webhooks were called with, in order
    opened, captured   \* history: windows opened, numbers captured

Steps == {"idle", "hung", "process", "phone", "balance", "snapshot", "plan", "dispatch", "delete"}

simVars == <<store, calling, arrivals, seen>>
loopVars == <<at, batch, place, text, back>>
tableVars == <<balance, plan, snapshots, number>>
lookupVars == <<window, lookup, tried, opened>>
vars == <<simVars, loopVars, rows, tableVars, lookupVars, hooks, captured, crashes>>

Init ==
    /\ store = [i \in Places |-> None]
    /\ calling = FALSE
    /\ at = "idle" /\ batch = {} /\ place = None /\ text = None /\ back = "idle"
    /\ rows = <<>>
    /\ balance = None /\ plan = None /\ snapshots = <<>> /\ number = None
    /\ window = FALSE /\ lookup = [q \in Lookups |-> "idle"] /\ tried = FALSE
    /\ arrivals = 0 /\ crashes = 0 /\ seen = {} /\ hooks = <<>>
    /\ opened = 0 /\ captured = 0

-----------------------------------------------------------------------------
(* The network.                                                            *)

\* A message is stored on the SIM, which announces it with +CMTI.
Arrive(i, p) ==
    /\ arrivals < MaxArrivals
    /\ store[i] = None
    /\ store' = [store EXCEPT ![i] = p]
    /\ arrivals' = arrivals + 1
    /\ seen' = seen \cup {p}
    /\ UNCHANGED <<calling, loopVars, rows, tableVars, lookupVars, hooks, captured, crashes>>

CallStarts ==
    /\ ~calling
    /\ calling' = TRUE
    /\ UNCHANGED <<store, arrivals, seen, loopVars, rows, tableVars, lookupVars, hooks, captured, crashes>>

CallEnds ==
    /\ calling
    /\ calling' = FALSE
    /\ UNCHANGED <<store, arrivals, seen, loopVars, rows, tableVars, lookupVars, hooks, captured, crashes>>

-----------------------------------------------------------------------------
(* The serial loop.                                                        *)

\* The first message listed is next.
First(i) == i \in batch /\ \A j \in batch : i <= j

\* The loop goes on with the next message of the batch, or is done.
GoOn(b) ==
    /\ batch' = b
    /\ at' = IF b = {} THEN "idle" ELSE "process"

\* poll: nothing while a call is on; else AT+CMGL lists the messages.  (No
\* one but the loop deletes: the message of a listed place stays there.)
\* When the modem is registered, checkSignal has seen to the number before:
\* the SIM has one, or its operator no code to ask with.
Poll ==
    /\ at = "idle" /\ ~calling
    /\ GoOn({i \in Places : store[i] # None})
    /\ tried' \in {tried, TRUE}
    /\ UNCHANGED <<simVars, place, text, back, rows, tableVars, window, lookup, opened, hooks, captured, crashes>>

\* checkSignal with lookupPhoneIfMissing: the first poll that finds the modem
\* registered asks for a number the SIM lacks.  RequestPhoneNumber hands the
\* command to the loop, which is the one that waits for it.
PollLooksUp ==
    /\ at = "idle" /\ ~calling
    /\ ~tried /\ number = None
    /\ at' = "hung"
    /\ tried' = TRUE /\ window' = TRUE /\ opened' = opened + 1
    /\ UNCHANGED <<simVars, batch, place, text, back, rows, tableVars, lookup, hooks, captured, crashes>>

Received(p) == \E k \in 1..Len(rows) : rows[k] = p

\* Mutant of RetainPDU: the message is deleted nevertheless.
RetainPDUDeletes(i) ==
    /\ at = "process" /\ First(i)
    /\ place' = i /\ at' = "delete"
    /\ UNCHANGED <<simVars, batch, text, back, rows, tableVars, lookupVars, hooks, captured, crashes>>

\* Mutant of RetainPDU: the poll ends at the first message that fails.
RetainPDUStops(i) ==
    /\ at = "process" /\ First(i)
    /\ GoOn({})
    /\ UNCHANGED <<simVars, place, text, back, rows, tableVars, lookupVars, hooks, captured, crashes>>

\* checkSMS, when processPDU fails: the message cannot be decoded, or not be
\* saved, and stays on the SIM.
RetainPDU(i) ==
    /\ at = "process" /\ First(i)
    /\ GoOn(batch \ {i})
    /\ UNCHANGED <<simVars, place, text, back, rows, tableVars, lookupVars, hooks, captured, crashes>>

\* Mutant of SavePDU: no earlier row is looked for.
SavePDUAlways(i) ==
    LET p == store[i]
    IN  /\ at = "process" /\ First(i)
        /\ p \notin BadPdus
        /\ place' = i
        /\ rows' = Append(rows, p)
        /\ at' = "phone" /\ text' = p /\ back' = "dispatch"
        /\ UNCHANGED <<simVars, batch, tableVars, lookupVars, hooks, captured, crashes>>

\* processPDU with CreateReceivedOnce: the message is saved, and then read; one
\* that was received before is only deleted.
SavePDU(i) ==
    LET p == store[i]
    IN  /\ at = "process" /\ First(i)
        /\ p \notin BadPdus
        /\ place' = i
        /\ IF Received(p)
           THEN at' = "delete" /\ UNCHANGED <<rows, text, back>>
           ELSE /\ rows' = Append(rows, p)
                /\ at' = "phone" /\ text' = p /\ back' = "dispatch"
        /\ UNCHANGED <<simVars, batch, tableVars, lookupVars, hooks, captured, crashes>>

\* Mutant of CapturePhoneNumber: the window stays open.
CapturePhoneNumberKeeps ==
    /\ at = "phone"
    /\ at' = "balance"
    /\ IF window /\ text \in NumberPdus
       THEN captured' = captured + 1 /\ number' \in {text, number}
       ELSE UNCHANGED <<captured, number>>
    /\ UNCHANGED <<simVars, batch, place, text, back, rows, balance, plan, snapshots, lookupVars, hooks, crashes>>

\* capturePhoneNumber: only while a lookup waits for its answer, which closes
\* the window, whether or not the number can be saved.
CapturePhoneNumber ==
    /\ at = "phone"
    /\ at' = "balance"
    /\ IF window /\ text \in NumberPdus
       THEN window' = FALSE /\ captured' = captured + 1 /\ number' \in {text, number}
       ELSE UNCHANGED <<window, captured, number>>
    /\ UNCHANGED <<simVars, batch, place, text, back, rows, balance, plan, snapshots, lookup, tried, opened, hooks, crashes>>

\* captureBalance: the balance first; when it cannot be saved, no more.
CaptureBalance ==
    /\ at = "balance"
    /\ \/ text \in BalancePdus /\ balance' = text /\ at' = "snapshot"
       \/ at' = "plan" /\ UNCHANGED balance
    /\ UNCHANGED <<simVars, batch, place, text, back, rows, plan, snapshots, number, lookupVars, hooks, captured, crashes>>

\* ... then, in a write of its own that may fail, its snapshot.
AddSnapshot ==
    /\ at = "snapshot"
    /\ at' = "plan"
    /\ snapshots' \in {Append(snapshots, text), snapshots}
    /\ UNCHANGED <<simVars, batch, place, text, back, rows, balance, plan, number, lookupVars, hooks, captured, crashes>>

\* capturePlanInfo: a text with the balance tells the expiry of the account.
CapturePlanInfo ==
    /\ at = "plan"
    /\ at' = back
    /\ IF text \in BalancePdus THEN plan' \in {text, plan} ELSE UNCHANGED plan
    /\ text' = None /\ back' = "idle"
    /\ UNCHANGED <<simVars, batch, place, rows, balance, snapshots, number, lookupVars, hooks, captured, crashes>>

\* Dispatch starts a goroutine for each webhook of the SIM and waits for none.
Dispatch ==
    /\ at = "dispatch"
    /\ at' = "delete"
    /\ hooks' = Append(hooks, store[place])
    /\ UNCHANGED <<simVars, batch, place, text, back, rows, tableVars, lookupVars, captured, crashes>>

\* AT+CMGD, which may fail: the message stays for the next poll.
Delete ==
    /\ at = "delete"
    /\ store' \in {[store EXCEPT ![place] = None], store}
    /\ GoOn(batch \ {place})
    /\ place' = None
    /\ UNCHANGED <<calling, arrivals, seen, text, back, rows, tableVars, lookupVars, hooks, captured, crashes>>

\* handleURC with a +CUSD line, between transactions or while AT+CMGD waits
\* for its reply: the text is read like that of a message.
HandleCUSD(t) ==
    /\ at \in {"idle", "delete"}
    /\ arrivals < MaxArrivals
    /\ arrivals' = arrivals + 1
    /\ text' = t /\ back' = at /\ at' = "phone"
    /\ UNCHANGED <<store, calling, seen, batch, place, rows, tableVars, lookupVars, hooks, captured, crashes>>

-----------------------------------------------------------------------------
(* Lookups.                                                                *)

\* RequestPhoneNumber opens the window and hands the USSD code to the loop,
RequestPhoneNumber(q) ==
    /\ lookup[q] = "idle"
    /\ lookup' = [lookup EXCEPT ![q] = "queued"]
    /\ window' = TRUE
    /\ opened' = opened + 1
    /\ UNCHANGED <<simVars, loopVars, rows, tableVars, tried, hooks, captured, crashes>>

\* which sends it once it has nothing else to do ...
LookupRuns(q) ==
    /\ lookup[q] = "queued"
    /\ at = "idle"
    /\ lookup' = [lookup EXCEPT ![q] = "sent"]
    /\ UNCHANGED <<simVars, loopVars, rows, tableVars, window, tried, opened, hooks, captured, crashes>>

\* ... and whose error closes the window again.
LookupSent(q) ==
    /\ lookup[q] = "sent"
    /\ lookup' = [lookup EXCEPT ![q] = "done"]
    /\ window' \in {window, FALSE}
    /\ UNCHANGED <<simVars, loopVars, rows, tableVars, tried, opened, hooks, captured, crashes>>

\* 90 seconds pass.
WindowExpires ==
    /\ window
    /\ window' = FALSE
    /\ UNCHANGED <<simVars, loopVars, rows, tableVars, lookup, tried, opened, hooks, captured, crashes>>

-----------------------------------------------------------------------------
\* The process ends and is started again.
Crash ==
    /\ crashes < MaxCrashes
    /\ crashes' = crashes + 1
    /\ at' = "idle" /\ batch' = {} /\ place' = None /\ text' = None /\ back' = "idle"
    /\ window' = FALSE /\ tried' = FALSE
    /\ lookup' = [q \in Lookups |-> IF lookup[q] = "idle" THEN "idle" ELSE "done"]
    /\ UNCHANGED <<simVars, rows, tableVars, opened, hooks, captured>>

LoopStep ==
    \/ \E i \in Places : RetainPDU(i) \/ SavePDU(i)
    \/ CapturePhoneNumber \/ CaptureBalance \/ AddSnapshot \/ CapturePlanInfo
    \/ Dispatch \/ Delete

Next ==
    \/ \E i \in Places, p \in Pdus : Arrive(i, p)
    \/ CallStarts \/ CallEnds
    \/ Poll \/ PollLooksUp \/ LoopStep
    \/ \E t \in Texts : HandleCUSD(t)
    \/ \E q \in Lookups : RequestPhoneNumber(q) \/ LookupRuns(q) \/ LookupSent(q)
    \/ WindowExpires
    \/ Crash

Spec == Init /\ [][Next]_vars

\* The loop goes on with what it does; the poll is repeated by a ticker, and
\* calls end; a database that fails does so for a while only.
FairSpec ==
    /\ Spec
    /\ WF_vars(LoopStep)
    /\ SF_vars(Poll \/ PollLooksUp)
    /\ WF_vars(CallEnds)
    /\ \A i \in Places : SF_vars(SavePDU(i))

-----------------------------------------------------------------------------
\* Type invariant: what the SIM and the tables hold and where checkSMS stands; a
\* balance is captured (captureBalance) only from a text that states one.
TypeOK ==
    /\ store \in [Places -> Pdus \cup {None}]
    /\ calling \in BOOLEAN
    /\ at \in Steps /\ batch \subseteq Places /\ place \in Places \cup {None}
    /\ text \in Pdus \cup {None} /\ back \in {"idle", "delete", "dispatch"}
    /\ rows \in Seq(Pdus) /\ hooks \in Seq(Pdus)
    /\ balance \in BalancePdus \cup {None} /\ plan \in BalancePdus \cup {None}
    /\ snapshots \in Seq(BalancePdus)
    /\ number \in NumberPdus \cup {None}
    /\ window \in BOOLEAN /\ lookup \in [Lookups -> {"idle", "queued", "sent", "done"}]
    /\ tried \in BOOLEAN
    /\ arrivals \in 0..MaxArrivals /\ crashes \in 0..MaxCrashes /\ seen \subseteq Pdus
    /\ opened \in Nat /\ captured \in Nat

Distinct(s) == \A j, k \in 1..Len(s) : s[j] = s[k] => j = k

\* A message that reached the SIM is on the SIM or in the inbox, whatever
\* fails and wherever the process ends; one that cannot be decoded stays on
\* the SIM.
NothingLost ==
    \A p \in seen : \/ \E i \in Places : store[i] = p
                    \/ p \notin BadPdus /\ Received(p)

\* "A delete retry must not create another inbox entry or dispatch the same
\* webhook again": a message has one row, and is sent to the webhooks once at
\* most, after it was saved.
DeliveredOnce ==
    /\ Distinct(rows) /\ Distinct(hooks)
    /\ \A k \in 1..Len(hooks) : Received(hooks[k])

\* A message on the SIM that can be decoded gets into the inbox, however often
\* saving it fails and the process is started again, or the loop hangs in the
\* lookup of a number that the SIM lacks: the one thing that keeps checkSMS from
\* it, and again after the next start.
EventuallyReceived ==
    \A p \in Pdus \ BadPdus :
        (\E i \in Places : store[i] = p) ~> (Received(p) \/ (at = "hung" /\ number = None))

\* A number is taken from a text only if a lookup asked for one: every number
\* captured used up a window that a lookup opened.
CapturedOnRequest == captured <= opened
=============================================================================
