--------------------------- MODULE ATTransaction ---------------------------
(***************************************************************************)
(* The serial line of one modem worker: callers submit AT transactions     *)
(* (runATTransaction), the runLoop goroutine executes them one at a time,  *)
(* readLoop turns what the modem says into lines on rxChan.                *)
(*                                                                         *)
(* A transaction is a script of AT commands.  A command ends with the      *)
(* first final line on rxChan, or with its timeout: nothing ties a line to *)
(* the command it answers, so a reply that comes after its command timed   *)
(* out is read as the reply of the next one.                               *)
(***************************************************************************)
EXTENDS Naturals, Sequences

CONSTANTS
    ATClients,    \* callers of one plain command (ExecuteAT, ExecuteATSilent)
    SMSClients,   \* callers of SendSMS
    PollClients,  \* the logicLoop goroutine
    PhoneMissing, \* phone lookup is enabled and the SIM has no number stored
    Segments,     \* PDUs per SMS
    QueueCap,     \* capacity of transactionChan
    RxCap,        \* capacity of rxChan
    MaxURC,       \* bound on unsolicited lines
    None

Clients == ATClients \cup SMSClients \cup PollClients

\* A transaction inside a transaction, submitted by the loop itself.
Nested == "nested"
Submitters == Clients \cup {Nested}

Commands == {"AT", "CSMS", "CMGF", "CMGS", "PDU", "ESC", "CREG", "CSQ", "CMGL"}

ASSUME BoundsAssumption ==
    /\ Segments \in Nat \ {0} /\ QueueCap \in Nat \ {0}
    /\ RxCap \in Nat \ {0} /\ MaxURC \in Nat
    /\ PhoneMissing \in BOOLEAN

ASSUME NamesAssumption ==
    /\ SMSClients \cap (ATClients \cup PollClients) = {}
    /\ Nested \notin Clients
    /\ None \notin Submitters \cup Commands \cup {"LOOKUP", "ok", "err"}

VARIABLES
    caller,    \* where a caller is in runATTransaction
    done,      \* tx.done, a channel of capacity one
    queue,     \* transactionChan
    loop,      \* where the runLoop goroutine is
    cur,       \* the transaction it executes
    step,      \* the command of that transaction it executes
    seg,       \* the PDU of that transaction it sends
    rx,        \* rxChan
    reader,    \* the readLoop goroutine
    stopped,   \* w.stop is closed
    reprobe,   \* w.reprobe
    input,     \* commands the modem has received and not processed
    prompt,    \* the modem shows the "> " prompt of AT+CMGS
    accepted,  \* PDUs of a caller that the modem took over
    urcs,      \* unsolicited lines so far
    late,      \* history: some command has timed out
    swallowed  \* history: a command was taken as the text of a message

callerVars == <<caller, done, queue>>
loopVars == <<loop, cur, step, seg>>
portVars == <<rx, reader, stopped, reprobe>>
modemVars == <<input, prompt, accepted, urcs>>
vars == <<callerVars, loopVars, portVars, modemVars, late, swallowed>>

Sent == [cmd : Commands, from : Submitters]
Lines == [res : {"OK", "ERROR", ">"}, cmd : Commands]
         \cup {[res |-> "URC"], [res |-> "Err"]}
Results == {"ok", "err"}

TypeOK ==
    /\ caller \in [Clients -> {"idle", "offer", "wait"} \cup Results]
    /\ done \in [Submitters -> Results \cup {None}]
    /\ queue \in Seq(Submitters) /\ Len(queue) <= QueueCap
    /\ loop \in {"select", "write", "await", "offer", "nested", "exited"}
    /\ cur \in Submitters \cup {None}
    /\ step \in Commands \cup {"LOOKUP", None}
    /\ seg \in 1..Segments
    /\ rx \in Seq(Lines) /\ Len(rx) <= RxCap
    /\ reader \in {"reading", "failing", "exited"}
    /\ stopped \in BOOLEAN /\ reprobe \in BOOLEAN
    /\ input \in Seq(Sent)
    /\ prompt \in BOOLEAN
    /\ accepted \in [SMSClients -> 0..Segments]
    /\ urcs \in 0..MaxURC
    /\ late \in BOOLEAN /\ swallowed \in BOOLEAN

Init ==
    /\ caller = [c \in Clients |-> "idle"]
    /\ done = [c \in Submitters |-> None]
    /\ queue = <<>>
    /\ loop = "select" /\ cur = None /\ step = None /\ seg = 1
    /\ rx = <<>> /\ reader = "reading"
    /\ stopped = FALSE /\ reprobe = FALSE
    /\ input = <<>> /\ prompt = FALSE
    /\ accepted = [c \in SMSClients |-> 0]
    /\ urcs = 0
    /\ late = FALSE /\ swallowed = FALSE

-----------------------------------------------------------------------------
(* The scripts.  A command ends with one of the outcomes "ok" (a final OK),*)
(* "sent" (OK after +CMGS:), ">" (the prompt) and "err" (ERROR, timeout,   *)
(* stop, port error).                                                      *)

\* The first command; a poll may end at once (no modem yet, or a call is on).
\* "CREG" stands for AT+CREG? and the AT+COPS that may follow it, "CMGL" for
\* AT+CMGL=4 and the AT+CMGD of the messages it lists.
First(c) ==
    CASE c \in ATClients \cup {Nested} -> {"AT"}
      [] c \in SMSClients -> {"CSMS"}
      [] c \in PollClients -> {"CREG", "ok"}

\* Mutants of After: SendSMS does not look at the replies to AT+CMGS and to the
\* PDU; SendSMS returns after the prompt without sending a PDU or ESC.
AfterUnchecked(cmd, out) ==
    CASE cmd = "CSMS" -> "CMGF"
      [] cmd = "CMGF" -> IF out = "err" THEN "err" ELSE "CMGS"
      [] cmd = "CMGS" -> IF out = "err" THEN "err" ELSE "PDU"
      [] cmd = "PDU" -> CASE out = "err" -> "ESC"
                          [] seg < Segments -> "CMGS"
                          [] OTHER -> "ok"
      [] OTHER -> IF out = "err" THEN "err" ELSE "ok"

AfterAbandonsPrompt(cmd, out) ==
    CASE cmd = "CSMS" -> "CMGF"
      [] cmd = "CMGF" -> IF out = "err" THEN "err" ELSE "CMGS"
      [] OTHER -> IF out = "err" THEN "err" ELSE "ok"

\* What follows a command: the next command, or the transaction's result.
After(cmd, out) ==
    CASE cmd = "AT" -> IF out = "err" THEN "err" ELSE "ok"
      [] cmd = "CSMS" -> "CMGF"
      [] cmd = "CMGF" -> IF out = "err" THEN "err" ELSE "CMGS"
      [] cmd = "CMGS" -> IF out = ">" THEN "PDU" ELSE "err"
      [] cmd = "PDU" -> CASE out = "err" -> "ESC"
                          [] out = "sent" /\ seg < Segments -> "CMGS"
                          [] out = "sent" /\ seg = Segments -> "ok"
                          [] OTHER -> "err"
      [] cmd = "ESC" -> "err"
      [] cmd = "CREG" -> IF out # "err" /\ PhoneMissing THEN "LOOKUP" ELSE "CSQ"
      [] cmd = "CSQ" -> "CMGL"
      [] cmd = "CMGL" -> "ok"

\* The loop goes on to s: it writes the next command, submits the phone lookup
\* or reports the result on tx.done and returns to its select.
Proceed(s) ==
    IF s \in Results
    THEN /\ done' = [done EXCEPT ![cur] = s]
         /\ loop' = "select" /\ cur' = None /\ step' = None /\ seg' = 1
    ELSE /\ loop' = IF s = "LOOKUP" THEN "offer" ELSE "write"
         /\ step' = s
         /\ seg' = IF step = "PDU" /\ s = "CMGS" THEN seg + 1 ELSE seg
         /\ UNCHANGED <<done, cur>>

-----------------------------------------------------------------------------
(* Callers: runATTransaction.                                              *)

Call(c) ==
    /\ caller[c] = "idle"
    /\ caller' = [caller EXCEPT ![c] = "offer"]
    /\ UNCHANGED <<done, queue, loopVars, portVars, modemVars, late, swallowed>>

Submit(c) ==
    /\ caller[c] = "offer"
    /\ Len(queue) < QueueCap
    /\ queue' = Append(queue, c)
    /\ caller' = [caller EXCEPT ![c] = "wait"]
    /\ UNCHANGED <<done, loopVars, portVars, modemVars, late, swallowed>>

Return(c) ==
    /\ caller[c] = "wait"
    /\ done[c] # None
    /\ caller' = [caller EXCEPT ![c] = done[c]]
    /\ done' = [done EXCEPT ![c] = None]
    /\ UNCHANGED <<queue, loopVars, portVars, modemVars, late, swallowed>>

\* Mutant of GiveUp: the wait for tx.done does not look at w.stop.
GiveUpOnlyOffering(c) ==
    /\ caller[c] = "offer"
    /\ stopped
    /\ caller' = [caller EXCEPT ![c] = "err"]
    /\ UNCHANGED <<done, queue, loopVars, portVars, modemVars, late, swallowed>>

\* Either select of runATTransaction sees w.stop.
GiveUp(c) ==
    /\ caller[c] \in {"offer", "wait"}
    /\ stopped
    /\ caller' = [caller EXCEPT ![c] = "err"]
    /\ UNCHANGED <<done, queue, loopVars, portVars, modemVars, late, swallowed>>

-----------------------------------------------------------------------------
(* The runLoop goroutine between transactions.                             *)

Take ==
    /\ loop = "select"
    /\ queue # <<>>
    /\ queue' = Tail(queue)
    /\ \E s \in First(Head(queue)) :
        IF s \in Results
        THEN done' = [done EXCEPT ![Head(queue)] = s] /\ UNCHANGED loopVars
        ELSE /\ loop' = "write" /\ cur' = Head(queue) /\ step' = s
             /\ UNCHANGED <<done, seg>>
    /\ UNCHANGED <<caller, portVars, modemVars, late, swallowed>>

\* An unsolicited or stale line is consumed; a read error stops the worker.
IdleLine ==
    /\ loop = "select"
    /\ rx # <<>>
    /\ rx' = Tail(rx)
    /\ IF Head(rx).res = "Err"
       THEN /\ reprobe' = TRUE /\ stopped' = TRUE /\ loop' = "exited"
       ELSE UNCHANGED <<reprobe, stopped, loop>>
    /\ UNCHANGED <<callerVars, cur, step, seg, reader, modemVars, late, swallowed>>

LoopExit ==
    /\ loop = "select"
    /\ stopped
    /\ loop' = "exited"
    /\ UNCHANGED <<callerVars, cur, step, seg, portVars, modemVars, late, swallowed>>

-----------------------------------------------------------------------------
(* The runLoop goroutine inside a transaction: atSession.execute.          *)

Write ==
    /\ loop = "write"
    /\ input' = Append(input, [cmd |-> step, from |-> cur])
    /\ loop' = "await"
    /\ UNCHANGED <<callerVars, cur, step, seg, portVars, prompt, accepted, urcs,
                   late, swallowed>>

WriteFails ==
    /\ loop = "write"
    /\ reprobe' = TRUE
    /\ stopped' = TRUE
    /\ Proceed(After(step, "err"))
    /\ UNCHANGED <<caller, queue, rx, reader, modemVars, late, swallowed>>

\* The outcome a line gives to the command the loop waits for, whichever
\* command the line answers; "more" when the command goes on waiting.
Outcome(line) ==
    CASE line.res = "OK" -> IF step = "PDU" /\ line.cmd = "PDU" THEN "sent" ELSE "ok"
      [] line.res = ">" -> IF step = "CMGS" THEN ">" ELSE "more"
      [] line.res = "URC" -> "more"
      [] OTHER -> "err"

Receive ==
    /\ loop = "await"
    /\ rx # <<>>
    /\ rx' = Tail(rx)
    /\ LET out == Outcome(Head(rx)) IN
        IF out = "more" THEN UNCHANGED <<done, loopVars>>
                        ELSE Proceed(After(step, out))
    /\ reprobe' = (reprobe \/ Head(rx).res = "Err")
    /\ stopped' = (stopped \/ Head(rx).res = "Err")
    /\ UNCHANGED <<caller, queue, reader, modemVars, late, swallowed>>

Timeout ==
    /\ loop = "await"
    /\ late' = TRUE
    /\ Proceed(After(step, "err"))
    /\ UNCHANGED <<caller, queue, portVars, modemVars, swallowed>>

AwaitStopped ==
    /\ loop = "await"
    /\ stopped
    /\ Proceed(After(step, "err"))
    /\ UNCHANGED <<caller, queue, portVars, modemVars, late, swallowed>>

\* checkSignal, on the loop's own goroutine, calls lookupPhoneIfMissing, which
\* submits its USSD command as a transaction of its own ...
NestedSubmit ==
    /\ loop = "offer"
    /\ Len(queue) < QueueCap
    /\ queue' = Append(queue, Nested)
    /\ loop' = "nested"
    /\ UNCHANGED <<caller, done, cur, step, seg, portVars, modemVars, late, swallowed>>

\* Mutant of NestedReturns: the wait does not look at w.stop.
NestedIgnoresStop ==
    /\ loop = "nested"
    /\ done[Nested] # None
    /\ loop' = "write"
    /\ step' = "CSQ"
    /\ UNCHANGED <<callerVars, cur, seg, portVars, modemVars, late, swallowed>>

\* ... and waits for a result that only the loop itself could produce.
NestedReturns ==
    /\ loop \in {"offer", "nested"}
    /\ stopped \/ (loop = "nested" /\ done[Nested] # None)
    /\ loop' = "write"
    /\ step' = "CSQ"
    /\ UNCHANGED <<callerVars, cur, seg, portVars, modemVars, late, swallowed>>

-----------------------------------------------------------------------------
(* The readLoop goroutine and Stop.                                        *)

\* A real read error, found while the worker is not stopped.
ReadError ==
    /\ reader = "reading"
    /\ ~stopped
    /\ reprobe' = TRUE
    /\ reader' = "failing"
    /\ UNCHANGED <<callerVars, loopVars, rx, stopped, modemVars, late, swallowed>>

\* The reader reports the error on rxChan, with no regard for w.stop.
ReportError ==
    /\ reader = "failing"
    /\ Len(rx) < RxCap
    /\ rx' = Append(rx, [res |-> "Err"])
    /\ reader' = "exited"
    /\ UNCHANGED <<callerVars, loopVars, stopped, reprobe, modemVars, late, swallowed>>

\* A line comes when the worker is stopped: the select of emitLine may see w.stop,
\* and the reader ends without the line.
ReaderDropsLine ==
    /\ reader = "reading"
    /\ stopped /\ input # <<>>
    /\ reader' = "exited"
    /\ UNCHANGED <<callerVars, loopVars, rx, stopped, reprobe, modemVars, late, swallowed>>

\* Mutant of ReaderExit: runLoop returns without closing the port, so that only a
\* line to deliver ends the reader.
ReaderExitUnclosed ==
    /\ loop = "exited"
    /\ ReaderDropsLine

\* A read that times out goes on without a look at w.stop; the reader ends when
\* the deferred port.Close of runLoop makes its read fail.
ReaderExit ==
    /\ reader = "reading"
    /\ loop = "exited" /\ stopped
    /\ reader' = "exited"
    /\ UNCHANGED <<callerVars, loopVars, rx, stopped, reprobe, modemVars, late, swallowed>>

\* ModemWorker.Stop, called by the manager.
Stop ==
    /\ ~stopped
    /\ stopped' = TRUE
    /\ UNCHANGED <<callerVars, loopVars, rx, reader, reprobe, modemVars, late, swallowed>>

-----------------------------------------------------------------------------
(* The modem (external): it processes its input in order and answers each  *)
(* command once, possibly long after the command has timed out.            *)

Emit(line) == reader = "reading" /\ Len(rx) < RxCap /\ rx' = Append(rx, line)

\* In command mode: AT+CMGS opens the prompt, other commands get a final line.
ModemAnswers ==
    /\ input # <<>> /\ ~prompt
    /\ LET k == Head(input) IN
        \/ /\ k.cmd = "CMGS"
           /\ prompt' = TRUE
           /\ Emit([res |-> ">", cmd |-> k.cmd])
        \/ /\ k.cmd \notin {"CMGS", "PDU", "ESC"}
           /\ Emit([res |-> "OK", cmd |-> k.cmd])
           /\ UNCHANGED prompt
        \/ /\ Emit([res |-> "ERROR", cmd |-> k.cmd])
           /\ UNCHANGED prompt
    /\ input' = Tail(input)
    /\ UNCHANGED <<callerVars, loopVars, reader, stopped, reprobe, accepted, urcs,
                   late, swallowed>>

\* In prompt mode: the PDU is accepted or refused, ESC cancels.
ModemTakesPDU ==
    /\ input # <<>> /\ prompt
    /\ LET k == Head(input) IN
        /\ k.cmd \in {"PDU", "ESC"}
        /\ \/ /\ Emit([res |-> "OK", cmd |-> k.cmd])
              /\ accepted' = [accepted EXCEPT ![k.from] =
                                IF k.cmd = "PDU" THEN @ + 1 ELSE @]
           \/ /\ Emit([res |-> "ERROR", cmd |-> k.cmd])
              /\ UNCHANGED accepted
    /\ prompt' = FALSE
    /\ input' = Tail(input)
    /\ UNCHANGED <<callerVars, loopVars, reader, stopped, reprobe, urcs, late, swallowed>>

\* In prompt mode anything else becomes text of the message: no answer.
ModemSwallows ==
    /\ input # <<>> /\ prompt
    /\ Head(input).cmd \notin {"PDU", "ESC"}
    /\ swallowed' = TRUE
    /\ input' = Tail(input)
    /\ UNCHANGED <<callerVars, loopVars, portVars, prompt, accepted, urcs, late>>

ModemReports ==
    /\ urcs < MaxURC
    /\ urcs' = urcs + 1
    /\ Emit([res |-> "URC"])
    /\ UNCHANGED <<callerVars, loopVars, reader, stopped, reprobe, input, prompt,
                   accepted, late, swallowed>>

-----------------------------------------------------------------------------
Caller(c) == Submit(c) \/ Return(c) \/ GiveUp(c)

Loop ==
    \/ Take \/ IdleLine \/ LoopExit
    \/ Write \/ WriteFails \/ Receive \/ Timeout \/ AwaitStopped
    \/ NestedSubmit \/ NestedReturns

Reader == ReportError \/ ReaderExit

Modem == ModemAnswers \/ ModemTakesPDU \/ ModemSwallows \/ ModemReports

Next ==
    \/ \E c \in Clients : Call(c) \/ Caller(c)
    \/ Loop \/ Reader \/ ReaderDropsLine \/ ReadError \/ Stop \/ Modem

Spec == Init /\ [][Next]_vars

\* Goroutines that can run do run; the timer of a command bounds its wait.
\* The modem owes no answer, and nobody has to call or to stop the worker.
FairSpec ==
    /\ Spec
    /\ WF_vars(Loop)
    /\ WF_vars(Reader)
    /\ \A c \in Clients : WF_vars(Caller(c))

-----------------------------------------------------------------------------
(* Properties.                                                             *)

\* SendSMS returns nil only when the modem took over every PDU, however late
\* or mismatched the replies on rxChan were: no reply is tied to its command,
\* but the prompt, +CMGS: and the modem's order of answers make up for it.
ReportedSentWasAccepted ==
    \A c \in SMSClients : caller[c] = "ok" => accepted[c] = Segments

\* As long as no command has timed out and the worker runs, no command of one
\* transaction lands in the message prompt another one has opened.
PromptHeldByTransaction == swallowed => late \/ stopped

\* Every caller gets an answer, with one exception: the loop is waiting for
\* itself in the phone lookup.  A transaction that was queued but will never be
\* taken, a full queue and a silent modem are no exceptions.
CallersReturnOrLookup ==
    \A c \in Clients :
        caller[c] \in {"offer", "wait"}
            ~> caller[c] \in Results \/ loop \in {"offer", "nested"}

\* Once the worker is stopped the loop leaves whatever command or nested call
\* it is in, and no caller is left behind.
StopEndsLoop ==
    stopped ~> /\ loop = "exited"
               /\ \A c \in Clients : caller[c] \in {"idle"} \cup Results

\* Once the worker is stopped the reader ends too, although it never looks at
\* w.stop while the modem is silent: the loop leaves whatever it waits for, closes
\* the port, and the failing read ends the reader.  The one exception: it met a
\* read error before the stop and rxChan is full, so that its report, which does
\* not look at w.stop, blocks for good.
StopEndsReader ==
    stopped ~> \/ reader = "exited"
               \/ reader = "failing" /\ Len(rx) = RxCap
=============================================================================
