------------------------ MODULE ATTransactionProofs ------------------------
(***************************************************************************)
(* Proofs about ATTransaction, for any callers, capacities and number of   *)
(* PDUs: an SMS reported as sent was taken over by the modem, and without  *)
(* timeouts no command lands in the prompt of another transaction.         *)
(***************************************************************************)
EXTENDS ATTransaction, TLAPS

\* PDU and ESC leave the prompt of AT+CMGS.
Closes(k) == input[k].cmd \in {"PDU", "ESC"}
Sending(k) == input[k].cmd = "PDU"
Opens(k) == input[k].cmd = "CMGS"

\* AT+CMGS at k is going to be text of the message whose prompt is open.
Covered(k) == prompt /\ \A j \in 1..Len(input) : Closes(j) => ~(j < k)

IsPrompt(k) == rx[k].res = ">"
IsSent(k) == rx[k] = [res |-> "OK", cmd |-> "PDU"]
Quiet(k) == rx[k].res \in {"URC", "Err"}

\* Where the loop is with a PDU: about to write it, waiting for its answer,
\* about to cancel it.
Writing == loop = "write" /\ step = "PDU"
Awaiting == loop = "await" /\ step = "PDU"
Cancelling == loop = "write" /\ step = "ESC"

\* The loop executes a command of the script of its caller.
Scripts ==
    /\ loop \in {"select", "exited"} <=> cur = None
    /\ cur = None => step = None /\ seg = 1
    /\ loop \in {"write", "await"} => step \in Commands
    /\ loop \in {"offer", "nested"} => step = "LOOKUP"
    /\ cur # None => cur \in SMSClients <=> step \in {"CSMS", "CMGF", "CMGS", "PDU", "ESC"}
    /\ step \notin {"CMGS", "PDU", "ESC"} => seg = 1

\* A prompt that nobody has read yet is open, nothing on the way will close it,
\* and nothing was answered since.
PromptOpen ==
    \A p \in 1..Len(rx) : IsPrompt(p) =>
        /\ prompt
        /\ \A k \in 1..Len(input) : ~Closes(k)
        /\ \A q \in 1..Len(rx) : q > p => Quiet(q)

\* An AT+CMGS before a PDU or ESC opens no prompt.
OpensCovered ==
    \A j, k \in 1..Len(input) : j < k /\ Opens(j) /\ Closes(k) => Covered(j)

\* From the prompt on, the PDU of the loop is the next to be taken.
PDUNext ==
    Writing \/ Awaiting \/ Cancelling =>
        /\ \A k \in 1..Len(input) : Opens(k) => Covered(k)
        /\ \A p \in 1..Len(rx) : ~IsPrompt(p)

WriteReady ==
    Writing => /\ prompt
               /\ \A k \in 1..Len(input) : ~Closes(k)
               /\ \A p \in 1..Len(rx) : ~IsSent(p)

\* The answer the loop waits for is that of its own PDU.
OwnAnswer ==
    Awaiting =>
        /\ \A k \in 1..Len(input) : Closes(k) =>
              /\ k = Len(input) /\ input[k] = [cmd |-> "PDU", from |-> cur]
              /\ accepted[cur] = seg - 1
              /\ \A p \in 1..Len(rx) : ~IsSent(p)
        /\ \A p \in 1..Len(rx) : IsSent(p) => accepted[cur] = seg

OnePDU == \A j, k \in 1..Len(input) : Sending(j) /\ Sending(k) => j = k

InQueue(c) == \E k \in 1..Len(queue) : queue[k] = c
Pending(c) == \E k \in 1..Len(input) : Sending(k) /\ input[k].from = c
Reported(c) == done[c] = "ok" \/ caller[c] = "ok"

\* The PDUs of a caller of SendSMS: none before the loop takes up its
\* transaction, then those of the segments done, all of them when it succeeds.
Account(c) ==
    /\ caller[c] \in {"idle", "offer"} => ~InQueue(c) /\ cur # c
    /\ caller[c] \in {"idle", "offer"} \/ InQueue(c) =>
         accepted[c] = 0 /\ ~Pending(c) /\ cur # c
    /\ cur = c /\ ~Awaiting /\ step # "ESC" => accepted[c] = seg - 1 /\ ~Pending(c)
    /\ Pending(c) => accepted[c] < Segments
    /\ Reported(c) => accepted[c] = Segments

Ledger == \A c \in SMSClients : Account(c)

QueuedOnce ==
    \A j, k \in 1..Len(queue) : queue[j] = queue[k] /\ queue[j] \in SMSClients => j = k

\* The line between the loop and the modem.
LineInv ==
    PromptOpen /\ OpensCovered /\ PDUNext /\ WriteReady /\ OwnAnswer /\ OnePDU

SentInv == TypeOK /\ Scripts /\ LineInv /\ Ledger /\ QueuedOnce

\* The answers on rxChan: none, at most one, a prompt.
AllQuiet == \A k \in 1..Len(rx) : Quiet(k)
OneAnswer == \A j, k \in 1..Len(rx) : ~Quiet(j) /\ ~Quiet(k) => j = k
Prompted == \E k \in 1..Len(rx) : IsPrompt(k)

\* One command is on the way, or its answer, and the prompt is that of the
\* transaction.
Tidy ==
    /\ ~swallowed /\ OneAnswer
    /\ loop # "await" => input = <<>> /\ AllQuiet
    /\ loop = "await" /\ input # <<>> =>
         input = <<[cmd |-> step, from |-> cur]>> /\ AllQuiet
    /\ Prompted => step = "CMGS"
    /\ prompt => Writing \/ (Awaiting /\ input # <<>>) \/ Prompted

InStep == ~late /\ ~stopped => Tidy

-----------------------------------------------------------------------------
(* Sequences at their ends.                                                *)

LEMMA AppendFacts ==
  ASSUME NEW S, NEW s \in Seq(S), NEW e \in S, NEW t, t = Append(s, e)
  PROVE  /\ t \in Seq(S) /\ Len(s) \in Nat /\ Len(t) = Len(s) + 1 /\ t # <<>>
         /\ \A k \in 1..Len(s) : k \in 1..Len(t) /\ t[k] = s[k]
         /\ Len(t) \in 1..Len(t) /\ t[Len(t)] = e
         /\ \A k \in 1..Len(t) : k \in 1..Len(s) \/ k = Len(t)
  <1>1. t \in Seq(S) /\ Len(s) \in Nat /\ Len(t) = Len(s) + 1 OBVIOUS
  <1>2. \A k \in 1..Len(s) : t[k] = s[k] OBVIOUS
  <1>3. t[Len(s) + 1] = e OBVIOUS
  <1>. QED BY <1>1, <1>2, <1>3

LEMMA TailFacts ==
  ASSUME NEW S, NEW s \in Seq(S), s # <<>>, NEW t, t = Tail(s)
  PROVE  /\ t \in Seq(S) /\ Len(s) \in Nat /\ 1 \in 1..Len(s) /\ Len(t) = Len(s) - 1
         /\ Head(s) = s[1] /\ s[1] \in S
         /\ \A k \in 1..Len(t) : k + 1 \in 1..Len(s) /\ t[k] = s[k + 1]
  <1>1. t \in Seq(S) /\ Len(s) \in Nat /\ Len(s) # 0 /\ Len(t) = Len(s) - 1 OBVIOUS
  <1>2. Head(s) = s[1] /\ s[1] \in S OBVIOUS
  <1>3. \A k \in 1..Len(t) : t[k] = s[k + 1] OBVIOUS
  <1>. QED BY <1>1, <1>2, <1>3

-----------------------------------------------------------------------------
(* The scripts: what follows a command, and what the loop does about it.   *)

Outcomes == {"ok", "sent", ">", "err"}

LEMMA ScriptFacts ==
  ASSUME TypeOK, Scripts, loop \in {"write", "await"}, NEW out \in Outcomes,
         NEW s, s = After(step, out)
  PROVE  /\ s \in Commands \cup {"LOOKUP"} \cup Results
         /\ cur \in SMSClients => s \in {"CMGF", "CMGS", "PDU", "ESC"} \cup Results
         /\ cur \notin SMSClients => s \in {"LOOKUP", "CSQ", "CMGL"} \cup Results
         /\ s = "PDU" => step = "CMGS" /\ out = ">"
         /\ s = "ESC" => step = "PDU" /\ out = "err"
         /\ s = "CMGF" => step = "CSMS"
         /\ s = "CMGS" => step = "CMGF" \/ (step = "PDU" /\ out = "sent" /\ seg < Segments)
         /\ s = "ok" /\ cur \in SMSClients => step = "PDU" /\ out = "sent" /\ seg = Segments
  <1>1. /\ step \in Commands /\ cur # None
        /\ cur \in SMSClients <=> step \in {"CSMS", "CMGF", "CMGS", "PDU", "ESC"}
    BY DEF Scripts
  <1>2. seg \in 1..Segments BY DEF TypeOK
  <1>3. CASE step \in {"AT", "CREG", "CSQ", "CMGL"}
    BY <1>1, <1>3 DEF After, Commands, Results, Outcomes
  <1>4. CASE step \in {"CSMS", "CMGF", "CMGS", "ESC"}
    BY <1>1, <1>4 DEF After, Commands, Results, Outcomes
  <1>5. CASE step = "PDU"
    BY <1>1, <1>2, <1>5, BoundsAssumption DEF After, Commands, Results, Outcomes
  <1>. QED BY <1>1, <1>3, <1>4, <1>5 DEF Commands

\* The steps that end a command.
Ends == WriteFails \/ Receive \/ Timeout \/ AwaitStopped

\* The loop goes on after the outcome out.
Advance(out) ==
    /\ Proceed(After(step, out))
    /\ out = "sent" =>
         step = "PDU" /\ loop = "await" /\ rx # <<>> /\ rx' = Tail(rx) /\ IsSent(1)
    /\ out = ">" =>
         step = "CMGS" /\ loop = "await" /\ rx # <<>> /\ rx' = Tail(rx) /\ IsPrompt(1)

LEMMA EndsFacts ==
  ASSUME TypeOK, Scripts, Ends
  PROVE  /\ loop \in {"write", "await"}
         /\ UNCHANGED <<caller, queue, modemVars, swallowed>>
         /\ rx' = rx \/ (rx # <<>> /\ rx' = Tail(rx))
         /\ \/ loop = "await" /\ UNCHANGED <<done, loopVars>>
            \/ \E out \in Outcomes : Advance(out)
  <1>1. CASE WriteFails
    BY <1>1 DEF WriteFails, Advance, Outcomes
  <1>2. CASE Timeout
    BY <1>2 DEF Timeout, Advance, Outcomes, portVars
  <1>3. CASE AwaitStopped
    BY <1>3 DEF AwaitStopped, Advance, Outcomes, portVars
  <1>4. CASE Receive
    <2>1. rx \in Seq(Lines) /\ rx # <<>> /\ rx' = Tail(rx) BY <1>4 DEF TypeOK, Receive
    <2>2. Head(rx) = rx[1] /\ rx[1] \in Lines BY <2>1, TailFacts
    <2> DEFINE out == Outcome(Head(rx))
    <2>3. CASE out = "more"
      BY <1>4, <2>1, <2>3 DEF Receive
    <2>4. CASE out # "more"
      <3>1. Proceed(After(step, out)) BY <1>4, <2>4 DEF Receive
      <3>2. out \in Outcomes BY <2>4 DEF Outcome, Outcomes
      <3>3. out = "sent" => step = "PDU" /\ IsSent(1)
        BY <2>2 DEF Outcome, IsSent, Lines
      <3>4. out = ">" => step = "CMGS" /\ IsPrompt(1)
        BY <2>2 DEF Outcome, IsPrompt
      <3>5. Advance(out) BY <1>4, <2>1, <3>1, <3>3, <3>4 DEF Advance, Receive
      <3>. HIDE DEF out
      <3>. QED BY <1>4, <2>1, <3>2, <3>5 DEF Receive
    <2>. QED BY <2>3, <2>4
  <1>. QED BY <1>1, <1>2, <1>3, <1>4 DEF Ends

-----------------------------------------------------------------------------
(* The line between the loop and the modem.                                *)

\* Lines are only read from rxChan, and the loop gets no nearer to a PDU.
LEMMA CalmLine ==
  ASSUME rx \in Seq(Lines), LineInv, UNCHANGED <<input, prompt, accepted>>,
         rx' = rx \/ (rx # <<>> /\ rx' = Tail(rx)),
         Writing' => Writing, Awaiting' => Awaiting /\ UNCHANGED <<cur, seg>>,
         Cancelling' => Writing \/ Awaiting \/ Cancelling
  PROVE  LineInv'
  <1> USE DEF LineInv
  <1>1. PICK d \in {0, 1} : \A k \in 1..Len(rx') : k + d \in 1..Len(rx) /\ rx'[k] = rx[k + d]
    <2>1. CASE rx' = rx BY <2>1
    <2>2. CASE rx # <<>> /\ rx' = Tail(rx) BY <2>2, TailFacts
    <2>. QED BY <2>1, <2>2
  <1>2. \A k \in 1..Len(rx') : /\ IsPrompt(k)' <=> IsPrompt(k + d)
                               /\ IsSent(k)' <=> IsSent(k + d)
                               /\ Quiet(k)' <=> Quiet(k + d)
    BY <1>1 DEF IsPrompt, IsSent, Quiet
  <1>3. \A k : /\ Closes(k)' <=> Closes(k)
               /\ Opens(k)' <=> Opens(k)
               /\ Sending(k)' <=> Sending(k)
    BY DEF Closes, Opens, Sending
  <1>4. \A k : Covered(k)' <=> Covered(k) BY <1>3 DEF Covered
  <1>5. PromptOpen' BY <1>1, <1>2, <1>3 DEF PromptOpen
  <1>6. OpensCovered' /\ OnePDU' BY <1>3, <1>4 DEF OpensCovered, OnePDU
  <1>7. PDUNext' BY <1>1, <1>2, <1>3, <1>4 DEF PDUNext
  <1>8. WriteReady' BY <1>1, <1>2, <1>3 DEF WriteReady
  <1>9. OwnAnswer'
    <2> SUFFICES ASSUME Awaiting' PROVE OwnAnswer' BY DEF OwnAnswer
    <2>. QED BY <1>1, <1>2, <1>3 DEF OwnAnswer
  <1>. QED BY <1>5, <1>6, <1>7, <1>8, <1>9

\* A line that is no answer reaches rxChan.
LEMMA QuietLine ==
  ASSUME rx \in Seq(Lines), LineInv, UNCHANGED <<loopVars, input, prompt, accepted>>,
         NEW e \in {[res |-> "URC"], [res |-> "Err"]}, rx' = Append(rx, e)
  PROVE  LineInv'
  <1> USE DEF LineInv
  <1>1. e \in Lines BY DEF Lines
  <1>2. /\ Len(rx') = Len(rx) + 1 /\ Len(rx) \in Nat
        /\ \A k \in 1..Len(rx') : (k \in 1..Len(rx) /\ rx'[k] = rx[k]) \/ rx'[k] = e
    BY <1>1, AppendFacts
  <1>3. e # [res |-> "OK", cmd |-> "PDU"] /\ e.res \in {"URC", "Err"} OBVIOUS
  <1>4. \A k \in 1..Len(rx') :
           \/ /\ k \in 1..Len(rx)
              /\ Quiet(k)' <=> Quiet(k)
              /\ IsPrompt(k)' <=> IsPrompt(k)
              /\ IsSent(k)' <=> IsSent(k)
           \/ Quiet(k)' /\ ~IsPrompt(k)' /\ ~IsSent(k)'
    BY <1>2, <1>3 DEF IsPrompt, IsSent, Quiet
  <1>5. \A k : /\ Closes(k)' <=> Closes(k)
               /\ Opens(k)' <=> Opens(k)
               /\ Sending(k)' <=> Sending(k)
    BY DEF Closes, Opens, Sending
  <1>6. /\ \A k : Covered(k)' <=> Covered(k)
        /\ Writing' <=> Writing
        /\ Awaiting' <=> Awaiting
        /\ Cancelling' <=> Cancelling
    BY <1>5 DEF Covered, Writing, Awaiting, Cancelling, loopVars
  <1>7. PromptOpen' BY <1>2, <1>4, <1>5 DEF PromptOpen
  <1>8. OpensCovered' /\ OnePDU' BY <1>5, <1>6 DEF OpensCovered, OnePDU
  <1>9. PDUNext' BY <1>4, <1>5, <1>6 DEF PDUNext
  <1>10. WriteReady' BY <1>4, <1>5, <1>6 DEF WriteReady
  <1>11. OwnAnswer' BY <1>4, <1>5, <1>6 DEF OwnAnswer, loopVars
  <1>. QED BY <1>7, <1>8, <1>9, <1>10, <1>11

\* The prompt the loop reads is open, and no answer to a PDU is left.
LEMMA PromptRead ==
  ASSUME rx \in Seq(Lines), LineInv, UNCHANGED <<input, prompt, accepted>>,
         rx # <<>>, rx' = Tail(rx), IsPrompt(1), Writing', ~Awaiting', ~Cancelling'
  PROVE  LineInv'
  <1> USE DEF LineInv
  <1>1. /\ Len(rx) \in Nat /\ Len(rx') = Len(rx) - 1 /\ 1 \in 1..Len(rx)
        /\ \A k \in 1..Len(rx') : k + 1 \in 1..Len(rx) /\ rx'[k] = rx[k + 1]
    BY TailFacts
  <1>2. prompt /\ (\A k \in 1..Len(input) : ~Closes(k))
        /\ \A q \in 1..Len(rx) : q > 1 => Quiet(q)
    BY <1>1 DEF PromptOpen
  <1>3. \A k \in 1..Len(rx') : Quiet(k)' BY <1>1, <1>2 DEF Quiet
  <1>4. \A k \in 1..Len(rx') : ~IsPrompt(k)' /\ ~IsSent(k)'
    BY <1>3 DEF Quiet, IsPrompt, IsSent
  <1>5. \A k : /\ Closes(k)' <=> Closes(k)
               /\ Opens(k)' <=> Opens(k)
               /\ Sending(k)' <=> Sending(k)
    BY DEF Closes, Opens, Sending
  <1>6. \A k : Covered(k)' BY <1>2, <1>5 DEF Covered
  <1>7. PromptOpen' /\ OpensCovered' /\ PDUNext' /\ WriteReady' /\ OwnAnswer'
    BY <1>2, <1>4, <1>5, <1>6 DEF PromptOpen, OpensCovered, PDUNext, WriteReady, OwnAnswer
  <1>8. OnePDU' BY <1>5 DEF OnePDU
  <1>. QED BY <1>7, <1>8

\* What the modem does with the oldest command: the rest moves up by one.
LEMMA InputTail ==
  ASSUME input \in Seq(Sent), input # <<>>, input' = Tail(input)
  PROVE  /\ Len(input) \in Nat /\ 1 \in 1..Len(input) /\ Len(input') = Len(input) - 1
         /\ Head(input) = input[1] /\ input[1] \in Sent
         /\ \A k \in 1..Len(input') :
              /\ k + 1 \in 1..Len(input) /\ input'[k] = input[k + 1]
              /\ Closes(k)' <=> Closes(k + 1)
              /\ Opens(k)' <=> Opens(k + 1)
              /\ Sending(k)' <=> Sending(k + 1)
  <1>1. /\ Len(input) \in Nat /\ 1 \in 1..Len(input) /\ Len(input') = Len(input) - 1
        /\ Head(input) = input[1] /\ input[1] \in Sent
        /\ \A k \in 1..Len(input') : k + 1 \in 1..Len(input) /\ input'[k] = input[k + 1]
    BY TailFacts
  <1>. QED BY <1>1 DEF Closes, Opens, Sending

\* An answer on rxChan.
LEMMA RxAppend ==
  ASSUME rx \in Seq(Lines), NEW e \in Lines, rx' = Append(rx, e)
  PROVE  /\ Len(rx) \in Nat /\ Len(rx') = Len(rx) + 1
         /\ Len(rx') \in 1..Len(rx') /\ rx'[Len(rx')] = e
         /\ \A k \in 1..Len(rx') :
              \/ /\ k \in 1..Len(rx)
                 /\ IsPrompt(k)' <=> IsPrompt(k)
                 /\ IsSent(k)' <=> IsSent(k)
                 /\ Quiet(k)' <=> Quiet(k)
              \/ /\ k = Len(rx')
                 /\ IsPrompt(k)' <=> e.res = ">"
                 /\ IsSent(k)' <=> e = [res |-> "OK", cmd |-> "PDU"]
  <1>1. /\ Len(rx) \in Nat /\ Len(rx') = Len(rx) + 1
        /\ Len(rx') \in 1..Len(rx') /\ rx'[Len(rx')] = e
        /\ \A k \in 1..Len(rx) : rx'[k] = rx[k]
        /\ \A k \in 1..Len(rx') : k \in 1..Len(rx) \/ k = Len(rx')
    BY AppendFacts
  <1>2. \A k \in 1..Len(rx) : /\ IsPrompt(k)' <=> IsPrompt(k)
                              /\ IsSent(k)' <=> IsSent(k)
                              /\ Quiet(k)' <=> Quiet(k)
    BY <1>1 DEF IsPrompt, IsSent, Quiet
  <1>3. \A k : k = Len(rx') => /\ IsPrompt(k)' <=> e.res = ">"
                               /\ IsSent(k)' <=> e = [res |-> "OK", cmd |-> "PDU"]
    BY <1>1 DEF IsPrompt, IsSent
  <1>. QED BY <1>1, <1>2, <1>3

LEMMA WriteLine ==
  ASSUME TypeOK, Scripts, LineInv, Write, Writing => accepted[cur] = seg - 1
  PROVE  LineInv'
  <1> USE DEF LineInv
  <1> DEFINE e == [cmd |-> step, from |-> cur]
  <1>1. /\ input' = Append(input, e) /\ loop = "write" /\ loop' = "await"
        /\ UNCHANGED <<cur, step, seg, rx, prompt, accepted>>
    BY DEF Write, portVars
  <1>2. e \in Sent /\ input \in Seq(Sent) BY <1>1 DEF Scripts, TypeOK, Sent
  <1>. HIDE DEF e
  <1>3. /\ Len(input) \in Nat /\ Len(input') = Len(input) + 1 /\ input'[Len(input')] = e
        /\ \A k \in 1..Len(input) : input'[k] = input[k]
        /\ \A k \in 1..Len(input') : k \in 1..Len(input) \/ k = Len(input')
    BY <1>1, <1>2, AppendFacts
  <1>4. \A k \in 1..Len(input) : /\ Closes(k)' <=> Closes(k)
                                 /\ Opens(k)' <=> Opens(k)
                                 /\ Sending(k)' <=> Sending(k)
    BY <1>3 DEF Closes, Opens, Sending
  <1>5. \A k : k = Len(input') => /\ Closes(k)' <=> step \in {"PDU", "ESC"}
                                  /\ Opens(k)' <=> step = "CMGS"
                                  /\ Sending(k)' <=> step = "PDU"
    BY <1>3 DEF Closes, Opens, Sending, e
  <1>6. /\ \A k : IsPrompt(k)' <=> IsPrompt(k)
        /\ \A k : IsSent(k)' <=> IsSent(k)
        /\ \A k : Quiet(k)' <=> Quiet(k)
        /\ Awaiting' <=> Writing
        /\ ~Writing' /\ ~Cancelling'
        /\ Writing <=> step = "PDU"
        /\ Cancelling <=> step = "ESC"
    BY <1>1 DEF IsPrompt, IsSent, Quiet, Awaiting, Writing, Cancelling
  <1>7. \A k \in 1..Len(input) : Covered(k) => Covered(k)'
    BY <1>1, <1>3, <1>4 DEF Covered
  <1>8. PromptOpen' BY <1>1, <1>3, <1>4, <1>5, <1>6 DEF PromptOpen, PDUNext
  <1>9. OpensCovered'
    <2> SUFFICES ASSUME NEW j \in 1..Len(input'), NEW k \in 1..Len(input'),
                        j < k, Opens(j)', Closes(k)'
                 PROVE  Covered(j)'
      BY DEF OpensCovered
    <2>1. j \in 1..Len(input) BY <1>3
    <2>2. CASE k \in 1..Len(input) BY <1>4, <1>7, <2>1, <2>2 DEF OpensCovered
    <2>3. CASE k = Len(input') BY <1>4, <1>5, <1>6, <1>7, <2>1, <2>3 DEF PDUNext
    <2>. QED BY <1>3, <2>2, <2>3
  <1>10. PDUNext' BY <1>1, <1>3, <1>4, <1>5, <1>6, <1>7 DEF PDUNext
  <1>11. WriteReady' BY <1>6 DEF WriteReady
  <1>12. OwnAnswer'
    <2> SUFFICES ASSUME Awaiting' PROVE OwnAnswer' BY DEF OwnAnswer
    <2>1. Writing /\ e = [cmd |-> "PDU", from |-> cur'] BY <1>1, <1>6 DEF e
    <2>2. /\ \A k \in 1..Len(input) : ~Closes(k)
          /\ \A p \in 1..Len(rx) : ~IsSent(p)
      BY <2>1 DEF WriteReady
    <2>. QED BY <1>1, <1>3, <1>4, <1>6, <2>1, <2>2 DEF OwnAnswer
  <1>13. OnePDU'
    <2>1. step = "PDU" => \A k \in 1..Len(input) : ~Sending(k)
      BY <1>6 DEF WriteReady, Closes, Sending
    <2>. QED BY <1>3, <1>4, <1>5, <2>1 DEF OnePDU
  <1>. QED BY <1>8, <1>9, <1>10, <1>11, <1>12, <1>13

LEMMA AnswersLine ==
  ASSUME TypeOK, LineInv, ModemAnswers
  PROVE  LineInv'
  <1> USE DEF LineInv
  <1> DEFINE h == input[1]
  <1>1. /\ input \in Seq(Sent) /\ rx \in Seq(Lines) /\ input # <<>> /\ ~prompt
        /\ input' = Tail(input) /\ UNCHANGED <<loop, cur, step, seg, accepted>>
    BY DEF TypeOK, ModemAnswers, loopVars
  <1>2. /\ Len(input) \in Nat /\ 1 \in 1..Len(input) /\ Len(input') = Len(input) - 1
        /\ Head(input) = h /\ h \in Sent
        /\ \A k \in 1..Len(input') :
              /\ k + 1 \in 1..Len(input) /\ input'[k] = input[k + 1]
              /\ Closes(k)' <=> Closes(k + 1)
              /\ Opens(k)' <=> Opens(k + 1)
              /\ Sending(k)' <=> Sending(k + 1)
    BY <1>1, InputTail
  <1>3. \A k : ~Covered(k) BY <1>1 DEF Covered
  <1>4. \A p \in 1..Len(rx) : ~IsPrompt(p) BY <1>1 DEF PromptOpen
  <1>5. \A j, k \in 1..Len(input) : j < k /\ Opens(j) => ~Closes(k)
    BY <1>3 DEF OpensCovered
  <1>6. Writing \/ Awaiting \/ Cancelling => \A k \in 1..Len(input) : ~Opens(k)
    BY <1>3 DEF PDUNext
  <1>7. ~Writing BY <1>1 DEF WriteReady
  <1>8. /\ Writing' <=> Writing
        /\ Awaiting' <=> Awaiting
        /\ Cancelling' <=> Cancelling
    BY <1>1 DEF Writing, Awaiting, Cancelling
  <1>9. OnePDU' BY <1>2 DEF OnePDU
  <1>10. CASE h.cmd = "CMGS" /\ prompt' = TRUE /\ Emit([res |-> ">", cmd |-> h.cmd])
    <2>1. Opens(1) /\ ~Closes(1) BY <1>10 DEF Opens, Closes
    <2>2. \A k \in 1..Len(input') : ~Closes(k)' BY <1>2, <1>5, <2>1
    <2>3. \A k : Covered(k)' BY <1>10, <2>2 DEF Covered
    <2>4. ~Awaiting /\ ~Cancelling BY <1>2, <1>6, <2>1
    <2> DEFINE e == [res |-> ">", cmd |-> "CMGS"]
    <2>5. e \in Lines /\ e.res = ">" BY DEF Lines, Commands
    <2>6. rx' = Append(rx, e) BY <1>10 DEF Emit
    <2>. HIDE DEF e
    <2>7. /\ Len(rx) \in Nat /\ Len(rx') = Len(rx) + 1
          /\ \A k \in 1..Len(rx') : IsPrompt(k)' => k = Len(rx')
      BY <1>1, <1>4, <2>5, <2>6, RxAppend
    <2>8. PromptOpen' BY <1>10, <2>2, <2>7 DEF PromptOpen
    <2>9. OpensCovered' BY <2>3 DEF OpensCovered
    <2>10. PDUNext' /\ WriteReady' /\ OwnAnswer'
      BY <1>7, <1>8, <2>4 DEF PDUNext, WriteReady, OwnAnswer
    <2>. QED BY <1>9, <2>8, <2>9, <2>10
  <1>11. ASSUME prompt' = prompt,
                NEW e \in Lines, e.res # ">", e # [res |-> "OK", cmd |-> "PDU"],
                rx' = Append(rx, e)
         PROVE  LineInv'
    <2>1. \A k \in 1..Len(rx') :
             ~IsPrompt(k)' /\ (IsSent(k)' => k \in 1..Len(rx) /\ IsSent(k))
      BY <1>1, <1>4, <1>11, RxAppend
    <2>2. PromptOpen' BY <2>1 DEF PromptOpen
    <2>3. OpensCovered'
      <3> SUFFICES ASSUME NEW j \in 1..Len(input'), NEW k \in 1..Len(input'),
                          j < k, Opens(j)', Closes(k)'
                   PROVE  FALSE
        BY DEF OpensCovered
      <3>1. /\ j + 1 \in 1..Len(input) /\ k + 1 \in 1..Len(input)
            /\ Opens(j + 1) /\ Closes(k + 1)
        BY <1>2
      <3>. QED BY <1>5, <3>1
    <2>4. PDUNext' BY <1>2, <1>6, <1>8, <2>1 DEF PDUNext
    <2>5. WriteReady' BY <1>7, <1>8 DEF WriteReady
    <2>6. OwnAnswer'
      <3> SUFFICES ASSUME Awaiting' PROVE OwnAnswer' BY DEF OwnAnswer
      <3>1. \A k \in 1..Len(input') : Closes(k)' =>
               /\ k + 1 = Len(input) /\ input'[k] = [cmd |-> "PDU", from |-> cur]
               /\ accepted[cur] = seg - 1
               /\ \A p \in 1..Len(rx) : ~IsSent(p)
        BY <1>2, <1>8 DEF OwnAnswer
      <3>2. \A p \in 1..Len(rx) : IsSent(p) => accepted[cur] = seg
        BY <1>8 DEF OwnAnswer
      <3>3. \A k \in 1..Len(input') : Closes(k)' =>
               /\ k = Len(input') /\ input'[k] = [cmd |-> "PDU", from |-> cur']
               /\ accepted'[cur'] = seg' - 1
               /\ \A p \in 1..Len(rx') : ~IsSent(p)'
        <4> TAKE k \in 1..Len(input')
        <4> HAVE Closes(k)'
        <4>1. /\ k + 1 = Len(input) /\ input'[k] = [cmd |-> "PDU", from |-> cur]
              /\ accepted[cur] = seg - 1
              /\ \A p \in 1..Len(rx) : ~IsSent(p)
          BY <3>1
        <4>2. k = Len(input') BY <1>2, <4>1
        <4>3. \A p \in 1..Len(rx') : ~IsSent(p)' BY <1>1, <2>1, <4>1
        <4>. QED BY <1>1, <4>1, <4>2, <4>3
      <3>4. \A p \in 1..Len(rx') : IsSent(p)' => accepted'[cur'] = seg'
        BY <1>1, <2>1, <3>2
      <3>. QED BY <3>3, <3>4 DEF OwnAnswer
    <2>. QED BY <1>9, <2>2, <2>3, <2>4, <2>5, <2>6
  <1>12. CASE /\ h.cmd \notin {"CMGS", "PDU", "ESC"}
              /\ Emit([res |-> "OK", cmd |-> h.cmd])
              /\ UNCHANGED prompt
    <2>1. [res |-> "OK", cmd |-> h.cmd] \in Lines BY <1>2 DEF Lines, Sent
    <2>2. [res |-> "OK", cmd |-> h.cmd] # [res |-> "OK", cmd |-> "PDU"] BY <1>12
    <2>. QED BY <1>11, <1>12, <2>1, <2>2 DEF Emit
  <1>13. CASE Emit([res |-> "ERROR", cmd |-> h.cmd]) /\ UNCHANGED prompt
    <2>1. [res |-> "ERROR", cmd |-> h.cmd] \in Lines BY <1>2 DEF Lines, Sent
    <2>2. [res |-> "ERROR", cmd |-> h.cmd] # [res |-> "OK", cmd |-> "PDU"] OBVIOUS
    <2>. QED BY <1>11, <1>13, <2>1, <2>2 DEF Emit
  <1>. QED BY <1>2, <1>10, <1>12, <1>13 DEF ModemAnswers

LEMMA TakesLine ==
  ASSUME TypeOK, Scripts, LineInv, ModemTakesPDU
  PROVE  LineInv'
  <1> USE DEF LineInv
  <1> DEFINE h == input[1]
  <1>1. /\ input \in Seq(Sent) /\ rx \in Seq(Lines) /\ input # <<>> /\ prompt
        /\ input' = Tail(input) /\ prompt' = FALSE /\ UNCHANGED <<loop, cur, step, seg>>
    BY DEF TypeOK, ModemTakesPDU, loopVars
  <1>2. /\ Len(input) \in Nat /\ 1 \in 1..Len(input) /\ Len(input') = Len(input) - 1
        /\ Head(input) = h /\ h \in Sent
        /\ \A k \in 1..Len(input') :
              /\ k + 1 \in 1..Len(input) /\ input'[k] = input[k + 1]
              /\ Closes(k)' <=> Closes(k + 1)
              /\ Opens(k)' <=> Opens(k + 1)
              /\ Sending(k)' <=> Sending(k + 1)
    BY <1>1, InputTail
  <1>3. Closes(1) /\ ~Opens(1) /\ h.cmd \in {"PDU", "ESC"}
    BY <1>2 DEF Closes, Opens, ModemTakesPDU
  <1>4. \A k \in 1..Len(input) : k > 1 => ~Covered(k) BY <1>2, <1>3 DEF Covered
  <1>5. \A p \in 1..Len(rx) : ~IsPrompt(p) BY <1>2, <1>3 DEF PromptOpen
  <1>6. ~Writing BY <1>2, <1>3 DEF WriteReady
  <1>7. /\ Writing' <=> Writing
        /\ Awaiting' <=> Awaiting
        /\ Cancelling' <=> Cancelling
    BY <1>1 DEF Writing, Awaiting, Cancelling
  <1>8. PICK e \in Lines :
           /\ rx' = Append(rx, e) /\ e.res # ">"
           /\ \/ /\ e = [res |-> "OK", cmd |-> h.cmd]
                 /\ accepted' = [accepted EXCEPT ![h.from] = IF h.cmd = "PDU" THEN @ + 1 ELSE @]
              \/ e = [res |-> "ERROR", cmd |-> h.cmd] /\ accepted' = accepted
    <2>1. \A r \in {"OK", "ERROR"} : [res |-> r, cmd |-> h.cmd] \in Lines
      BY <1>2 DEF Lines, Sent
    <2>. QED BY <1>2, <2>1 DEF ModemTakesPDU, Emit
  <1>9. \A k \in 1..Len(rx') :
           /\ ~IsPrompt(k)'
           /\ IsSent(k)' => (k \in 1..Len(rx) /\ IsSent(k)) \/ e = [res |-> "OK", cmd |-> "PDU"]
    BY <1>1, <1>5, <1>8, RxAppend
  <1>10. PromptOpen' BY <1>9 DEF PromptOpen
  <1>11. OpensCovered'
    <2> SUFFICES ASSUME NEW j \in 1..Len(input'), NEW k \in 1..Len(input'),
                        j < k, Opens(j)', Closes(k)'
                 PROVE  FALSE
      BY DEF OpensCovered
    <2>1. /\ j + 1 \in 1..Len(input) /\ k + 1 \in 1..Len(input)
          /\ Opens(j + 1) /\ Closes(k + 1)
      BY <1>2
    <2>. QED BY <1>4, <2>1 DEF OpensCovered
  <1>12. PDUNext'
    <2> SUFFICES ASSUME Writing \/ Awaiting \/ Cancelling, NEW k \in 1..Len(input'), Opens(k)'
                 PROVE  FALSE
      BY <1>7, <1>9 DEF PDUNext
    <2>1. k + 1 \in 1..Len(input) /\ Opens(k + 1) BY <1>2
    <2>. QED BY <1>4, <2>1 DEF PDUNext
  <1>13. WriteReady' BY <1>6, <1>7 DEF WriteReady
  <1>14. OwnAnswer'
    <2> SUFFICES ASSUME Awaiting PROVE OwnAnswer' BY <1>7 DEF OwnAnswer
    <2>1. /\ Len(input) = 1 /\ h = [cmd |-> "PDU", from |-> cur]
          /\ accepted[cur] = seg - 1 /\ \A p \in 1..Len(rx) : ~IsSent(p)
      BY <1>2, <1>3 DEF OwnAnswer
    <2>2. cur \in SMSClients /\ seg \in Nat /\ accepted \in [SMSClients -> 0..Segments]
      BY BoundsAssumption DEF Scripts, TypeOK, Awaiting
    <2>3. e = [res |-> "OK", cmd |-> "PDU"] => accepted'[cur] = seg
      BY <1>8, <2>1, <2>2
    <2>4. \A k \in 1..Len(input') : Closes(k)' =>
             /\ k = Len(input') /\ input'[k] = [cmd |-> "PDU", from |-> cur']
             /\ accepted'[cur'] = seg' - 1
             /\ \A p \in 1..Len(rx') : ~IsSent(p)'
      BY <1>2, <2>1
    <2>5. \A p \in 1..Len(rx') : IsSent(p)' => accepted'[cur'] = seg'
      BY <1>1, <1>9, <2>1, <2>3
    <2>. QED BY <2>4, <2>5 DEF OwnAnswer
  <1>15. OnePDU' BY <1>2 DEF OnePDU
  <1>. QED BY <1>10, <1>11, <1>12, <1>13, <1>14, <1>15

LEMMA SwallowsLine ==
  ASSUME TypeOK, LineInv, ModemSwallows
  PROVE  LineInv'
  <1> USE DEF LineInv
  <1>1. /\ input \in Seq(Sent) /\ input # <<>> /\ prompt /\ input' = Tail(input)
        /\ UNCHANGED <<loop, cur, step, seg, rx, prompt, accepted>>
    BY DEF TypeOK, ModemSwallows, loopVars, portVars
  <1>2. /\ Len(input) \in Nat /\ 1 \in 1..Len(input) /\ Len(input') = Len(input) - 1
        /\ Head(input) = input[1]
        /\ \A k \in 1..Len(input') :
              /\ k + 1 \in 1..Len(input) /\ input'[k] = input[k + 1]
              /\ Closes(k)' <=> Closes(k + 1)
              /\ Opens(k)' <=> Opens(k + 1)
              /\ Sending(k)' <=> Sending(k + 1)
    BY <1>1, InputTail
  <1>3. /\ \A k : IsPrompt(k)' <=> IsPrompt(k)
        /\ \A k : IsSent(k)' <=> IsSent(k)
        /\ \A k : Quiet(k)' <=> Quiet(k)
        /\ Writing' <=> Writing
        /\ Awaiting' <=> Awaiting
        /\ Cancelling' <=> Cancelling
    BY <1>1 DEF IsPrompt, IsSent, Quiet, Writing, Awaiting, Cancelling
  <1>4. \A k \in 1..Len(input') : Covered(k + 1) => Covered(k)'
    BY <1>1, <1>2 DEF Covered
  <1>5. PromptOpen' BY <1>1, <1>2, <1>3 DEF PromptOpen
  <1>6. OpensCovered'
    <2> SUFFICES ASSUME NEW j \in 1..Len(input'), NEW k \in 1..Len(input'),
                        j < k, Opens(j)', Closes(k)'
                 PROVE  Covered(j)'
      BY DEF OpensCovered
    <2>1. /\ j + 1 \in 1..Len(input) /\ k + 1 \in 1..Len(input) /\ j + 1 < k + 1
          /\ Opens(j + 1) /\ Closes(k + 1)
      BY <1>2
    <2>. QED BY <1>4, <2>1 DEF OpensCovered
  <1>7. PDUNext' BY <1>1, <1>2, <1>3, <1>4 DEF PDUNext
  <1>8. WriteReady' BY <1>1, <1>2, <1>3 DEF WriteReady
  <1>9. OwnAnswer'
    <2> SUFFICES ASSUME Awaiting PROVE OwnAnswer' BY <1>3 DEF OwnAnswer
    <2>1. \A k \in 1..Len(input') : Closes(k)' =>
             /\ k + 1 = Len(input) /\ input'[k] = [cmd |-> "PDU", from |-> cur]
             /\ accepted[cur] = seg - 1
             /\ \A p \in 1..Len(rx) : ~IsSent(p)
      BY <1>2 DEF OwnAnswer
    <2>2. \A p \in 1..Len(rx) : IsSent(p) => accepted[cur] = seg
      BY DEF OwnAnswer
    <2>3. \A k \in 1..Len(input') : Closes(k)' =>
             /\ k = Len(input') /\ input'[k] = [cmd |-> "PDU", from |-> cur']
             /\ accepted'[cur'] = seg' - 1
             /\ \A p \in 1..Len(rx') : ~IsSent(p)'
      <3> TAKE k \in 1..Len(input')
      <3> HAVE Closes(k)'
      <3>1. /\ k + 1 = Len(input) /\ input'[k] = [cmd |-> "PDU", from |-> cur]
            /\ accepted[cur] = seg - 1
            /\ \A p \in 1..Len(rx) : ~IsSent(p)
        BY <2>1
      <3>2. k = Len(input') BY <1>2, <3>1
      <3>3. \A p \in 1..Len(rx') : ~IsSent(p)' BY <1>1, <1>3, <3>1
      <3>. QED BY <1>1, <3>1, <3>2, <3>3
    <2>4. \A p \in 1..Len(rx') : IsSent(p)' => accepted'[cur'] = seg'
      BY <1>1, <1>3, <2>2
    <2>. QED BY <2>3, <2>4 DEF OwnAnswer
  <1>10. OnePDU' BY <1>2 DEF OnePDU
  <1>. QED BY <1>5, <1>6, <1>7, <1>8, <1>9, <1>10

-----------------------------------------------------------------------------
(* Callers.                                                                *)

LEMMA QueueAppend ==
  ASSUME TypeOK, NEW c \in Submitters, queue' = Append(queue, c)
  PROVE  /\ queue' \in Seq(Submitters) /\ Len(queue') = Len(queue) + 1 /\ Len(queue) \in Nat
         /\ \A k \in 1..Len(queue') :
              (k \in 1..Len(queue) /\ queue'[k] = queue[k]) \/ (k = Len(queue') /\ queue'[k] = c)
         /\ \A d : InQueue(d)' => InQueue(d) \/ d = c
  <1>1. queue \in Seq(Submitters) BY DEF TypeOK
  <1>2. /\ queue' \in Seq(Submitters) /\ Len(queue') = Len(queue) + 1 /\ Len(queue) \in Nat
        /\ \A k \in 1..Len(queue') :
              (k \in 1..Len(queue) /\ queue'[k] = queue[k]) \/ (k = Len(queue') /\ queue'[k] = c)
    BY <1>1, AppendFacts
  <1>. QED BY <1>2 DEF InQueue

LEMMA QueuedOnceAppend ==
  ASSUME TypeOK, QueuedOnce, NEW c \in Submitters, queue' = Append(queue, c),
         c \in SMSClients => ~InQueue(c)
  PROVE  QueuedOnce'
  <1>1. /\ Len(queue') = Len(queue) + 1 /\ Len(queue) \in Nat
        /\ \A k \in 1..Len(queue') :
              (k \in 1..Len(queue) /\ queue'[k] = queue[k]) \/ (k = Len(queue') /\ queue'[k] = c)
    BY QueueAppend
  <1>. QED BY <1>1 DEF QueuedOnce, InQueue

LEMMA PendingSame ==
  ASSUME UNCHANGED input
  PROVE  \A c : Pending(c)' <=> Pending(c)
  BY DEF Pending, Sending

LEMMA CallersKeep ==
  ASSUME SentInv, NEW c \in Clients, Call(c) \/ Caller(c)
  PROVE  SentInv'
  <1> USE DEF SentInv, Caller
  <1>0. /\ caller \in [Clients -> {"idle", "offer", "wait"} \cup Results]
        /\ done \in [Submitters -> Results \cup {None}]
        /\ c \in Submitters /\ SMSClients \subseteq Clients /\ Clients \subseteq Submitters
    BY DEF TypeOK, Submitters, Clients
  <1>1. UNCHANGED <<loopVars, portVars, modemVars, late, swallowed>>
    BY DEF Call, Submit, Return, GiveUp
  <1>2. Scripts' BY <1>1 DEF Scripts, loopVars
  <1>3. /\ Writing' <=> Writing
        /\ Awaiting' <=> Awaiting
        /\ Cancelling' <=> Cancelling
    BY <1>1 DEF Writing, Awaiting, Cancelling, loopVars
  <1>4. LineInv'
    <2>1. rx \in Seq(Lines) BY DEF TypeOK
    <2>. QED BY <1>1, <1>3, <2>1, CalmLine DEF loopVars, portVars, modemVars
  <1>5. \A d : Pending(d)' <=> Pending(d) BY <1>1, PendingSame DEF modemVars
  <1>6. UNCHANGED <<cur, step, seg, accepted>> BY <1>1 DEF loopVars, modemVars
  <1>7. CASE Submit(c)
    <2>1. /\ queue' = Append(queue, c) /\ Len(queue) < QueueCap /\ done' = done
          /\ caller[c] = "offer" /\ caller' = [caller EXCEPT ![c] = "wait"]
      BY <1>7 DEF Submit
    <2>2. /\ queue' \in Seq(Submitters) /\ Len(queue') = Len(queue) + 1 /\ Len(queue) \in Nat
          /\ \A d : InQueue(d)' => InQueue(d) \/ d = c
      BY <1>0, <2>1, QueueAppend
    <2>3. TypeOK'
      <3>1. Len(queue') <= QueueCap BY <2>1, <2>2, BoundsAssumption
      <3>2. caller' \in [Clients -> {"idle", "offer", "wait"} \cup Results] BY <1>0, <2>1
      <3>. QED BY <1>1, <2>1, <2>2, <3>1, <3>2 DEF TypeOK, loopVars, portVars, modemVars
    <2>4. c \in SMSClients => ~InQueue(c) /\ cur # c /\ accepted[c] = 0 /\ ~Pending(c)
      BY <2>1 DEF Ledger, Account
    <2>5. QueuedOnce' BY <1>0, <2>1, <2>4, QueuedOnceAppend
    <2>6. Ledger'
      <3> SUFFICES ASSUME NEW d \in SMSClients PROVE Account(d)' BY DEF Ledger
      <3>1. CASE d = c
        <4>1. caller'[d] = "wait" /\ done'[d] = done[d] BY <1>0, <2>1, <3>1
        <4>. QED BY <1>3, <1>5, <1>6, <2>1, <2>4, <3>1, <4>1 DEF Ledger, Account, Reported
      <3>2. CASE d # c
        <4>1. caller'[d] = caller[d] /\ done'[d] = done[d] BY <1>0, <2>1, <3>2
        <4>. QED BY <1>3, <1>5, <1>6, <2>2, <3>2, <4>1 DEF Ledger, Account, Reported
      <3>. QED BY <3>1, <3>2
    <2>. QED BY <1>2, <1>4, <2>3, <2>5, <2>6
  <1>8. CASE Call(c) \/ Return(c) \/ GiveUp(c)
    <2>1. /\ queue' = queue
          /\ \A d \in Clients : caller'[d] = caller[d]
                                \/ (caller[d] = "idle" /\ caller'[d] = "offer")
                                \/ (caller'[d] \in Results /\ caller'[d] \in {done[d], "err"})
          /\ \A d \in Clients : done'[d] \in {done[d], None}
      BY <1>0, <1>8 DEF Call, Return, GiveUp, Results
    <2>2. TypeOK'
      <3>1. /\ caller' \in [Clients -> {"idle", "offer", "wait"} \cup Results]
            /\ done' \in [Submitters -> Results \cup {None}]
        BY <1>0, <1>8 DEF Call, Return, GiveUp, Results
      <3>. QED BY <1>1, <2>1, <3>1 DEF TypeOK, loopVars, portVars, modemVars
    <2>3. QueuedOnce' /\ \A d : InQueue(d)' <=> InQueue(d) BY <2>1 DEF QueuedOnce, InQueue
    <2>4. Ledger'
      <3> SUFFICES ASSUME NEW d \in SMSClients PROVE Account(d)' BY DEF Ledger
      <3>1. Reported(d)' => Reported(d)
        BY <1>0, <2>1, NamesAssumption DEF Reported, Results
      <3>2. caller'[d] \in {"idle", "offer"} => caller[d] \in {"idle", "offer"}
        BY <1>0, <2>1 DEF Results
      <3>. QED BY <1>3, <1>5, <1>6, <2>3, <3>1, <3>2 DEF Ledger, Account
    <2>. QED BY <1>2, <1>4, <2>2, <2>3, <2>4
  <1>. QED BY <1>7, <1>8

-----------------------------------------------------------------------------
(* The loop, the reader and the modem.                                     *)

\* Nothing moves but commands that leave the modem's input, and the loop only
\* where it holds no transaction of SendSMS.
LEMMA LedgerKept ==
  ASSUME Ledger, UNCHANGED <<caller, done, accepted, cur>>,
         \A c \in SMSClients : InQueue(c)' => InQueue(c),
         \A c \in SMSClients : Pending(c)' => Pending(c),
         cur \in SMSClients => UNCHANGED <<loop, step, seg>>
  PROVE  Ledger'
  <1> SUFFICES ASSUME NEW c \in SMSClients PROVE Account(c)' BY DEF Ledger
  <1>1. Account(c) BY DEF Ledger
  <1>2. cur = c => UNCHANGED <<step, seg>> /\ (Awaiting' <=> Awaiting)
    BY DEF Awaiting
  <1>. QED BY <1>1, <1>2 DEF Account, Reported

\* Steps that neither take up nor advance a transaction.
LEMMA SideStepsKeep ==
  ASSUME SentInv,
         IdleLine \/ LoopExit \/ NestedSubmit \/ NestedReturns \/ Reader \/ ReaderDropsLine \/ ReadError
           \/ Stop \/ ModemReports
  PROVE  SentInv'
  <1> USE DEF SentInv
  <1>0. /\ rx \in Seq(Lines) /\ Len(rx) \in Nat /\ Len(rx) <= RxCap
        /\ RxCap \in Nat /\ QueueCap \in Nat /\ MaxURC \in Nat
    BY BoundsAssumption DEF TypeOK
  <1>1. UNCHANGED <<caller, done, cur, seg, input, prompt, accepted, swallowed, late>>
    BY DEF IdleLine, LoopExit, NestedSubmit, NestedReturns, Reader, ReportError, ReaderExit, ReaderDropsLine,
       ReadError, Stop, ModemReports, callerVars, loopVars, modemVars
  <1>2. \/ UNCHANGED <<loop, step>>
        \/ loop = "select" /\ loop' = "exited" /\ step' = step
        \/ loop = "offer" /\ loop' = "nested" /\ step' = step
        \/ loop \in {"offer", "nested"} /\ loop' = "write" /\ step' = "CSQ"
    BY DEF IdleLine, LoopExit, NestedSubmit, NestedReturns, Reader, ReportError, ReaderExit, ReaderDropsLine,
       ReadError, Stop, ModemReports, loopVars
  <1>3. Scripts' BY <1>1, <1>2 DEF Scripts, Commands
  <1>4. \/ rx' = rx
        \/ rx # <<>> /\ rx' = Tail(rx)
        \/ /\ Len(rx) < RxCap /\ loopVars' = loopVars
           /\ \E e \in {[res |-> "URC"], [res |-> "Err"]} : rx' = Append(rx, e)
    BY DEF IdleLine, LoopExit, NestedSubmit, NestedReturns, Reader, ReportError, ReaderExit, ReaderDropsLine,
       ReadError, Stop, ModemReports, Emit, portVars
  <1>5. queue' = queue \/ (Len(queue) < QueueCap /\ queue' = Append(queue, Nested))
    BY DEF IdleLine, LoopExit, NestedSubmit, NestedReturns, Reader, ReportError, ReaderExit, ReaderDropsLine,
       ReadError, Stop, ModemReports, callerVars
  <1>6. LineInv'
    <2>1. CASE rx' = rx \/ (rx # <<>> /\ rx' = Tail(rx))
      <3>1. /\ Writing' => Writing
            /\ Awaiting' => Awaiting
            /\ Cancelling' => Cancelling
        BY <1>2 DEF Writing, Awaiting, Cancelling
      <3>. QED BY <1>0, <1>1, <2>1, <3>1, CalmLine
    <2>2. CASE loopVars' = loopVars /\ \E e \in {[res |-> "URC"], [res |-> "Err"]} : rx' = Append(rx, e)
      BY <1>0, <1>1, <2>2, QuietLine
    <2>. QED BY <1>4, <2>1, <2>2
  <1>7. QueuedOnce' /\ \A c \in SMSClients : InQueue(c)' => InQueue(c)
    <2>1. CASE queue' = queue BY <2>1 DEF QueuedOnce, InQueue
    <2>2. CASE queue' = Append(queue, Nested)
      <3>1. Nested \in Submitters /\ Nested \notin SMSClients
        BY NamesAssumption DEF Submitters, Clients
      <3>. QED BY <2>2, <3>1, QueueAppend, QueuedOnceAppend
    <2>. QED BY <1>5, <2>1, <2>2
  <1>8. Ledger'
    <2>1. \A c : Pending(c)' <=> Pending(c) BY <1>1, PendingSame
    <2>2. cur \in SMSClients => UNCHANGED <<loop, step, seg>>
      BY <1>1, <1>2, NamesAssumption DEF Scripts, Submitters, Clients
    <2>. QED BY <1>1, <1>7, <2>1, <2>2, LedgerKept
  <1>9. TypeOK'
    <2>1. queue' \in Seq(Submitters) /\ Len(queue') <= QueueCap
      <3>1. CASE queue' = queue BY <3>1 DEF TypeOK
      <3>2. CASE Len(queue) < QueueCap /\ queue' = Append(queue, Nested)
        <4>1. queue' \in Seq(Submitters) /\ Len(queue') = Len(queue) + 1 /\ Len(queue) \in Nat
          BY <3>2, QueueAppend DEF Submitters
        <4>. QED BY <1>0, <3>2, <4>1
      <3>. QED BY <1>5, <3>1, <3>2
    <2>2. rx' \in Seq(Lines) /\ Len(rx') <= RxCap
      <3>1. CASE rx' = rx BY <1>0, <3>1
      <3>2. CASE rx # <<>> /\ rx' = Tail(rx)
        <4>1. rx' \in Seq(Lines) /\ Len(rx') = Len(rx) - 1 BY <1>0, <3>2, TailFacts
        <4>. QED BY <1>0, <4>1
      <3>3. CASE Len(rx) < RxCap /\ \E e \in {[res |-> "URC"], [res |-> "Err"]} : rx' = Append(rx, e)
        <4>1. rx' \in Seq(Lines) /\ Len(rx') = Len(rx) + 1
          BY <1>0, <3>3, AppendFacts DEF Lines
        <4>. QED BY <1>0, <3>3, <4>1
      <3>. QED BY <1>4, <3>1, <3>2, <3>3
    <2>3. /\ loop' \in {"select", "write", "await", "offer", "nested", "exited"}
          /\ step' \in Commands \cup {"LOOKUP", None}
      BY <1>2 DEF TypeOK, Commands
    <2>4. reader' \in {"reading", "failing", "exited"} /\ stopped' \in BOOLEAN /\ reprobe' \in BOOLEAN
      BY DEF IdleLine, LoopExit, NestedSubmit, NestedReturns, Reader, ReportError, ReaderExit, ReaderDropsLine,
         ReadError, Stop, ModemReports, TypeOK, portVars
    <2>5. urcs' \in 0..MaxURC
      <3>1. urcs' = urcs \/ (urcs < MaxURC /\ urcs' = urcs + 1)
        BY DEF IdleLine, LoopExit, NestedSubmit, NestedReturns, Reader, ReportError, ReaderExit, ReaderDropsLine,
           ReadError, Stop, ModemReports, modemVars
      <3>. QED BY <1>0, <3>1 DEF TypeOK
    <2>. QED BY <1>1, <2>1, <2>2, <2>3, <2>4, <2>5 DEF TypeOK
  <1>. QED BY <1>3, <1>6, <1>7, <1>8, <1>9

LEMMA TakeKeeps ==
  ASSUME SentInv, Take
  PROVE  SentInv'
  <1> USE DEF SentInv
  <1> PICK c : c = queue[1] OBVIOUS
  <1>1. /\ queue \in Seq(Submitters) /\ queue # <<>> /\ queue' = Tail(queue)
        /\ loop = "select" /\ cur = None /\ step = None /\ seg = 1
        /\ done \in [Submitters -> Results \cup {None}]
        /\ UNCHANGED <<caller, portVars, modemVars, late, swallowed, seg>>
    BY DEF TypeOK, Take, Scripts, loopVars
  <1>2. /\ Len(queue) \in Nat /\ 1 \in 1..Len(queue) /\ Len(queue') = Len(queue) - 1
        /\ Head(queue) = c /\ c \in Submitters /\ queue' \in Seq(Submitters)
        /\ \A k \in 1..Len(queue') : k + 1 \in 1..Len(queue) /\ queue'[k] = queue[k + 1]
    BY <1>1, TailFacts
  <1>3. QueuedOnce' BY <1>2 DEF QueuedOnce
  <1>4. /\ \A d : InQueue(d)' => InQueue(d)
        /\ InQueue(c) /\ (c \in SMSClients => ~InQueue(c)')
    BY <1>2 DEF InQueue, QueuedOnce
  <1>5. PICK s \in First(c) :
           IF s \in Results
           THEN done' = [done EXCEPT ![c] = s] /\ UNCHANGED loopVars
           ELSE loop' = "write" /\ cur' = c /\ step' = s /\ done' = done
    BY <1>2 DEF Take
  <1>6. IF c \in SMSClients THEN s = "CSMS" ELSE s \in {"AT", "CREG", "ok"}
    BY <1>2, NamesAssumption DEF First, Submitters, Clients
  <1>7. \/ s = "ok" /\ c \notin SMSClients /\ done' = [done EXCEPT ![c] = "ok"] /\ UNCHANGED loopVars
        \/ /\ s \in Commands /\ (c \in SMSClients <=> s = "CSMS")
           /\ s \in {"AT", "CREG", "CSMS"}
           /\ loop' = "write" /\ cur' = c /\ step' = s /\ done' = done
    BY <1>5, <1>6 DEF Results, Commands
  <1>8. c # None BY <1>2, NamesAssumption
  <1>9. Scripts' BY <1>1, <1>7, <1>8 DEF Scripts, loopVars
  <1>10. LineInv'
    <2>1. ~Writing' /\ ~Awaiting' /\ ~Cancelling'
      BY <1>1, <1>7 DEF Writing, Awaiting, Cancelling, loopVars
    <2>. QED BY <1>1, <2>1, CalmLine DEF TypeOK, portVars, modemVars
  <1>11. \A d : Pending(d)' <=> Pending(d) BY <1>1, PendingSame DEF modemVars
  <1>12. Ledger'
    <2> SUFFICES ASSUME NEW d \in SMSClients PROVE Account(d)' BY DEF Ledger
    <2>1. Account(d) /\ d # None
      BY NamesAssumption DEF Ledger, Submitters, Clients
    <2>2. done'[d] = done[d] /\ accepted' = accepted
      BY <1>1, <1>7 DEF modemVars, Submitters, Clients
    <2>3. CASE cur' = c /\ step' = s /\ d = c
      BY <1>1, <1>4, <1>7, <1>11, <2>1, <2>2, <2>3 DEF Account, Reported
    <2>4. CASE cur' # d
      BY <1>1, <1>4, <1>11, <2>1, <2>2, <2>4 DEF Account, Reported
    <2>. QED BY <1>1, <1>7, <2>1, <2>3, <2>4 DEF loopVars
  <1>13. TypeOK'
    <2>1. Len(queue') <= QueueCap BY <1>1, <1>2, BoundsAssumption DEF TypeOK
    <2>2. done' \in [Submitters -> Results \cup {None}] BY <1>1, <1>2, <1>7 DEF Results
    <2>3. /\ loop' \in {"select", "write", "await", "offer", "nested", "exited"}
          /\ step' \in Commands \cup {"LOOKUP", None} /\ cur' \in Submitters \cup {None}
      BY <1>1, <1>2, <1>7 DEF loopVars
    <2>. QED BY <1>1, <1>2, <2>1, <2>2, <2>3 DEF TypeOK, portVars, modemVars
  <1>. QED BY <1>3, <1>9, <1>10, <1>12, <1>13

LEMMA WriteKeeps ==
  ASSUME SentInv, Write
  PROVE  SentInv'
  <1> USE DEF SentInv
  <1> DEFINE e == [cmd |-> step, from |-> cur]
  <1>1. /\ input' = Append(input, e) /\ loop = "write" /\ loop' = "await"
        /\ UNCHANGED <<callerVars, cur, step, seg, portVars, prompt, accepted, urcs,
                       late, swallowed>>
    BY DEF Write
  <1>2. /\ e \in Sent /\ input \in Seq(Sent) /\ seg \in 1..Segments /\ Segments \in Nat
        /\ cur # None /\ (cur \in SMSClients <=> step \in {"CSMS", "CMGF", "CMGS", "PDU", "ESC"})
    BY <1>1, BoundsAssumption DEF Scripts, TypeOK, Sent
  <1>3. Scripts' BY <1>1 DEF Scripts
  <1>4. Writing => cur \in SMSClients /\ accepted[cur] = seg - 1 /\ ~Pending(cur)
    BY <1>1, <1>2 DEF Writing, Awaiting, Ledger, Account
  <1>5. LineInv' BY <1>4, WriteLine
  <1>6. QueuedOnce' /\ \A c : InQueue(c)' <=> InQueue(c)
    BY <1>1 DEF QueuedOnce, InQueue, callerVars
  <1>7. \A c : Pending(c)' => Pending(c) \/ (Writing /\ c = cur)
    <2>1. /\ e.cmd = step /\ e.from = cur
          /\ \A k \in 1..Len(input') : (k \in 1..Len(input) /\ input'[k] = input[k]) \/ input'[k] = e
      BY <1>1, <1>2, AppendFacts
    <2>. QED BY <1>1, <2>1 DEF Pending, Sending, Writing
  <1>8. Ledger'
    <2> SUFFICES ASSUME NEW c \in SMSClients PROVE Account(c)' BY DEF Ledger
    <2>1. Account(c) BY DEF Ledger
    <2>2. UNCHANGED <<caller, done>> BY <1>1 DEF callerVars
    <2>3. CASE Writing /\ c = cur
      <3>1. Awaiting' BY <1>1, <2>3 DEF Writing, Awaiting
      <3>2. accepted'[c] < Segments BY <1>1, <1>2, <1>4, <2>3
      <3>. QED BY <1>1, <1>2, <1>4, <1>6, <2>1, <2>2, <2>3, <3>1, <3>2 DEF Account, Reported
    <2>4. CASE ~(Writing /\ c = cur)
      <3>1. cur = c => ~Awaiting BY <1>1 DEF Awaiting
      <3>. QED BY <1>1, <1>6, <1>7, <2>1, <2>2, <2>4, <3>1 DEF Account, Reported
    <2>. QED BY <2>3, <2>4
  <1>9. TypeOK'
    <2>1. input' \in Seq(Sent) BY <1>1, <1>2
    <2>. QED BY <1>1, <2>1 DEF TypeOK, callerVars, portVars
  <1>. QED BY <1>3, <1>5, <1>6, <1>8, <1>9

\* A command ends: what the caller of SendSMS has had accepted follows the
\* segment the loop is at, because "sent" is the answer to its own PDU.
LEMMA EndsKeep ==
  ASSUME SentInv, Ends
  PROVE  SentInv'
  <1> USE DEF SentInv
  <1>1. /\ loop \in {"write", "await"}
        /\ UNCHANGED <<caller, queue, modemVars, swallowed>>
        /\ rx' = rx \/ (rx # <<>> /\ rx' = Tail(rx))
        /\ \/ loop = "await" /\ UNCHANGED <<done, loopVars>>
           \/ \E out \in Outcomes : Advance(out)
    BY EndsFacts
  <1>2. rx \in Seq(Lines) BY DEF TypeOK
  <1>3. QueuedOnce' /\ \A c : InQueue(c)' <=> InQueue(c) BY <1>1 DEF QueuedOnce, InQueue
  <1>4. \A c : Pending(c)' <=> Pending(c) BY <1>1, PendingSame DEF modemVars
  <1>5. rx' \in Seq(Lines) /\ Len(rx') <= RxCap
    <2>1. Len(rx) \in Nat /\ Len(rx) <= RxCap /\ RxCap \in Nat
      BY <1>2, BoundsAssumption DEF TypeOK
    <2>2. CASE rx' = rx BY <1>2, <2>1, <2>2
    <2>3. CASE rx # <<>> /\ rx' = Tail(rx)
      <3>1. rx' \in Seq(Lines) /\ Len(rx') = Len(rx) - 1 BY <1>2, <2>3, TailFacts
      <3>. QED BY <2>1, <3>1
    <2>. QED BY <1>1, <2>2, <2>3
  <1>6. /\ reader' \in {"reading", "failing", "exited"} /\ stopped' \in BOOLEAN
        /\ reprobe' \in BOOLEAN /\ late' \in BOOLEAN
    BY DEF Ends, WriteFails, Receive, Timeout, AwaitStopped, TypeOK, portVars
  <1>7. CASE loop = "await" /\ UNCHANGED <<done, loopVars>>
    <2>1. Scripts' BY <1>7 DEF Scripts, loopVars
    <2>2. /\ Writing' => Writing
          /\ Awaiting' => Awaiting
          /\ Cancelling' => Cancelling
      BY <1>7 DEF Writing, Awaiting, Cancelling, loopVars
    <2>3. LineInv' BY <1>1, <1>2, <1>7, <2>2, CalmLine DEF modemVars, loopVars
    <2>4. Ledger' BY <1>1, <1>3, <1>4, <1>7, LedgerKept DEF modemVars, loopVars
    <2>5. TypeOK' BY <1>1, <1>5, <1>6, <1>7 DEF TypeOK, modemVars, loopVars
    <2>. QED BY <1>3, <2>1, <2>3, <2>4, <2>5
  <1>8. ASSUME NEW out \in Outcomes, Advance(out) PROVE SentInv'
    <2>1. PICK s : s = After(step, out) OBVIOUS
    <2>2. /\ s \in Commands \cup {"LOOKUP"} \cup Results
          /\ cur \in SMSClients => s \in {"CMGF", "CMGS", "PDU", "ESC"} \cup Results
          /\ cur \notin SMSClients => s \in {"LOOKUP", "CSQ", "CMGL"} \cup Results
          /\ s = "PDU" => step = "CMGS" /\ out = ">"
          /\ s = "ESC" => step = "PDU" /\ out = "err"
          /\ s = "CMGF" => step = "CSMS"
          /\ s = "CMGS" => step = "CMGF" \/ (step = "PDU" /\ out = "sent" /\ seg < Segments)
          /\ s = "ok" /\ cur \in SMSClients => step = "PDU" /\ out = "sent" /\ seg = Segments
      BY <1>1, <2>1, ScriptFacts
    <2>3. Proceed(s) BY <1>8, <2>1 DEF Advance
    <2>4. /\ step \in Commands /\ cur # None /\ cur \in Submitters /\ seg \in 1..Segments
          /\ Segments \in Nat /\ None \notin Commands \cup {"LOOKUP"}
          /\ done \in [Submitters -> Results \cup {None}]
          /\ cur \in SMSClients <=> step \in {"CSMS", "CMGF", "CMGS", "PDU", "ESC"}
          /\ step \notin {"CMGS", "PDU", "ESC"} => seg = 1
      BY <1>1, BoundsAssumption, NamesAssumption DEF Scripts, TypeOK
    <2>5. s \in Results =>
             /\ done' = [done EXCEPT ![cur] = s]
             /\ loop' = "select" /\ cur' = None /\ step' = None /\ seg' = 1
      BY <2>3 DEF Proceed
    <2>6. s \notin Results =>
             /\ loop' = IF s = "LOOKUP" THEN "offer" ELSE "write"
             /\ step' = s /\ done' = done /\ cur' = cur
             /\ seg' = IF step = "PDU" /\ s = "CMGS" THEN seg + 1 ELSE seg
      BY <2>3 DEF Proceed
    <2>7. Scripts'
      <3>1. CASE s \in Results BY <2>5, <3>1 DEF Scripts, Commands
      <3>2. CASE s \notin Results BY <2>2, <2>4, <2>6, <3>2 DEF Scripts, Commands
      <3>. QED BY <3>1, <3>2
    <2>8. TypeOK'
      <3>1. done' \in [Submitters -> Results \cup {None}] BY <2>4, <2>5, <2>6
      <3>2. /\ loop' \in {"select", "write", "await", "offer", "nested", "exited"}
            /\ step' \in Commands \cup {"LOOKUP", None} /\ cur' \in Submitters \cup {None}
        BY <2>2, <2>4, <2>5, <2>6
      <3>3. seg' \in 1..Segments BY <2>2, <2>4, <2>5, <2>6
      <3>. QED BY <1>1, <1>5, <1>6, <3>1, <3>2, <3>3 DEF TypeOK, modemVars
    <2>9. /\ ~Awaiting'
          /\ Writing' <=> s = "PDU"
          /\ Cancelling' => step = "PDU"
      BY <2>2, <2>4, <2>5, <2>6 DEF Writing, Awaiting, Cancelling, Commands, Results
    <2>10. LineInv'
      <3>1. CASE s = "PDU"
        <4>1. ~Cancelling' BY <2>6, <3>1 DEF Cancelling, Results
        <4>. QED BY <1>1, <1>2, <1>8, <2>2, <2>9, <3>1, <4>1, PromptRead DEF Advance, modemVars
      <3>2. CASE s # "PDU"
        <4>1. Cancelling' => Writing \/ Awaiting
          BY <1>1, <2>9 DEF Writing, Awaiting
        <4>. QED BY <1>1, <1>2, <2>9, <3>2, <4>1, CalmLine DEF modemVars
      <3>. QED BY <3>1, <3>2
    <2>11. step = "PDU" /\ out = "sent" => accepted[cur] = seg /\ ~Pending(cur)
      <3> SUFFICES ASSUME step = "PDU", out = "sent"
                   PROVE  accepted[cur] = seg /\ ~Pending(cur)
        OBVIOUS
      <3>1. Awaiting /\ IsSent(1) /\ rx # <<>> BY <1>8 DEF Advance, Awaiting
      <3>2. 1 \in 1..Len(rx) BY <1>2, <3>1
      <3>3. accepted[cur] = seg /\ \A k \in 1..Len(input) : ~Closes(k)
        BY <3>1, <3>2 DEF LineInv, OwnAnswer
      <3>. QED BY <3>3 DEF Pending, Sending, Closes
    <2>12. Ledger'
      <3> SUFFICES ASSUME NEW c \in SMSClients PROVE Account(c)' BY DEF Ledger
      <3>1. Account(c) /\ c # None /\ c \in Submitters
        BY NamesAssumption DEF Ledger, Submitters, Clients
      <3>2. UNCHANGED <<caller, accepted>> BY <1>1 DEF modemVars
      <3>3. CASE c # cur
        <4>1. done'[c] = done[c] BY <2>4, <2>5, <2>6, <3>1, <3>3
        <4>2. c # cur' BY <2>5, <2>6, <3>1, <3>3
        <4>. QED BY <1>3, <1>4, <3>1, <3>2, <4>1, <4>2 DEF Account, Reported
      <3>4. CASE c = cur /\ s \in Results
        <4>1. cur' # c /\ done'[c] = s BY <2>4, <2>5, <3>1, <3>4
        <4>2. done'[c] = "ok" => accepted[c] = Segments BY <2>2, <2>11, <3>4, <4>1
        <4>. QED BY <1>3, <1>4, <3>1, <3>2, <3>4, <4>1, <4>2 DEF Account, Reported
      <3>5. CASE c = cur /\ s \notin Results
        <4>1. cur' = c /\ done' = done /\ step' = s BY <2>6, <3>5
        <4>2. caller[c] \notin {"idle", "offer"} /\ ~InQueue(c) BY <3>1, <3>5 DEF Account
        <4>3. CASE s = "ESC" BY <1>3, <1>4, <3>1, <3>2, <4>1, <4>2, <4>3 DEF Account, Reported
        <4>4. CASE step = "PDU" /\ out = "sent" /\ s = "CMGS"
          <5>1. accepted'[c] = seg' - 1 /\ ~Pending(c)'
            BY <1>4, <2>4, <2>6, <2>11, <3>2, <3>5, <4>4
          <5>. QED BY <1>3, <1>4, <3>1, <3>2, <4>1, <4>2, <5>1 DEF Account, Reported
        <4>5. CASE s # "ESC" /\ step \notin {"PDU", "ESC"}
          <5>1. accepted[c] = seg - 1 /\ ~Pending(c)
            BY <3>1, <3>5, <4>5 DEF Account, Awaiting
          <5>2. seg' = seg BY <2>6, <3>5, <4>5
          <5>. QED BY <1>3, <1>4, <3>1, <3>2, <4>1, <4>2, <5>1, <5>2 DEF Account, Reported
        <4>6. step = "ESC" => s \in Results
          BY <2>1, <2>2 DEF After
        <4>. QED BY <2>2, <3>5, <4>3, <4>4, <4>5, <4>6
      <3>. QED BY <3>3, <3>4, <3>5
    <2>. QED BY <1>3, <2>7, <2>8, <2>10, <2>12
  <1>. QED BY <1>1, <1>7, <1>8

\* The modem takes, answers or swallows the oldest command of its input.
LEMMA PendingTail ==
  ASSUME TypeOK, input # <<>>, input' = Tail(input)
  PROVE  \A c : Pending(c)' => Pending(c)
  <1>1. \A k \in 1..Len(input') : /\ k + 1 \in 1..Len(input) /\ input'[k] = input[k + 1]
                                  /\ Sending(k)' <=> Sending(k + 1)
    BY InputTail DEF TypeOK
  <1>. QED BY <1>1 DEF Pending

LEMMA ModemType ==
  ASSUME TypeOK, input # <<>>, input' = Tail(input),
         rx' = rx \/ \E e \in Lines : Len(rx) < RxCap /\ rx' = Append(rx, e)
  PROVE  /\ input' \in Seq(Sent)
         /\ rx' \in Seq(Lines) /\ Len(rx') <= RxCap
  <1>1. input \in Seq(Sent) /\ rx \in Seq(Lines) /\ Len(rx) <= RxCap /\ RxCap \in Nat
    BY BoundsAssumption DEF TypeOK
  <1>2. input' \in Seq(Sent) BY <1>1, TailFacts
  <1>3. CASE rx' = rx BY <1>1, <1>2, <1>3
  <1>4. CASE \E e \in Lines : Len(rx) < RxCap /\ rx' = Append(rx, e)
    <2>1. rx' \in Seq(Lines) /\ Len(rx') = Len(rx) + 1 /\ Len(rx) \in Nat /\ Len(rx) < RxCap
      BY <1>1, <1>4, AppendFacts
    <2>. QED BY <1>1, <1>2, <2>1
  <1>. QED BY <1>3, <1>4

LEMMA HeadAnswer ==
  ASSUME TypeOK, input # <<>>
  PROVE  /\ Head(input) = input[1] /\ input[1] \in Sent /\ 1 \in 1..Len(input)
         /\ \A r \in {"OK", "ERROR", ">"} : [res |-> r, cmd |-> Head(input).cmd] \in Lines
  <1>1. input \in Seq(Sent) BY DEF TypeOK
  <1>2. Head(input) = input[1] /\ input[1] \in Sent /\ 1 \in 1..Len(input) BY <1>1, TailFacts
  <1>. QED BY <1>2 DEF Lines, Sent

LEMMA AnswersKeep ==
  ASSUME SentInv, ModemAnswers \/ ModemSwallows
  PROVE  SentInv'
  <1> USE DEF SentInv
  <1>1. /\ input # <<>> /\ input' = Tail(input)
        /\ UNCHANGED <<callerVars, loopVars, reader, stopped, reprobe, accepted, urcs, late>>
    BY DEF ModemAnswers, ModemSwallows, portVars
  <1>2. rx' = rx \/ \E e \in Lines : Len(rx) < RxCap /\ rx' = Append(rx, e)
    BY <1>1, HeadAnswer DEF ModemAnswers, ModemSwallows, Emit, portVars
  <1>3. prompt' \in BOOLEAN /\ swallowed' \in BOOLEAN
    BY DEF ModemAnswers, ModemSwallows, TypeOK
  <1>4. TypeOK'
    <2>1. input' \in Seq(Sent) /\ rx' \in Seq(Lines) /\ Len(rx') <= RxCap
      BY <1>1, <1>2, ModemType
    <2>. QED BY <1>1, <1>3, <2>1 DEF TypeOK, callerVars, loopVars
  <1>5. Scripts' BY <1>1 DEF Scripts, loopVars
  <1>6. LineInv' BY AnswersLine, SwallowsLine
  <1>7. QueuedOnce' /\ \A c : InQueue(c)' <=> InQueue(c)
    BY <1>1 DEF QueuedOnce, InQueue, callerVars
  <1>8. Ledger'
    BY <1>1, <1>7, PendingTail, LedgerKept DEF callerVars, loopVars
  <1>. QED BY <1>4, <1>5, <1>6, <1>7, <1>8

\* The PDU that is taken over is the only one under way.
LEMMA TakesKeeps ==
  ASSUME SentInv, ModemTakesPDU
  PROVE  SentInv'
  <1> USE DEF SentInv
  <1> PICK h : h = input[1] OBVIOUS
  <1>1. /\ input # <<>> /\ input' = Tail(input) /\ prompt' = FALSE
        /\ UNCHANGED <<callerVars, loopVars, reader, stopped, reprobe, urcs, late, swallowed>>
    BY DEF ModemTakesPDU
  <1>2. Head(input) = h /\ h \in Sent /\ 1 \in 1..Len(input) BY <1>1, HeadAnswer
  <1>3. /\ h.cmd \in {"PDU", "ESC"}
        /\ \/ accepted' = [accepted EXCEPT ![h.from] = IF h.cmd = "PDU" THEN @ + 1 ELSE @]
           \/ accepted' = accepted
    BY <1>2 DEF ModemTakesPDU
  <1>4. /\ accepted \in [SMSClients -> 0..Segments] /\ Segments \in Nat
        /\ input \in Seq(Sent)
    BY BoundsAssumption DEF TypeOK
  <1>5. \A c \in SMSClients :
           \/ accepted'[c] = accepted[c]
           \/ h.cmd = "PDU" /\ h.from = c /\ accepted'[c] = accepted[c] + 1
    BY <1>3, <1>4
  <1>6. \A c : Pending(c)' => Pending(c) BY <1>1, PendingTail
  <1>7. \A c : h.cmd = "PDU" /\ h.from = c => Pending(c) /\ ~Pending(c)'
    <2> SUFFICES ASSUME NEW c, h.cmd = "PDU", h.from = c
                 PROVE  Pending(c) /\ ~Pending(c)'
      OBVIOUS
    <2>1. Sending(1) BY DEF Sending
    <2>2. Pending(c) BY <1>2, <2>1 DEF Pending
    <2>3. \A k \in 1..Len(input') : k + 1 \in 1..Len(input) /\ (Sending(k)' <=> Sending(k + 1))
      BY <1>1, <1>4, InputTail
    <2>4. \A k \in 1..Len(input') : ~Sending(k)'
      BY <1>2, <2>1, <2>3 DEF LineInv, OnePDU
    <2>. QED BY <2>2, <2>4 DEF Pending
  <1>8. /\ UNCHANGED <<caller, done, cur, step, seg>>
        /\ Awaiting' <=> Awaiting
    BY <1>1 DEF callerVars, loopVars, Awaiting
  <1>9. QueuedOnce' /\ \A c : InQueue(c)' <=> InQueue(c)
    BY <1>1 DEF QueuedOnce, InQueue, callerVars
  <1>10. Ledger'
    <2> SUFFICES ASSUME NEW c \in SMSClients PROVE Account(c)' BY DEF Ledger
    <2>1. Account(c) BY DEF Ledger
    <2>2. CASE accepted'[c] = accepted[c]
      BY <1>6, <1>8, <1>9, <2>1, <2>2 DEF Account, Reported
    <2>3. CASE h.cmd = "PDU" /\ h.from = c /\ accepted'[c] = accepted[c] + 1
      <3>1. Pending(c) /\ ~Pending(c)' BY <1>7, <2>3
      <3>2. accepted[c] \in Nat /\ accepted[c] < Segments BY <1>4, <2>1, <3>1 DEF Account
      <3>3. ~Reported(c) BY <1>4, <2>1, <3>2 DEF Account
      <3>. QED BY <1>8, <1>9, <2>1, <3>1, <3>3 DEF Account, Reported
    <2>. QED BY <1>5, <2>2, <2>3
  <1>11. TypeOK'
    <2>1. rx' = rx \/ \E e \in Lines : Len(rx) < RxCap /\ rx' = Append(rx, e)
      BY <1>1, HeadAnswer DEF ModemTakesPDU, Emit
    <2>2. input' \in Seq(Sent) /\ rx' \in Seq(Lines) /\ Len(rx') <= RxCap
      BY <1>1, <2>1, ModemType
    <2>3. \A c \in SMSClients : Pending(c) => accepted[c] < Segments
      BY DEF Ledger, Account
    <2>4. \A c \in SMSClients : accepted'[c] \in 0..Segments
      BY <1>4, <1>5, <1>7, <2>3
    <2>5. accepted' \in [SMSClients -> 0..Segments]
      <3>1. accepted' = [c \in SMSClients |-> accepted'[c]] BY <1>3, <1>4
      <3>. QED BY <2>4, <3>1
    <2>. QED BY <1>1, <2>2, <2>5 DEF TypeOK, callerVars, loopVars
  <1>12. Scripts' BY <1>1 DEF Scripts, loopVars
  <1>13. LineInv' BY TakesLine
  <1>. QED BY <1>9, <1>10, <1>11, <1>12, <1>13

-----------------------------------------------------------------------------
(* The invariant.                                                          *)

LEMMA InitSentInv == Init => SentInv
  <1> SUFFICES ASSUME Init PROVE SentInv OBVIOUS
  <1> USE DEF Init
  <1>1. TypeOK
    <2>1. /\ caller \in [Clients -> {"idle", "offer", "wait"} \cup Results]
          /\ done \in [Submitters -> Results \cup {None}]
          /\ accepted \in [SMSClients -> 0..Segments] /\ seg \in 1..Segments /\ urcs \in 0..MaxURC
      BY BoundsAssumption
    <2>2. /\ queue \in Seq(Submitters) /\ Len(queue) <= QueueCap
          /\ rx \in Seq(Lines) /\ Len(rx) <= RxCap /\ input \in Seq(Sent)
      BY BoundsAssumption
    <2>. QED BY <2>1, <2>2 DEF TypeOK
  <1>2. Scripts BY DEF Scripts
  <1>3. Len(rx) = 0 /\ Len(input) = 0 /\ Len(queue) = 0 OBVIOUS
  <1>4. LineInv /\ QueuedOnce
    BY <1>3 DEF LineInv, PromptOpen, OpensCovered, PDUNext, WriteReady, OwnAnswer, OnePDU,
       Writing, Awaiting, Cancelling, QueuedOnce
  <1>5. Ledger
    <2> SUFFICES ASSUME NEW c \in SMSClients PROVE Account(c) BY DEF Ledger
    <2>1. /\ caller[c] = "idle" /\ done[c] = None /\ accepted[c] = 0 /\ cur # c
          /\ None # "ok"
      BY NamesAssumption DEF Clients, Submitters
    <2>2. ~InQueue(c) /\ ~Pending(c) BY <1>3 DEF InQueue, Pending
    <2>. QED BY <2>1, <2>2 DEF Account, Reported
  <1>. QED BY <1>1, <1>2, <1>4, <1>5 DEF SentInv

LEMMA NextSentInv ==
  ASSUME SentInv, [Next]_vars
  PROVE  SentInv'
  <1>1. CASE \E c \in Clients : Call(c) \/ Caller(c) BY <1>1, CallersKeep
  <1>2. CASE Loop
    BY <1>2, TakeKeeps, SideStepsKeep, WriteKeeps, EndsKeep DEF Loop, Ends
  <1>3. CASE Reader \/ ReaderDropsLine \/ ReadError \/ Stop BY <1>3, SideStepsKeep
  <1>4. CASE Modem BY <1>4, AnswersKeep, TakesKeeps, SideStepsKeep DEF Modem
  <1>5. CASE UNCHANGED vars
    <2> USE <1>5 DEF vars, callerVars, loopVars, portVars, modemVars, SentInv
    <2>1. TypeOK' /\ Scripts' BY DEF TypeOK, Scripts
    <2>2. /\ Writing' <=> Writing
          /\ Awaiting' <=> Awaiting
          /\ Cancelling' <=> Cancelling
      BY DEF Writing, Awaiting, Cancelling
    <2>3. LineInv'
      <3>1. rx \in Seq(Lines) BY DEF TypeOK
      <3>. QED BY <2>2, <3>1, CalmLine
    <2>4. QueuedOnce' /\ \A c : InQueue(c)' <=> InQueue(c) BY DEF QueuedOnce, InQueue
    <2>5. Ledger' BY <2>4, PendingSame, LedgerKept
    <2>. QED BY <2>1, <2>3, <2>4, <2>5
  <1>. QED BY <1>1, <1>2, <1>3, <1>4, <1>5 DEF Next

LEMMA SentInvHolds == Spec => []SentInv
  <1>. QED BY InitSentInv, NextSentInv, PTL DEF Spec

\* The worker's state keeps its types; in particular rxChan and transactionChan
\* never hold more than they can and the modem takes over no PDU twice.
THEOREM TypeCorrect == Spec => []TypeOK
  <1>1. SentInv => TypeOK BY DEF SentInv
  <1>. QED BY <1>1, SentInvHolds, PTL

\* SendSMS reports success only for an SMS all of whose PDUs the modem took
\* over, for any number of PDUs and callers, and whichever commands timed out
\* and whose late answers were read in place of others.
THEOREM ReportedSMSAccepted == Spec => []ReportedSentWasAccepted
  <1>1. SentInv => ReportedSentWasAccepted
    BY DEF SentInv, Ledger, Account, Reported, ReportedSentWasAccepted
  <1>. QED BY <1>1, SentInvHolds, PTL

-----------------------------------------------------------------------------
(* Without timeouts one transaction at a time holds the prompt.            *)

\* rxChan gains or loses a line that is no answer.
LEMMA QuietRx ==
  ASSUME rx \in Seq(Lines), OneAnswer,
         \/ rx' = rx
         \/ rx # <<>> /\ rx' = Tail(rx) /\ Quiet(1)
         \/ \E e \in {[res |-> "URC"], [res |-> "Err"]} : rx' = Append(rx, e)
  PROVE  /\ OneAnswer'
         /\ AllQuiet => AllQuiet'
         /\ Prompted' <=> Prompted
  <1>1. CASE rx' = rx
    BY <1>1 DEF OneAnswer, AllQuiet, Prompted, Quiet, IsPrompt
  <1>2. CASE rx # <<>> /\ rx' = Tail(rx) /\ Quiet(1)
    <2>1. /\ Len(rx) \in Nat /\ Len(rx') = Len(rx) - 1 /\ 1 \in 1..Len(rx)
          /\ \A k \in 1..Len(rx') : k + 1 \in 1..Len(rx) /\ rx'[k] = rx[k + 1]
      BY <1>2, TailFacts
    <2>2. \A k \in 1..Len(rx') : /\ Quiet(k)' <=> Quiet(k + 1)
                                 /\ IsPrompt(k)' <=> IsPrompt(k + 1)
      BY <2>1 DEF Quiet, IsPrompt
    <2>3. ~IsPrompt(1) BY <1>2 DEF Quiet, IsPrompt
    <2>4. OneAnswer' /\ (AllQuiet => AllQuiet') BY <2>1, <2>2 DEF OneAnswer, AllQuiet
    <2>5. Prompted' => Prompted BY <2>1, <2>2 DEF Prompted
    <2>6. Prompted => Prompted'
      <3> SUFFICES ASSUME NEW k \in 1..Len(rx), IsPrompt(k) PROVE Prompted'
        BY DEF Prompted
      <3>1. k # 1 BY <2>3
      <3>2. k - 1 \in 1..Len(rx') /\ (k - 1) + 1 = k BY <2>1, <3>1
      <3>. QED BY <2>2, <3>2 DEF Prompted
    <2>. QED BY <2>4, <2>5, <2>6
  <1>3. ASSUME NEW e \in {[res |-> "URC"], [res |-> "Err"]}, rx' = Append(rx, e)
        PROVE  /\ OneAnswer'
               /\ AllQuiet => AllQuiet'
               /\ Prompted' <=> Prompted
    <2>1. e \in Lines /\ e.res \in {"URC", "Err"} BY <1>3 DEF Lines
    <2>2. /\ \A k \in 1..Len(rx) : k \in 1..Len(rx') /\ rx'[k] = rx[k]
          /\ \A k \in 1..Len(rx') : (k \in 1..Len(rx) /\ rx'[k] = rx[k]) \/ rx'[k] = e
      BY <1>3, <2>1, AppendFacts
    <2>3. \A k \in 1..Len(rx) : k \in 1..Len(rx') /\ (IsPrompt(k)' <=> IsPrompt(k))
      BY <2>2 DEF IsPrompt
    <2>4. \A k \in 1..Len(rx') :
             \/ /\ k \in 1..Len(rx)
                /\ Quiet(k)' <=> Quiet(k)
                /\ IsPrompt(k)' <=> IsPrompt(k)
             \/ Quiet(k)' /\ ~IsPrompt(k)'
      BY <2>1, <2>2 DEF Quiet, IsPrompt
    <2>. QED BY <2>3, <2>4 DEF OneAnswer, AllQuiet, Prompted
  <1>. QED BY <1>1, <1>2, <1>3

\* An answer comes on a channel that holds none.
LEMMA AnswerRx ==
  ASSUME rx \in Seq(Lines), AllQuiet, NEW e \in Lines, rx' = Append(rx, e)
  PROVE  OneAnswer' /\ (Prompted' <=> e.res = ">")
  <1>1. /\ Len(rx') \in 1..Len(rx') /\ rx'[Len(rx')] = e
        /\ \A k \in 1..Len(rx') : (k \in 1..Len(rx) /\ rx'[k] = rx[k]) \/ k = Len(rx')
    BY AppendFacts
  <1>2. \A k \in 1..Len(rx') : k # Len(rx') => Quiet(k)' /\ ~IsPrompt(k)'
    BY <1>1 DEF AllQuiet, Quiet, IsPrompt
  <1>3. \A k : k = Len(rx') => (IsPrompt(k)' <=> e.res = ">") BY <1>1 DEF IsPrompt
  <1>4. OneAnswer' BY <1>2 DEF OneAnswer
  <1>5. Prompted' <=> e.res = ">" BY <1>1, <1>2, <1>3 DEF Prompted
  <1>. QED BY <1>4, <1>5

\* Steps that leave the line alone and take the loop at most from one place
\* outside of a command to another.
LEMMA CalmTidy ==
  ASSUME Tidy, UNCHANGED <<input, prompt, swallowed>>,
         OneAnswer', AllQuiet => AllQuiet', Prompted' <=> Prompted,
         \/ UNCHANGED <<loop, step, cur>>
         \/ loop \notin {"write", "await"} /\ loop' # "await"
  PROVE  Tidy'
  <1>1. CASE UNCHANGED <<loop, step, cur>>
    BY <1>1 DEF Tidy, Writing, Awaiting
  <1>2. CASE loop \notin {"write", "await"} /\ loop' # "await"
    <2>1. AllQuiet => ~Prompted BY DEF AllQuiet, Prompted, Quiet, IsPrompt
    <2>2. ~prompt /\ ~Prompted /\ AllQuiet /\ input = <<>>
      BY <1>2, <2>1 DEF Tidy, Writing, Awaiting
    <2>. QED BY <1>2, <2>2 DEF Tidy
  <1>. QED BY <1>1, <1>2

\* The answer is read: no other is on the way, and a prompt is followed by the
\* PDU.
LEMMA ReceiveTidy ==
  ASSUME TypeOK, Scripts, Tidy, Receive, ~stopped'
  PROVE  Tidy'
  <1>1. /\ rx \in Seq(Lines) /\ rx # <<>> /\ rx' = Tail(rx) /\ loop = "await"
        /\ Head(rx).res # "Err" /\ UNCHANGED <<input, prompt, swallowed>>
    BY DEF TypeOK, Receive, modemVars
  <1>2. /\ Len(rx) \in Nat /\ Len(rx') = Len(rx) - 1 /\ 1 \in 1..Len(rx)
        /\ Head(rx) = rx[1] /\ rx[1] \in Lines
        /\ \A k \in 1..Len(rx') : k + 1 \in 1..Len(rx) /\ rx'[k] = rx[k + 1]
    BY <1>1, TailFacts
  <1>3. CASE Quiet(1)
    <2>1. rx[1].res = "URC" BY <1>1, <1>2, <1>3 DEF Quiet
    <2>2. UNCHANGED loopVars BY <1>2, <2>1 DEF Receive, Outcome
    <2>. QED BY <1>1, <1>3, <2>2, QuietRx, CalmTidy DEF Tidy, loopVars
  <1>4. CASE ~Quiet(1)
    <2>1. input = <<>> BY <1>1, <1>2, <1>4 DEF Tidy, AllQuiet
    <2>2. \A k \in 1..Len(rx) : k # 1 => Quiet(k) BY <1>2, <1>4 DEF Tidy, OneAnswer
    <2>3. AllQuiet' BY <1>2, <2>2 DEF AllQuiet, Quiet
    <2>4. OneAnswer' /\ ~Prompted' BY <2>3 DEF AllQuiet, OneAnswer, Prompted, Quiet, IsPrompt
    <2>5. PICK out : out = Outcome(rx[1]) OBVIOUS
    <2>6. IsPrompt(1) => step = "CMGS" BY <1>2 DEF Tidy, Prompted
    <2>7. /\ out \in Outcomes
          /\ IsPrompt(1) => out = ">"
      BY <1>1, <1>2, <1>4, <2>5, <2>6 DEF Outcome, Outcomes, IsPrompt, Quiet, Lines
    <2>8. PICK s : s = After(step, out) OBVIOUS
    <2>9. Proceed(s) BY <1>2, <2>5, <2>7, <2>8 DEF Receive, Outcomes
    <2>10. loop' # "await" BY <2>9 DEF Proceed
    <2>11. prompt => Writing'
      <3> SUFFICES ASSUME prompt PROVE Writing' OBVIOUS
      <3>1. Prompted BY <1>1, <2>1 DEF Tidy, Writing
      <3>2. IsPrompt(1) BY <2>2, <3>1 DEF Prompted, Quiet, IsPrompt
      <3>3. s = "PDU" BY <2>6, <2>7, <2>8, <3>2 DEF After
      <3>. QED BY <2>9, <3>3 DEF Proceed, Results, Writing
    <2>. QED BY <1>1, <2>1, <2>3, <2>4, <2>10, <2>11 DEF Tidy
  <1>. QED BY <1>3, <1>4

LEMMA WriteTidy ==
  ASSUME TypeOK, Tidy, Write
  PROVE  Tidy'
  <1>1. /\ input' = Append(input, [cmd |-> step, from |-> cur])
        /\ loop = "write" /\ loop' = "await"
        /\ UNCHANGED <<cur, step, rx, prompt, swallowed>>
    BY DEF Write, portVars
  <1>2. input = <<>> /\ AllQuiet BY <1>1 DEF Tidy
  <1>3. input' = <<[cmd |-> step, from |-> cur]>> /\ input' # <<>> BY <1>1, <1>2
  <1>4. AllQuiet' /\ OneAnswer' /\ ~Prompted /\ ~Prompted'
    BY <1>1, <1>2 DEF AllQuiet, OneAnswer, Prompted, Quiet, IsPrompt
  <1>5. prompt => Awaiting' BY <1>1, <1>4 DEF Tidy, Writing, Awaiting
  <1>. QED BY <1>1, <1>3, <1>4, <1>5 DEF Tidy

\* The modem deals with the one command it has.
LEMMA ModemTidy ==
  ASSUME TypeOK, Tidy, ModemAnswers \/ ModemTakesPDU \/ ModemSwallows
  PROVE  Tidy'
  <1>1. input # <<>> /\ input' = Tail(input) /\ UNCHANGED loopVars
    BY DEF ModemAnswers, ModemTakesPDU, ModemSwallows
  <1>2. loop = "await" /\ input = <<[cmd |-> step, from |-> cur]>> /\ AllQuiet
    BY <1>1 DEF Tidy
  <1>3. Head(input).cmd = step /\ input' = <<>> BY <1>1, <1>2
  <1>4. ~Prompted BY <1>2 DEF AllQuiet, Prompted, Quiet, IsPrompt
  <1>5. rx \in Seq(Lines) BY DEF TypeOK
  <1>6. prompt => step = "PDU" BY <1>2, <1>4 DEF Tidy, Writing, Awaiting
  <1>7. ~ModemSwallows BY <1>3, <1>6 DEF ModemSwallows
  <1>8. PICK e \in Lines :
           /\ rx' = Append(rx, e) /\ swallowed' = swallowed
           /\ e.res = ">" => step = "CMGS"
           /\ prompt' => e.res = ">"
    BY <1>1, <1>3, <1>7, HeadAnswer DEF ModemAnswers, ModemTakesPDU, Emit
  <1>9. OneAnswer' /\ (Prompted' <=> e.res = ">") BY <1>2, <1>5, <1>8, AnswerRx
  <1>. QED BY <1>1, <1>2, <1>3, <1>8, <1>9 DEF Tidy, loopVars

LEMMA NextInStep ==
  ASSUME SentInv, InStep, [Next]_vars
  PROVE  InStep'
  <1> SUFFICES ASSUME ~late', ~stopped' PROVE Tidy' BY DEF InStep
  <1> USE DEF SentInv
  <1>0. rx \in Seq(Lines) BY DEF TypeOK
  <1>1. CASE \E c \in Clients : Call(c) \/ Caller(c)
    <2>1. UNCHANGED <<loopVars, portVars, modemVars, late, swallowed>>
      BY <1>1 DEF Caller, Call, Submit, Return, GiveUp
    <2>2. Tidy BY <2>1 DEF InStep, portVars
    <2>. QED BY <1>0, <2>1, <2>2, QuietRx, CalmTidy DEF Tidy, loopVars, portVars, modemVars
  <1>2. CASE Take
    <2>1. /\ loop = "select" /\ UNCHANGED <<portVars, modemVars, late, swallowed>>
          /\ loop' # "await"
      BY <1>2 DEF Take, loopVars
    <2>2. Tidy BY <2>1 DEF InStep, portVars
    <2>. QED BY <1>0, <2>1, <2>2, QuietRx, CalmTidy DEF Tidy, portVars, modemVars
  <1>3. CASE IdleLine
    <2>1. /\ loop = "select" /\ rx # <<>> /\ rx' = Tail(rx)
          /\ UNCHANGED <<modemVars, late, swallowed, stopped, loop>>
      BY <1>3 DEF IdleLine
    <2>2. Tidy BY <2>1 DEF InStep
    <2>3. Quiet(1)
      <3>1. 1 \in 1..Len(rx) BY <1>0, <2>1, TailFacts
      <3>. QED BY <2>1, <2>2, <3>1 DEF Tidy, AllQuiet
    <2>. QED BY <1>0, <2>1, <2>2, <2>3, QuietRx, CalmTidy DEF Tidy, modemVars
  <1>4. CASE LoopExit \/ AwaitStopped \/ WriteFails \/ Timeout \/ Stop
    BY <1>4 DEF LoopExit, AwaitStopped, WriteFails, Timeout, Stop, portVars
  <1>5. CASE Write
    <2>1. Tidy BY <1>5 DEF InStep, Write, portVars
    <2>. QED BY <1>5, <2>1, WriteTidy
  <1>6. CASE Receive
    <2>1. Tidy BY <1>6 DEF InStep, Receive
    <2>. QED BY <1>6, <2>1, ReceiveTidy
  <1>7. CASE NestedSubmit \/ NestedReturns
    <2>1. /\ loop \in {"offer", "nested"} /\ loop' # "await"
          /\ UNCHANGED <<portVars, modemVars, late, swallowed>>
      BY <1>7 DEF NestedSubmit, NestedReturns
    <2>2. Tidy BY <2>1 DEF InStep, portVars
    <2>. QED BY <1>0, <2>1, <2>2, QuietRx, CalmTidy DEF Tidy, portVars, modemVars
  <1>8. CASE Reader \/ ReaderDropsLine \/ ReadError \/ ModemReports
    <2>1. /\ UNCHANGED <<loopVars, stopped, input, prompt, late, swallowed>>
          /\ rx' = rx \/ \E e \in {[res |-> "URC"], [res |-> "Err"]} : rx' = Append(rx, e)
      BY <1>8 DEF Reader, ReportError, ReaderExit, ReaderDropsLine, ReadError, ModemReports, Emit, modemVars
    <2>2. Tidy BY <2>1 DEF InStep
    <2>. QED BY <1>0, <2>1, <2>2, QuietRx, CalmTidy DEF Tidy, loopVars
  <1>9. CASE ModemAnswers \/ ModemTakesPDU \/ ModemSwallows
    <2>1. Tidy BY <1>9 DEF InStep, ModemAnswers, ModemTakesPDU, ModemSwallows, portVars
    <2>. QED BY <1>9, <2>1, ModemTidy
  <1>10. CASE UNCHANGED vars
    <2>1. UNCHANGED <<loopVars, portVars, modemVars, late, swallowed>> BY <1>10 DEF vars
    <2>2. Tidy BY <2>1 DEF InStep, portVars
    <2>. QED BY <1>0, <2>1, <2>2, QuietRx, CalmTidy DEF Tidy, loopVars, portVars, modemVars
  <1>. QED BY <1>1, <1>2, <1>3, <1>4, <1>5, <1>6, <1>7, <1>8, <1>9, <1>10
         DEF Next, Loop, Modem

\* As long as no command has timed out and the worker runs, no command of one
\* transaction becomes text of a message that another one has begun.
THEOREM PromptKept == Spec => []PromptHeldByTransaction
  <1>1. Init => InStep
    <2> SUFFICES ASSUME Init PROVE Tidy BY DEF InStep
    <2>1. Len(rx) = 0 BY DEF Init
    <2>. QED BY <2>1 DEF Init, Tidy, OneAnswer, AllQuiet, Prompted
  <1>2. InStep => PromptHeldByTransaction BY DEF InStep, Tidy, PromptHeldByTransaction
  <1>. QED BY <1>1, <1>2, SentInvHolds, NextInStep, PTL DEF Spec
=============================================================================
