---------------------------- MODULE InboxProofs ----------------------------
(***************************************************************************)
(* Proofs about Inbox: no message is lost, none is delivered twice, and a  *)
(* number is captured only for a lookup, for any SIM, messages and number  *)
(* of restarts.                                                            *)
(***************************************************************************)
EXTENDS Inbox, TLAPS

\* The loop reads a text ...
Reading == at \in {"phone", "balance", "snapshot", "plan"}

\* ... and goes back to the message it had saved, or to its delete.
Handling == at \in {"dispatch", "delete"} \/ (Reading /\ back \in {"dispatch", "delete"})

\* The message is still to be dispatched.
Fresh == at = "dispatch" \/ (Reading /\ back = "dispatch")

Position ==
    /\ \A i \in batch : store[i] # None
    /\ Reading => text \in Pdus
    /\ at = "snapshot" => text \in BalancePdus
    /\ ~Reading => back = "idle"

\* What is going to be deleted was saved, and is no message that has to stay.
HandledIsSaved ==
    Handling => /\ place \in batch
                /\ store[place] \notin BadPdus
                /\ Received(store[place])

Dispatched(p) == \E k \in 1..Len(hooks) : hooks[k] = p

FreshNotDispatched == Fresh => ~Dispatched(store[place])

\* A window that is open has not been used up.
WindowUnused == captured + (IF window THEN 1 ELSE 0) <= opened

IInv ==
    /\ TypeOK /\ Position /\ HandledIsSaved /\ FreshNotDispatched
    /\ NothingLost /\ DeliveredOnce /\ WindowUnused

-----------------------------------------------------------------------------

\* A message appended to a sequence that does not hold it keeps its members apart.
LEMMA AppendDistinct ==
  ASSUME NEW S, NEW s \in Seq(S), NEW e \in S,
         Distinct(s), \A k \in 1..Len(s) : s[k] # e
  PROVE  Distinct(Append(s, e))
  <1> DEFINE t == Append(s, e)
  <1>1. Len(s) \in Nat /\ Len(t) = Len(s) + 1 OBVIOUS
  <1>2. \A k \in 1..Len(s) : t[k] = s[k] OBVIOUS
  <1>3. t[Len(s) + 1] = e OBVIOUS
  <1>4. SUFFICES ASSUME NEW j \in 1..(Len(s) + 1), NEW k \in 1..(Len(s) + 1), t[j] = t[k]
                 PROVE  j = k
    BY <1>1 DEF Distinct
  <1>5. CASE j \in 1..Len(s) /\ k \in 1..Len(s) BY <1>2, <1>4, <1>5 DEF Distinct
  <1>6. CASE j = Len(s) + 1 /\ k \in 1..Len(s) BY <1>2, <1>3, <1>4, <1>6
  <1>7. CASE k = Len(s) + 1 /\ j \in 1..Len(s) BY <1>2, <1>3, <1>4, <1>7
  <1>. QED BY <1>1, <1>4, <1>5, <1>6, <1>7

\* What was received stays received.
LEMMA ReceivedStays ==
  ASSUME TypeOK, NEW p, rows' = rows \/ \E e \in Pdus : rows' = Append(rows, e),
         Received(p)
  PROVE  Received(p)'
  <1>1. CASE rows' = rows BY <1>1 DEF Received
  <1>2. CASE \E e \in Pdus : rows' = Append(rows, e)
    <2>1. PICK e \in Pdus : rows' = Append(rows, e) BY <1>2
    <2>2. PICK k \in 1..Len(rows) : rows[k] = p BY DEF Received
    <2>3. rows \in Seq(Pdus) BY DEF TypeOK
    <2>4. k \in 1..Len(rows') /\ rows'[k] = p BY <2>1, <2>2, <2>3
    <2>. QED BY <2>4 DEF Received
  <1>. QED BY <1>1, <1>2

LEMMA InitIInv == Init => IInv
  <1> SUFFICES ASSUME Init PROVE IInv
    OBVIOUS
  <1> USE PdusAssumption DEF Init
  <1>1. TypeOK
    <2>1. rows \in Seq(Pdus) /\ hooks \in Seq(Pdus) /\ snapshots \in Seq(BalancePdus)
      OBVIOUS
    <2>2. store \in [Places -> Pdus \cup {None}] /\ lookup \in [Lookups -> {"idle", "queued", "sent", "done"}]
      OBVIOUS
    <2>3. arrivals \in 0..MaxArrivals /\ crashes \in 0..MaxCrashes
      OBVIOUS
    <2>4. opened \in Nat /\ captured \in Nat OBVIOUS
    <2>. QED BY <2>1, <2>2, <2>3, <2>4, Zenon DEF TypeOK, Steps
  <1>2. Position /\ HandledIsSaved /\ FreshNotDispatched
    BY DEF Position, HandledIsSaved, FreshNotDispatched, Reading, Handling, Fresh
  <1>3. NothingLost /\ DeliveredOnce /\ WindowUnused
    BY DEF NothingLost, DeliveredOnce, Distinct, WindowUnused
  <1>. QED BY <1>1, <1>2, <1>3 DEF IInv

\* A message that arrives takes a free place: none that is handled.
LEMMA ArriveIInv ==
  ASSUME IInv, NEW i \in Places, NEW p \in Pdus, Arrive(i, p)
  PROVE  IInv'
  <1> USE PdusAssumption DEF IInv, Arrive, loopVars, tableVars, lookupVars
  <1>1. TypeOK' BY DEF TypeOK
  <1>2. store \in [Places -> Pdus \cup {None}] /\ batch \subseteq Places BY DEF TypeOK
  <1>3. \A j \in Places : store[j] # None => store'[j] = store[j] BY <1>2
  <1>4. Position' BY <1>2, <1>3 DEF Position, Reading
  <1>5. Handling => place \in Places /\ store'[place] = store[place]
    BY <1>2, <1>3 DEF HandledIsSaved, Position
  <1>6. HandledIsSaved' BY <1>5 DEF HandledIsSaved, Handling, Reading, Received
  <1>7. FreshNotDispatched'
    BY <1>5 DEF FreshNotDispatched, Fresh, Handling, Reading, Dispatched
  <1>8. NothingLost'
    <2> SUFFICES ASSUME NEW q \in seen \cup {p}
                 PROVE  (\E j \in Places : store'[j] = q) \/ (q \notin BadPdus /\ Received(q)')
      BY DEF NothingLost
    <2>1. CASE q = p BY <1>2, <2>1
    <2>2. CASE q \in seen BY <1>3, <2>2 DEF NothingLost, Received, TypeOK
    <2>. QED BY <2>1, <2>2
  <1>9. DeliveredOnce' /\ WindowUnused' BY DEF DeliveredOnce, Received, WindowUnused
  <1>. QED BY <1>1, <1>4, <1>6, <1>7, <1>8, <1>9

\* The poll, and what does not concern the messages.
LEMMA QuietIInv ==
  ASSUME IInv, CallStarts \/ CallEnds \/ Poll \/ PollLooksUp \/ WindowExpires \/ Crash
               \/ \E q \in Lookups : RequestPhoneNumber(q) \/ LookupRuns(q) \/ LookupSent(q)
  PROVE  IInv'
  <1> USE PdusAssumption
          DEF IInv, simVars, loopVars, tableVars, lookupVars
  <1>1. UNCHANGED <<store, rows, hooks, seen, captured>>
    BY DEF CallStarts, CallEnds, Poll, PollLooksUp, WindowExpires, Crash, RequestPhoneNumber,
       LookupRuns, LookupSent
  <1>2. NothingLost' /\ DeliveredOnce' BY <1>1 DEF NothingLost, DeliveredOnce, Received
  <1>3. CASE CallStarts \/ CallEnds \/ WindowExpires
    <2>1. TypeOK' BY <1>3 DEF CallStarts, CallEnds, WindowExpires, TypeOK
    <2>2. Position' /\ HandledIsSaved' /\ FreshNotDispatched'
      BY <1>3 DEF CallStarts, CallEnds, WindowExpires, Position, Reading, HandledIsSaved,
         Handling, FreshNotDispatched, Fresh, Dispatched, Received
    <2>3. WindowUnused' BY <1>3 DEF CallStarts, CallEnds, WindowExpires, WindowUnused, TypeOK
    <2>. QED BY <1>2, <2>1, <2>2, <2>3
  <1>4. CASE Poll \/ PollLooksUp \/ Crash
    <2>1. TypeOK'
      <3>1. CASE Poll
        <4>1. tried' \in BOOLEAN BY <3>1, Zenon DEF Poll, TypeOK
        <4>. QED BY <3>1, <4>1 DEF Poll, GoOn, TypeOK, Steps
      <3>3. CASE PollLooksUp BY <3>3 DEF PollLooksUp, TypeOK, Steps
      <3>2. CASE Crash
        <4>1. lookup' \in [Lookups -> {"idle", "queued", "sent", "done"}] BY <3>2 DEF Crash, TypeOK
        <4>2. crashes' \in 0..MaxCrashes BY <3>2 DEF Crash, TypeOK
        <4>. QED BY <3>2, <4>1, <4>2, Zenon DEF Crash, TypeOK, Steps
      <3>. QED BY <1>4, <3>1, <3>2, <3>3
    <2>2. Position' /\ HandledIsSaved' /\ FreshNotDispatched'
      BY <1>4 DEF Poll, GoOn, PollLooksUp, Crash, Position, Reading, HandledIsSaved, Handling,
         FreshNotDispatched, Fresh
    <2>3. WindowUnused'
      <3>1. CASE Poll BY <3>1 DEF Poll, WindowUnused, TypeOK
      <3>2. CASE PollLooksUp BY <3>2 DEF PollLooksUp, WindowUnused, TypeOK
      <3>3. CASE Crash BY <3>3 DEF Crash, WindowUnused, TypeOK
      <3>. QED BY <1>4, <3>1, <3>2, <3>3
    <2>. QED BY <1>2, <2>1, <2>2, <2>3
  <1>5. ASSUME NEW q \in Lookups, RequestPhoneNumber(q) \/ LookupRuns(q) \/ LookupSent(q)
        PROVE  IInv'
    <2>0. window' \in {TRUE, FALSE, window} BY <1>5 DEF RequestPhoneNumber, LookupRuns, LookupSent
    <2>1. TypeOK'
      <3>1. window' \in BOOLEAN BY <2>0 DEF TypeOK
      <3>2. lookup' \in [Lookups -> {"idle", "queued", "sent", "done"}]
        BY <1>5 DEF RequestPhoneNumber, LookupRuns, LookupSent, TypeOK
      <3>3. opened' \in {opened, opened + 1}
        BY <1>5, Zenon DEF RequestPhoneNumber, LookupRuns, LookupSent
      <3>4. opened' \in Nat BY <3>3 DEF TypeOK
      <3>5. UNCHANGED <<simVars, loopVars, rows, tableVars, tried, hooks, captured, crashes>>
        BY <1>5, Zenon DEF RequestPhoneNumber, LookupRuns, LookupSent
      <3>. QED BY <3>1, <3>2, <3>4, <3>5 DEF TypeOK
    <2>2. Position' /\ HandledIsSaved' /\ FreshNotDispatched'
      BY <1>5 DEF RequestPhoneNumber, LookupRuns, LookupSent, Position, Reading, HandledIsSaved,
         Handling, FreshNotDispatched, Fresh, Dispatched, Received
    <2>3. WindowUnused'
      <3>1. CASE RequestPhoneNumber(q)
        BY <3>1 DEF RequestPhoneNumber, WindowUnused, TypeOK
      <3>2. CASE LookupRuns(q) \/ (LookupSent(q) /\ window' = window)
        <4>1. window' = window /\ opened' = opened /\ captured' = captured
          BY <3>2, Zenon DEF LookupRuns, LookupSent
        <4>. QED BY <4>1 DEF WindowUnused
      <3>3. CASE LookupSent(q) /\ window' = FALSE
        BY <3>3 DEF LookupSent, WindowUnused, TypeOK
      <3>. QED BY <1>5, <3>1, <3>2, <3>3 DEF LookupSent
    <2>. QED BY <1>2, <2>1, <2>2, <2>3
  <1>. QED BY <1>3, <1>4, <1>5

\* A message is saved before anything else is done with it, and only once.
LEMMA ProcessIInv ==
  ASSUME IInv, NEW i \in Places, RetainPDU(i) \/ SavePDU(i)
  PROVE  IInv'
  <1> USE PdusAssumption DEF IInv, simVars, tableVars, lookupVars
  <1>1. CASE RetainPDU(i)
    <2>1. TypeOK' BY <1>1 DEF RetainPDU, GoOn, TypeOK, Steps
    <2>2. Position' /\ HandledIsSaved' /\ FreshNotDispatched'
      BY <1>1 DEF RetainPDU, GoOn, Position, Reading, HandledIsSaved, Handling,
         FreshNotDispatched, Fresh
    <2>3. NothingLost' /\ DeliveredOnce' /\ WindowUnused'
      BY <1>1 DEF RetainPDU, NothingLost, DeliveredOnce, Received, WindowUnused
    <2>. QED BY <2>1, <2>2, <2>3
  <1>2. CASE SavePDU(i)
    <2> DEFINE p == store[i]
    <2>1. /\ at = "process" /\ i \in batch /\ p \notin BadPdus /\ place' = i
          /\ UNCHANGED <<store, batch, hooks, seen, window, captured, opened>>
      BY <1>2 DEF SavePDU, First
    <2>2. p \in Pdus /\ rows \in Seq(Pdus) /\ hooks \in Seq(Pdus)
      BY <2>1 DEF Position, TypeOK
    <2>3. CASE Received(p)
      <3>1. at' = "delete" /\ UNCHANGED <<rows, text, back>> BY <1>2, <2>3 DEF SavePDU
      <3>2. TypeOK' BY <1>2, <2>1, <3>1 DEF SavePDU, TypeOK, Steps
      <3>3. Position' /\ HandledIsSaved' /\ FreshNotDispatched'
        BY <2>1, <2>3, <3>1 DEF Position, Reading, HandledIsSaved, Handling,
           FreshNotDispatched, Fresh, Received
      <3>4. NothingLost' /\ DeliveredOnce' /\ WindowUnused'
        BY <2>1, <3>1 DEF NothingLost, DeliveredOnce, Received, WindowUnused
      <3>. QED BY <3>2, <3>3, <3>4
    <2>4. CASE ~Received(p)
      <3>1. /\ rows' = Append(rows, p) /\ at' = "phone" /\ text' = p /\ back' = "dispatch"
        BY <1>2, <2>4 DEF SavePDU
      <3>2. TypeOK' BY <1>2, <2>1, <2>2, <3>1 DEF SavePDU, TypeOK, Steps
      <3>3. \A q : Received(q) => Received(q)' BY <2>2, <3>1, ReceivedStays
      <3>4. Received(p)'
        <4>1. Len(rows') \in 1..Len(rows') /\ rows'[Len(rows')] = p BY <2>2, <3>1
        <4>. QED BY <4>1, <2>1 DEF Received
      <3>5. ~Dispatched(p) BY <2>4 DEF DeliveredOnce, Dispatched
      <3>6. Position' BY <2>1, <2>2, <3>1 DEF Position, Reading
      <3>7. HandledIsSaved'
        <4>1. place' \in batch' /\ store'[place'] = p BY <2>1
        <4>2. Received(store[place])' BY <3>4, <2>1 DEF Received
        <4>. QED BY <2>1, <4>1, <4>2 DEF HandledIsSaved
      <3>8. FreshNotDispatched' BY <2>1, <3>5 DEF FreshNotDispatched, Dispatched
      <3>9. NothingLost' BY <2>1, <3>3 DEF NothingLost
      <3>10. Distinct(rows')
        BY <2>2, <2>4, <3>1, AppendDistinct DEF DeliveredOnce, Received
      <3>11. DeliveredOnce' BY <2>1, <3>3, <3>10 DEF DeliveredOnce
      <3>12. WindowUnused' BY <2>1 DEF WindowUnused
      <3>. QED BY <3>2, <3>6, <3>7, <3>8, <3>9, <3>11, <3>12
    <2>. QED BY <2>3, <2>4
  <1>. QED BY <1>1, <1>2

\* Reading a text: only the capture of the number touches the window.
LEMMA ReadIInv ==
  ASSUME IInv, CapturePhoneNumber \/ CaptureBalance \/ AddSnapshot \/ CapturePlanInfo
               \/ \E t \in Texts : HandleCUSD(t)
  PROVE  IInv'
  <1> USE PdusAssumption DEF IInv, simVars, tableVars, lookupVars
  <1>1. UNCHANGED <<store, batch, place, rows, hooks, seen>>
    BY DEF CapturePhoneNumber, CaptureBalance, AddSnapshot, CapturePlanInfo, HandleCUSD
  <1>2. NothingLost' /\ DeliveredOnce' BY <1>1 DEF NothingLost, DeliveredOnce, Received
  <1>3. TypeOK'
    <2>1. CASE CapturePhoneNumber
      <3>1. number' \in NumberPdus \cup {None} /\ captured' \in Nat
        BY <2>1 DEF CapturePhoneNumber, TypeOK
      <3>2. window' \in BOOLEAN BY <2>1, Zenon DEF CapturePhoneNumber, TypeOK
      <3>. QED BY <2>1, <3>1, <3>2 DEF CapturePhoneNumber, TypeOK, Steps
    <2>2. CASE CaptureBalance BY <2>2 DEF CaptureBalance, TypeOK, Steps
    <2>3. CASE AddSnapshot
      <3>1. text \in BalancePdus /\ snapshots \in Seq(BalancePdus)
        BY <2>3 DEF AddSnapshot, Position, TypeOK
      <3>2. snapshots' \in Seq(BalancePdus) BY <2>3, <3>1 DEF AddSnapshot
      <3>. QED BY <2>3, <3>2 DEF AddSnapshot, TypeOK, Steps
    <2>4. CASE CapturePlanInfo BY <2>4 DEF CapturePlanInfo, TypeOK, Steps
    <2>5. ASSUME NEW t \in Texts, HandleCUSD(t) PROVE TypeOK'
      BY <2>5 DEF HandleCUSD, TypeOK, Steps, Texts, Pdus
    <2>. QED BY <2>1, <2>2, <2>3, <2>4, <2>5
  <1>4. Position'
    BY <1>1 DEF CapturePhoneNumber, CaptureBalance, AddSnapshot, CapturePlanInfo, HandleCUSD,
       Position, Reading, Texts, Pdus, TypeOK
  <1>5. (Handling' => Handling) /\ (Fresh' => Fresh)
    BY DEF CapturePhoneNumber, CaptureBalance, AddSnapshot, CapturePlanInfo, HandleCUSD,
       Handling, Fresh, Reading, TypeOK
  <1>6. HandledIsSaved' /\ FreshNotDispatched'
    BY <1>1, <1>5 DEF HandledIsSaved, FreshNotDispatched, Received, Dispatched
  <1>7. WindowUnused'
    BY DEF CapturePhoneNumber, CaptureBalance, AddSnapshot, CapturePlanInfo, HandleCUSD,
       WindowUnused, TypeOK
  <1>. QED BY <1>2, <1>3, <1>4, <1>6, <1>7

\* A message is dispatched once it was saved, and before it is deleted.
LEMMA DispatchIInv ==
  ASSUME IInv, Dispatch
  PROVE  IInv'
  <1> USE PdusAssumption DEF IInv, simVars, tableVars, lookupVars
  <1> DEFINE p == store[place]
  <1>1. /\ at = "dispatch" /\ at' = "delete" /\ hooks' = Append(hooks, p)
        /\ UNCHANGED <<store, batch, place, text, back, rows, seen, window, captured, opened>>
    BY DEF Dispatch
  <1>2. place \in batch /\ p \notin BadPdus /\ Received(p) /\ ~Dispatched(p)
    BY <1>1 DEF HandledIsSaved, Handling, FreshNotDispatched, Fresh
  <1>3. p \in Pdus /\ hooks \in Seq(Pdus) BY <1>2 DEF Position, TypeOK
  <1>4. TypeOK' BY <1>1, <1>3 DEF Dispatch, TypeOK, Steps
  <1>5. Position' /\ HandledIsSaved' /\ FreshNotDispatched'
    BY <1>1, <1>2 DEF Position, Reading, HandledIsSaved, Handling, FreshNotDispatched, Fresh,
       Received
  <1>6. Distinct(hooks')
    BY <1>1, <1>2, <1>3, AppendDistinct DEF DeliveredOnce, Dispatched
  <1>7. \A k \in 1..Len(hooks') : Received(hooks'[k])
    <2> SUFFICES ASSUME NEW k \in 1..Len(hooks') PROVE Received(hooks'[k])
      OBVIOUS
    <2>1. hooks'[k] = p \/ (k \in 1..Len(hooks) /\ hooks'[k] = hooks[k]) BY <1>1, <1>3
    <2>. QED BY <1>2, <2>1 DEF DeliveredOnce
  <1>8. NothingLost' /\ DeliveredOnce' /\ WindowUnused'
    BY <1>1, <1>6, <1>7 DEF NothingLost, DeliveredOnce, Received, WindowUnused
  <1>. QED BY <1>4, <1>5, <1>8

\* What is deleted from the SIM is in the inbox.
LEMMA DeleteIInv ==
  ASSUME IInv, Delete
  PROVE  IInv'
  <1> USE PdusAssumption DEF IInv, tableVars, lookupVars
  <1>1. /\ at = "delete" /\ place' = None /\ GoOn(batch \ {place})
        /\ store' \in {[store EXCEPT ![place] = None], store}
        /\ UNCHANGED <<text, back, rows, hooks, seen, window, captured, opened>>
    BY DEF Delete
  <1>2. place \in batch /\ store[place] \notin BadPdus /\ Received(store[place])
    BY <1>1 DEF HandledIsSaved, Handling
  <1>3. store \in [Places -> Pdus \cup {None}] /\ batch \subseteq Places BY DEF TypeOK
  <1>4. \A j \in Places : j # place => store'[j] = store[j] BY <1>1, <1>3
  <1>5. TypeOK' BY <1>1, <1>3 DEF Delete, GoOn, TypeOK, Steps
  <1>6. Position' /\ HandledIsSaved' /\ FreshNotDispatched'
    BY <1>1, <1>3, <1>4 DEF GoOn, Position, Reading, HandledIsSaved, Handling,
       FreshNotDispatched, Fresh
  <1>7. NothingLost'
    <2> SUFFICES ASSUME NEW q \in seen
                 PROVE  (\E j \in Places : store'[j] = q) \/ (q \notin BadPdus /\ Received(q)')
      BY <1>1 DEF NothingLost
    <2>1. Received(q) => Received(q)' BY <1>1 DEF Received
    <2>2. CASE q = store[place] BY <1>2, <2>1, <2>2
    <2>3. CASE q # store[place] BY <1>4, <2>1, <2>3 DEF NothingLost
    <2>. QED BY <2>2, <2>3
  <1>8. DeliveredOnce' /\ WindowUnused' BY <1>1 DEF DeliveredOnce, Received, WindowUnused
  <1>. QED BY <1>5, <1>6, <1>7, <1>8

LEMMA NextIInv == IInv /\ [Next]_vars => IInv'
  <1> SUFFICES ASSUME IInv, [Next]_vars PROVE IInv'
    OBVIOUS
  <1>1. CASE UNCHANGED vars
    BY <1>1 DEF vars, simVars, loopVars, tableVars, lookupVars, IInv, TypeOK, Position,
       Reading, HandledIsSaved, Handling, FreshNotDispatched, Fresh, Dispatched, NothingLost,
       DeliveredOnce, Received, WindowUnused
  <1>2. CASE Next
    BY <1>2, ArriveIInv, QuietIInv, ProcessIInv, ReadIInv, DispatchIInv, DeleteIInv
       DEF Next, LoopStep
  <1>. QED BY <1>1, <1>2

LEMMA SpecIInv == Spec => []IInv
  BY InitIInv, NextIInv, PTL DEF Spec

-----------------------------------------------------------------------------
\* Type correctness of the reception of messages, for any SIM and messages.
THEOREM TypeCorrect == Spec => []TypeOK
  <1>1. IInv => TypeOK BY DEF IInv
  <1>. QED BY <1>1, SpecIInv, PTL

\* checkSMS deletes from the SIM what processPDU has saved and nothing else: no
\* message is lost, however often the poll, the database, AT+CMGD or the process
\* fails.
THEOREM MessagesKept == Spec => []NothingLost
  <1>1. IInv => NothingLost BY DEF IInv
  <1>. QED BY <1>1, SpecIInv, PTL

\* CreateReceivedOnce and the dispatch after it: one row for a message, and the
\* webhooks called once at most, also when its delete is retried.
THEOREM MessagesDeliveredOnce == Spec => []DeliveredOnce
  <1>1. IInv => DeliveredOnce BY DEF IInv
  <1>. QED BY <1>1, SpecIInv, PTL

\* capturePhoneNumber takes a number for a lookup only, and one for each.
THEOREM NumbersAskedFor == Spec => []CapturedOnRequest
  <1>1. IInv => CapturedOnRequest
    BY DEF IInv, WindowUnused, CapturedOnRequest, TypeOK
  <1>. QED BY <1>1, SpecIInv, PTL
=============================================================================
