-------------------------- MODULE KeepaliveProofs --------------------------
(***************************************************************************)
(* Proofs about Keepalive for every number of SIMs, of overlapping runs,   *)
(* of days and months, and for every cap and interval: the log never       *)
(* exceeds the monthly cap, every paid SMS beyond it was lost, and the     *)
(* scheduler never sends twice within the interval.                        *)
(***************************************************************************)
EXTENDS Keepalive, TLAPS

USE KeepaliveAssumption

\* The run in progress of r is a "sent" one of SIM s in month n, to be written.
Unwritten(r, s, n) ==
    pc[r] = "add" /\ result[r] = "sent" /\ cur[r] = s /\ MonthOf[ranAt[r]] = n

\* The invariant holds at the start.
LEMMA InitIInv == Init => IInv
BY DEF Init, IInv, TypeOK, LoggedWithinCap, UnderLock, PaidIsAccounted, Sending, Days

\* Bump adds one for the SIM and month of the run and nothing else.
LEMMA BumpFacts ==
    ASSUME NEW f \in [SIMs -> [Months -> Nat]], NEW r \in Runners,
           cur[r] \in SIMs, MonthOf[ranAt[r]] \in Months
    PROVE /\ Bump(f, r) \in [SIMs -> [Months -> Nat]]
          /\ \A s \in SIMs, n \in Months :
                Bump(f, r)[s][n] = IF s = cur[r] /\ n = MonthOf[ranAt[r]]
                                   THEN f[s][n] + 1 ELSE f[s][n]
BY DEF Bump

\* The steps outside runOne change neither the log nor what is paid.
LEMMA OutsideIInv ==
    ASSUME IInv,
           \/ \E r \in Runners : StartRun(r) \/ EndRun(r)
           \/ \E r \in Runners, s \in SIMs : PassOver(r, s)
           \/ \E s \in SIMs : SetEnabled(s) \/ SMSActivity(s)
           \/ NextDay
    PROVE IInv'
<1> USE DEF IInv, dbVars, runVars
<1>1. /\ lastSent' = lastSent /\ sentCount' = sentCount /\ mu' = mu
      /\ cur' = cur /\ ranAt' = ranAt /\ result' = result
      /\ paid' = paid /\ lost' = lost
  BY DEF StartRun, Collect, EndRun, PassOver, SetEnabled, SMSActivity, NextDay
<1>2. /\ pc' \in [Runners -> {"idle", "loop", "send", "add"}]
      /\ \A r \in Runners : /\ pc'[r] = "send" <=> pc[r] = "send"
                            /\ pc'[r] = "add" <=> pc[r] = "add"
  <2>1. CASE UNCHANGED pc
    BY <2>1 DEF TypeOK
  <2>2. CASE \E r \in Runners : StartRun(r) \/ EndRun(r)
    BY <2>2 DEF StartRun, Collect, EndRun, TypeOK
  <2> QED BY <2>1, <2>2 DEF PassOver, SetEnabled, SMSActivity, NextDay
<1>3. TypeOK'
  <2>1. day' \in Days /\ enabled' \subseteq SIMs /\ activity' \in [SIMs -> Days]
    <3>1. CASE NextDay
      BY <3>1 DEF NextDay, TypeOK, Days
    <3>2. CASE \E s \in SIMs : SetEnabled(s) \/ SMSActivity(s)
      <4>1. CASE \E s \in SIMs : SetEnabled(s)
        BY <4>1 DEF SetEnabled, TypeOK
      <4>2. CASE \E s \in SIMs : SMSActivity(s)
        BY <4>2 DEF SMSActivity, TypeOK
      <4> QED BY <3>2, <4>1, <4>2
    <3>3. CASE UNCHANGED <<day, enabled, activity>>
      BY <3>3 DEF TypeOK
    <3> QED BY <3>1, <3>2, <3>3 DEF StartRun, Collect, EndRun, PassOver
  <2>2. todo' \in [Runners -> SUBSET SIMs] /\ seen' \in [Runners -> [SIMs -> Days]]
    <3>1. CASE \E r \in Runners : StartRun(r)
      <4>1. PICK r \in Runners, S \in SUBSET SIMs : Collect(r, S)
        BY <3>1 DEF StartRun, TypeOK
      <4>2. [s \in SIMs |-> Latest(activity[s], lastSent[s])] \in [SIMs -> Days]
        <5>1. \A d \in Days, e \in Days \cup {None} : Latest(d, e) \in Days
          BY DEF Latest
        <5>2. \A s \in SIMs : activity[s] \in Days /\ lastSent[s] \in Days \cup {None}
          BY DEF TypeOK
        <5>3. \A s \in SIMs : Latest(activity[s], lastSent[s]) \in Days
          BY <5>1, <5>2
        <5> QED BY <5>3, Zenon
      <4> QED BY <4>1, <4>2 DEF Collect, TypeOK
    <3>2. CASE \E r \in Runners : EndRun(r)
      <4>1. 0 \in Days
        BY DEF Days
      <4> QED BY <3>2, <4>1 DEF EndRun, TypeOK
    <3>3. CASE \E r \in Runners, s \in SIMs : PassOver(r, s)
      BY <3>3 DEF PassOver, TypeOK
    <3>4. CASE UNCHANGED <<todo, seen>>
      BY <3>4 DEF TypeOK
    <3> QED BY <3>1, <3>2, <3>3, <3>4 DEF SetEnabled, SMSActivity, NextDay
  <2> QED BY <1>1, <1>2, <2>1, <2>2 DEF TypeOK
<1>4. LoggedWithinCap' /\ UnderLock' /\ PaidIsAccounted'
  BY <1>1, <1>2 DEF LoggedWithinCap, UnderLock, PaidIsAccounted, Sending
<1> QED BY <1>3, <1>4

\* runOne enters: the tests under the lock establish what UnderLock says.
LEMMA EnterIInv ==
    ASSUME IInv, NEW r \in Runners, NEW s \in SIMs, Enter(r, s)
    PROVE IInv'
<1> USE DEF IInv
<1>1. /\ lastSent' = lastSent /\ sentCount' = sentCount /\ result' = result
      /\ paid' = paid /\ lost' = lost /\ mu = None /\ mu' = r
      /\ pc[r] = "loop" /\ pc'[r] = "send" /\ cur'[r] = s /\ ranAt'[r] = day
      /\ \A q \in Runners : q # r => /\ pc'[q] = pc[q] /\ cur'[q] = cur[q]
                                     /\ ranAt'[q] = ranAt[q]
  BY DEF Enter, TypeOK, dbVars
<1>2. TypeOK'
  BY DEF Enter, TypeOK, dbVars
<1>3. \A q \in Runners : ~Sending(q)
  BY <1>1 DEF UnderLock
<1>4. UnderLock'
  <2>1. /\ sentCount[s][MonthOf[day]] < MaxPerMonth
        /\ r \in RunAlls => lastSent[s] = None \/ day - lastSent[s] >= Interval
    <3>1. MaySend(r, s)
      BY DEF Enter
    <3>2. \A d \in Days, e \in Days \cup {None}, x \in Days :
            e # None /\ isDue(d, Latest(x, e)) => d - e >= Interval
      BY DEF isDue, Latest, Days
    <3>3. day \in Days /\ lastSent[s] \in Days \cup {None} /\ seen[r][s] \in Days
      BY DEF TypeOK
    <3> HIDE DEF IInv
    <3> QED BY <3>1, <3>2, <3>3 DEF MaySend
  <2>2. \A q \in Runners : q # r => pc'[q] \notin {"send", "add"}
    BY <1>1, <1>3 DEF Sending
  <2> QED BY <1>1, <2>1, <2>2 DEF UnderLock, Sending
<1>5. PaidIsAccounted'
  <2>1. \A q \in Runners : pc[q] # "add" /\ pc'[q] # "add"
    BY <1>1, <1>3 DEF Sending
  <2> QED BY <1>1, <2>1 DEF PaidIsAccounted
<1>6. LoggedWithinCap'
  BY <1>1 DEF LoggedWithinCap
<1> QED BY <1>2, <1>4, <1>5, <1>6

\* What the holder of the lock knows.
LEMMA HolderFacts ==
    ASSUME IInv, NEW r \in Runners, Sending(r)
    PROVE /\ mu = r /\ cur[r] \in SIMs /\ MonthOf[ranAt[r]] \in Months
          /\ \A q \in Runners : q # r => ~Sending(q)
BY DEF IInv, UnderLock, TypeOK

\* SendSMS: what is paid is accounted for, as lost or as about to be written.
LEMMA SendSMSIInv ==
    ASSUME IInv, NEW r \in Runners, SendSMS(r)
    PROVE IInv'
<1> DEFINE month == MonthOf[ranAt[r]]
<1>1. /\ Sending(r) /\ cur[r] \in SIMs /\ month \in Months
      /\ \A q \in Runners : q # r => ~Sending(q)
  BY HolderFacts DEF SendSMS, Sending
<1> USE DEF IInv
<1>2. /\ lastSent' = lastSent /\ sentCount' = sentCount /\ mu' = mu
      /\ cur' = cur /\ ranAt' = ranAt
      /\ day' = day /\ enabled' = enabled /\ todo' = todo /\ seen' = seen
      /\ pc[r] = "send" /\ pc'[r] = "add"
      /\ \A q \in Runners : q # r => pc'[q] = pc[q] /\ result'[q] = result[q]
      /\ pc' \in [Runners -> {"idle", "loop", "send", "add"}]
      /\ result' \in [Runners -> {"sent", "failed"}]
      /\ activity' \in [SIMs -> Days]
  <2>1. PICK v \in {"sent", "failed"} : result' = [result EXCEPT ![r] = v]
    BY DEF SendSMS
  <2>2. activity' \in [SIMs -> Days]
    BY <1>1 DEF SendSMS, TypeOK
  <2> QED BY <2>1, <2>2 DEF SendSMS, TypeOK
<1>3. \/ result'[r] = "sent" /\ paid' = Bump(paid, r) /\ lost' = lost
      \/ result'[r] = "failed" /\ paid' = Bump(paid, r) /\ lost' = Bump(lost, r)
      \/ result'[r] = "failed" /\ paid' = paid /\ lost' = lost
  BY DEF SendSMS, TypeOK
<1>4. /\ paid \in [SIMs -> [Months -> Nat]] /\ lost \in [SIMs -> [Months -> Nat]]
      /\ Bump(paid, r) \in [SIMs -> [Months -> Nat]]
      /\ Bump(lost, r) \in [SIMs -> [Months -> Nat]]
      /\ \A s \in SIMs, n \in Months :
           /\ Bump(paid, r)[s][n] = IF s = cur[r] /\ n = month
                                    THEN paid[s][n] + 1 ELSE paid[s][n]
           /\ Bump(lost, r)[s][n] = IF s = cur[r] /\ n = month
                                    THEN lost[s][n] + 1 ELSE lost[s][n]
  <2>1. paid \in [SIMs -> [Months -> Nat]] /\ lost \in [SIMs -> [Months -> Nat]]
    BY DEF TypeOK
  <2> QED BY <1>1, <2>1, BumpFacts
<1>5. TypeOK'
  BY <1>2, <1>3, <1>4 DEF TypeOK
<1>6. UnderLock'
  BY <1>1, <1>2 DEF UnderLock, Sending
<1>7. LoggedWithinCap'
  BY <1>2 DEF LoggedWithinCap
<1>8. PaidIsAccounted'
  <2> SUFFICES ASSUME NEW s \in SIMs, NEW n \in Months
               PROVE paid'[s][n] = sentCount[s][n] + lost'[s][n] +
                        (IF \E q \in Runners : Unwritten(q, s, n)' THEN 1 ELSE 0)
    BY <1>2 DEF PaidIsAccounted, Unwritten
  <2>1. paid[s][n] = sentCount[s][n] + lost[s][n]
    <3>1. \A q \in Runners : pc[q] # "add"
      BY <1>1, <1>2 DEF Sending
    <3>2. sentCount[s][n] \in Nat /\ lost[s][n] \in Nat
      BY DEF TypeOK
    <3> QED BY <3>1, <3>2 DEF PaidIsAccounted
  <2>2. (\E q \in Runners : Unwritten(q, s, n)')
        <=> result'[r] = "sent" /\ s = cur[r] /\ n = month
    BY <1>1, <1>2 DEF Unwritten, Sending
  <2>3. sentCount[s][n] \in Nat /\ lost[s][n] \in Nat /\ paid[s][n] \in Nat
    BY DEF TypeOK
  <2> DEFINE u == \E q \in Runners : Unwritten(q, s, n)'
             here == s = cur[r] /\ n = month
  <2>4. /\ Bump(paid, r)[s][n] = IF here THEN paid[s][n] + 1 ELSE paid[s][n]
        /\ Bump(lost, r)[s][n] = IF here THEN lost[s][n] + 1 ELSE lost[s][n]
    BY <1>4
  <2>5. u <=> result'[r] = "sent" /\ here
    BY <2>2
  <2> HIDE DEF u, here
  <2>6. paid'[s][n] = sentCount[s][n] + lost'[s][n] + (IF u THEN 1 ELSE 0)
    BY <1>3, <2>1, <2>3, <2>4, <2>5
  <2> QED BY <2>6 DEF u
<1> QED BY <1>5, <1>6, <1>7, <1>8

\* The end of runOne, whether the run is written or not.
LEMMA AddIInv ==
    ASSUME IInv, NEW r \in Runners, Add(r) \/ AddFails(r)
    PROVE IInv'
<1> DEFINE month == MonthOf[ranAt[r]]
<1>1. /\ Sending(r) /\ mu = r /\ cur[r] \in SIMs /\ month \in Months
      /\ \A q \in Runners : q # r => ~Sending(q)
  BY HolderFacts DEF Add, AddFails, Sending
<1> USE DEF IInv
<1>2. /\ mu' = None /\ pc[r] = "add" /\ pc'[r] = "loop"
      /\ day' = day /\ enabled' = enabled /\ activity' = activity
      /\ todo' = todo /\ seen' = seen /\ paid' = paid
      /\ \A q \in Runners : q # r => pc'[q] = pc[q]
      /\ pc' \in [Runners -> {"idle", "loop", "send", "add"}]
      /\ cur' \in [Runners -> SIMs \cup {None}]
      /\ ranAt' \in [Runners -> Days]
      /\ result' \in [Runners -> {"sent", "failed"}]
  <2>1. Leave(r) /\ pc[r] = "add"
    BY DEF Add, AddFails
  <2>2. 0 \in Days
    BY DEF Days
  <2> QED BY <2>1, <2>2 DEF Leave, TypeOK
<1>3. /\ \A q \in Runners : ~Sending(q)'
      /\ \A q \in Runners : pc'[q] # "add"
  BY <1>1, <1>2 DEF Sending
<1>4. /\ sentCount \in [SIMs -> [Months -> Nat]] /\ lost \in [SIMs -> [Months -> Nat]]
      /\ Bump(sentCount, r) \in [SIMs -> [Months -> Nat]]
      /\ Bump(lost, r) \in [SIMs -> [Months -> Nat]]
      /\ \A s \in SIMs, n \in Months :
           /\ Bump(sentCount, r)[s][n] = IF s = cur[r] /\ n = month
                                    THEN sentCount[s][n] + 1 ELSE sentCount[s][n]
           /\ Bump(lost, r)[s][n] = IF s = cur[r] /\ n = month
                                    THEN lost[s][n] + 1 ELSE lost[s][n]
  <2>1. sentCount \in [SIMs -> [Months -> Nat]] /\ lost \in [SIMs -> [Months -> Nat]]
    BY DEF TypeOK
  <2> QED BY <1>1, <2>1, BumpFacts
<1>5. \/ result[r] = "sent" /\ sentCount' = Bump(sentCount, r) /\ lost' = lost
      \/ result[r] = "sent" /\ sentCount' = sentCount /\ lost' = Bump(lost, r)
      \/ result[r] = "failed" /\ sentCount' = sentCount /\ lost' = lost
  BY DEF Add, AddFails, TypeOK
<1>6. lastSent' \in [SIMs -> Days \cup {None}]
  BY <1>1 DEF Add, AddFails, TypeOK
<1>7. TypeOK'
  BY <1>2, <1>4, <1>5, <1>6 DEF TypeOK
<1>8. UnderLock'
  BY <1>2, <1>3 DEF UnderLock
<1>9. LoggedWithinCap'
  <2>1. sentCount[cur[r]][month] < MaxPerMonth
    BY <1>1 DEF UnderLock
  <2>2. sentCount[cur[r]][month] \in Nat
    BY <1>1, <1>4
  <2> QED BY <1>4, <1>5, <2>1, <2>2 DEF LoggedWithinCap
<1>10. PaidIsAccounted'
  <2> SUFFICES ASSUME NEW s \in SIMs, NEW n \in Months
               PROVE paid[s][n] = sentCount'[s][n] + lost'[s][n]
    <3>1. \A s \in SIMs, n \in Months :
            sentCount'[s][n] \in Nat /\ lost'[s][n] \in Nat
      BY <1>7 DEF TypeOK
    <3> QED BY <1>2, <1>3, <3>1 DEF PaidIsAccounted
  <2>1. (\E q \in Runners : Unwritten(q, s, n))
        <=> result[r] = "sent" /\ s = cur[r] /\ n = month
    BY <1>1, <1>2 DEF Unwritten, Sending
  <2>2. paid[s][n] = sentCount[s][n] + lost[s][n] +
                        (IF \E q \in Runners : Unwritten(q, s, n) THEN 1 ELSE 0)
    BY DEF PaidIsAccounted, Unwritten
  <2>3. sentCount[s][n] \in Nat /\ lost[s][n] \in Nat
    BY <1>4
  <2> DEFINE u == \E q \in Runners : Unwritten(q, s, n)
             here == s = cur[r] /\ n = month
  <2>4. /\ Bump(sentCount, r)[s][n] = IF here THEN sentCount[s][n] + 1 ELSE sentCount[s][n]
        /\ Bump(lost, r)[s][n] = IF here THEN lost[s][n] + 1 ELSE lost[s][n]
    BY <1>4
  <2>5. u <=> result[r] = "sent" /\ here
    BY <2>1
  <2>6. paid[s][n] = sentCount[s][n] + lost[s][n] + (IF u THEN 1 ELSE 0)
    BY <2>2
  <2> HIDE DEF u, here, IInv
  <2> QED BY <1>5, <2>3, <2>4, <2>5, <2>6
<1> QED BY <1>7, <1>8, <1>9, <1>10

\* Every step keeps the invariant.
LEMMA NextIInv == IInv /\ [Next]_vars => IInv'
<1> SUFFICES ASSUME IInv, [Next]_vars PROVE IInv'
  OBVIOUS
<1>1. CASE UNCHANGED vars
  BY <1>1 DEF vars, dbVars, runVars, IInv, TypeOK, LoggedWithinCap, UnderLock,
       PaidIsAccounted, Sending
<1>2. CASE Next
  BY <1>2, OutsideIInv, EnterIInv, SendSMSIInv, AddIInv DEF Next, Run
<1> QED BY <1>1, <1>2

\* The invariant holds in every behaviour.
LEMMA SpecIInv == Spec => []IInv
BY InitIInv, NextIInv, PTL DEF Spec

\* Every variable keeps its type.
THEOREM TypeCorrect == Spec => []TypeOK
<1>1. IInv => TypeOK
  BY DEF IInv
<1> QED BY <1>1, SpecIInv, PTL

\* The log of runOne never counts more sent runs than the monthly cap.
THEOREM LogRespectsCap == Spec => []LoggedWithinCap
<1>1. IInv => LoggedWithinCap
  BY DEF IInv
<1> QED BY <1>1, SpecIInv, PTL

\* Every paid SMS beyond the cap is one that no "sent" run was written for.
THEOREM OverspendingOnlyByLoss == Spec => []OverspendingWasLost
<1>1. IInv => OverspendingWasLost
  <2> SUFFICES ASSUME IInv, NEW s \in SIMs, NEW n \in Months
               PROVE paid[s][n] <= MaxPerMonth + lost[s][n]
    BY DEF OverspendingWasLost
  <2>1. sentCount[s][n] \in Nat /\ lost[s][n] \in Nat /\ sentCount[s][n] <= MaxPerMonth
    BY DEF IInv, TypeOK, LoggedWithinCap
  <2>2. paid[s][n] = sentCount[s][n] + lost[s][n] +
                        (IF \E q \in Runners : Unwritten(q, s, n) THEN 1 ELSE 0)
    BY DEF IInv, PaidIsAccounted, Unwritten
  <2>3. (\E q \in Runners : Unwritten(q, s, n)) => sentCount[s][n] < MaxPerMonth
    BY DEF IInv, UnderLock, Unwritten, Sending
  <2> QED BY <2>1, <2>2, <2>3
<1> QED BY <1>1, SpecIInv, PTL

\* A run of the scheduler never writes one more "sent" run within the interval,
\* on the same day or later.
THEOREM SchedulerNeverSendsTwice == Spec => NoDoubleSend
<1> DEFINE A == \A r \in RunAlls :
                  pc[r] = "add" /\ pc'[r] = "loop" /\ sentCount' # sentCount
                    => \/ lastSent[cur[r]] = None
                       \/ ranAt[r] - lastSent[cur[r]] >= Interval
<1>1. IInv /\ [Next]_vars => [A]_vars
  BY DEF IInv, UnderLock, Sending, Runners
<1> QED BY <1>1, SpecIInv, PTL DEF Spec, NoDoubleSend
=============================================================================
