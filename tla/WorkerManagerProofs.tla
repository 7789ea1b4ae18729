------------------------ MODULE WorkerManagerProofs ------------------------
(* Proofs about WorkerManager, for every set of ports, SIMs and workers.   *)
EXTENDS WorkerManager, TLAPS

\* The initial state satisfies the inductive invariant.
LEMMA InitIInv == Init => IInv
  BY NoneAssumption
     DEF Init, IInv, TypeOK, InitStates, Bookkeeping, LiveWorkerIsManaged,
         RegisteredHoldsClaim, RegisteredSIM, Managed

\* What a scan does to a worker: the new worker objects are those of the
\* unprobed ports, and every other worker keeps its port and its progress.
LEMMA ScanFacts ==
  ASSUME IInv, NEW new \in Injection(Unprobed, Free), Scan(new)
  PROVE  /\ \A p \in Unprobed : /\ new[p] \in Workers
                                /\ pc[new[p]] = "free"
                                /\ port'[new[p]] = p
                                /\ pc'[new[p]] = "open"
         /\ \A w \in Workers :
              \/ \E p \in Unprobed : w = new[p]
              \/ port'[w] = port[w] /\ pc'[w] = pc[w]
  <1>1. /\ new \in [Unprobed -> Free]
        /\ \A p, q \in Unprobed : new[p] = new[q] => p = q
    BY DEF Injection, IsInjective
  <1>2. Range(new) = {new[p] : p \in Unprobed}
    BY <1>1 DEF Range
  <1>3. ASSUME NEW p \in Unprobed
        PROVE  (CHOOSE q \in Unprobed : new[q] = new[p]) = p
    BY <1>1
  <1>4. QED
    BY <1>1, <1>2, <1>3 DEF Scan, Free

\* A scan keeps a worker that is in the map, not stopped and on a listed port.
LEMMA ScanKeeps ==
  ASSUME IInv, NEW new \in Injection(Unprobed, Free), Scan(new),
         NEW p \in Ports, workers[p] # None, p \notin Gone \cup Dead
  PROVE  p \notin Unprobed /\ workers'[p] = workers[p]
  BY DEF IInv, Bookkeeping, Gone, Dead, Unprobed, KeptProbed, Scan

\* ScanAndManage preserves the inductive invariant.
LEMMA ScanIInv == IInv /\ ScanAndManage => IInv'
  <1> SUFFICES ASSUME IInv, NEW new \in Injection(Unprobed, Free), Scan(new)
               PROVE  IInv'
    BY DEF ScanAndManage
  <1>a. Unprobed \subseteq Ports /\ KeptProbed \subseteq Ports /\ None \notin Ports
    BY NoneAssumption DEF IInv, TypeOK, Unprobed, KeptProbed
  <1>b. \A p \in Unprobed : /\ new[p] \in Workers
                            /\ pc[new[p]] = "free"
                            /\ port'[new[p]] = p
                            /\ pc'[new[p]] = "open"
    BY ScanFacts
  <1>c. \A w \in Workers : \/ \E p \in Unprobed : w = new[p]
                           \/ port'[w] = port[w] /\ pc'[w] = pc[w]
    BY ScanFacts
  <1>1. TypeOK'
    <2>1. workers' \in [Ports -> Workers \cup {None}]
      BY <1>b DEF IInv, TypeOK, Scan
    <2>2. activeICCIDs' \in [ICCIDs -> Ports \cup {None}]
      BY DEF IInv, TypeOK, Scan, Unregister
    <2>3. /\ port' \in [Workers -> Ports \cup {None}]
          /\ pc' \in [Workers -> InitStates]
      <3>1. \A w \in Workers : port'[w] \in Ports \cup {None} /\ pc'[w] \in InitStates
        BY <1>a, <1>b, <1>c DEF IInv, TypeOK, InitStates
      <3>2. port' = [w \in Workers |-> port'[w]] /\ pc' = [w \in Workers |-> pc'[w]]
        BY DEF Scan
      <3>3. QED
        BY <3>1, <3>2
    <2>4. stopped' \in [Workers -> BOOLEAN]
      BY DEF IInv, TypeOK, Scan
    <2>5. probedPorts' \subseteq Ports
      BY <1>a DEF Scan
    <2>6. QED
      BY <2>1, <2>2, <2>3, <2>4, <2>5 DEF IInv, TypeOK, Scan
  <1>2. Bookkeeping'
    <2>1. ASSUME NEW p \in Ports, workers'[p] # None
          PROVE  /\ port'[workers'[p]] = p
                 /\ pc'[workers'[p]] # "free"
                 /\ p \in probedPorts'
      <3>1. CASE p \in Unprobed
        BY <3>1, <1>b DEF Scan
      <3>2. CASE p \notin Unprobed
        <4>1. workers'[p] = workers[p] /\ workers[p] \in Workers
          BY <2>1, <3>2 DEF Scan, IInv, TypeOK
        <4>2. p \notin Gone \cup Dead
          BY <2>1, <3>2 DEF Scan
        <4>3. p \in KeptProbed
          BY <2>1, <3>2, <4>1, <4>2 DEF Gone, Unprobed
        <4>4. \A q \in Unprobed : workers[p] # new[q]
          BY <2>1, <4>1, <1>b DEF IInv, Bookkeeping
        <4>5. port'[workers[p]] = port[workers[p]] /\ pc'[workers[p]] = pc[workers[p]]
          BY <4>1, <4>4, <1>c
        <4>6. QED
          BY <2>1, <4>1, <4>3, <4>5 DEF IInv, Bookkeeping, Scan
      <3>3. QED
        BY <3>1, <3>2
    <2>2. ASSUME NEW w \in Workers
          PROVE  /\ pc'[w] = "free" <=> port'[w] = None
                 /\ iccid'[w] # None <=> pc'[w] \in {"register", "upsert"}
                 /\ modem'[w] # None => pc'[w] = "done"
                 /\ pc'[w] = "free" => ~stopped'[w]
      <3>1. CASE \E p \in Unprobed : w = new[p]
        <4>1. PICK p \in Unprobed : w = new[p]
          BY <3>1
        <4>2. port'[w] = p /\ pc'[w] = "open" /\ pc[w] = "free" /\ p # None
          BY <4>1, <1>a, <1>b
        <4>3. QED
          BY <4>2 DEF IInv, Bookkeeping, Scan
      <3>2. CASE port'[w] = port[w] /\ pc'[w] = pc[w]
        <4>1. stopped'[w] => stopped[w] \/ pc[w] # "free"
          BY DEF Scan, Gone, IInv, TypeOK, Bookkeeping
        <4>2. QED
          BY <3>2, <4>1 DEF IInv, Bookkeeping, Scan
      <3>3. QED
        BY <3>1, <3>2, <1>c
    <2>3. QED
      BY <2>1, <2>2 DEF Bookkeeping
  <1>3. LiveWorkerIsManaged'
    <2> SUFFICES ASSUME NEW w \in Workers, pc'[w] # "free", ~stopped'[w]
                 PROVE  Managed(w)'
      BY DEF LiveWorkerIsManaged
    <2>1. CASE \E p \in Unprobed : w = new[p]
      <3>1. PICK p \in Unprobed : w = new[p]
        BY <2>1
      <3>2. port'[w] = p /\ workers'[p] = w /\ p # None
        BY <3>1, <1>a, <1>b DEF Scan
      <3>3. QED
        BY <3>2 DEF Managed
    <2>2. CASE port'[w] = port[w] /\ pc'[w] = pc[w]
      <3>1. Managed(w) /\ ~stopped[w]
        BY <2>2 DEF IInv, LiveWorkerIsManaged, Scan
      <3>2. port[w] \in Ports /\ workers[port[w]] = w /\ w # None
        BY <3>1, NoneAssumption DEF Managed, IInv, TypeOK
      <3>3. port[w] \notin Gone \cup Dead
        BY <3>1, <3>2 DEF Gone, Dead, Scan
      <3>4. workers'[port[w]] = w
        BY <3>2, <3>3, ScanKeeps
      <3>5. QED
        BY <2>2, <3>1, <3>4 DEF Managed
    <2>3. QED
      BY <2>1, <2>2, <1>c
  <1>4. RegisteredHoldsClaim'
    <2> SUFFICES ASSUME NEW w \in Workers, Managed(w)',
                        RegisteredSIM(w)' \notin unclaimed' \cup {None}
                 PROVE  activeICCIDs'[RegisteredSIM(w)'] = port'[w]
      BY DEF RegisteredHoldsClaim
    <2> DEFINE i == RegisteredSIM(w)
    <2>1. pc'[w] \in {"upsert", "done"}
      BY <1>2 DEF RegisteredSIM, Bookkeeping, Scan
    <2>2. port'[w] = port[w] /\ pc'[w] = pc[w]
      BY <2>1, <1>b, <1>c
    <2>3. RegisteredSIM(w)' = i /\ i \in ICCIDs /\ i \notin unclaimed \cup {None}
      BY <2>2 DEF RegisteredSIM, Scan, IInv, TypeOK
    <2>4. \A p \in Unprobed : new[p] # w
      BY <2>1, <2>2, <1>b
    <2>5. port[w] \in Ports /\ workers'[port[w]] = w /\ w # None
      BY <2>2, NoneAssumption DEF Managed, IInv, TypeOK
    <2>6. workers[port[w]] = w /\ port[w] \notin Gone \cup Dead
      BY <2>4, <2>5 DEF Scan
    <2>7. activeICCIDs[i] = port[w]
      BY <2>3, <2>5, <2>6, NoneAssumption DEF Managed, IInv, RegisteredHoldsClaim, TypeOK
    <2>8. ASSUME NEW q \in Gone \cup Dead, modem[workers[q]] = i
          PROVE  FALSE
      <3>1. q \in Ports /\ workers[q] \in Workers /\ workers[q] # None
        BY DEF Gone, Dead, IInv, TypeOK
      <3>2. port[workers[q]] = q /\ pc[workers[q]] = "done"
        BY <2>3, <2>8, <3>1 DEF IInv, Bookkeeping
      <3>3. Managed(workers[q]) /\ RegisteredSIM(workers[q]) = i
        BY <2>8, <3>1, <3>2, NoneAssumption DEF Managed, RegisteredSIM
      <3>4. activeICCIDs[i] = q
        BY <2>3, <3>1, <3>2, <3>3 DEF IInv, RegisteredHoldsClaim
      <3>5. QED
        BY <2>6, <2>7, <3>4
    <2>9. activeICCIDs'[i] = activeICCIDs[i]
      BY <2>3, <2>8 DEF Scan, Unregister
    <2>10. QED
      BY <2>2, <2>3, <2>7, <2>9
  <1>5. QED
    BY <1>1, <1>2, <1>3, <1>4 DEF IInv

\* RemoveWorkerByICCID preserves the inductive invariant.
LEMMA RemoveIInv ==
  ASSUME IInv, NEW i \in Deletable, RemoveWorkerByICCID(i)
  PROVE  IInv'
  <1> USE NoneAssumption, DeletableAssumption
  <1>1. CASE RemoveWorker(i)
    <2>1. PICK p \in Ports :
            /\ workers[p] # None
            /\ modem[workers[p]] = i
            /\ stopped' = [stopped EXCEPT ![workers[p]] = TRUE]
            /\ workers' = [workers EXCEPT ![p] = None]
            /\ activeICCIDs' = Unregister({p})
            /\ UNCHANGED <<present, closing, probedPorts, port, pc, iccid, modem,
                           reprobe, unclaimed>>
      BY <1>1 DEF RemoveWorker
    <2>2. /\ workers[p] \in Workers /\ port[workers[p]] = p
          /\ pc[workers[p]] = "done" /\ i \in ICCIDs /\ i # None
      BY <2>1 DEF IInv, TypeOK, Bookkeeping
    <2>3. TypeOK'
      BY <2>1, <2>2 DEF IInv, TypeOK, Unregister
    <2>4. Bookkeeping'
      BY <2>1, <2>2 DEF IInv, TypeOK, Bookkeeping
    <2>5. LiveWorkerIsManaged'
      BY <2>1, <2>2 DEF IInv, TypeOK, LiveWorkerIsManaged, Managed
    <2>6. RegisteredHoldsClaim'
      <3> SUFFICES ASSUME NEW w \in Workers, Managed(w)',
                          RegisteredSIM(w) \notin unclaimed \cup {None}
                   PROVE  activeICCIDs'[RegisteredSIM(w)] = port[w]
        BY <2>1 DEF RegisteredHoldsClaim, RegisteredSIM
      <3>1. Managed(w) /\ port[w] # p /\ RegisteredSIM(w) \in ICCIDs
        BY <2>1 DEF Managed, RegisteredSIM, IInv, TypeOK
      <3>2. activeICCIDs[RegisteredSIM(w)] = port[w]
        BY <3>1 DEF IInv, RegisteredHoldsClaim
      <3>3. RegisteredSIM(w) # i
        BY <2>1, <2>2, <3>1, <3>2 DEF IInv, RegisteredHoldsClaim, Managed, RegisteredSIM
      <3>4. QED
        BY <2>1, <3>1, <3>2, <3>3 DEF Unregister
    <2>7. QED
      BY <2>3, <2>4, <2>5, <2>6 DEF IInv
  <1>2. CASE RemoveClaim(i)
    <2>1. TypeOK' /\ Bookkeeping' /\ LiveWorkerIsManaged'
      BY <1>2 DEF RemoveClaim, workerVars, IInv, TypeOK, Bookkeeping,
                  LiveWorkerIsManaged, Managed
    <2>2. RegisteredHoldsClaim'
      <3> SUFFICES ASSUME NEW w \in Workers, Managed(w),
                          RegisteredSIM(w) \notin unclaimed' \cup {None}
                   PROVE  activeICCIDs'[RegisteredSIM(w)] = port[w]
        BY <1>2 DEF RegisteredHoldsClaim, RegisteredSIM, Managed, RemoveClaim, workerVars
      <3>1. activeICCIDs[RegisteredSIM(w)] = port[w]
        BY <1>2 DEF IInv, RegisteredHoldsClaim, RemoveClaim
      <3>2. RegisteredSIM(w) # i
        BY <1>2 DEF RemoveClaim, RegisteredSIM, Managed, IInv, TypeOK
      <3>3. RegisteredSIM(w) \in ICCIDs
        BY DEF RegisteredSIM, IInv, TypeOK
      <3>4. QED
        BY <1>2, <3>1, <3>2, <3>3 DEF RemoveClaim, IInv, TypeOK
    <2>3. QED
      BY <2>1, <2>2 DEF IInv
  <1>3. QED
    BY <1>1, <1>2 DEF RemoveWorkerByICCID

\* The remaining steps leave the manager's maps alone, except that a granted
\* RegisterICCID adds a claim: the inductive invariant is preserved.
LEMMA WorkerIInv ==
  ASSUME IInv, NEW w \in Workers, Worker(w) \/ Collect(w)
  PROVE  IInv'
  <1> USE NoneAssumption DEF IInv, TypeOK, InitStates, Bookkeeping,
                             LiveWorkerIsManaged, RegisteredHoldsClaim,
                             RegisteredSIM, Managed, mgrVars
  <1>1. CASE OpenFails(w)
    BY <1>1 DEF OpenFails
  <1>2. CASE OpenSucceeds(w)
    BY <1>2 DEF OpenSucceeds
  <1>3. CASE ProbeFails(w)
    BY <1>3 DEF ProbeFails
  <1>4. CASE IdentifyFails(w)
    BY <1>4 DEF IdentifyFails
  <1>5. CASE NoSIM(w)
    BY <1>5 DEF NoSIM
  <1>6. CASE ReadICCID(w)
    BY <1>6 DEF ReadICCID
  <1>7. CASE RegisterICCID(w)
    BY <1>7 DEF RegisterICCID
  <1>8. CASE RefuseDuplicate(w)
    BY <1>8 DEF RefuseDuplicate
  <1>9. CASE SetModem(w)
    BY <1>9 DEF SetModem
  <1>10. CASE UpsertFails(w)
    BY <1>10 DEF UpsertFails
  <1>11. CASE ReprobeTimer(w)
    <2>1. CASE stopped' = [stopped EXCEPT ![w] = TRUE]
               /\ reprobe' = [reprobe EXCEPT ![w] = TRUE]
      BY <1>11, <2>1 DEF ReprobeTimer
    <2>2. CASE stopped[w] /\ UNCHANGED <<stopped, reprobe>>
      BY <1>11, <2>2 DEF ReprobeTimer
    <2>3. QED
      BY <1>11, <2>1, <2>2 DEF ReprobeTimer
  <1>12. CASE SerialError(w)
    BY <1>12 DEF SerialError
  <1>13. CASE Collect(w)
    BY <1>13 DEF Collect
  <1>14. QED
    BY <1>1, <1>2, <1>3, <1>4, <1>5, <1>6, <1>7, <1>8, <1>9, <1>10, <1>11,
       <1>12, <1>13 DEF Worker, InitModem

\* Every step preserves the inductive invariant.
LEMMA NextIInv == IInv /\ [Next]_vars => IInv'
  <1> SUFFICES ASSUME IInv, [Next]_vars
               PROVE  IInv'
    OBVIOUS
  <1>1. CASE Stop
    BY <1>1 DEF Stop, IInv, TypeOK, Bookkeeping, LiveWorkerIsManaged,
                RegisteredHoldsClaim, RegisteredSIM, Managed, mgrVars
  <1>2. CASE \E p \in Ports : Plug(p)
    BY <1>2 DEF Plug, IInv, TypeOK, Bookkeeping, LiveWorkerIsManaged,
                RegisteredHoldsClaim, RegisteredSIM, Managed, mgrVars, workerVars
  <1>3. CASE UNCHANGED vars
    BY <1>3 DEF vars, IInv, TypeOK, Bookkeeping, LiveWorkerIsManaged,
                RegisteredHoldsClaim, RegisteredSIM, Managed, mgrVars, workerVars
  <1>4. QED
    BY <1>1, <1>2, <1>3, ScanIInv, RemoveIInv, WorkerIInv DEF Next, Manager

\* A claim on a SIM makes its worker the only one: two managed workers with
\* one SIM would both hold the single claim on it.
LEMMA ClaimIsExclusive == IInv => OneWorkerPerSIM
  <1> SUFFICES ASSUME IInv, NEW v \in Workers, NEW w \in Workers,
                      Managed(v), Managed(w), modem[v] = modem[w],
                      modem[v] \notin unclaimed \cup {None}
               PROVE  v = w
    BY DEF OneWorkerPerSIM
  <1>1. RegisteredSIM(v) = modem[v] /\ RegisteredSIM(w) = modem[v]
    BY DEF IInv, Bookkeeping, RegisteredSIM
  <1>2. activeICCIDs[modem[v]] = port[v] /\ activeICCIDs[modem[v]] = port[w]
    BY <1>1 DEF IInv, RegisteredHoldsClaim
  <1>3. QED
    BY <1>2 DEF Managed

\* Type correctness of the manager and its workers.
THEOREM TypeCorrect == Spec => []TypeOK
  <1>1. IInv => TypeOK
    BY DEF IInv
  <1>2. QED
    BY <1>1, InitIInv, NextIInv, PTL DEF Spec

\* No started, unstopped worker is ever outside the manager's map: a port has
\* at most one running worker, and Stop, cleanup and lookup reach it.
THEOREM LiveWorkersStayManaged == Spec => []LiveWorkerIsManaged
  <1>1. IInv => LiveWorkerIsManaged
    BY DEF IInv
  <1>2. QED
    BY <1>1, InitIInv, NextIInv, PTL DEF Spec

\* Whatever scans, deletions, disconnects and unfinished initialisations
\* interleave, a worker in the map holds the claim on the SIM it registered.
THEOREM RegisteredWorkersHoldClaims == Spec => []RegisteredHoldsClaim
  <1>1. IInv => RegisteredHoldsClaim
    BY DEF IInv
  <1>2. QED
    BY <1>1, InitIInv, NextIInv, PTL DEF Spec

\* A SIM has at most one worker in the manager's map, unless a deletion hit
\* the initialisation of its worker.
THEOREM SIMHasOneWorker == Spec => []OneWorkerPerSIM
  BY InitIInv, NextIInv, ClaimIsExclusive, PTL DEF Spec

=============================================================================
