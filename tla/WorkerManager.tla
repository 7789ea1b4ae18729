--------------------------- MODULE WorkerManager ---------------------------
(***************************************************************************)
(* The manager of the modem workers (internal/worker/manager.go) and the   *)
(* part of a worker's life that it depends on: opening the port, the       *)
(* initModem goroutine, Stop and the re-probe flag (worker.go).            *)
(*                                                                         *)
(* Every public operation of the manager runs under m.mu and is one        *)
(* action.  The initModem goroutine of a worker takes the lock only inside *)
(* RegisterICCID, so its steps interleave with scans and deletions, and it *)
(* keeps running after its worker was stopped and forgotten.               *)
(***************************************************************************)
EXTENDS FiniteSets, Functions

CONSTANTS
    Ports,      \* serial port names
    ICCIDs,     \* SIM identities
    Deletable,  \* the SIMs an administrator may delete (DeleteModem)
    Workers,    \* worker objects; the size of the pool bounds the model
    None        \* an absent map entry, a nil pointer, the empty string

ASSUME DeletableAssumption == Deletable \subseteq ICCIDs
ASSUME NoneAssumption == None \notin Ports \cup ICCIDs \cup Workers

VARIABLES
    present,      \* the ports the operating system lists
    closing,      \* m.stop is closed
    workers,      \* m.workers: port -> worker
    activeICCIDs, \* m.activeICCIDs: ICCID -> port
    probedPorts,  \* m.probedPorts
    port,         \* PortName of a worker
    pc,           \* where the worker's initModem goroutine is
    iccid,        \* the ICCID that goroutine has read and not yet registered
    modem,        \* the ICCID of w.modem; None while w.modem is nil
    stopped,      \* w.stop is closed
    reprobe,      \* w.reprobe
    unclaimed     \* history: SIMs whose claim was dropped under a worker
                  \* that was still initialising

mgrVars == <<workers, activeICCIDs, probedPorts>>
workerVars == <<port, pc, iccid, modem, stopped, reprobe>>
vars == <<present, closing, mgrVars, workerVars, unclaimed>>

(***************************************************************************)
(* "free": not allocated.  "open": serial.Open.  "probe": the AT commands  *)
(* up to the ICCID.  "register": about to call RegisterICCID.  "upsert":   *)
(* registered, reading signal and network, then Upsert and setModem.       *)
(* "wait": no SIM, the goroutine of scheduleReprobe is sleeping.  "done":  *)
(* initModem has returned.                                                 *)
(***************************************************************************)
InitStates == {"free", "open", "probe", "register", "upsert", "wait", "done"}

TypeOK ==
    /\ present \subseteq Ports
    /\ closing \in BOOLEAN
    /\ workers \in [Ports -> Workers \cup {None}]
    /\ activeICCIDs \in [ICCIDs -> Ports \cup {None}]
    /\ probedPorts \subseteq Ports
    /\ port \in [Workers -> Ports \cup {None}]
    /\ pc \in [Workers -> InitStates]
    /\ iccid \in [Workers -> ICCIDs \cup {None}]
    /\ modem \in [Workers -> ICCIDs \cup {None}]
    /\ stopped \in [Workers -> BOOLEAN]
    /\ reprobe \in [Workers -> BOOLEAN]
    /\ unclaimed \subseteq ICCIDs

Init ==
    /\ present \in SUBSET Ports
    /\ closing = FALSE
    /\ workers = [p \in Ports |-> None]
    /\ activeICCIDs = [i \in ICCIDs |-> None]
    /\ probedPorts = {}
    /\ port = [w \in Workers |-> None]
    /\ pc = [w \in Workers |-> "free"]
    /\ iccid = [w \in Workers |-> None]
    /\ modem = [w \in Workers |-> None]
    /\ stopped = [w \in Workers |-> FALSE]
    /\ reprobe = [w \in Workers |-> FALSE]
    /\ unclaimed = {}

-----------------------------------------------------------------------------
(* State functions.                                                        *)

\* w is the worker object that m.workers holds for its port.
Managed(w) == port[w] # None /\ workers[port[w]] = w

\* A worker object nothing refers to any more: the pool may hand it out.
Free == {w \in Workers : pc[w] = "free"}

\* The ports whose worker the scan stops and forgets because they are gone.
Gone == {p \in Ports \ present : workers[p] # None}

\* The ports whose worker has stopped by itself, found by
\* cleanupStoppedWorkersLocked.
Dead == {p \in present : workers[p] # None /\ stopped[workers[p]]}

\* Mutant of KeptProbed: a disconnected port is not re-armed.
KeptProbedNoRearm == probedPorts \cap present

\* probedPorts after the marks of missing ports and of workers that asked for
\* a new probe are removed.
KeptProbed == (probedPorts \cap present) \ {p \in Dead : reprobe[workers[p]]}

\* The ports that get a worker at the end of the scan.
Unprobed == present \ KeptProbed

\* unregisterWorkerLocked for the workers of the ports in P: a claim goes
\* with a worker whose w.modem is set, whoever holds that claim.
Unregister(P) ==
    [i \in ICCIDs |-> IF \E p \in P : modem[workers[p]] = i
                      THEN None ELSE activeICCIDs[i]]

-----------------------------------------------------------------------------
(* The operations of the manager.                                          *)

(***************************************************************************)
(* One pass of ScanAndManage, with new[p] the worker object it creates for *)
(* the unprobed port p.  The port list is read before the lock is taken; a *)
(* port that comes or goes in between behaves as if it did so just after   *)
(* the scan, since a worker may hit a serial error at any time.  The       *)
(* select of the scan loop may take a tick after m.stop closes.            *)
(***************************************************************************)
Scan(new) ==
    LET created == Range(new)
        closed == {workers[p] : p \in Gone}
    IN
    /\ workers' = [p \in Ports |->
                    IF p \in Unprobed THEN new[p]
                    ELSE IF p \in Gone \cup Dead THEN None ELSE workers[p]]
    /\ activeICCIDs' = Unregister(Gone \cup Dead)
    /\ probedPorts' = KeptProbed \cup Unprobed
    /\ port' = [w \in Workers |->
                 IF w \in created THEN CHOOSE p \in Unprobed : new[p] = w
                 ELSE port[w]]
    /\ pc' = [w \in Workers |-> IF w \in created THEN "open" ELSE pc[w]]
    /\ stopped' = [w \in Workers |-> stopped[w] \/ w \in closed]
    /\ UNCHANGED <<present, closing, iccid, modem, reprobe, unclaimed>>

\* The pass creates a worker object for every unprobed port.
ScanAndManage == \E new \in Injection(Unprobed, Free) : Scan(new)

\* Mutant of RemoveWorker: the worker is forgotten and not stopped.
RemoveWorkerNoStop(i) ==
    \E p \in Ports :
        /\ workers[p] # None
        /\ modem[workers[p]] = i
        /\ workers' = [workers EXCEPT ![p] = None]
        /\ activeICCIDs' = Unregister({p})
        /\ UNCHANGED <<present, closing, probedPorts, port, pc, iccid, modem,
                       stopped, reprobe, unclaimed>>

\* RemoveWorkerByICCID finds a worker with that ICCID: it stops and forgets
\* it, and leaves its port in probedPorts.
RemoveWorker(i) ==
    \E p \in Ports :
        /\ workers[p] # None
        /\ modem[workers[p]] = i
        /\ stopped' = [stopped EXCEPT ![workers[p]] = TRUE]
        /\ workers' = [workers EXCEPT ![p] = None]
        /\ activeICCIDs' = Unregister({p})
        /\ UNCHANGED <<present, closing, probedPorts, port, pc, iccid, modem,
                       reprobe, unclaimed>>

\* RemoveWorkerByICCID finds none: it drops the claim, if there is one.
RemoveClaim(i) ==
    /\ \A p \in Ports : workers[p] # None => modem[workers[p]] # i
    /\ activeICCIDs' = [activeICCIDs EXCEPT ![i] = None]
    /\ unclaimed' = IF \E w \in Workers : Managed(w) /\ pc[w] = "upsert"
                                          /\ iccid[w] = i
                    THEN unclaimed \cup {i} ELSE unclaimed
    /\ UNCHANGED <<present, closing, workers, probedPorts, workerVars>>

RemoveWorkerByICCID(i) == RemoveWorker(i) \/ RemoveClaim(i)

\* Manager.Stop: it ends the scan loop and stops every worker of the map.
Stop ==
    /\ ~closing
    /\ closing' = TRUE
    /\ stopped' = [w \in Workers |-> stopped[w] \/ Managed(w)]
    /\ UNCHANGED <<present, mgrVars, port, pc, iccid, modem, reprobe, unclaimed>>

-----------------------------------------------------------------------------
(* The worker: runLoop up to the event loop, and initModem.                *)

\* serial.Open fails: the worker asks for a new probe and stops.
OpenFails(w) ==
    /\ pc[w] = "open"
    /\ pc' = [pc EXCEPT ![w] = "done"]
    /\ reprobe' = [reprobe EXCEPT ![w] = TRUE]
    /\ stopped' = [stopped EXCEPT ![w] = TRUE]
    /\ UNCHANGED <<present, closing, mgrVars, port, iccid, modem, unclaimed>>

\* serial.Open succeeds, also for a worker that was stopped meanwhile.
OpenSucceeds(w) ==
    /\ pc[w] = "open"
    /\ port[w] \in present
    /\ pc' = [pc EXCEPT ![w] = "probe"]
    /\ UNCHANGED <<present, closing, mgrVars, port, iccid, modem, stopped,
                   reprobe, unclaimed>>

\* The AT probe fails, at once when the worker was stopped: not a modem, the
\* worker stops and the port stays marked as probed.
ProbeFails(w) ==
    /\ pc[w] = "probe"
    /\ pc' = [pc EXCEPT ![w] = "done"]
    /\ stopped' = [stopped EXCEPT ![w] = TRUE]
    /\ UNCHANGED <<present, closing, mgrVars, port, iccid, modem, reprobe,
                   unclaimed>>

\* ATI fails, or neither the IMEI nor the ICCID can be read: initModem
\* returns and the worker goes on without a modem.
IdentifyFails(w) ==
    /\ pc[w] = "probe"
    /\ pc' = [pc EXCEPT ![w] = "done"]
    /\ UNCHANGED <<present, closing, mgrVars, port, iccid, modem, stopped,
                   reprobe, unclaimed>>

\* A modem without a SIM: scheduleReprobe starts its timer.
NoSIM(w) ==
    /\ pc[w] = "probe"
    /\ pc' = [pc EXCEPT ![w] = "wait"]
    /\ UNCHANGED <<present, closing, mgrVars, port, iccid, modem, stopped,
                   reprobe, unclaimed>>

\* Mutant of ReprobeTimer: the worker stops without asking for a new probe.
ReprobeTimerNoFlag(w) ==
    /\ pc[w] = "wait"
    /\ pc' = [pc EXCEPT ![w] = "done"]
    /\ stopped' = [stopped EXCEPT ![w] = TRUE]
    /\ UNCHANGED <<present, closing, mgrVars, port, iccid, modem, reprobe,
                   unclaimed>>

\* The goroutine of scheduleReprobe: the delay ends, or w.stop does it.
ReprobeTimer(w) ==
    /\ pc[w] = "wait"
    /\ pc' = [pc EXCEPT ![w] = "done"]
    /\ \/ /\ reprobe' = [reprobe EXCEPT ![w] = TRUE]
          /\ stopped' = [stopped EXCEPT ![w] = TRUE]
       \/ stopped[w] /\ UNCHANGED <<stopped, reprobe>>
    /\ UNCHANGED <<present, closing, mgrVars, port, iccid, modem, unclaimed>>

\* The modem answers with an ICCID.  Two ports of one modem, or a SIM moved
\* between modems, answer with the same one.  A stopped worker may get this far
\* too: a select that finds both w.stop and a reply ready may take the reply.
ReadICCID(w) ==
    /\ pc[w] = "probe"
    /\ \E i \in ICCIDs : iccid' = [iccid EXCEPT ![w] = i]
    /\ pc' = [pc EXCEPT ![w] = "register"]
    /\ UNCHANGED <<present, closing, mgrVars, port, modem, stopped, reprobe,
                   unclaimed>>

\* Mutants of RegisterICCID: it overwrites the claim of another port; it
\* grants a free claim without recording it; it records the ICCID as the port.
RegisterICCIDSteals(w) ==
    /\ pc[w] = "register"
    /\ activeICCIDs' = [activeICCIDs EXCEPT ![iccid[w]] = port[w]]
    /\ pc' = [pc EXCEPT ![w] = "upsert"]
    /\ UNCHANGED <<present, closing, workers, probedPorts, port, iccid, modem,
                   stopped, reprobe, unclaimed>>

RegisterICCIDForgets(w) ==
    /\ pc[w] = "register"
    /\ activeICCIDs[iccid[w]] \in {None, port[w]}
    /\ pc' = [pc EXCEPT ![w] = "upsert"]
    /\ UNCHANGED <<present, closing, mgrVars, port, iccid, modem, stopped,
                   reprobe, unclaimed>>

RegisterICCIDSwapsArguments(w) ==
    /\ pc[w] = "register"
    /\ activeICCIDs[iccid[w]] \in {None, port[w]}
    /\ activeICCIDs' = [activeICCIDs EXCEPT ![iccid[w]] = iccid[w]]
    /\ pc' = [pc EXCEPT ![w] = "upsert"]
    /\ UNCHANGED <<present, closing, workers, probedPorts, port, iccid, modem,
                   stopped, reprobe, unclaimed>>

\* RegisterICCID grants the claim: it is free or already this port's.
RegisterICCID(w) ==
    /\ pc[w] = "register"
    /\ activeICCIDs[iccid[w]] \in {None, port[w]}
    /\ activeICCIDs' = [activeICCIDs EXCEPT ![iccid[w]] = port[w]]
    /\ pc' = [pc EXCEPT ![w] = "upsert"]
    /\ UNCHANGED <<present, closing, workers, probedPorts, port, iccid, modem,
                   stopped, reprobe, unclaimed>>

\* RegisterICCID refuses: initModem stops its worker as a duplicate.
RefuseDuplicate(w) ==
    /\ pc[w] = "register"
    /\ activeICCIDs[iccid[w]] \notin {None, port[w]}
    /\ pc' = [pc EXCEPT ![w] = "done"]
    /\ iccid' = [iccid EXCEPT ![w] = None]
    /\ stopped' = [stopped EXCEPT ![w] = TRUE]
    /\ UNCHANGED <<present, closing, mgrVars, port, modem, reprobe, unclaimed>>

\* Upsert succeeds and setModem publishes the modem, stopped or not.
SetModem(w) ==
    /\ pc[w] = "upsert"
    /\ pc' = [pc EXCEPT ![w] = "done"]
    /\ modem' = [modem EXCEPT ![w] = iccid[w]]
    /\ iccid' = [iccid EXCEPT ![w] = None]
    /\ UNCHANGED <<present, closing, mgrVars, port, stopped, reprobe, unclaimed>>

\* Upsert fails: only logged, w.modem stays nil and the claim stays.
UpsertFails(w) ==
    /\ pc[w] = "upsert"
    /\ pc' = [pc EXCEPT ![w] = "done"]
    /\ iccid' = [iccid EXCEPT ![w] = None]
    /\ UNCHANGED <<present, closing, mgrVars, port, modem, stopped, reprobe,
                   unclaimed>>

\* A read or write error on the open port, seen by the event loop or by a
\* running AT command.  The event loop's select may still take a queued
\* command after Stop, so a stopped worker can ask for a new probe too.
SerialError(w) ==
    /\ pc[w] \notin {"free", "open"}
    /\ reprobe' = [reprobe EXCEPT ![w] = TRUE]
    /\ stopped' = [stopped EXCEPT ![w] = TRUE]
    /\ UNCHANGED <<present, closing, mgrVars, port, pc, iccid, modem, unclaimed>>

-----------------------------------------------------------------------------
(* The environment.                                                        *)

\* A port appears in, or disappears from, the operating system's list.
Plug(p) ==
    /\ present' = IF p \in present THEN present \ {p} ELSE present \cup {p}
    /\ UNCHANGED <<closing, mgrVars, workerVars, unclaimed>>

\* The object of a stopped, forgotten worker whose goroutines have ended is
\* garbage: the pool takes it back.
Collect(w) ==
    /\ pc[w] = "done"
    /\ stopped[w]
    /\ ~Managed(w)
    /\ port' = [port EXCEPT ![w] = None]
    /\ pc' = [pc EXCEPT ![w] = "free"]
    /\ modem' = [modem EXCEPT ![w] = None]
    /\ stopped' = [stopped EXCEPT ![w] = FALSE]
    /\ reprobe' = [reprobe EXCEPT ![w] = FALSE]
    /\ UNCHANGED <<present, closing, mgrVars, iccid, unclaimed>>

-----------------------------------------------------------------------------
Manager == ScanAndManage \/ (\E i \in Deletable : RemoveWorkerByICCID(i))
           \/ Stop

InitModem(w) ==
    \/ OpenFails(w) \/ OpenSucceeds(w) \/ ProbeFails(w) \/ IdentifyFails(w)
    \/ NoSIM(w) \/ ReadICCID(w) \/ RegisterICCID(w) \/ RefuseDuplicate(w)
    \/ SetModem(w) \/ UpsertFails(w)

Worker(w) == InitModem(w) \/ ReprobeTimer(w) \/ SerialError(w)

Next ==
    \/ Manager
    \/ \E w \in Workers : Worker(w) \/ Collect(w)
    \/ \E p \in Ports : Plug(p)

Spec == Init /\ [][Next]_vars

\* The ticker keeps scanning; the steps of initModem are bounded by the
\* timeouts of its AT commands; the timer of scheduleReprobe fires; memory is
\* reclaimed.  Nothing forces the environment, a deletion or a serial error.
Fairness ==
    /\ WF_vars(ScanAndManage)
    /\ \A w \in Workers : /\ WF_vars(InitModem(w))
                          /\ WF_vars(ReprobeTimer(w))
                          /\ WF_vars(Collect(w))

FairSpec == Spec /\ Fairness

-----------------------------------------------------------------------------
(* Properties.                                                             *)

\* No serial port is owned by a worker the manager has lost sight of: every
\* worker that was started and not stopped is the one m.workers holds for its
\* port.  ScanAndManage overwrites m.workers[p] without looking at the old
\* entry, so this rests on how probedPorts, cleanup and removal fit together.
LiveWorkerIsManaged ==
    \A w \in Workers : pc[w] # "free" /\ ~stopped[w] => Managed(w)

\* The SIM a managed worker has registered, before and after setModem.
RegisteredSIM(w) == IF pc[w] = "upsert" THEN iccid[w] ELSE modem[w]

\* A managed worker that registered a SIM holds the claim on it, so that
\* RegisterICCID refuses every other port; the exception are the SIMs whose
\* claim RemoveWorkerByICCID dropped under an initialising worker.
RegisteredHoldsClaim ==
    \A w \in Workers :
        Managed(w) /\ RegisteredSIM(w) \notin unclaimed \cup {None}
            => activeICCIDs[RegisteredSIM(w)] = port[w]

\* The bookkeeping these two rest on: a map entry names a started worker of
\* that port, only probed ports have one, and a worker's fields agree with the
\* place its initModem goroutine has reached.
Bookkeeping ==
    /\ \A p \in Ports :
        workers[p] # None => /\ port[workers[p]] = p
                             /\ pc[workers[p]] # "free"
                             /\ p \in probedPorts
    /\ \A w \in Workers :
        /\ pc[w] = "free" <=> port[w] = None
        /\ iccid[w] # None <=> pc[w] \in {"register", "upsert"}
        /\ modem[w] # None => pc[w] = "done"
        /\ pc[w] = "free" => ~stopped[w]

\* The inductive invariant.
IInv == TypeOK /\ Bookkeeping /\ LiveWorkerIsManaged /\ RegisteredHoldsClaim

\* GetWorkerByICCID is unambiguous: no two managed workers have the same SIM,
\* with the same exception.
OneWorkerPerSIM ==
    \A v, w \in Workers :
        /\ Managed(v) /\ Managed(w)
        /\ modem[v] = modem[w]
        /\ modem[v] \notin unclaimed \cup {None}
        => v = w

\* There is a running worker on p.
LiveAt(p) == workers[p] # None /\ ~stopped[workers[p]]

\* A port whose worker stopped after a serial disconnect gets a new worker
\* while it stays plugged in: cleanupStoppedWorkersLocked re-arms it.  It
\* needs that nobody deletes the modem between the disconnect and the scan:
\* RemoveWorkerByICCID forgets the worker and leaves the port marked probed.
DisconnectedPortRearmed ==
    \A p \in Ports :
        (/\ workers[p] # None
         /\ stopped[workers[p]] /\ reprobe[workers[p]])
            ~> (LiveAt(p) \/ p \notin present \/ closing)

\* A modem found without a SIM is probed again from the start while it stays
\* plugged in, so that a SIM inserted later is noticed.
EmptyBayReprobed ==
    \A p \in Ports :
        (workers[p] # None /\ pc[workers[p]] = "wait")
            ~> (\/ workers[p] # None /\ pc[workers[p]] = "open"
                \/ p \notin present \/ closing)
=============================================================================
