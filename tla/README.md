# Formal models of smsie

smsie drives a tray of USB modems: it finds the serial ports, runs a worker per
modem, sends and receives SMS, places calls, keeps a history of which SIM sits
in which slot, and sends paid SMS that keep SIMs alive.  This directory holds
TLA+ models of the parts of it whose correctness depends on interleavings,
failures and long sequences of operations, TLC configurations that check small
instances, and TLAPS proofs for every instance.

    tlc -config MCWorkerManager.cfg MCWorkerManager     # a run
    tlapm WorkerManagerProofs.tla                       # the proofs of a module

`PROJECT.json` lists the runs, the source lines of every definition, the
hazards and the properties that would catch them, and the theorems.

## The system

| Part | State | Operations | What makes it correct |
|---|---|---|---|
| worker manager (`internal/worker/manager.go`) | workers per port, ICCID claims, probed ports, under one lock | scan every 3 s, register, remove, stop | one running worker per port and per SIM; a port that lost its worker gets another |
| modem worker (`worker.go`, `at_transaction.go`) | transaction channel (10), line channel (100), stop channel, re-probe flag | open, initModem, run transactions, read lines, stop | one transaction at a time on the line; callers always return; success is reported only for success |
| polling and SMS (`worker_logic.go`) | searching since, lookup tried; the messages on the SIM, the SMS table | poll: registration, signal, list, save, dispatch and delete SMS | no message is lost or delivered twice, across failures and restarts |
| call control (`worker.go`, `call.go`, `call_listener.go`) | call state and its reason, callOpMu | Dial, Answer, Hangup, Reboot, URCs, listeners | the call state follows the modem; listeners do not block the line |
| balance, plan, phone capture | capture windows | USSD request, capture | a number is captured only when it was asked for |
| slot history (`slotlog`, `bay_repo.go`) | modem_bays, sim_slot_events, the slot cached in modems | Observe, MarkEmpty, AssignSlot, migration | slots unique; cache, bays and history agree |
| keepalive (`internal/keepalive`) | log of runs, lock | daily run, forced run | the monthly cap and the interval hold |
| balance and SIM health alerts (`internal/balance`, `internal/simhealth`) | two alert logs, three locks | daily check, manual check, evaluation | no alert twice within its window, none silenced for good |
| SIP gateway, call sessions (`internal/calling`) | gateways, active leg, sessions, closing of a call | INVITE, BYE, DialSIP, ringing, ends from either side, replacement of gateways | one call per line, every end releases the other side, nobody waits for the serial loop on the serial loop |
| WebRTC, audio bridge, devices (`internal/calling`) | peers, ring buffers | bridging | - |
| HTTP API, MCP, permissions (`internal/api`) | users, rules, API keys | handlers, tools | lists and checks agree; an account is what was last asked for; a waiting client misses nothing |
| backup and restore (`internal/backup`, `admin_backup.go`) | files beside the database | backup, prune, stage, apply | a crash at any point leaves a usable database |
| reports, audit, webhooks, configuration, web console | - | queries, appends, posts, presentation | - |

How they interact: the manager creates workers and hands them out by ICCID; a
worker's initModem goroutine calls back into the manager (claims) and into the
repositories (modems, bays); every AT command of the API, keepalive, balance
and SIP parts is a transaction on the worker's channel; call states go from
the worker's serial loop through listeners to the SIP gateway; DeleteModem
touches the call manager, the worker manager and the database in turn.

What is hard here: initModem runs for many seconds beside scans and deletions
and is not cancelled by Stop; replies of a modem are matched to commands by
their order alone; a goroutine that serves a queue also submits to it; several
writers keep a cache in another table; runs that spend money overlap; the
program may end between any two database transactions.

## Modules

### WorkerManager

Every public operation of the manager is one action, since it runs under
`m.mu`: `ScanAndManage` (the whole pass: gone ports, cleanup of stopped
workers, re-arming, new workers), `RemoveWorkerByICCID` (its two outcomes) and
`Stop`.  `Managed` is the test behind `GetWorkerByICCID`.  A worker's life is
cut at the points where it meets the manager: `OpenFails`/`OpenSucceeds`,
`ProbeFails`, `IdentifyFails`, `NoSIM` and its `ReprobeTimer`, `ReadICCID`,
`RegisterICCID`/`RefuseDuplicate`, `SetModem`/`UpsertFails`, and a
`SerialError` at any time.  A stopped worker's initModem goes on, as in the
code.  `Plug` and `Collect` are the environment: ports come and go, and the
pool of worker objects is refilled with those nothing refers to.

`unclaimed` is a history variable: the SIMs whose claim RemoveWorkerByICCID
dropped under an initialising worker.  The invariants are about the others
(see Weaknesses).

### ATTransaction

One worker's serial line.  Callers go through `Call`, `Submit`, `Return` and
`GiveUp` (both selects of runATTransaction); the loop through `Take`,
`IdleLine`, `LoopExit` and, inside a transaction, `Write`/`WriteFails`,
`Receive`, `Timeout`, `AwaitStopped`; the reader through `Emit` (part of the
modem's actions), `ReadError`, `ReportError`, `ReaderDropsLine` and
`ReaderExit`. A read that times out does not look at w.stop, so that after Stop
the reader ends with the next line or when the loop, on its way out, has closed
the port.  A transaction is a script: `First` and `After` give the commands of
ExecuteAT, SendSMS and poll and what each outcome leads to.
`NestedSubmit`/`NestedReturns` are the phone lookup that poll starts from
within its own transaction.  The modem is external: it answers in order, once,
possibly after the timeout; AT+CMGS opens the prompt, and in the prompt anything
but a PDU or ESC is swallowed. A line carries the command it answers only so
that the model can tell whether a reply holds `+CMGS:`; the loop never looks at
it otherwise.

### SlotHistory

The three tables of the tray.  MigrateFromModems is `Start`, which reads its
list, one `Migrate` per row in the order of the slots, and `Started`; no
transaction holds them together, and `Crash` ends the program between them as at
any other time.  `Upsert` and `Observe` are separate transactions of one
worker, with others between them (`pending`).  Observe has one action per
decision of DecideSlotEvents: `ObserveSame`, `ObserveNew`, `ObserveChanged`
(removed, moved, inserted), and `ObserveFails`.  `InferSlot` is the slot
inference with its votes.  Of the event table the model keeps what is read: the
port of an IMEI's newest event, and, for the properties, where a SIM's newest
event puts it.

`tainted` is a history variable: the SIMs touched by one of four known
weaknesses (listed in the module above the properties).  The invariants are
about the other SIMs.

### Keepalive

Runs overlap: each takes its picture with `Collect` outside the lock, and
`Enter` is runOne from taking the lock to the call of SendSMS, `SendSMS` the
sending, `Add`/`AddFails` the write of the run and the unlock.  Days pass
between any two steps, so that a month may end inside runOne.  `paid` and
`lost` are history variables: what the network charged, and the part of it no
"sent" run was written for.  `NoDoubleSend` is about the number of "sent" runs, so
that a second one on the same day counts as one like any other.

### CallGateway

The calls of one modem line, where four parts meet: the worker's call control,
its serial loop, the SIP gateway of the line and the call session.  A goroutine
is an actor: one per INVITE, per ring of the SIP phone and per DialSIP call,
the console's handler, the handler of a BYE, the sync loop that replaces
gateways, and the serial loop.  `todo[a]` is what actor a has still to do, the
calls on its stack, cut where a mutex is taken or released; `Step` does the
first of them.  A call state listener runs in the goroutine that set the state,
so `SetCallState` puts `SyncModemState` on that actor's list, as main's listener
does: on the serial loop for what the modem says, under callOpMu for Dial,
Answer and Hangup.  `OnInvite`, `ClaimSipCall`, `ClaimLine`, `RespondSDP` are
onInvite between its locks; `Close`, `HandleLegEnded`, `ClearSipCall`, `Closed`
the end of a leg, once (`closing`) whoever asks for it; `EndLegFromModem` and
`EndSessionCallFromModem` the end that the modem reports.  A gateway is replaced
in the order of the code: `SyncSIPInbound` takes it out of the map and closes it,
with the hangup of the modem that this may mean, and only then
`NewSIPInboundGateway` makes another one, or none; as long as `up` is false the
modem's events are dropped, and a DialSIP that looks for the line's configuration
returns with `sipMu` held (`stuck`).  `uac` is the readiness of the audio device:
`Reported` turns every state into idle once `SetUACReady`, a part of the reboot,
has taken it away.  The modem
(`RemoteRings`, `RemoteAnswers`, `RemoteEnds`, `Effect`) is external.

`races` is a history variable: the five races after which the code keeps less
than the invariants say ("early", "gap", "busy", "late", "timeout", described
above the properties).  Each invariant names the races that break it, and no
others; without them it holds.

### Inbox

What checkSMS, processPDU and the capture functions do to the messages of one
SIM.  `Poll` lists, or `PollLooksUp` finds a number missing and never comes
back, since the loop waits for a transaction of its own (`at = "hung"`);
`SavePDU` stores once and reads the text in the order of the code
(`CapturePhoneNumber`, `CaptureBalance`, `AddSnapshot`, `CapturePlanInfo`,
`Dispatch`), `Delete` succeeds or fails, `RetainPDU` is the early `continue`.
`HandleCUSD` reads a USSD answer the same way; `RequestPhoneNumber`,
`LookupRuns` and `LookupSent` open the capture window, run the request on a loop
that is free, and close the window if it failed.  `Crash` ends the process
between any two steps; SIM and tables stay.

### Alerts

One SIM, the daily goroutine and administrators' checks: `Request` to `Asked` is
the balance request under runMu, `Evaluate` and `EvaluateHealth` the collection
under evalMu and simhealth's mutex, then per finding `Check`, `AddAlert` or
`AddFails`, and `DispatchText`.  Time is in ticks and moments are ages, counted
up to where they make no difference.  The forecast's regression is an arbitrary
level (`Read`).

### Access

One account: its users row, its rule rows, its API key, and a client that
follows new messages through wait_sms.  A handler is cut at every database
statement, since none but DeleteModem opens a transaction:
`UpdateUserPermissions`, `UpdateSave`, `ReplaceClear`, `ReplaceInsert`,
`ReplaceCollides` (the unique index), `ReplaceFails`; `ChangePassword`,
`ChangePasswordSave`; `ToolWaitSMS`, `WaitStart`, `WaitFinds`, `WaitTimesOut`,
`WaitRefused`, `WaitFails`.  Requests take no lock, so `Handlers` of them are
served at the same time, each with its own place (`update`).  The client learns
a position from an `Answer` only: a call that ends in an error tells it none.
The two computations of who sees what, `AllowedICCIDsForPermission` with its
callers and `ActorCanAccessICCIDPermission`, are translated separately.
`ordered`, `latest`, `lost` and `torn` are history variables: what was last
asked for and by whom, that a handler saved a row over what had changed since it
read it, and that the rules of the last order were interfered with.

### Backup and AtomicRestore

Names and inodes are told apart: a name may be removed or given to another file
while a call still writes.  `Run` has the steps of a backup, `Restore` those of
the upload handler (two that write one upload name may leave a mixture, `mixed`,
and each removes that name at its end, whoever made the file), `StartStep` those
of ApplyPending and the opening of the database; `Begin`/`Commit` are
transactions of the program, which leave a hot journal when `Crash` comes
between them.  `AtomicRestore` is what a restore promises: the database always
has a whole content, and it is replaced in one step after it was saved.  Backup
implements it under the mapping data <- what opening the file with its journal
yields, saved <- the whole pre-restore files, forfeit <- a content that could
only be copied raw was given up. `List` is all that the administrator is shown,
backups and pre-restore copies; `botched` names the seconds of those pre-restore
copies that were cut short.


## Runs

| Run | Instance | Shows |
|---|---|---|
| `manager` (MCWorkerManager.cfg) | 2 ports, 1 SIM, 3 worker objects | no running worker is lost, claims protect registered SIMs, one worker per SIM |
| `manager_live` (MCWorkerManagerLive.cfg) | smaller, fair, no deletions | disconnected ports and empty modems are probed again |
| `at_safety` (MCATTransaction.cfg) | 2 senders, 2 PDUs each | "sent" means accepted; without timeouts no prompt is disturbed |
| `at_live` (MCATLive.cfg) | sender and poll with the lookup, fair | every caller returns unless the loop waits for itself; Stop ends loop, callers and reader |
| `slots` (MCSlotHistory.cfg) | 2 modems, 2 SIMs, 2 slots | cache, bays and history agree, no two SIMs or bays have one slot, wherever a migration is interrupted |
| `slot_inference` (MCSlotInference.cfg) | 3 modems on COM 1..3, 3 slots | inferred slots stay in range and no slot is given twice |
| `keepalive` (MCKeepalive.cfg) | 2 daily runs, 1 forced, 5 days in 2 months, cap 2 | the cap holds, only lost SMS exceed it, no second run within the interval or the day |
| `calls` (MCCallGateway.cfg) | 2 INVITEs, 1 ring, 1 DialSIP, 2 sessions, 2 gateways one after the other, two of them all started | the loop does not wait for itself, closed legs free the line, modem, worker and leg agree when quiet, outside the named races |
| `backup` (MCBackup.cfg) | 2 backups, 2 restores, 1 upload, 2 seconds, 1 commit, crashes at will | listed copies are whole but for the named exceptions, reported ones are kept, a restore is atomic |
| `inbox` (MCInbox.cfg) | 2 places, 3 kinds of messages, 2 of which arrive, 1 lookup beside the poll's, 2 restarts, fair | nothing lost, nothing twice, everything decodable received unless the loop hangs in a lookup, numbers captured on request |
| `alerts` (MCAlerts.cfg) | daily and 1 manual check, 1 health finding, fair | alerts apart, reminders for ever |
| `access` (MCAccess.cfg) | 2 SIMs, 2 permissions, 3 orders, 2 handlers at a time, 2 messages, 2 operations beside the creation, fair | lists match checks, a settled account is as ordered, a client with a position misses nothing and gets everything |

The type invariants of ATTransaction, CallGateway, Inbox, Alerts, Access and
Backup state the shape of the state for a reader; no run lists them (add
`INVARIANT TypeOK` to a cfg to check one after a change).

Every property has a mutant in `PROJECT.json`: a change of one definition, as a
plausible mistake in the code would make it, that the run refutes.

Bounds.  Two ports and three worker objects give a port a new worker while the
old one's initModem still runs, and a second port a claim on the same SIM. Two
senders and a queue of one let a transaction wait behind another; two PDUs let a
segment fail after one was accepted; one or two places on rxChan make it full.
Two modems and two SIMs give every swap, and three modems on numbered ports
the two votes and the conflict that inference needs.  Three overlapping runs
over a month's end are more than the scheduler and one administrator produce.
Two of the calls, console requests and gateway replacements are started
(`MaxStarted`), at the same time or one after the other, and to them come the
other end's answer, end and ring at any moment: every race of the module happens
within two.  Two backups share a second or do not, and two restores share the
upload name.  A SIM of two places keeps an undecodable message beside another
one.  A day of one tick lets a day pass between any two steps of a check.  Two
operations beside the creation of the account, which is a replacement too, are
two replacements at a time with a third one before or beside them, or one with
another change inside it; two messages and answers of one record let an answer
be cut.  Two restarts let a loop that hung in the lookup hang again.
`MaxURC`, `MaxPending`, `MaxLost`, `MaxDay`, `MaxLines`, `MaxArrivals`,
`MaxCrashes`, `MaxOps`, `MaxSMS`, `MaxVersion`, `MaxSecond` and the pools bound
what the code leaves unbounded.

Deadlock is checked except for ATTransaction, CallGateway and Access, whose
callers, calls and operations are used up and then rest.

Fairness.  WorkerManager: the scan loop's ticker, the steps of initModem (each
command has a timeout), the re-probe timer and garbage collection.
ATTransaction: runnable goroutines run, and a command's timer fires; the modem
owes no answer, and the reader ends by the loop's deferred closing of the port,
not by a look at w.stop.  Inbox: the serial loop goes on unless it hangs in the
lookup, the poll's ticker comes back, calls end, and the database does not fail
a message every time.  Alerts: time passes and goroutines go on; a Go mutex is
not withheld for ever from a waiter (starvation mode); the database does not
fail every time.  Access: a call under way is carried out, and the client calls
again; strong fairness of its call, since the account may be refused in between.
Nothing is assumed of unplugging, errors, deletions, crashes or new calls.

`DisconnectedPortRearmed` is checked without deletions because
RemoveWorkerByICCID, called between a disconnect and the next scan, forgets the
worker together with its re-probe flag and leaves the port marked as probed;
it is opened again only after it was unplugged for a scan.

## Proofs

`WorkerManagerProofs`, `ATTransactionProofs`, `SlotHistoryProofs`,
`KeepaliveProofs`, `InboxProofs`, `AccessProofs`, `BackupProofs` and
`CallGatewayProofs` prove properties of the runs for every value of the
constants, from the named assumptions of the modules alone (`None` is none of
the other values, bounds are naturals, the kinds of callers of ATTransaction,
the goroutines of CallGateway and the values of Access are told apart by name).
Each has the same outline: a lemma for Init, one per action or group of actions,
one for Next, one for Spec, and the theorems.  The inductive invariants were
model-checked before they were proved.

- WorkerManager: `IInv` adds `Bookkeeping` to the two invariants: map entries
  name started workers of their own, probed port, and a worker's fields agree
  with the place of its initModem.  Without "only probed ports have an entry" a
  scan could overwrite a running worker; without the link between `iccid`,
  `modem` and `pc` a claim could belong to nobody.  `OneWorkerPerSIM` follows:
  two managed workers of one SIM would both be the port of its claim.
- ATTransaction: nothing ties a reply to its command, so "sent means accepted"
  rests on the order of things on the line.  `LineInv` states it: a prompt on
  rxChan that nobody has read is still open, nothing on the way will close it
  and nothing was answered since (`PromptOpen`); an AT+CMGS followed by a PDU or
  an ESC on the way to the modem is going to be swallowed (`OpensCovered`,
  `PDUNext`); the loop that is about to write a PDU finds the prompt open and no
  answer to an earlier PDU (`WriteReady`); the "+CMGS:" it waits for is that of
  its own PDU (`OwnAnswer`), of which one at most is under way (`OnePDU`).
  `Ledger` counts the PDUs of each caller: none before its transaction is taken
  up, then one per finished segment, all of them once it is reported.  The
  modem's part needs the ledger (the count at the write) and the ledger the
  modem's part (the answer), so that one induction (`SentInv`) proves both.
  Without timeouts the line is stricter: `Tidy` says that one command or its
  answer is under way, and the prompt belongs to the transaction that runs.
- SlotHistory: `IInv` adds `Shape` (absent rows are empty, a SIM in a bay has a
  row), where the migration stands (`MigrationFirst`) and, instead of the agreement
  of cache and bays, `Unmigrated`: a database from before the bays has slots and no
  bays, and as long as its first migration is not through, interrupted however
  often, its bays are those of some of the rows with a slot.
  `SlotsUnique` and `CacheUnique` are parts of it.
- Keepalive: `IInv` adds `UnderLock` (only the holder of the lock is inside
  runOne, and its month is still below the cap, its SIM still due, at the write
  as at the test) and `PaidIsAccounted` (paid = logged + lost + about to be
  logged).  The cap follows from the first, the bound on what is paid from both;
  the action property `NoDoubleSend`, about every step by which the number of
  sent runs grows, from the first.
- Backup: `IInv` adds what each step of ApplyPending has established:
  `StageChecked` (from the check to the rename the staging file is there and
  whole), `VacuumPrepared`, `OldContentSaved` (before the unlink the current
  content is in a pre-restore file, or was forfeited, and before the rename the
  journal is gone), `PreWritten` (a pre-restore file that is not whole is being
  written, or was cut short), `NothingNewer` (no file holds a version not yet
  committed, so that a commit is a content nobody has seen) and `Openable`.  The
  refinement (`InitRefines`, `NextRefines`) then maps a commit to Commit, the
  end of the pre-restore copy to Save, the rename to Restore, and every other
  step to a stutter.
  `CopyInv` is about the copies: a run's time stamp was made
  (`StampsMade`), a file holds the name of the run that wrote it (`NamesOfRuns`,
  `CopiesWritten`), only what Integrity passed is about to be renamed
  (`RenameReady`), and a reported copy is there or outnumbered by newer ones
  (`CopiesKept`).  The last needs a fact about finite sets, `PruneKeeps`: after
  the oldest are deleted the Keep newest are left, because what prune selects
  has that many above it.
- Inbox: `IInv` adds where checkSMS stands (`Position`), that what is being
  deleted was saved (`HandledIsSaved`), that a message with a new row was not
  dispatched before (`FreshNotDispatched`), and that a lookup's window is used
  once (`WindowUnused`).  With them a failure or a restart anywhere leaves a
  message on the SIM or in the table, and a second delivery is impossible.
- Access: `IInv` adds the form of the records (`Shape`, `Hashes`), what was
  asked for at each step of the handler of the last order (`Obeyed`: the rules
  inserted so far are those ordered without the ones to do, as long as no older
  request interfered) and the place of the client in the table (`Following`: it
  has a position exactly if an answer gave it one, and a call under way goes on
  from it).  `ListMatchesCheck` needs no more than the types: lists
  and checks are two readings of one rule set, compared case by case.
- CallGateway: `IInv` says what may be on the stack of which goroutine
  (`StepsOf`) and in which order.  A claim of the line is the first thing its
  goroutine does and is made once (`ClaimsFirst`), and nobody else knows of a
  leg before it (`Fresh`), so that closeOnce of a leg is taken after the leg has
  its line, or early, and onEnded frees the line before "closed" (`CloseOnce`).
  `ActiveLegIsOpen` is inductive with these.  For `LoopNeverWaits` the steps
  that lead to Dial, Answer or Hangup are told from those that do not
  (`Silent`): the loop has none of the first (`LoopSilent`), nor has the holder
  of callOpMu before its unlock (`LockedSilent`), and the close of a leg marked
  endedByModem goes through clearSip to closed without a hangup
  (`EndsSilently`).  Marking a leg that is being closed already would break the
  last; `CloseOnce` excludes it, because the active leg is not past onEnded.
  Every step replaces the head of one stack (`Moved`); `ClaimsKept`,
  `CloseMoves` and `SilentMoves` say once what such a step keeps, and each
  action is an instance of them.  The one that starts a second goroutine is
  `RingStarts`.
  The properties of a quiet line need two more layers, each
  inductive with the ones below it. `WInv` ties the worker's state to the modem.
  The end of a call is in the worker's state, in a NO CARRIER not yet read, or
  in a "set" of an idle state that somebody has still to do (`EndComes`); a call
  in progress is in the state, or in a "set" of the goroutine that holds
  callOpMu (`CallComes`). Neither is inductive by itself: an idle state set late
  would hide a new call. So states are set by the loop, the holder of callOpMu
  or a reboot only (`Origins`), nobody is about to declare an end while there is
  a call (`Endings`), and a stack has its commands, locks and changes of state
  in a fixed order (`Places`, `Locks`), which is what makes an end and a new
  call exclude each other.  `StateFollowsModem` is `EndComes` and `CallComes`
  with empty stacks.
  `GInv` ties the legs to the modem's call.  While the
  worker's state is idle, the active leg is being set up or somebody has still
  to close it (`LegGoesOn`), if there is a gateway; an active ring with its
  INVITE out, cancelled or not, waits for the phone or is being closed
  (`RingWaits`, `RingEnds`).  The leg that has the modem's call and is closed
  has still its hangup before it (`ReleaseComes`), because it is not one the
  modem ended (`OwnerKnown`); a leg that the modem ended and that still prepares
  a call hears of its end first (`ModemEndsFirst`), and a leg that prepares one
  is open (`PreparesOpen`).  `LegHasCall` follows from `EndComes` and
  `LegGoesOn`, `ModemReleased` from `ReleaseComes`.
  Here too a step replaces the
  head of one stack: `Keeps` says that nothing else of it is lost, so that a
  promise of the form "somebody has still to do t" is broken only by the step
  that does t, and each action's lemma shows what that step puts in its place.
  The proof attempt found one mistake of the model: a Dial refused for a call
  in progress went on to answer its INVITE, where onInvite returns
  (sip_client.go:951).  The audio device is gone only through a reboot, which ends
  the modem's call too (`Unready`), so that a state reported as idle for want of the
  device is no end of a call that goes on.

Only model-checked, for good: the liveness properties
(`DisconnectedPortRearmed`, `EmptyBayReprobed`, `CallersReturnOrLookup`,
`StopEndsLoop`, `StopEndsReader`, `EventuallyReceived`, `Reminded`,
`FeedDelivers`), since the prover has no rule for ENABLED and fairness; and
`Alerts.AlertsApart`, an action property of two mutexes that one evaluator each
can hold, which the run covers with both kinds of evaluators overlapping.  Every
other property of a run is a theorem.

## Weaknesses met while modelling

Places where the code keeps less than one of its comments or documents says, or
less than a reader would expect.  The properties except exactly these.

Workers and the serial line:
- unregisterWorkerLocked (manager.go:143) releases a claim only through
  `w.modem`: a worker that ends between RegisterICCID and setModem leaves its
  claim, and its SIM is refused on other ports.
- RemoveWorkerByICCID (manager.go:161) during initialisation drops the claim of
  a live worker, and a second port may register the SIM (`unclaimed`).
- lookupPhoneIfMissing (worker_logic.go:114) submits a transaction to the loop
  it runs on and waits without a timeout; worker.go:208 says that a caller must
  never block serial I/O.  Stop ends it (`StopEndsLoop`).
- SendSMS does not send ESC when AT+CMGS times out (worker.go:1217); a prompt
  that opens late takes the next transaction's commands, which
  at_transaction.go:12-13 excludes.
- The reader's report of a read error (worker.go:258) does not look at w.stop: on a
  full rxChan it blocks for good once the loop is gone (`StopEndsReader`).

Tray and keepalive:
- For a known bay without slot the inferred slot goes to the cache and the
  event, not to modem_bays (bay_repo.go:70), although
  docs/specs/sim-slot-history.md:42 calls modems.slot_number a cache of it.
- infer.go:10-11 says that a slot somebody holds is not inferred; bays without
  an event are not seen by knownSlotPorts, and the UNIQUE index makes Observe
  fail (`ObserveFails`).
- README.md:11 says that a SIM that is not opted in sends nothing; runAll uses
  the switch as Collect read it.  It caps what is paid; the code caps what is
  logged (`OverspendingWasLost`).  It says that the target is of the same
  operator; pickTarget falls back to the whole tray (pick.go:31).

Calls (the races of CallGateway):
- "busy": an INVITE or a ring that is refused the line, or gets no RTP port,
  closes its own half-made call, and the end hook hangs up the modem under the
  call that has the line.
- "gap": a call is in its session before it is the gateway's active leg.  A ring
  during a DialSIP call, or an end in the gap, is handled through the session,
  and its close on the serial loop may wait for that same loop.
- "early": a leg closed before its handler dials or answers leaves the modem's
  call without a leg; a ring answered after it was cancelled answers the next
  call.
- "late": Dial and Answer set their state after the reply, over a NO CARRIER
  handled meanwhile.
- "timeout": Dial times out after the modem carried it out; the state is idle
  and Hangup sends no ATH then.
- A rejected console Dial closes the session of the line; DialSIP returns with
  `sipMu` locked when the line has no gateway (sip_client.go:424-427), because it
  has no SIP configuration or because SyncSIPInbound has taken the old gateway out
  and not yet made the new one.  Whoever locks it next waits for good, the serial
  loop included.
- While a gateway is being replaced the modem's events are dropped
  (sip_client.go:378-381); a call that rings or ends then is not heard of.

Messages and alerts:
- The poll looks up a missing number before it reads the messages
  (worker_logic.go:53, 114-118), in a transaction submitted to the loop it runs on:
  the loop hangs there, again after every start while the number is missing and the
  operator has a code for it, and no message is read (`EventuallyReceived`).
- A lookup whose request fails closes the window of another; two messages with
  identical PDUs are taken for one; undecodable messages stay and fill the SIM;
  a crash between saving and dispatching loses the webhook and the captures;
  DeleteModem removes the rows by which a message not yet deleted is recognised.
- An alert's row is written before the webhook is called, and a crash in between
  loses that alert.  AlertedWithin of the balance ignores the kind, so a
  forecast silences "low" for 24 hours, and the 24 hours may make the daily
  check skip a day.

Backup:
- backup.go:91 says that two runs in one second end in an error and do not
  overwrite; os.Rename overwrites, and they share the temporary file too.
- List shows pre-restore copies beside the backups (backup.go:117-133, NameRe in
  28), and snapshot writes such a copy under its final name: an end of the
  program or a failing copy there leaves half a database for download and
  restore (`botched`).
- Two restores share the upload name: their writes may mix, and each removes the
  name at its end.  Integrity refuses the mixture it sees, not one made after it
  (admin_backup.go:120-174); ApplyPending looks again.

Accounts:
- A replacement of rules is a deletion and insertions without a transaction; an
  account without rules has every permission on its modems, and so it has in
  between.
- Replacements take no lock (user_handler.go:131-171, 201-237): two that overlap may
  leave rules of both, or one ends in a 500 at the unique index with part of its
  rules inserted (`torn`).
- Saving a row that was read earlier undoes changes made meanwhile, a deletion
  of the account included (`lost`).
- A rule for "*" lists every modem and lets through an operation on none.
- An unfiltered wait_sms moves its position past messages that were not visible
  at that moment; a wait keeps the account and flags of its authentication.
- A wait_sms call without after_id that ends in an error tells the client no
  position (mcp_server.go:523-531, 563-565): the next one starts after the
  newest message, and what came between is not returned.

## Not modelled

Device lookup and codecs (input, output and arithmetic), the audio bridge and
WebRTC (media; one mutex guards a buffer that drops its oldest samples by
design), SIP registration, authentication and RTP, login and session tokens,
configuration, operator names, reports, the audit log, the delivery of webhooks
(posted once, no retry) and the web console.  Inside the modelled parts: wording
of log lines and replies, signal strength, the choice of the keepalive target,
the forecast's regression, the parsing of operators' texts.

## Plan

What a continuation would take up:

1. Proof of `Alerts.AlertsApart` from "who holds the mutex of a group has
   checked it, and nobody else adds to it".
2. A model of SIP registration and of the outbound authentication.
