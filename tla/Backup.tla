------------------------------- MODULE Backup -------------------------------
(***************************************************************************)
(* Backup and restore (internal/backup, the admin handlers of              *)
(* internal/api/admin_backup.go and the start of main): copies of the      *)
(* SQLite database are made while the program runs, an uploaded file or a  *)
(* copy is staged beside the database, and the next start puts it in the   *)
(* place of the database.  Nothing is locked: runs and restores overlap,   *)
(* and the program may end between any two file operations.                *)
(*                                                                         *)
(* A file is a name for an inode; a run and a restore create one inode     *)
(* each, which they may go on writing after its name has gone.             *)
(***************************************************************************)
EXTENDS Naturals, FiniteSets

CONSTANTS
    Runs,        \* the calls of Run, by the scheduler or by RunNow
    Restores,    \* the calls of the Restore handler
    Keep,        \* cfg.Keep
    Uploads,     \* intact databases from elsewhere
    MaxVersion,  \* bound on the commits
    MaxSecond,   \* bound on the clock
    None, Torn   \* no file; a file that is no whole database

Versions == 0..MaxVersion
Contents == Versions \cup Uploads
Seconds == 0..MaxSecond
Calls == Runs \cup Restores

ASSUME BackupAssumption ==
    /\ Keep \in Nat /\ MaxVersion \in Nat /\ MaxSecond \in Nat
    /\ Uploads \cap Nat = {}
    /\ None \notin Nat \cup Uploads \cup Calls \cup {Torn}
    /\ Torn \notin Nat \cup Uploads
    /\ Runs \cap Restores = {}

VARIABLES
    boot,     \* the start of the program: "off", a step of ApplyPending, "on"
    main,     \* the database file <dsn> ...
    journal,  \* ... and the content its hot journal restores, or None
    last,     \* the newest version committed
    sec,      \* the clock, in the seconds of the names' stamps
    bootSec,  \* the second in which ApplyPending made its name
    pre,      \* pre-restore-<second>.db
    copies,   \* smsie-<second>.db, the inode of a run
    tmp,      \* smsie-<second>.db.tmp, the inode of a run
    upload,   \* <dsn>.restore-pending.upload, the inode of a restore
    stage,    \* <dsn>.restore-pending, the inode of a restore
    inode,    \* what a call's inode holds
    pc,       \* where a call is
    stampOf,  \* the second in the name of a run
    fd,       \* the inode a restore writes to
    source,   \* what a restore writes
    mixed,    \* the inodes that two restores write at the same time
    raw,      \* history: a saved or a current content was given up
    botched   \* history: the seconds of the pre-restore copies cut short

dbVars == <<main, journal, last>>
copyVars == <<copies, tmp, stampOf>>
stageVars == <<upload, stage, fd, source, mixed>>
pastVars == <<raw, botched>>
vars == <<boot, dbVars, sec, bootSec, pre, copyVars, stageVars, inode, pc, pastVars>>

Init ==
    /\ boot = "on" /\ main = 0 /\ journal = None /\ last = 0
    /\ sec = 0 /\ bootSec = 0
    /\ pre = [s \in Seconds |-> None]
    /\ copies = [s \in Seconds |-> None]
    /\ tmp = [s \in Seconds |-> None]
    /\ upload = None /\ stage = None
    /\ inode = [c \in Calls |-> Torn]
    /\ pc = [c \in Calls |-> "new"]
    /\ stampOf = [r \in Runs |-> None]
    /\ fd = [h \in Restores |-> None]
    /\ source = [h \in Restores |-> Torn]
    /\ mixed = {}
    /\ raw = FALSE /\ botched = {}

\* Type invariant: what backup.go and admin_backup.go leave in the files, and where
\* a run, a restore and the start-up stand.
TypeOK ==
    /\ boot \in {"off", "check", "snapshot", "vacuum", "raw", "copying",
                 "unlink", "rename", "open", "on"}
    /\ main \in Contents \cup {Torn}
    /\ journal \in Contents \cup {None}
    /\ last \in Versions /\ sec \in Seconds /\ bootSec \in Seconds
    /\ pre \in [Seconds -> Contents \cup {Torn, None}]
    /\ copies \in [Seconds -> Runs \cup {None}]
    /\ tmp \in [Seconds -> Runs \cup {None}]
    /\ upload \in Restores \cup {None} /\ stage \in Restores \cup {None}
    /\ inode \in [Calls -> Contents \cup {Torn}]
    /\ pc \in [Calls -> {"new", "vacuum", "vacuuming", "create", "copying",
                         "integrity", "rename", "prune", "remove", "ok",
                         "ended"}]
    /\ stampOf \in [Runs -> Seconds \cup {None}]
    /\ fd \in [Restores -> Restores \cup {None}]
    /\ source \in [Restores -> Contents \cup {Torn}]
    /\ mixed \subseteq Restores
    /\ raw \in BOOLEAN /\ botched \subseteq Seconds

\* What opening the database yields: a hot journal is rolled back into the
\* file it belongs to, and ruins any other.
Logical(file, log) ==
    IF log = None THEN file ELSE IF file = Torn THEN log ELSE Torn

-----------------------------------------------------------------------------
(* The program at work, and its end at any point.                          *)

\* A transaction writes to the database with its journal beside it ...
Begin ==
    /\ boot = "on" /\ journal = None /\ main # Torn /\ last < MaxVersion
    /\ journal' = main
    /\ main' = Torn
    /\ UNCHANGED <<boot, last, sec, bootSec, pre, copyVars, stageVars, inode, pc, pastVars>>

\* ... and commits by deleting it.
Commit ==
    /\ boot = "on" /\ journal # None /\ main = Torn /\ last < MaxVersion
    /\ main' = last + 1
    /\ last' = last + 1
    /\ journal' = None
    /\ UNCHANGED <<boot, sec, bootSec, pre, copyVars, stageVars, inode, pc, pastVars>>

\* A crash, a stop of the service, or os.Exit(3) two seconds after a restore
\* was staged: calls end where they are, and so does the start, which leaves
\* the pre-restore copy it was writing.
Crash ==
    /\ boot # "off"
    /\ boot' = "off"
    /\ botched' = IF boot \in {"vacuum", "copying"} THEN botched \cup {bootSec}
                                                   ELSE botched
    /\ bootSec' = 0
    /\ mixed' = {}
    /\ pc' = [c \in Calls |->
                IF pc[c] \in {"new", "ok"} THEN pc[c] ELSE "ended"]
    /\ fd' = [h \in Restores |-> None]
    /\ source' = [h \in Restores |-> Torn]
    /\ UNCHANGED <<dbVars, sec, pre, copyVars, upload, stage, inode, raw>>

Tick ==
    /\ sec < MaxSecond
    /\ sec' = sec + 1
    /\ UNCHANGED <<boot, dbVars, bootSec, pre, copyVars, stageVars, inode, pc, pastVars>>

-----------------------------------------------------------------------------
(* Run: one copy of the database.                                          *)

Working(c, step) == boot = "on" /\ pc[c] = step
Goto(c, step) == pc' = [pc EXCEPT ![c] = step]
RunFrame == UNCHANGED <<boot, dbVars, sec, bootSec, pre, stageVars, pastVars>>
StartFrame == UNCHANGED <<last, sec, copyVars, upload, fd, source, mixed, inode, pc>>

\* The name is made of the present second; a temporary file of that name goes.
RunBegin(r) ==
    /\ Working(r, "new")
    /\ stampOf' = [stampOf EXCEPT ![r] = sec]
    /\ tmp' = [tmp EXCEPT ![sec] = None]
    /\ Goto(r, "vacuum")
    /\ RunFrame /\ UNCHANGED <<copies, inode>>

\* VACUUM INTO refuses a file that exists ...
VacuumRefused(r) ==
    /\ Working(r, "vacuum")
    /\ tmp[stampOf[r]] # None
    /\ Goto(r, "ended")
    /\ RunFrame /\ UNCHANGED <<copyVars, inode>>

\* ... creates it otherwise ...
VacuumStart(r) ==
    /\ Working(r, "vacuum")
    /\ tmp[stampOf[r]] = None
    /\ tmp' = [tmp EXCEPT ![stampOf[r]] = r]
    /\ Goto(r, "vacuuming")
    /\ RunFrame /\ UNCHANGED <<copies, stampOf, inode>>

\* ... and fails, leaving it as it is, or ends, having written the committed
\* content or, on a bad disk, something else.
VacuumEnd(r) ==
    /\ Working(r, "vacuuming")
    /\ \/ Goto(r, "ended") /\ UNCHANGED inode
       \/ /\ inode' \in {[inode EXCEPT ![r] = c] : c \in {Logical(main, journal), Torn}}
          /\ Goto(r, "integrity")
    /\ RunFrame /\ UNCHANGED copyVars

\* Mutant of Whole: any file passes.
WholeUnchecked(file) == file # None

\* Integrity of what a name stands for.
Whole(file) == file # None /\ inode[file] # Torn

\* The check is made of the name, whoever's file has it by now.
RunIntegrity(r) ==
    /\ Working(r, "integrity")
    /\ IF Whole(tmp[stampOf[r]])
       THEN Goto(r, "rename") /\ UNCHANGED tmp
       ELSE Goto(r, "ended") /\ tmp' = [tmp EXCEPT ![stampOf[r]] = None]
    /\ RunFrame /\ UNCHANGED <<copies, stampOf, inode>>

\* os.Rename moves what the name stands for over what was there.
RunRename(r) ==
    LET s == stampOf[r]
    IN  /\ Working(r, "rename")
        /\ IF tmp[s] = None
           THEN Goto(r, "ended") /\ UNCHANGED <<copies, tmp>>
           ELSE /\ copies' = [copies EXCEPT ![s] = tmp[s]]
                /\ tmp' = [tmp EXCEPT ![s] = None]
                /\ Goto(r, "prune")
        /\ RunFrame /\ UNCHANGED <<stampOf, inode>>

\* The names List shows: copies of Run and pre-restore copies, by second.
List == {[kind |-> "smsie", at |-> s] : s \in {t \in Seconds : copies[t] # None}}
          \cup {[kind |-> "pre-restore", at |-> s] : s \in {t \in Seconds : pre[t] # None}}

\* What a listed file holds.
Holds(f) == IF f.kind = "smsie" THEN inode[copies[f.at]] ELSE pre[f.at]

\* The listed names that match pruneRe.
Copied == {s \in Seconds : copies[s] # None}

\* Mutant of Pruned: the newest copies go.
PrunedNewest == {s \in Copied : Cardinality({t \in Copied : t < s}) >= Keep}

\* The copies beyond the Keep newest names; pre-restore copies are never pruned.
Pruned == {s \in Copied : Cardinality({t \in Copied : t > s}) >= Keep}

RunPrune(r) ==
    /\ Working(r, "prune")
    /\ copies' = [s \in Seconds |->
                    IF Keep > 0 /\ s \in Pruned THEN None ELSE copies[s]]
    /\ Goto(r, "ok")
    /\ RunFrame /\ UNCHANGED <<tmp, stampOf, inode>>

Run(r) ==
    \/ RunBegin(r) \/ VacuumRefused(r) \/ VacuumStart(r) \/ VacuumEnd(r)
    \/ RunIntegrity(r) \/ RunRename(r) \/ RunPrune(r)

-----------------------------------------------------------------------------
(* Restore: an upload, or a copy named by the administrator, is staged.    *)

RestoreFrame == UNCHANGED <<boot, dbVars, sec, bootSec, pre, copyVars, pastVars>>

\* What a restore may be given: a file of the administrator, intact or not, or
\* one of the listed copies.
Sources == Uploads \cup {Torn} \cup {Holds(f) : f \in List}

\* The first os.Remove(tmp); without a file or with a name that does not exist
\* only the deferred one is left to do.
RestoreBegin(h) ==
    /\ Working(h, "new")
    /\ upload' = None
    /\ \/ Goto(h, "create")
       \/ Goto(h, "remove")
    /\ RestoreFrame /\ UNCHANGED <<stage, fd, source, mixed, inode>>

\* os.Create truncates the file of another restore, which may still be writing
\* it, or makes a new one.
RestoreCreate(h) ==
    /\ Working(h, "create")
    /\ \E f \in Restores :
         /\ f = (IF upload = None THEN h ELSE upload)
         /\ upload' = f
         /\ fd' = [fd EXCEPT ![h] = f]
         /\ inode' = [inode EXCEPT ![f] = Torn]
         /\ mixed' = IF \E g \in Restores : fd[g] = f THEN mixed \cup {f}
                                                     ELSE mixed \ {f}
    /\ \E c \in Sources : source' = [source EXCEPT ![h] = c]
    /\ Goto(h, "copying")
    /\ RestoreFrame /\ UNCHANGED stage

\* ... or fails.
RestoreCreateFails(h) ==
    /\ Working(h, "create")
    /\ Goto(h, "remove")
    /\ RestoreFrame /\ UNCHANGED <<stageVars, inode>>

\* io.Copy writes on in a file that the other writer has finished.
RestoreWrites(h) ==
    /\ Working(h, "copying")
    /\ inode[fd[h]] # Torn
    /\ inode' = [inode EXCEPT ![fd[h]] = Torn]
    /\ RestoreFrame /\ UNCHANGED <<stageVars, pc>>

\* io.Copy ends; an inode that two wrote at the same time may hold parts of
\* both, whoever ends last.
RestoreCopied(h) ==
    /\ Working(h, "copying")
    /\ \/ /\ \E c \in {source[h]} \cup (IF fd[h] \in mixed THEN {Torn} ELSE {}) :
               inode' = [inode EXCEPT ![fd[h]] = c]
          /\ Goto(h, "integrity")
       \/ Goto(h, "remove") /\ UNCHANGED inode  \* the copy failed
    /\ fd' = [fd EXCEPT ![h] = None]
    /\ source' = [source EXCEPT ![h] = Torn]
    /\ mixed' = IF \E g \in Restores \ {h} : fd[g] = fd[h] THEN mixed
                                                         ELSE mixed \ {fd[h]}
    /\ RestoreFrame /\ UNCHANGED <<upload, stage>>

RestoreIntegrity(h) ==
    /\ Working(h, "integrity")
    /\ Goto(h, IF Whole(upload) THEN "rename" ELSE "remove")
    /\ RestoreFrame /\ UNCHANGED <<stageVars, inode>>

RestoreRename(h) ==
    /\ Working(h, "rename")
    /\ IF upload = None THEN UNCHANGED <<upload, stage>>
       ELSE stage' = upload /\ upload' = None
    /\ Goto(h, "remove")
    /\ RestoreFrame /\ UNCHANGED <<fd, source, mixed, inode>>

\* The deferred os.Remove(tmp), at the end of every path: it takes the file
\* that another restore may have made meanwhile.
RestoreRemove(h) ==
    /\ Working(h, "remove")
    /\ upload' = None
    /\ Goto(h, "ended")
    /\ RestoreFrame /\ UNCHANGED <<stage, fd, source, mixed, inode>>

Restore(h) ==
    \/ RestoreBegin(h) \/ RestoreCreate(h) \/ RestoreCreateFails(h)
    \/ RestoreWrites(h) \/ RestoreCopied(h)
    \/ RestoreIntegrity(h) \/ RestoreRename(h) \/ RestoreRemove(h)

-----------------------------------------------------------------------------
(* The start of the program: ApplyPending, then initDB.                    *)

ApplyPending ==
    /\ boot = "off"
    /\ boot' = IF stage = None THEN "open" ELSE "check"
    /\ bootSec' = sec
    /\ StartFrame /\ UNCHANGED <<main, journal, pre, stage, pastVars>>

\* Mutant of CheckStage: what Restore checked is not checked again.
CheckStageTrusting ==
    /\ boot = "check"
    /\ boot' = "snapshot"
    /\ StartFrame /\ UNCHANGED <<main, journal, bootSec, pre, stage, pastVars>>

\* A damaged file is dropped.
CheckStage ==
    /\ boot = "check"
    /\ IF Whole(stage) THEN boot' = "snapshot" /\ UNCHANGED stage
                       ELSE boot' = "open" /\ stage' = None
    /\ StartFrame /\ UNCHANGED <<main, journal, bootSec, pre, pastVars>>

\* Dropping a pre-restore copy of the same second gives up what it saved.
Overwritten == pre[bootSec] \in Contents

\* snapshot: the driver opens the old database, which rolls its journal back,
\* and VACUUM INTO creates the file; it refuses one that exists, which is then
\* removed.
SnapshotOpen ==
    /\ boot = "snapshot"
    /\ Logical(main, journal) # Torn
    /\ main' = Logical(main, journal)
    /\ journal' = None
    /\ IF pre[bootSec] = None
       THEN boot' = "vacuum" /\ pre' = [pre EXCEPT ![bootSec] = Torn]
       ELSE boot' = "raw" /\ pre' = [pre EXCEPT ![bootSec] = None]
    /\ raw' = (raw \/ Overwritten)
    /\ StartFrame /\ UNCHANGED <<bootSec, stage, botched>>

\* The driver cannot be opened, or VACUUM INTO cannot read the database and a
\* file of that name is removed.
SnapshotOpenFails ==
    /\ boot = "snapshot"
    /\ boot' = "raw"
    /\ \/ UNCHANGED <<pre, raw>>
       \/ /\ pre' = [pre EXCEPT ![bootSec] = None]
          /\ raw' = (raw \/ Overwritten)
    /\ StartFrame /\ UNCHANGED <<main, journal, bootSec, stage, botched>>

\* VACUUM INTO ends, or fails and what it wrote is removed.
SnapshotVacuum ==
    /\ boot = "vacuum"
    /\ \/ pre' = [pre EXCEPT ![bootSec] = main] /\ boot' = "unlink"
       \/ pre' = [pre EXCEPT ![bootSec] = None] /\ boot' = "raw"
    /\ StartFrame /\ UNCHANGED <<main, journal, bootSec, stage, pastVars>>

\* copyFile creates or truncates its file, to copy the database file without
\* its journal; or it cannot, and the program goes on with the old database
\* and the stage.
RawCreate ==
    /\ boot = "raw"
    /\ \/ /\ pre' = [pre EXCEPT ![bootSec] = Torn]
          /\ raw' = (raw \/ journal # None \/ Overwritten)
          /\ boot' = "copying"
       \/ boot' = "open" /\ UNCHANGED <<pre, raw>>
    /\ StartFrame /\ UNCHANGED <<main, journal, bootSec, stage, botched>>

\* io.Copy ends, of a file that may be in the middle of a transaction; or it
\* fails, and the program goes on as above.
RawCopied ==
    /\ boot = "copying"
    /\ \/ /\ pre' = [pre EXCEPT ![bootSec] = main]
          /\ botched' = IF main = Torn THEN botched \cup {bootSec} ELSE botched
          /\ boot' = "unlink"
       \/ /\ botched' = botched \cup {bootSec}
          /\ boot' = "open"
          /\ UNCHANGED pre
    /\ StartFrame /\ UNCHANGED <<main, journal, bootSec, stage, raw>>

Unlink ==
    /\ boot = "unlink"
    /\ journal' = None
    /\ boot' = "rename"
    /\ StartFrame /\ UNCHANGED <<main, bootSec, pre, stage, pastVars>>

\* The stage takes the place of the database, or the rename fails.
RenameStage ==
    /\ boot = "rename"
    /\ \/ main' = inode[stage] /\ stage' = None
       \/ UNCHANGED <<main, stage>>
    /\ boot' = "open"
    /\ StartFrame /\ UNCHANGED <<journal, bootSec, pre, pastVars>>

\* initDB: a journal is rolled back; what is no database ends the program.
OpenDB ==
    /\ boot = "open"
    /\ IF Logical(main, journal) = Torn
       THEN boot' = "off" /\ UNCHANGED <<main, journal>>
       ELSE /\ boot' = "on"
            /\ main' = Logical(main, journal)
            /\ journal' = None
    /\ bootSec' = 0
    /\ StartFrame /\ UNCHANGED <<pre, stage, pastVars>>

StartStep ==
    \/ ApplyPending \/ CheckStage \/ SnapshotOpen \/ SnapshotOpenFails
    \/ SnapshotVacuum \/ RawCreate \/ RawCopied \/ Unlink \/ RenameStage \/ OpenDB

Next ==
    \/ Begin \/ Commit \/ Crash \/ Tick
    \/ \E r \in Runs : Run(r)
    \/ \E h \in Restores : Restore(h)
    \/ StartStep

Spec == Init /\ [][Next]_vars

-----------------------------------------------------------------------------
(* Properties.                                                             *)

\* Two runs made their name in one second: they share their files.
Shared(s) == \E q, r \in Runs : q # r /\ stampOf[q] = s /\ stampOf[r] = s

\* The files that may be listed half written: a copy of two runs that shared a
\* second, one of which renamed what the other was still writing; and a
\* pre-restore copy, which snapshot and copyFile write under its final name, if
\* the start ended or copyFile failed while it was written, or copied a database
\* in the middle of a transaction.
MayBeHalf(f) ==
    IF f.kind = "smsie" THEN Shared(f.at) ELSE f.at \in botched

\* Every file that List shows while the program runs is a whole database,
\* except those: Run gives a copy its name only after Integrity, and a start
\* that goes on after snapshot leaves a whole pre-restore copy, so that a failing
\* VACUUM or the end of the program elsewhere never leaves half a database for
\* the administrator to download or restore.
ListedCopiesIntact ==
    boot = "on" => \A f \in List : Holds(f) # Torn \/ MayBeHalf(f)

\* A copy that Run reported is there until Keep newer ones are: no overlapping
\* run, prune or crash takes it earlier, unless two runs shared its second.
ReportedCopyKept ==
    \A r \in Runs :
       pc[r] = "ok" =>
         \/ copies[stampOf[r]] = r
         \/ Shared(stampOf[r])
         \/ Keep > 0 /\ Cardinality({t \in Copied : t > stampOf[r]}) >= Keep

\* Staging, ApplyPending and their interruption at any point implement a
\* restore in one step: the database is at all times the old content or the
\* whole new one, and the old one is in a pre-restore copy before it goes.
SavedContents == {pre[s] : s \in Seconds} \ {None, Torn}

A == INSTANCE AtomicRestore WITH
         data <- Logical(main, journal), saved <- SavedContents, forfeit <- raw

AtomicRestore == A!Spec
=============================================================================
