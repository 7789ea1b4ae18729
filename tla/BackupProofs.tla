---------------------------- MODULE BackupProofs ----------------------------
(***************************************************************************)
(* Proofs about Backup: type correctness, and that staging and applying a  *)
(* restore, interrupted anywhere, implements AtomicRestore.                *)
(***************************************************************************)
EXTENDS Backup, FiniteSetTheorems, WellFoundedInduction, TLAPS

\* No file holds a version that was not committed.
Committed(c) == c \in Nat => c <= last

NothingNewer ==
    /\ Committed(main) /\ Committed(journal)
    /\ \A s \in Seconds : Committed(pre[s])
    /\ \A c \in Calls : Committed(inode[c])
    /\ \A h \in Restores : Committed(source[h])

\* What each step of ApplyPending has established.
StageChecked ==
    boot \in {"snapshot", "vacuum", "raw", "copying", "unlink", "rename"} =>
        stage \in Restores /\ inode[stage] # Torn

VacuumPrepared ==
    /\ boot = "vacuum" => pre[bootSec] = Torn /\ journal = None /\ main # Torn
    /\ boot = "copying" => pre[bootSec] = Torn /\ (raw \/ journal = None)

OldContentSaved ==
    /\ boot \in {"unlink", "rename"} =>
         raw \/ (pre[bootSec] = main /\ main # Torn /\ journal = None)
    /\ boot = "rename" => journal = None

\* A half pre-restore copy is being written, or its writing was cut short.
PreWritten ==
    \A s \in Seconds :
       pre[s] = Torn => s \in botched \/ (boot \in {"vacuum", "copying"} /\ s = bootSec)

\* Until a content was given up for a raw copy, the database can be opened.
Openable == raw \/ Logical(main, journal) # Torn

IInv ==
    /\ TypeOK /\ NothingNewer /\ StageChecked /\ VacuumPrepared
    /\ OldContentSaved /\ Openable /\ PreWritten

-----------------------------------------------------------------------------

\* None and Torn are no content, no call and no second.
LEMMA Distinct ==
  /\ None \notin Contents /\ None \notin Runs /\ None \notin Restores
  /\ None \notin Seconds /\ None # Torn /\ Torn \notin Contents
  /\ 0 \in Contents /\ 0 \in Seconds /\ 0 \in Versions
  BY BackupAssumption DEF Contents, Versions, Seconds, Calls

LEMMA InitIInv == Init => IInv
  <1> SUFFICES ASSUME Init PROVE IInv
    OBVIOUS
  <1> USE BackupAssumption DEF Init
  <1>1. TypeOK BY Distinct DEF TypeOK
  <1>2. NothingNewer BY DEF NothingNewer, Committed, Calls
  <1>3. StageChecked /\ VacuumPrepared /\ OldContentSaved
    BY DEF StageChecked, VacuumPrepared, OldContentSaved
  <1>4. Openable BY DEF Openable, Logical
  <1>5. PreWritten BY Distinct DEF PreWritten
  <1>. QED BY <1>1, <1>2, <1>3, <1>4, <1>5 DEF IInv

\* The steps of the program at work: transactions, the clock and the end.
LEMMA ProgramIInv ==
  ASSUME IInv, Begin \/ Commit \/ Crash \/ Tick
  PROVE  IInv'
  <1> USE BackupAssumption
          DEF IInv, TypeOK, NothingNewer, Committed, StageChecked, VacuumPrepared,
              OldContentSaved, Openable, PreWritten, Logical, Contents, Versions, Seconds,
              dbVars, copyVars, stageVars, pastVars
  <1>1. CASE Begin BY <1>1 DEF Begin
  <1>2. CASE Commit
    <2>1. last' = last + 1 /\ last \in Nat /\ main' = last + 1 /\ journal' = None
      BY <1>2 DEF Commit
    <2>2. last + 1 \in Versions BY <1>2, <2>1 DEF Commit
    <2>3. TypeOK' BY <1>2, <2>1, <2>2 DEF Commit
    <2>4. NothingNewer' BY <1>2, <2>1 DEF Commit
    <2>. QED BY <1>2, <2>1, <2>2, <2>3, <2>4, Distinct DEF Commit
  <1>3. CASE Crash
    <2>1. TypeOK' BY <1>3 DEF Crash
    <2>2. NothingNewer' BY <1>3 DEF Crash
    <2>. QED BY <1>3, <2>1, <2>2 DEF Crash
  <1>4. CASE Tick BY <1>4 DEF Tick
  <1>. QED BY <1>1, <1>2, <1>3, <1>4

\* A run leaves the database, the stage and the pre-restore copies alone.
LEMMA RunIInv ==
  ASSUME IInv, NEW r \in Runs, Run(r)
  PROVE  IInv'
  <1> USE BackupAssumption
          DEF IInv, NothingNewer, Committed, StageChecked, VacuumPrepared,
              OldContentSaved, Openable, PreWritten, Calls, pastVars, RunFrame, Working, Goto,
              dbVars, copyVars, stageVars
  <1>1. CASE RunBegin(r) BY <1>1 DEF RunBegin, TypeOK
  <1>2. CASE VacuumRefused(r) BY <1>2 DEF VacuumRefused, TypeOK
  <1>3. CASE VacuumStart(r) BY <1>3 DEF VacuumStart, TypeOK
  <1>4. CASE VacuumEnd(r)
    <2>1. PICK c \in Contents \cup {Torn} :
             /\ c \in {Logical(main, journal), Torn, inode[r]}
             /\ inode' = [inode EXCEPT ![r] = c]
      BY <1>4 DEF VacuumEnd, TypeOK, Logical
    <2>2. Committed(c)
      BY <2>1 DEF Logical, TypeOK, Contents, Versions
    <2>3. TypeOK' BY <1>4, <2>1 DEF VacuumEnd, TypeOK
    <2>4. \A d \in Calls : Committed(inode'[d])
      BY <2>1, <2>2 DEF TypeOK
    <2>. QED BY <1>4, <2>3, <2>4 DEF VacuumEnd
  <1>5. CASE RunIntegrity(r) BY <1>5 DEF RunIntegrity, TypeOK
  <1>6. CASE RunRename(r)
    <2>1. TypeOK'
      BY <1>6 DEF RunRename, TypeOK
    <2>. QED BY <1>6, <2>1 DEF RunRename
  <1>7. CASE RunPrune(r) BY <1>7 DEF RunPrune, TypeOK
  <1>. QED BY <1>1, <1>2, <1>3, <1>4, <1>5, <1>6, <1>7 DEF Run

\* What a restore reads is a file that exists.
LEMMA SourcesCommitted ==
  ASSUME IInv, NEW c \in Sources
  PROVE  c \in Contents \cup {Torn} /\ Committed(c)
  <1>1. CASE c \in Uploads \cup {Torn}
    BY <1>1, BackupAssumption DEF Committed, Contents
  <1>2. CASE \E f \in List : c = Holds(f)
    <2>1. PICK f \in List : c = Holds(f) BY <1>2
    <2>2. CASE f.kind = "smsie"
      <3>1. PICK s \in Seconds : copies[s] # None /\ f = [kind |-> "smsie", at |-> s]
        BY <2>1, <2>2 DEF List
      <3>2. c = inode[copies[s]] BY <2>1, <3>1 DEF Holds
      <3>. QED BY <3>1, <3>2 DEF IInv, TypeOK, NothingNewer, Calls
    <2>3. CASE f.kind # "smsie"
      <3>1. PICK s \in Seconds : pre[s] # None /\ f = [kind |-> "pre-restore", at |-> s]
        BY <2>1, <2>3 DEF List
      <3>2. c = pre[s] BY <2>1, <2>3, <3>1 DEF Holds
      <3>. QED BY <3>1, <3>2 DEF IInv, TypeOK, NothingNewer
    <2>. QED BY <2>2, <2>3
  <1>. QED BY <1>1, <1>2 DEF Sources

\* A restore works while the program is on, so that no start depends on it.
LEMMA RestoreIInv ==
  ASSUME IInv, NEW h \in Restores, Restore(h)
  PROVE  IInv'
  <1> USE BackupAssumption
          DEF IInv, NothingNewer, Committed, StageChecked, VacuumPrepared,
              OldContentSaved, Openable, PreWritten, Calls, pastVars, RestoreFrame, Working, Goto,
              dbVars, copyVars, stageVars
  <1>1. CASE RestoreBegin(h) BY <1>1 DEF RestoreBegin, TypeOK
  <1>2. CASE RestoreCreate(h)
    <2>1. PICK f \in Restores :
             /\ upload' = f
             /\ fd' = [fd EXCEPT ![h] = f]
             /\ inode' = [inode EXCEPT ![f] = Torn]
      BY <1>2 DEF RestoreCreate
    <2>2. PICK c \in Sources : source' = [source EXCEPT ![h] = c]
      BY <1>2 DEF RestoreCreate
    <2>3. c \in Contents \cup {Torn} /\ Committed(c)
      BY <2>2, SourcesCommitted
    <2>4. TypeOK'
      BY <1>2, <2>1, <2>2, <2>3 DEF RestoreCreate, TypeOK
    <2>5. \A d \in Calls : Committed(inode'[d])
      BY <2>1 DEF TypeOK, Contents, Versions
    <2>6. \A g \in Restores : Committed(source'[g])
      BY <2>2, <2>3 DEF TypeOK
    <2>. QED BY <1>2, <2>4, <2>5, <2>6 DEF RestoreCreate
  <1>7. CASE RestoreCreateFails(h) BY <1>7 DEF RestoreCreateFails, TypeOK
  <1>8. CASE RestoreWrites(h)
    <2>1. TypeOK' BY <1>8 DEF RestoreWrites, TypeOK
    <2>2. \A d \in Calls : Committed(inode'[d])
      BY <1>8 DEF RestoreWrites, TypeOK, Contents, Versions
    <2>. QED BY <1>8, <2>1, <2>2 DEF RestoreWrites
  <1>3. CASE RestoreCopied(h)
    <2>1. PICK c \in Contents \cup {Torn}, f \in Calls :
             /\ inode' = [inode EXCEPT ![f] = c]
             /\ Committed(c)
      <3>1. CASE UNCHANGED inode
        BY <3>1 DEF TypeOK
      <3>2. CASE \E c \in {source[h], Torn} : inode' = [inode EXCEPT ![fd[h]] = c]
        <4>1. PICK c \in {source[h], Torn} : inode' = [inode EXCEPT ![fd[h]] = c]
          BY <3>2
        <4>2. c \in Contents \cup {Torn} /\ Committed(c)
          BY <4>1 DEF TypeOK, Contents, Versions
        <4>3. CASE fd[h] \in Restores BY <4>1, <4>2, <4>3
        <4>4. CASE fd[h] = None
          <5>1. inode' = inode BY <4>1, <4>4 DEF TypeOK
          <5>. QED BY <5>1 DEF TypeOK
        <4>. QED BY <4>3, <4>4 DEF TypeOK
      <3>. QED BY <1>3, <3>1, <3>2 DEF RestoreCopied
    <2>2. TypeOK' BY <1>3, <2>1 DEF RestoreCopied, TypeOK
    <2>3. \A d \in Calls : Committed(inode'[d])
      BY <2>1 DEF TypeOK
    <2>4. \A g \in Restores : Committed(source'[g])
      BY <1>3 DEF RestoreCopied, TypeOK, Contents, Versions
    <2>. QED BY <1>3, <2>2, <2>3, <2>4 DEF RestoreCopied
  <1>4. CASE RestoreIntegrity(h) BY <1>4 DEF RestoreIntegrity, TypeOK
  <1>5. CASE RestoreRename(h) BY <1>5 DEF RestoreRename, TypeOK
  <1>6. CASE RestoreRemove(h) BY <1>6 DEF RestoreRemove, TypeOK
  <1>. QED BY <1>1, <1>2, <1>3, <1>4, <1>5, <1>6, <1>7, <1>8 DEF Restore

\* Each step of ApplyPending establishes what the next one relies on.
LEMMA StartIInv ==
  ASSUME IInv, StartStep
  PROVE  IInv'
  <1> USE BackupAssumption
          DEF IInv, TypeOK, NothingNewer, Committed, StageChecked, VacuumPrepared,
              OldContentSaved, Openable, PreWritten, Logical, Contents, Versions, Calls,
              StartFrame, copyVars, pastVars
  <1>1. CASE ApplyPending BY <1>1 DEF ApplyPending
  <1>2. CASE CheckStage BY <1>2 DEF CheckStage, Whole
  <1>0. bootSec \in Seconds /\ pre \in [Seconds -> Contents \cup {Torn, None}]
    OBVIOUS
  <1>3. CASE SnapshotOpen
    <2>1. TypeOK' BY <1>3 DEF SnapshotOpen
    <2>2. NothingNewer' BY <1>3 DEF SnapshotOpen
    <2>3. (StageChecked /\ Openable)' BY <1>3 DEF SnapshotOpen
    <2>4. (VacuumPrepared /\ OldContentSaved)' BY <1>0, <1>3 DEF SnapshotOpen
    <2>5. PreWritten' BY <1>0, <1>3, Distinct DEF SnapshotOpen
    <2>. QED BY <2>1, <2>2, <2>3, <2>4, <2>5
  <1>4. CASE SnapshotOpenFails
    <2>1. TypeOK' BY <1>4 DEF SnapshotOpenFails
    <2>2. NothingNewer' BY <1>4 DEF SnapshotOpenFails
    <2>3. (StageChecked /\ Openable)' BY <1>4 DEF SnapshotOpenFails
    <2>4. (VacuumPrepared /\ OldContentSaved)' BY <1>0, <1>4 DEF SnapshotOpenFails
    <2>5. PreWritten' BY <1>0, <1>4, Distinct DEF SnapshotOpenFails
    <2>. QED BY <2>1, <2>2, <2>3, <2>4, <2>5
  <1>5. CASE SnapshotVacuum
    <2>1. TypeOK' BY <1>5 DEF SnapshotVacuum
    <2>2. NothingNewer' BY <1>5 DEF SnapshotVacuum
    <2>3. (StageChecked /\ Openable)' BY <1>5 DEF SnapshotVacuum
    <2>4. (VacuumPrepared /\ OldContentSaved)' BY <1>0, <1>5 DEF SnapshotVacuum
    <2>5. PreWritten' BY <1>0, <1>5, Distinct DEF SnapshotVacuum
    <2>. QED BY <2>1, <2>2, <2>3, <2>4, <2>5
  <1>6. CASE RawCreate
    <2>1. TypeOK' BY <1>6 DEF RawCreate
    <2>2. NothingNewer' BY <1>6 DEF RawCreate
    <2>3. (StageChecked /\ Openable)' BY <1>6 DEF RawCreate
    <2>4. (VacuumPrepared /\ OldContentSaved)' BY <1>0, <1>6 DEF RawCreate
    <2>5. PreWritten' BY <1>0, <1>6, Distinct DEF RawCreate
    <2>. QED BY <2>1, <2>2, <2>3, <2>4, <2>5
  <1>10. CASE RawCopied
    <2>1. TypeOK' BY <1>10 DEF RawCopied
    <2>2. NothingNewer' BY <1>10 DEF RawCopied
    <2>3. (StageChecked /\ Openable)' BY <1>10 DEF RawCopied
    <2>4. (VacuumPrepared /\ OldContentSaved)' BY <1>0, <1>10 DEF RawCopied
    <2>5. PreWritten' BY <1>0, <1>10, Distinct DEF RawCopied
    <2>. QED BY <2>1, <2>2, <2>3, <2>4, <2>5
  <1>7. CASE Unlink BY <1>7 DEF Unlink
  <1>8. CASE RenameStage BY <1>8 DEF RenameStage
  <1>9. CASE OpenDB BY <1>9 DEF OpenDB, Seconds
  <1>. QED
    BY <1>1, <1>2, <1>3, <1>4, <1>5, <1>6, <1>7, <1>8, <1>9, <1>10 DEF StartStep

LEMMA NextIInv == IInv /\ [Next]_vars => IInv'
  <1> SUFFICES ASSUME IInv, [Next]_vars PROVE IInv'
    OBVIOUS
  <1>1. CASE UNCHANGED vars
    BY <1>1 DEF vars, dbVars, copyVars, stageVars, IInv, TypeOK, NothingNewer,
       Committed, StageChecked, VacuumPrepared, OldContentSaved, Openable,
       PreWritten, pastVars
  <1>2. CASE Next
    BY <1>2, ProgramIInv, RunIInv, RestoreIInv, StartIInv DEF Next
  <1>. QED BY <1>1, <1>2

LEMMA SpecIInv == Spec => []IInv
  BY InitIInv, NextIInv, PTL DEF Spec

\* Type correctness of backup and restore, for any calls, contents and clock.
THEOREM TypeCorrect == Spec => []TypeOK
  <1>1. IInv => TypeOK BY DEF IInv
  <1>. QED BY <1>1, SpecIInv, PTL

-----------------------------------------------------------------------------
(* The copies.                                                             *)

\* A run has a name from its first step on, and keeps it.
StampsMade == \A r \in Runs : stampOf[r] = None <=> pc[r] = "new"

\* A name stands for the file of a run that made this name.
NamesOfRuns ==
    \A s \in Seconds, r \in Runs : tmp[s] = r \/ copies[s] = r => stampOf[r] = s

\* A run alone in its second renames the file that it wrote and checked.
RenameReady ==
    \A r \in Runs :
       pc[r] = "rename" => Shared(stampOf[r]) \/ (tmp[stampOf[r]] = r /\ inode[r] # Torn)

\* What was renamed is whole, and written no more.
CopiesWritten ==
    \A s \in Seconds, r \in Runs :
       copies[s] = r => Shared(s) \/ (inode[r] # Torn /\ pc[r] \in {"prune", "ok", "ended"})

Above(s) == {t \in Copied : t > s}

\* A copy is kept from the rename on, not only once Run has reported it.
CopiesKept ==
    \A r \in Runs :
       pc[r] \in {"prune", "ok"} =>
         \/ copies[stampOf[r]] = r
         \/ Shared(stampOf[r])
         \/ Keep > 0 /\ Cardinality(Above(stampOf[r])) >= Keep

CopyInv == StampsMade /\ NamesOfRuns /\ RenameReady /\ CopiesWritten /\ CopiesKept

\* A set of seconds that is not empty has a latest one.
LEMMA Latest ==
  ASSUME NEW n \in Nat, NEW S \in SUBSET (0..n), S # {}
  PROVE  \E m \in S : \A k \in S : k <= m
  <1> DEFINE T == {n - k : k \in S}
  <1>0. \A k \in S : k \in 0..n /\ n - k \in Nat OBVIOUS
  <1>1. T \subseteq Nat /\ T # {} BY <1>0
  <1>2. PICK x \in T : \A y \in T : ~(<<y, x>> \in OpToRel(<, Nat))
    <2> HIDE DEF T
    <2>. QED BY <1>1, WFMin, NatLessThanWellFounded
  <1>3. \A y \in T : ~(y < x) BY <1>1, <1>2 DEF OpToRel
  <1>4. PICK m \in S : x = n - m BY <1>2
  <1>5. ASSUME NEW k \in S PROVE k <= m
    <2>1. ~(n - k < n - m) BY <1>3, <1>4
    <2>. QED BY <2>1
  <1>. QED BY <1>5

\* More names, more names above.
LEMMA AboveGrows ==
  ASSUME NEW K \in SUBSET Seconds, NEW L \in SUBSET Seconds, K \subseteq L
  PROVE  /\ Cardinality(K) \in Nat /\ Cardinality(L) \in Nat
         /\ Cardinality(K) <= Cardinality(L)
  <1>1. IsFiniteSet(Seconds) BY BackupAssumption, FS_Interval DEF Seconds
  <1>2. IsFiniteSet(K) /\ IsFiniteSet(L) BY <1>1, FS_Subset
  <1>. QED BY <1>2, FS_Subset, FS_CardinalityType

\* Keep names above a name are above it after a prune too: the latest name pruned
\* has Keep names above, and they stay.
LEMMA PruneKeeps ==
  ASSUME NEW s \in Seconds, Cardinality(Above(s)) >= Keep
  PROVE  Cardinality({t \in Copied \ Pruned : t > s}) >= Keep
  <1> DEFINE Left == {t \in Copied \ Pruned : t > s}
  <1> USE BackupAssumption
  <1>0. Copied \subseteq Seconds /\ Pruned \subseteq Seconds /\ Left \subseteq Seconds
        /\ \A t : Above(t) \subseteq Seconds
    BY DEF Copied, Pruned, Above
  <1>1. CASE Pruned = {}
    <2>1. Left = Above(s) BY <1>1 DEF Above
    <2>. QED BY <2>1
  <1>2. CASE Pruned # {}
    <2>1. PICK m \in Pruned : \A k \in Pruned : k <= m
      BY <1>0, <1>2, Latest DEF Seconds
    <2>2. Cardinality(Above(m)) >= Keep BY <2>1 DEF Pruned, Above
    <2>3. Above(m) \cap Pruned = {} BY <1>0, <2>1 DEF Above, Seconds
    <2>4. CASE m >= s
      <3>1. Above(m) \subseteq Left BY <1>0, <2>1, <2>3, <2>4 DEF Above, Seconds
      <3>2. Cardinality(Above(m)) <= Cardinality(Left)
            /\ Cardinality(Above(m)) \in Nat /\ Cardinality(Left) \in Nat
        <4> HIDE DEF Left
        <4>. QED BY <1>0, <3>1, AboveGrows
      <3>. QED BY <2>2, <3>2
    <2>5. CASE ~(m >= s)
      <3>1. Left = Above(s) BY <1>0, <2>1, <2>5 DEF Above, Seconds
      <3>. QED BY <3>1
    <2>. QED BY <2>4, <2>5
  <1>. QED BY <1>1, <1>2

LEMMA InitCopyInv == Init => CopyInv
  <1> SUFFICES ASSUME Init PROVE CopyInv
    OBVIOUS
  <1>. QED
    BY Distinct DEF Init, CopyInv, StampsMade, NamesOfRuns, RenameReady, CopiesWritten,
       CopiesKept, Calls

\* Steps that leave the copies, their names and the files of the runs alone.
LEMMA OtherCopyInv ==
  ASSUME IInv, CopyInv, UNCHANGED copyVars,
         \A r \in Runs : /\ inode'[r] = inode[r]
                         /\ pc'[r] \in {pc[r], "ended"}
                         /\ pc[r] \in {"new", "ok"} => pc'[r] = pc[r]
  PROVE  CopyInv'
  <1> USE DEF CopyInv, copyVars
  <1>1. StampsMade' BY DEF StampsMade
  <1>2. NamesOfRuns' BY DEF NamesOfRuns
  <1>3. \A s : Shared(s)' <=> Shared(s) BY DEF Shared
  <1>4. RenameReady' BY <1>3 DEF RenameReady
  <1>5. CopiesWritten' BY <1>3 DEF CopiesWritten
  <1>6. \A s : Above(s)' = Above(s) BY DEF Above, Copied
  <1>7. CopiesKept' BY <1>3, <1>6 DEF CopiesKept
  <1>. QED BY <1>1, <1>2, <1>4, <1>5, <1>7

LEMMA RunCopyInv ==
  ASSUME IInv, CopyInv, NEW r \in Runs, Run(r)
  PROVE  CopyInv'
  <1> USE BackupAssumption
  <1> USE DEF CopyInv, RunFrame, Working, Goto
  <1>0. /\ stampOf \in [Runs -> Seconds \cup {None}] /\ tmp \in [Seconds -> Runs \cup {None}]
        /\ copies \in [Seconds -> Runs \cup {None}] /\ sec \in Seconds
        /\ DOMAIN pc = Calls /\ DOMAIN inode = Calls /\ r \in Calls /\ Runs \subseteq Calls
    BY DEF IInv, TypeOK, Calls
  <1>00. /\ \A q \in Runs : q # r => pc'[q] = pc[q] /\ inode'[q] = inode[q]
         /\ pc'[r] # "new"
    BY <1>0 DEF Run, RunBegin, VacuumRefused, VacuumStart, VacuumEnd, RunIntegrity, RunRename,
       RunPrune
  <1>1. CASE RunBegin(r)
    <2>1. /\ pc[r] = "new" /\ pc'[r] = "vacuum" /\ stampOf[r] = None /\ stampOf'[r] = sec
          /\ \A q \in Runs : q # r => stampOf'[q] = stampOf[q]
          /\ tmp' = [tmp EXCEPT ![sec] = None] /\ UNCHANGED <<copies, inode, sec>>
      BY <1>0, <1>1 DEF RunBegin, StampsMade
    <2>2. \A s \in Seconds : Shared(s) => Shared(s)'
      BY <2>1, Distinct DEF Shared
    <2>4. StampsMade' BY <1>0, <1>00, <2>1, Distinct DEF StampsMade
    <2>5. NamesOfRuns' BY <1>0, <2>1, Distinct DEF NamesOfRuns
    <2>6. RenameReady'
      <3> SUFFICES ASSUME NEW q \in Runs, pc'[q] = "rename"
                   PROVE  Shared(stampOf[q])' \/ (tmp'[stampOf'[q]] = q /\ inode'[q] # Torn)
        BY DEF RenameReady
      <3>1. q # r /\ pc[q] = "rename" BY <1>00, <2>1
      <3>2. stampOf[q] \in Seconds /\ stampOf'[q] = stampOf[q]
        BY <1>0, <2>1, <3>1 DEF StampsMade
      <3>3. CASE stampOf[q] = sec BY <2>1, <3>1, <3>2, <3>3 DEF Shared
      <3>4. CASE stampOf[q] # sec
        BY <1>0, <2>1, <2>2, <3>1, <3>2, <3>4 DEF RenameReady
      <3>. QED BY <3>3, <3>4
    <2>7. CopiesWritten' BY <1>00, <2>1, <2>2, Distinct DEF CopiesWritten, NamesOfRuns
    <2>8. CopiesKept'
      <3>1. \A s : Above(s)' = Above(s) BY <2>1 DEF Above, Copied
      <3>2. \A q \in Runs : pc'[q] \in {"prune", "ok"} =>
              /\ q # r /\ pc[q] = pc'[q] /\ stampOf'[q] = stampOf[q] /\ stampOf[q] \in Seconds
        BY <1>0, <1>00, <2>1 DEF StampsMade
      <3>. QED BY <2>1, <2>2, <3>1, <3>2 DEF CopiesKept
    <2>. QED BY <2>4, <2>5, <2>6, <2>7, <2>8
  <1>2. ASSUME UNCHANGED stampOf
        PROVE  /\ StampsMade' /\ stampOf[r] \in Seconds
               /\ \A s : Shared(s)' <=> Shared(s)
    <2>1. \A s : Shared(s)' <=> Shared(s) BY <1>2 DEF Shared
    <2>2. stampOf[r] \in Seconds
      <3>1. CASE pc[r] # "new" BY <1>0, <3>1 DEF StampsMade
      <3>2. CASE pc[r] = "new"
        <4>1. RunBegin(r)
          BY <3>2 DEF Run, VacuumRefused, VacuumStart, VacuumEnd, RunIntegrity, RunRename,
             RunPrune
        <4>. QED BY <1>0, <1>2, <4>1 DEF RunBegin
      <3>. QED BY <3>1, <3>2
    <2>3. StampsMade' BY <1>0, <1>00, <1>2, <2>2, Distinct DEF StampsMade
    <2>. QED BY <2>1, <2>2, <2>3
  <1>3. CASE VacuumRefused(r) \/ VacuumStart(r) \/ VacuumEnd(r) \/ RunIntegrity(r)
    <2> DEFINE s == stampOf[r]
    <2>1. UNCHANGED <<copies, stampOf>>
          /\ pc[r] \in {"vacuum", "vacuuming", "integrity"}
          /\ pc'[r] \notin {"prune", "ok"}
      BY <1>0, <1>3 DEF VacuumRefused, VacuumStart, VacuumEnd, RunIntegrity, copyVars
    <2>2. StampsMade' /\ s \in Seconds /\ \A t : Shared(t)' <=> Shared(t)
      BY <1>2, <2>1
    <2>3. /\ \A t \in Seconds : t # s => tmp'[t] = tmp[t]
          /\ tmp'[s] \in {tmp[s], r, None}
      BY <1>0, <1>3, <2>2 DEF VacuumRefused, VacuumStart, VacuumEnd, RunIntegrity, copyVars
    <2>4. NamesOfRuns' BY <1>0, <2>1, <2>2, <2>3, Distinct DEF NamesOfRuns
    <2>5. RenameReady'
      <3> SUFFICES ASSUME NEW q \in Runs, pc'[q] = "rename", ~Shared(stampOf[q])
                   PROVE  tmp'[stampOf[q]] = q /\ inode'[q] # Torn
        BY <2>1, <2>2 DEF RenameReady
      <3>1. CASE q = r
        <4>1. RunIntegrity(r) /\ Whole(tmp[s]) /\ UNCHANGED <<tmp, inode>>
          BY <1>0, <1>3, <3>1 DEF VacuumRefused, VacuumStart, VacuumEnd, RunIntegrity
        <4>2. tmp[s] \in Runs /\ stampOf[tmp[s]] = s
          BY <1>0, <2>2, <4>1 DEF Whole, NamesOfRuns
        <4>3. tmp[s] = r BY <3>1, <4>2 DEF Shared
        <4>. QED BY <3>1, <4>1, <4>3 DEF Whole
      <3>2. CASE q # r
        <4>1. pc[q] = "rename" /\ inode'[q] = inode[q] /\ stampOf[q] \in Seconds
          BY <1>0, <1>00, <3>2 DEF StampsMade
        <4>2. stampOf[q] # s BY <3>2 DEF Shared
        <4>. QED BY <2>3, <4>1, <4>2 DEF RenameReady
      <3>. QED BY <3>1, <3>2
    <2>6. CopiesWritten'
      BY <1>00, <2>1, <2>2 DEF CopiesWritten
    <2>7. CopiesKept'
      <3>1. \A t : Above(t)' = Above(t) BY <2>1 DEF Above, Copied
      <3>. QED BY <1>00, <2>1, <2>2, <3>1 DEF CopiesKept
    <2>. QED BY <2>2, <2>4, <2>5, <2>6, <2>7
  <1>4. CASE RunRename(r)
    <2> DEFINE s == stampOf[r]
    <2>1. UNCHANGED <<stampOf, inode>> /\ pc[r] = "rename" BY <1>4 DEF RunRename
    <2>2. StampsMade' /\ s \in Seconds /\ \A t : Shared(t)' <=> Shared(t)
      BY <1>2, <2>1
    <2>3. CASE tmp[s] = None
      <3>1. pc'[r] = "ended" /\ UNCHANGED <<copies, tmp>>
        BY <1>0, <1>4, <2>3 DEF RunRename
      <3>2. NamesOfRuns' BY <2>1, <3>1 DEF NamesOfRuns
      <3>3. RenameReady' BY <1>00, <2>1, <2>2, <3>1 DEF RenameReady
      <3>4. CopiesWritten' BY <1>00, <2>1, <2>2, <3>1 DEF CopiesWritten
      <3>5. \A t : Above(t)' = Above(t) BY <3>1 DEF Above, Copied
      <3>6. CopiesKept' BY <1>00, <2>1, <2>2, <3>1, <3>5 DEF CopiesKept
      <3>. QED BY <2>2, <3>2, <3>3, <3>4, <3>6
    <2>4. CASE tmp[s] # None
      <3>1. /\ pc'[r] = "prune" /\ copies' = [copies EXCEPT ![s] = tmp[s]]
            /\ tmp' = [tmp EXCEPT ![s] = None]
        BY <1>0, <1>4, <2>4 DEF RunRename
      <3>2. /\ copies'[s] = tmp[s] /\ tmp'[s] = None /\ tmp[s] \in Runs
            /\ \A t \in Seconds : t # s => copies'[t] = copies[t] /\ tmp'[t] = tmp[t]
        BY <1>0, <2>2, <2>4, <3>1
      <3>3. NamesOfRuns' BY <2>1, <2>2, <3>2, Distinct DEF NamesOfRuns
      <3>4. \A q \in Runs : q # r /\ ~Shared(s) => stampOf[q] # s
        BY DEF Shared
      <3>5. ~Shared(s) => tmp[s] = r /\ inode[r] # Torn BY <2>1 DEF RenameReady
      <3>6. RenameReady'
        BY <1>0, <1>00, <2>1, <2>2, <3>1, <3>2, <3>4 DEF RenameReady, StampsMade
      <3>7. CopiesWritten'
        BY <1>00, <2>1, <2>2, <3>1, <3>2, <3>5 DEF CopiesWritten
      <3>8. \A t \in Seconds : /\ Above(t) \subseteq Above(t)' /\ Above(t) \subseteq Seconds
                              /\ Above(t)' \subseteq Seconds
        BY <1>0, <3>2, Distinct DEF Above, Copied
      <3>9. \A t \in Seconds : Cardinality(Above(t)) >= Keep => Cardinality(Above(t)') >= Keep
        <4> SUFFICES ASSUME NEW t \in Seconds, Cardinality(Above(t)) >= Keep
                     PROVE  Cardinality(Above(t)') >= Keep
          OBVIOUS
        <4>1. /\ Cardinality(Above(t)) \in Nat /\ Cardinality(Above(t)') \in Nat
              /\ Cardinality(Above(t)) <= Cardinality(Above(t)')
          BY <3>8, AboveGrows
        <4>. QED BY <4>1
      <3>10. CopiesKept'
        <4>0. \A q \in Runs : pc'[q] \in {"prune", "ok"} => stampOf[q] \in Seconds
          BY <1>0, <1>00, <2>2 DEF StampsMade
        <4> SUFFICES ASSUME NEW q \in Runs, pc'[q] \in {"prune", "ok"},
                            NEW z \in Seconds, stampOf[q] = z, ~Shared(z)
                     PROVE  copies'[z] = q \/ (Keep > 0 /\ Cardinality(Above(z)') >= Keep)
          BY <2>1, <2>2, <4>0 DEF CopiesKept, Above, Copied
        <4>1. CASE q = r BY <3>2, <3>5, <4>1
        <4>2. CASE q # r
          <5>1. pc[q] \in {"prune", "ok"} BY <1>00, <4>2
          <5>2. z # s BY <4>2 DEF Shared
          <5>. QED BY <3>2, <3>9, <5>1, <5>2 DEF CopiesKept
        <4>. QED BY <4>1, <4>2
      <3>. QED BY <2>2, <3>3, <3>6, <3>7, <3>10
    <2>. QED BY <2>3, <2>4
  <1>5. CASE RunPrune(r)
    <2>1. /\ UNCHANGED <<stampOf, tmp, inode>> /\ pc[r] = "prune" /\ pc'[r] = "ok"
          /\ copies' = [s \in Seconds |-> IF Keep > 0 /\ s \in Pruned THEN None ELSE copies[s]]
      BY <1>0, <1>5 DEF RunPrune
    <2>2. StampsMade' /\ \A t : Shared(t)' <=> Shared(t)
      BY <1>2, <2>1
    <2>3. \A s \in Seconds :
             copies'[s] = copies[s] \/ (copies'[s] = None /\ Keep > 0 /\ s \in Pruned)
      BY <2>1
    <2>4. NamesOfRuns' BY <2>1, <2>3, Distinct DEF NamesOfRuns
    <2>5. RenameReady' BY <1>00, <2>1, <2>2 DEF RenameReady
    <2>6. CopiesWritten' BY <1>00, <2>1, <2>2, <2>3, Distinct DEF CopiesWritten
    <2>7. Keep > 0 => Copied' = Copied \ Pruned
      BY <1>0, <2>1, <2>3 DEF Copied, Pruned
    <2>8. \A t \in Seconds :
             Keep > 0 /\ Cardinality(Above(t)) >= Keep => Cardinality(Above(t)') >= Keep
      <3> SUFFICES ASSUME NEW t \in Seconds, Keep > 0, Cardinality(Above(t)) >= Keep
                   PROVE  Cardinality(Above(t)') >= Keep
        OBVIOUS
      <3>1. Above(t)' = {u \in Copied \ Pruned : u > t} BY <2>7 DEF Above
      <3>. QED BY <3>1, PruneKeeps
    <2>9. CopiesKept'
      <3>0. \A q \in Runs : pc'[q] \in {"prune", "ok"} => stampOf[q] \in Seconds
        BY <1>0, <1>00, <2>1, <2>2 DEF StampsMade
      <3> SUFFICES ASSUME NEW q \in Runs, pc'[q] \in {"prune", "ok"},
                          NEW z \in Seconds, stampOf[q] = z, ~Shared(z)
                   PROVE  copies'[z] = q \/ (Keep > 0 /\ Cardinality(Above(z)') >= Keep)
        BY <2>1, <2>2, <3>0 DEF CopiesKept, Above, Copied
      <3>1. pc[q] \in {"prune", "ok"} BY <1>00, <2>1
      <3>2. CASE copies[z] = q /\ copies'[z] # q
        <4>1. Keep > 0 /\ z \in Pruned BY <2>3, <3>2
        <4>2. Cardinality(Above(z)) >= Keep BY <4>1 DEF Pruned, Above
        <4>. QED BY <2>8, <4>1, <4>2
      <3>3. CASE Keep > 0 /\ Cardinality(Above(z)) >= Keep
        BY <2>8, <3>3
      <3>. QED BY <3>1, <3>2, <3>3 DEF CopiesKept
    <2>. QED BY <2>2, <2>4, <2>5, <2>6, <2>9
  <1>. QED BY <1>1, <1>3, <1>4, <1>5 DEF Run

LEMMA NextCopyInv == IInv /\ CopyInv /\ [Next]_vars => CopyInv'
  <1> SUFFICES ASSUME IInv, CopyInv, [Next]_vars PROVE CopyInv'
    OBVIOUS
  <1> USE BackupAssumption DEF Calls
  <1>0. DOMAIN pc = Calls /\ DOMAIN inode = Calls /\ \A h \in Restores : fd[h] \notin Runs
    BY DEF IInv, TypeOK
  <1>1. CASE UNCHANGED vars BY <1>1, OtherCopyInv DEF vars
  <1>2. CASE Begin \/ Commit \/ Crash \/ Tick
    BY <1>2, OtherCopyInv DEF Begin, Commit, Crash, Tick
  <1>3. ASSUME NEW r \in Runs, Run(r) PROVE CopyInv'
    BY <1>3, RunCopyInv
  <1>4. ASSUME NEW h \in Restores, Restore(h) PROVE CopyInv'
    <2>1. UNCHANGED copyVars
      BY <1>4 DEF Restore, RestoreBegin, RestoreCreate, RestoreCreateFails, RestoreWrites, RestoreCopied, RestoreIntegrity,
         RestoreRename, RestoreRemove, RestoreFrame
    <2>2. \A r \in Runs : pc'[r] = pc[r]
      BY <1>0, <1>4 DEF Restore, RestoreBegin, RestoreCreate, RestoreCreateFails, RestoreWrites, RestoreCopied, RestoreIntegrity,
         RestoreRename, RestoreRemove, Goto
    <2>3. \A r \in Runs : inode'[r] = inode[r]
      BY <1>0, <1>4 DEF Restore, RestoreBegin, RestoreCreate, RestoreCreateFails, RestoreWrites, RestoreCopied, RestoreIntegrity,
         RestoreRename, RestoreRemove
    <2>. QED BY <2>1, <2>2, <2>3, OtherCopyInv
  <1>5. CASE StartStep
    BY <1>5, OtherCopyInv DEF StartStep, ApplyPending, CheckStage, SnapshotOpen,
       SnapshotOpenFails, SnapshotVacuum, RawCreate, RawCopied, Unlink, RenameStage, OpenDB, StartFrame
  <1>. QED BY <1>1, <1>2, <1>3, <1>4, <1>5 DEF Next

LEMMA SpecCopyInv == Spec => []CopyInv
  BY InitCopyInv, NextCopyInv, SpecIInv, PTL DEF Spec

\* What List shows while the program runs is whole, copies of Run and
\* pre-restore copies alike, whatever fails and wherever the program ends, but
\* for two runs in one second and for a pre-restore copy that was cut short while
\* snapshot or copyFile wrote it.
THEOREM ListedCopiesWhole == Spec => []ListedCopiesIntact
  <1>1. IInv /\ CopyInv => ListedCopiesIntact
    <2> SUFFICES ASSUME IInv, CopyInv, boot = "on", NEW f \in List
                 PROVE  Holds(f) # Torn \/ MayBeHalf(f)
      BY DEF ListedCopiesIntact
    <2>1. CASE f.kind = "smsie"
      <3>1. PICK s \in Seconds : copies[s] # None /\ f = [kind |-> "smsie", at |-> s]
        BY <2>1 DEF List
      <3>2. copies[s] \in Runs BY <3>1 DEF IInv, TypeOK
      <3>3. inode[copies[s]] # Torn \/ Shared(s)
        BY <3>2 DEF CopyInv, CopiesWritten
      <3>. QED BY <3>1, <3>3 DEF Holds, MayBeHalf
    <2>2. CASE f.kind # "smsie"
      <3>1. PICK s \in Seconds : f = [kind |-> "pre-restore", at |-> s]
        BY <2>2 DEF List
      <3>2. pre[s] # Torn \/ s \in botched BY DEF IInv, PreWritten
      <3>. QED BY <2>2, <3>1, <3>2 DEF Holds, MayBeHalf
    <2>. QED BY <2>1, <2>2
  <1>. QED BY <1>1, SpecIInv, SpecCopyInv, PTL

\* prune, by any run and at any time, takes a copy that Run reported only when
\* Keep newer ones are listed, and from then on there are always that many.
THEOREM ReportedCopiesKept == Spec => []ReportedCopyKept
  <1>1. CopyInv => ReportedCopyKept
    BY DEF CopyInv, CopiesKept, ReportedCopyKept, Above
  <1>. QED BY <1>1, SpecCopyInv, PTL

-----------------------------------------------------------------------------
(* The refinement.                                                         *)

LEMMA InitRefines == Init => A!Init
  BY BackupAssumption
     DEF Init, A!Init, Logical, SavedContents, Contents, Versions, Seconds

\* A step after a content was given up is the abstract Forfeit.
LEMMA ForfeitRefines ==
  ASSUME raw' = TRUE
  PROVE  A!Next
  BY DEF A!Next, A!Forfeit

\* Every step is an abstract step or a stutter.
LEMMA NextRefines ==
  ASSUME IInv, IInv', [Next]_vars
  PROVE  [A!Next]_<<Logical(main, journal), SavedContents, raw>>
  <1> DEFINE Same == /\ raw' = raw /\ SavedContents' = SavedContents
                     /\ Logical(main, journal)' = Logical(main, journal)
  <1>0. Same => UNCHANGED <<Logical(main, journal), SavedContents, raw>>
    OBVIOUS
  <1>1. CASE UNCHANGED vars
    BY <1>0, <1>1 DEF vars, dbVars, pastVars, Logical, SavedContents
  <1>2. ASSUME NEW r \in Runs, Run(r) PROVE Same
    BY <1>2 DEF Run, RunBegin, VacuumRefused, VacuumStart, VacuumEnd, RunIntegrity,
       RunRename, RunPrune, RunFrame, dbVars, pastVars, Logical, SavedContents
  <1>3. ASSUME NEW h \in Restores, Restore(h) PROVE Same
    BY <1>3 DEF Restore, RestoreBegin, RestoreCreate, RestoreCreateFails, RestoreWrites, RestoreCopied,
       RestoreIntegrity, RestoreRename, RestoreRemove, RestoreFrame, dbVars, pastVars,
       Logical, SavedContents
  <1>4. CASE Crash \/ Tick
    BY <1>0, <1>4 DEF Crash, Tick, dbVars, pastVars, Logical, SavedContents
  <1>5. CASE Begin
    <2>1. Same
      BY <1>5, Distinct DEF Begin, pastVars, Logical, SavedContents, IInv, TypeOK
    <2>. QED BY <1>0, <2>1
  <1>6. CASE Commit
    <2>1. Logical(main, journal)' = last + 1 /\ last + 1 \in Contents
      BY <1>6, BackupAssumption DEF Commit, Logical, IInv, TypeOK, Contents, Versions
    <2>2. UNCHANGED <<SavedContents, raw>>
      BY <1>6 DEF Commit, pastVars, SavedContents
    <2>3. last + 1 \notin SavedContents
      BY <1>6 DEF SavedContents, IInv, TypeOK, NothingNewer, Committed, Versions
    <2>4. last + 1 # Logical(main, journal)
      BY <1>6, BackupAssumption
         DEF Commit, Logical, IInv, TypeOK, NothingNewer, Committed, Versions
    <2>5. A!Commit BY <2>1, <2>2, <2>3, <2>4 DEF A!Commit
    <2>. QED BY <2>5 DEF A!Next
  <1>7. CASE StartStep
    <2>1. CASE raw' = TRUE BY <2>1, ForfeitRefines
    <2>2. CASE raw' # TRUE
      <3>0. raw' = FALSE /\ raw = FALSE
        BY <1>7, <2>2 DEF StartStep, ApplyPending, CheckStage, SnapshotOpen,
           SnapshotOpenFails, SnapshotVacuum, RawCreate, RawCopied, Unlink, RenameStage, OpenDB,
           IInv, TypeOK, pastVars
      <3>1. CASE ApplyPending \/ CheckStage
        BY <1>0, <3>0, <3>1 DEF ApplyPending, CheckStage, Logical, SavedContents
      <3>5. CASE SnapshotOpenFails
        <4>1. \/ pre' = pre
              \/ pre' = [pre EXCEPT ![bootSec] = None] /\ pre[bootSec] \notin Contents
          BY <3>0, <3>5 DEF SnapshotOpenFails, Overwritten
        <4>2. SavedContents' = SavedContents
          BY <4>1 DEF SavedContents, IInv, TypeOK
        <4>. QED BY <1>0, <3>0, <3>5, <4>2 DEF SnapshotOpenFails, Logical
      <3>2. CASE SnapshotOpen \/ OpenDB \/ Unlink
        <4>1. SavedContents' = SavedContents
          <5>1. CASE SnapshotOpen
            <6>1. pre[bootSec] \in {None, Torn}
                  /\ pre' \in {[pre EXCEPT ![bootSec] = c] : c \in {None, Torn}}
              BY <3>0, <5>1 DEF SnapshotOpen, Overwritten, IInv, TypeOK
            <6>. QED BY <6>1 DEF SavedContents, IInv, TypeOK
          <5>. QED BY <3>2, <5>1 DEF OpenDB, Unlink, SavedContents
        <4>2. Logical(main, journal)' = Logical(main, journal)
          BY <3>0, <3>2 DEF SnapshotOpen, OpenDB, Unlink, Logical, IInv, OldContentSaved
        <4>3. raw' = raw BY <3>0
        <4>. QED BY <1>0, <4>1, <4>2, <4>3
      <3>3. CASE SnapshotVacuum \/ RawCreate \/ RawCopied
        <4>1. Logical(main, journal)' = Logical(main, journal)
          BY <3>3 DEF SnapshotVacuum, RawCreate, RawCopied, Logical
        <4>2. pre' = pre \/ Logical(main, journal) = main
          BY <3>0, <3>3 DEF SnapshotVacuum, RawCreate, RawCopied, Logical, IInv, VacuumPrepared
        <4>3. pre' = pre \/ pre[bootSec] \in {None, Torn}
          BY <3>0, <3>3 DEF SnapshotVacuum, RawCreate, RawCopied, Overwritten, IInv, TypeOK,
             VacuumPrepared
        <4>7. CASE pre' = pre
          BY <1>0, <3>0, <4>1, <4>7 DEF SavedContents
        <4>8. CASE pre' # pre
          <5>1. /\ Logical(main, journal) = main
                /\ pre[bootSec] \in {None, Torn}
            BY <4>2, <4>3, <4>8
          <5>2. pre' \in {[pre EXCEPT ![bootSec] = c] : c \in {None, Torn, main}}
            BY <3>3, <4>8 DEF SnapshotVacuum, RawCreate, RawCopied
          <5>3. PICK c \in {None, Torn, main} : pre' = [pre EXCEPT ![bootSec] = c]
            BY <5>2
          <5>4. SavedContents' \in {SavedContents, SavedContents \cup {main}}
            <6>1. CASE c \in {None, Torn}
              BY <5>1, <5>3, <6>1 DEF SavedContents, IInv, TypeOK
            <6>2. CASE c = main /\ c \notin {None, Torn}
              <7>1. SavedContents' = SavedContents \cup {main}
                BY <5>1, <5>3, <6>2 DEF SavedContents, IInv, TypeOK
              <7>. QED BY <7>1
            <6>. QED BY <5>3, <6>1, <6>2
          <5>5. A!Save BY <3>0, <4>1, <5>1, <5>4 DEF A!Save
          <5>. QED BY <5>5 DEF A!Next
        <4>. QED BY <4>7, <4>8
      <3>4. CASE RenameStage
        <4>1. CASE UNCHANGED <<main, stage>>
          BY <1>0, <3>0, <3>4, <4>1 DEF RenameStage, Logical, SavedContents
        <4>2. CASE main' = inode[stage] /\ stage' = None
          <5>1. /\ Logical(main, journal) = main
                /\ main \in SavedContents
            BY <3>0, <3>4, Distinct
               DEF RenameStage, Logical, SavedContents, IInv, TypeOK, OldContentSaved
          <5>2. Logical(main, journal)' \in Contents
            BY <3>4, <4>2, Distinct
               DEF RenameStage, Logical, IInv, TypeOK, OldContentSaved, StageChecked,
                   Calls
          <5>3. UNCHANGED <<SavedContents, raw>>
            BY <3>4 DEF RenameStage, SavedContents, pastVars
          <5>4. A!Restore BY <5>1, <5>2, <5>3 DEF A!Restore
          <5>. QED BY <5>4 DEF A!Next
        <4>. QED BY <3>4, <4>1, <4>2 DEF RenameStage
      <3>. QED BY <1>7, <3>1, <3>2, <3>3, <3>4, <3>5 DEF StartStep
    <2>. QED BY <2>1, <2>2
  <1>. QED BY <1>0, <1>1, <1>2, <1>3, <1>4, <1>5, <1>6, <1>7 DEF Next

\* Staging and ApplyPending, interrupted and overlapped anywhere, implement the
\* restore in one step: the content of the database is at all times a whole
\* one, and goes only after it was saved as a pre-restore copy.
THEOREM RestoreIsAtomic == Spec => AtomicRestore
  BY InitRefines, NextRefines, SpecIInv, PTL DEF Spec, AtomicRestore, A!Spec
=============================================================================
