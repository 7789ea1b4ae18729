---------------------------- MODULE SlotHistory ----------------------------
(***************************************************************************)
(* The history of SIM cards in the modem tray: the tables modem_bays,      *)
(* modems (its slot_number cache) and sim_slot_events, written by          *)
(* internal/repository/bay_repo.go with the decisions of internal/slotlog. *)
(*                                                                         *)
(* A worker that has read an IMEI and an ICCID first saves the modem row   *)
(* (Upsert) and later reports the observation (Observe); between the two   *)
(* other workers, the calibration of slots and the deletion of a modem may *)
(* run.  The writers of bays exclude each other (bayWriteMu) and write in  *)
(* one database transaction each, so each of them is one action.           *)
(***************************************************************************)
EXTENDS Integers, FiniteSets

CONSTANTS
    IMEIs,      \* modems, which stay in their bay
    ICCIDs,     \* SIM cards, which move from bay to bay
    MaxSlot,    \* the highest slot number (32 in the code)
    Coms,       \* the numbers of the COM ports; 0 for a port of another name
    MaxPending, \* bound on observations between Upsert and Observe
    None,       \* an absent row, an empty string
    Removed     \* what the last event says of a SIM that left its bay

NoSlot == 0     \* a NULL slot number
Slots == 1..MaxSlot

ASSUME SlotHistoryAssumption ==
    /\ MaxSlot \in Nat
    /\ Coms \subseteq Nat
    /\ None \notin IMEIs \cup ICCIDs \cup Coms
    /\ Removed \notin IMEIs \cup {None}

VARIABLES
    up,       \* the program has started and runs
    migrating,\* it is in MigrateFromModems ...
    todo,     \* ... with these rows of its list still to look at
    rows,     \* the ICCIDs with a row in modems
    rowIMEI,  \* modems.imei
    cache,    \* modems.slot_number
    bays,     \* the IMEIs with a row in modem_bays
    slot,     \* modem_bays.slot_number
    sim,      \* modem_bays.current_iccid
    lastCom,  \* the port of the newest event of an IMEI
    last,     \* where the newest event of an ICCID puts it
    pending,  \* the observations between Upsert and Observe
    tainted   \* history: the SIMs that a known weakness has touched

startVars == <<up, migrating, todo>>
modemVars == <<rows, rowIMEI, cache>>
bayVars == <<bays, slot, sim>>
eventVars == <<lastCom, last>>
vars == <<startVars, modemVars, bayVars, eventVars, pending, tainted>>

TypeOK ==
    /\ up \in BOOLEAN /\ migrating \in BOOLEAN /\ todo \subseteq ICCIDs
    /\ rows \subseteq ICCIDs
    /\ rowIMEI \in [ICCIDs -> IMEIs \cup {None}]
    /\ cache \in [ICCIDs -> Slots \cup {NoSlot}]
    /\ bays \subseteq IMEIs
    /\ slot \in [IMEIs -> Slots \cup {NoSlot}]
    /\ sim \in [IMEIs -> ICCIDs \cup {None}]
    /\ lastCom \in [IMEIs -> Coms \cup {None}]
    /\ last \in [ICCIDs -> IMEIs \cup {None, Removed}]
    /\ pending \subseteq IMEIs \X ICCIDs
    /\ tainted \subseteq ICCIDs

\* No two SIMs have the same cached slot (the UNIQUE index of the column).
CacheUnique ==
    \A i, k \in ICCIDs : cache[i] # NoSlot /\ cache[i] = cache[k] => i = k

\* A database from before the bays existed: slot numbers were given to SIMs
\* by hand, and only some rows have an IMEI.
Init ==
    /\ up = FALSE /\ migrating = FALSE /\ todo = {}
    /\ rows \in SUBSET ICCIDs
    /\ rowIMEI \in [ICCIDs -> IMEIs \cup {None}]
    /\ cache \in [ICCIDs -> Slots \cup {NoSlot}]
    /\ \A i \in ICCIDs \ rows : rowIMEI[i] = None /\ cache[i] = NoSlot
    /\ CacheUnique
    /\ bays = {}
    /\ slot = [m \in IMEIs |-> NoSlot]
    /\ sim = [m \in IMEIs |-> None]
    /\ lastCom = [m \in IMEIs |-> None]
    /\ last = [i \in ICCIDs |-> None]
    /\ pending = {}
    /\ tainted = {}

-----------------------------------------------------------------------------
(* Slot inference (internal/slotlog/infer.go).                             *)

\* knownSlotPorts: the bays with a slot whose newest event names a port.
Known == {m \in bays : slot[m] # NoSlot /\ lastCom[m] # None}

\* The number of known slots that agree on an offset slot + COM.
Votes(off) ==
    Cardinality({m \in Known : lastCom[m] # 0 /\ slot[m] + lastCom[m] = off})

\* The offset most slots agree on, the smallest of them on a tie; 0 if none
\* has two votes.
BestOffset ==
    LET offs == {slot[m] + lastCom[m] : m \in {n \in Known : lastCom[n] # 0}}
        best == {o \in offs : /\ Votes(o) >= 2
                              /\ \A p \in offs : Votes(p) <= Votes(o)}
    IN IF best = {} THEN 0 ELSE CHOOSE o \in best : \A p \in best : o <= p

\* Mutant of InferSlot: the result is not checked against 1..32.
InferSlotUnbounded(c) ==
    IF c # 0 /\ BestOffset # 0 /\ \A m \in Known : slot[m] # BestOffset - c
    THEN BestOffset - c ELSE NoSlot

\* InferSlot for a modem seen on port COM c.
InferSlot(c) ==
    LET s == BestOffset - c
    IN IF /\ c # 0 /\ BestOffset # 0
          /\ s \in Slots
          /\ \A m \in Known : slot[m] # s
       THEN s ELSE NoSlot

-----------------------------------------------------------------------------
(* The cache.                                                              *)

\* Mutant of SyncSlotCache: the SIM that held the slot before keeps it.
SyncSlotCacheKeepsOther(i, s, gone) ==
    [k \in ICCIDs |->
        CASE k \in gone -> NoSlot
          [] k = i /\ k \notin gone -> IF i \in rows THEN s ELSE NoSlot
          [] OTHER -> cache[k]]

\* syncSlotCache for SIM i in slot s, then for the removed SIMs without slot.
SyncSlotCache(i, s, gone) ==
    [k \in ICCIDs |->
        CASE k \in gone -> NoSlot
          [] k = i /\ k \notin gone -> IF i \in rows THEN s ELSE NoSlot
          [] k # i /\ k \notin gone /\ cache[k] = s -> NoSlot
          [] OTHER -> cache[k]]

-----------------------------------------------------------------------------
(* Start of the program: MigrateFromModems, which inserts bay by bay,      *)
(* without a transaction around them.                                      *)

\* The list of the rows with a slot and an IMEI is read.
Start ==
    /\ ~up /\ ~migrating
    /\ migrating' = TRUE
    /\ todo' = {i \in rows : cache[i] # NoSlot /\ rowIMEI[i] # None}
    /\ UNCHANGED <<up, modemVars, bayVars, eventVars, pending, tainted>>

\* Mutant of Migratable: whether a bay has the slot is not asked.
MigratableTakesSlot(i) ==
    /\ \A k \in rows : rowIMEI[k] = rowIMEI[i] /\ cache[k] # NoSlot
                        => cache[i] <= cache[k]
    /\ rowIMEI[i] \notin bays

\* A row becomes a bay if it is the first of its IMEI in the order of the slots
\* and neither that bay nor that slot exists.
Migratable(i) ==
    /\ \A k \in rows : rowIMEI[k] = rowIMEI[i] /\ cache[k] # NoSlot
                        => cache[i] <= cache[k]
    /\ rowIMEI[i] \notin bays
    /\ \A m \in bays : slot[m] # cache[i]

\* The next row of the list, in the order of the slots.
Migrate(i) ==
    /\ migrating
    /\ i \in todo /\ \A k \in todo : cache[i] <= cache[k]
    /\ todo' = todo \ {i}
    /\ IF Migratable(i)
       THEN /\ bays' = bays \cup {rowIMEI[i]}
            /\ slot' = [slot EXCEPT ![rowIMEI[i]] = cache[i]]
            /\ sim' = [sim EXCEPT ![rowIMEI[i]] = i]
       ELSE UNCHANGED bayVars
    /\ UNCHANGED <<up, migrating, modemVars, eventVars, pending, tainted>>

\* The rows with a slot that no bay has, even after the migration.
Skipped == {i \in rows : cache[i] # NoSlot /\ \A m \in bays : slot[m] # cache[i]}

\* The migration is done; the workers are started later.
Started ==
    /\ migrating /\ todo = {}
    /\ up' = TRUE
    /\ migrating' = FALSE
    /\ tainted' = tainted \cup Skipped
    /\ UNCHANGED <<todo, modemVars, bayVars, eventVars, pending>>

\* The program ends, in the middle of the migration (Fatalf when an insert
\* failed, too) or whatever its workers were doing.
Crash ==
    /\ up \/ migrating
    /\ up' = FALSE /\ migrating' = FALSE /\ todo' = {}
    /\ pending' = {}
    /\ UNCHANGED <<modemVars, bayVars, eventVars, tainted>>

-----------------------------------------------------------------------------
(* The worker of modem m after it has read ICCID i.                        *)

\* ModemRepository.Upsert: a new row has no slot, an old one keeps its own.
Upsert(m, i) ==
    /\ up
    /\ <<m, i>> \notin pending /\ Cardinality(pending) < MaxPending
    /\ rows' = rows \cup {i}
    /\ rowIMEI' = [rowIMEI EXCEPT ![i] = m]
    /\ pending' = pending \cup {<<m, i>>}
    /\ UNCHANGED <<startVars, cache, bayVars, eventVars, tainted>>

\* The other bays that the database says hold i.
Elsewhere(m, i) == {o \in bays \ {m} : sim[o] = i}

\* Observe: the bay holds this SIM already.
ObserveSame(m, i) ==
    /\ <<m, i>> \in pending
    /\ m \in bays /\ sim[m] = i
    /\ pending' = pending \ {<<m, i>>}
    /\ UNCHANGED <<startVars, modemVars, bayVars, eventVars, tainted>>

\* Observe: a modem never seen before.  Its bay is created with the inferred
\* slot; the bay that held the SIM so far is left alone.  The UNIQUE index
\* makes the transaction fail when another bay has that slot.
ObserveNew(m, i, c) ==
    LET s == InferSlot(c) IN
    /\ <<m, i>> \in pending
    /\ m \notin bays
    /\ s = NoSlot \/ \A n \in bays : slot[n] # s
    /\ pending' = pending \ {<<m, i>>}
    /\ bays' = bays \cup {m}
    /\ slot' = [slot EXCEPT ![m] = s]
    /\ sim' = [sim EXCEPT ![m] = i]
    /\ lastCom' = [lastCom EXCEPT ![m] = c]
    /\ last' = [last EXCEPT ![i] = m]
    /\ cache' = SyncSlotCache(i, s, {})
    /\ tainted' = IF Elsewhere(m, i) # {} \/ i \notin rows
                  THEN tainted \cup {i} ELSE tainted
    /\ UNCHANGED <<startVars, rows, rowIMEI>>

\* The slot that Observe reports for a SIM that is new in the known bay m: one
\* is inferred for a bay without slot, if the first event is "inserted".
ObservedSlot(m, i, c) ==
    IF slot[m] = NoSlot /\ sim[m] = None /\ Elsewhere(m, i) = {}
    THEN InferSlot(c) ELSE slot[m]

\* Mutant of ObserveChanged: the bay a SIM moved from keeps it.
ObserveChangedKeepsOld(m, i, c) ==
    LET s == ObservedSlot(m, i, c) IN
    /\ <<m, i>> \in pending
    /\ m \in bays /\ sim[m] # i
    /\ pending' = pending \ {<<m, i>>}
    /\ sim' = [sim EXCEPT ![m] = i]
    /\ lastCom' = [lastCom EXCEPT ![m] = c]
    /\ last' = [k \in ICCIDs |-> CASE k = i -> m
                                   [] k # i /\ k = sim[m] -> Removed
                                   [] OTHER -> last[k]]
    /\ cache' = SyncSlotCache(i, s, {sim[m]} \cap ICCIDs)
    /\ tainted' = tainted \cup
                  (IF s # slot[m] THEN {i} \cup {k \in ICCIDs : cache[k] = s}
                   ELSE {i} \ rows)
    /\ UNCHANGED <<startVars, rows, rowIMEI, bays, slot>>

\* Observe: another SIM is in the known bay m.  The one that was there is
\* removed, and i is moved from the bay that held it or inserted.  If several
\* bays held i, the one the query returned last is vacated.  An inferred slot
\* goes to the event and to the cache; ON CONFLICT does not store it.
ObserveChanged(m, i, c) ==
    LET s == ObservedSlot(m, i, c) IN
    /\ <<m, i>> \in pending
    /\ m \in bays /\ sim[m] # i
    /\ pending' = pending \ {<<m, i>>}
    /\ \/ /\ Elsewhere(m, i) = {}
          /\ sim' = [sim EXCEPT ![m] = i]
       \/ \E o \in Elsewhere(m, i) : sim' = [sim EXCEPT ![m] = i, ![o] = None]
    /\ lastCom' = [lastCom EXCEPT ![m] = c]
    /\ last' = [k \in ICCIDs |-> CASE k = i -> m
                                   [] k # i /\ k = sim[m] -> Removed
                                   [] OTHER -> last[k]]
    /\ cache' = SyncSlotCache(i, s, {sim[m]} \cap ICCIDs)
    /\ tainted' = tainted \cup
                  (IF s # slot[m] THEN {i} \cup {k \in ICCIDs : cache[k] = s}
                   ELSE {i} \ rows)
    /\ UNCHANGED <<startVars, rows, rowIMEI, bays, slot>>

\* The transaction of Observe fails: logged, and nothing was written.
ObserveFails(m, i) ==
    /\ <<m, i>> \in pending
    /\ pending' = pending \ {<<m, i>>}
    /\ UNCHANGED <<startVars, modemVars, bayVars, eventVars, tainted>>

\* Mutant of MarkEmpty: the cached slot of the SIM is not cleared.
MarkEmptyKeepsCache(m, c) ==
    /\ up
    /\ m \in bays /\ sim[m] # None
    /\ last' = [last EXCEPT ![sim[m]] = Removed]
    /\ lastCom' = [lastCom EXCEPT ![m] = c]
    /\ sim' = [sim EXCEPT ![m] = None]
    /\ UNCHANGED <<startVars, rows, rowIMEI, cache, bays, slot, pending, tainted>>

\* MarkEmpty: the modem says that no SIM is inserted.
MarkEmpty(m, c) ==
    /\ up
    /\ m \in bays /\ sim[m] # None
    /\ last' = [last EXCEPT ![sim[m]] = Removed]
    /\ lastCom' = [lastCom EXCEPT ![m] = c]
    /\ cache' = [cache EXCEPT ![sim[m]] = NoSlot]
    /\ sim' = [sim EXCEPT ![m] = None]
    /\ UNCHANGED <<startVars, rows, rowIMEI, bays, slot, pending, tainted>>

-----------------------------------------------------------------------------
(* The administrator.                                                      *)

\* Mutant of AssignSlot: the check for ErrSlotTaken is missing, and so is the
\* UNIQUE index.
AssignSlotUnchecked(m, s) ==
    /\ up
    /\ m \in bays
    /\ slot' = [slot EXCEPT ![m] = s]
    /\ cache' = IF sim[m] = None THEN cache ELSE SyncSlotCache(sim[m], s, {})
    /\ UNCHANGED <<startVars, rows, rowIMEI, bays, sim, eventVars, pending, tainted>>

\* AssignSlot, with NoSlot to take the slot away from the bay.
AssignSlot(m, s) ==
    /\ up
    /\ m \in bays
    /\ s = NoSlot \/ \A n \in bays \ {m} : slot[n] # s
    /\ slot' = [slot EXCEPT ![m] = s]
    /\ cache' = IF sim[m] = None THEN cache ELSE SyncSlotCache(sim[m], s, {})
    /\ UNCHANGED <<startVars, rows, rowIMEI, bays, sim, eventVars, pending, tainted>>

\* The part of DeleteModem that concerns the tray: the bays of the SIM become
\* empty, without an event, and its row goes.
DeleteModem(i) ==
    /\ up
    /\ sim' = [m \in IMEIs |-> IF sim[m] = i THEN None ELSE sim[m]]
    /\ rows' = rows \ {i}
    /\ rowIMEI' = [rowIMEI EXCEPT ![i] = None]
    /\ cache' = [cache EXCEPT ![i] = NoSlot]
    /\ tainted' = tainted \ {i}
    /\ UNCHANGED <<startVars, bays, slot, eventVars, pending>>

-----------------------------------------------------------------------------
Observe(m, i) ==
    \/ ObserveSame(m, i)
    \/ \E c \in Coms : ObserveNew(m, i, c) \/ ObserveChanged(m, i, c)
    \/ ObserveFails(m, i)

Next ==
    \/ Start \/ Started \/ Crash
    \/ \E i \in ICCIDs : Migrate(i)
    \/ \E m \in IMEIs, i \in ICCIDs : Upsert(m, i) \/ Observe(m, i)
    \/ \E m \in IMEIs, c \in Coms : MarkEmpty(m, c)
    \/ \E m \in IMEIs, s \in Slots \cup {NoSlot} : AssignSlot(m, s)
    \/ \E i \in ICCIDs : DeleteModem(i)

Spec == Init /\ [][Next]_vars

-----------------------------------------------------------------------------
(* Properties.  A SIM is tainted once it was touched by one of these:      *)
(* - its modem was unknown while another bay was recorded as holding it,   *)
(*   so that two bays hold it (accepted in docs/specs/sim-slot-history.md) *)
(* - its row was deleted between Upsert and Observe;                       *)
(* - an inferred slot was cached and not stored in its bay, or was cached  *)
(*   although the bay of this SIM has it;                                  *)
(* - its hand-given slot could not be migrated to a bay.                   *)

\* No two bays have the same slot number, whoever assigned, inferred or
\* migrated them.
SlotsUnique ==
    \A m, n \in bays : slot[m] # NoSlot /\ slot[m] = slot[n] => m = n

\* The cache agrees with the bays for every SIM that is not tainted.
InSync ==
    \A i \in rows \ tainted :
        /\ \A m \in bays : sim[m] = i => cache[i] = slot[m]
        /\ cache[i] # NoSlot => \E m \in bays : sim[m] = i /\ slot[m] = cache[i]

\* The slot number shown for a SIM is that of the bay that holds it, and a SIM
\* in no bay shows none: the cache in modems follows modem_bays through every
\* swap, calibration, deletion and restart, for the SIMs that are not tainted.
CacheFollowsBay == up => InSync

\* A SIM that is not tainted is in at most one bay.
InOneBay ==
    \A m, n \in bays : sim[m] = sim[n] /\ sim[m] \notin tainted \cup {None}
                       => m = n

\* The newest event of a SIM that is not tainted tells where it is: it never
\* says removed, or another bay, of a SIM that a bay holds.
HistoryMatchesBays ==
    \A m \in bays : sim[m] \notin tainted \cup {None}
                    => last[sim[m]] \in {None, m}

\* What absent rows look like; a SIM in a bay has a row in modems.
Shape ==
    /\ \A m \in IMEIs \ bays : slot[m] = NoSlot /\ sim[m] = None
    /\ \A i \in ICCIDs \ rows : cache[i] = NoSlot
    /\ \A m \in bays : sim[m] \in rows \cup tainted \cup {None}
    /\ pending # {} => up

\* The migration is over before the workers run.
MigrationFirst ==
    /\ todo \subseteq {i \in rows : cache[i] # NoSlot /\ rowIMEI[i] # None}
    /\ up => ~migrating
    /\ ~migrating => todo = {}

\* Until its first migration is done, interrupted however often, the program has
\* no event, and its bays are those of some of the rows with a slot.
Unmigrated ==
    /\ ~up /\ tainted = {}
    /\ \A i \in ICCIDs : last[i] = None
    /\ \A m \in bays : /\ sim[m] \in rows /\ rowIMEI[sim[m]] = m
                       /\ slot[m] # NoSlot /\ slot[m] = cache[sim[m]]

\* The inductive invariant.
IInv ==
    /\ TypeOK /\ Shape /\ MigrationFirst
    /\ CacheUnique /\ SlotsUnique /\ InOneBay /\ HistoryMatchesBays
    /\ InSync \/ Unmigrated
=============================================================================
