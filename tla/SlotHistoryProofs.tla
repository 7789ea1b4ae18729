------------------------- MODULE SlotHistoryProofs -------------------------
(***************************************************************************)
(* Proofs about SlotHistory for every set of modems and SIMs and every     *)
(* number of slots and ports: the inductive invariant IInv, and from it    *)
(* the uniqueness of slot numbers, the agreement of the cached slot with   *)
(* the bays, and the agreement of the history with the bays.               *)
(***************************************************************************)
EXTENDS SlotHistory, TLAPS

USE SlotHistoryAssumption DEF Slots, NoSlot

\* An inferred slot is a slot number in range, or none.
LEMMA InferSlotType ==
    ASSUME NEW c \in Coms
    PROVE InferSlot(c) \in Slots \cup {NoSlot}
BY DEF InferSlot

\* syncSlotCache keeps cached slots distinct, and changes only the cache of the
\* SIM itself, of the removed SIMs and of the SIM that had the slot.
LEMMA SyncSlotCacheFacts ==
    ASSUME TypeOK, CacheUnique,
           NEW i \in ICCIDs, NEW s \in Slots \cup {NoSlot}, NEW gone \in SUBSET ICCIDs
    PROVE LET d == SyncSlotCache(i, s, gone) IN
        /\ d \in [ICCIDs -> Slots \cup {NoSlot}]
        /\ \A j, k \in ICCIDs : d[j] # NoSlot /\ d[j] = d[k] => j = k
        /\ i \notin gone => d[i] = IF i \in rows THEN s ELSE NoSlot
        /\ \A k \in ICCIDs \ {i} :
            d[k] = IF k \in gone \/ cache[k] = s THEN NoSlot ELSE cache[k]
<1> DEFINE d == SyncSlotCache(i, s, gone)
<1>1. \A k \in ICCIDs : d[k] \in {NoSlot, s, cache[k]}
  BY DEF SyncSlotCache
<1>2. d \in [ICCIDs -> Slots \cup {NoSlot}]
  BY DEF SyncSlotCache, TypeOK
<1>3. i \notin gone => d[i] = IF i \in rows THEN s ELSE NoSlot
  BY DEF SyncSlotCache
<1>4. \A k \in ICCIDs \ {i} :
        d[k] = IF k \in gone \/ cache[k] = s THEN NoSlot ELSE cache[k]
  BY DEF SyncSlotCache
<1>5. d[i] \in {NoSlot, s}
  BY DEF SyncSlotCache
<1>6. \A j, k \in ICCIDs : d[j] # NoSlot /\ d[j] = d[k] => j = k
  BY <1>4, <1>5 DEF CacheUnique
<1> QED BY <1>2, <1>3, <1>4, <1>6

\* The invariant holds in a database from before the bays.
LEMMA InitIInv == Init => IInv
BY DEF Init, IInv, TypeOK, Shape, MigrationFirst, CacheUnique, SlotsUnique, InOneBay,
       HistoryMatchesBays, Unmigrated

\* The workers run after the migration only, so that none of their steps meets it.
LEMMA WorkKeepsMigration ==
    ASSUME MigrationFirst, up, UNCHANGED startVars
    PROVE MigrationFirst'
BY DEF MigrationFirst, startVars

\* The start of a migration, and the end of the program in the middle of it or
\* later, write nothing.
LEMMA StartIInv == ASSUME IInv, Start \/ Crash PROVE IInv'
<1> USE DEF IInv, modemVars, bayVars, eventVars
<1>1. /\ bays' = bays /\ slot' = slot /\ sim' = sim /\ cache' = cache
      /\ rows' = rows /\ rowIMEI' = rowIMEI
      /\ last' = last /\ lastCom' = lastCom /\ tainted' = tainted
      /\ up' = FALSE /\ pending' = {}
  BY DEF Start, Crash, Shape, TypeOK
<1>2. /\ migrating' \in BOOLEAN
      /\ todo' \subseteq {i \in rows : cache[i] # NoSlot /\ rowIMEI[i] # None}
      /\ ~migrating' => todo' = {}
  BY DEF Start, Crash
<1>3. TypeOK'
  BY <1>1, <1>2 DEF TypeOK
<1>4. Shape' /\ MigrationFirst'
  BY <1>1, <1>2 DEF Shape, MigrationFirst
<1>5. CacheUnique' /\ SlotsUnique' /\ InOneBay' /\ HistoryMatchesBays'
  BY <1>1 DEF CacheUnique, SlotsUnique, InOneBay, HistoryMatchesBays
<1>6. (InSync \/ Unmigrated)'
  BY <1>1 DEF InSync, Unmigrated
<1> QED BY <1>3, <1>4, <1>5, <1>6

\* One row of the migration.  In a database from before the bays the new bay
\* agrees with its row; later a bay is created only for a tainted SIM.
LEMMA MigrateIInv ==
    ASSUME IInv, NEW i \in ICCIDs, Migrate(i)
    PROVE IInv'
<1> USE DEF IInv
<1>1. /\ migrating /\ ~up /\ i \in rows /\ i \in ICCIDs /\ i # None
      /\ cache[i] # NoSlot /\ cache[i] \in Slots /\ rowIMEI[i] \in IMEIs
      /\ rows \subseteq ICCIDs /\ bays \subseteq IMEIs
  BY DEF Migrate, MigrationFirst, TypeOK
<1>2. /\ rows' = rows /\ rowIMEI' = rowIMEI /\ cache' = cache
      /\ lastCom' = lastCom /\ last' = last /\ pending' = pending
      /\ up' = up /\ migrating' = migrating /\ todo' \subseteq todo
      /\ tainted' = tainted
  BY DEF Migrate, modemVars, eventVars
<1>3. MigrationFirst'
  BY <1>1, <1>2 DEF MigrationFirst
<1>4. CASE ~Migratable(i)
  <2>1. bays' = bays /\ slot' = slot /\ sim' = sim
    BY <1>4 DEF Migrate, bayVars
  <2>2. TypeOK' /\ Shape' /\ CacheUnique' /\ SlotsUnique'
    BY <1>1, <1>2, <2>1 DEF TypeOK, Shape, CacheUnique, SlotsUnique
  <2>3. InOneBay' /\ HistoryMatchesBays' /\ (InSync \/ Unmigrated)'
    BY <1>2, <2>1 DEF InOneBay, HistoryMatchesBays, InSync, Unmigrated
  <2> QED BY <1>3, <2>2, <2>3
<1>5. CASE Migratable(i)
  <2> DEFINE m == rowIMEI[i]
  <2>1. /\ m \in IMEIs /\ m \notin bays /\ \A n \in bays : slot[n] # cache[i]
        /\ bays' = bays \cup {m}
        /\ slot' = [slot EXCEPT ![m] = cache[i]]
        /\ sim' = [sim EXCEPT ![m] = i]
    BY <1>1, <1>5 DEF Migrate, Migratable
  <2>2. /\ slot'[m] = cache[i] /\ sim'[m] = i
        /\ \A n \in IMEIs \ {m} : slot'[n] = slot[n] /\ sim'[n] = sim[n]
        /\ \A n \in bays : n \in IMEIs /\ n # m /\ slot'[n] = slot[n] /\ sim'[n] = sim[n]
    BY <1>1, <2>1 DEF TypeOK
  <2>3. TypeOK'
    BY <1>1, <1>2, <2>1 DEF TypeOK
  <2>4. m = rowIMEI[i]
    OBVIOUS
  <2> HIDE DEF m
  <2>5. Shape' /\ CacheUnique' /\ SlotsUnique'
    BY <1>1, <1>2, <2>1, <2>2 DEF Shape, CacheUnique, SlotsUnique
  <2>6. CASE InSync
    <3>1. i \in tainted
      BY <1>1, <2>1, <2>6 DEF InSync
    <3>2. InOneBay'
      BY <1>2, <2>1, <2>2, <3>1 DEF InOneBay
    <3>3. HistoryMatchesBays'
      BY <1>2, <2>1, <2>2, <3>1 DEF HistoryMatchesBays
    <3>4. InSync'
      BY <1>2, <2>1, <2>2, <2>6, <3>1 DEF InSync
    <3> QED BY <1>3, <2>3, <2>5, <3>2, <3>3, <3>4
  <2>7. CASE Unmigrated
    <3>1. \A n \in bays : sim[n] # i /\ sim[n] \in ICCIDs
      BY <1>1, <2>1, <2>4, <2>7 DEF Unmigrated
    <3>2. InOneBay'
      BY <1>2, <2>1, <2>2, <3>1 DEF InOneBay
    <3>3. HistoryMatchesBays'
      BY <1>1, <1>2, <2>1, <2>2, <2>7, <3>1 DEF HistoryMatchesBays, Unmigrated
    <3>4. Unmigrated'
      BY <1>1, <1>2, <2>1, <2>2, <2>4, <2>7 DEF Unmigrated
    <3> QED BY <1>3, <2>3, <2>5, <3>2, <3>3, <3>4
  <2> QED BY <2>6, <2>7
<1> QED BY <1>4, <1>5

\* The end of the migration: what no bay took over is tainted, the rest agrees.
LEMMA StartedIInv == ASSUME IInv, Started PROVE IInv'
<1> USE DEF IInv
<1>1. /\ bays' = bays /\ slot' = slot /\ sim' = sim /\ cache' = cache
      /\ rows' = rows /\ rowIMEI' = rowIMEI /\ pending' = pending
      /\ last' = last /\ lastCom' = lastCom
      /\ up' = TRUE /\ migrating' = FALSE /\ todo' = {}
      /\ tainted' = tainted \cup Skipped
  BY DEF Started, modemVars, bayVars, eventVars
<1>2. Skipped \subseteq ICCIDs /\ rows \subseteq ICCIDs
  BY DEF Skipped, TypeOK
<1>3. TypeOK'
  BY <1>1, <1>2 DEF TypeOK
<1>4. Shape' /\ MigrationFirst'
  BY <1>1 DEF Shape, MigrationFirst
<1>5. CacheUnique' /\ SlotsUnique' /\ InOneBay' /\ HistoryMatchesBays'
  BY <1>1 DEF CacheUnique, SlotsUnique, InOneBay, HistoryMatchesBays
<1>6. InSync'
  <2>1. CASE InSync
    BY <1>1, <2>1 DEF InSync
  <2>2. CASE Unmigrated
    <3> SUFFICES ASSUME NEW i \in rows \ Skipped
                 PROVE /\ \A m \in bays : sim[m] = i => cache[i] = slot[m]
                       /\ cache[i] # NoSlot =>
                            \E m \in bays : sim[m] = i /\ slot[m] = cache[i]
      BY <1>1 DEF InSync
    <3>1. ASSUME cache[i] # NoSlot
          PROVE \E m \in bays : sim[m] = i /\ slot[m] = cache[i]
      <4>1. PICK m \in bays : slot[m] = cache[i]
        BY <3>1 DEF Skipped
      <4>2. sim[m] \in ICCIDs /\ i \in ICCIDs /\ cache[sim[m]] = cache[i]
        BY <1>2, <2>2, <4>1 DEF Unmigrated
      <4> QED BY <3>1, <4>1, <4>2 DEF CacheUnique
    <3> QED BY <2>2, <3>1 DEF Unmigrated
  <2> QED BY <2>1, <2>2
<1> QED BY <1>3, <1>4, <1>5, <1>6

\* The steps that write neither a bay nor the cache.
LEMMA QuietIInv ==
    ASSUME IInv, NEW m \in IMEIs, NEW i \in ICCIDs,
           Upsert(m, i) \/ ObserveSame(m, i) \/ ObserveFails(m, i)
    PROVE IInv'
<1> USE DEF IInv, startVars, modemVars, bayVars, eventVars
<1>1. InSync /\ bays' = bays /\ slot' = slot /\ sim' = sim /\ cache' = cache
      /\ last' = last /\ lastCom' = lastCom /\ tainted' = tainted
  BY DEF Upsert, ObserveSame, ObserveFails, Unmigrated, Shape
<1>0. MigrationFirst' /\ up' = up /\ migrating' = migrating /\ todo' = todo
  <2>1. up /\ UNCHANGED startVars
    BY DEF Upsert, ObserveSame, ObserveFails, Shape
  <2> QED BY <2>1, WorkKeepsMigration
<1>2. TypeOK'
  <2>1. /\ rows' \subseteq ICCIDs
        /\ rowIMEI' \in [ICCIDs -> IMEIs \cup {None}]
        /\ pending' \subseteq IMEIs \X ICCIDs
    <3>1. CASE Upsert(m, i)
      BY <3>1 DEF TypeOK, Upsert
    <3>3. CASE ObserveSame(m, i) \/ ObserveFails(m, i)
      BY <3>3 DEF TypeOK, ObserveSame, ObserveFails
    <3> QED BY <3>1, <3>3
  <2> QED BY <1>0, <1>1, <2>1 DEF TypeOK
<1>3. Shape' /\ InSync'
  <2>1. CASE Upsert(m, i)
    <3>1. rows' = rows \cup {i} /\ up /\ up' = up
      BY <2>1 DEF Upsert
    <3>2. Shape'
      BY <1>1, <3>1 DEF Shape
    <3>3. i \notin rows \cup tainted => \A n \in bays : sim[n] # i
      BY DEF Shape, TypeOK
    <3> QED BY <1>1, <3>1, <3>2, <3>3 DEF Shape, InSync
  <2>2. CASE ObserveSame(m, i) \/ ObserveFails(m, i)
    <3>1. rows' = rows /\ (pending' # {} => pending # {} /\ up' = up)
      BY <2>2 DEF ObserveSame, ObserveFails
    <3> QED BY <1>1, <3>1 DEF Shape, InSync
  <2> QED BY <2>1, <2>2
<1>4. CacheUnique' /\ SlotsUnique' /\ InOneBay' /\ HistoryMatchesBays'
  BY <1>1 DEF CacheUnique, SlotsUnique, InOneBay, HistoryMatchesBays
<1> QED BY <1>0, <1>2, <1>3, <1>4

\* A modem that was never seen before is observed.
LEMMA ObserveNewIInv ==
    ASSUME IInv, NEW m \in IMEIs, NEW i \in ICCIDs, NEW c \in Coms,
           ObserveNew(m, i, c)
    PROVE IInv'
<1> USE DEF IInv
<1> DEFINE s == InferSlot(c)
<1>1. s \in Slots \cup {NoSlot}
  BY InferSlotType
<1> HIDE DEF s
<1>2. /\ m \notin bays /\ (s = NoSlot \/ \A n \in bays : slot[n] # s)
      /\ bays' = bays \cup {m} /\ UNCHANGED startVars /\ rows' = rows /\ rowIMEI' = rowIMEI
      /\ slot' = [slot EXCEPT ![m] = s] /\ sim' = [sim EXCEPT ![m] = i]
      /\ lastCom' = [lastCom EXCEPT ![m] = c] /\ last' = [last EXCEPT ![i] = m]
      /\ cache' = SyncSlotCache(i, s, {})
      /\ pending' \subseteq pending /\ pending # {}
      /\ tainted \subseteq tainted' /\ tainted' \subseteq tainted \cup {i}
      /\ i \notin tainted' => i \in rows /\ Elsewhere(m, i) = {}
  BY DEF ObserveNew, s
<1>3. up /\ InSync /\ MigrationFirst'
  <2>1. up /\ InSync
    BY <1>2 DEF Shape, Unmigrated
  <2> QED BY <1>2, <2>1, WorkKeepsMigration
<1>4. /\ cache' \in [ICCIDs -> Slots \cup {NoSlot}]
      /\ CacheUnique'
      /\ cache'[i] = IF i \in rows THEN s ELSE NoSlot
      /\ \A k \in ICCIDs \ {i} :
            cache'[k] = IF cache[k] = s THEN NoSlot ELSE cache[k]
  <2>1. {} \in SUBSET ICCIDs /\ i \notin {}
    OBVIOUS
  <2> QED BY <1>1, <1>2, <2>1, SyncSlotCacheFacts DEF CacheUnique
<1>5. TypeOK'
  BY <1>1, <1>2, <1>4 DEF TypeOK, startVars
<1>6. /\ \A n \in bays : n # m /\ n \in IMEIs /\ slot'[n] = slot[n] /\ sim'[n] = sim[n]
      /\ \A n \in IMEIs \ {m} : slot'[n] = slot[n] /\ sim'[n] = sim[n]
      /\ slot'[m] = s /\ sim'[m] = i
      /\ i \notin tainted' => \A n \in bays : sim[n] # i
  BY <1>2 DEF TypeOK, Elsewhere
<1>7. SlotsUnique'
  BY <1>2, <1>6 DEF SlotsUnique
<1>8. InOneBay'
  BY <1>2, <1>6 DEF InOneBay
<1>9. HistoryMatchesBays'
  BY <1>2, <1>6 DEF HistoryMatchesBays, TypeOK
<1>10. Shape'
  BY <1>2, <1>3, <1>4, <1>6 DEF Shape, TypeOK, startVars
<1>11. InSync'
  <2> SUFFICES ASSUME NEW k \in rows \ tainted'
               PROVE /\ \A n \in bays' : sim'[n] = k => cache'[k] = slot'[n]
                     /\ cache'[k] # NoSlot =>
                          \E n \in bays' : sim'[n] = k /\ slot'[n] = cache'[k]
    BY <1>2 DEF InSync
  <2>1. CASE k = i
    BY <1>2, <1>4, <1>6, <2>1
  <2>2. CASE k # i
    <3>1. /\ k \in ICCIDs /\ k \in rows \ tainted
          /\ \A n \in bays : sim[n] = k => cache[k] = slot[n]
          /\ cache[k] # NoSlot => \E n \in bays : sim[n] = k /\ slot[n] = cache[k]
      BY <1>2, <1>3 DEF InSync, TypeOK
    <3>2. cache'[k] = cache[k]
      BY <1>2, <1>4, <2>2, <3>1
    <3> QED BY <1>2, <1>6, <2>2, <3>1, <3>2
  <2> QED BY <2>1, <2>2
<1> QED BY <1>3, <1>4, <1>5, <1>7, <1>8, <1>9, <1>10, <1>11

\* Another SIM is observed in a known bay.
LEMMA ObserveChangedIInv ==
    ASSUME IInv, NEW m \in IMEIs, NEW i \in ICCIDs, NEW c \in Coms,
           ObserveChanged(m, i, c)
    PROVE IInv'
<1> USE DEF IInv
<1> DEFINE s == ObservedSlot(m, i, c)
           gone == {sim[m]} \cap ICCIDs
<1>1. s \in Slots \cup {NoSlot}
  BY InferSlotType DEF ObservedSlot, TypeOK
<1> HIDE DEF s
<1>2. /\ m \in bays /\ sim[m] # i
      /\ bays' = bays /\ UNCHANGED startVars /\ rows' = rows /\ rowIMEI' = rowIMEI
      /\ slot' = slot
      /\ lastCom' = [lastCom EXCEPT ![m] = c]
      /\ cache' = SyncSlotCache(i, s, gone)
      /\ pending' \subseteq pending /\ pending # {}
      /\ tainted' = tainted \cup
                    (IF s # slot[m] THEN {i} \cup {k \in ICCIDs : cache[k] = s}
                     ELSE {i} \ rows)
  BY DEF ObserveChanged, s
<1>3. up /\ InSync /\ MigrationFirst'
  <2>1. up /\ InSync
    BY <1>2 DEF Shape, Unmigrated
  <2> QED BY <1>2, <2>1, WorkKeepsMigration
<1>4. /\ cache' \in [ICCIDs -> Slots \cup {NoSlot}]
      /\ CacheUnique'
      /\ cache'[i] = IF i \in rows THEN s ELSE NoSlot
      /\ \A k \in ICCIDs \ {i} :
            cache'[k] = IF k \in gone \/ cache[k] = s THEN NoSlot ELSE cache[k]
  <2>1. gone \in SUBSET ICCIDs /\ i \notin gone
    BY <1>2
  <2> HIDE DEF gone
  <2> QED BY <1>1, <1>2, <2>1, SyncSlotCacheFacts DEF CacheUnique
\* The effect on sim: i is in m, the old SIM of m is gone from it, every other
\* bay keeps its SIM or loses i.
<1>5. /\ sim' \in [IMEIs -> ICCIDs \cup {None}]
      /\ sim'[m] = i
      /\ \A n \in IMEIs \ {m} :
            sim'[n] = sim[n] \/ (sim'[n] = None /\ sim[n] = i /\ n \in bays)
  <2>a. sim \in [IMEIs -> ICCIDs \cup {None}]
    BY DEF TypeOK
  <2> HIDE DEF IInv
  <2>1. CASE Elsewhere(m, i) = {} /\ sim' = [sim EXCEPT ![m] = i]
    BY <2>a, <2>1
  <2>2. CASE \E o \in Elsewhere(m, i) : sim' = [sim EXCEPT ![m] = i, ![o] = None]
    <3>1. PICK o \in Elsewhere(m, i) : sim' = [sim EXCEPT ![m] = i, ![o] = None]
      BY <2>2
    <3>2. o \in bays /\ o \in IMEIs /\ o # m /\ sim[o] = i
      BY DEF Elsewhere, TypeOK, IInv
    <3> QED BY <2>a, <3>1, <3>2
  <2> QED BY <2>1, <2>2 DEF ObserveChanged
\* No bay but m has an untainted i afterwards.
<1>6. i \notin tainted => \A n \in bays \ {m} : sim'[n] # i
  <2> SUFFICES ASSUME i \notin tainted, NEW n \in bays \ {m}, sim'[n] = i
               PROVE FALSE
    OBVIOUS
  <2>1. n \in IMEIs /\ sim[n] = i /\ i # None
    BY <1>5 DEF TypeOK
  <2>2. n \in Elsewhere(m, i) /\ \A o \in Elsewhere(m, i) : o = n
    BY <2>1 DEF Elsewhere, InOneBay
  <2>3. sim' = [sim EXCEPT ![m] = i, ![n] = None]
    BY <2>2 DEF ObserveChanged
  <2> QED BY <2>1, <2>3 DEF TypeOK
<1>7. /\ last' \in [ICCIDs -> IMEIs \cup {None, Removed}]
      /\ last'[i] = m
      /\ \A k \in ICCIDs \ {i} : k # sim[m] => last'[k] = last[k]
  BY DEF ObserveChanged, TypeOK
<1>8. TypeOK'
  <2>1. tainted' \subseteq ICCIDs
    BY <1>2 DEF TypeOK
  <2> QED BY <1>2, <1>4, <1>5, <1>7, <2>1 DEF TypeOK, startVars
<1>9. Shape'
  <2>1. tainted \subseteq tainted' /\ i \in rows \cup tainted'
    BY <1>2
  <2>2. \A n \in IMEIs \ bays' : slot'[n] = NoSlot /\ sim'[n] = None
    BY <1>2, <1>5 DEF Shape
  <2>3. \A k \in ICCIDs \ rows' : cache'[k] = NoSlot
    BY <1>2, <1>3, <1>4 DEF Shape
  <2>4. \A n \in bays' : sim'[n] \in rows' \cup tainted' \cup {None}
    BY <1>2, <1>5, <2>1 DEF Shape, TypeOK
  <2>5. pending' # {} => up'
    BY <1>2 DEF Shape, startVars
  <2> QED BY <2>2, <2>3, <2>4, <2>5 DEF Shape
<1>10. SlotsUnique'
  BY <1>2 DEF SlotsUnique
<1>11. InOneBay'
  BY <1>2, <1>5, <1>6 DEF InOneBay, TypeOK
<1>12. HistoryMatchesBays'
  <2> SUFFICES ASSUME NEW n \in bays, sim'[n] \notin tainted' \cup {None}
               PROVE last'[sim'[n]] \in {None, n}
    BY <1>2 DEF HistoryMatchesBays
  <2>1. CASE n = m
    BY <1>5, <1>7, <2>1
  <2>2. CASE n # m
    <3>1. n \in IMEIs /\ sim'[n] = sim[n] /\ sim[n] \in ICCIDs /\ sim[n] # i
          /\ sim[n] \notin tainted
      BY <1>2, <1>5, <1>6, <2>2 DEF TypeOK
    <3>2. sim[n] # sim[m]
      BY <1>2, <2>2, <3>1 DEF InOneBay, TypeOK
    <3> QED BY <1>7, <3>1, <3>2 DEF HistoryMatchesBays
  <2> QED BY <2>1, <2>2
<1>13. InSync'
  <2> SUFFICES ASSUME NEW k \in rows \ tainted'
               PROVE /\ \A n \in bays : sim'[n] = k => cache'[k] = slot[n]
                     /\ cache'[k] # NoSlot =>
                          \E n \in bays : sim'[n] = k /\ slot[n] = cache'[k]
    <3>1. rows' = rows /\ bays' = bays /\ slot' = slot
      BY <1>2
    <3> HIDE DEF IInv
    <3> QED BY <3>1 DEF InSync
  <2>1. /\ k \in ICCIDs /\ k # None /\ k \in rows \ tainted
        /\ \A n \in bays : sim[n] = k => cache[k] = slot[n]
        /\ cache[k] # NoSlot => \E n \in bays : sim[n] = k /\ slot[n] = cache[k]
    BY <1>2, <1>3 DEF InSync, TypeOK
  <2>2. CASE k = i
    <3>1. s = slot[m]
      BY <1>2, <2>2
    <3> QED BY <1>2, <1>4, <1>5, <1>6, <2>1, <2>2, <3>1
  <2>3. CASE k # i /\ k = sim[m]
    <3>1. cache'[k] = NoSlot
      BY <1>4, <2>1, <2>3
    <3>2. \A n \in bays : sim'[n] # k
      BY <1>2, <1>5, <2>1, <2>3 DEF InOneBay, TypeOK
    <3> QED BY <3>1, <3>2
  <2>4. CASE k # i /\ k # sim[m]
    <3>1. \A n \in bays : sim[n] = k <=> sim'[n] = k
      BY <1>5, <2>1, <2>4 DEF TypeOK
    <3>2. cache[k] # NoSlot => cache[k] # s
      <4>1. CASE s # slot[m]
        BY <1>2, <2>1, <4>1
      <4>2. CASE s = slot[m]
        BY <1>2, <2>1, <2>4, <4>2 DEF SlotsUnique
      <4> QED BY <4>1, <4>2
    <3>3. cache'[k] = cache[k]
      BY <1>4, <2>1, <2>4, <3>2
    <3> QED BY <2>1, <3>1, <3>3
  <2> QED BY <2>2, <2>3, <2>4
<1> QED BY <1>3, <1>4, <1>8, <1>9, <1>10, <1>11, <1>12, <1>13

\* A bay is found empty.
LEMMA MarkEmptyIInv ==
    ASSUME IInv, NEW m \in IMEIs, NEW c \in Coms, MarkEmpty(m, c)
    PROVE IInv'
<1> USE DEF IInv
<1>1. InSync /\ sim[m] \in ICCIDs /\ sim[m] # None
  BY DEF MarkEmpty, Unmigrated, TypeOK
<1>0. MigrationFirst'
  BY WorkKeepsMigration DEF MarkEmpty
<1>2. TypeOK'
  BY <1>1 DEF MarkEmpty, TypeOK, startVars
<1>3. /\ sim'[m] = None /\ \A n \in IMEIs \ {m} : sim'[n] = sim[n]
      /\ bays' = bays /\ slot' = slot /\ rows' = rows /\ tainted' = tainted
      /\ cache'[sim[m]] = NoSlot
      /\ \A k \in ICCIDs : k # sim[m] => cache'[k] = cache[k] /\ last'[k] = last[k]
      /\ bays \subseteq IMEIs /\ rows \subseteq ICCIDs
  BY <1>1 DEF MarkEmpty, TypeOK
<1>4. Shape'
  BY <1>3 DEF Shape, MarkEmpty, TypeOK, startVars
<1>5. CacheUnique' /\ SlotsUnique' /\ InOneBay'
  BY <1>1, <1>3 DEF CacheUnique, SlotsUnique, InOneBay
<1>6. HistoryMatchesBays'
  BY <1>1, <1>3 DEF HistoryMatchesBays, InOneBay, TypeOK, MarkEmpty
<1>7. InSync'
  <2> SUFFICES ASSUME NEW k \in rows \ tainted
               PROVE /\ \A n \in bays : sim'[n] = k => cache'[k] = slot[n]
                     /\ cache'[k] # NoSlot =>
                          \E n \in bays : sim'[n] = k /\ slot[n] = cache'[k]
    BY <1>3 DEF InSync
  <2>1. k \in ICCIDs /\ k # None
    BY <1>3
  <2>2. CASE k = sim[m]
    <3>1. \A n \in bays : sim'[n] # k
      BY <1>1, <1>3, <2>1, <2>2 DEF InOneBay, MarkEmpty
    <3> QED BY <1>3, <2>2, <3>1
  <2>3. CASE k # sim[m]
    <3>1. \A n \in bays : sim[n] = k <=> sim'[n] = k
      BY <1>3, <2>1, <2>3
    <3> QED BY <1>1, <1>3, <2>1, <2>3, <3>1 DEF InSync
  <2> QED BY <2>2, <2>3
<1> QED BY <1>0, <1>2, <1>4, <1>5, <1>6, <1>7

\* A slot is assigned to a bay or taken from it.
LEMMA AssignSlotIInv ==
    ASSUME IInv, NEW m \in IMEIs, NEW s \in Slots \cup {NoSlot}, AssignSlot(m, s)
    PROVE IInv'
<1> USE DEF IInv
<1>1. /\ InSync /\ m \in bays /\ up
      /\ s = NoSlot \/ \A n \in bays \ {m} : slot[n] # s
      /\ slot'[m] = s /\ \A n \in IMEIs \ {m} : slot'[n] = slot[n]
      /\ slot' \in [IMEIs -> Slots \cup {NoSlot}]
      /\ bays' = bays /\ sim' = sim /\ rows' = rows /\ tainted' = tainted
      /\ last' = last /\ lastCom' = lastCom /\ rowIMEI' = rowIMEI
      /\ UNCHANGED startVars /\ pending' = pending
      /\ bays \subseteq IMEIs /\ rows \subseteq ICCIDs
  BY DEF AssignSlot, Unmigrated, TypeOK, eventVars
<1>0. MigrationFirst'
  BY <1>1, WorkKeepsMigration
<1>2. /\ cache' \in [ICCIDs -> Slots \cup {NoSlot}]
      /\ CacheUnique'
      /\ sim[m] \in rows => cache'[sim[m]] = s
      /\ sim[m] \in ICCIDs \ rows => cache'[sim[m]] = NoSlot
      /\ \A k \in ICCIDs : k # sim[m] =>
            cache'[k] = cache[k]
            \/ (cache'[k] = NoSlot /\ cache[k] = s /\ sim[m] # None)
  <2>1. CASE sim[m] = None
    BY <1>1, <2>1 DEF AssignSlot, TypeOK, CacheUnique
  <2>2. CASE sim[m] # None
    <3>1. /\ sim[m] \in ICCIDs /\ cache' = SyncSlotCache(sim[m], s, {})
          /\ {} \in SUBSET ICCIDs /\ sim[m] \notin {}
      BY <2>2 DEF AssignSlot, TypeOK
    <3>2. /\ cache' \in [ICCIDs -> Slots \cup {NoSlot}]
          /\ \A j, k \in ICCIDs : cache'[j] # NoSlot /\ cache'[j] = cache'[k] => j = k
          /\ cache'[sim[m]] = IF sim[m] \in rows THEN s ELSE NoSlot
          /\ \A k \in ICCIDs \ {sim[m]} :
                cache'[k] = IF cache[k] = s THEN NoSlot ELSE cache[k]
      BY <3>1, SyncSlotCacheFacts
    <3> QED BY <2>2, <3>1, <3>2 DEF CacheUnique
  <2> QED BY <2>1, <2>2
<1>3. TypeOK'
  BY <1>1, <1>2 DEF TypeOK, startVars
<1>4. Shape'
  BY <1>1, <1>2 DEF Shape, TypeOK, startVars
<1>5. SlotsUnique'
  BY <1>1 DEF SlotsUnique
<1>6. InOneBay' /\ HistoryMatchesBays'
  BY <1>1 DEF InOneBay, HistoryMatchesBays
<1>7. InSync'
  <2> SUFFICES ASSUME NEW k \in rows \ tainted
               PROVE /\ \A n \in bays : sim[n] = k => cache'[k] = slot'[n]
                     /\ cache'[k] # NoSlot =>
                          \E n \in bays : sim[n] = k /\ slot'[n] = cache'[k]
    BY <1>1 DEF InSync
  <2>1. k \in ICCIDs /\ k # None
    BY <1>1
  <2>2. CASE k = sim[m]
    BY <1>1, <1>2, <2>1, <2>2 DEF InOneBay
  <2>3. CASE k # sim[m]
    <3>1. cache[k] # NoSlot => \E n \in bays \ {m} : sim[n] = k /\ slot[n] = cache[k]
      BY <1>1, <2>3 DEF InSync
    <3>2. cache'[k] = cache[k]
      BY <1>1, <1>2, <2>1, <2>3, <3>1
    <3> QED BY <1>1, <2>3, <3>1, <3>2 DEF InSync
  <2> QED BY <2>2, <2>3
<1> QED BY <1>0, <1>2, <1>3, <1>4, <1>5, <1>6, <1>7

\* A modem is deleted.
LEMMA DeleteModemIInv ==
    ASSUME IInv, NEW i \in ICCIDs, DeleteModem(i)
    PROVE IInv'
<1> USE DEF IInv
<1>1. /\ InSync /\ up
      /\ \A m \in IMEIs : sim'[m] = IF sim[m] = i THEN None ELSE sim[m]
      /\ sim' \in [IMEIs -> ICCIDs \cup {None}]
      /\ rows' = rows \ {i} /\ tainted' = tainted \ {i}
      /\ cache'[i] = NoSlot /\ \A k \in ICCIDs \ {i} : cache'[k] = cache[k]
      /\ cache' \in [ICCIDs -> Slots \cup {NoSlot}]
      /\ rowIMEI' \in [ICCIDs -> IMEIs \cup {None}]
      /\ bays' = bays /\ slot' = slot /\ last' = last /\ lastCom' = lastCom
      /\ UNCHANGED startVars /\ pending' = pending
      /\ bays \subseteq IMEIs /\ rows \subseteq ICCIDs
  BY DEF DeleteModem, Unmigrated, TypeOK, eventVars
<1>0. MigrationFirst'
  BY <1>1, WorkKeepsMigration
<1>2. TypeOK'
  BY <1>1 DEF TypeOK, startVars
<1>3. Shape'
  BY <1>1 DEF Shape, startVars
<1>4. CacheUnique' /\ SlotsUnique' /\ InOneBay' /\ HistoryMatchesBays'
  BY <1>1 DEF CacheUnique, SlotsUnique, InOneBay, HistoryMatchesBays
<1>5. InSync'
  BY <1>1 DEF InSync
<1> QED BY <1>0, <1>2, <1>3, <1>4, <1>5

\* Every step keeps the invariant.
LEMMA NextIInv == IInv /\ [Next]_vars => IInv'
<1> SUFFICES ASSUME IInv, [Next]_vars PROVE IInv'
  OBVIOUS
<1>1. CASE UNCHANGED vars
  BY <1>1 DEF vars, startVars, modemVars, bayVars, eventVars, IInv, TypeOK, Shape,
       MigrationFirst, CacheUnique, SlotsUnique, InOneBay, HistoryMatchesBays, InSync,
       Unmigrated
<1>2. CASE Start \/ Crash
  BY <1>2, StartIInv
<1>3. CASE Started \/ \E i \in ICCIDs : Migrate(i)
  BY <1>3, StartedIInv, MigrateIInv
<1>4. ASSUME NEW m \in IMEIs, NEW i \in ICCIDs, Upsert(m, i) \/ Observe(m, i)
      PROVE IInv'
  BY <1>4, QuietIInv, ObserveNewIInv, ObserveChangedIInv DEF Observe
<1>5. ASSUME NEW m \in IMEIs, NEW c \in Coms, MarkEmpty(m, c)
      PROVE IInv'
  BY <1>5, MarkEmptyIInv
<1>6. ASSUME NEW m \in IMEIs, NEW s \in Slots \cup {NoSlot}, AssignSlot(m, s)
      PROVE IInv'
  BY <1>6, AssignSlotIInv
<1>7. ASSUME NEW i \in ICCIDs, DeleteModem(i)
      PROVE IInv'
  BY <1>7, DeleteModemIInv
<1> QED BY <1>1, <1>2, <1>3, <1>4, <1>5, <1>6, <1>7 DEF Next

\* The invariant holds in every behaviour.
LEMMA SpecIInv == Spec => []IInv
BY InitIInv, NextIInv, PTL DEF Spec

\* Every variable keeps its type.
THEOREM TypeCorrect == Spec => []TypeOK
<1>1. IInv => TypeOK
  BY DEF IInv
<1> QED BY <1>1, SpecIInv, PTL

\* No slot of the tray is ever given twice: the UNIQUE index of modem_bays is
\* never violated by a calibration, an inferred slot, a migration or a swap.
THEOREM SlotNumbersUnique == Spec => []SlotsUnique
<1>1. IInv => SlotsUnique
  BY DEF IInv
<1> QED BY <1>1, SpecIInv, PTL

\* No cached slot is ever given to two SIMs: syncSlotCache clears the SIM that
\* had it, so that the UNIQUE index of modems refuses none of its writes.
THEOREM CachedSlotsUnique == Spec => []CacheUnique
<1>1. IInv => CacheUnique
  BY DEF IInv
<1> QED BY <1>1, SpecIInv, PTL

\* The slot shown for a SIM is the slot of the bay that holds it, for every SIM
\* that is not tainted.
THEOREM ShownSlotFollowsBay == Spec => []CacheFollowsBay
<1>1. IInv => CacheFollowsBay
  BY DEF IInv, CacheFollowsBay, Unmigrated
<1> QED BY <1>1, SpecIInv, PTL

\* A SIM that is not tainted is recorded in one bay at most.
THEOREM SIMInOneBay == Spec => []InOneBay
<1>1. IInv => InOneBay
  BY DEF IInv
<1> QED BY <1>1, SpecIInv, PTL

\* The newest event of a SIM that is not tainted tells the bay that holds it.
THEOREM HistoryTellsBay == Spec => []HistoryMatchesBays
<1>1. IInv => HistoryMatchesBays
  BY DEF IInv
<1> QED BY <1>1, SpecIInv, PTL
=============================================================================
